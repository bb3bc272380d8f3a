---------------------- MODULE MessageCorrelationProofs ----------------------
(***************************************************************************)
(* Proofs about MessageCorrelation, for any number of workers, messages,   *)
(* receivers and process instances, whatever fails and whoever is killed.  *)
(***************************************************************************)
EXTENDS MessageCorrelation, SequenceTheorems, FiniteSetTheorems, TLAPS

(* A worker's calls are numbered from the outermost: what a call is called *)
(* does not change when it calls another.                                  *)
Nth(s, k) == s[Len(s) + 1 - k]
Rest(w) == IF Idle(w) THEN <<>> ELSE Tail(stack[w])

(* The calls of v that a step of w does not touch. *)
Kept(w, v) == IF v = w THEN Len(Rest(w)) ELSE Len(stack[v])

LEMMA NthConcat ==
    ASSUME NEW S, NEW s \in Seq(S), NEW t \in Seq(S)
    PROVE  /\ s \o t \in Seq(S) /\ Len(s \o t) = Len(s) + Len(t)
           /\ \A k \in 1..Len(t) : Nth(s \o t, k) = Nth(t, k)
           /\ \A k \in 1..Len(s) : Nth(s \o t, Len(t) + k) = Nth(s, k)
  <1>1. /\ s \o t \in Seq(S) /\ Len(s \o t) = Len(s) + Len(t)
        /\ Len(s) \in Nat /\ Len(t) \in Nat
        /\ \A i \in 1 .. Len(s) + Len(t) : (s \o t)[i] = IF i <= Len(s) THEN s[i] ELSE t[i - Len(s)]
    BY ConcatProperties, LenProperties
  <1>2. ASSUME NEW k \in 1..Len(t) PROVE Nth(s \o t, k) = Nth(t, k)
    <2>1. /\ Len(s) + Len(t) + 1 - k \in 1 .. Len(s) + Len(t)
          /\ ~(Len(s) + Len(t) + 1 - k <= Len(s))
          /\ Len(s) + Len(t) + 1 - k - Len(s) = Len(t) + 1 - k
      BY <1>1
    <2>. QED
      BY <1>1, <2>1 DEF Nth
  <1>3. ASSUME NEW k \in 1..Len(s) PROVE Nth(s \o t, Len(t) + k) = Nth(s, k)
    <2>1. /\ Len(s) + Len(t) + 1 - (Len(t) + k) = Len(s) + 1 - k
          /\ Len(s) + 1 - k \in 1 .. Len(s) + Len(t) /\ Len(s) + 1 - k <= Len(s)
      BY <1>1
    <2>. QED
      BY <1>1, <2>1 DEF Nth
  <1>. QED
    BY <1>1, <1>2, <1>3

LEMMA NthTail ==
    ASSUME NEW S, NEW s \in Seq(S), s # <<>>
    PROVE  /\ Tail(s) \in Seq(S) /\ Head(s) \in S /\ Len(s) = Len(Tail(s)) + 1 /\ Len(Tail(s)) \in Nat
           /\ \A k \in 1..Len(Tail(s)) : Nth(Tail(s), k) = Nth(s, k)
           /\ Nth(s, Len(s)) = Head(s)
  <1>1. /\ Tail(s) \in Seq(S) /\ Head(s) \in S /\ Head(s) = s[1]
        /\ Len(s) \in Nat \ {0} /\ Len(Tail(s)) = Len(s) - 1
        /\ \A k \in 1..Len(Tail(s)) : Tail(s)[k] = s[k + 1]
    BY HeadTailProperties, EmptySeq
  <1>2. ASSUME NEW k \in 1..Len(Tail(s)) PROVE Nth(Tail(s), k) = Nth(s, k)
    <2>1. /\ Len(Tail(s)) + 1 - k \in 1..Len(Tail(s))
          /\ Len(Tail(s)) + 1 - k + 1 = Len(s) + 1 - k
      BY <1>1
    <2>. QED
      BY <1>1, <2>1 DEF Nth
  <1>3. Nth(s, Len(s)) = Head(s)
    BY <1>1 DEF Nth
  <1>. QED
    BY <1>1, <1>2, <1>3

(* The stack of one worker is replaced from its last call on. *)
LEMMA Becomes ==
    ASSUME TypeOK, NEW w \in Workers, NEW new \in Seq(Call),
           stack' = [stack EXCEPT ![w] = new \o Rest(w)]
    PROVE  /\ stack' \in [Workers -> Seq(Call)]
           /\ \A v \in Workers : v # w => stack'[v] = stack[v]
           /\ Len(stack'[w]) = Len(Rest(w)) + Len(new)
           /\ \A k \in 1..Len(Rest(w)) : Nth(stack'[w], k) = Nth(stack[w], k)
           /\ \A k \in 1..Len(new) : Nth(stack'[w], Len(Rest(w)) + k) = Nth(new, k)
  <1>1. stack[w] \in Seq(Call) /\ stack'[w] = new \o Rest(w)
    BY DEF TypeOK
  <1>2. /\ Rest(w) \in Seq(Call)
        /\ \A k \in 1..Len(Rest(w)) : Nth(Rest(w), k) = Nth(stack[w], k)
    <2>1. CASE Idle(w)
      BY <2>1, EmptySeq DEF Rest
    <2>2. CASE ~Idle(w)
      BY <1>1, <2>2, NthTail DEF Rest, Idle
    <2>. QED
      BY <2>1, <2>2
  <1>3. new \o Rest(w) \in Seq(Call)
    BY <1>2, NthConcat
  <1>4. stack' \in [Workers -> Seq(Call)] /\ \A v \in Workers : v # w => stack'[v] = stack[v]
    BY <1>3 DEF TypeOK
  <1>. QED
    BY <1>1, <1>2, <1>4, NthConcat

(* What a step of w keeps, and the call it works on. *)
LEMMA TopCall ==
    ASSUME TypeOK, NEW w \in Workers
    PROVE  /\ \A v \in Workers : Len(stack[v]) \in Nat /\ Kept(w, v) \in 0..Len(stack[v])
           /\ \A v \in Workers : \A k \in 1..Len(stack[v]) : Nth(stack[v], k) \in Call
           /\ Idle(w) => Len(stack[w]) = 0 /\ Len(Rest(w)) = 0
           /\ ~Idle(w) => /\ Len(stack[w]) = Len(Rest(w)) + 1
                          /\ Top(w) = Nth(stack[w], Len(stack[w])) /\ Top(w) \in Call
  <1>1. \A v \in Workers : stack[v] \in Seq(Call) /\ Len(stack[v]) \in Nat
    BY LenProperties DEF TypeOK
  <1>2. ASSUME NEW v \in Workers, NEW k \in 1..Len(stack[v]) PROVE Nth(stack[v], k) \in Call
    <2>1. Len(stack[v]) + 1 - k \in 1..Len(stack[v])
      BY <1>1
    <2>. QED
      BY <1>1, <2>1, ElementOfSeq DEF Nth
  <1>3. ASSUME Idle(w) PROVE Len(stack[w]) = 0 /\ Len(Rest(w)) = 0
    BY <1>3, EmptySeq DEF Idle, Rest
  <1>4. ASSUME ~Idle(w)
        PROVE  /\ Len(stack[w]) = Len(Rest(w)) + 1 /\ Len(Rest(w)) \in Nat
               /\ Top(w) = Nth(stack[w], Len(stack[w])) /\ Top(w) \in Call
    BY <1>1, <1>4, NthTail DEF Idle, Rest, Top
  <1>. QED
    BY <1>1, <1>2, <1>3, <1>4 DEF Kept

-----------------------------------------------------------------------------
(* The inductive invariant *)

(* A call has claimed its message: from the claim (or the insertion as     *)
(* running) until the outcome is committed.                                *)
Owns(c) == \/ c.pc \in Working \cup {"check"}
           \/ c.pc \in {"expire", "cancel"} /\ c.back = "check"

(* A call that waits for the one it made. *)
Waits(c) == c.pc \in {"confirm", "release"} \/ (c.pc = "locked" /\ c.fresh)

Sent(s, lg) == \E r \in Receives : <<s, r>> \in lg
Got(r, lg)  == \E s \in Sends : <<s, r>> \in lg

(* Where expire_ready_send_messages returns to, and that the call has a    *)
(* message where it is about one.                                          *)
ShapeOK(c, x) ==
    /\ c.pc \in {"expire", "cancel"} => c.back \in {"list", "find", "check", "claim"}
    /\ \/ c.pc \in {"find", "insert", "claim", "answer"} \/ Owns(c)
       \/ c.pc \in {"expire", "cancel"} /\ c.back # "list"
       => c.send \in Sends
    /\ \/ c.pc \in {"deliver", "confirm", "complete", "publish", "engine", "release"}
       \/ c.pc = "locked" /\ ~c.fresh
       \/ c.recv = NoReceive
    /\ c.pc = "deliver" \/ (c.pc = "locked" /\ ~c.fresh) => c.recv \in Receives
    /\ c.fresh => c.pc \in {"locked", "deliver", "publish", "engine", "release"}
    /\ x => c.pc \in {"engine", "deliver", "publish", "try", "enqueue", "prepare"} \/ Waits(c)

(* The message a call has claimed is running; the only write that comes in *)
(* between is that of an expiry, which the call's own check then sees.     *)
ClaimOK(c, x, sd, ex, lg) ==
    Owns(c) => /\ \/ sd[c.send] = "running"
                  \/ c.pc \notin Working /\ ex[c.send] /\ sd[c.send] = "cancelled"
               /\ c.pc \notin {"confirm", "complete"} /\ ~(c.pc = "deliver" /\ x) => ~Sent(c.send, lg)

(* The receive a call has claimed is nobody else's. *)
DeliverOK(c, x, rv, lg) ==
    c.pc = "deliver" => /\ rv[c.recv] \notin {"none", "ready"}
                        /\ Got(c.recv, lg) => x /\ <<c.send, c.recv>> \in lg

(* After the delivery the call has the pair that was delivered in hand. *)
DoneOK(c, sd, lg) ==
    /\ c.pc \in {"confirm", "complete", "publish"} => <<c.send, c.recv>> \in lg
    /\ c.pc \in {"engine", "release"} =>
          IF c.send = NoSend THEN c.recv = NoReceive ELSE <<c.send, c.recv>> \in lg
    /\ c.pc \in {"publish", "engine", "release"} /\ c.send # NoSend => sd[c.send] \in {"completed", "failed"}

(* The rows an expiry is about to write were not delivered. *)
ExpiryOK(c, ex, lg) == c.pc = "cancel" => \A s \in c.sel : ex[s] /\ ~Sent(s, lg)

CallOK(c, x, sd, rv, ex, lg) ==
    /\ ShapeOK(c, x) /\ ClaimOK(c, x, sd, ex, lg) /\ DeliverOK(c, x, rv, lg)
    /\ DoneOK(c, sd, lg) /\ ExpiryOK(c, ex, lg)

(* Two calls do not have the same message, do not have the same receive,   *)
(* and neither is about to cancel what the other is delivering.            *)
Apart(c, d) ==
    /\ ~(Owns(c) /\ Owns(d) /\ c.send = d.send)
    /\ ~(c.pc = "deliver" /\ d.pc = "deliver" /\ c.recv = d.recv)
    /\ ~(c.pc = "cancel" /\ d.pc \in Working /\ d.send \in c.sel)
    /\ ~(d.pc = "cancel" /\ c.pc \in Working /\ c.send \in d.sel)

JobOK(s, c) == ~(Owns(c) /\ c.send = s) /\ ~(c.pc = "cancel" /\ s \in c.sel)

Frames ==
    \A v \in Workers :
        /\ exc[v] => Len(stack[v]) > 0
        /\ \A k \in 1..Len(stack[v]) :
              /\ CallOK(Nth(stack[v], k), exc[v] /\ k = Len(stack[v]), send, recv, expired, log)
              /\ k < Len(stack[v]) => Waits(Nth(stack[v], k))

Pairs ==
    \A v, u \in Workers : \A k \in 1..Len(stack[v]), m \in 1..Len(stack[u]) :
        v # u \/ k # m => Apart(Nth(stack[v], k), Nth(stack[u], m))

(* A start job has its message to itself. *)
JobsInv ==
    \A s \in jobs :
        /\ send[s] = "running" /\ ~Sent(s, log)
        /\ \A v \in Workers : \A k \in 1..Len(stack[v]) : JobOK(s, Nth(stack[v], k))

LogInv ==
    \A d \in log : /\ send[d[1]] \in {"running", "completed", "failed"}
                   /\ recv[d[2]] \notin {"none", "ready"}

CallsInv == Frames /\ Pairs /\ JobsInv
MsgInv == TypeOK /\ CallsInv /\ LogInv /\ AtMostOnce /\ CompletedPaired

-----------------------------------------------------------------------------
(* What a step of w may do to the messages so that the others' calls do    *)
(* not notice: it writes a send that nobody has claimed, that its own call *)
(* has claimed, that it found expired, or that is settled; it delivers     *)
(* only what its own call has in hand.                                     *)
Touches(w) ==
    /\ \A s \in Sends :
         \/ send'[s] = send[s]
         \/ send[s] \in {"none", "ready"}
         \/ send[s] \in {"completed", "failed"} /\ send'[s] \in {"completed", "failed"}
         \/ /\ ~Idle(w) /\ Owns(Top(w)) /\ Top(w).send = s
            /\ Sent(s, log') => send'[s] \in {"running", "completed", "failed"}
         \/ ~Idle(w) /\ Top(w).pc = "cancel" /\ s \in Top(w).sel /\ send'[s] = "cancelled"
    /\ \A r \in Receives : recv[r] \notin {"none", "ready"} => recv'[r] \notin {"none", "ready"}
    /\ \A s \in Sends : expired[s] => expired'[s]
    /\ \/ log' = log
       \/ At(w, "deliver") /\ log' = log \cup {<<Top(w).send, Top(w).recv>>}

(* The calls that a step leaves alone are as good as before. *)
LEMMA KeptCall ==
    ASSUME TypeOK, Frames, Pairs, LogInv, NEW w \in Workers, Touches(w),
           NEW v \in Workers, NEW k \in 1..Kept(w, v)
    PROVE  /\ CallOK(Nth(stack[v], k), exc[v] /\ k = Len(stack[v]), send', recv', expired', log')
           /\ ~Idle(w) => Apart(Top(w), Nth(stack[v], k)) /\ Apart(Nth(stack[v], k), Top(w))
           /\ v = w => k < Len(stack[v]) /\ Waits(Nth(stack[v], k))
  <1>. DEFINE c == Nth(stack[v], k)
              x == exc[v] /\ k = Len(stack[v])
              t == Top(w)
  <1>0. /\ k \in 1..Len(stack[v]) /\ Len(stack[v]) \in Nat /\ c \in Call
        /\ v = w => k < Len(stack[v]) /\ ~Idle(w)
    BY TopCall DEF Kept
  <1>1. CallOK(c, x, send, recv, expired, log) /\ (k < Len(stack[v]) => Waits(c))
    BY <1>0 DEF Frames
  <1>2. ASSUME ~Idle(w)
        PROVE  /\ Apart(t, c) /\ Apart(c, t) /\ t \in Call
               /\ CallOK(t, exc[w], send, recv, expired, log)
    <2>1. /\ Len(stack[w]) \in 1..Len(stack[w]) /\ t = Nth(stack[w], Len(stack[w])) /\ t \in Call
          /\ v = w => k # Len(stack[w])
      BY <1>0, <1>2, TopCall
    <2>2. CallOK(t, exc[w] /\ Len(stack[w]) = Len(stack[w]), send, recv, expired, log)
      BY <2>1 DEF Frames
    <2>3. Apart(t, c) /\ Apart(c, t)
      BY <1>0, <2>1 DEF Pairs
    <2>4. (exc[w] /\ Len(stack[w]) = Len(stack[w])) = exc[w]
      BY DEF TypeOK
    <2>. QED
      BY <2>1, <2>2, <2>3, <2>4
  <1>. HIDE DEF c, x, t
  <1>3. ShapeOK(c, x)
    BY <1>1 DEF CallOK
  <1>4. ClaimOK(c, x, send', expired', log')
    <2>. SUFFICES ASSUME Owns(c) PROVE ClaimOK(c, x, send', expired', log')
      BY DEF ClaimOK
    <2>1. c.send \in Sends /\ ClaimOK(c, x, send, expired, log)
      BY <1>1 DEF CallOK, ShapeOK
    <2>2. ~Idle(w) => ~(Owns(t) /\ t.send = c.send) /\ ~(t.pc = "cancel" /\ c.pc \in Working /\ c.send \in t.sel)
      BY <1>2 DEF Apart
    <2>3. ~Idle(w) /\ t.pc = "cancel" => \A s \in t.sel : expired[s]
      BY <1>2 DEF CallOK, ExpiryOK
    <2>4. \/ send'[c.send] = "running"
          \/ c.pc \notin Working /\ expired'[c.send] /\ send'[c.send] = "cancelled"
      BY <2>1, <2>2, <2>3 DEF ClaimOK, Touches, t
    <2>5. ASSUME ~Sent(c.send, log) PROVE ~Sent(c.send, log')
      <3>1. ~Idle(w) /\ t.pc = "deliver" => t.send # c.send
        BY <2>2 DEF Owns, Working
      <3>. QED
        BY SMTT(30), <2>5, <3>1 DEF Sent, Touches, At, t
    <2>. QED
      BY <2>1, <2>4, <2>5 DEF ClaimOK
  <1>5. DeliverOK(c, x, recv', log')
    <2>. SUFFICES ASSUME c.pc = "deliver" PROVE DeliverOK(c, x, recv', log')
      BY DEF DeliverOK
    <2>1. c.recv \in Receives /\ DeliverOK(c, x, recv, log)
      BY <1>1 DEF CallOK, ShapeOK
    <2>2. ~Idle(w) => ~(t.pc = "deliver" /\ t.recv = c.recv)
      BY <1>2 DEF Apart
    <2>3. Got(c.recv, log') => Got(c.recv, log)
      BY <2>2 DEF Got, Touches, At, t
    <2>4. log \subseteq log'
      BY DEF Touches
    <2>. QED
      BY <2>1, <2>3, <2>4 DEF DeliverOK, Touches
  <1>6. DoneOK(c, send', log')
    <2>1. DoneOK(c, send, log) /\ log \subseteq log'
      BY <1>1 DEF CallOK, Touches
    <2>2. ASSUME c.pc \in {"publish", "engine", "release"}, c.send # NoSend
          PROVE  send'[c.send] \in {"completed", "failed"}
      <3>1. c.send \in Sends /\ send[c.send] \in {"completed", "failed"} /\ <<c.send, c.recv>> \in log
        BY <2>1, <2>2, <1>0 DEF DoneOK, Call
      <3>2. ~Idle(w) /\ Owns(t) => send[t.send] \in {"running", "cancelled"}
        BY <1>2 DEF CallOK, ClaimOK
      <3>3. ~Idle(w) /\ t.pc = "cancel" => c.send \notin t.sel
        <4>1. Sent(c.send, log)
          BY <3>1 DEF Sent, TypeOK
        <4>. QED
          BY <4>1, <1>2 DEF CallOK, ExpiryOK
      <3>. QED
        BY <3>1, <3>2, <3>3 DEF Touches, t
    <2>. QED
      BY <2>1, <2>2 DEF DoneOK
  <1>7. ExpiryOK(c, expired', log')
    <2>. SUFFICES ASSUME c.pc = "cancel", NEW s \in c.sel PROVE expired'[s] /\ ~Sent(s, log')
      BY DEF ExpiryOK
    <2>1. expired[s] /\ ~Sent(s, log) /\ s \in Sends
      BY <1>0, <1>1 DEF CallOK, ExpiryOK, Call
    <2>2. ~Idle(w) /\ t.pc = "deliver" => t.send # s
      BY <1>2 DEF Apart, Working
    <2>. QED
      BY <2>1, <2>2 DEF Sent, Touches, At, t
  <1>. QED
    BY <1>0, <1>1, <1>2, <1>3, <1>4, <1>5, <1>6, <1>7 DEF CallOK, c, x, t

(* The calls of a worker after a step: the ones it kept, and at most two   *)
(* more, c and the one c makes to look for buffered messages.              *)
Looks(d) == d.pc = "expire" /\ d.back = "list" /\ d.fresh = FALSE /\ d.recv = NoReceive

LEMMA CallsStep ==
    ASSUME TypeOK, CallsInv, LogInv, NEW w \in Workers, Touches(w),
           NEW new \in Seq(Call), stack' = [stack EXCEPT ![w] = new \o Rest(w)],
           NEW c \in Call, NEW look \in Call, Looks(look),
           new \in {<<>>, <<c>>, <<look, c>>},
           exc' \in [Workers -> BOOLEAN], \A v \in Workers : v # w => exc'[v] = exc[v],
           new = <<>> /\ exc'[w] => Len(Rest(w)) > 0,
           new = <<c>> => CallOK(c, exc'[w], send', recv', expired', log'),
           new = <<look, c>> => /\ CallOK(c, FALSE, send', recv', expired', log')
                                /\ Waits(c) /\ ~exc'[w],
           new # <<>> => \A v \in Workers : \A k \in 1..Kept(w, v) : Apart(c, Nth(stack[v], k)),
           jobs' \subseteq Sends,
           \A s \in jobs' :
               /\ send'[s] = "running" /\ ~Sent(s, log') /\ (new # <<>> => JobOK(s, c))
               /\ \A v \in Workers : \A k \in 1..Kept(w, v) : JobOK(s, Nth(stack[v], k))
    PROVE  CallsInv'
  <1>. DEFINE B == Len(Rest(w))
  <1>0. /\ \A v \in Workers : Len(stack[v]) \in Nat /\ Kept(w, v) \in 0..Len(stack[v])
        /\ Kept(w, w) = B /\ B \in Nat
        /\ \A v \in Workers : v # w => Kept(w, v) = Len(stack[v])
    BY TopCall DEF Kept
  <1>1. /\ \A v \in Workers : v # w => stack'[v] = stack[v]
        /\ Len(stack'[w]) = B + Len(new)
        /\ \A k \in 1..B : Nth(stack'[w], k) = Nth(stack[w], k)
        /\ \A k \in 1..Len(new) : Nth(stack'[w], B + k) = Nth(new, k)
    BY Becomes
  <1>2. /\ new = <<>> => Len(new) = 0
        /\ new = <<c>> => Len(new) = 1 /\ Nth(new, 1) = c
        /\ new = <<look, c>> => Len(new) = 2 /\ Nth(new, 1) = c /\ Nth(new, 2) = look
    <2>1. /\ Len(<<>>) = 0 /\ Len(<<c>>) = 1 /\ Len(<<look, c>>) = 2
          /\ <<c>>[1] = c /\ <<look, c>>[1] = look /\ <<look, c>>[2] = c
      OBVIOUS
    <2>2. 1 + 1 - 1 = 1 /\ 2 + 1 - 1 = 2 /\ 2 + 1 - 2 = 1
      OBVIOUS
    <2>. QED
      BY <2>1, <2>2 DEF Nth
  (* Every call after the step is one of the three kinds. *)
  <1>3. ASSUME NEW v \in Workers, NEW k \in 1..Len(stack'[v])
        PROVE  \/ k \in 1..Kept(w, v) /\ Nth(stack'[v], k) = Nth(stack[v], k)
               \/ /\ v = w /\ k = B + 1 /\ Nth(stack'[v], k) = c /\ new # <<>>
                  /\ k = Len(stack'[v]) <=> new = <<c>>
               \/ v = w /\ k = B + 2 /\ Nth(stack'[v], k) = look /\ new = <<look, c>>
    <2>1. CASE v # w
      BY <1>0, <1>1, <2>1
    <2>2. CASE v = w
      <3>1. CASE k \in 1..B
        BY <1>0, <1>1, <2>2, <3>1
      <3>2. CASE k \notin 1..B
        <4>1. CASE new = <<>>
          BY <1>0, <1>1, <1>2, <2>2, <3>2, <4>1
        <4>2. CASE new = <<c>>
          BY <1>0, <1>1, <1>2, <2>2, <3>2, <4>2
        <4>3. CASE new = <<look, c>>
          <5>1. Len(stack'[v]) = B + 2 /\ k \in {B + 1, B + 2}
            BY <1>0, <1>1, <1>2, <2>2, <3>2, <4>3
          <5>2. new # <<>> /\ new # <<c>>
            BY <1>2, <4>3
          <5>3. Nth(stack'[w], B + 1) = c /\ Nth(stack'[w], B + 2) = look
            BY SMTT(30), <1>1, <1>2, <4>3
          <5>. QED
            BY <5>1, <5>2, <5>3, <2>2, <4>3, <1>0
        <4>. QED
          BY <4>1, <4>2, <4>3
      <3>. QED
        BY <3>1, <3>2
    <2>. QED
      BY <2>1, <2>2
  <1>4. /\ ~Owns(look) /\ look.pc \notin Working \cup {"deliver", "cancel"}
        /\ CallOK(look, FALSE, send', recv', expired', log')
    BY DEF Looks, Owns, Working, CallOK, ShapeOK, ClaimOK, DeliverOK, DoneOK, ExpiryOK
  <1>5. ASSUME NEW v \in Workers, NEW k \in 1..Kept(w, v)
        PROVE  /\ CallOK(Nth(stack[v], k), exc[v] /\ k = Len(stack[v]), send', recv', expired', log')
               /\ v = w => k < Len(stack[v]) /\ Waits(Nth(stack[v], k))
    BY KeptCall DEF CallsInv
  <1>6. Frames'
    <2>1. ASSUME NEW v \in Workers, NEW k \in 1..Len(stack'[v])
          PROVE  /\ CallOK(Nth(stack'[v], k), exc'[v] /\ k = Len(stack'[v]), send', recv', expired', log')
                 /\ k < Len(stack'[v]) => Waits(Nth(stack'[v], k))
      <3>1. CASE k \in 1..Kept(w, v) /\ Nth(stack'[v], k) = Nth(stack[v], k)
        <4>. DEFINE d == Nth(stack[v], k)
        <4>1. CASE v # w
          <5>1. stack'[v] = stack[v] /\ exc'[v] = exc[v] /\ k \in 1..Len(stack[v])
            BY <1>1, <4>1
          <5>2. k < Len(stack[v]) => Waits(d)
            BY <5>1 DEF CallsInv, Frames
          <5>. QED
            BY <5>1, <5>2, <1>5, <3>1
        <4>2. CASE v = w
          <5>1. Waits(d) /\ CallOK(d, exc[v] /\ k = Len(stack[v]), send', recv', expired', log') /\ k < Len(stack[v])
            BY <1>5, <3>1, <4>2
          <5>2. (exc[v] /\ k = Len(stack[v])) = FALSE
            BY <5>1, <1>0
          <5>3. CallOK(d, FALSE, send', recv', expired', log')
            BY <5>1, <5>2
          <5>4. ASSUME NEW x \in BOOLEAN PROVE CallOK(d, x, send', recv', expired', log')
            BY <5>1, <5>3 DEF Waits, CallOK, ShapeOK, ClaimOK, DeliverOK
          <5>5. (exc'[v] /\ k = Len(stack'[v])) \in BOOLEAN
            OBVIOUS
          <5>. QED
            BY <5>1, <5>4, <5>5, <3>1
        <4>. QED
          BY <4>1, <4>2
      <3>2. CASE /\ v = w /\ k = B + 1 /\ Nth(stack'[v], k) = c /\ new # <<>>
                 /\ k = Len(stack'[v]) <=> new = <<c>>
        <4>1. CASE new = <<c>>
          <5>1. (exc'[v] /\ k = Len(stack'[v])) = exc'[w] /\ ~(k < Len(stack'[v]))
            BY <3>2, <4>1, <1>0
          <5>. QED
            BY <3>2, <4>1, <5>1
        <4>2. CASE new = <<look, c>>
          <5>1. (exc'[v] /\ k = Len(stack'[v])) = FALSE
            BY <3>2, <4>2
          <5>. QED
            BY <3>2, <4>2, <5>1
        <4>. QED
          BY <3>2, <4>1, <4>2
      <3>3. CASE v = w /\ k = B + 2 /\ Nth(stack'[v], k) = look /\ new = <<look, c>>
        <4>1. (exc'[v] /\ k = Len(stack'[v])) = FALSE /\ ~(k < Len(stack'[v]))
          BY <3>3, <1>0, <1>1, <1>2
        <4>. QED
          BY <3>3, <4>1, <1>4
      <3>. QED
        BY <2>1, <1>3, <3>1, <3>2, <3>3
    <2>2. ASSUME NEW v \in Workers, exc'[v] PROVE Len(stack'[v]) > 0
      <3>1. CASE v # w
        BY <3>1, <2>2, <1>1 DEF CallsInv, Frames
      <3>2. CASE v = w
        BY <3>2, <2>2, <1>0, <1>1, <1>2
      <3>. QED
        BY <3>1, <3>2
    <2>. QED
      BY <2>1, <2>2 DEF Frames
  <1>7. Pairs'
    <2>1. ASSUME NEW v \in Workers, NEW u \in Workers,
                 NEW k \in 1..Len(stack'[v]), NEW m \in 1..Len(stack'[u]), v # u \/ k # m
          PROVE  Apart(Nth(stack'[v], k), Nth(stack'[u], m))
      <3>. DEFINE a == Nth(stack'[v], k)
                  b == Nth(stack'[u], m)
      <3>1. \/ k \in 1..Kept(w, v) /\ a = Nth(stack[v], k)
            \/ v = w /\ k = B + 1 /\ a = c /\ new # <<>>
            \/ a = look
        BY <1>3
      <3>2. \/ m \in 1..Kept(w, u) /\ b = Nth(stack[u], m)
            \/ u = w /\ m = B + 1 /\ b = c /\ new # <<>>
            \/ b = look
        BY <1>3
      <3>. SUFFICES Apart(a, b)
        OBVIOUS
      <3>. HIDE DEF a, b
      <3>3. CASE a = look \/ b = look
        BY <3>3, <1>4 DEF Apart
      <3>4. CASE k \in 1..Kept(w, v) /\ a = Nth(stack[v], k) /\ m \in 1..Kept(w, u) /\ b = Nth(stack[u], m)
        BY <2>1, <3>4, <1>0 DEF CallsInv, Pairs
      <3>5. CASE a = c /\ new # <<>> /\ m \in 1..Kept(w, u) /\ b = Nth(stack[u], m)
        BY <3>5
      <3>6. CASE b = c /\ new # <<>> /\ k \in 1..Kept(w, v) /\ a = Nth(stack[v], k)
        <4>1. Apart(b, a)
          BY <3>6
        <4>. QED
          BY <4>1 DEF Apart
      <3>. QED
        BY <2>1, <3>1, <3>2, <3>3, <3>4, <3>5, <3>6
    <2>. QED
      BY <2>1 DEF Pairs
  <1>8. JobsInv'
    <2>1. ASSUME NEW s \in jobs', NEW v \in Workers, NEW k \in 1..Len(stack'[v])
          PROVE  JobOK(s, Nth(stack'[v], k))
      <3>1. CASE Nth(stack'[v], k) = look
        BY <3>1, <1>4 DEF JobOK
      <3>. QED
        BY <3>1, <1>3
    <2>. QED
      BY <2>1 DEF JobsInv
  <1>. QED
    BY <1>6, <1>7, <1>8 DEF CallsInv

(* The call a worker is in. *)
LEMMA TopOK ==
    ASSUME MsgInv, NEW w \in Workers, ~Idle(w)
    PROVE  /\ Top(w) \in Call /\ exc[w] \in BOOLEAN
           /\ CallOK(Top(w), exc[w], send, recv, expired, log)
           /\ Rest(w) = Tail(stack[w]) /\ Rest(w) \in Seq(Call) /\ Len(Rest(w)) \in Nat
           /\ Len(stack[w]) = Len(Rest(w)) + 1
  <1>1. /\ Len(stack[w]) \in 1..Len(stack[w]) /\ Top(w) = Nth(stack[w], Len(stack[w])) /\ Top(w) \in Call
        /\ stack[w] \in Seq(Call) /\ exc[w] \in BOOLEAN
        /\ Len(Rest(w)) \in Nat /\ Len(stack[w]) = Len(Rest(w)) + 1
    BY TopCall DEF MsgInv, TypeOK, Kept
  <1>2. CallOK(Top(w), exc[w] /\ Len(stack[w]) = Len(stack[w]), send, recv, expired, log)
    BY <1>1 DEF MsgInv, CallsInv, Frames
  <1>3. (exc[w] /\ Len(stack[w]) = Len(stack[w])) = exc[w]
    BY <1>1
  <1>4. Rest(w) = Tail(stack[w]) /\ Rest(w) \in Seq(Call)
    BY <1>1, HeadTailProperties DEF Rest, Idle
  <1>. QED
    BY <1>1, <1>2, <1>3, <1>4

(* A message is logged where it was delivered, and there only. *)
LEMMA LogStep ==
    ASSUME MsgInv, NEW w \in Workers, Touches(w)
    PROVE  LogInv' /\ AtMostOnce'
  <1>. DEFINE t == Top(w)
  <1>0. LogInv /\ AtMostOnce /\ log \subseteq Sends \X Receives
    BY DEF MsgInv, TypeOK
  <1>1. ~Idle(w) => t \in Call /\ CallOK(t, exc[w], send, recv, expired, log)
    BY TopOK
  <1>. HIDE DEF t
  <1>2. ASSUME At(w, "deliver")
        PROVE  /\ t.send \in Sends /\ t.recv \in Receives /\ send[t.send] = "running"
               /\ recv[t.recv] \notin {"none", "ready"}
               /\ ~Sent(t.send, log) /\ ~Got(t.recv, log)
    <2>1. ~Idle(w) /\ ~exc[w] /\ t.pc = "deliver"
      BY <1>2 DEF At, t
    <2>. QED
      BY <1>1, <2>1 DEF CallOK, ShapeOK, ClaimOK, DeliverOK, Owns, Working
  <1>3. ASSUME NEW d \in log
        PROVE  d \in Sends \X Receives /\ Sent(d[1], log) /\ Got(d[2], log)
    BY <1>0 DEF Sent, Got
  <1>4. LogInv'
    <2>1. ASSUME NEW d \in log'
          PROVE  /\ d[1] \in Sends /\ d[2] \in Receives
                 /\ send[d[1]] \in {"running", "completed", "failed"}
                 /\ recv[d[2]] \notin {"none", "ready"} /\ Sent(d[1], log')
      <3>1. CASE d \in log
        <4>1. d \in Sends \X Receives /\ log \subseteq log'
          BY <1>3, <3>1 DEF Touches
        <4>. QED
          BY <1>0, <3>1, <4>1 DEF LogInv, Sent
      <3>2. CASE d \notin log
        <4>1. At(w, "deliver") /\ d = <<t.send, t.recv>>
          BY <3>2 DEF Touches, t
        <4>. QED
          BY <1>2, <4>1 DEF Sent
      <3>. QED
        BY <3>1, <3>2
    <2>2. ASSUME NEW d \in log' PROVE send'[d[1]] \in {"running", "completed", "failed"}
      <3>1. ~(~Idle(w) /\ t.pc = "cancel" /\ d[1] \in t.sel)
        <4>. SUFFICES ASSUME ~Idle(w), t.pc = "cancel", d[1] \in t.sel PROVE FALSE
          OBVIOUS
        <4>1. ~Sent(d[1], log) /\ ~At(w, "deliver")
          BY <1>1 DEF CallOK, ExpiryOK, At, t
        <4>. QED
          BY <4>1, <2>1 DEF Touches
      <3>. QED
        BY <2>1, <2>2, <3>1 DEF Touches, t
    <2>. QED
      BY <2>1, <2>2 DEF LogInv, Touches
  <1>5. AtMostOnce'
    <2>. SUFFICES ASSUME NEW d \in log', NEW e \in log', d[1] = e[1] \/ d[2] = e[2]
                  PROVE  d = e
      BY DEF AtMostOnce
    <2>1. CASE d \in log /\ e \in log
      BY <1>0, <2>1 DEF AtMostOnce
    <2>2. CASE ~(d \in log /\ e \in log)
      <3>1. /\ At(w, "deliver")
            /\ d = <<t.send, t.recv>> \/ d \in log
            /\ e = <<t.send, t.recv>> \/ e \in log
        BY <2>2 DEF Touches, t
      <3>. QED
        BY <1>2, <1>3, <2>2, <3>1
    <2>. QED
      BY <2>1, <2>2
  <1>. QED
    BY <1>4, <1>5

(* Start jobs keep their messages. *)
LEMMA JobsKept ==
    ASSUME MsgInv, NEW w \in Workers, Touches(w), NEW s \in jobs
    PROVE  /\ s \in Sends /\ send'[s] = "running" /\ ~Sent(s, log')
           /\ ~Idle(w) => JobOK(s, Top(w))
           /\ \A v \in Workers : \A k \in 1..Kept(w, v) : JobOK(s, Nth(stack[v], k))
  <1>1. /\ s \in Sends /\ send[s] = "running" /\ ~Sent(s, log)
        /\ \A v \in Workers : \A k \in 1..Len(stack[v]) : JobOK(s, Nth(stack[v], k))
    BY DEF MsgInv, TypeOK, CallsInv, JobsInv
  <1>2. TypeOK
    BY DEF MsgInv
  <1>3. ~Idle(w) => JobOK(s, Top(w))
    <2>. SUFFICES ASSUME ~Idle(w) PROVE JobOK(s, Top(w))
      OBVIOUS
    <2>1. Len(stack[w]) \in 1..Len(stack[w]) /\ Top(w) = Nth(stack[w], Len(stack[w]))
      BY <1>2, TopCall, TopOK
    <2>. QED
      BY <1>1, <2>1
  <1>4. \A v \in Workers : \A k \in 1..Kept(w, v) : k \in 1..Len(stack[v])
    BY <1>2, TopCall
  <1>5. send'[s] = "running"
    BY <1>1, <1>3 DEF Touches, JobOK
  <1>6. ~Sent(s, log')
    BY <1>1, <1>3 DEF Touches, JobOK, At, Sent, Owns, Working
  <1>. QED
    BY <1>1, <1>3, <1>4, <1>5, <1>6

(* The call goes on without claiming anything it had not claimed. *)
Tame(c, t) ==
    /\ Owns(c) => Owns(t) /\ c.send = t.send
    /\ c.pc = "deliver" => t.pc = "deliver" /\ c.recv = t.recv
    /\ c.pc # "cancel"
    /\ c.pc \in Working => t.pc \in Working /\ c.send = t.send

LEMMA TameStep ==
    ASSUME MsgInv, TypeOK', CompletedPaired', NEW w \in Workers, ~Idle(w), Touches(w),
           NEW new \in Seq(Call), stack' = [stack EXCEPT ![w] = new \o Rest(w)],
           NEW c \in Call, NEW look \in Call, Looks(look),
           new \in {<<>>, <<c>>, <<look, c>>},
           \A v \in Workers : v # w => exc'[v] = exc[v],
           new = <<>> /\ exc'[w] => Len(Rest(w)) > 0,
           new = <<c>> => CallOK(c, exc'[w], send', recv', expired', log'),
           new = <<look, c>> => /\ CallOK(c, FALSE, send', recv', expired', log')
                                /\ Waits(c) /\ ~exc'[w],
           new # <<>> => Tame(c, Top(w)),
           jobs' \subseteq jobs
    PROVE  MsgInv'
  <1>. DEFINE t == Top(w)
  <1>1. TypeOK /\ CallsInv /\ LogInv /\ exc' \in [Workers -> BOOLEAN] /\ jobs' \subseteq Sends
    BY DEF MsgInv, TypeOK
  <1>2. ASSUME NEW v \in Workers, NEW k \in 1..Kept(w, v), new # <<>> PROVE Apart(c, Nth(stack[v], k))
    <2>1. Apart(Top(w), Nth(stack[v], k))
      BY <1>1, KeptCall DEF CallsInv
    <2>. QED
      BY <1>2, <2>1 DEF Tame, Apart
  <1>3. ASSUME NEW s \in jobs'
        PROVE  /\ send'[s] = "running" /\ ~Sent(s, log') /\ (new # <<>> => JobOK(s, c))
               /\ \A v \in Workers : \A k \in 1..Kept(w, v) : JobOK(s, Nth(stack[v], k))
    <2>1. /\ send'[s] = "running" /\ ~Sent(s, log') /\ JobOK(s, Top(w))
          /\ \A v \in Workers : \A k \in 1..Kept(w, v) : JobOK(s, Nth(stack[v], k))
      BY JobsKept
    <2>. QED
      BY <2>1 DEF Tame, JobOK
  <1>4. CallsInv'
    BY ZenonT(40), <1>1, <1>2, <1>3, CallsStep
  <1>. QED
    BY <1>4, LogStep DEF MsgInv

(* What was completed stays paired where no pair is written. *)
LEMMA PairedKept ==
    ASSUME MsgInv, UNCHANGED <<to, from>>, log \subseteq log',
           \A s \in Sends : send'[s] = "completed" => send[s] = "completed",
           \A r \in Receives : recv[r] = "completed" => recv'[r] = "completed"
    PROVE  CompletedPaired'
  <1>1. CompletedPaired /\ to \in [Sends -> Receives \cup {NoReceive}]
    BY DEF MsgInv, TypeOK
  <1>. QED
    BY <1>1 DEF CompletedPaired

-----------------------------------------------------------------------------
(* The kinds of step *)

(* Types of what the calls' invariant does not mention, and of the rows. *)
EnvOK ==
    /\ inst \in [Instances -> {"none", "reserved", "open", "closed"}]
    /\ place \in [Sends -> Instances \cup {NoInstance}] /\ deployed \in BOOLEAN
    /\ holders \in [Instances -> SUBSET Workers]
RowsOK ==
    /\ send \in [Sends -> SendStatus] /\ recv \in [Receives -> RecvStatus]
    /\ to \in [Sends -> Receives \cup {NoReceive}] /\ from \in [Receives -> Sends \cup {NoSend}]
    /\ expired \in [Sends -> BOOLEAN]

LEMMA NewCallOK ==
    /\ NewCall \in Call /\ Looks(NewCall)
    /\ \A i \in Instances \cup {NoInstance} : LookForBuffered(i) \in Call /\ Looks(LookForBuffered(i))
  <1>1. NewCall \in Call /\ Looks(NewCall)
    BY DEF NewCall, Call, PCs, Looks
  <1>2. ASSUME NEW i \in Instances \cup {NoInstance}
        PROVE  LookForBuffered(i) \in Call /\ Looks(LookForBuffered(i))
    BY <1>1 DEF LookForBuffered, Call, Looks
  <1>. QED
    BY <1>1, <1>2

(* A call that has claimed nothing. *)
Harmless(c) ==
    /\ ~c.fresh /\ c.recv = NoReceive
    /\ \/ c.pc \in {"list", "next"} \/ Looks(c)
       \/ c.send \in Sends /\ c.pc \in {"find", "insert", "answer", "claim"}
       \/ c.send \in Sends /\ c.pc = "expire" /\ c.back \in {"find", "claim"}

LEMMA HarmlessOK ==
    ASSUME NEW c, Harmless(c)
    PROVE  /\ \A sd, rv, ex, lg : CallOK(c, FALSE, sd, rv, ex, lg)
           /\ \A d : Tame(c, d) /\ Apart(c, d)
           /\ \A s : JobOK(s, c)
  BY DEF Harmless, Looks, CallOK, ShapeOK, ClaimOK, DeliverOK, DoneOK, ExpiryOK, Owns, Working,
         Tame, Apart, JobOK

(* A step of a call. *)
LEMMA CallStep ==
    ASSUME MsgInv, NEW w \in Workers, ~Idle(w), Touches(w), EnvOK', RowsOK', CompletedPaired',
           NEW new \in Seq(Call), stack' = [stack EXCEPT ![w] = new \o Rest(w)],
           NEW c \in Call, NEW look \in Call, Looks(look),
           new \in {<<>>, <<c>>, <<look, c>>},
           exc' \in [Workers -> BOOLEAN], \A v \in Workers : v # w => exc'[v] = exc[v],
           new = <<>> /\ exc'[w] => Len(Rest(w)) > 0,
           new = <<c>> => CallOK(c, exc'[w], send', recv', expired', log'),
           new = <<look, c>> => /\ CallOK(c, FALSE, send', recv', expired', log')
                                /\ Waits(c) /\ ~exc'[w],
           new # <<>> => Tame(c, Top(w)),
           jobs' \subseteq jobs
    PROVE  MsgInv'
  <1>1. TypeOK
    BY DEF MsgInv
  <1>2. stack' \in [Workers -> Seq(Call)]
    BY <1>1, Becomes
  <1>3. log' \subseteq Sends \X Receives
    <2>1. At(w, "deliver") => Top(w).send \in Sends /\ Top(w).recv \in Receives
      BY TopOK DEF At, CallOK, ShapeOK, Owns, Working
    <2>. QED
      BY <1>1, <2>1 DEF Touches, TypeOK
  <1>4. TypeOK'
    BY <1>1, <1>2, <1>3 DEF TypeOK, EnvOK, RowsOK
  <1>. QED
    BY <1>4, TameStep

LEMMA OneCall == \A c \in Call : <<c>> \in Seq(Call) /\ <<c>> # <<>>
  OBVIOUS

(* The call goes on. *)
LEMMA SetStep ==
    ASSUME MsgInv, NEW w \in Workers, ~Idle(w), ~exc[w], Touches(w), EnvOK', RowsOK', CompletedPaired',
           NEW c \in Call, Set(w, c), Tame(c, Top(w)),
           CallOK(c, FALSE, send', recv', expired', log'),
           UNCHANGED exc, jobs' \subseteq jobs
    PROVE  MsgInv'
  <1>1. stack' = [stack EXCEPT ![w] = <<c>> \o Rest(w)]
    BY TopOK DEF Set
  <1>2. exc' \in [Workers -> BOOLEAN] /\ exc'[w] = FALSE
    BY DEF MsgInv, TypeOK
  <1>. DEFINE new == <<c>>
  <1>3. new \in Seq(Call) /\ new # <<>> /\ new # <<NewCall, c>>
    <2>1. Len(<<c>>) # Len(<<NewCall, c>>)
      OBVIOUS
    <2>. QED
      BY <2>1, OneCall
  <1>. HIDE DEF new
  <1>4. new \in {<<>>, <<c>>, <<NewCall, c>>}
    BY DEF new
  <1>5. stack' = [stack EXCEPT ![w] = new \o Rest(w)]
    BY <1>1 DEF new
  <1>. QED
    BY <1>2, <1>3, <1>4, <1>5, NewCallOK, CallStep

(* The call returns. *)
LEMMA PopStep ==
    ASSUME MsgInv, NEW w \in Workers, ~Idle(w), Touches(w), EnvOK', RowsOK', CompletedPaired',
           Pop(w), exc' \in [Workers -> BOOLEAN], \A v \in Workers : v # w => exc'[v] = exc[v],
           exc'[w] => Len(stack[w]) > 1, jobs' \subseteq jobs
    PROVE  MsgInv'
  <1>. DEFINE new == <<>>
  <1>1. Rest(w) = Tail(stack[w]) /\ Rest(w) \in Seq(Call) /\ Top(w) \in Call
        /\ Len(Rest(w)) \in Nat /\ Len(stack[w]) = Len(Rest(w)) + 1
    BY TopOK
  <1>2. stack' = [stack EXCEPT ![w] = new \o Rest(w)]
    BY <1>1, ConcatEmptySeq DEF Pop
  <1>3. new \in Seq(Call) /\ new # <<Top(w)>> /\ new # <<NewCall, Top(w)>>
    <2>1. Len(<<>>) = 0 /\ Len(<<Top(w)>>) = 1 /\ Len(<<NewCall, Top(w)>>) = 2
      OBVIOUS
    <2>. QED
      BY <2>1, EmptySeq
  <1>4. new = <<>> /\ exc'[w] => Len(Rest(w)) > 0
    BY <1>1
  <1>5. new = <<>>
    OBVIOUS
  <1>. HIDE DEF new
  <1>6. new \in {<<>>, <<Top(w)>>, <<NewCall, Top(w)>>}
    BY <1>5
  <1>. QED
    BY <1>1, <1>2, <1>3, <1>4, <1>5, <1>6, NewCallOK, CallStep

(* The call raises. *)
LEMMA ThrowStep ==
    ASSUME MsgInv, NEW w \in Workers, ~Idle(w), ~exc[w], Throw(w),
           Top(w).pc \in {"engine", "deliver", "publish", "try", "enqueue", "prepare"} \/ Waits(Top(w)),
           UNCHANGED <<send, recv, to, from, expired, inst, place, deployed, jobs, holders, stack>>,
           \/ log' = log
           \/ Top(w).pc = "deliver" /\ log' = log \cup {<<Top(w).send, Top(w).recv>>}
    PROVE  MsgInv'
  <1>. DEFINE t == Top(w)
              new == <<t>>
  <1>1. /\ t \in Call /\ CallOK(t, FALSE, send, recv, expired, log)
        /\ Rest(w) = Tail(stack[w])
    <2>1. exc[w] = FALSE
      BY TopOK
    <2>. QED
      BY <2>1, TopOK
  <1>2. stack' = [stack EXCEPT ![w] = new \o Rest(w)]
    <2>1. stack \in [Workers -> Seq(Call)] /\ stack[w] \in Seq(Call) /\ stack[w] # <<>>
      BY DEF MsgInv, TypeOK, Idle
    <2>2. <<Head(stack[w])>> \o Tail(stack[w]) = stack[w]
      <3>1. /\ Head(stack[w]) \in Call /\ Tail(stack[w]) \in Seq(Call) /\ Head(stack[w]) = stack[w][1]
            /\ Len(stack[w]) \in Nat \ {0} /\ Len(Tail(stack[w])) = Len(stack[w]) - 1
            /\ \A k \in 1..Len(Tail(stack[w])) : Tail(stack[w])[k] = stack[w][k + 1]
        BY <2>1, HeadTailProperties, EmptySeq
      <3>. DEFINE h == <<Head(stack[w])>>
                  u == h \o Tail(stack[w])
      <3>2. h \in Seq(Call) /\ Len(h) = 1 /\ h[1] = stack[w][1]
        BY <3>1
      <3>. HIDE DEF h
      <3>3. /\ u \in Seq(Call) /\ Len(u) = Len(stack[w])
            /\ \A k \in 1..1 + Len(Tail(stack[w])) :
                   u[k] = IF k <= 1 THEN h[k] ELSE Tail(stack[w])[k - 1]
        <4>1. /\ u \in Seq(Call) /\ Len(u) = Len(h) + Len(Tail(stack[w]))
              /\ \A k \in 1..Len(h) + Len(Tail(stack[w])) :
                     u[k] = IF k <= Len(h) THEN h[k] ELSE Tail(stack[w])[k - Len(h)]
          BY <3>1, <3>2, ConcatProperties
        <4>. QED
          BY <3>1, <3>2, <4>1
      <3>4. ASSUME NEW k \in 1..Len(stack[w]) PROVE u[k] = stack[w][k]
        <4>1. CASE k = 1
          BY <3>1, <3>2, <3>3, <4>1
        <4>2. CASE k # 1
          <5>1. k - 1 \in 1..Len(Tail(stack[w])) /\ k - 1 + 1 = k /\ ~(k <= 1)
            BY <3>1, <4>2
          <5>2. Tail(stack[w])[k - 1] = stack[w][k - 1 + 1]
            BY <3>1, <5>1
          <5>. QED
            BY <3>1, <3>3, <5>1, <5>2
        <4>. QED
          BY <4>1, <4>2
      <3>. HIDE DEF u
      <3>5. u = stack[w]
        BY <2>1, <3>3, <3>4, SeqEqual
      <3>. QED
        BY <3>5 DEF u, h
    <2>. QED
      BY <1>1, <2>1, <2>2 DEF Top
  <1>3. Touches(w)
    BY DEF Touches, At
  <1>4. CallOK(t, TRUE, send, recv, expired, log')
    <2>. HIDE DEF t
    <2>1. ShapeOK(t, TRUE)
      BY <1>1 DEF CallOK, ShapeOK, t
    <2>2. ClaimOK(t, TRUE, send, expired, log')
      BY <1>1 DEF CallOK, ClaimOK, t
    <2>3. DeliverOK(t, TRUE, recv, log')
      <3>. SUFFICES ASSUME t.pc = "deliver", Got(t.recv, log') PROVE <<t.send, t.recv>> \in log'
        BY <1>1 DEF CallOK, DeliverOK
      <3>1. ~Got(t.recv, log)
        BY <1>1 DEF CallOK, DeliverOK
      <3>. QED
        BY <3>1 DEF t
    <2>4. DoneOK(t, send, log') /\ ExpiryOK(t, expired, log')
      BY <1>1 DEF CallOK, DoneOK, ExpiryOK, t
    <2>. QED
      BY <2>1, <2>2, <2>3, <2>4 DEF CallOK
  <1>5. exc' \in [Workers -> BOOLEAN] /\ exc'[w] = TRUE /\ \A v \in Workers : v # w => exc'[v] = exc[v]
    BY DEF MsgInv, TypeOK, Throw
  <1>6. EnvOK' /\ RowsOK' /\ CompletedPaired' /\ jobs' \subseteq jobs
    BY PairedKept DEF MsgInv, TypeOK, EnvOK, RowsOK
  <1>7. new \in Seq(Call) /\ new # <<>> /\ new # <<NewCall, t>>
    <2>1. Len(<<t>>) # Len(<<NewCall, t>>)
      OBVIOUS
    <2>. QED
      BY <1>1, <2>1, OneCall
  <1>. HIDE DEF new
  <1>8. new \in {<<>>, <<t>>, <<NewCall, t>>}
    BY DEF new
  <1>9. Tame(t, Top(w)) \/ t.pc = "cancel"
    BY DEF Tame
  <1>10. t.pc # "cancel"
    BY DEF Waits
  <1>. QED
    BY <1>1, <1>2, <1>3, <1>4, <1>5, <1>6, <1>7, <1>8, <1>9, <1>10, NewCallOK, CallStep

(* A worker begins. *)
LEMMA BeginStep ==
    ASSUME MsgInv, NEW w \in Workers, Idle(w), NEW c \in Call, Push(w, c), EnvOK',
           UNCHANGED <<messages, exc>>, jobs' \subseteq jobs,
           CallOK(c, FALSE, send, recv, expired, log),
           \A v \in Workers : \A k \in 1..Len(stack[v]) : Apart(c, Nth(stack[v], k)),
           \A s \in jobs' : JobOK(s, c)
    PROVE  MsgInv'
  <1>. DEFINE new == <<c>>
  <1>0. TypeOK /\ CallsInv /\ LogInv
    BY DEF MsgInv
  <1>1. /\ UNCHANGED <<send, recv, to, from, expired, log>>
        /\ Touches(w)
    BY DEF messages, Touches
  <1>2. stack' = [stack EXCEPT ![w] = new \o Rest(w)]
    BY DEF Push, Rest, Idle
  <1>3. new \in Seq(Call) /\ new # <<>> /\ new # <<NewCall, c>>
    <2>1. Len(<<c>>) # Len(<<NewCall, c>>)
      OBVIOUS
    <2>. QED
      BY <2>1, OneCall
  <1>. HIDE DEF new
  <1>4. new \in {<<>>, <<c>>, <<NewCall, c>>}
    BY DEF new
  <1>5. /\ exc' \in [Workers -> BOOLEAN] /\ exc'[w] = FALSE /\ jobs' \subseteq Sends
        /\ \A v \in Workers : v # w => exc'[v] = exc[v]
    <2>1. Len(stack[w]) = 0
      BY <1>0, TopCall
    <2>. QED
      BY <1>0, <2>1 DEF TypeOK, CallsInv, Frames
  <1>6. /\ \A v \in Workers : \A k \in 1..Kept(w, v) : Apart(c, Nth(stack[v], k))
        /\ CallOK(c, exc'[w], send', recv', expired', log')
    <2>1. \A v \in Workers : \A k \in 1..Kept(w, v) : k \in 1..Len(stack[v])
      BY <1>0, TopCall
    <2>. QED
      BY <1>1, <1>5, <2>1
  <1>7. ASSUME NEW s \in jobs'
        PROVE  /\ send'[s] = "running" /\ ~Sent(s, log') /\ (new # <<>> => JobOK(s, c))
               /\ \A v \in Workers : \A k \in 1..Kept(w, v) : JobOK(s, Nth(stack[v], k))
    BY <1>1, JobsKept
  <1>8. CallsInv'
    BY <1>0, <1>1, <1>2, <1>3, <1>4, <1>5, <1>6, <1>7, NewCallOK, CallsStep
  <1>9. TypeOK'
    <2>1. stack' \in [Workers -> Seq(Call)]
      BY <1>0, <1>2, <1>3, Becomes
    <2>. QED
      BY <1>0, <1>1, <1>5, <2>1 DEF TypeOK, EnvOK
  <1>10. CompletedPaired'
    BY <1>1, PairedKept
  <1>. QED
    BY <1>1, <1>8, <1>9, <1>10, LogStep DEF MsgInv

(* What running an engine does to the rows. *)
LEMMA WaitingOK ==
    ASSUME RowsOK, NEW i, NEW rv \in QueueWaiting(i)
    PROVE  /\ rv \in [Receives -> RecvStatus]
           /\ \A r \in Receives : recv[r] \notin {"none", "ready"} => rv[r] = recv[r]
  <1>. DEFINE a == [r \in Receives |-> IF r \in Ready(recv, i) THEN "cancelled" ELSE recv[r]]
  <1>1. \/ rv = a \/ rv = recv
        \/ \E q \in Receives : recv[q] = "none" /\ rv = [recv EXCEPT ![q] = "ready"]
    BY DEF QueueWaiting
  <1>2. CASE rv = a
    BY <1>2 DEF RowsOK, RecvStatus, Ready
  <1>3. CASE rv = recv
    BY <1>3 DEF RowsOK
  <1>4. CASE \E q \in Receives : recv[q] = "none" /\ rv = [recv EXCEPT ![q] = "ready"]
    BY <1>4 DEF RowsOK, RecvStatus
  <1>. QED
    BY <1>1, <1>2, <1>3, <1>4

LEMMA ThrownOK ==
    ASSUME RowsOK, NEW sd \in Thrown
    PROVE  /\ sd \in [Sends -> SendStatus]
           /\ \A s \in Sends : sd[s] = send[s] \/ (send[s] = "none" /\ sd[s] = "ready")
  <1>1. \/ sd = send
        \/ \E q \in Sends : send[q] = "none" /\ sd = [send EXCEPT ![q] = "ready"]
    BY DEF Thrown
  <1>. QED
    BY <1>1 DEF RowsOK, SendStatus

LEMMA TwoCalls ==
    ASSUME NEW d \in Call, NEW c \in Call
    PROVE  <<d>> \o <<c>> = <<d, c>> /\ <<d, c>> \in Seq(Call) /\ <<d, c>> # <<>>
  <1>. DEFINE a == <<d>>
              b == <<c>>
              t == <<d, c>>
  <1>1. /\ a \in Seq(Call) /\ b \in Seq(Call) /\ t \in Seq(Call) /\ t # <<>>
        /\ Len(a) = 1 /\ Len(b) = 1 /\ Len(t) = 2
        /\ a[1] = d /\ b[1] = c /\ t[1] = d /\ t[2] = c
    OBVIOUS
  <1>. HIDE DEF a, b, t
  <1>2. /\ a \o b \in Seq(Call) /\ Len(a \o b) = Len(a) + Len(b)
        /\ \A k \in 1..Len(a) + Len(b) : (a \o b)[k] = IF k <= Len(a) THEN a[k] ELSE b[k - Len(a)]
    BY <1>1, ConcatProperties
  <1>3. Len(a \o b) = 2 /\ (a \o b)[1] = d /\ (a \o b)[2] = c
    BY <1>1, <1>2
  <1>4. \A k \in 1..2 : (a \o b)[k] = t[k]
    BY <1>1, <1>3
  <1>5. a \o b = t
    BY <1>1, <1>2, <1>3, <1>4, SeqEqual
  <1>. QED
    BY <1>1, <1>5 DEF a, b, t

(* A saving run of the engine by a call that waits for it. *)
LEMMA RunStep ==
    ASSUME MsgInv, NEW w \in Workers, ~Idle(w), ~exc[w], Touches(w),
           NEW c \in Call, RunEngine(w, c), Tame(c, Top(w)), Waits(c), c.target \in Instances \cup {NoInstance},
           CallOK(c, FALSE, send', recv', expired', log'),
           send' \in Thrown, UNCHANGED <<to, from, expired, deployed, jobs, exc>>,
           place' \in [Sends -> Instances \cup {NoInstance}],
           holders' \in [Instances -> SUBSET Workers]
    PROVE  MsgInv'
  <1>. DEFINE look == LookForBuffered(c.target)
  <1>0. TypeOK /\ RowsOK
    BY DEF MsgInv, TypeOK, RowsOK
  <1>1. PICK rv \in QueueWaiting(c.target) :
            /\ recv' = rv
            /\ \E st \in Saved(c.target, rv) : inst' = [inst EXCEPT ![c.target] = st]
            /\ stack' = [stack EXCEPT ![w] =
                   (IF NewWait(rv) THEN <<LookForBuffered(c.target)>> ELSE <<>>) \o <<c>> \o Tail(@)]
    BY DEF RunEngine
  <1>2. look \in Call /\ Looks(look)
    BY NewCallOK
  <1>. HIDE DEF look
  <1>3. PICK new \in Seq(Call) : /\ new \in {<<>>, <<c>>, <<look, c>>} /\ new # <<>>
                                 /\ stack' = [stack EXCEPT ![w] = new \o Rest(w)]
    <2>1. Rest(w) = Tail(stack[w])
      BY TopOK
    <2>2. CASE NewWait(rv)
      <3>1. <<look>> \o <<c>> = <<look, c>> /\ <<look, c>> \in Seq(Call) /\ <<look, c>> # <<>>
        BY <1>2, TwoCalls
      <3>2. stack' = [stack EXCEPT ![w] = <<look>> \o <<c>> \o Tail(stack[w])]
        BY <1>1, <2>2 DEF look
      <3>. QED
        BY <2>1, <3>1, <3>2
    <2>3. CASE ~NewWait(rv)
      <3>1. <<>> \o <<c>> = <<c>> /\ <<c>> \in Seq(Call) /\ <<c>> # <<>>
        BY OneCall, ConcatEmptySeq
      <3>2. stack' = [stack EXCEPT ![w] = <<>> \o <<c>> \o Tail(stack[w])]
        BY <1>1, <2>3
      <3>. QED
        BY <2>1, <3>1, <3>2
    <2>. QED
      BY <2>2, <2>3
  <1>4. RowsOK' /\ EnvOK'
    <2>1. recv' \in [Receives -> RecvStatus] /\ send' \in [Sends -> SendStatus]
      BY <1>0, <1>1, WaitingOK, ThrownOK
    <2>2. inst' \in [Instances -> {"none", "reserved", "open", "closed"}]
      BY <1>0, <1>1 DEF Saved, TypeOK
    <2>. QED
      BY <1>0, <2>1, <2>2 DEF RowsOK, EnvOK, TypeOK
  <1>5. CompletedPaired'
    <2>1. \A s \in Sends : send'[s] = "completed" => send[s] = "completed"
      BY <1>0, ThrownOK
    <2>2. \A r \in Receives : recv[r] = "completed" => recv'[r] = "completed"
      BY <1>0, <1>1, WaitingOK
    <2>. QED
      BY <2>1, <2>2, PairedKept DEF Touches
  <1>6. /\ exc' \in [Workers -> BOOLEAN] /\ exc'[w] = FALSE /\ jobs' \subseteq jobs
        /\ \A v \in Workers : v # w => exc'[v] = exc[v]
    BY <1>0 DEF TypeOK
  <1>. QED
    BY <1>2, <1>3, <1>4, <1>5, <1>6, CallStep

(* The call goes on and claims something that nobody else has. *)
LEMMA ClaimStep ==
    ASSUME MsgInv, NEW w \in Workers, ~Idle(w), ~exc[w], Touches(w), EnvOK', RowsOK', CompletedPaired',
           NEW c \in Call, Set(w, c), UNCHANGED <<exc, jobs, log>>,
           CallOK(c, FALSE, send', recv', expired', log'),
           \A v \in Workers : \A k \in 1..Kept(w, v) : Apart(c, Nth(stack[v], k)),
           \A s \in jobs : JobOK(s, c)
    PROVE  MsgInv'
  <1>. DEFINE new == <<c>>
  <1>0. TypeOK /\ CallsInv /\ LogInv
    BY DEF MsgInv
  <1>1. stack' = [stack EXCEPT ![w] = new \o Rest(w)]
    BY TopOK DEF Set
  <1>2. /\ exc' \in [Workers -> BOOLEAN] /\ exc'[w] = FALSE /\ jobs' \subseteq Sends
        /\ \A v \in Workers : v # w => exc'[v] = exc[v]
    BY <1>0 DEF TypeOK
  <1>3. new \in Seq(Call) /\ new # <<>> /\ new # <<NewCall, c>>
    <2>1. Len(<<c>>) # Len(<<NewCall, c>>)
      OBVIOUS
    <2>. QED
      BY <2>1, OneCall
  <1>. HIDE DEF new
  <1>4. new \in {<<>>, <<c>>, <<NewCall, c>>}
    BY DEF new
  <1>5. /\ new = <<c>> => CallOK(c, exc'[w], send', recv', expired', log')
        /\ new # <<>> => \A v \in Workers : \A k \in 1..Kept(w, v) : Apart(c, Nth(stack[v], k))
        /\ new = <<>> /\ exc'[w] => Len(Rest(w)) > 0
    BY <1>2
  <1>6. ASSUME NEW s \in jobs'
        PROVE  /\ send'[s] = "running" /\ ~Sent(s, log') /\ (new # <<>> => JobOK(s, c))
               /\ \A v \in Workers : \A k \in 1..Kept(w, v) : JobOK(s, Nth(stack[v], k))
    BY JobsKept
  <1>7. CallsInv'
    <2>1. NewCall \in Call /\ Looks(NewCall)
      BY NewCallOK
    <2>. QED
      BY <1>0, <1>1, <1>2, <1>3, <1>4, <1>5, <1>6, <2>1, CallsStep, ZenonT(90)
  <1>8. TypeOK'
    <2>1. stack' \in [Workers -> Seq(Call)]
      BY <1>0, <1>1, <1>3, Becomes
    <2>. QED
      BY <1>0, <1>2, <2>1 DEF TypeOK, EnvOK, RowsOK
  <1>. QED
    BY <1>7, <1>8, LogStep DEF MsgInv

(* The facts every action starts from. *)
LEMMA AtOK ==
    ASSUME MsgInv, NEW w \in Workers, NEW p, At(w, p)
    PROVE  /\ ~Idle(w) /\ ~exc[w] /\ Top(w) \in Call /\ Top(w).pc = p
           /\ CallOK(Top(w), FALSE, send, recv, expired, log)
           /\ RowsOK /\ EnvOK /\ exc \in [Workers -> BOOLEAN]
  <1>1. ~Idle(w) /\ ~exc[w] /\ Top(w).pc = p
    BY DEF At
  <1>2. exc[w] = FALSE
    BY <1>1, TopOK
  <1>3. RowsOK /\ EnvOK /\ exc \in [Workers -> BOOLEAN]
    BY DEF MsgInv, TypeOK, RowsOK, EnvOK
  <1>. QED
    BY <1>1, <1>2, <1>3, TopOK

(* A step that leaves the messages alone. *)
LEMMA Unmoved ==
    ASSUME MsgInv, NEW w \in Workers, UNCHANGED messages
    PROVE  /\ Touches(w) /\ RowsOK' /\ CompletedPaired' /\ log' = log
           /\ send' = send /\ recv' = recv /\ expired' = expired
  <1>1. UNCHANGED <<send, recv, to, from, expired, log>>
    BY DEF messages
  <1>2. Touches(w)
    BY <1>1 DEF Touches
  <1>3. RowsOK'
    BY <1>1 DEF MsgInv, TypeOK, RowsOK
  <1>4. CompletedPaired'
    BY <1>1, PairedKept
  <1>. QED
    BY <1>1, <1>2, <1>3, <1>4

(* The lock is taken and given back. *)
LEMMA HoldersOK ==
    ASSUME EnvOK, NEW w \in Workers,
           Leave(w) \/ (\E i \in Instances : Lock!Acquire(w, i)) \/ UNCHANGED holders
    PROVE  holders' \in [Instances -> SUBSET Workers]
  BY DEF EnvOK, Leave, Lock!Acquire, Lock!Release

(* The records the calls build. *)
LEMMA ClearOK ==
    ASSUME NEW c \in Call
    PROVE  /\ Clear(c) \in Call /\ NextOf(c) \in Call
           /\ NextOf(c).pc = "next" /\ NextOf(c).fresh = FALSE /\ NextOf(c).recv = NoReceive
           /\ Clear(c).recv = NoReceive /\ Clear(c).fresh = FALSE /\ Clear(c).send = c.send
           /\ Clear(c).back = c.back /\ Clear(c).sel = c.sel
           /\ [Clear(c) EXCEPT !.pc = "try"] \in Call
  <1>1. /\ Clear(c) \in Call /\ Clear(c).recv = NoReceive /\ Clear(c).fresh = FALSE
        /\ Clear(c).send = c.send /\ Clear(c).back = c.back /\ Clear(c).sel = c.sel
    BY DEF Clear, Call
  <1>2. [Clear(c) EXCEPT !.pc = "try"] \in Call
    BY <1>1 DEF Call, PCs
  <1>3. NextOf(c) \in Call /\ NextOf(c).pc = "next" /\ NextOf(c).fresh = FALSE /\ NextOf(c).recv = NoReceive
    <2>1. PICK d : d = Clear(c)
      OBVIOUS
    <2>0. d \in Call
      BY <1>1, <2>1
    <2>2. d.fresh = FALSE /\ d.recv = NoReceive /\ NextOf(c) = [d EXCEPT !.pc = "next", !.send = NoSend]
      BY <1>1, <2>1 DEF NextOf
    <2>3. [d EXCEPT !.pc = "next", !.send = NoSend] \in Call
      BY ZenonT(40), <2>0 DEF Call, PCs
    <2>4. [d EXCEPT !.pc = "next", !.send = NoSend].pc = "next"
      BY <2>0 DEF Call
    <2>5. /\ [d EXCEPT !.pc = "next", !.send = NoSend].fresh = FALSE
          /\ [d EXCEPT !.pc = "next", !.send = NoSend].recv = NoReceive
      BY <2>0, <2>2 DEF Call
    <2>. QED
      BY <2>2, <2>3, <2>4, <2>5
  <1>. QED
    BY <1>1, <1>2, <1>3

(* correlate_send_message returns None. *)
LEMMA NoneStep ==
    ASSUME MsgInv, NEW w \in Workers, ~Idle(w), ~exc[w], Touches(w), EnvOK', RowsOK', CompletedPaired',
           ReturnNone(w), Top(w).send \in Sends, ~Top(w).fresh, Top(w).recv = NoReceive, UNCHANGED <<exc, jobs>>
    PROVE  MsgInv'
  <1>. DEFINE a == [Top(w) EXCEPT !.pc = "answer"]
  <1>1. Top(w) \in Call /\ NextOf(Top(w)) \in Call /\ Harmless(NextOf(Top(w)))
    BY TopOK, ClearOK DEF Harmless
  <1>2. a \in Call /\ Harmless(a)
    BY <1>1 DEF Call, PCs, Harmless
  <1>. HIDE DEF a
  <1>3. Set(w, a) \/ Set(w, NextOf(Top(w)))
    BY DEF ReturnNone, Goto, a
  <1>. QED
    BY <1>1, <1>2, <1>3, HarmlessOK, SetStep

(* correlate_send_message returns a message. *)
LEMMA MessageStep ==
    ASSUME MsgInv, NEW w \in Workers, ~Idle(w), ~exc[w], Touches(w), EnvOK', RowsOK', CompletedPaired',
           ReturnMessage(w), UNCHANGED <<exc, jobs>>
    PROVE  MsgInv'
  <1>1. NextOf(Top(w)) \in Call /\ Harmless(NextOf(Top(w))) /\ exc \in [Workers -> BOOLEAN]
    BY TopOK, ClearOK DEF Harmless, MsgInv, TypeOK
  <1>2. CASE Set(w, NextOf(Top(w)))
    BY <1>1, <1>2, HarmlessOK, SetStep
  <1>3. CASE Pop(w)
    BY <1>1, <1>3, PopStep
  <1>. QED
    BY <1>2, <1>3 DEF ReturnMessage

-----------------------------------------------------------------------------
(* The actions *)

LEMMA GotoOK ==
    ASSUME NEW c \in Call, NEW p \in PCs, NEW d, d = [c EXCEPT !.pc = p]
    PROVE  /\ d \in Call /\ d.pc = p /\ d.back = c.back /\ d.send = c.send /\ d.recv = c.recv
           /\ d.target = c.target /\ d.fresh = c.fresh /\ d.sel = c.sel /\ d.home = c.home
  BY DEF Call

(* A worker begins. *)
LEMMA RunInstancePreserves ==
    ASSUME MsgInv, NEW w \in Workers, NEW i \in Instances, RunInstance(w, i)
    PROVE  MsgInv'
  <1>1. PICK c : c = [NewCall EXCEPT !.pc = "engine", !.target = i, !.owns = TRUE]
    OBVIOUS
  <1>2. c \in Call /\ c.pc = "engine" /\ c.send = NoSend /\ c.recv = NoReceive /\ c.fresh = FALSE
    BY ZenonT(40), <1>1, NewCallOK DEF NewCall, Call, PCs
  <1>3. CallOK(c, FALSE, send, recv, expired, log)
    BY <1>2 DEF CallOK, ShapeOK, ClaimOK, DeliverOK, DoneOK, ExpiryOK, Owns, Working
  <1>4. (\A d : Apart(c, d)) /\ (\A s : JobOK(s, c))
    BY <1>2 DEF Apart, JobOK, Owns, Working
  <1>5. EnvOK'
    BY HoldersOK DEF MsgInv, TypeOK, EnvOK, RunInstance
  <1>. QED
    BY <1>1, <1>2, <1>3, <1>4, <1>5, BeginStep DEF RunInstance

LEMMA PostPreserves ==
    ASSUME MsgInv, NEW w \in Workers, NEW s \in Sends, NEW m \in Modes, Post(w, s, m)
    PROVE  MsgInv'
  <1>1. PICK c : c = [NewCall EXCEPT !.api = TRUE, !.mode = m, !.send = s, !.back = "find"]
    OBVIOUS
  <1>2. c \in Call /\ Harmless(c)
    BY ZenonT(40), <1>1, NewCallOK DEF NewCall, Call, PCs, Harmless
  <1>3. EnvOK'
    BY DEF MsgInv, TypeOK, EnvOK, Post
  <1>. QED
    BY <1>1, <1>2, <1>3, HarmlessOK, BeginStep DEF Post

LEMMA CorrelateAllPreserves ==
    ASSUME MsgInv, NEW w \in Workers, CorrelateAll(w)
    PROVE  MsgInv'
  <1>1. NewCall \in Call /\ Harmless(NewCall)
    BY NewCallOK DEF Harmless, Looks
  <1>2. EnvOK'
    BY DEF MsgInv, TypeOK, EnvOK, CorrelateAll
  <1>. QED
    BY <1>1, <1>2, HarmlessOK, BeginStep DEF CorrelateAll

LEMMA StartJobPreserves ==
    ASSUME MsgInv, NEW w \in Workers, NEW s \in Sends, StartJob(w, s)
    PROVE  MsgInv'
  <1>0. /\ send[s] = "running" /\ ~Sent(s, log) /\ s \in jobs /\ Idle(w)
        /\ \A v \in Workers : \A k \in 1..Len(stack[v]) : JobOK(s, Nth(stack[v], k))
    BY DEF MsgInv, CallsInv, JobsInv, StartJob
  <1>1. PICK c : c = [NewCall EXCEPT !.pc = "prepare", !.back = "job", !.send = s, !.target = place[s]]
    OBVIOUS
  <1>2. c \in Call /\ c.pc = "prepare" /\ c.send = s /\ c.recv = NoReceive /\ c.fresh = FALSE
    BY ZenonT(40), <1>1, NewCallOK DEF NewCall, Call, PCs, MsgInv, TypeOK
  <1>3. CallOK(c, FALSE, send, recv, expired, log)
    BY <1>0, <1>2 DEF CallOK, ShapeOK, ClaimOK, DeliverOK, DoneOK, ExpiryOK, Owns, Working
  <1>4. \A v \in Workers : \A k \in 1..Len(stack[v]) : Apart(c, Nth(stack[v], k))
    BY <1>0, <1>2 DEF Apart, JobOK, Owns, Working
  <1>5. jobs' = jobs \ {s} /\ (\A q \in jobs' : JobOK(q, c))
    BY <1>2 DEF StartJob, JobOK
  <1>6. EnvOK' /\ Push(w, c) /\ UNCHANGED <<messages, exc>>
    BY <1>0, <1>1 DEF MsgInv, TypeOK, EnvOK, StartJob
  <1>. QED
    BY <1>0, <1>2, <1>3, <1>4, <1>5, <1>6, BeginStep

(* A call runs an engine. *)
LEMMA EnginePreserves ==
    ASSUME MsgInv, NEW w \in Workers, Engine(w)
    PROVE  MsgInv'
  <1>. DEFINE t == Top(w)
  <1>0. /\ ~Idle(w) /\ ~exc[w] /\ t \in Call /\ t.pc = "engine" /\ RowsOK /\ EnvOK
        /\ CallOK(t, FALSE, send, recv, expired, log)
    BY AtOK DEF Engine
  <1>1. PICK c : c = [t EXCEPT !.pc = "release"]
    OBVIOUS
  <1>2. /\ c \in Call /\ c.pc = "release" /\ c.send = t.send /\ c.recv = t.recv /\ c.fresh = t.fresh
        /\ c.target \in Instances \cup {NoInstance}
    <2>1. "release" \in PCs
      BY DEF PCs
    <2>. QED
      BY <1>0, <1>1, <2>1, GotoOK DEF Call
  <1>3. /\ RunEngine(w, c) /\ send' \in Thrown /\ log' = log
        /\ UNCHANGED <<to, from, expired, log, place, deployed, jobs, holders, exc>>
    BY <1>1 DEF Engine
  <1>4. \A s \in Sends : send'[s] = send[s] \/ send[s] = "none"
    BY <1>0, <1>3, ThrownOK
  <1>5. \A r \in Receives : recv[r] \notin {"none", "ready"} => recv'[r] \notin {"none", "ready"}
    BY <1>0, <1>3, WaitingOK DEF RunEngine
  <1>6. Touches(w)
    BY <1>3, <1>4, <1>5 DEF Touches
  <1>. HIDE DEF t
  <1>7. CallOK(c, FALSE, send', recv', expired', log')
    <2>1. DoneOK(c, send', log')
      <3>1. c.send # NoSend => c.send \in Sends
        BY <1>2 DEF Call
      <3>. QED
        BY <1>0, <1>2, <1>3, <1>4, <3>1 DEF CallOK, DoneOK
    <2>. QED
      BY <1>2, <2>1 DEF CallOK, ShapeOK, ClaimOK, DeliverOK, ExpiryOK, Owns, Working
  <1>8. Tame(c, Top(w)) /\ Waits(c)
    BY <1>2 DEF Tame, Waits, Owns, Working
  <1>. QED
    BY <1>0, <1>2, <1>3, <1>6, <1>7, <1>8, RunStep DEF EnvOK

LEMMA DeliverPreserves ==
    ASSUME MsgInv, NEW w \in Workers, Deliver(w)
    PROVE  MsgInv'
  <1>. DEFINE t == Top(w)
  <1>0. /\ ~Idle(w) /\ ~exc[w] /\ t \in Call /\ t.pc = "deliver" /\ RowsOK /\ EnvOK /\ ~t.fresh
        /\ CallOK(t, FALSE, send, recv, expired, log) /\ At(w, "deliver")
    BY AtOK DEF Deliver
  <1>1. PICK c : c = [t EXCEPT !.pc = "confirm"]
    OBVIOUS
  <1>2. /\ c \in Call /\ c.pc = "confirm" /\ c.send = t.send /\ c.recv = t.recv /\ c.fresh = t.fresh
        /\ c.target \in Instances \cup {NoInstance}
    <2>1. "confirm" \in PCs
      BY DEF PCs
    <2>. QED
      BY <1>0, <1>1, <2>1, GotoOK DEF Call
  <1>3. /\ RunEngine(w, c) /\ send' \in Thrown /\ log' = log \cup {<<t.send, t.recv>>}
        /\ UNCHANGED <<to, from, expired, place, deployed, jobs, holders, exc>>
    BY <1>1 DEF Deliver
  <1>4. \A s \in Sends : send'[s] = send[s] \/ send[s] = "none"
    BY <1>0, <1>3, ThrownOK
  <1>5. \A r \in Receives : recv[r] \notin {"none", "ready"} => recv'[r] \notin {"none", "ready"}
    BY <1>0, <1>3, WaitingOK DEF RunEngine
  <1>6. Touches(w)
    BY <1>0, <1>3, <1>4, <1>5 DEF Touches
  <1>. HIDE DEF t
  <1>7. CallOK(c, FALSE, send', recv', expired', log')
    <2>1. t.send \in Sends /\ send[t.send] = "running"
      BY <1>0 DEF CallOK, ShapeOK, ClaimOK, Owns, Working
    <2>. QED
      BY <1>0, <1>2, <1>3, <1>4, <2>1 DEF CallOK, ShapeOK, ClaimOK, DeliverOK, DoneOK, ExpiryOK, Owns, Working
  <1>8. Tame(c, t) /\ Waits(c)
    BY <1>0, <1>2 DEF Tame, Waits, Owns, Working
  <1>. QED
    BY <1>0, <1>2, <1>3, <1>6, <1>7, <1>8, RunStep DEF EnvOK, t

(* A process is started for the message in hand. *)
LEMMA StartedPreserves ==
    ASSUME MsgInv, NEW w \in Workers, ~Idle(w), ~exc[w], Top(w).pc \in {"try", "prepare"},
           NEW i \in Instances \cup {NoInstance}, RunEngine(w, Inside(Top(w), i)),
           Lock!Acquire(w, i),
           UNCHANGED <<send, to, from, expired, log, place, deployed, jobs, exc>>
    PROVE  MsgInv'
  <1>. DEFINE t == Top(w)
  <1>0. /\ t \in Call /\ t.pc \in {"try", "prepare"} /\ RowsOK /\ EnvOK
        /\ CallOK(t, FALSE, send, recv, expired, log)
    <2>1. At(w, t.pc)
      BY DEF At
    <2>. QED
      BY <2>1, AtOK
  <1>1. PICK c : c = Inside(t, i)
    OBVIOUS
  <1>2. /\ c \in Call /\ c.pc = "locked" /\ c.send = t.send /\ c.recv = t.recv /\ c.fresh = TRUE
        /\ c.target \in Instances \cup {NoInstance}
    BY <1>0, <1>1 DEF Inside, Call, PCs
  <1>3. RunEngine(w, c) /\ send' \in Thrown
    BY <1>1 DEF Thrown
  <1>4. \A r \in Receives : recv[r] \notin {"none", "ready"} => recv'[r] \notin {"none", "ready"}
    BY <1>0, <1>3, WaitingOK DEF RunEngine
  <1>5. Touches(w)
    BY <1>4 DEF Touches
  <1>. HIDE DEF t
  <1>6. CallOK(c, FALSE, send', recv', expired', log')
    BY <1>0, <1>2 DEF CallOK, ShapeOK, ClaimOK, DeliverOK, DoneOK, ExpiryOK, Owns, Working
  <1>7. Tame(c, t) /\ Waits(c)
    BY <1>0, <1>2 DEF Tame, Waits, Owns, Working
  <1>8. holders' \in [Instances -> SUBSET Workers] /\ place' \in [Sends -> Instances \cup {NoInstance}]
    BY <1>0 DEF EnvOK, Lock!Acquire
  <1>. QED
    BY <1>2, <1>3, <1>5, <1>6, <1>7, <1>8, RunStep DEF t

LEMMA StartPreserves ==
    ASSUME MsgInv, NEW w \in Workers, StartProcess(w) \/ StartReserved(w)
    PROVE  MsgInv'
  <1>1. ASSUME StartProcess(w)
        PROVE  \E i \in Instances : Lock!Acquire(w, i) /\ RunEngine(w, Inside(Top(w), i))
    <2>1. PICK i \in Unused(Top(w).send) : Lock!Acquire(w, i) /\ RunEngine(w, Inside(Top(w), i))
      BY <1>1 DEF StartProcess
    <2>2. Top(w).send \in Sends
      BY <1>1, AtOK DEF StartProcess, Unmatched, CallOK, ShapeOK, Owns, Working
    <2>3. i \in Instances
      BY <2>2, MessageConstants DEF Unused
    <2>. QED
      BY <2>1, <2>3
  <1>2. CASE StartProcess(w)
    <2>1. ~Idle(w) /\ ~exc[w] /\ Top(w).pc = "try"
      BY <1>2 DEF StartProcess, Unmatched, At
    <2>. QED
      BY <1>1, <1>2, <2>1, StartedPreserves DEF StartProcess
  <1>3. CASE StartReserved(w)
    <2>1. ~Idle(w) /\ ~exc[w] /\ Top(w).pc = "prepare" /\ Top(w) \in Call
      BY <1>3, AtOK DEF StartReserved
    <2>2. Top(w).target \in Instances \cup {NoInstance}
      BY <2>1 DEF Call
    <2>. QED
      BY <1>3, <2>1, <2>2, StartedPreserves DEF StartReserved
  <1>. QED
    BY <1>2, <1>3

(* A call raises. *)
Raises(w) ==
    \/ EngineRaises(w) \/ DeliverRaises(w) \/ PublishRaises(w) \/ StartRaises(w) \/ FindRaises(w)
    \/ EnqueueRaises(w) \/ StartReservedRaises(w)

LEMMA RaisesPreserves ==
    ASSUME MsgInv, NEW w \in Workers, Raises(w)
    PROVE  MsgInv'
  <1>1. /\ ~Idle(w) /\ ~exc[w] /\ Throw(w)
        /\ \/ Top(w).pc \in {"engine", "deliver", "publish", "try", "enqueue", "prepare"}
           \/ Top(w).pc = "locked" /\ Top(w).fresh
        /\ UNCHANGED <<send, recv, to, from, expired, inst, place, deployed, jobs, holders, stack>>
        /\ \/ log' = log
           \/ Top(w).pc = "deliver" /\ log' = log \cup {<<Top(w).send, Top(w).recv>>}
    BY DEF Raises, EngineRaises, DeliverRaises, PublishRaises, StartRaises, FindRaises,
           EnqueueRaises, StartReservedRaises, Unmatched, At, messages
  <1>. QED
    BY <1>1, ThrowStep DEF Waits

(* A call gives the lock back and returns. *)
LEMMA ReleasePreserves ==
    ASSUME MsgInv, NEW w \in Workers, Release(w) \/ Publish(w)
    PROVE  MsgInv'
  <1>1. /\ ~Idle(w) /\ ~exc[w] /\ EnvOK /\ exc \in [Workers -> BOOLEAN]
        /\ UNCHANGED <<messages, inst, place, deployed, jobs, exc>> /\ Leave(w)
        /\ Pop(w) \/ ReturnMessage(w)
    BY AtOK DEF Release, Publish
  <1>2. EnvOK'
    BY <1>1, HoldersOK DEF EnvOK
  <1>3. Touches(w) /\ RowsOK' /\ CompletedPaired'
    BY <1>1, Unmoved
  <1>4. CASE Pop(w)
    BY <1>1, <1>2, <1>3, <1>4, PopStep
  <1>5. CASE ReturnMessage(w)
    BY <1>1, <1>2, <1>3, <1>5, MessageStep
  <1>. QED
    BY <1>1, <1>4, <1>5

(* A call reads, and has claimed nothing when it goes on. *)
LEMMA ReadsPreserves ==
    ASSUME MsgInv, NEW w \in Workers, FindUuid(w) \/ List(w) \/ NextSend(w)
    PROVE  MsgInv'
  <1>. DEFINE t == Top(w)
  <1>0. /\ ~Idle(w) /\ ~exc[w] /\ t \in Call /\ t.pc \in {"find", "list", "next"} /\ EnvOK
        /\ exc \in [Workers -> BOOLEAN] /\ CallOK(t, FALSE, send, recv, expired, log)
        /\ UNCHANGED <<messages, inst, place, deployed, jobs, holders, exc>>
    BY AtOK DEF FindUuid, List, NextSend
  <1>1. t.fresh = FALSE /\ t.recv = NoReceive /\ (t.pc = "find" => t.send \in Sends)
    BY <1>0 DEF CallOK, ShapeOK, Call
  <1>2. Touches(w) /\ RowsOK' /\ CompletedPaired' /\ EnvOK'
    BY <1>0, Unmoved DEF EnvOK
  <1>3. Pop(w) \/ \E c \in Call : Set(w, c) /\ Harmless(c)
    <2>1. CASE FindUuid(w)
      <3>1. PICK c : c = [t EXCEPT !.pc = "insert"]
        OBVIOUS
      <3>2. c \in Call /\ Harmless(c)
        BY <1>0, <1>1, <2>1, <3>1 DEF Harmless, Call, PCs, FindUuid, At
      <3>. QED
        BY <2>1, <3>1, <3>2 DEF FindUuid, Goto
    <2>2. CASE List(w)
      <3>1. PICK todo : todo = IF t.home = NoInstance THEN {s \in Sends : send[s] = "ready"}
                                 ELSE {s \in Sends : send[s] = "ready"} \cap Ttl
        OBVIOUS
      <3>2. todo \in SUBSET Sends
        BY <3>1
      <3>3. PICK c : c = [t EXCEPT !.pc = "next", !.todo = todo]
        OBVIOUS
      <3>4. c \in Call /\ Harmless(c)
        BY ZenonT(40), <1>0, <1>1, <3>2, <3>3 DEF Harmless, Call, PCs
      <3>. QED
        BY <2>2, <3>1, <3>3, <3>4 DEF List
    <2>3. CASE NextSend(w)
      <3>1. CASE t.todo # {}
        <4>1. PICK s \in t.todo :
                Set(w, [t EXCEPT !.send = s, !.todo = @ \ {s}, !.pc = "expire", !.back = "claim"])
          BY <2>3, <3>1 DEF NextSend
        <4>2. PICK c : c = [t EXCEPT !.send = s, !.todo = @ \ {s}, !.pc = "expire", !.back = "claim"]
          OBVIOUS
        <4>3. c \in Call /\ Harmless(c)
          BY ZenonT(40), <1>0, <1>1, <4>2 DEF Harmless, Call, PCs
        <4>. QED
          BY <4>1, <4>2, <4>3
      <3>. QED
        BY <2>3, <3>1 DEF NextSend
    <2>. QED
      BY <2>1, <2>2, <2>3
  <1>4. CASE Pop(w)
    BY <1>0, <1>2, <1>4, PopStep
  <1>5. ASSUME NEW c \in Call, Set(w, c), Harmless(c) PROVE MsgInv'
    BY <1>0, <1>2, <1>5, HarmlessOK, SetStep
  <1>. QED
    BY <1>3, <1>4, <1>5

(* The rejection is written where the message is still ready. *)
LEMMA AnswerPreserves ==
    ASSUME MsgInv, NEW w \in Workers, Answer(w)
    PROVE  MsgInv'
  <1>. DEFINE t == Top(w)
  <1>0. /\ ~Idle(w) /\ ~exc[w] /\ t \in Call /\ t.pc = "answer" /\ EnvOK /\ RowsOK
        /\ exc \in [Workers -> BOOLEAN] /\ CallOK(t, FALSE, send, recv, expired, log)
        /\ UNCHANGED <<recv, to, from, expired, log, inst, place, deployed, jobs, holders, exc>>
        /\ send' = IF t.send \notin Ttl /\ send[t.send] = "ready"
                     THEN [send EXCEPT ![t.send] = "not_accepted"] ELSE send
    BY AtOK DEF Answer
  <1>. HIDE DEF t
  <1>1. \A s \in Sends : send'[s] = send[s] \/ (send[s] = "ready" /\ send'[s] = "not_accepted")
    BY <1>0 DEF RowsOK
  <1>2. Touches(w) /\ RowsOK' /\ EnvOK'
    BY <1>0, <1>1 DEF Touches, RowsOK, EnvOK, SendStatus
  <1>3. CompletedPaired'
    BY <1>0, <1>1, PairedKept
  <1>. QED
    BY <1>0, <1>2, <1>3, PopStep DEF Answer

(* A message nobody has claimed is in nobody's hands. *)
LEMMA Unclaimed ==
    ASSUME MsgInv, NEW w \in Workers, NEW s \in Sends, send[s] \in {"none", "ready"}
    PROVE  /\ ~Sent(s, log) /\ s \notin jobs
           /\ \A v \in Workers : \A k \in 1..Kept(w, v) :
                  ~(Owns(Nth(stack[v], k)) /\ Nth(stack[v], k).send = s)
  <1>1. ~Sent(s, log)
    BY DEF MsgInv, LogInv, Sent
  <1>2. s \notin jobs
    BY DEF MsgInv, CallsInv, JobsInv
  <1>3. ASSUME NEW v \in Workers, NEW k \in 1..Kept(w, v), Owns(Nth(stack[v], k)), Nth(stack[v], k).send = s
        PROVE  FALSE
    <2>1. k \in 1..Len(stack[v])
      BY TopCall DEF MsgInv
    <2>2. CallOK(Nth(stack[v], k), exc[v] /\ k = Len(stack[v]), send, recv, expired, log)
      BY <2>1 DEF MsgInv, CallsInv, Frames
    <2>. QED
      BY <1>3, <2>2 DEF CallOK, ClaimOK
  <1>. QED
    BY <1>1, <1>2, <1>3

(* What the other calls have to do with the one that takes the step. *)
LEMMA OthersApart ==
    ASSUME MsgInv, NEW w \in Workers, ~Idle(w), Touches(w)
    PROVE  /\ \A v \in Workers : \A k \in 1..Kept(w, v) :
                  /\ Apart(Top(w), Nth(stack[v], k))
                  /\ CallOK(Nth(stack[v], k), exc[v] /\ k = Len(stack[v]), send, recv, expired, log)
           /\ \A s \in jobs : JobOK(s, Top(w))
  <1>1. \A s \in jobs : JobOK(s, Top(w))
    BY JobsKept
  <1>2. ASSUME NEW v \in Workers, NEW k \in 1..Kept(w, v)
        PROVE  /\ Apart(Top(w), Nth(stack[v], k))
               /\ CallOK(Nth(stack[v], k), exc[v] /\ k = Len(stack[v]), send, recv, expired, log)
    <2>1. TypeOK /\ Frames /\ Pairs /\ LogInv
      BY DEF MsgInv, CallsInv
    <2>2. k \in 1..Len(stack[v])
      BY <2>1, TopCall
    <2>. QED
      BY <2>1, <2>2, KeptCall DEF Frames
  <1>. QED
    BY <1>1, <1>2

(* The call claims a send: by inserting it as running, or by the UPDATE. *)
LEMMA TakeSend ==
    ASSUME MsgInv, NEW w \in Workers, ~Idle(w), ~exc[w], NEW s \in Sends, send[s] \in {"none", "ready"},
           send' = [send EXCEPT ![s] = "running"],
           UNCHANGED <<recv, to, from, expired, log, inst, place, deployed, jobs, holders, exc>>,
           NEW c \in Call, Set(w, c), c.send = s, c.fresh = FALSE, c.recv = NoReceive,
           c.pc = "check" \/ (c.pc = "expire" /\ c.back = "check")
    PROVE  MsgInv'
  <1>0. EnvOK /\ RowsOK
    BY DEF MsgInv, TypeOK, EnvOK, RowsOK
  <1>1. \A q \in Sends : send'[q] = send[q] \/ (send[q] \in {"none", "ready"} /\ send'[q] = "running")
    BY <1>0 DEF RowsOK
  <1>2. Touches(w) /\ RowsOK' /\ EnvOK'
    BY <1>0, <1>1 DEF Touches, RowsOK, EnvOK, SendStatus
  <1>3. CompletedPaired'
    BY <1>1, PairedKept
  <1>4. CallOK(c, FALSE, send', recv', expired', log')
    <2>1. send'[s] = "running" /\ ~Sent(s, log')
      BY <1>0, Unclaimed DEF RowsOK
    <2>. QED
      BY <2>1 DEF CallOK, ShapeOK, ClaimOK, DeliverOK, DoneOK, ExpiryOK, Owns, Working
  <1>5. ASSUME NEW v \in Workers, NEW k \in 1..Kept(w, v) PROVE Apart(c, Nth(stack[v], k))
    <2>1. ~(Owns(Nth(stack[v], k)) /\ Nth(stack[v], k).send = s)
      BY Unclaimed
    <2>. QED
      BY <2>1 DEF Apart, Working
  <1>6. \A q \in jobs : JobOK(q, c)
    BY Unclaimed DEF JobOK
  <1>. QED
    BY <1>2, <1>3, <1>4, <1>5, <1>6, ClaimStep

LEMMA InsertPreserves ==
    ASSUME MsgInv, NEW w \in Workers, Insert(w)
    PROVE  MsgInv'
  <1>. DEFINE t == Top(w)
  <1>0. /\ ~Idle(w) /\ ~exc[w] /\ t \in Call /\ t.pc = "insert" /\ EnvOK /\ RowsOK
        /\ exc \in [Workers -> BOOLEAN] /\ CallOK(t, FALSE, send, recv, expired, log)
        /\ UNCHANGED <<recv, to, from, expired, log, inst, place, deployed, jobs, holders, exc>>
    BY AtOK DEF Insert
  <1>1. t.fresh = FALSE /\ t.recv = NoReceive /\ t.send \in Sends
    BY <1>0 DEF CallOK, ShapeOK, Call
  <1>2. CASE send[t.send] = "none"
    <2>1. PICK c : c = [t EXCEPT !.pc = "expire", !.back = "check"]
      OBVIOUS
    <2>2. c \in Call /\ c.pc = "expire" /\ c.back = "check" /\ c.send = t.send /\ c.fresh = FALSE /\ c.recv = NoReceive
      BY <1>0, <1>1, <2>1 DEF Call, PCs
    <2>3. Set(w, c) /\ send' = [send EXCEPT ![t.send] = "running"]
      BY <1>2, <2>1 DEF Insert
    <2>. QED
      BY <1>0, <1>1, <1>2, <2>2, <2>3, TakeSend
  <1>3. CASE send[t.send] # "none"
    <2>1. Pop(w) /\ UNCHANGED messages
      BY <1>0, <1>3 DEF Insert, messages
    <2>2. Touches(w) /\ RowsOK' /\ CompletedPaired' /\ EnvOK'
      BY <1>0, <2>1, Unmoved DEF EnvOK
    <2>. QED
      BY <1>0, <2>1, <2>2, PopStep
  <1>. QED
    BY <1>2, <1>3

LEMMA ClaimPreserves ==
    ASSUME MsgInv, NEW w \in Workers, Claim(w)
    PROVE  MsgInv'
  <1>. DEFINE t == Top(w)
  <1>0. /\ ~Idle(w) /\ ~exc[w] /\ t \in Call /\ t.pc = "claim" /\ EnvOK /\ RowsOK
        /\ CallOK(t, FALSE, send, recv, expired, log)
        /\ UNCHANGED <<recv, to, from, expired, log, inst, place, deployed, jobs, holders, exc>>
    BY AtOK DEF Claim
  <1>1. t.fresh = FALSE /\ t.recv = NoReceive /\ t.send \in Sends
    BY <1>0 DEF CallOK, ShapeOK, Call
  <1>2. CASE send[t.send] = "ready"
    <2>1. PICK c : c = [t EXCEPT !.pc = "check"]
      OBVIOUS
    <2>2. c \in Call /\ c.pc = "check" /\ c.send = t.send /\ c.fresh = FALSE /\ c.recv = NoReceive
      BY <1>0, <1>1, <2>1 DEF Call, PCs
    <2>3. Set(w, c) /\ send' = [send EXCEPT ![t.send] = "running"]
      BY <1>2, <2>1 DEF Claim, Goto
    <2>. QED
      BY <1>0, <1>1, <1>2, <2>2, <2>3, TakeSend
  <1>3. CASE send[t.send] # "ready"
    <2>1. ReturnNone(w) /\ UNCHANGED messages
      BY <1>0, <1>3 DEF Claim, messages
    <2>2. Touches(w) /\ RowsOK' /\ CompletedPaired' /\ EnvOK'
      BY <1>0, <2>1, Unmoved DEF EnvOK
    <2>. QED
      BY <1>0, <1>1, <2>1, <2>2, NoneStep
  <1>. QED
    BY <1>2, <1>3

(* expire_ready_send_messages returns to its caller. *)
LEMMA ReturnsOK ==
    ASSUME NEW t \in Call, t.pc \in {"expire", "cancel"}, NEW sel \in SUBSET Sends,
           NEW sd, NEW sd2, NEW rv, NEW ex, NEW lg,
           CallOK(t, FALSE, sd, rv, ex, lg),
           \A s \in Sends : sd2[s] = sd[s] \/ (ex[s] /\ sd2[s] = "cancelled"),
           NEW c, c = [t EXCEPT !.sel = sel, !.pc = t.back]
    PROVE  c \in Call /\ CallOK(c, FALSE, sd2, rv, ex, lg) /\ Tame(c, t)
  <1>1. t.back \in {"list", "find", "check", "claim"} /\ t.fresh = FALSE /\ t.recv = NoReceive
    BY DEF CallOK, ShapeOK, Call
  <1>2. c \in Call /\ c.pc = t.back /\ c.send = t.send /\ c.fresh = FALSE /\ c.recv = NoReceive
    BY <1>1 DEF Call
  <1>3. CASE t.back = "check"
    <2>1. t.send \in Sends /\ Owns(t) /\ ClaimOK(t, FALSE, sd, ex, lg)
      BY <1>3 DEF CallOK, ShapeOK, Owns
    <2>2. /\ sd[t.send] = "running" \/ (ex[t.send] /\ sd[t.send] = "cancelled")
          /\ ~Sent(t.send, lg)
      BY <2>1 DEF ClaimOK
    <2>3. sd2[t.send] = "running" \/ (ex[t.send] /\ sd2[t.send] = "cancelled")
      BY <2>1, <2>2
    <2>. QED
      BY <1>2, <1>3, <2>1, <2>2, <2>3
      DEF CallOK, ShapeOK, ClaimOK, DeliverOK, DoneOK, ExpiryOK, Tame, Owns, Working
  <1>4. CASE t.back # "check"
    <2>1. t.back # "list" => t.send \in Sends
      BY DEF CallOK, ShapeOK
    <2>2. Harmless(c)
      BY <1>1, <1>2, <1>4, <2>1 DEF Harmless
    <2>. QED
      BY <1>2, <2>2, HarmlessOK
  <1>. QED
    BY <1>3, <1>4

LEMMA ExpireSelectPreserves ==
    ASSUME MsgInv, NEW w \in Workers, ExpireSelect(w)
    PROVE  MsgInv'
  <1>. DEFINE t == Top(w)
  <1>0. /\ ~Idle(w) /\ ~exc[w] /\ t \in Call /\ t.pc = "expire" /\ EnvOK /\ RowsOK
        /\ CallOK(t, FALSE, send, recv, expired, log)
        /\ UNCHANGED <<messages, inst, place, deployed, jobs, holders, exc>>
    BY AtOK DEF ExpireSelect
  <1>1. /\ Touches(w) /\ RowsOK' /\ CompletedPaired' /\ EnvOK' /\ log' = log
        /\ send' = send /\ recv' = recv /\ expired' = expired
    BY <1>0, Unmoved DEF EnvOK
  <1>2. PICK sel : sel = {s \in Ttl : send[s] = "ready" /\ expired[s]}
    OBVIOUS
  <1>3. sel \in SUBSET Sends /\ \A s \in sel : send[s] = "ready" /\ expired[s]
    BY <1>2, MessageConstants
  <1>4. CASE sel = {}
    <2>1. PICK c : c = [t EXCEPT !.sel = sel, !.pc = t.back]
      OBVIOUS
    <2>2. Set(w, c)
      BY <1>2, <1>4, <2>1 DEF ExpireSelect
    <2>3. c \in Call /\ CallOK(c, FALSE, send, recv, expired, log) /\ Tame(c, t)
      <3>1. \A s \in Sends : send[s] = send[s] \/ (expired[s] /\ send[s] = "cancelled")
        OBVIOUS
      <3>2. t.pc \in {"expire", "cancel"}
        BY <1>0
      <3>. HIDE DEF t
      <3>. QED
        BY ZenonT(40), <1>0, <1>3, <2>1, <3>1, <3>2, ReturnsOK
    <2>. QED
      BY <1>0, <1>1, <2>2, <2>3, SetStep
  <1>5. CASE sel # {}
    <2>1. PICK c : c = [t EXCEPT !.sel = sel, !.pc = "cancel"]
      OBVIOUS
    <2>2. Set(w, c)
      BY <1>2, <1>5, <2>1 DEF ExpireSelect
    <2>3. /\ c \in Call /\ c.pc = "cancel" /\ c.sel = sel /\ c.send = t.send /\ c.back = t.back
          /\ c.fresh = t.fresh /\ c.recv = t.recv
      BY <1>0, <1>3, <2>1 DEF Call, PCs
    <2>. HIDE DEF t
    <2>4. Owns(c) <=> Owns(t)
      BY <1>0, <2>3 DEF Owns, Working
    <2>5. CallOK(c, FALSE, send', recv', expired', log')
      <3>1. ExpiryOK(c, expired, log)
        BY <1>3, <2>3, Unclaimed DEF ExpiryOK
      <3>2. ShapeOK(c, FALSE)
        BY <1>0, <2>3, <2>4 DEF CallOK, ShapeOK
      <3>3. ClaimOK(c, FALSE, send, expired, log)
        BY <1>0, <2>3, <2>4 DEF CallOK, ClaimOK, Working
      <3>. QED
        BY <1>1, <2>3, <3>1, <3>2, <3>3 DEF CallOK, DeliverOK, DoneOK
    <2>6. ASSUME NEW v \in Workers, NEW k \in 1..Kept(w, v) PROVE Apart(c, Nth(stack[v], k))
      <3>. DEFINE d == Nth(stack[v], k)
      <3>1. Apart(t, d)
        BY <1>0, <1>1, OthersApart DEF t
      <3>2. ~(d.pc \in Working /\ d.send \in sel)
        <4>. SUFFICES ASSUME d.pc \in Working, d.send \in sel PROVE FALSE
          OBVIOUS
        <4>1. d.send \in Sends /\ send[d.send] = "ready" /\ Owns(d)
          BY <1>3 DEF Owns
        <4>. QED
          BY <4>1, Unclaimed
      <3>. HIDE DEF d
      <3>3. Apart(c, d)
        BY <2>3, <2>4, <3>1, <3>2 DEF Apart, Working
      <3>. QED
        BY <3>3 DEF d
    <2>7. ASSUME NEW s \in jobs PROVE JobOK(s, c)
      <3>1. JobOK(s, t)
        BY <1>0, <1>1, OthersApart DEF t
      <3>2. s \notin sel
        BY <1>3, Unclaimed
      <3>. QED
        BY <2>3, <2>4, <3>1, <3>2 DEF JobOK
    <2>8. UNCHANGED <<exc, jobs, log>>
      BY <1>0, <1>1
    <2>. QED
      BY <1>0, <1>1, <2>2, <2>3, <2>5, <2>6, <2>7, <2>8, ClaimStep
  <1>. QED
    BY <1>4, <1>5

LEMMA ExpireWritePreserves ==
    ASSUME MsgInv, NEW w \in Workers, ExpireWrite(w)
    PROVE  MsgInv'
  <1>. DEFINE t == Top(w)
  <1>0. /\ ~Idle(w) /\ ~exc[w] /\ t \in Call /\ t.pc = "cancel" /\ EnvOK /\ RowsOK
        /\ CallOK(t, FALSE, send, recv, expired, log)
        /\ UNCHANGED <<recv, to, from, expired, log, inst, place, deployed, jobs, holders, exc>>
        /\ send' = [s \in Sends |-> IF s \in t.sel THEN "cancelled" ELSE send[s]]
    BY AtOK DEF ExpireWrite
  <1>1. PICK c : c = [t EXCEPT !.sel = {}, !.pc = t.back]
    OBVIOUS
  <1>2. Set(w, c)
    BY <1>1 DEF ExpireWrite
  <1>3. \A s \in Sends : send'[s] = send[s] \/ (s \in t.sel /\ send'[s] = "cancelled")
    BY <1>0
  <1>4. Touches(w) /\ RowsOK' /\ EnvOK'
    <2>1. Touches(w)
      BY <1>0, <1>3 DEF Touches
    <2>2. RowsOK' /\ EnvOK'
      BY <1>0, <1>3 DEF RowsOK, EnvOK, SendStatus
    <2>. QED
      BY <2>1, <2>2
  <1>5. CompletedPaired'
    BY <1>0, <1>3, PairedKept
  <1>6. c \in Call /\ CallOK(c, FALSE, send', recv', expired', log') /\ Tame(c, t)
    <2>. HIDE DEF t
    <2>1. \A s \in Sends : send'[s] = send[s] \/ (expired[s] /\ send'[s] = "cancelled")
      BY <1>0, <1>3 DEF CallOK, ExpiryOK
    <2>2. t.pc \in {"expire", "cancel"} /\ {} \in SUBSET Sends
      BY <1>0
    <2>3. c \in Call /\ CallOK(c, FALSE, send', recv, expired, log) /\ Tame(c, t)
      <3>1. PICK sd, sel : sd = send' /\ sel = {}
        OBVIOUS
      <3>2. /\ sel \in SUBSET Sends /\ c = [t EXCEPT !.sel = sel, !.pc = t.back]
            /\ \A s \in Sends : sd[s] = send[s] \/ (expired[s] /\ sd[s] = "cancelled")
        BY <1>1, <2>1, <3>1
      <3>3. c \in Call /\ CallOK(c, FALSE, sd, recv, expired, log) /\ Tame(c, t)
        BY ZenonT(40), <1>0, <2>2, <3>2, ReturnsOK
      <3>. QED
        BY <3>1, <3>3
    <2>. QED
      BY <1>0, <2>3
  <1>. QED
    BY <1>0, <1>2, <1>4, <1>5, <1>6, SetStep

LEMMA CheckExpiryPreserves ==
    ASSUME MsgInv, NEW w \in Workers, CheckExpiry(w)
    PROVE  MsgInv'
  <1>. DEFINE t == Top(w)
  <1>0. /\ ~Idle(w) /\ ~exc[w] /\ t \in Call /\ t.pc = "check" /\ EnvOK /\ RowsOK
        /\ CallOK(t, FALSE, send, recv, expired, log)
        /\ UNCHANGED <<recv, to, from, expired, log, inst, place, deployed, jobs, holders, exc>>
    BY AtOK DEF CheckExpiry
  <1>1. /\ t.send \in Sends /\ t.fresh = FALSE /\ t.recv = NoReceive /\ Owns(t) /\ ~Sent(t.send, log)
        /\ send[t.send] = "running" \/ (expired[t.send] /\ send[t.send] = "cancelled")
    BY <1>0 DEF CallOK, ShapeOK, ClaimOK, Owns, Call
  <1>2. CASE expired[t.send]
    <2>1. /\ send' = IF send[t.send] = "running" THEN [send EXCEPT ![t.send] = "cancelled"] ELSE send
          /\ ReturnNone(w)
      BY <1>2 DEF CheckExpiry
    <2>2. \A s \in Sends : send'[s] = send[s] \/ (s = t.send /\ send'[s] = "cancelled")
      BY <1>0, <2>1 DEF RowsOK
    <2>3. RowsOK' /\ EnvOK'
      BY <1>0, <2>1 DEF RowsOK, EnvOK, SendStatus
    <2>4. CompletedPaired'
      BY <1>0, <2>2, PairedKept
    <2>5. Touches(w)
      BY <1>0, <1>1, <2>2 DEF Touches
    <2>. QED
      BY <1>0, <1>1, <2>1, <2>3, <2>4, <2>5, NoneStep
  <1>3. CASE ~expired[t.send]
    <2>1. PICK cand : cand = {r \in Receives : recv[r] = "ready" /\ <<r, t.send>> \in Correlates
                                                 /\ t.home \in {NoInstance, Owner[r]}}
      OBVIOUS
    <2>2. PICK c : c = [t EXCEPT !.pc = "try", !.cand = cand]
      OBVIOUS
    <2>3. Set(w, c) /\ UNCHANGED send
      BY <1>3, <2>1, <2>2 DEF CheckExpiry
    <2>4. UNCHANGED messages
      BY <1>0, <2>3 DEF messages
    <2>5. /\ Touches(w) /\ RowsOK' /\ CompletedPaired' /\ EnvOK' /\ log' = log
          /\ send' = send /\ recv' = recv /\ expired' = expired
      BY <1>0, <2>4, Unmoved DEF EnvOK
    <2>6. c \in Call /\ c.pc = "try" /\ c.send = t.send /\ c.fresh = FALSE /\ c.recv = NoReceive
      <3>1. cand \in SUBSET Receives
        BY <2>1
      <3>. QED
        BY <1>0, <1>1, <2>2, <3>1 DEF Call, PCs
    <2>. HIDE DEF t
    <2>7. CallOK(c, FALSE, send', recv', expired', log')
      BY <1>1, <1>3, <2>5, <2>6 DEF CallOK, ShapeOK, ClaimOK, DeliverOK, DoneOK, ExpiryOK, Owns, Working
    <2>8. ASSUME NEW v \in Workers, NEW k \in 1..Kept(w, v) PROVE Apart(c, Nth(stack[v], k))
      <3>. DEFINE d == Nth(stack[v], k)
      <3>1. Apart(t, d) /\ CallOK(d, exc[v] /\ k = Len(stack[v]), send, recv, expired, log)
        BY <1>0, <2>5, OthersApart DEF t
      <3>. HIDE DEF d
      <3>2. ~(d.pc = "cancel" /\ t.send \in d.sel)
        BY <1>3, <3>1 DEF CallOK, ExpiryOK
      <3>3. Apart(c, d)
        BY <1>1, <2>6, <3>1, <3>2 DEF Apart
      <3>. QED
        BY <3>3 DEF d
    <2>9. ASSUME NEW s \in jobs PROVE JobOK(s, c)
      <3>1. JobOK(s, t)
        BY <1>0, <2>5, OthersApart DEF t
      <3>. QED
        BY <1>1, <2>6, <3>1 DEF JobOK
    <2>10. UNCHANGED <<exc, jobs, log>>
      BY <1>0
    <2>. QED
      BY <1>0, <2>3, <2>5, <2>6, <2>7, <2>8, <2>9, <2>10, ClaimStep
  <1>. QED
    BY <1>2, <1>3

LEMMA TryReceivePreserves ==
    ASSUME MsgInv, NEW w \in Workers, NEW r \in Receives, TryReceive(w, r)
    PROVE  MsgInv'
  <1>. DEFINE t == Top(w)
              i == Owner[r]
  <1>0. /\ ~Idle(w) /\ ~exc[w] /\ t \in Call /\ t.pc = "try" /\ EnvOK /\ RowsOK
        /\ CallOK(t, FALSE, send, recv, expired, log)
        /\ UNCHANGED <<messages, inst, place, deployed, jobs, exc>>
    BY AtOK DEF TryReceive
  <1>1. i \in Instances
    BY MessageConstants
  <1>2. /\ Touches(w) /\ RowsOK' /\ CompletedPaired' /\ log' = log
        /\ send' = send /\ recv' = recv /\ expired' = expired
    BY <1>0, Unmoved
  <1>3. EnvOK'
    BY <1>0, <1>1, HoldersOK DEF EnvOK, TryReceive
  <1>4. PICK c : c = [t EXCEPT !.cand = @ \ {r}]
    OBVIOUS
  <1>5. PICK own, d : /\ own = (w \notin holders[i])
                      /\ d = [c EXCEPT !.pc = "locked", !.recv = r, !.target = i, !.owns = own]
    OBVIOUS
  <1>6. Set(w, d) \/ Set(w, c)
    BY <1>4, <1>5 DEF TryReceive
  <1>7. c \in Call /\ c.pc = "try" /\ c.send = t.send /\ c.recv = t.recv /\ c.fresh = t.fresh
    BY <1>0, <1>4 DEF Call
  <1>8. d \in Call /\ d.pc = "locked" /\ d.send = t.send /\ d.recv = r /\ d.fresh = t.fresh
    <2>1. own \in BOOLEAN
      BY <1>5
    <2>2. c \in Call /\ d = [c EXCEPT !.pc = "locked", !.recv = r, !.target = i, !.owns = own]
      BY <1>5, <1>7
    <2>. HIDE DEF i, t
    <2>3. d \in Call
      BY <1>1, <2>1, <2>2 DEF Call, PCs
    <2>4. d.pc = "locked" /\ d.send = c.send /\ d.recv = r /\ d.fresh = c.fresh
      BY <2>2 DEF Call
    <2>. QED
      BY <1>7, <2>3, <2>4
  <1>9. t.fresh = FALSE /\ t.recv = NoReceive /\ Owns(t)
    BY <1>0 DEF CallOK, ShapeOK, Owns, Working, Call
  <1>. HIDE DEF t
  <1>10. ASSUME NEW e \in {c, d} PROVE e \in Call /\ CallOK(e, FALSE, send', recv', expired', log') /\ Tame(e, t)
    <2>1. e = c \/ e = d
      OBVIOUS
    <2>2. CASE e = c
      BY <1>0, <1>2, <1>7, <1>9, <2>2
      DEF CallOK, ShapeOK, ClaimOK, DeliverOK, DoneOK, ExpiryOK, Owns, Working, Tame
    <2>3. CASE e = d
      BY <1>0, <1>2, <1>8, <1>9, <2>3
      DEF CallOK, ShapeOK, ClaimOK, DeliverOK, DoneOK, ExpiryOK, Owns, Working, Tame
    <2>. QED
      BY <2>1, <2>2, <2>3
  <1>. QED
    BY <1>0, <1>2, <1>3, <1>6, <1>10, SetStep DEF t

(* The call claims a receive that is ready. *)
LEMMA TakeReceive ==
    ASSUME MsgInv, NEW w \in Workers, ~Idle(w), ~exc[w], Top(w).pc = "locked",
           NEW r \in Receives, recv[r] = "ready", recv' = [recv EXCEPT ![r] = "running"],
           UNCHANGED <<send, to, from, expired, log, inst, place, deployed, jobs, holders, exc>>,
           NEW c \in Call, Set(w, c), c.pc = "deliver", c.send = Top(w).send, c.recv = r
    PROVE  MsgInv'
  <1>. DEFINE t == Top(w)
  <1>0. /\ At(w, "locked") /\ t \in Call /\ t.pc = "locked" /\ EnvOK /\ RowsOK
        /\ CallOK(t, FALSE, send, recv, expired, log)
    <2>1. At(w, "locked")
      BY DEF At
    <2>. QED
      BY <2>1, AtOK
  <1>1. \A q \in Receives : recv'[q] = recv[q] \/ (q = r /\ recv'[q] = "running")
    BY <1>0 DEF RowsOK
  <1>2. Touches(w) /\ RowsOK' /\ EnvOK'
    BY <1>0, <1>1 DEF Touches, RowsOK, EnvOK, RecvStatus
  <1>3. CompletedPaired'
    BY <1>0, <1>1, PairedKept
  <1>4. ~Got(r, log)
    BY DEF MsgInv, LogInv, Got
  <1>. HIDE DEF t
  <1>5. CallOK(c, FALSE, send', recv', expired', log')
    <2>1. recv'[r] = "running"
      BY <1>0 DEF RowsOK
    <2>2. t.send \in Sends /\ send[t.send] = "running" /\ ~Sent(t.send, log)
      BY <1>0 DEF CallOK, ShapeOK, ClaimOK, Owns, Working
    <2>3. c.send = t.send
      BY DEF t
    <2>. QED
      BY <1>4, <2>1, <2>2, <2>3 DEF CallOK, ShapeOK, ClaimOK, DeliverOK, DoneOK, ExpiryOK, Owns, Working
  <1>6. ASSUME NEW v \in Workers, NEW k \in 1..Kept(w, v) PROVE Apart(c, Nth(stack[v], k))
    <2>. DEFINE d == Nth(stack[v], k)
    <2>1. Apart(t, d) /\ CallOK(d, exc[v] /\ k = Len(stack[v]), send, recv, expired, log)
      BY <1>0, <1>2, OthersApart DEF t
    <2>. HIDE DEF d
    <2>2. ~(d.pc = "deliver" /\ d.recv = r)
      BY <2>1 DEF CallOK, DeliverOK
    <2>3. Apart(c, d)
      BY <1>0, <2>1, <2>2 DEF Apart, Owns, Working, t
    <2>. QED
      BY <2>3 DEF d
  <1>7. ASSUME NEW s \in jobs PROVE JobOK(s, c)
    <2>1. JobOK(s, t)
      BY <1>2, OthersApart DEF t
    <2>. QED
      BY <1>0, <2>1 DEF JobOK, Owns, Working, t
  <1>. QED
    BY <1>2, <1>3, <1>5, <1>6, <1>7, ClaimStep

LEMMA ClaimReceivePreserves ==
    ASSUME MsgInv, NEW w \in Workers, ClaimReceive(w)
    PROVE  MsgInv'
  <1>. DEFINE t == Top(w)
  <1>0. /\ ~Idle(w) /\ ~exc[w] /\ t \in Call /\ t.pc = "locked" /\ ~t.fresh /\ EnvOK /\ RowsOK
        /\ CallOK(t, FALSE, send, recv, expired, log)
        /\ UNCHANGED <<send, to, from, expired, log, inst, place, deployed, jobs, exc>>
    BY AtOK DEF ClaimReceive
  <1>1. CASE inst[t.target] = "open" /\ recv[t.recv] = "ready"
    <2>1. PICK c : c = [t EXCEPT !.pc = "deliver"]
      OBVIOUS
    <2>2. c \in Call /\ c.pc = "deliver" /\ c.send = t.send /\ c.recv = t.recv
      BY <1>0, <2>1 DEF Call, PCs
    <2>3. Set(w, c) /\ recv' = [recv EXCEPT ![t.recv] = "running"] /\ UNCHANGED holders
      BY <1>1, <2>1 DEF ClaimReceive, Goto
    <2>4. t.recv \in Receives
      BY <1>0 DEF CallOK, ShapeOK
    <2>. QED
      BY <1>0, <1>1, <2>2, <2>3, <2>4, TakeReceive
  <1>2. CASE ~(inst[t.target] = "open" /\ recv[t.recv] = "ready")
    <2>1. PICK c : c = [Clear(t) EXCEPT !.pc = "try"]
      OBVIOUS
    <2>2. Set(w, c) /\ UNCHANGED recv /\ Leave(w)
      BY <1>2, <2>1 DEF ClaimReceive
    <2>3. UNCHANGED messages
      BY <1>0, <2>2 DEF messages
    <2>4. /\ Touches(w) /\ RowsOK' /\ CompletedPaired' /\ log' = log
          /\ send' = send /\ recv' = recv /\ expired' = expired
      BY <2>3, Unmoved
    <2>5. EnvOK'
      BY <1>0, <2>2, HoldersOK DEF EnvOK
    <2>6. c \in Call /\ c.pc = "try" /\ c.send = t.send /\ c.recv = NoReceive /\ c.fresh = FALSE
      <3>1. PICK d : d = Clear(t)
        OBVIOUS
      <3>2. d \in Call /\ d.send = t.send /\ d.recv = NoReceive /\ d.fresh = FALSE
        BY <1>0, <3>1, ClearOK
      <3>3. c = [d EXCEPT !.pc = "try"]
        BY <2>1, <3>1
      <3>. HIDE DEF t
      <3>. QED
        BY <3>2, <3>3 DEF Call, PCs
    <2>. HIDE DEF t
    <2>7. CallOK(c, FALSE, send', recv', expired', log') /\ Tame(c, t)
      BY <1>0, <2>4, <2>6
      DEF CallOK, ShapeOK, ClaimOK, DeliverOK, DoneOK, ExpiryOK, Owns, Working, Tame
    <2>. QED
      BY <1>0, <2>2, <2>4, <2>5, <2>6, <2>7, SetStep DEF t
  <1>. QED
    BY <1>1, <1>2

LEMMA FindStartedPreserves ==
    ASSUME MsgInv, NEW w \in Workers, FindStarted(w)
    PROVE  MsgInv'
  <1>. DEFINE t == Top(w)
  <1>0. /\ ~Idle(w) /\ ~exc[w] /\ t \in Call /\ t.pc = "locked"
        /\ UNCHANGED <<send, to, from, expired, log, inst, place, deployed, jobs, holders, exc>>
    BY AtOK DEF FindStarted
  <1>1. PICK r \in Ready(recv, t.target) : /\ recv' = [recv EXCEPT ![r] = "running"]
                                           /\ Set(w, [t EXCEPT !.recv = r, !.pc = "deliver"])
    BY DEF FindStarted
  <1>2. r \in Receives /\ recv[r] = "ready"
    BY DEF Ready
  <1>3. PICK c : c = [t EXCEPT !.recv = r, !.pc = "deliver"]
    OBVIOUS
  <1>4. c \in Call /\ c.pc = "deliver" /\ c.send = t.send /\ c.recv = r
    BY <1>0, <1>2, <1>3 DEF Call, PCs
  <1>. QED
    BY <1>0, <1>1, <1>2, <1>3, <1>4, TakeReceive

(* The pair that was delivered is written on both sides. *)
LEMMA PairWritten ==
    ASSUME MsgInv, NEW s \in Sends, NEW r \in Receives, <<s, r>> \in log', log \subseteq log',
           \A q \in Sends : <<q, r>> \in log => q = s,
           to' = [to EXCEPT ![s] = r], from' = [from EXCEPT ![r] = s],
           \A q \in Sends : q # s /\ send'[q] = "completed" => send[q] = "completed",
           \A q \in Receives : recv[q] = "completed" => recv'[q] = "completed",
           recv'[r] = "completed"
    PROVE  CompletedPaired'
  <1>1. /\ CompletedPaired /\ to \in [Sends -> Receives \cup {NoReceive}]
        /\ from \in [Receives -> Sends \cup {NoSend}]
    BY DEF MsgInv, TypeOK
  <1>2. ASSUME NEW q \in Sends, send'[q] = "completed"
        PROVE  /\ to'[q] # NoReceive /\ from'[to'[q]] = q
               /\ recv'[to'[q]] = "completed" /\ <<q, to'[q]>> \in log'
    <2>1. CASE q = s
      BY <1>1, <2>1, MessageConstants
    <2>2. CASE q # s
      <3>1. /\ to'[q] = to[q] /\ to[q] \in Receives /\ from[to[q]] = q
            /\ recv[to[q]] = "completed" /\ <<q, to[q]>> \in log
        BY <1>1, <1>2, <2>2 DEF CompletedPaired
      <3>2. to[q] # r
        BY <2>2, <3>1
      <3>3. from'[to[q]] = q /\ recv'[to[q]] = "completed" /\ <<q, to[q]>> \in log'
        BY <1>1, <3>1, <3>2
      <3>4. to[q] # NoReceive
        BY <3>1, MessageConstants
      <3>. QED
        BY <3>1, <3>3, <3>4
    <2>. QED
      BY <2>1, <2>2
  <1>. QED
    BY <1>2 DEF CompletedPaired

(* The delivered pair is the only one of its receive. *)
LEMMA PairOnly ==
    ASSUME MsgInv, NEW s, NEW r, <<s, r>> \in log
    PROVE  s \in Sends /\ r \in Receives /\ \A q \in Sends : <<q, r>> \in log => q = s
  BY DEF MsgInv, TypeOK, AtMostOnce

LEMMA ConfirmPreserves ==
    ASSUME MsgInv, NEW w \in Workers, Confirm(w)
    PROVE  MsgInv'
  <1>. DEFINE t == Top(w)
  <1>0. /\ ~Idle(w) /\ ~exc[w] /\ t \in Call /\ t.pc = "confirm" /\ EnvOK /\ RowsOK
        /\ CallOK(t, FALSE, send, recv, expired, log)
        /\ UNCHANGED <<send, to, from, expired, log, inst, place, deployed, jobs, holders, exc>>
        /\ recv' = [recv EXCEPT ![t.recv] = "completed"]
    BY AtOK DEF Confirm
  <1>1. PICK c : c = [t EXCEPT !.pc = "complete"]
    OBVIOUS
  <1>2. Set(w, c)
    BY <1>1 DEF Confirm, Goto
  <1>3. c \in Call /\ c.pc = "complete" /\ c.send = t.send /\ c.recv = t.recv /\ c.fresh = t.fresh
    BY <1>0, <1>1 DEF Call, PCs
  <1>. HIDE DEF t
  <1>4. \A r \in Receives : recv'[r] = recv[r] \/ recv'[r] = "completed"
    BY <1>0 DEF RowsOK
  <1>5. Touches(w) /\ RowsOK' /\ EnvOK'
    BY <1>0, <1>4 DEF Touches, RowsOK, EnvOK, RecvStatus
  <1>6. CompletedPaired'
    BY <1>0, <1>4, PairedKept
  <1>7. CallOK(c, FALSE, send', recv', expired', log') /\ Tame(c, t)
    BY <1>0, <1>3 DEF CallOK, ShapeOK, ClaimOK, DeliverOK, DoneOK, ExpiryOK, Owns, Working, Tame
  <1>. QED
    BY <1>0, <1>2, <1>3, <1>5, <1>6, <1>7, SetStep DEF t

LEMMA CompletePreserves ==
    ASSUME MsgInv, NEW w \in Workers, Complete(w)
    PROVE  MsgInv'
  <1>. DEFINE t == Top(w)
  <1>0. /\ ~Idle(w) /\ ~exc[w] /\ t \in Call /\ t.pc = "complete" /\ EnvOK /\ RowsOK
        /\ CallOK(t, FALSE, send, recv, expired, log)
        /\ UNCHANGED <<expired, log, inst, place, deployed, jobs, holders, exc>>
        /\ send' = [send EXCEPT ![t.send] = "completed"]
        /\ recv' = [recv EXCEPT ![t.recv] = "completed"]
        /\ to' = [to EXCEPT ![t.send] = t.recv] /\ from' = [from EXCEPT ![t.recv] = t.send]
    BY AtOK DEF Complete
  <1>1. PICK c : c = [t EXCEPT !.pc = "publish"]
    OBVIOUS
  <1>2. Set(w, c)
    BY <1>1 DEF Complete, Goto
  <1>3. c \in Call /\ c.pc = "publish" /\ c.send = t.send /\ c.recv = t.recv /\ c.fresh = t.fresh
    BY <1>0, <1>1 DEF Call, PCs
  <1>4. /\ t.send \in Sends /\ t.recv \in Receives /\ <<t.send, t.recv>> \in log /\ Owns(t)
        /\ \A q \in Sends : <<q, t.recv>> \in log => q = t.send
    <2>1. <<t.send, t.recv>> \in log /\ Owns(t)
      BY <1>0 DEF CallOK, DoneOK, Owns, Working
    <2>. QED
      BY <2>1, PairOnly
  <1>5. \A s \in Sends : send'[s] = send[s] \/ (s = t.send /\ send'[s] = "completed")
    BY <1>0 DEF RowsOK
  <1>6. /\ \A r \in Receives : recv'[r] = recv[r] \/ recv'[r] = "completed"
        /\ recv'[t.recv] = "completed" /\ send'[t.send] = "completed"
    BY <1>0, <1>4 DEF RowsOK
  <1>7. Touches(w)
    BY <1>0, <1>4, <1>5, <1>6 DEF Touches
  <1>. HIDE DEF t
  <1>8. RowsOK' /\ EnvOK'
    BY <1>0, <1>4, <1>5, <1>6 DEF RowsOK, EnvOK, RecvStatus, SendStatus
  <1>9. CompletedPaired'
    BY <1>0, <1>4, <1>5, <1>6, PairWritten
  <1>10. CallOK(c, FALSE, send', recv', expired', log') /\ Tame(c, t)
    BY <1>0, <1>3, <1>4, <1>6 DEF CallOK, ShapeOK, ClaimOK, DeliverOK, DoneOK, ExpiryOK, Owns, Working, Tame
  <1>. QED
    BY <1>0, <1>2, <1>3, <1>7, <1>8, <1>9, <1>10, SetStep DEF t

LEMMA DeliverAtOncePreserves ==
    ASSUME MsgInv, NEW w \in Workers, DeliverAtOnce(w)
    PROVE  MsgInv'
  <1>. DEFINE t == Top(w)
  <1>0. /\ ~Idle(w) /\ ~exc[w] /\ t \in Call /\ t.pc = "deliver" /\ EnvOK /\ RowsOK
        /\ CallOK(t, FALSE, send, recv, expired, log) /\ At(w, "deliver")
        /\ UNCHANGED <<expired, place, deployed, jobs, exc>>
        /\ to' = [to EXCEPT ![t.send] = t.recv] /\ from' = [from EXCEPT ![t.recv] = t.send]
        /\ log' = log \cup {<<t.send, t.recv>>}
    BY AtOK DEF DeliverAtOnce
  <1>1. PICK c : /\ Set(w, c) /\ c \in Call /\ c.send = t.send /\ c.recv = t.recv
                 /\ c.pc \in {"publish", "engine"}
                 /\ Leave(w) \/ UNCHANGED holders
    <2>1. CASE t.fresh /\ t.back # "job"
      <3>1. PICK c : c = [t EXCEPT !.pc = "publish", !.owns = FALSE]
        OBVIOUS
      <3>2. c \in Call /\ c.pc = "publish" /\ c.send = t.send /\ c.recv = t.recv
        BY <1>0, <3>1 DEF Call, PCs
      <3>3. Set(w, c) /\ Leave(w)
        BY <2>1, <3>1 DEF DeliverAtOnce
      <3>. QED
        BY <3>2, <3>3
    <2>2. CASE ~(t.fresh /\ t.back # "job")
      <3>1. PICK p : p = IF t.fresh THEN "engine" ELSE "publish"
        OBVIOUS
      <3>2. PICK c : c = [t EXCEPT !.pc = p]
        OBVIOUS
      <3>3. p \in PCs /\ p \in {"publish", "engine"}
        BY <3>1 DEF PCs
      <3>4. c \in Call /\ c.pc = p /\ c.send = t.send /\ c.recv = t.recv /\ c.fresh = t.fresh
        BY <1>0, <3>2, <3>3, GotoOK
      <3>5. Set(w, c) /\ UNCHANGED holders
        BY <2>2, <3>1, <3>2 DEF DeliverAtOnce, Goto
      <3>. QED
        BY <3>3, <3>4, <3>5
    <2>. QED
      BY <2>1, <2>2
  <1>2. PICK rv \in QueueWaiting(t.target) :
            /\ recv' = [rv EXCEPT ![t.recv] = "completed"]
            /\ \E st \in Saved(t.target, rv) : inst' = [inst EXCEPT ![t.target] = st]
    BY DEF DeliverAtOnce
  <1>3. PICK sd \in Thrown : send' = [sd EXCEPT ![t.send] = "completed"]
    BY DEF DeliverAtOnce
  <1>. HIDE DEF t
  <1>4. /\ t.send \in Sends /\ t.recv \in Receives /\ Owns(t) /\ ~Got(t.recv, log)
        /\ recv[t.recv] \notin {"none", "ready"} /\ send[t.send] = "running"
    BY <1>0 DEF CallOK, ShapeOK, ClaimOK, DeliverOK, Owns, Working
  <1>5. /\ \A s \in Sends : s # t.send => send'[s] = send[s] \/ (send[s] = "none" /\ send'[s] = "ready")
        /\ send'[t.send] = "completed" /\ send' \in [Sends -> SendStatus]
    <2>1. sd \in [Sends -> SendStatus] /\ \A s \in Sends : sd[s] = send[s] \/ (send[s] = "none" /\ sd[s] = "ready")
      BY <1>0, ThrownOK
    <2>. QED
      BY <1>3, <1>4, <2>1 DEF SendStatus
  <1>6. /\ \A r \in Receives : recv[r] \notin {"none", "ready"} => recv'[r] = recv[r] \/ recv'[r] = "completed"
        /\ recv'[t.recv] = "completed" /\ recv' \in [Receives -> RecvStatus]
    <2>1. /\ rv \in [Receives -> RecvStatus]
          /\ \A r \in Receives : recv[r] \notin {"none", "ready"} => rv[r] = recv[r]
      BY <1>0, WaitingOK
    <2>. QED
      BY <1>2, <1>4, <2>1 DEF RecvStatus
  <1>7. Touches(w)
    <2>1. ASSUME NEW s \in Sends, s = t.send
          PROVE  Owns(Top(w)) /\ Top(w).send = s /\ send'[s] \in {"running", "completed", "failed"}
      BY <1>4, <1>5, <2>1 DEF t
    <2>2. \A r \in Receives : recv[r] \notin {"none", "ready"} => recv'[r] \notin {"none", "ready"}
      BY <1>6
    <2>3. log' = log \cup {<<Top(w).send, Top(w).recv>>}
      BY <1>0 DEF t
    <2>. QED
      BY <1>0, <1>5, <2>1, <2>2, <2>3 DEF Touches
  <1>8. RowsOK' /\ EnvOK'
    <2>1. inst' \in [Instances -> {"none", "reserved", "open", "closed"}]
      BY <1>0, <1>2 DEF Saved, EnvOK
    <2>2. holders' \in [Instances -> SUBSET Workers]
      BY <1>0, <1>1, HoldersOK
    <2>. QED
      BY <1>0, <1>4, <1>5, <1>6, <2>1, <2>2 DEF RowsOK, EnvOK
  <1>9. CompletedPaired'
    <2>1. \A q \in Sends : <<q, t.recv>> \in log => q = t.send
      BY <1>4 DEF Got
    <2>2. <<t.send, t.recv>> \in log' /\ log \subseteq log'
      BY <1>0
    <2>3. \A q \in Receives : recv[q] = "completed" => recv'[q] = "completed"
      BY <1>6
    <2>4. \A q \in Sends : q # t.send /\ send'[q] = "completed" => send[q] = "completed"
      BY <1>5
    <2>. QED
      BY <1>0, <1>4, <1>6, <2>1, <2>2, <2>3, <2>4, PairWritten
  <1>10. CallOK(c, FALSE, send', recv', expired', log') /\ Tame(c, t)
    <2>1. <<c.send, c.recv>> \in log' /\ send'[c.send] = "completed" /\ c.send # NoSend
      BY <1>0, <1>1, <1>4, <1>5, MessageConstants
    <2>. QED
      BY <1>1, <2>1 DEF CallOK, ShapeOK, ClaimOK, DeliverOK, DoneOK, ExpiryOK, Owns, Working, Tame
  <1>. QED
    BY <1>0, <1>1, <1>7, <1>8, <1>9, <1>10, SetStep DEF t

LEMMA ResetPreserves ==
    ASSUME MsgInv, NEW w \in Workers, Reset(w)
    PROVE  MsgInv'
  <1>. DEFINE t == Top(w)
  <1>0. /\ ~Idle(w) /\ ~exc[w] /\ t \in Call /\ t.pc = "try" /\ EnvOK /\ RowsOK
        /\ CallOK(t, FALSE, send, recv, expired, log)
        /\ UNCHANGED <<recv, to, from, expired, log, inst, place, deployed, jobs, holders, exc>>
        /\ send' = [send EXCEPT ![t.send] = "ready"] /\ ReturnNone(w)
    BY AtOK DEF Reset, Unmatched
  <1>1. t.send \in Sends /\ t.fresh = FALSE /\ t.recv = NoReceive /\ Owns(t) /\ ~Sent(t.send, log)
    BY <1>0 DEF CallOK, ShapeOK, ClaimOK, Owns, Working, Call
  <1>2. \A s \in Sends : send'[s] = send[s] \/ (s = t.send /\ send'[s] = "ready")
    BY <1>0 DEF RowsOK
  <1>3. RowsOK' /\ EnvOK'
    BY <1>0 DEF RowsOK, EnvOK, SendStatus
  <1>4. CompletedPaired'
    BY <1>0, <1>2, PairedKept
  <1>5. Touches(w)
    BY <1>0, <1>1, <1>2 DEF Touches
  <1>. QED
    BY <1>0, <1>1, <1>3, <1>4, <1>5, NoneStep

LEMMA ReservePreserves ==
    ASSUME MsgInv, NEW w \in Workers, Reserve(w)
    PROVE  MsgInv'
  <1>. DEFINE t == Top(w)
  <1>0. /\ ~Idle(w) /\ ~exc[w] /\ t \in Call /\ t.pc = "try" /\ EnvOK /\ RowsOK
        /\ CallOK(t, FALSE, send, recv, expired, log)
        /\ UNCHANGED <<messages, deployed, jobs, holders, exc>>
    BY AtOK DEF Reserve, Unmatched
  <1>1. PICK i \in Unused(t.send) : /\ inst' = [inst EXCEPT ![i] = "reserved"]
                                    /\ place' = [place EXCEPT ![t.send] = i]
                                    /\ Set(w, [t EXCEPT !.pc = "enqueue", !.target = i])
    BY DEF Reserve
  <1>2. t.send \in Sends /\ i \in Instances
    <2>1. t.send \in Sends
      BY <1>0 DEF CallOK, ShapeOK, Owns, Working
    <2>. QED
      BY <2>1, MessageConstants DEF Unused
  <1>3. PICK c : c = [t EXCEPT !.pc = "enqueue", !.target = i]
    OBVIOUS
  <1>4. c \in Call /\ c.pc = "enqueue" /\ c.send = t.send /\ c.recv = t.recv /\ c.fresh = t.fresh
    BY <1>0, <1>2, <1>3 DEF Call, PCs
  <1>5. /\ Touches(w) /\ RowsOK' /\ CompletedPaired' /\ log' = log
        /\ send' = send /\ recv' = recv /\ expired' = expired
    BY <1>0, Unmoved
  <1>. HIDE DEF t
  <1>6. EnvOK'
    BY <1>0, <1>1, <1>2 DEF EnvOK
  <1>7. CallOK(c, FALSE, send', recv', expired', log') /\ Tame(c, t)
    BY <1>0, <1>4, <1>5 DEF CallOK, ShapeOK, ClaimOK, DeliverOK, DoneOK, ExpiryOK, Owns, Working, Tame
  <1>. QED
    BY <1>0, <1>1, <1>3, <1>4, <1>5, <1>6, <1>7, SetStep DEF t

(* The job takes the message over from the call that queues it. *)
LEMMA EnqueueJobPreserves ==
    ASSUME MsgInv, NEW w \in Workers, EnqueueJob(w)
    PROVE  MsgInv'
  <1>. DEFINE t == Top(w)
              c == NextOf(t)
  <1>0. /\ ~Idle(w) /\ ~exc[w] /\ t \in Call /\ t.pc = "enqueue" /\ EnvOK /\ RowsOK
        /\ CallOK(t, FALSE, send, recv, expired, log) /\ exc \in [Workers -> BOOLEAN]
        /\ UNCHANGED <<messages, inst, place, deployed, holders, exc>>
        /\ jobs' = jobs \cup {t.send}
        /\ Pop(w) \/ Set(w, c)
    BY AtOK DEF EnqueueJob, ReturnMessage
  <1>1. t.send \in Sends /\ Owns(t) /\ send[t.send] = "running" /\ ~Sent(t.send, log)
    BY <1>0 DEF CallOK, ShapeOK, ClaimOK, Owns, Working
  <1>2. c \in Call /\ Harmless(c)
    BY <1>0, ClearOK DEF Harmless
  <1>3. /\ Touches(w) /\ RowsOK' /\ CompletedPaired' /\ log' = log
        /\ send' = send /\ recv' = recv /\ expired' = expired
    BY <1>0, Unmoved
  <1>. HIDE DEF c
  <1>4. PICK new \in Seq(Call) : /\ new \in {<<>>, <<c>>, <<NewCall, c>>} /\ new # <<NewCall, c>>
                                 /\ stack' = [stack EXCEPT ![w] = new \o Rest(w)]
    <2>1. Rest(w) = Tail(stack[w]) /\ Rest(w) \in Seq(Call)
      BY <1>0, TopOK
    <2>2. Len(<<>>) # Len(<<NewCall, c>>) /\ Len(<<c>>) # Len(<<NewCall, c>>)
      OBVIOUS
    <2>3. CASE Pop(w)
      <3>1. stack' = [stack EXCEPT ![w] = <<>> \o Rest(w)]
        BY <2>1, <2>3, ConcatEmptySeq DEF Pop
      <3>. QED
        BY <2>2, <3>1, EmptySeq
    <2>4. CASE Set(w, c)
      <3>1. stack' = [stack EXCEPT ![w] = <<c>> \o Rest(w)]
        BY <2>1, <2>4 DEF Set
      <3>. QED
        BY <1>2, <2>2, <3>1, OneCall
    <2>. QED
      BY <1>0, <2>3, <2>4
  <1>5. TypeOK /\ CallsInv /\ LogInv /\ jobs' \subseteq Sends
    BY <1>0, <1>1 DEF MsgInv, TypeOK
  <1>6. ASSUME NEW s \in jobs'
        PROVE  /\ send'[s] = "running" /\ ~Sent(s, log') /\ (new # <<>> => JobOK(s, c))
               /\ \A v \in Workers : \A k \in 1..Kept(w, v) : JobOK(s, Nth(stack[v], k))
    <2>1. JobOK(s, c)
      BY <1>2, HarmlessOK
    <2>2. CASE s \in jobs
      BY <1>3, <2>1, <2>2, JobsKept
    <2>3. CASE s = t.send
      <3>1. ASSUME NEW v \in Workers, NEW k \in 1..Kept(w, v) PROVE JobOK(s, Nth(stack[v], k))
        <4>1. Apart(t, Nth(stack[v], k))
          BY <1>0, <1>3, OthersApart
        <4>. HIDE DEF t
        <4>. QED
          BY <1>0, <1>1, <2>3, <4>1 DEF Apart, JobOK, Working
      <3>. QED
        BY <1>1, <1>3, <2>1, <2>3, <3>1
    <2>. QED
      BY <1>0, <2>2, <2>3
  <1>7. /\ exc' \in [Workers -> BOOLEAN] /\ \A v \in Workers : v # w => exc'[v] = exc[v]
        /\ exc'[w] = FALSE
    BY <1>0
  <1>8. CallsInv'
    <2>1. NewCall \in Call /\ Looks(NewCall)
      BY NewCallOK
    <2>2. CallOK(c, exc'[w], send', recv', expired', log')
      BY <1>2, <1>7, HarmlessOK
    <2>3. \A v \in Workers : \A k \in 1..Kept(w, v) : Apart(c, Nth(stack[v], k))
      BY <1>2, HarmlessOK
    <2>4. new = <<>> /\ exc'[w] => Len(Rest(w)) > 0
      BY <1>7
    <2>. QED
      BY ZenonT(40), <1>2, <1>3, <1>4, <1>5, <1>6, <1>7, <2>1, <2>2, <2>3, <2>4, CallsStep
  <1>9. TypeOK'
    <2>1. stack' \in [Workers -> Seq(Call)]
      BY <1>4, <1>5, Becomes
    <2>. QED
      BY <1>0, <1>3, <1>5, <2>1 DEF TypeOK, RowsOK, messages
  <1>. QED
    BY <1>3, <1>8, <1>9, LogStep DEF MsgInv

(* An exception leaves a call: the message and the receive it has in hand  *)
(* are its own, so that no completed pair loses its receive.               *)
LEMMA UnwindPreserves ==
    ASSUME MsgInv, NEW w \in Workers, Unwind(w)
    PROVE  MsgInv'
  <1>. DEFINE t == Top(w)
              inHand == t.recv # NoReceive /\ ~(t.fresh /\ t.pc = "deliver")
  <1>0. /\ ~Idle(w) /\ exc[w] = TRUE /\ t \in Call /\ EnvOK /\ RowsOK
        /\ CallOK(t, TRUE, send, recv, expired, log) /\ exc \in [Workers -> BOOLEAN]
    <2>1. ~Idle(w) /\ exc[w]
      BY DEF Unwind
    <2>2. exc[w] = TRUE /\ t \in Call
      BY <2>1, TopOK
    <2>. QED
      BY <2>1, <2>2, TopOK DEF MsgInv, TypeOK, RowsOK, EnvOK
  <1>1. /\ UNCHANGED <<to, from, expired, log, place, deployed, jobs>> /\ Leave(w) /\ Pop(w)
        /\ exc' = [exc EXCEPT ![w] = Len(stack[w]) > 1]
        /\ inst' = IF t.target = NoInstance THEN inst ELSE [inst EXCEPT ![t.target] = "closed"]
        /\ send' = IF t.send = NoSend THEN send ELSE [send EXCEPT ![t.send] = "failed"]
        /\ recv' = IF inHand THEN [recv EXCEPT ![t.recv] = "failed"] ELSE recv
    BY DEF Unwind
  <1>2. exc'[w] = (Len(stack[w]) > 1) /\ \A v \in Workers : v # w => exc'[v] = exc[v]
    BY <1>0, <1>1
  <1>3. exc' \in [Workers -> BOOLEAN]
    <2>1. Len(stack[w]) \in Nat
      BY TopCall DEF MsgInv
    <2>2. (Len(stack[w]) > 1) \in BOOLEAN
      BY <2>1
    <2>. QED
      BY <1>0, <1>1, <2>2
  <1>. HIDE DEF t
  <1>4. EnvOK'
    <2>1. holders' \in [Instances -> SUBSET Workers]
      BY <1>0, <1>1, HoldersOK
    <2>. QED
      BY <1>0, <1>1, <2>1 DEF EnvOK
  <1>5. RowsOK'
    <2>1. send' \in [Sends -> SendStatus]
      BY <1>0, <1>1 DEF RowsOK, SendStatus
    <2>2. recv' \in [Receives -> RecvStatus]
      BY <1>0, <1>1 DEF RowsOK, RecvStatus
    <2>. QED
      BY <1>0, <1>1, <2>1, <2>2 DEF RowsOK
  <1>6. \A s \in Sends : send'[s] = send[s] \/ (s = t.send /\ send'[s] = "failed")
    BY <1>0, <1>1 DEF RowsOK
  <1>7. \A r \in Receives : recv'[r] = recv[r] \/ (r = t.recv /\ inHand /\ recv'[r] = "failed")
    BY <1>0, <1>1 DEF RowsOK
  <1>8. t.pc \in {"engine", "deliver", "publish", "try", "enqueue", "prepare", "confirm", "release"}
        \/ (t.pc = "locked" /\ t.fresh)
    BY <1>0 DEF CallOK, ShapeOK, Waits
  <1>9. t.send \in Sends => Owns(t) \/ send[t.send] \in {"completed", "failed"}
    <2>1. t.send \in Sends => t.send # NoSend
      BY MessageConstants
    <2>. QED
      BY <1>0, <1>8, <2>1 DEF CallOK, DoneOK, Owns, Working
  <1>10. Touches(w)
    <2>1. \A r \in Receives : recv[r] \notin {"none", "ready"} => recv'[r] \notin {"none", "ready"}
      BY <1>7
    <2>2. ASSUME NEW s \in Sends
          PROVE  \/ send'[s] = send[s]
                 \/ send[s] \in {"completed", "failed"} /\ send'[s] \in {"completed", "failed"}
                 \/ Owns(t) /\ t.send = s /\ send'[s] \in {"running", "completed", "failed"}
      BY <1>6, <1>9
    <2>. QED
      BY <1>0, <1>1, <2>1, <2>2 DEF Touches, t
  <1>11. CompletedPaired'
    <2>1. ASSUME NEW s \in Sends, send'[s] = "completed"
          PROVE  recv'[to[s]] = "completed" /\ send[s] = "completed"
      <3>1. send[s] = "completed" /\ s # t.send
        BY <1>0, <1>1, <1>6, <2>1, MessageConstants DEF RowsOK
      <3>2. to[s] \in Receives /\ recv[to[s]] = "completed" /\ <<s, to[s]>> \in log
        BY <3>1 DEF MsgInv, CompletedPaired, TypeOK
      <3>3. ASSUME to[s] = t.recv, inHand PROVE FALSE
        <4>1. t.recv \in Receives /\ t.recv # NoReceive /\ Got(t.recv, log)
          BY <3>2, <3>3, MessageConstants DEF Got
        <4>2. <<t.send, t.recv>> \in log
          <5>1. CASE t.pc = "deliver"
            BY <1>0, <4>1, <5>1 DEF CallOK, DeliverOK
          <5>2. CASE t.pc # "deliver"
            BY <1>0, <1>8, <4>1, <5>2 DEF CallOK, DoneOK, ShapeOK
          <5>. QED
            BY <5>1, <5>2
        <4>. QED
          BY <3>1, <3>2, <3>3, <4>2, PairOnly
      <3>. HIDE DEF inHand
      <3>. QED
        BY <1>7, <3>1, <3>2, <3>3
    <2>. QED
      BY <1>1, <2>1 DEF MsgInv, CompletedPaired
  <1>. QED
    BY <1>0, <1>1, <1>2, <1>3, <1>4, <1>5, <1>10, <1>11, PopStep

-----------------------------------------------------------------------------
(* Steps outside the workers' calls *)

(* A killed worker's calls are gone; the others' are as they were. *)
LEMMA CrashPreserves ==
    ASSUME MsgInv, NEW w \in Workers, Crash(w)
    PROVE  MsgInv'
  <1>1. /\ UNCHANGED <<send, recv, to, from, expired, log, inst, place, deployed, jobs>>
        /\ stack' = [stack EXCEPT ![w] = <<>>] /\ exc' = [exc EXCEPT ![w] = FALSE]
        /\ holders' = [i \in Instances |-> holders[i] \ {w}]
    BY DEF Crash, messages, Lock!Die
  <1>2. TypeOK
    BY DEF MsgInv
  <1>3. /\ stack' \in [Workers -> Seq(Call)] /\ exc' \in [Workers -> BOOLEAN]
        /\ stack'[w] = <<>> /\ exc'[w] = FALSE
        /\ \A v \in Workers : v # w => stack'[v] = stack[v] /\ exc'[v] = exc[v]
    BY <1>1, <1>2, EmptySeq DEF TypeOK
  <1>4. TypeOK'
    BY <1>1, <1>2, <1>3 DEF TypeOK
  <1>5. Len(stack'[w]) = 0
    BY <1>3, EmptySeq
  <1>6. \A v \in Workers : \A k \in 1..Len(stack'[v]) : v # w /\ stack'[v] = stack[v] /\ exc'[v] = exc[v]
    BY <1>3, <1>5
  <1>7. Frames'
    <2>1. ASSUME NEW v \in Workers PROVE exc'[v] => Len(stack'[v]) > 0
      BY <1>3 DEF MsgInv, CallsInv, Frames
    <2>2. ASSUME NEW v \in Workers, NEW k \in 1..Len(stack'[v])
          PROVE  /\ CallOK(Nth(stack'[v], k), exc'[v] /\ k = Len(stack'[v]), send', recv', expired', log')
                 /\ k < Len(stack'[v]) => Waits(Nth(stack'[v], k))
      <3>1. stack'[v] = stack[v] /\ exc'[v] = exc[v] /\ k \in 1..Len(stack[v])
        BY <1>6, <2>2
      <3>2. /\ CallOK(Nth(stack[v], k), exc[v] /\ k = Len(stack[v]), send, recv, expired, log)
            /\ k < Len(stack[v]) => Waits(Nth(stack[v], k))
        BY <3>1 DEF MsgInv, CallsInv, Frames
      <3>. QED
        BY <1>1, <3>1, <3>2
    <2>. QED
      BY <2>1, <2>2 DEF Frames
  <1>8. Pairs'
    BY <1>6 DEF MsgInv, CallsInv, Pairs
  <1>9. JobsInv'
    BY <1>1, <1>6 DEF MsgInv, CallsInv, JobsInv
  <1>10. LogInv' /\ AtMostOnce' /\ CompletedPaired'
    BY <1>1 DEF MsgInv, LogInv, AtMostOnce, CompletedPaired
  <1>. QED
    BY <1>4, <1>7, <1>8, <1>9, <1>10 DEF MsgInv, CallsInv

(* Time passes: what is claimed stays claimed, what is selected selected. *)
LEMMA ExpirePreserves ==
    ASSUME MsgInv, NEW s \in Sends, Expire(s)
    PROVE  MsgInv'
  <1>1. /\ UNCHANGED <<send, recv, to, from, inst, place, deployed, jobs, holders, stack, exc, log>>
        /\ expired' = [expired EXCEPT ![s] = TRUE]
    BY DEF Expire
  <1>2. TypeOK' /\ \A q \in Sends : expired[q] => expired'[q]
    BY <1>1 DEF MsgInv, TypeOK
  <1>3. Frames'
    <2>1. ASSUME NEW v \in Workers, NEW k \in 1..Len(stack[v])
          PROVE  /\ CallOK(Nth(stack[v], k), exc[v] /\ k = Len(stack[v]), send, recv, expired', log)
                 /\ k < Len(stack[v]) => Waits(Nth(stack[v], k))
      <3>. DEFINE c == Nth(stack[v], k)
                  x == exc[v] /\ k = Len(stack[v])
      <3>1. CallOK(c, x, send, recv, expired, log) /\ (k < Len(stack[v]) => Waits(c))
        BY DEF MsgInv, CallsInv, Frames
      <3>2. c \in Call
        BY TopCall DEF MsgInv
      <3>. HIDE DEF c, x
      <3>3. ClaimOK(c, x, send, expired', log)
        BY <1>2, <3>1 DEF CallOK, ShapeOK, ClaimOK
      <3>4. ExpiryOK(c, expired', log)
        BY <1>2, <3>1, <3>2 DEF CallOK, ExpiryOK, Call
      <3>5. CallOK(c, x, send, recv, expired', log)
        BY <3>1, <3>3, <3>4 DEF CallOK
      <3>. QED
        BY <3>1, <3>5 DEF c, x
    <2>. QED
      BY <1>1, <2>1 DEF MsgInv, CallsInv, Frames
  <1>4. Pairs' /\ JobsInv'
    BY <1>1 DEF MsgInv, CallsInv, Pairs, JobsInv
  <1>5. LogInv' /\ AtMostOnce' /\ CompletedPaired'
    BY <1>1 DEF MsgInv, LogInv, AtMostOnce, CompletedPaired
  <1>. QED
    BY <1>2, <1>3, <1>4, <1>5 DEF MsgInv, CallsInv

(* Users and deployments leave messages and calls alone. *)
LEMMA OutsidePreserves ==
    ASSUME MsgInv, (\E i \in Instances : Close(i) \/ Resume(i)) \/ Deploy \/ UNCHANGED vars
    PROVE  MsgInv'
  <1>1. /\ UNCHANGED <<send, recv, to, from, expired, log, place, jobs, holders, stack, exc>>
        /\ inst' = inst \/ \E i \in Instances, st \in {"open", "closed"} : inst' = [inst EXCEPT ![i] = st]
        /\ deployed' \in {deployed, TRUE}
    BY DEF Close, Resume, Deploy, vars, messages
  <1>2. TypeOK'
    <2>1. inst' \in [Instances -> {"none", "reserved", "open", "closed"}]
      BY <1>1 DEF MsgInv, TypeOK
    <2>. QED
      BY <1>1, <2>1 DEF MsgInv, TypeOK
  <1>3. CallsInv'
    BY <1>1 DEF MsgInv, CallsInv, Frames, Pairs, JobsInv
  <1>4. LogInv' /\ AtMostOnce' /\ CompletedPaired'
    BY <1>1 DEF MsgInv, LogInv, AtMostOnce, CompletedPaired
  <1>. QED
    BY <1>2, <1>3, <1>4 DEF MsgInv

-----------------------------------------------------------------------------
(* The theorems *)

(* Every behaviour of the message service keeps the inductive invariant:   *)
(* calls own the messages they have claimed, and nothing is in two hands.  *)
THEOREM Invariant == Spec => []MsgInv
  <1>1. Init => MsgInv
    <2>. SUFFICES ASSUME Init PROVE MsgInv
      OBVIOUS
    <2>1. TypeOK
      BY EmptySeq DEF Init, TypeOK, SendStatus, RecvStatus, Lock!Init
    <2>2. \A v \in Workers : stack[v] = <<>> /\ Len(stack[v]) = 0 /\ exc[v] = FALSE
      BY EmptySeq DEF Init
    <2>3. CallsInv
      BY <2>2 DEF Init, CallsInv, Frames, Pairs, JobsInv
    <2>. QED
      BY <2>1, <2>3 DEF Init, MsgInv, LogInv, AtMostOnce, CompletedPaired
  <1>2. MsgInv /\ [Next]_vars => MsgInv'
    <2>. SUFFICES ASSUME MsgInv, [Next]_vars PROVE MsgInv'
      OBVIOUS
    <2>1. ASSUME NEW w \in Workers, Proceed(w) PROVE MsgInv'
      <3>1. CASE ExpireSelect(w) \/ ExpireWrite(w) \/ FindUuid(w) \/ Insert(w) \/ Answer(w)
        BY <3>1, ExpireSelectPreserves, ExpireWritePreserves, ReadsPreserves, InsertPreserves, AnswerPreserves
      <3>2. CASE List(w) \/ NextSend(w) \/ Claim(w) \/ CheckExpiry(w)
        BY <3>2, ReadsPreserves, ClaimPreserves, CheckExpiryPreserves
      <3>3. CASE (\E r \in Receives : TryReceive(w, r)) \/ ClaimReceive(w) \/ FindStarted(w)
        BY <3>3, TryReceivePreserves, ClaimReceivePreserves, FindStartedPreserves
      <3>4. CASE Deliver(w) \/ Confirm(w) \/ Complete(w) \/ DeliverAtOnce(w)
        BY <3>4, DeliverPreserves, ConfirmPreserves, CompletePreserves, DeliverAtOncePreserves
      <3>5. CASE Raises(w)
        BY <3>5, RaisesPreserves
      <3>6. CASE Publish(w) \/ Release(w) \/ Reset(w) \/ Reserve(w) \/ EnqueueJob(w)
        BY <3>6, ReleasePreserves, ResetPreserves, ReservePreserves, EnqueueJobPreserves
      <3>7. CASE StartProcess(w) \/ StartReserved(w) \/ Engine(w) \/ Unwind(w)
        BY <3>7, StartPreserves, EnginePreserves, UnwindPreserves
      <3>. QED
        BY <2>1, <3>1, <3>2, <3>3, <3>4, <3>5, <3>6, <3>7 DEF Proceed, Raises
    <2>2. ASSUME NEW w \in Workers, Begin(w) PROVE MsgInv'
      BY <2>2, PostPreserves, CorrelateAllPreserves, RunInstancePreserves, StartJobPreserves DEF Begin
    <2>3. ASSUME NEW w \in Workers, Crash(w) PROVE MsgInv'
      BY <2>3, CrashPreserves
    <2>4. ASSUME NEW s \in Sends, Expire(s) PROVE MsgInv'
      BY <2>4, ExpirePreserves
    <2>5. CASE (\E i \in Instances : Close(i) \/ Resume(i)) \/ Deploy \/ UNCHANGED vars
      BY <2>5, OutsidePreserves
    <2>. QED
      BY <2>1, <2>2, <2>3, <2>4, <2>5 DEF Next
  <1>. QED
    BY <1>1, <1>2, PTL DEF Spec

(* Rows, calls and jobs keep their types. *)
THEOREM TypeCorrect == Spec => []TypeOK
  <1>1. MsgInv => TypeOK
    BY DEF MsgInv
  <1>. QED
    BY <1>1, Invariant, PTL

(* No message is delivered twice and no receive gets two messages: not by  *)
(* requests, the scheduler, start jobs and buffering in any interleaving,  *)
(* nor after failures, nor after a worker is killed anywhere.              *)
THEOREM DeliveredAtMostOnce == Spec => []AtMostOnce
  <1>1. MsgInv => AtMostOnce
    BY DEF MsgInv
  <1>. QED
    BY <1>1, Invariant, PTL

(* A message answered with message_not_accepted, or cancelled because its  *)
(* time to live is over, was not delivered and never will be, although an  *)
(* expiry writes rows that it read before.                                 *)
THEOREM RefusalIsFinal == Spec => []RefusedIsFinal
  <1>1. MsgInv => RefusedIsFinal
    BY DEF MsgInv, LogInv, RefusedIsFinal
  <1>. QED
    BY <1>1, Invariant, PTL

(* _mark_messages_completed pairs a send with the receive that got it, and *)
(* no failure of another call takes the pair apart.                        *)
THEOREM CompletedIsPaired == Spec => []CompletedPaired
  <1>1. MsgInv => CompletedPaired
    BY DEF MsgInv
  <1>. QED
    BY <1>1, Invariant, PTL

(* A claimed message belongs to one call, and is running until it is done. *)
THEOREM OneCallOwns == Spec => []OneOwner
  <1>1. ASSUME MsgInv, NEW s \in Sends, Calls(s) # {}
        PROVE  Cardinality(Calls(s)) = 1 /\ send[s] = "running"
    <2>0. TypeOK
      BY <1>1 DEF MsgInv
    <2>1. ASSUME NEW e \in Calls(s)
          PROVE  \E v \in Workers : \E k \in 1..Len(stack[v]) :
                    /\ e = <<v, Len(stack[v]) + 1 - k>>
                    /\ Nth(stack[v], k).send = s /\ Nth(stack[v], k).pc \in Working
      <3>0. PICK v \in Workers : \E n \in 1..Len(stack[v]) :
                e = <<v, n>> /\ stack[v][n].send = s /\ stack[v][n].pc \in Working
        BY DEF Calls
      <3>1. PICK n \in 1..Len(stack[v]) :
                e = <<v, n>> /\ stack[v][n].send = s /\ stack[v][n].pc \in Working
        BY <3>0
      <3>2. Len(stack[v]) \in Nat
        BY <2>0, TopCall
      <3>3. /\ Len(stack[v]) + 1 - n \in 1..Len(stack[v])
            /\ Len(stack[v]) + 1 - (Len(stack[v]) + 1 - n) = n
        BY <3>2
      <3>. QED
        BY <3>1, <3>3 DEF Nth
    <2>2. ASSUME NEW d \in Calls(s), NEW e \in Calls(s) PROVE d = e
      <3>. DEFINE IsCall(f, v, k) == /\ f = <<v, Len(stack[v]) + 1 - k>>
                                  /\ Nth(stack[v], k).send = s /\ Nth(stack[v], k).pc \in Working
      <3>1a. PICK v \in Workers : \E k \in 1..Len(stack[v]) : IsCall(d, v, k)
        BY <2>1
      <3>1. PICK k \in 1..Len(stack[v]) : IsCall(d, v, k)
        BY <3>1a
      <3>2a. PICK u \in Workers : \E m \in 1..Len(stack[u]) : IsCall(e, u, m)
        BY <2>1
      <3>2. PICK m \in 1..Len(stack[u]) : IsCall(e, u, m)
        BY <3>2a
      <3>3. ~Apart(Nth(stack[v], k), Nth(stack[u], m))
        BY <3>1, <3>2 DEF Apart, Owns
      <3>4. v = u /\ k = m
        BY <1>1, <3>3 DEF MsgInv, CallsInv, Pairs
      <3>. QED
        BY <3>1, <3>2, <3>4
    <2>3. PICK e \in Calls(s) : TRUE
      BY <1>1
    <2>4. Calls(s) = {e}
      BY <2>2
    <2>5. Cardinality(Calls(s)) = 1
      BY <2>4, FS_Singleton
    <2>6. send[s] = "running"
      <3>0. PICK v \in Workers : \E k \in 1..Len(stack[v]) :
                Nth(stack[v], k).send = s /\ Nth(stack[v], k).pc \in Working
        BY <2>1, <2>3
      <3>1. PICK k \in 1..Len(stack[v]) : Nth(stack[v], k).send = s /\ Nth(stack[v], k).pc \in Working
        BY <3>0
      <3>2. CallOK(Nth(stack[v], k), exc[v] /\ k = Len(stack[v]), send, recv, expired, log)
        BY <1>1 DEF MsgInv, CallsInv, Frames
      <3>. QED
        BY <3>1, <3>2 DEF CallOK, ClaimOK, Owns
    <2>. QED
      BY <2>5, <2>6
  <1>2. MsgInv => OneOwner
    BY <1>1 DEF OneOwner
  <1>. QED
    BY <1>2, Invariant, PTL
=============================================================================
