-------------------------- MODULE DefinitionsProofs --------------------------
(***************************************************************************)
(* Proofs about Definitions, for any workers, any finite models and any    *)
(* versions of the processes they share: a model that has a row is         *)
(* restored as it was parsed, and losing the race for a row is no failure. *)
(* About Migration, for any versions of a model: an instance moved between *)
(* them keeps its past.  About DataStores and MessageDefinitions, for any  *)
(* models and locations: a task writes to the store nearest to its model,  *)
(* and the users of a message are those who find its definition.           *)
(***************************************************************************)
EXTENDS Definitions, Migration, DataStores, MessageDefinitions, SequenceTheorems, FiniteSetTheorems, WellFoundedInduction, TLAPS

(* A model's row is its own process's. *)
RowsInv == \A i \in DOMAIN bpd : bpd[i].full # NoHash => bpd[i].single = bpd[i].full.top

(* A row has the tasks of its process, and a model's row is related to     *)
(* rows of exactly the processes it calls.                                 *)
TasksInv == \A i \in DOMAIN bpd : get_definition_dict(i) = TaskSpecs[bpd[i].single]
Children(i) == {r[2] : r \in {s \in rel : s[1] = i}}
CallsInv ==
    \A i \in DOMAIN bpd :
        bpd[i].full # NoHash => {bpd[c].single : c \in Children(i)} = bpd[i].full.calls

(* A row that can stand for process d of model m, among those of a         *)
(* snapshot.                                                               *)
StandsFor(rows, i, m, d, sees) ==
    i \in Visible(sees) /\ rows[i].single = d /\ (d = m.top => rows[i].full = m)

(* What a worker loaded before it saves stands for its processes.  Its     *)
(* attempts failed in a deadlock, but for one at most, after which the     *)
(* model's row is in the snapshot.                                         *)
CallInv(rows, j) ==
    /\ DOMAIN j.mappings = ProcessesOf(j.model)
    /\ \A d \in DOMAIN j.mappings :
          j.mappings[d] # 0 => StandsFor(rows, j.mappings[d], j.model, d, j.sees)
    /\ j.attempt \in {1 + j.deadlocks, 2 + j.deadlocks}
    /\ j.attempt = 2 + j.deadlocks =>
          \E i \in Visible(j.sees) : rows[i] = HashesOf(j.model, j.model.top)
    /\ j.pc = "save" => j.attempt <= SAVE_TO_DATABASE_MAX_ATTEMPTS
    /\ j.pc = "raised" => j.attempt = SAVE_TO_DATABASE_MAX_ATTEMPTS + 1
SaverInv == \A w \in Savers : saver[w] # Resting => CallInv(bpd, saver[w])

Invariant == DefinitionsTypeOK /\ RowsInv /\ TasksInv /\ CallsInv /\ SaverInv

-----------------------------------------------------------------------------
(* Numbers and sequences. *)

(* A set of naturals has a least element. *)
LEMMA Least == ASSUME NEW S \in SUBSET Nat, S # {} PROVE \E x \in S : \A y \in S : x <= y
<1>1. PICK x \in S : \A y \in S : <<y, x>> \notin OpToRel(<, Nat)
    BY NatLessThanWellFounded, WFMin
<1>2. ASSUME NEW y \in S PROVE x <= y
    <2>1. x \in Nat /\ y \in Nat
        OBVIOUS
    <2>2. ~(y < x)
        BY <1>1, <2>1 DEF OpToRel
    <2> QED BY <2>1, <2>2
<1> QED BY <1>2

(* .first() of rows is one of them. *)
LEMMA FirstOf ==
    ASSUME NEW S \in SUBSET Nat, S # {}
    PROVE  First(S) \in S
BY Least DEF First

(* A finite set as a sequence: every element has one place. *)
LEMMA Listed ==
    ASSUME NEW S, IsFiniteSet(S)
    PROVE  LET s == SetToSeq(S)
           IN  /\ Len(s) \in Nat /\ s \in [1 .. Len(s) -> S]
               /\ \A x \in S : \E k \in 1 .. Len(s) : s[k] = x
               /\ \A k, l \in 1 .. Len(s) : s[k] = s[l] => k = l
<1> DEFINE n == Cardinality(S)
           s == SetToSeq(S)
<1>1. n \in Nat /\ ExistsBijection(1 .. n, S)
    BY FS_CardinalityType
<1>2. \E f \in [1 .. n -> S] : IsInjective(f)
    BY <1>1 DEF ExistsBijection, Bijection, Injection
<1>3. s \in [1 .. n -> S] /\ IsInjective(s)
    BY <1>2 DEF SetToSeq
<1>4. Len(s) = n
    BY <1>1, <1>3
<1>5. s \in Surjection(1 .. n, S)
    <2>1. Cardinality(1 .. n) = n
        BY <1>1, FS_Interval
    <2>2. s \in Injection(1 .. n, S)
        BY <1>3 DEF Injection
    <2> QED BY <1>1, <2>1, <2>2, FS_Injection
<1>6. \A k, l \in 1 .. n : s[k] = s[l] => k = l
    BY <1>3 DEF IsInjective
<1> QED BY <1>1, <1>3, <1>4, <1>5, <1>6 DEF Surjection

(* Rows that are added leave the ones there are where they were. *)
LEMMA Added ==
    ASSUME NEW S, NEW rows \in Seq(S), NEW n \in Nat, NEW more \in [1 .. n -> S]
    PROVE  /\ rows \o more \in Seq(S) /\ Len(rows \o more) = Len(rows) + n
           /\ \A i \in 1 .. Len(rows) : (rows \o more)[i] = rows[i]
           /\ \A k \in 1 .. n : (rows \o more)[Len(rows) + k] = more[k]
<1>1. more \in Seq(S) /\ Len(more) = n /\ Len(rows) \in Nat
    BY LenProperties, SeqDef
<1>2. /\ rows \o more \in Seq(S) /\ Len(rows \o more) = Len(rows) + n
      /\ \A i \in 1 .. Len(rows) + n : (rows \o more)[i] = IF i <= Len(rows) THEN rows[i] ELSE more[i - Len(rows)]
    BY <1>1, ConcatProperties
<1>3. ASSUME NEW k \in 1 .. n PROVE (rows \o more)[Len(rows) + k] = more[k]
    <2>1. Len(rows) + k \in 1 .. Len(rows) + n /\ ~(Len(rows) + k <= Len(rows)) /\ (Len(rows) + k) - Len(rows) = k
        BY <1>1
    <2> QED BY <1>2, <2>1
<1>4. ASSUME NEW i \in 1 .. Len(rows) PROVE (rows \o more)[i] = rows[i]
    <2>1. i \in 1 .. Len(rows) + n /\ i <= Len(rows)
        BY <1>1
    <2> QED BY <1>2, <2>1
<1> QED BY <1>2, <1>3, <1>4

(* What the type invariant says of the tables. *)
LEMMA Tables ==
    ASSUME DefinitionsTypeOK
    PROVE  /\ Len(bpd) \in Nat /\ DOMAIN bpd = 1 .. Len(bpd)
           /\ bpd \in Seq([full : Parsed \cup {NoHash}, single : Processes])
           /\ \A i \in DOMAIN bpd : bpd[i] = [full |-> bpd[i].full, single |-> bpd[i].single]
           /\ \A i \in DOMAIN bpd : bpd[i].full \in Parsed \cup {NoHash} /\ bpd[i].single \in Processes
<1>1. bpd \in Seq([full : Parsed \cup {NoHash}, single : Processes])
    BY DEF DefinitionsTypeOK
<1>2. Len(bpd) \in Nat /\ DOMAIN bpd = 1 .. Len(bpd)
    BY <1>1, LenProperties
<1>3. \A i \in DOMAIN bpd : bpd[i] \in [full : Parsed \cup {NoHash}, single : Processes]
    BY <1>1, <1>2, ElementOfSeq
<1> QED BY <1>1, <1>2, <1>3

(* What it says of a worker's call. *)
LEMMA Calls ==
    ASSUME Invariant, NEW w \in Savers, saver[w].pc # "rest"
    PROVE  /\ saver[w] \in SaverCalls /\ CallInv(bpd, saver[w])
           /\ saver[w].model \in Parsed /\ saver[w].sees \in Nat /\ saver[w].sees <= Len(bpd)
           /\ saver[w].attempt \in Nat /\ saver[w].deadlocks \in Nat
<1>1. saver[w] \in {Resting} \cup SaverCalls /\ saver[w] # Resting
    BY DEF Invariant, DefinitionsTypeOK, Resting
<1>2. saver[w].sees \in 0 .. Len(bpd) /\ saver[w].model \in Parsed
      /\ saver[w].attempt \in 1 .. 4 /\ saver[w].deadlocks \in 0 .. 3
    BY <1>1 DEF SaverCalls, SAVE_TO_DATABASE_MAX_ATTEMPTS
<1>3. CallInv(bpd, saver[w])
    BY <1>1 DEF Invariant, SaverInv
<1>4. Len(bpd) \in Nat
    BY Tables DEF Invariant
<1> QED BY <1>1, <1>2, <1>3, <1>4

(* The processes of a model, and its row's hashes. *)
LEMMA Models ==
    ASSUME NEW m \in Parsed
    PROVE  /\ m # NoHash /\ m.top \notin m.calls /\ ProcessesOf(m) \ {m.top} = m.calls
           /\ ProcessesOf(m) \subseteq Processes /\ m.top \in ProcessesOf(m)
           /\ IsFiniteSet(ProcessesOf(m))
           /\ \A d : HashesOf(m, d).single = d
           /\ HashesOf(m, m.top).full = m
           /\ \A d : d # m.top => HashesOf(m, d).full = NoHash
<1>1. IsFiniteSet(m.calls) /\ m.top \notin m.calls /\ m # NoHash
    BY ModelsAreParsed
<1>2. IsFiniteSet(m.calls \cup {m.top})
    BY <1>1, FS_AddElement
<1>3. m.calls \cup {m.top} = ProcessesOf(m)
    BY DEF ProcessesOf
<1> QED BY <1>1, <1>2, <1>3 DEF ProcessesOf, Processes, HashesOf

-----------------------------------------------------------------------------
(* The rows an attempt to save ends up with. *)

(* The first row with the given hashes. *)
LEMMA LookedUp ==
    ASSUME NEW h, NEW sees \in Nat
    PROVE  LET r == lookup_after_insert_or_ignore(h, sees)
           IN  /\ r # 0 => r \in Visible(sees) /\ bpd[r] = h
               /\ r = 0 => ~ \E i \in Visible(sees) : bpd[i] = h
<1> DEFINE found == {i \in Visible(sees) : bpd[i] = h}
           r == lookup_after_insert_or_ignore(h, sees)
<1>1. found \in SUBSET Nat /\ 0 \notin found
    BY DEF Visible
<1>2. CASE found = {}
    <2>1. r = 0
        BY <1>2 DEF lookup_after_insert_or_ignore
    <2> QED BY <1>2, <2>1
<1>3. CASE found # {}
    <2>1. First(found) \in found
        BY <1>1, <1>3, FirstOf
    <2>2. r = First(found)
        BY <1>3 DEF lookup_after_insert_or_ignore
    <2> QED BY <1>1, <2>1, <2>2
<1> QED BY <1>2, <1>3

(* The processes an attempt inserts rows of are finitely many. *)
LEMMA InsertedOf ==
    ASSUME Invariant, NEW w \in Savers, saver[w].pc = "save"
    PROVE  /\ IsFiniteSet(Inserted(saver[w])) /\ Inserted(saver[w]) \subseteq ProcessesOf(saver[w].model)
           /\ DOMAIN saver[w].mappings = ProcessesOf(saver[w].model)
<1>1. DOMAIN saver[w].mappings = ProcessesOf(saver[w].model) /\ saver[w].model \in Parsed
    BY Calls DEF CallInv
<1>2. Inserted(saver[w]) \in SUBSET ProcessesOf(saver[w].model)
    BY <1>1 DEF Inserted
<1> QED BY <1>1, <1>2, Models, FS_Subset

(* The rows an attempt inserts follow the ones there are.                  *)
LEMMA NewIds ==
    ASSUME Invariant, NEW w \in Savers, saver[w].pc = "save", NEW sees \in Nat
    PROVE  LET j == saver[w]
               ids == RowIds(j, sees)
               new == SetToSeq(Inserted(j))
           IN  /\ DOMAIN ids = ProcessesOf(j.model)
               /\ Len(new) \in Nat /\ new \in [1 .. Len(new) -> Inserted(j)] /\ DOMAIN new = 1 .. Len(new)
               /\ \A k \in 1 .. Len(new) : ids[new[k]] = Len(bpd) + k
               /\ \A d \in Inserted(j) : \E k \in 1 .. Len(new) : new[k] = d
<1> DEFINE j == saver[w]
           ids == RowIds(j, sees)
           new == SetToSeq(Inserted(j))
<1>1. DOMAIN j.mappings = ProcessesOf(j.model) /\ IsFiniteSet(Inserted(j)) /\ Inserted(j) \subseteq ProcessesOf(j.model)
    BY InsertedOf
<1>2. /\ Len(new) \in Nat /\ new \in [1 .. Len(new) -> Inserted(j)] /\ DOMAIN new = 1 .. Len(new)
      /\ \A d \in Inserted(j) : \E k \in 1 .. Len(new) : new[k] = d
      /\ \A k, l \in 1 .. Len(new) : new[k] = new[l] => k = l
    BY <1>1, Listed
<1>3. DOMAIN ids = ProcessesOf(j.model)
    BY <1>1 DEF RowIds
<1>4. ASSUME NEW k \in 1 .. Len(new)
      PROVE  ids[new[k]] = Len(bpd) + k
    <2>1. new[k] \in Inserted(j) /\ new[k] \in DOMAIN j.mappings
        BY <1>1, <1>2
    <2>2. (CHOOSE l \in 1 .. Len(new) : new[l] = new[k]) = k
        BY <1>2
    <2>3. ids[new[k]] = Len(bpd) + CHOOSE l \in 1 .. Len(new) : new[l] = new[k]
        BY <2>1 DEF RowIds
    <2> QED BY <2>1, <2>2, <2>3
<1> QED BY <1>2, <1>3, <1>4

(* The row of a process no row is inserted of: one that stands for it, or  *)
(* none, because the model's row is there and not in the snapshot.         *)
LEMMA OldIds ==
    ASSUME Invariant, NEW w \in Savers, saver[w].pc = "save",
           NEW sees \in Nat, saver[w].sees <= sees,
           NEW d \in ProcessesOf(saver[w].model) \ Inserted(saver[w])
    PROVE  /\ RowIds(saver[w], sees)[d] # 0 => StandsFor(bpd, RowIds(saver[w], sees)[d], saver[w].model, d, sees)
           /\ RowIds(saver[w], sees)[d] = 0 =>
                /\ d = saver[w].model.top
                /\ \E i \in DOMAIN bpd : bpd[i] = HashesOf(saver[w].model, d)
                /\ ~ \E i \in Visible(sees) : bpd[i] = HashesOf(saver[w].model, d)
<1> DEFINE j == saver[w]
           m == j.model
           id == RowIds(j, sees)[d]
<1>1. m \in Parsed /\ CallInv(bpd, j) /\ j.sees \in Nat
    BY Calls
<1>2. DOMAIN j.mappings = ProcessesOf(m)
    BY InsertedOf
<1>3. CASE j.mappings[d] # 0
    <2> DEFINE i == j.mappings[d]
    <2>1. id = lookup_after_insert_or_ignore(bpd[i], sees)
        BY <1>2, <1>3 DEF RowIds
    <2>2. i \in Visible(j.sees) /\ bpd[i].single = d /\ (d = m.top => bpd[i].full = m)
        BY <1>1, <1>2, <1>3 DEF CallInv, StandsFor
    <2>3. i \in Visible(sees)
        BY <1>1, <2>2 DEF Visible
    <2>4. id # 0
        BY <2>1, <2>3, LookedUp
    <2>5. id \in Visible(sees) /\ bpd[id] = bpd[i]
        BY <2>1, <2>4, LookedUp
    <2> QED BY <2>2, <2>4, <2>5 DEF StandsFor
<1>4. CASE j.mappings[d] = 0
    <2>1. id = lookup_after_insert_or_ignore(HashesOf(m, d), sees)
        BY <1>2, <1>4 DEF RowIds
    <2>2. Duplicate(HashesOf(m, d))
        BY <1>2, <1>4 DEF Inserted
    <2>3. d = m.top /\ \E i \in DOMAIN bpd : bpd[i] = HashesOf(m, d)
        BY <1>1, <2>2, Models DEF Duplicate
    <2>4. id # 0 => id \in Visible(sees) /\ bpd[id] = HashesOf(m, d)
        BY <2>1, LookedUp
    <2>5. id = 0 => ~ \E i \in Visible(sees) : bpd[i] = HashesOf(m, d)
        BY <2>1, LookedUp
    <2>6. HashesOf(m, d).single = d /\ HashesOf(m, d).full = m
        BY <1>1, <2>3, Models
    <2> QED BY <2>3, <2>4, <2>5, <2>6 DEF StandsFor
<1> QED BY <1>3, <1>4

-----------------------------------------------------------------------------
(* Calls of other workers: rows are only added. *)

LEMMA CallKept ==
    ASSUME NEW rows, NEW more, NEW j, CallInv(rows, j), NEW n \in Nat, j.sees \in Nat, j.sees <= n,
           \A i \in 1 .. n : more[i] = rows[i]
    PROVE  CallInv(more, j)
<1>1. \A i \in Visible(j.sees) : more[i] = rows[i]
    BY DEF Visible
<1>2. \A d \in DOMAIN j.mappings :
          j.mappings[d] # 0 => StandsFor(more, j.mappings[d], j.model, d, j.sees)
    BY <1>1 DEF CallInv, StandsFor
<1>3. j.attempt = 2 + j.deadlocks => \E i \in Visible(j.sees) : more[i] = HashesOf(j.model, j.model.top)
    BY <1>1 DEF CallInv
<1> QED BY <1>2, <1>3 DEF CallInv

(* The tables and the other workers when one takes a step that writes      *)
(* nothing.                                                                *)
LEMMA TablesKept ==
    ASSUME Invariant, NEW w \in Savers, UNCHANGED <<bpd, tdef, rel>>,
           NEW j, saver' = [saver EXCEPT ![w] = j], j \in {Resting} \cup SaverCalls,
           j # Resting => CallInv(bpd, j)
    PROVE  Invariant'
<1>1. saver \in [Savers -> {Resting} \cup SaverCalls]
    BY DEF Invariant, DefinitionsTypeOK
<1>2. saver' \in [Savers -> {Resting} \cup SaverCalls]
    BY <1>1
<1>3. SaverCalls' = SaverCalls
    BY DEF SaverCalls
<1>4. DefinitionsTypeOK'
    BY <1>2, <1>3 DEF Invariant, DefinitionsTypeOK
<1>5. RowsInv' /\ TasksInv' /\ CallsInv'
    BY DEF Invariant, RowsInv, TasksInv, CallsInv, Children, get_definition_dict
<1>6. SaverInv'
    <2> SUFFICES ASSUME NEW v \in Savers, saver'[v] # Resting PROVE CallInv(bpd', saver'[v])
        BY DEF SaverInv
    <2>1. saver'[v] = IF v = w THEN j ELSE saver[v]
        BY <1>1
    <2> QED BY <2>1 DEF Invariant, SaverInv
<1> QED BY <1>4, <1>5, <1>6 DEF Invariant

-----------------------------------------------------------------------------
(* One lemma per action. *)

LEMMA InitInv == DefinitionsInit => Invariant
<1> SUFFICES ASSUME DefinitionsInit PROVE Invariant
    OBVIOUS
<1>1. bpd = << >> /\ tdef = {} /\ rel = {} /\ saver = [w \in Savers |-> Resting]
    BY DEF DefinitionsInit
<1>2. bpd \in Seq([full : Parsed \cup {NoHash}, single : Processes]) /\ DOMAIN bpd = {}
    BY <1>1, EmptySeq
<1>3. DefinitionsTypeOK
    BY <1>1, <1>2 DEF DefinitionsTypeOK
<1>4. RowsInv /\ TasksInv /\ CallsInv /\ SaverInv
    BY <1>1, <1>2 DEF RowsInv, TasksInv, CallsInv, SaverInv
<1> QED BY <1>3, <1>4 DEF Invariant

(* What is loaded stands for what was asked for. *)
LEMMA Stored ==
    ASSUME Invariant, NEW m \in Parsed, NEW d \in ProcessesOf(m)
    PROVE  LET r == store_bpmn_process_definition(m, d, Len(bpd))
           IN  r \in 0 .. Len(bpd) /\ (r # 0 => StandsFor(bpd, r, m, d, Len(bpd)))
<1> DEFINE found == {i \in Visible(Len(bpd)) : IF d = m.top THEN bpd[i].full = m ELSE bpd[i].single = d}
           r == store_bpmn_process_definition(m, d, Len(bpd))
<1>1. DefinitionsTypeOK /\ RowsInv /\ Len(bpd) \in Nat /\ DOMAIN bpd = Visible(Len(bpd))
    BY Tables DEF Invariant, Visible
<1>2. CASE found = {}
    <2>1. r = 0
        BY <1>2 DEF store_bpmn_process_definition
    <2> QED BY <1>1, <2>1
<1>3. CASE found # {}
    <2>1. found \in SUBSET Nat
        BY DEF Visible
    <2>2. r = First(found)
        BY <1>3 DEF store_bpmn_process_definition
    <2>3. r \in found
        BY <1>3, <2>1, <2>2, FirstOf
    <2>4. r \in Visible(Len(bpd)) /\ r \in 0 .. Len(bpd)
        BY <2>3 DEF Visible
    <2>5. CASE d = m.top
        <3>1. bpd[r].full = m
            BY <2>3, <2>5
        <3>2. bpd[r].single = d
            BY <1>1, <2>4, <2>5, <3>1, Models DEF RowsInv
        <3> QED BY <2>4, <3>1, <3>2 DEF StandsFor
    <2>6. CASE d # m.top
        BY <2>3, <2>4, <2>6 DEF StandsFor
    <2> QED BY <2>5, <2>6
<1> QED BY <1>2, <1>3

LEMMA PersistInv ==
    ASSUME Invariant, NEW w \in Savers, persist_bpmn_process_definition(w)
    PROVE  Invariant'
<1>1. PICK m \in Parsed :
          saver' = [saver EXCEPT ![w] =
                      [pc |-> "save", model |-> m, attempt |-> 1, deadlocks |-> 0,
                       mappings |-> add_bpmn_process_definitions(m, Len(bpd)),
                       sees |-> Len(bpd)]]
    BY DEF persist_bpmn_process_definition
<1> DEFINE mappings == add_bpmn_process_definitions(m, Len(bpd))
           j == [pc |-> "save", model |-> m, attempt |-> 1, deadlocks |-> 0,
                 mappings |-> mappings, sees |-> Len(bpd)]
<1>2. /\ mappings \in [ProcessesOf(m) -> 0 .. Len(bpd)]
      /\ \A d \in ProcessesOf(m) : mappings[d] # 0 => StandsFor(bpd, mappings[d], m, d, Len(bpd))
    BY Stored DEF add_bpmn_process_definitions
<1>3. Len(bpd) \in 0 .. Len(bpd)
    BY Tables DEF Invariant
<1> HIDE DEF mappings
<1>4. j \in SaverCalls
    BY <1>2, <1>3 DEF SaverCalls, SAVE_TO_DATABASE_MAX_ATTEMPTS
<1>5. CallInv(bpd, j)
    BY <1>2 DEF CallInv, SAVE_TO_DATABASE_MAX_ATTEMPTS
<1>6. UNCHANGED <<bpd, tdef, rel>>
    BY DEF persist_bpmn_process_definition
<1>7. saver' = [saver EXCEPT ![w] = j]
    BY <1>1 DEF mappings
<1> HIDE DEF j
<1> QED BY <1>4, <1>5, <1>6, <1>7, TablesKept

(* Another attempt, in a transaction that sees every row there is. *)
LEMMA Retried ==
    ASSUME Invariant, NEW w \in Savers, saver[w].pc = "save", NEW deadlocked \in {0, 1},
           \/ deadlocked = 1
           \/ /\ saver[w].attempt = 1 + saver[w].deadlocks
              /\ \E i \in DOMAIN bpd : bpd[i] = HashesOf(saver[w].model, saver[w].model.top)
    PROVE  Retry(saver[w], deadlocked) \in SaverCalls /\ CallInv(bpd, Retry(saver[w], deadlocked))
<1> DEFINE j == saver[w]
           r == Retry(j, deadlocked)
<1>1. j \in SaverCalls /\ CallInv(bpd, j) /\ j.sees \in Nat /\ j.sees <= Len(bpd)
      /\ j.attempt \in Nat /\ j.deadlocks \in Nat
    BY Calls
<1>2. Len(bpd) \in Nat /\ DOMAIN bpd = 1 .. Len(bpd)
    BY Tables DEF Invariant
<1>3. /\ r = [j EXCEPT !.pc = IF j.attempt < 3 THEN "save" ELSE "raised",
                        !.attempt = j.attempt + 1, !.deadlocks = j.deadlocks + deadlocked, !.sees = Len(bpd)]
      /\ j.attempt <= 3 /\ j.attempt \in {1 + j.deadlocks, 2 + j.deadlocks} /\ j.attempt >= 1
    BY <1>1 DEF Retry, CallInv, SAVE_TO_DATABASE_MAX_ATTEMPTS
<1>4. /\ r.pc = (IF j.attempt < 3 THEN "save" ELSE "raised") /\ r.attempt = j.attempt + 1
      /\ r.deadlocks = j.deadlocks + deadlocked /\ r.sees = Len(bpd) /\ r.model = j.model /\ r.mappings = j.mappings
    BY <1>1, <1>3 DEF SaverCalls
<1> DEFINE a == j.attempt
           b == j.deadlocks
<1>9. a \in Nat /\ b \in Nat /\ a <= 3 /\ a \in {1 + b, 2 + b} /\ deadlocked \in {0, 1}
    BY <1>1, <1>3
<1>5. a + 1 \in 1 .. 4 /\ b + deadlocked \in 0 .. 3 /\ Len(bpd) \in 0 .. Len(bpd)
    <2> HIDE DEF a, b, j
    <2> QED BY <1>9, <1>2
<1>6. r \in SaverCalls
    <2>1. (IF j.attempt < 3 THEN "save" ELSE "raised") \in {"save", "raised"}
        OBVIOUS
    <2> DEFINE M == UNION {[ProcessesOf(m) -> 0 .. Len(bpd)] : m \in Parsed}
    <2>2. SaverCalls = [pc : {"save", "raised"}, model : Parsed, attempt : 1 .. 4, deadlocks : 0 .. 3,
                        mappings : M, sees : 0 .. Len(bpd)]
        BY DEF SaverCalls, SAVE_TO_DATABASE_MAX_ATTEMPTS
    <2> HIDE DEF j, r, M
    <2> QED BY <1>1, <1>3, <1>5, <2>1, <2>2
<1>7. CallInv(bpd, r)
    <2>1. \A i \in Visible(j.sees) : i \in Visible(r.sees)
        BY <1>1, <1>2, <1>4 DEF Visible
    <2>2. \A d \in DOMAIN r.mappings :
             r.mappings[d] # 0 => StandsFor(bpd, r.mappings[d], r.model, d, r.sees)
        BY <1>1, <1>4, <2>1 DEF CallInv, StandsFor
    <2>3. r.attempt \in {1 + r.deadlocks, 2 + r.deadlocks}
        <3>1. a + 1 \in {1 + (b + deadlocked), 2 + (b + deadlocked)}
            <4>1. CASE deadlocked = 1
                <5> HIDE DEF a, b
                <5> QED BY <1>9, <4>1
            <4>2. CASE deadlocked = 0 /\ a = 1 + b
                <5> HIDE DEF a, b
                <5> QED BY <1>9, <4>2
            <4> QED BY <4>1, <4>2
        <3> QED BY <1>4, <3>1
    <2>4. r.attempt = 2 + r.deadlocks => \E i \in Visible(r.sees) : bpd[i] = HashesOf(r.model, r.model.top)
        <3>1. CASE deadlocked = 1
            <4>1. r.attempt = 2 + r.deadlocks => j.attempt = 2 + j.deadlocks
                BY <1>1, <1>4, <3>1
            <4> QED BY <1>1, <1>4, <2>1, <4>1 DEF CallInv
        <3>2. CASE \E i \in DOMAIN bpd : bpd[i] = HashesOf(j.model, j.model.top)
            BY <1>2, <1>4, <3>2 DEF Visible
        <3> QED BY <3>1, <3>2
    <2>5. (r.pc = "save" => r.attempt <= 3) /\ (r.pc = "raised" => r.attempt = 4)
        BY <1>1, <1>3, <1>4
    <2> HIDE DEF r
    <2> QED BY <1>1, <1>4, <2>2, <2>3, <2>4, <2>5 DEF CallInv, SAVE_TO_DATABASE_MAX_ATTEMPTS
<1> QED BY <1>6, <1>7

LEMMA LookupFailsInv == ASSUME Invariant, NEW w \in Savers, LookupFails(w) PROVE Invariant'
<1> DEFINE j == saver[w]
<1>1. PICK d \in DOMAIN j.mappings : RowIds(j, j.sees)[d] = 0
    BY DEF LookupFails
<1>2. j.pc = "save" /\ UNCHANGED <<bpd, tdef, rel>> /\ saver' = [saver EXCEPT ![w] = Retry(j, 0)]
    BY DEF LookupFails
<1>3. /\ j.sees \in Nat /\ j.sees <= j.sees /\ CallInv(bpd, j) /\ d \in ProcessesOf(j.model)
      /\ Len(bpd) \in Nat
    BY <1>2, Calls, Tables DEF CallInv, Invariant
<1>4. d \notin Inserted(j)
    <2> DEFINE new == SetToSeq(Inserted(j))
    <2>1. /\ \A k \in 1 .. Len(new) : RowIds(j, j.sees)[new[k]] = Len(bpd) + k
          /\ \A e \in Inserted(j) : \E k \in 1 .. Len(new) : new[k] = e
          /\ Len(new) \in Nat
        BY <1>2, <1>3, NewIds
    <2> HIDE DEF new
    <2>2. \A k \in 1 .. Len(new) : Len(bpd) + k # 0
        BY <1>3, <2>1
    <2> QED BY <1>1, <2>1, <2>2
<1>5. /\ d = j.model.top /\ \E i \in DOMAIN bpd : bpd[i] = HashesOf(j.model, d)
      /\ ~ \E i \in Visible(j.sees) : bpd[i] = HashesOf(j.model, d)
    <2>1. j.pc = "save" /\ d \in ProcessesOf(j.model) \ Inserted(j) /\ j.sees \in Nat /\ j.sees <= j.sees
        BY <1>2, <1>3, <1>4
    <2> DEFINE sees == j.sees
    <2>2. sees \in Nat /\ j.sees <= sees
        BY <2>1
    <2>3. RowIds(j, sees)[d] = 0
        BY <1>1
    <2> HIDE DEF sees
    <2>4. d = j.model.top
        BY <2>1, <2>2, <2>3, OldIds
    <2>5. \E i \in DOMAIN bpd : bpd[i] = HashesOf(j.model, d)
        BY <2>1, <2>2, <2>3, OldIds
    <2>6. ~ \E i \in Visible(sees) : bpd[i] = HashesOf(j.model, d)
        BY <2>1, <2>2, <2>3, OldIds
    <2> QED BY <2>4, <2>5, <2>6 DEF sees
<1>6. j.attempt = 1 + j.deadlocks
    BY <1>3, <1>5 DEF CallInv
<1>7. Retry(j, 0) \in SaverCalls /\ CallInv(bpd, Retry(j, 0))
    BY <1>2, <1>5, <1>6, Retried
<1> QED BY <1>2, <1>7, TablesKept

LEMMA DeadlockInv == ASSUME Invariant, NEW w \in Savers, Deadlock(w) PROVE Invariant'
<1>1. /\ saver[w].pc = "save" /\ UNCHANGED <<bpd, tdef, rel>>
      /\ saver' = [saver EXCEPT ![w] = Retry(saver[w], 1)]
    BY DEF Deadlock
<1>2. Retry(saver[w], 1) \in SaverCalls /\ CallInv(bpd, Retry(saver[w], 1))
    BY <1>1, Retried
<1> QED BY <1>1, <1>2, TablesKept

LEMMA FailedInv == ASSUME Invariant, NEW w \in Savers, Failed(w) PROVE Invariant'
BY TablesKept DEF Failed

-----------------------------------------------------------------------------
(* An attempt that saves. *)

(* The rows of the model's processes after it. *)
LEMMA Saved ==
    ASSUME Invariant, NEW w \in Savers, saver[w].pc = "save",
           NEW sees \in {saver[w].sees, Len(bpd)},
           \A d \in DOMAIN RowIds(saver[w], sees) : RowIds(saver[w], sees)[d] # 0,
           bpd' = bpd \o [k \in DOMAIN SetToSeq(Inserted(saver[w])) |->
                             HashesOf(saver[w].model, SetToSeq(Inserted(saver[w]))[k])]
    PROVE  LET j == saver[w]
               m == j.model
               ids == RowIds(j, sees)
               new == SetToSeq(Inserted(j))
           IN  /\ bpd' \in Seq([full : Parsed \cup {NoHash}, single : Processes])
               /\ Len(bpd) \in Nat /\ Len(bpd') \in Nat /\ Len(bpd) <= Len(bpd')
               /\ DOMAIN bpd = 1 .. Len(bpd) /\ DOMAIN bpd' = 1 .. Len(bpd')
               /\ \A i \in DOMAIN bpd : bpd'[i] = bpd[i]
               /\ \A i \in DOMAIN bpd' \ DOMAIN bpd :
                     \E d \in Inserted(j) : bpd'[i] = HashesOf(m, d) /\ ids[d] = i
               /\ DOMAIN ids = ProcessesOf(m)
               /\ \A d \in ProcessesOf(m) :
                     /\ ids[d] \in DOMAIN bpd' /\ bpd'[ids[d]].single = d
                     /\ d = m.top => bpd'[ids[d]].full = m
<1> DEFINE j == saver[w]
           m == j.model
           ids == RowIds(j, sees)
           new == SetToSeq(Inserted(j))
           N == Len(bpd)
           K == Len(new)
           Row == [full : Parsed \cup {NoHash}, single : Processes]
           more == [k \in DOMAIN new |-> HashesOf(m, new[k])]
<1>1. /\ m \in Parsed /\ j.sees \in Nat /\ j.sees <= N /\ N \in Nat /\ bpd \in Seq(Row)
      /\ DOMAIN bpd = 1 .. N
    BY Calls, Tables DEF Invariant
<1>2. sees \in Nat /\ j.sees <= sees /\ sees <= N
    BY <1>1
<1>3. /\ DOMAIN ids = ProcessesOf(m)
      /\ K \in Nat /\ new \in [1 .. K -> Inserted(j)] /\ DOMAIN new = 1 .. K
      /\ \A k \in 1 .. K : ids[new[k]] = N + k
      /\ \A d \in Inserted(j) : \E k \in 1 .. K : new[k] = d
      /\ Inserted(j) \subseteq ProcessesOf(m)
    <2> HIDE DEF j, new, ids, N, K
    <2>1. Inserted(j) \subseteq ProcessesOf(m)
        BY InsertedOf DEF j
    <2> QED BY <1>2, <2>1, NewIds DEF j, new, ids, N, K
<1>4. more \in [1 .. K -> Row] /\ \A k \in 1 .. K : more[k] = HashesOf(m, new[k])
    <2>1. \A k \in 1 .. K : new[k] \in Processes
        BY <1>1, <1>3, Models
    <2>2. \A k \in 1 .. K : HashesOf(m, new[k]) \in Row
        BY <1>1, <2>1 DEF HashesOf
    <2> HIDE DEF new, K, Row, j
    <2> QED BY <1>3, <2>2
<1>5. bpd' = bpd \o more
    OBVIOUS
<1> HIDE DEF more, Row
<1>6. /\ bpd' \in Seq(Row) /\ Len(bpd') = N + K
      /\ \A i \in 1 .. N : bpd'[i] = bpd[i]
      /\ \A k \in 1 .. K : bpd'[N + k] = HashesOf(m, new[k])
    BY <1>1, <1>3, <1>4, <1>5, Added
<1>7. DOMAIN bpd' = 1 .. N + K /\ Len(bpd') \in Nat /\ N <= Len(bpd')
    BY <1>1, <1>3, <1>6, LenProperties
<1>8. ASSUME NEW i \in DOMAIN bpd' \ DOMAIN bpd
      PROVE  \E d \in Inserted(j) : bpd'[i] = HashesOf(m, d) /\ ids[d] = i
    <2>1. i - N \in 1 .. K /\ i = N + (i - N)
        BY <1>1, <1>3, <1>7
    <2>2. new[i - N] \in Inserted(j) /\ bpd'[i] = HashesOf(m, new[i - N]) /\ ids[new[i - N]] = i
        BY <1>3, <1>6, <2>1
    <2> QED BY <2>2
<1>9. ASSUME NEW d \in ProcessesOf(m)
      PROVE  /\ ids[d] \in DOMAIN bpd' /\ bpd'[ids[d]].single = d
             /\ d = m.top => bpd'[ids[d]].full = m
    <2>1. CASE d \in Inserted(j)
        <3>1. PICK k \in 1 .. K : new[k] = d
            BY <1>3, <2>1
        <3>2. ids[d] = N + k /\ bpd'[N + k] = HashesOf(m, d)
            BY <1>3, <1>6, <3>1
        <3>3. N + k \in 1 .. N + K
            BY <1>1, <1>3, <3>1
        <3>4. HashesOf(m, d).single = d /\ (d = m.top => HashesOf(m, d).full = m)
            BY <1>1, Models
        <3> QED BY <1>7, <3>2, <3>3, <3>4
    <2>2. CASE d \notin Inserted(j)
        <3>1. ids[d] # 0
            BY <1>3
        <3>2. StandsFor(bpd, ids[d], m, d, sees)
            BY <1>2, <2>2, <3>1, OldIds
        <3>3. ids[d] \in 1 .. sees /\ bpd[ids[d]].single = d /\ (d = m.top => bpd[ids[d]].full = m)
            BY <3>2 DEF StandsFor, Visible
        <3>4. N \in Nat /\ K \in Nat /\ sees \in Nat /\ sees <= N
            BY <1>1, <1>2, <1>3
        <3> HIDE DEF ids, N, K
        <3>5. 1 .. sees \subseteq 1 .. N /\ 1 .. sees \subseteq 1 .. N + K
            BY <3>4
        <3>6. ids[d] \in 1 .. N /\ ids[d] \in 1 .. N + K
            BY <3>3, <3>5
        <3> QED BY <1>6, <1>7, <3>3, <3>6
    <2> QED BY <2>1, <2>2
<1> QED BY <1>1, <1>3, <1>6, <1>7, <1>8, <1>9 DEF Row

(* Each row's tasks, and each model's calls, after the save. *)
LEMMA SaveInv == ASSUME Invariant, NEW w \in Savers, save_to_database_once(w) PROVE Invariant'
<1> DEFINE j == saver[w]
           m == j.model
<1>1. PICK sees \in {j.sees, Len(bpd)} :
         /\ \A d \in DOMAIN RowIds(j, sees) : RowIds(j, sees)[d] # 0
         /\ bpd' = bpd \o [k \in DOMAIN SetToSeq(Inserted(j)) |-> HashesOf(m, SetToSeq(Inserted(j))[k])]
         /\ tdef' = tdef \cup UNION {{RowIds(j, sees)[d]} \X TaskSpecs[d] :
                                     d \in {e \in DOMAIN RowIds(j, sees) : j.mappings[e] = 0}}
         /\ rel' = rel \cup ({RowIds(j, sees)[m.top]} \X subprocess_ids(j, RowIds(j, sees)))
         /\ saver' = [saver EXCEPT ![w] = Resting]
    BY DEF save_to_database_once
<1> DEFINE ids == RowIds(j, sees)
<1>2. j.pc = "save"
    BY DEF save_to_database_once
<1>3. m \in Parsed /\ DOMAIN j.mappings = ProcessesOf(m)
    BY <1>2, Calls, InsertedOf
<1>4. /\ bpd' \in Seq([full : Parsed \cup {NoHash}, single : Processes])
      /\ Len(bpd) \in Nat /\ Len(bpd') \in Nat /\ Len(bpd) <= Len(bpd')
      /\ DOMAIN bpd = 1 .. Len(bpd) /\ DOMAIN bpd' = 1 .. Len(bpd')
      /\ \A i \in DOMAIN bpd : bpd'[i] = bpd[i]
      /\ \A i \in DOMAIN bpd' \ DOMAIN bpd :
            \E d \in Inserted(j) : bpd'[i] = HashesOf(m, d) /\ ids[d] = i
      /\ DOMAIN ids = ProcessesOf(m)
      /\ \A d \in ProcessesOf(m) :
            /\ ids[d] \in DOMAIN bpd' /\ bpd'[ids[d]].single = d
            /\ d = m.top => bpd'[ids[d]].full = m
    BY <1>1, <1>2, Saved
<1>5. Inserted(j) \subseteq {e \in ProcessesOf(m) : j.mappings[e] = 0}
    BY <1>3 DEF Inserted
<1>6. /\ DefinitionsTypeOK /\ RowsInv /\ TasksInv /\ CallsInv /\ SaverInv
      /\ tdef \subseteq (DOMAIN bpd) \X UNION {TaskSpecs[d] : d \in Processes}
      /\ rel \subseteq (DOMAIN bpd) \X (DOMAIN bpd)
      /\ saver \in [Savers -> {Resting} \cup SaverCalls]
    BY DEF Invariant, DefinitionsTypeOK
<1>7. subprocess_ids(j, ids) = {ids[d] : d \in m.calls}
    BY <1>3, <1>4, Models DEF subprocess_ids
<1>8. m.top \in ProcessesOf(m) /\ m.calls \subseteq ProcessesOf(m) /\ ProcessesOf(m) \subseteq Processes
    BY <1>3, Models
<1>9. DOMAIN bpd \subseteq DOMAIN bpd'
    BY <1>4
<1> DEFINE inserts == {e \in ProcessesOf(m) : j.mappings[e] = 0}
<1>10. /\ tdef' = tdef \cup UNION {{ids[d]} \X TaskSpecs[d] : d \in inserts}
       /\ rel' = rel \cup ({ids[m.top]} \X {ids[d] : d \in m.calls})
       /\ saver' = [saver EXCEPT ![w] = Resting]
    BY <1>1, <1>4, <1>7
<1> HIDE DEF ids, inserts
<1>11. DefinitionsTypeOK'
    <2>1. tdef' \subseteq (DOMAIN bpd') \X UNION {TaskSpecs[d] : d \in Processes}
        <3>1. \A d \in inserts : d \in Processes /\ ids[d] \in DOMAIN bpd'
            BY <1>4, <1>8 DEF inserts
        <3>2. \A d \in inserts : {ids[d]} \X TaskSpecs[d] \subseteq (DOMAIN bpd') \X UNION {TaskSpecs[e] : e \in Processes}
            BY <3>1
        <3> QED BY <1>6, <1>9, <1>10, <3>2
    <2>2. rel' \subseteq (DOMAIN bpd') \X (DOMAIN bpd')
        <3>1. {ids[d] : d \in m.calls} \subseteq DOMAIN bpd' /\ ids[m.top] \in DOMAIN bpd'
            BY <1>4, <1>8
        <3> QED BY <1>6, <1>9, <1>10, <3>1
    <2>3. saver' \in [Savers -> {Resting} \cup SaverCalls']
        <3>1. 0 .. Len(bpd) \subseteq 0 .. Len(bpd')
            BY <1>4
        <3>2. SaverCalls \subseteq SaverCalls'
            BY <3>1 DEF SaverCalls
        <3> QED BY <1>6, <1>10, <3>2
    <2> QED BY <1>4, <2>1, <2>2, <2>3 DEF DefinitionsTypeOK, Processes, ProcessesOf
<1>12. RowsInv'
    <2> SUFFICES ASSUME NEW i \in DOMAIN bpd', bpd'[i].full # NoHash
                 PROVE  bpd'[i].single = bpd'[i].full.top
        BY DEF RowsInv
    <2>1. CASE i \in DOMAIN bpd
        BY <1>4, <1>6, <2>1 DEF RowsInv
    <2>2. CASE i \notin DOMAIN bpd
        <3>1. PICK d \in Inserted(j) : bpd'[i] = HashesOf(m, d)
            BY <1>4, <2>2
        <3> QED BY <1>3, <3>1, Models
    <2> QED BY <2>1, <2>2
<1>13. TasksInv'
    <2> SUFFICES ASSUME NEW i \in DOMAIN bpd'
                 PROVE  get_definition_dict(i)' = TaskSpecs[bpd'[i].single]
        BY DEF TasksInv
    <2> DEFINE before == get_definition_dict(i)
               added == UNION {TaskSpecs[d] : d \in {e \in inserts : ids[e] = i}}
    <2>1. get_definition_dict(i)' = before \cup added
        <3>1. \A t \in tdef' : t \in tdef \/ \E d \in inserts : t \in {ids[d]} \X TaskSpecs[d]
            BY <1>10
        <3>2. ASSUME NEW x \in get_definition_dict(i)' PROVE x \in before \cup added
            <4>1. PICK t \in tdef' : t[1] = i /\ t[2] = x
                BY DEF get_definition_dict
            <4>2. CASE t \in tdef
                BY <4>1, <4>2 DEF get_definition_dict
            <4>3. CASE \E d \in inserts : t \in {ids[d]} \X TaskSpecs[d]
                BY <4>1, <4>3
            <4> QED BY <3>1, <4>2, <4>3
        <3>3. ASSUME NEW x \in before PROVE x \in get_definition_dict(i)'
            BY <1>10 DEF get_definition_dict
        <3>4. ASSUME NEW x \in added PROVE x \in get_definition_dict(i)'
            <4>1. PICK d \in inserts : ids[d] = i /\ x \in TaskSpecs[d]
                OBVIOUS
            <4>2. <<i, x>> \in tdef'
                BY <1>10, <4>1
            <4> QED BY <4>2 DEF get_definition_dict
        <3> HIDE DEF before, added
        <3> QED BY <3>2, <3>3, <3>4
    <2>2. \A d \in inserts : ids[d] = i => bpd'[i].single = d
        BY <1>4 DEF inserts
    <2>3. CASE i \in DOMAIN bpd
        <3>1. before = TaskSpecs[bpd'[i].single]
            BY <1>4, <1>6, <2>3 DEF TasksInv
        <3> QED BY <2>1, <2>2, <3>1
    <2>4. CASE i \notin DOMAIN bpd
        <3>1. before = {}
            BY <1>6, <2>4 DEF get_definition_dict
        <3>2. PICK d \in inserts : ids[d] = i
            BY <1>4, <1>5, <2>4 DEF inserts
        <3> HIDE DEF before
        <3> QED BY <2>1, <2>2, <3>1, <3>2
    <2> QED BY <2>3, <2>4
<1>14. CallsInv'
    <2> SUFFICES ASSUME NEW i \in DOMAIN bpd', bpd'[i].full # NoHash
                 PROVE  {bpd'[c].single : c \in Children(i)'} = bpd'[i].full.calls
        BY DEF CallsInv
    <2> DEFINE calls == {ids[d] : d \in m.calls}
    <2>1. Children(i)' = Children(i) \cup (IF i = ids[m.top] THEN calls ELSE {})
        <3>1. \A r \in rel' : r \in rel \/ (r[1] = ids[m.top] /\ r[2] \in calls)
            BY <1>10
        <3>2. ASSUME NEW c \in Children(i)' PROVE c \in Children(i) \cup (IF i = ids[m.top] THEN calls ELSE {})
            <4>1. PICK r \in rel' : r[1] = i /\ r[2] = c
                BY DEF Children
            <4> HIDE DEF calls
            <4> QED BY <3>1, <4>1 DEF Children
        <3>3. ASSUME NEW c \in Children(i) PROVE c \in Children(i)'
            BY <1>10 DEF Children
        <3>4. ASSUME NEW c \in calls, i = ids[m.top] PROVE c \in Children(i)'
            <4>1. <<i, c>> \in rel'
                BY <1>10, <3>4
            <4> QED BY <4>1 DEF Children
        <3> HIDE DEF calls
        <3> QED BY <3>2, <3>3, <3>4
    <2>2. {bpd'[c].single : c \in calls} = m.calls
        BY <1>4, <1>8
    <2>3. Children(i) \subseteq DOMAIN bpd
        BY <1>6 DEF Children
    <2>4. {bpd'[c].single : c \in Children(i)} = {bpd[c].single : c \in Children(i)}
        BY <1>4, <2>3
    <2>5. i = ids[m.top] => bpd'[i].full = m
        BY <1>4, <1>8
    <2>6. CASE i \in DOMAIN bpd
        <3>1. {bpd'[c].single : c \in Children(i)} = bpd'[i].full.calls
            BY <1>4, <1>6, <2>4, <2>6 DEF CallsInv
        <3> HIDE DEF calls
        <3> QED BY <2>1, <2>2, <2>5, <3>1
    <2>7. CASE i \notin DOMAIN bpd
        <3>1. Children(i) = {}
            BY <1>6, <2>7 DEF Children
        <3>2. PICK d \in Inserted(j) : bpd'[i] = HashesOf(m, d) /\ ids[d] = i
            BY <1>4, <2>7
        <3>3. d = m.top
            BY <1>3, <3>2, Models
        <3> HIDE DEF calls
        <3> QED BY <2>1, <2>2, <2>5, <3>1, <3>2, <3>3
    <2> QED BY <2>6, <2>7
<1>15. SaverInv'
    <2> SUFFICES ASSUME NEW v \in Savers, saver'[v] # Resting PROVE CallInv(bpd', saver'[v])
        BY DEF SaverInv
    <2>1. v # w /\ saver'[v] = saver[v]
        BY <1>6, <1>10
    <2>2. saver[v].pc # "rest"
        BY <1>6, <2>1 DEF SaverCalls
    <2>3. CallInv(bpd, saver[v]) /\ saver[v].sees \in Nat /\ saver[v].sees <= Len(bpd)
        BY <2>2, Calls
    <2>4. \A i \in 1 .. Len(bpd) : bpd'[i] = bpd[i]
        BY <1>4
    <2> QED BY <1>4, <2>1, <2>3, <2>4, CallKept
<1> QED BY <1>11, <1>12, <1>13, <1>14, <1>15 DEF Invariant

-----------------------------------------------------------------------------

LEMMA StepInv == Invariant /\ [DefinitionsNext]_dfVars => Invariant'
<1> SUFFICES ASSUME Invariant, [DefinitionsNext]_dfVars PROVE Invariant'
    OBVIOUS
<1>1. ASSUME NEW w \in Savers, persist_bpmn_process_definition(w) PROVE Invariant'
    BY <1>1, PersistInv
<1>2. ASSUME NEW w \in Savers, save_to_database_once(w) PROVE Invariant'
    BY <1>2, SaveInv
<1>3. ASSUME NEW w \in Savers, LookupFails(w) PROVE Invariant'
    BY <1>3, LookupFailsInv
<1>4. ASSUME NEW w \in Savers, Deadlock(w) PROVE Invariant'
    BY <1>4, DeadlockInv
<1>5. ASSUME NEW w \in Savers, Failed(w) PROVE Invariant'
    BY <1>5, FailedInv
<1>6. CASE UNCHANGED dfVars
    <2>1. UNCHANGED <<bpd, tdef, rel, saver>>
        BY <1>6 DEF dfVars
    <2>2. SaverCalls' = SaverCalls
        BY <2>1 DEF SaverCalls
    <2>3. DefinitionsTypeOK'
        BY <2>1, <2>2 DEF Invariant, DefinitionsTypeOK
    <2>4. RowsInv' /\ TasksInv' /\ CallsInv' /\ SaverInv'
        BY <2>1 DEF Invariant, RowsInv, TasksInv, get_definition_dict, CallsInv, Children, SaverInv
    <2> QED BY <2>3, <2>4 DEF Invariant
<1> QED BY <1>1, <1>2, <1>3, <1>4, <1>5, <1>6 DEF DefinitionsNext

(* Every reachable state of the tables and of the calls under way. *)
THEOREM DefinitionsInvariant == DefinitionsSpec => []Invariant
BY InitInv, StepInv, PTL DEF DefinitionsSpec

(* What the invariant says of a restored model. *)
LEMMA Restored == Invariant => DefinitionsComplete
<1> SUFFICES ASSUME Invariant, NEW i \in DOMAIN bpd, NEW m, m = bpd[i].full, m # NoHash
             PROVE  /\ get_definition_dict(i) = TaskSpecs[m.top]
                    /\ set_subprocess_specs(i) =
                          [n \in {NameOf[d] : d \in m.calls} |->
                             UNION {TaskSpecs[d] : d \in {e \in m.calls : NameOf[e] = n}}]
    BY DEF DefinitionsComplete
<1>1. get_definition_dict(i) = TaskSpecs[m.top]
    BY DEF Invariant, RowsInv, TasksInv
<1> DEFINE children == Children(i)
<1>2. {bpd[c].single : c \in children} = m.calls /\ children \subseteq DOMAIN bpd
    BY DEF Invariant, CallsInv, DefinitionsTypeOK, Children
<1>3. \A c \in children : get_definition_dict(c) = TaskSpecs[bpd[c].single]
    BY <1>2 DEF Invariant, TasksInv
<1>4. set_subprocess_specs(i) =
        [n \in {NameOf[bpd[c].single] : c \in children} |->
           UNION {get_definition_dict(c) : c \in {e \in children : NameOf[bpd[e].single] = n}}]
    BY DEF set_subprocess_specs, Children
<1> HIDE DEF children
<1>5. {NameOf[bpd[c].single] : c \in children} = {NameOf[d] : d \in m.calls}
    BY <1>2
<1>6. ASSUME NEW n \in {NameOf[d] : d \in m.calls}
      PROVE  UNION {get_definition_dict(c) : c \in {e \in children : NameOf[bpd[e].single] = n}}
               = UNION {TaskSpecs[d] : d \in {e \in m.calls : NameOf[e] = n}}
    <2>1. {get_definition_dict(c) : c \in {e \in children : NameOf[bpd[e].single] = n}}
            = {TaskSpecs[d] : d \in {e \in m.calls : NameOf[e] = n}}
        BY <1>2, <1>3
    <2> QED BY <2>1
<1> QED BY <1>1, <1>4, <1>5, <1>6

(* DefinitionsSound: whichever workers insert the rows that models share,  *)
(* in whatever order, and however their attempts fail                      *)
(* (_save_to_database_once, save_to_database), the tables keep their       *)
(* types, a model that has a row is restored with all tasks of all its     *)
(* processes and no others, and a save that meets no deadlock never        *)
(* raises.                                                                 *)
THEOREM DefinitionsAreSound == DefinitionsSpec => []DefinitionsSound
<1>1. Invariant => RaceIsRetried
    <2> SUFFICES ASSUME Invariant, NEW w \in Savers, saver[w].pc = "raised" PROVE saver[w].deadlocks > 0
        BY DEF RaceIsRetried
    <2>1. /\ saver[w].attempt \in {1 + saver[w].deadlocks, 2 + saver[w].deadlocks}
          /\ saver[w].attempt = 4 /\ saver[w].deadlocks \in Nat
        BY Calls DEF CallInv, SAVE_TO_DATABASE_MAX_ATTEMPTS
    <2> QED BY <2>1
<1>2. Invariant => DefinitionsSound
    BY <1>1, Restored DEF Invariant, DefinitionsSound
<1> QED BY <1>2, DefinitionsInvariant, PTL

(* The race for a row is lost once at most: the attempts of a call are     *)
(* those that met a deadlock, the one that lost the race, if any, and the  *)
(* last (_lookup_bpmn_process_definition_after_insert_or_ignore).          *)
THEOREM RaceIsLostOnce ==
    DefinitionsSpec =>
      [](\A w \in Savers :
            saver[w].pc # "rest" => saver[w].attempt \in {1 + saver[w].deadlocks, 2 + saver[w].deadlocks})
<1>1. Invariant =>
        \A w \in Savers :
            saver[w].pc # "rest" => saver[w].attempt \in {1 + saver[w].deadlocks, 2 + saver[w].deadlocks}
    BY Calls DEF CallInv
<1> QED BY <1>1, DefinitionsInvariant, PTL

--------------------------------------------------------------------------------
(* Migration: the instance of any versions of a model.                     *)

TaskStates == {"FUTURE", "READY", "COMPLETED"}
Details    == [from : Versions, to : Versions, revision : [kind : {"git", "hash"}, of : Versions]]
Migrations == [on : {TRUE}, target : Versions, given : BOOLEAN, state : [ModelTasks -> TaskStates]]

MigrationTypes ==
    /\ disk \in Versions /\ defn \in Versions
    /\ gitRevision \in [kind : {"git", "hash"}, of : Versions]
    /\ state \in [ModelTasks -> TaskStates]
    /\ details \in Seq(Details)
    /\ migrating \in {NotMigrating} \cup Migrations
    /\ version \in 0 .. Current /\ first \in 0 .. Current
    /\ ran \in [ModelTasks -> Nat] /\ raced \in BOOLEAN

(* The migrations of the instance follow on from each other, up to where   *)
(* it is, each from a revision of git.                                     *)
DetailsInv ==
    /\ \A i \in 1 .. Len(details) : details[i].revision.kind = "git"
    /\ \A i \in 1 .. Len(details) - 1 : details[i + 1].from = details[i].to
    /\ details # <<>> => details[Len(details)].to = defn

(* What a migration has read still holds when it writes, unless the        *)
(* instance ran.                                                           *)
ReadInv ==
    migrating.on => /\ migrating.target # defn
                    /\ ~raced => migrating.state = state /\ can_migrate(migrating.target)

(* The migrator runs before the first save, which marks the instance with  *)
(* the current version.                                                    *)
VersionInv ==
    /\ version \in {first, Current}
    /\ version = 0 => first = 0 /\ applied = {}

PastInv == PastUnchanged /\ RevisionIsARevision /\ DataMigrated

MigrationInv ==
    /\ MigrationTypes /\ DetailsInv /\ ReadInv /\ VersionInv
    /\ PastInv

(* A set of numbers with a bound has a last one. *)
LEMMA LastOf ==
    ASSUME NEW n \in Nat, NEW S \in SUBSET (0 .. n), S # {}
    PROVE  Max(S) \in S /\ \A i \in S : Max(S) >= i
<1> DEFINE above == {k \in Nat : \A i \in S : i <= k}
<1>1. n \in above
    OBVIOUS
<1>2. PICK k \in above : \A j \in above : k <= j
    BY <1>1, Least
<1>3. k \in S
    <2> SUFFICES ASSUME k \notin S PROVE FALSE
        OBVIOUS
    <2>1. PICK i \in S : TRUE
        OBVIOUS
    <2>2. k - 1 \in above
        BY <2>1, <1>2
    <2> QED BY <2>2, <1>2
<1>4. \E x \in S : \A i \in S : x >= i
    BY <1>2, <1>3
<1> QED BY <1>4 DEF Max

(* Contents are numbers, of every task in every version.                   *)
LEMMA Numbers ==
    /\ 1 \in Versions /\ Len(ContentsOf) \in Nat /\ Current \in Nat
    /\ \A v \in Versions, t \in ModelTasks : ContentsOf[v][t] \in Nat
    /\ \A v \in Versions : Git(v) \in [kind : {"git", "hash"}, of : Versions] /\ Git(v).kind = "git"
    /\ \A v \in Versions : Hash(v) \in [kind : {"git", "hash"}, of : Versions]
<1>1. /\ Len(ContentsOf) \in Nat /\ Len(ContentsOf) >= 1 /\ \A v \in Versions : ContentsOf[v] \in Seq(Nat)
    BY MigrationConstants DEF Versions
<1>2. \A v \in Versions, t \in ModelTasks : ContentsOf[v][t] \in Nat
    BY <1>1, MigrationConstants DEF Versions, ModelTasks
<1> QED BY <1>1, <1>2 DEF Versions, Git, Hash, Current

(* The revision a migration records is git's: the latest migration that    *)
(* names the target started from it, for it cannot have ended there.       *)
LEMMA RevisionOfTarget ==
    ASSUME MigrationTypes, DetailsInv, NEW target \in Versions, target # defn, NEW given \in BOOLEAN
    PROVE  /\ get_appropriate_git_revision(target, given) \in [kind : {"git", "hash"}, of : Versions]
           /\ get_appropriate_git_revision(target, given).kind = "git"
<1> DEFINE named == {i \in 1 .. Len(details) : target \in {details[i].from, details[i].to}}
           latest == Max(named)
<1>0. disk \in Versions
    BY DEF MigrationTypes
<1>1. CASE ~given \/ named = {}
    BY <1>0, <1>1, Numbers DEF get_appropriate_git_revision
<1>2. CASE given /\ named # {}
    <2>1. Len(details) \in Nat /\ \A i \in 1 .. Len(details) : details[i] \in Details
        BY DEF MigrationTypes
    <2>2. latest \in named /\ \A i \in named : latest >= i
        <3>1. named \in SUBSET (0 .. Len(details))
            BY <2>1
        <3> HIDE DEF named
        <3> QED BY <2>1, <3>1, <1>2, LastOf
    <2> HIDE DEF latest
    <2>3. details[latest].from = target
        <3> SUFFICES ASSUME details[latest].from # target PROVE FALSE
            OBVIOUS
        <3>1. details[latest].to = target /\ latest \in 1 .. Len(details)
            BY <2>2
        <3>2. CASE latest = Len(details)
            BY <3>1, <3>2, <2>1 DEF DetailsInv
        <3>3. CASE latest < Len(details)
            <4>1. details[latest + 1].from = target /\ latest + 1 \in named
                BY <3>1, <3>3, <2>1 DEF DetailsInv
            <4> QED BY <4>1, <2>2, <3>1, <2>1
        <3> QED BY <3>1, <3>2, <3>3, <2>1
    <2>4. get_appropriate_git_revision(target, given) = details[latest].revision
        BY <1>2, <2>3 DEF get_appropriate_git_revision, latest
    <2> QED BY <2>1, <2>2, <2>4 DEF DetailsInv, Details
<1> QED BY <1>1, <1>2

(* Every data migration from version 3 on.                                 *)
LEMMA Migrated ==
    ASSUME NEW v \in 3 .. Current, NEW done
    PROVE  ProcessInstanceMigrator_run([version |-> v, applied |-> done]).applied
              = done \cup ((v + 1) .. Current)
<1>1. CASE v = 3
    <2>1. ~(3 < 2) /\ 3 # 2 /\ 3 < 4 /\ 4 < 5 /\ (3 + 1) .. 5 = {4, 5}
        OBVIOUS
    <2> QED BY <1>1, <2>1 DEF ProcessInstanceMigrator_run, run_version, Current
<1>2. CASE v = 4
    <2>1. ~(4 < 2) /\ 4 # 2 /\ 4 # 3 /\ 4 < 5 /\ (4 + 1) .. 5 = {5}
        OBVIOUS
    <2> QED BY <1>2, <2>1 DEF ProcessInstanceMigrator_run, run_version, Current
<1>3. CASE v = 5
    <2>1. ~(5 < 2) /\ 5 # 2 /\ 5 # 3 /\ ~(5 < 5) /\ (5 + 1) .. 5 = {}
        OBVIOUS
    <2> QED BY <1>3, <2>1 DEF ProcessInstanceMigrator_run, run_version, Current
<1> QED BY <1>1, <1>2, <1>3 DEF Current

(* It holds when the instance was created. *)
LEMMA MigrationStarts == MigrationInit => MigrationInv
<1> SUFFICES ASSUME MigrationInit PROVE MigrationInv
    OBVIOUS
<1> USE Numbers DEF MigrationInit
<1>1. MigrationTypes
    <2>1. disk \in Versions /\ defn \in Versions /\ gitRevision \in [kind : {"git", "hash"}, of : Versions]
        OBVIOUS
    <2>2. state \in [ModelTasks -> TaskStates]
        BY DEF TaskStates
    <2>3. details \in Seq(Details) /\ migrating \in {NotMigrating} \cup Migrations
        OBVIOUS
    <2>4. version \in 0 .. Current /\ first \in 0 .. Current
        BY DEF Current
    <2>5. ran \in [ModelTasks -> Nat] /\ raced \in BOOLEAN
        OBVIOUS
    <2> QED BY <2>1, <2>2, <2>3, <2>4, <2>5 DEF MigrationTypes
<1>2. DetailsInv /\ ReadInv /\ VersionInv
    BY DEF DetailsInv, ReadInv, VersionInv, NotMigrating
<1>3. PastInv
    BY DEF PastInv, PastUnchanged, RevisionIsARevision, DataMigrated, Current, Git
<1> QED BY <1>1, <1>2, <1>3 DEF MigrationInv

(* Every step of the instance, the model and a migration keeps it. *)
LEMMA MigrationGoesOn == MigrationInv /\ [MigrationNext]_miVars => MigrationInv'
<1> SUFFICES ASSUME MigrationInv, [MigrationNext]_miVars PROVE MigrationInv'
    OBVIOUS
<1> USE DEF MigrationInv
<1>1. ASSUME NEW v \in 1 .. Current, Load(v) PROVE MigrationInv'
    <2> USE <1>1 DEF Load
    <2>1. MigrationTypes'
        BY DEF MigrationTypes, Current
    <2>2. DetailsInv' /\ ReadInv' /\ VersionInv'
        BY DEF DetailsInv, ReadInv, VersionInv, can_migrate, Changed, Removed, Current
    <2>3. PastUnchanged' /\ RevisionIsARevision'
        BY DEF PastInv, PastUnchanged, RevisionIsARevision
    <2>4. DataMigrated'
        BY DEF DataMigrated, Current
    <2> QED BY <2>1, <2>2, <2>3, <2>4 DEF PastInv
<1>2. ASSUME NEW t \in ModelTasks, CompleteTask(t) PROVE MigrationInv'
    <2> DEFINE rest == {u \in ModelTasks : u > t /\ state[u] = "FUTURE" /\ ContentsOf[defn][u] # 0}
               nxt  == IF rest = {} THEN 0 ELSE Min(rest)
    <2>1. /\ version # 0 /\ state[t] = "READY" /\ version' = Current
          /\ applied' = ProcessInstanceMigrator_run([version |-> version, applied |-> applied]).applied
          /\ ran' = [ran EXCEPT ![t] = ContentsOf[defn][t]]
          /\ state' = [u \in ModelTasks |-> IF u = t THEN "COMPLETED" ELSE IF u = nxt THEN "READY" ELSE state[u]]
          /\ raced' = (raced \/ migrating.on)
          /\ UNCHANGED <<disk, defn, gitRevision, details, migrating, first>>
        BY <1>2 DEF CompleteTask
    <2>2. \A u \in ModelTasks : u # t => state'[u] = state[u] \/ state[u] = "FUTURE"
        <3>1. rest = {} \/ Min(rest) \in rest
            <4> SUFFICES ASSUME rest # {} PROVE Min(rest) \in rest
                OBVIOUS
            <4>1. rest \in SUBSET Nat
                BY DEF ModelTasks
            <4>2. \E x \in rest : \A y \in rest : x <= y
                BY <4>1, Least
            <4> QED BY <4>2 DEF Min
        <3>2. 0 \notin ModelTasks
            BY DEF ModelTasks
        <3>3. nxt \in ModelTasks => state[nxt] = "FUTURE"
            BY <3>1, <3>2
        <3> HIDE DEF nxt
        <3> QED BY <2>1, <3>3
    <2> HIDE DEF nxt
    <2>3. MigrationTypes'
        BY <2>1, Numbers DEF MigrationTypes, TaskStates, Current
    <2>4. DetailsInv' /\ VersionInv'
        BY <2>1 DEF DetailsInv, VersionInv, Current
    <2>5. ReadInv'
        BY <2>1 DEF ReadInv
    <2>6. PastUnchanged'
        BY <2>1, <2>2 DEF PastInv, PastUnchanged, MigrationTypes
    <2>7. DataMigrated'
        <3> SUFFICES ASSUME first >= 3 PROVE (first + 1) .. Current \subseteq applied'
            BY <2>1 DEF DataMigrated
        <3>1. version \in 3 .. Current /\ first \in 3 .. Current
            BY DEF VersionInv, MigrationTypes, Current
        <3>2. applied' = applied \cup ((version + 1) .. Current)
            BY <2>1, <3>1, Migrated
        <3>3. CASE version = first
            BY <3>2, <3>3
        <3>4. CASE version = Current
            BY <3>2, <3>4 DEF PastInv, DataMigrated
        <3> QED BY <3>3, <3>4 DEF VersionInv
    <2> QED BY <2>1, <2>3, <2>4, <2>5, <2>6, <2>7 DEF PastInv, RevisionIsARevision
<1>3. CASE process_instance_suspend \/ process_instance_resume \/ \E v \in Versions : EditModel(v)
    <2>1. /\ UNCHANGED <<defn, gitRevision, state, details, migrating, version, first, applied, ran, raced>>
          /\ disk' \in Versions
        BY <1>3 DEF process_instance_suspend, process_instance_resume, EditModel, MigrationTypes, serial
    <2> QED BY <2>1 DEF MigrationTypes, DetailsInv, ReadInv, VersionInv, can_migrate, Changed, Removed,
                        PastInv, PastUnchanged, RevisionIsARevision, DataMigrated
<1>4. ASSUME NEW target \in Versions, NEW given \in BOOLEAN, check_process_instance_can_be_migrated(target, given)
      PROVE  MigrationInv'
    <2>1. /\ migrating' = [on |-> TRUE, target |-> target, given |-> given, state |-> state]
          /\ target # defn /\ can_migrate(target)
          /\ UNCHANGED <<disk, defn, gitRevision, state, details, version, first, applied, ran, raced>>
        BY <1>4 DEF check_process_instance_can_be_migrated, serial
    <2>2. MigrationTypes'
        BY <2>1 DEF MigrationTypes, Migrations
    <2>3. ReadInv'
        BY <2>1 DEF ReadInv, can_migrate, Changed, Removed
    <2> QED BY <2>1, <2>2, <2>3 DEF DetailsInv, VersionInv, PastInv, PastUnchanged, RevisionIsARevision, DataMigrated
<1>5. CASE migrate_process_instance
    <2> DEFINE target == migrating.target
               new == migrate_workflow(target, migrating.state)
    <2>1. /\ migrating.on /\ migrating' = NotMigrating /\ defn' = target /\ state' = new
          /\ gitRevision' = get_appropriate_git_revision(target, migrating.given)
          /\ details' = Append(details, [from |-> defn, to |-> target, revision |-> gitRevision])
          /\ UNCHANGED <<disk, version, first, applied, ran, raced>>
        BY <1>5 DEF migrate_process_instance, serial
    <2>2. migrating \in Migrations
        BY <2>1 DEF MigrationTypes, NotMigrating
    <2>3. /\ target \in Versions /\ target # defn /\ migrating.given \in BOOLEAN
          /\ migrating.state \in [ModelTasks -> TaskStates]
        BY <2>1, <2>2 DEF Migrations, ReadInv
    <2>4. /\ gitRevision' \in [kind : {"git", "hash"}, of : Versions] /\ gitRevision'.kind = "git"
        BY <2>1, <2>3, RevisionOfTarget
    <2>5. /\ new \in [ModelTasks -> TaskStates]
          /\ \A t \in ModelTasks : migrating.state[t] = "COMPLETED" => new[t] = "COMPLETED"
        BY <2>3 DEF migrate_workflow, TaskStates
    <2> HIDE DEF new
    <2>6. MigrationTypes'
        BY <2>1, <2>3, <2>4, <2>5 DEF MigrationTypes, Details
    <2>7. DetailsInv'
        <3> DEFINE d == [from |-> defn, to |-> target, revision |-> gitRevision]
        <3>1. /\ Len(details) \in Nat /\ Len(details') = Len(details) + 1
              /\ \A i \in 1 .. Len(details) : details'[i] = details[i]
              /\ details'[Len(details) + 1] = d
            BY <2>1 DEF MigrationTypes
        <3>2. d.revision.kind = "git" /\ d.from = defn /\ d.to = target
            BY DEF PastInv, RevisionIsARevision
        <3> HIDE DEF d
        <3>3. \A i \in 1 .. Len(details') : details'[i].revision.kind = "git"
            BY <3>1, <3>2 DEF DetailsInv
        <3>4. ASSUME NEW i \in 1 .. Len(details') - 1 PROVE details'[i + 1].from = details'[i].to
            <4>1. CASE i = Len(details)
                BY <3>1, <3>2, <4>1 DEF DetailsInv
            <4>2. CASE i # Len(details)
                <5>1. i \in 1 .. Len(details) - 1 /\ i + 1 \in 1 .. Len(details)
                    BY <3>1, <4>2
                <5> QED BY <3>1, <5>1 DEF DetailsInv
            <4> QED BY <4>1, <4>2
        <3>5. details'[Len(details')].to = defn'
            BY <3>1, <3>2, <2>1
        <3> QED BY <3>3, <3>4, <3>5 DEF DetailsInv
    <2>8. ReadInv' /\ VersionInv'
        BY <2>1 DEF ReadInv, VersionInv, NotMigrating
    <2>9. PastUnchanged'
        <3> SUFFICES ASSUME ~raced, NEW t \in ModelTasks, ran[t] # 0
                     PROVE  new[t] = "COMPLETED" /\ ContentsOf[target][t] = ran[t]
            BY <2>1 DEF PastUnchanged
        <3>1. state[t] = "COMPLETED" /\ ContentsOf[defn][t] = ran[t]
            BY DEF PastInv, PastUnchanged
        <3>2. migrating.state = state /\ can_migrate(target)
            BY <2>1 DEF ReadInv
        <3>3. t \notin Changed(target) \cup Removed(target)
            BY <3>1, <3>2 DEF can_migrate
        <3> QED BY <2>5, <3>1, <3>2, <3>3 DEF Changed
    <2>10. DataMigrated'
        BY <2>1 DEF PastInv, DataMigrated
    <2> QED BY <2>4, <2>6, <2>7, <2>8, <2>9, <2>10 DEF PastInv, RevisionIsARevision
<1>6. CASE UNCHANGED miVars
    BY <1>6 DEF miVars, MigrationTypes, DetailsInv, ReadInv, VersionInv, can_migrate, Changed, Removed,
                        PastInv, PastUnchanged, RevisionIsARevision, DataMigrated
<1> QED BY <1>1, <1>2, <1>3, <1>4, <1>5, <1>6 DEF MigrationNext

(* The human_task_user rows have numbers up to some number, and are of     *)
(* users; a migration that is under way has room for its event.            *)
RowsBelow(rows) == \E n \in Nat : rows \subseteq (1 .. n) \X (Nat \ {0})

AssignedInv ==
    /\ RowsBelow(assigned) /\ miStatus \in {"waiting", "suspended", "complete"}
    /\ Len(details) <= MaxEvents /\ (migrating.on => Len(details) < MaxEvents)

(* The rows added for finitely many users are such rows. *)
LEMMA RowsAdded ==
    ASSUME NEW rows, RowsBelow(rows), NEW users, users \subseteq Nat \ {0}, IsFiniteSet(users)
    PROVE  RowsBelow(AddOwners(rows, users))
<1> DEFINE new   == users \ {r[2] : r \in rows}
           ids   == {r[1] : r \in rows} \cup {0}
           last  == Max(ids)
           upTo(u) == {x \in new : x <= u}
<1>1. PICK n \in Nat : rows \subseteq (1 .. n) \X (Nat \ {0})
    BY DEF RowsBelow
<1>2. last \in 0 .. n
    <2>1. ids \in SUBSET (0 .. n) /\ ids # {}
        BY <1>1
    <2> QED BY <2>1, LastOf
<1>3. IsFiniteSet(new) /\ Cardinality(new) \in Nat
    BY FS_Subset, FS_CardinalityType
<1>4. ASSUME NEW u \in new PROVE Cardinality(upTo(u)) \in 1 .. Cardinality(new)
    <2>1. IsFiniteSet(upTo(u)) /\ Cardinality(upTo(u)) \in Nat /\ Cardinality(upTo(u)) <= Cardinality(new)
        BY <1>3, FS_Subset, FS_CardinalityType
    <2>2. u \in upTo(u)
        OBVIOUS
    <2>3. Cardinality(upTo(u)) # 0
        BY <2>1, <2>2, FS_EmptySet
    <2> QED BY <1>3, <2>1, <2>3
<1>5. AddOwners(rows, users) = rows \cup {<<last + Cardinality(upTo(u)), u>> : u \in new}
    BY DEF AddOwners
<1> HIDE DEF new, ids, last, upTo
<1>6. AddOwners(rows, users) \subseteq (1 .. (n + Cardinality(new))) \X (Nat \ {0})
    <2>1. \A u \in new : last + Cardinality(upTo(u)) \in 1 .. (n + Cardinality(new))
        BY <1>2, <1>3, <1>4
    <2>2. rows \subseteq (1 .. (n + Cardinality(new))) \X (Nat \ {0})
        BY <1>1, <1>3
    <2>3. new \subseteq Nat \ {0}
        BY DEF new
    <2> QED BY <1>5, <2>1, <2>2, <2>3
<1> QED BY <1>3, <1>6 DEF RowsBelow

(* The first task has its owners' rows. *)
LEMMA RowsStart == MigrationInit => AssignedInv
<1> SUFFICES ASSUME MigrationInit PROVE AssignedInv
    OBVIOUS
<1> USE DEF MigrationInit
<1>1. ContentsOf[1][1] # 0 /\ 1 \in 1 .. Len(ContentsOf) /\ 1 \in 1 .. Len(ContentsOf[1])
    BY MigrationConstants
<1>2. Owners[ContentsOf[1][1]] \subseteq Nat \ {0} /\ IsFiniteSet(Owners[ContentsOf[1][1]])
    BY <1>1, MigrationConstants
<1>3. RowsBelow({})
    BY DEF RowsBelow
<1>4. RowsBelow(assigned)
    BY <1>2, <1>3, RowsAdded
<1> QED BY <1>4, MigrationConstants DEF AssignedInv, NotMigrating

(* Every change of the ready task writes such rows. *)
LEMMA RowsGoOn == MigrationInv /\ AssignedInv /\ [MigrationNext]_miVars => AssignedInv'
<1> SUFFICES ASSUME MigrationInv, AssignedInv, [MigrationNext]_miVars PROVE AssignedInv'
    OBVIOUS
<1>0. /\ Len(details) \in Nat /\ MaxEvents \in Nat /\ migrating \in {NotMigrating} \cup Migrations
      /\ ~NotMigrating.on /\ defn \in Versions
    BY MigrationConstants DEF MigrationInv, MigrationTypes, NotMigrating
<1>1. \A v \in Versions, t \in ModelTasks : ContentsOf[v][t] # 0 =>
          Owners[ContentsOf[v][t]] \subseteq Nat \ {0} /\ IsFiniteSet(Owners[ContentsOf[v][t]])
    BY MigrationConstants DEF Versions, ModelTasks
<1>2. RowsBelow({})
    BY DEF RowsBelow
<1>3. ASSUME NEW t \in ModelTasks, CompleteTask(t) PROVE AssignedInv'
    <2> DEFINE rest == {u \in ModelTasks : u > t /\ state[u] = "FUTURE" /\ ContentsOf[defn][u] # 0}
    <2>1. /\ UNCHANGED <<details, migrating>> /\ miStatus' \in {"waiting", "complete"}
          /\ rest = {} => assigned' = {}
          /\ rest # {} /\ Min(rest) # 0 => assigned' = AddOwners({}, Owners[ContentsOf[defn][Min(rest)]])
        BY <1>3 DEF CompleteTask
    <2>2. ASSUME rest # {} PROVE RowsBelow(assigned')
        <3>1. PICK x \in rest : \A y \in rest : x <= y
            <4>1. rest \in SUBSET Nat
                BY DEF ModelTasks
            <4> QED BY <2>2, <4>1, Least
        <3>2. Min(rest) \in rest
            BY <3>1 DEF Min
        <3>3. Min(rest) \in ModelTasks /\ Min(rest) # 0 /\ ContentsOf[defn][Min(rest)] # 0
            BY <3>2 DEF ModelTasks
        <3> QED BY ZenonT(40), <1>0, <1>1, <1>2, <2>1, <2>2, <3>3, RowsAdded
    <2> QED BY <1>2, <2>1, <2>2 DEF AssignedInv
<1>4. ASSUME NEW target \in Versions, NEW given \in BOOLEAN, check_process_instance_can_be_migrated(target, given)
      PROVE  AssignedInv'
    BY <1>4 DEF check_process_instance_can_be_migrated, AssignedInv
<1>5. CASE migrate_process_instance
    <2> DEFINE target == migrating.target
               open   == {t \in ModelTasks : migrating.state[t] # "COMPLETED" /\ ContentsOf[target][t] # 0}
               new    == migrate_workflow(target, migrating.state)
               ready  == {t \in ModelTasks : new[t] = "READY"}
               users  == UNION {Owners[ContentsOf[target][t]] : t \in ready}
    <2>1. /\ migrating.on /\ migrating' = NotMigrating /\ UNCHANGED miStatus
          /\ assigned' = update_assignments(assigned, users)
          /\ details' = Append(details, [from |-> defn, to |-> target, revision |-> gitRevision])
        BY <1>5 DEF migrate_process_instance
    <2>2. target \in Versions
        BY <1>0, <2>1 DEF Migrations
    <2>3. \A t \in ModelTasks : new[t] = IF migrating.state[t] = "COMPLETED" THEN "COMPLETED"
                                         ELSE IF open # {} /\ t = Min(open) THEN "READY" ELSE "FUTURE"
        BY DEF migrate_workflow
    <2>4. users \subseteq Nat \ {0} /\ IsFiniteSet(users)
        <3>1. CASE ready = {}
            <4>1. users = {}
                BY <3>1
            <4> QED BY <4>1, FS_EmptySet
        <3>2. CASE ready # {}
            <4>1. PICK t \in ready : TRUE
                BY <3>2
            <4>2. open # {} /\ \A u \in ready : u = Min(open)
                BY <2>3, <4>1
            <4>3. ready = {t} /\ t = Min(open)
                BY <4>1, <4>2
            <4>4. PICK x \in open : \A y \in open : x <= y
                <5>1. open \in SUBSET Nat
                    BY DEF ModelTasks
                <5> QED BY <4>2, <5>1, Least
            <4>5. Min(open) \in open
                BY <4>4 DEF Min
            <4>6. ContentsOf[target][t] # 0 /\ t \in ModelTasks
                BY <4>3, <4>5
            <4> HIDE DEF ready
            <4>7. users = Owners[ContentsOf[target][t]]
                BY <4>3
            <4> QED BY <1>1, <2>2, <4>6, <4>7
        <3> QED BY <3>1, <3>2
    <2> HIDE DEF users
    <2>5. RowsBelow(AddOwners(assigned, users))
        BY <2>4, RowsAdded DEF AssignedInv
    <2>6. assigned' \subseteq AddOwners(assigned, users)
        BY <2>1 DEF update_assignments
    <2>7. RowsBelow(assigned')
        BY <2>5, <2>6 DEF RowsBelow
    <2>8. Len(details') = Len(details) + 1
        BY <2>1 DEF MigrationInv, MigrationTypes
    <2> QED BY <1>0, <2>1, <2>7, <2>8 DEF AssignedInv
<1>6. CASE (\E v \in 1 .. Current : Load(v)) \/ process_instance_suspend \/ process_instance_resume
           \/ (\E v \in Versions : EditModel(v)) \/ UNCHANGED miVars
    <2>1. UNCHANGED <<assigned, details, migrating>> /\ miStatus' \in {"waiting", "suspended", "complete"}
        BY <1>6 DEF Load, process_instance_suspend, process_instance_resume, EditModel, miVars, AssignedInv
    <2> QED BY <2>1 DEF AssignedInv
<1> QED BY <1>3, <1>4, <1>5, <1>6 DEF MigrationNext

(* For any versions of a model and any owners: through migrations back and *)
(* forth an instance keeps the tasks it completed as they were             *)
(* (can_migrate), unless it ran while a migration was under way, its       *)
(* revision is always git's (get_appropriate_git_revision), and a stored   *)
(* instance of version 3 or more misses no data migration.                 *)
THEOREM MigrationIsSound == MigrationSpec => []MigrationSound
<1>1. MigrationInit => MigrationInv /\ AssignedInv
    BY MigrationStarts, RowsStart
<1>2. MigrationInv /\ AssignedInv /\ [MigrationNext]_miVars => (MigrationInv /\ AssignedInv)'
    BY MigrationGoesOn, RowsGoOn
<1>3. MigrationInv /\ AssignedInv => MigrationSound
    <2> SUFFICES ASSUME MigrationInv, AssignedInv PROVE MigrationSound
        OBVIOUS
    <2>1. migrating.on \in BOOLEAN
        <3>1. migrating \in {NotMigrating} \cup Migrations
            BY DEF MigrationInv, MigrationTypes
        <3>2. CASE migrating = NotMigrating
            BY <3>2 DEF NotMigrating
        <3>3. CASE migrating \in Migrations
            BY <3>3 DEF Migrations
        <3> QED BY <3>1, <3>2, <3>3
    <2>2. assigned \subseteq (Nat \ {0}) \X (Nat \ {0})
        BY DEF AssignedInv, RowsBelow
    <2>3. MigrationTypeOK
        BY <2>1, <2>2 DEF MigrationTypeOK, MigrationInv, MigrationTypes, AssignedInv, TaskStates
    <2> QED BY <2>3 DEF MigrationInv, PastInv, MigrationSound
<1> QED BY <1>1, <1>2, <1>3, PTL DEF MigrationSpec

--------------------------------------------------------------------------------
(* DataStores: the stores, for any models, locations and bodies.           *)

(* A row has a schema and data. *)
RowsKept(st) ==
    /\ st = [k \in Stores |-> st[k]]
    /\ \A k \in Stores : /\ st[k] = [schema |-> st[k].schema, data |-> st[k].data]
                         /\ st[k].schema \in Schemas \cup {Nothing}

(* The store a request is about to commit is specified, or was dropped     *)
(* since.                                                                  *)
UpsertInv ==
    upserting # NoUpsert => /\ upserting.key \in Stores /\ upserting.schema \in Schemas
                            /\ upserting.key \in dropped \/ spec[upserting.key] # Nothing

StoresInv == DataStoresTypeOK /\ RowsKept(store) /\ UpsertInv /\ TasksKeepToTheirStores /\ RowsSpecified

(* The first of some places in a list. *)
LEMMA MinIs ==
    ASSUME NEW S \in SUBSET Nat, S # {}
    PROVE  Min(S) \in S /\ \A i \in S : Min(S) <= i
BY Least DEF Min

(* A model's way up. *)
LEMMA Upward ==
    ASSUME NEW m \in StoreModels
    PROVE  /\ Len(Upsearch[m]) \in Nat /\ DOMAIN Upsearch[m] = 1 .. Len(Upsearch[m])
           /\ \A i, j \in 1 .. Len(Upsearch[m]) : Upsearch[m][i] = Upsearch[m][j] => i = j
<1>1. Upsearch[m] \in Seq(STRING) /\ IsInjective(Upsearch[m])
    BY DataStoreConstants
<1>2. Len(Upsearch[m]) \in Nat /\ DOMAIN Upsearch[m] = 1 .. Len(Upsearch[m])
    BY <1>1, LenProperties
<1> QED BY <1>1, <1>2 DEF IsInjective

(* What the upward search finds is a store nearest to the model. *)
LEMMA FoundIsNearest ==
    ASSUME NEW m \in StoreModels, NEW type \in Types, data_store_location_for_task(type, m) # Nothing
    PROVE  <<type, data_store_location_for_task(type, m)>> \in NearestTo(m) \cap Stores
<1> DEFINE up    == Upsearch[m]
           there == {i \in DOMAIN up : up[i] \in Locations /\ Exists(<<type, up[i]>>)}
           at    == Min(there)
           At(l) == CHOOSE i \in 1 .. Len(up) : up[i] = l
<1>1. /\ Len(up) \in Nat /\ DOMAIN up = 1 .. Len(up)
      /\ \A i, j \in 1 .. Len(up) : up[i] = up[j] => i = j
    BY Upward
<1>2. there # {} /\ data_store_location_for_task(type, m) = up[at]
    BY DEF data_store_location_for_task
<1>3. at \in there /\ \A i \in there : at <= i
    <2> HIDE DEF there
    <2>1. there \in SUBSET Nat
        BY <1>1 DEF there
    <2> QED BY <1>2, <2>1, MinIs
<1>4. \A i \in 1 .. Len(up) : At(up[i]) = i
    <2> SUFFICES ASSUME NEW i \in 1 .. Len(up) PROVE At(up[i]) = i
        OBVIOUS
    <2> HIDE DEF up
    <2>1. At(up[i]) \in 1 .. Len(up) /\ up[At(up[i])] = up[i]
        OBVIOUS
    <2> QED BY <1>1, <2>1
<1> DEFINE k == <<type, up[at]>>
<1>5. k \in Stores /\ Exists(k) /\ k[1] = type /\ k[2] = up[at]
    BY <1>3 DEF Stores
<1>6. k[2] \in ToSet(up)
    BY <1>3, <1>5 DEF ToSet
<1>7. ASSUME NEW l \in Locations \cap ToSet(up), Exists(<<k[1], l>>) PROVE At(k[2]) <= At(l)
    <2>1. PICK j \in 1 .. Len(up) : up[j] = l
        BY <1>1 DEF ToSet
    <2>2. j \in there
        BY <1>1, <1>5, <1>7, <2>1
    <2>3. at <= j /\ At(l) = j /\ At(k[2]) = at
        BY ZenonT(40), <1>1, <1>3, <1>4, <1>5, <2>1, <2>2
    <2> QED BY <2>3
<1>8. k \in NearestTo(m)
    BY <1>5, <1>6, <1>7 DEF NearestTo
<1> QED BY <1>2, <1>5, <1>8

(* A row that is written leaves the others alone. *)
LEMMA DataSet ==
    ASSUME RowsKept(store), NEW k \in Stores, NEW d, store' = [store EXCEPT ![k].data = d]
    PROVE  RowsKept(store') /\ \A j \in Stores : store'[j].schema = store[j].schema
<1>1. /\ store' = [j \in Stores |-> store'[j]] /\ \A j \in Stores \ {k} : store'[j] = store[j]
      /\ store'[k] = [store[k] EXCEPT !.data = d]
    BY DEF RowsKept
<1>2. store'[k].schema = store[k].schema /\ store'[k] = [schema |-> store'[k].schema, data |-> store'[k].data]
    BY <1>1 DEF RowsKept
<1> QED BY <1>1, <1>2 DEF RowsKept

LEMMA SchemaSet ==
    ASSUME RowsKept(store), NEW k \in Stores, NEW s \in Schemas, store' = [store EXCEPT ![k].schema = s]
    PROVE  RowsKept(store') /\ \A j \in Stores \ {k} : store'[j].schema = store[j].schema
<1>1. /\ store' = [j \in Stores |-> store'[j]] /\ \A j \in Stores \ {k} : store'[j] = store[j]
      /\ store'[k] = [store[k] EXCEPT !.schema = s]
    BY DEF RowsKept
<1>2. store'[k].schema = s /\ store'[k] = [schema |-> store'[k].schema, data |-> store'[k].data]
    BY <1>1 DEF RowsKept
<1> QED BY <1>1, <1>2 DEF RowsKept

LEMMA RowSet ==
    ASSUME RowsKept(store), NEW k \in Stores, NEW s \in Schemas \cup {Nothing},
           store' = [store EXCEPT ![k] = create_instance(k, s)]
    PROVE  RowsKept(store') /\ store'[k].schema = s /\ \A j \in Stores \ {k} : store'[j].schema = store[j].schema
<1>1. /\ store' = [j \in Stores |-> store'[j]] /\ \A j \in Stores \ {k} : store'[j] = store[j]
      /\ store'[k] = create_instance(k, s)
    BY DEF RowsKept
<1>2. store'[k].schema = s /\ store'[k] = [schema |-> store'[k].schema, data |-> store'[k].data]
    BY <1>1 DEF create_instance
<1> QED BY <1>1, <1>2 DEF RowsKept

(* Schemas are no missing row. *)
LEMMA SchemasAreThere == Nothing \notin Schemas
BY DEF Schemas, Nothing

(* Rows whose schemas stay, or go. *)
LEMMA StoresStay ==
    ASSUME StoresInv, RowsKept(store'), UNCHANGED <<specFiles, requests>>,
           \A j \in Stores : store'[j].schema \in {store[j].schema, Nothing},
           terms' \subseteq {"c"} \X Values, running' \in Seq(StoreModels), Len(running') <= 2,
           local' \in StoreModels \cup {Nothing}, astray' = FALSE
    PROVE  StoresInv'
<1>1. DataStoresTypeOK'
    BY DEF StoresInv, DataStoresTypeOK, RowsKept, specFiles
<1>2. UpsertInv'
    BY DEF StoresInv, UpsertInv, specFiles
<1>3. RowsSpecified'
    BY DEF StoresInv, RowsSpecified, Exists, specFiles
<1> QED BY <1>1, <1>2, <1>3 DEF StoresInv, TasksKeepToTheirStores

(* What the types say of a run. *)
LEMMA RunningModel ==
    ASSUME StoresInv, running # <<>>
    PROVE  Last(running) \in StoreModels /\ Front(running) \in Seq(StoreModels) /\ Len(Front(running)) <= 2
<1>1. running \in Seq(StoreModels) /\ Len(running) <= 2
    BY DEF StoresInv, DataStoresTypeOK
<1>2. Len(running) \in Nat \ {0} /\ running \in [1 .. Len(running) -> StoreModels]
    BY <1>1, LenProperties, EmptySeq
<1>3. Front(running) \in Seq(StoreModels) /\ Len(Front(running)) = Len(running) - 1
    BY <1>1, <1>2 DEF Front
<1> QED BY <1>1, <1>2, <1>3 DEF Last

LEMMA StoresStart == DataStoresInit => StoresInv
<1> SUFFICES ASSUME DataStoresInit PROVE StoresInv
    OBVIOUS
<1>1. spec \in [Stores -> Schemas \cup {Nothing}] /\ \A k \in Stores : store[k].schema = spec[k]
    BY DEF DataStoresInit, Schemas, create_instance
<1>2. RowsKept(store)
    BY <1>1 DEF DataStoresInit, RowsKept, create_instance
<1>3. DataStoresTypeOK
    <2>1. running \in Seq(StoreModels) /\ Len(running) <= 2 /\ requests \in 0 .. MaxRequests
        <3>1. running = <<>> /\ requests = 0
            BY DEF DataStoresInit
        <3>2. running \in Seq(StoreModels) /\ Len(running) = 0
            BY <3>1, EmptySeq
        <3> QED BY <3>1, <3>2, DataStoreConstants
    <2>2. DOMAIN store = Stores /\ \A k \in Stores : store[k].schema \in Schemas \cup {Nothing}
        BY <1>2 DEF RowsKept
    <2> QED BY <1>1, <2>1, <2>2 DEF DataStoresInit, DataStoresTypeOK
<1>4. UpsertInv /\ TasksKeepToTheirStores
    BY DEF DataStoresInit, UpsertInv, TasksKeepToTheirStores
<1>5. RowsSpecified
    BY <1>1 DEF RowsSpecified, Exists
<1> QED BY <1>2, <1>3, <1>4, <1>5 DEF StoresInv

(* A task that writes finds the store of its own model. *)
LEMMA TaskWrites ==
    ASSUME StoresInv, NEW type \in Types, RunStep,
           data_store_location_for_task(type, local') # Nothing
    PROVE  LET k == <<type, data_store_location_for_task(type, local')>>
           IN  /\ k \in Stores /\ k \in NearestTo(Last(running))
               /\ running' = running /\ local' \in StoreModels
BY RunningModel, FoundIsNearest DEF RunStep

LEMMA StoresGoOn == StoresInv /\ [DataStoresNext]_dsVars => StoresInv'
<1> SUFFICES ASSUME StoresInv, [DataStoresNext]_dsVars PROVE StoresInv'
    OBVIOUS
<1> USE DEF StoresInv
<1>0. /\ DataStoresTypeOK /\ RowsKept(store) /\ astray = FALSE
      /\ terms \subseteq {"c"} \X Values /\ running \in Seq(StoreModels) /\ Len(running) <= 2
      /\ local \in StoreModels \cup {Nothing}
    BY DEF DataStoresTypeOK, TasksKeepToTheirStores
<1>00. \A j \in Stores : store[j].schema \in {store[j].schema, Nothing}
    OBVIOUS
<1>1. ASSUME NEW m \in StoreModels, setup_runtime(m) PROVE StoresInv'
    <2>1. Len(running) \in Nat /\ running' \in Seq(StoreModels) /\ Len(running') <= 2
        BY <1>0, <1>1, LenProperties, AppendProperties DEF setup_runtime
    <2> QED BY <1>0, <1>1, <2>1, StoresStay DEF setup_runtime, specFiles
<1>2. CASE FinishRun
    BY <1>0, <1>2, StoresStay, RunningModel DEF FinishRun, specFiles
<1>3. ASSUME NEW body \in Bodies, kkv_set(body) PROVE StoresInv'
    <2> DEFINE k == <<"kkv", data_store_location_for_task("kkv", local')>>
    <2>1. RunStep /\ data_store_location_for_task("kkv", local') # Nothing /\ "kkv" \in Types
        BY <1>3 DEF kkv_set, Types
    <2>2. k \in Stores /\ k \in NearestTo(Last(running)) /\ running' = running /\ local' \in StoreModels
        BY <2>1, TaskWrites
    <2>3. store' = store \/ \E d : store' = [store EXCEPT ![k].data = d]
        BY <1>3 DEF kkv_set
    <2>4. RowsKept(store') /\ \A j \in Stores : store'[j].schema = store[j].schema
        BY <1>0, <2>2, <2>3, DataSet
    <2>5. astray' = FALSE
        BY <1>0, <1>3, <2>2 DEF kkv_set
    <2> QED BY <1>0, <1>3, <2>2, <2>4, <2>5, StoresStay DEF kkv_set, specFiles
<1>4. ASSUME NEW v \in Values, json_set(v) PROVE StoresInv'
    <2> DEFINE k == <<"json", data_store_location_for_task("json", local')>>
    <2>1. RunStep /\ data_store_location_for_task("json", local') # Nothing /\ "json" \in Types
        BY <1>4 DEF json_set, Types
    <2>2. k \in Stores /\ k \in NearestTo(Last(running)) /\ running' = running /\ local' \in StoreModels
        BY <2>1, TaskWrites
    <2>3. store' = [store EXCEPT ![k].data = v]
        BY <1>4 DEF json_set
    <2>4. RowsKept(store') /\ \A j \in Stores : store'[j].schema = store[j].schema
        BY <1>0, <2>2, <2>3, DataSet
    <2>5. astray' = FALSE
        BY <1>0, <1>4, <2>2 DEF json_set
    <2> QED BY <1>0, <1>4, <2>2, <2>4, <2>5, StoresStay DEF json_set, specFiles
<1>5. CASE typeahead_set({"text"})
    <2>1. terms' \subseteq {"c"} \X Values
        BY <1>5 DEF typeahead_set, Values
    <2>2. running' = running /\ local' \in StoreModels
        BY <1>5, RunningModel DEF typeahead_set, RunStep
    <2> QED BY <1>0, <1>5, <2>1, <2>2, StoresStay DEF typeahead_set, specFiles
<1>6. ASSUME NEW k \in Stores, NEW s \in Schemas, NEW insert \in BOOLEAN, data_store_upsert(k, s, insert)
      PROVE  StoresInv'
    <2>1. /\ spec' = [spec EXCEPT ![k] = s] /\ dropped' = dropped \ {k}
          /\ upserting' = [key |-> k, schema |-> s, insert |-> insert]
          /\ requests' = requests + 1 /\ requests < MaxRequests
          /\ UNCHANGED <<store, terms, running, local, astray>>
        BY <1>6 DEF data_store_upsert, write_specification, Another, dsThread
    <2>2. DataStoresTypeOK'
        BY <1>0, <2>1, DataStoreConstants DEF DataStoresTypeOK
    <2>3. UpsertInv' /\ RowsSpecified'
        BY <1>0, <2>1, SchemasAreThere DEF UpsertInv, RowsSpecified, Exists, DataStoresTypeOK
    <2> QED BY <1>0, <2>1, <2>2, <2>3 DEF TasksKeepToTheirStores
<1>7. CASE UpsertCommits
    <2> DEFINE k == upserting.key
    <2>1. /\ k \in Stores /\ upserting.schema \in Schemas /\ (k \in dropped \/ spec[k] # Nothing)
          /\ upserting' = NoUpsert /\ UNCHANGED <<spec, dropped, terms, dsThread, requests>>
        BY <1>7 DEF UpsertCommits, UpsertInv
    <2>2. store' \in {store, [store EXCEPT ![k] = create_instance(k, upserting.schema)],
                      [store EXCEPT ![k].schema = upserting.schema]}
        BY <1>7 DEF UpsertCommits
    <2>3. RowsKept(store') /\ \A j \in Stores \ {k} : store'[j].schema = store[j].schema
        <3> HIDE DEF k
        <3>1. CASE store' = store
            BY <1>0, <3>1
        <3>2. CASE store' = [store EXCEPT ![k] = create_instance(k, upserting.schema)]
            BY <1>0, <2>1, <3>2, RowSet
        <3>3. CASE store' = [store EXCEPT ![k].schema = upserting.schema]
            BY <1>0, <2>1, <3>3, SchemaSet
        <3> QED BY <2>2, <3>1, <3>2, <3>3
    <2>4. DataStoresTypeOK'
        BY <1>0, <2>1, <2>3 DEF DataStoresTypeOK, RowsKept, dsThread
    <2>5. RowsSpecified'
        BY <2>1, <2>3 DEF RowsSpecified, Exists
    <2> QED BY <1>0, <2>1, <2>3, <2>4, <2>5 DEF TasksKeepToTheirStores, UpsertInv, dsThread
<1>8. ASSUME NEW l \in Locations, NEW body \in Bodies, data_store_write_items(l, body) PROVE StoresInv'
    <2>1. <<"kkv", l>> \in Stores
        BY DEF Stores, Types
    <2>2. \E d : store' = [store EXCEPT ![<<"kkv", l>>].data = d]
        BY <1>8 DEF data_store_write_items
    <2>3. RowsKept(store') /\ \A j \in Stores : store'[j].schema = store[j].schema
        BY <1>0, <2>1, <2>2, DataSet
    <2> QED BY <1>0, <1>8, <2>3, StoresStay DEF data_store_write_items, specFiles, dsThread
<1>9. ASSUME NEW k \in Stores, data_store_clear(k) PROVE StoresInv'
    <2>1. store' \in {[store EXCEPT ![k].data = NoEntries], [store EXCEPT ![k].data = Empty]}
        BY <1>9 DEF data_store_clear, kkv_clear, json_clear
    <2>2. RowsKept(store') /\ \A j \in Stores : store'[j].schema = store[j].schema
        BY <1>0, <2>1, DataSet
    <2> QED BY <1>0, <1>9, <2>2, StoresStay DEF data_store_clear, specFiles, dsThread
<1>10. ASSUME NEW k \in Stores, data_store_delete(k) PROVE StoresInv'
    <2>1. store' = [store EXCEPT ![k] = create_instance(k, Nothing)]
        BY <1>10 DEF data_store_delete, delete_store, Absent
    <2>2. RowsKept(store') /\ \A j \in Stores : store'[j].schema \in {store[j].schema, Nothing}
        BY <1>0, <2>1, RowSet
    <2> QED BY <1>0, <1>10, <2>2, StoresStay DEF data_store_delete, specFiles, dsThread
<1>11. CASE typeahead_clear
    BY <1>0, <1>11, StoresStay DEF typeahead_clear, specFiles, dsThread
<1>12. ASSUME NEW l \in Locations, process_group_drops(l) PROVE StoresInv'
    <2>1. /\ spec' = [k \in Stores |-> IF k[2] = l THEN Nothing ELSE spec[k]]
          /\ dropped' = dropped \cup {k \in Stores : k[2] = l}
          /\ UNCHANGED <<upserting, store, terms, running, local, astray, requests>>
        BY <1>12 DEF process_group_drops, dsThread
    <2>2. DataStoresTypeOK'
        BY <2>1 DEF DataStoresTypeOK
    <2>3. UpsertInv' /\ RowsSpecified'
        BY <2>1 DEF UpsertInv, RowsSpecified, Exists
    <2> QED BY <2>1, <2>2, <2>3 DEF TasksKeepToTheirStores
<1>13. CASE refresh_process_model_caches
    <2>1. store' = [k \in Stores |-> synced(k)] /\ UNCHANGED <<specFiles, terms, dsThread, requests>>
        BY <1>13 DEF refresh_process_model_caches
    <2>2. ASSUME NEW k \in Stores
          PROVE  synced(k).schema = spec[k] /\ synced(k) = [schema |-> spec[k], data |-> synced(k).data]
        <3>1. CASE spec[k] # Nothing /\ ~Exists(k)
            BY <3>1 DEF synced, create_instance
        <3>2. CASE spec[k] # Nothing /\ Exists(k)
            BY <1>0, <3>2 DEF synced, RowsKept
        <3>3. CASE spec[k] = Nothing
            BY <3>3 DEF synced, Absent, create_instance
        <3> QED BY <3>1, <3>2, <3>3
    <2>3. RowsKept(store') /\ \A k \in Stores : store'[k].schema = spec[k]
        BY <1>0, <2>1, <2>2 DEF RowsKept, DataStoresTypeOK
    <2>4. DataStoresTypeOK'
        BY <1>0, <2>1, <2>3 DEF DataStoresTypeOK, RowsKept, dsThread, specFiles
    <2>5. RowsSpecified' /\ UpsertInv'
        BY <2>1, <2>3 DEF RowsSpecified, Exists, UpsertInv, specFiles
    <2> QED BY <1>0, <2>1, <2>3, <2>4, <2>5 DEF TasksKeepToTheirStores, dsThread
<1>14. CASE UNCHANGED dsVars
    BY <1>0, <1>14, StoresStay DEF dsVars, specFiles
<1> QED BY <1>1, <1>2, <1>3, <1>4, <1>5, <1>6, <1>7, <1>8, <1>9, <1>10, <1>11, <1>12, <1>13, <1>14 DEF DataStoresNext

(* A task writes to the store nearest to its own model, whatever ran in    *)
(* the thread before (THREAD_LOCAL_DATA, data_store_location_for_task),    *)
(* and a refresh between the writing of a specification and the commit of  *)
(* its row deletes no store (_data_store_upsert).                          *)
THEOREM StoresAreSound == DataStoresSpec => []StoresSound
<1>1. StoresInv => StoresSound
    BY DEF StoresInv, StoresSound
<1> QED BY <1>1, StoresStart, StoresGoOn, PTL DEF DataStoresSpec

--------------------------------------------------------------------------------
(* MessageDefinitions: the users of messages, for any groups and models.   *)

(* A table of definitions and their users: whoever uses one is below it.   *)
UsersBelow(table) ==
    /\ table = [k \in DOMAIN table |-> table[k]] /\ DOMAIN table \subseteq Keys
    /\ \A k \in DOMAIN table : \A m \in table[k] : m \in MessageModels /\ InScope(m, k[2])

(* The users of a definition among those given: who declares the message   *)
(* and finds no nearer one.                                                *)
Finders(decl, keys, k) ==
    {m \in MessageModels : k[1] \in decl[m] /\ k[2] \in find_nearest_message_location(m, k[1], keys)}

(* What a request is about to commit. *)
PersistingInv ==
    /\ persisting = [on |-> persisting.on, groups |-> persisting.groups,
                     models |-> persisting.models, backup |-> persisting.backup]
    /\ persisting.on \in BOOLEAN /\ persisting.groups \subseteq MessageGroups
    /\ persisting.on => /\ UsersBelow(persisting.models)
                        /\ persisting.backup \in [MessageGroups -> SUBSET Names]

(* What the refresh has in hand, and that nobody disturbed it. *)
RefreshInv ==
    /\ refresher = [pc |-> refresher.pc, defs |-> refresher.defs, known |-> refresher.known,
                    usage |-> refresher.usage, quiet |-> refresher.quiet]
    /\ refresher.pc \in {"idle", "collected", "deleted"} /\ refresher.quiet \in BOOLEAN
    /\ refresher.pc # "idle" =>
          /\ UsersBelow(refresher.defs)
          /\ \A k \in DOMAIN refresher.defs : \A m \in UsersOf(refresher.usage, k) : InScope(m, k[2])
          /\ refresher.quiet => \A k \in DOMAIN refresher.defs :
                UsersOf(refresher.usage, k) = Finders(declares, DOMAIN refresher.defs, k)
    /\ (refresher.pc = "deleted" /\ refresher.quiet) => DOMAIN messageRows = {}

FreshInv == fresh => \A k \in DOMAIN messageRows : messageRows[k] = Finders(declares, DOMAIN messageRows, k)

MessagesInv ==
    /\ groupFiles \in [MessageGroups -> SUBSET Names] /\ declares \in [MessageModels -> SUBSET Names]
    /\ persists \in 0 .. MaxPersists /\ fresh \in BOOLEAN
    /\ UsersBelow(messageRows) /\ PersistingInv /\ RefreshInv /\ FreshInv

(* The nearest definition is above the model, and no other above the model *)
(* is below it.                                                            *)
LEMMA NearestIs ==
    ASSUME NEW m \in MessageModels, NEW keys \in SUBSET Keys, NEW k \in keys
    PROVE  k[2] \in find_nearest_message_location(m, k[1], keys) <=>
             /\ InScope(m, k[2])
             /\ ~\E g \in InGroup[k[2]] \ {k[2]} : InScope(m, g) /\ <<k[1], g>> \in keys
<1> DEFINE up    == GroupsAbove[m]
           there == {i \in DOMAIN up : up[i] \in MessageGroups /\ <<k[1], up[i]>> \in keys}
<1>1. Len(up) \in Nat /\ DOMAIN up = 1 .. Len(up)
    BY MessageDefinitionConstants, LenProperties
<1>2. k = <<k[1], k[2]>> /\ k[2] \in MessageGroups
    BY DEF Keys
<1>3. \A i, j \in DOMAIN up : {up[i], up[j]} \subseteq MessageGroups =>
          (up[j] \in InGroup[up[i]] \ {up[i]} <=> j < i)
    <2> SUFFICES ASSUME NEW i \in DOMAIN up, NEW j \in DOMAIN up, {up[i], up[j]} \subseteq MessageGroups
                 PROVE  up[j] \in InGroup[up[i]] \ {up[i]} <=> j < i
        OBVIOUS
    <2> QED BY MessageDefinitionConstants
<1>4. \A g : InScope(m, g) <=> \E i \in DOMAIN up : up[i] = g
    BY DEF InScope, ToSet
<1>5. find_nearest_message_location(m, k[1], keys) = IF there = {} THEN {} ELSE {up[Min(there)]}
    BY DEF find_nearest_message_location
<1>6. there # {} => Min(there) \in there /\ \A i \in there : Min(there) <= i
    <2> HIDE DEF there
    <2>1. there \in SUBSET Nat
        BY <1>1 DEF there
    <2> QED BY <2>1, MinIs
<1>7. ASSUME k[2] \in find_nearest_message_location(m, k[1], keys)
      PROVE  InScope(m, k[2]) /\ ~\E g \in InGroup[k[2]] \ {k[2]} : InScope(m, g) /\ <<k[1], g>> \in keys
    <2>1. there # {} /\ k[2] = up[Min(there)] /\ Min(there) \in there /\ \A i \in there : Min(there) <= i
        BY <1>5, <1>6, <1>7
    <2>2. InScope(m, k[2])
        BY <1>4, <2>1
    <2>3. ASSUME NEW g \in InGroup[k[2]] \ {k[2]}, InScope(m, g), <<k[1], g>> \in keys PROVE FALSE
        <3>1. PICK j \in DOMAIN up : up[j] = g
            BY <1>4, <2>3
        <3>2. g \in MessageGroups
            BY <2>3 DEF Keys
        <3>3. j \in there /\ j < Min(there)
            BY <1>2, <1>3, <2>1, <2>3, <3>1, <3>2
        <3>4. j \in Nat /\ Min(there) \in Nat
            BY <1>1, <2>1
        <3> QED BY SMTT(30), <2>1, <3>3, <3>4
    <2> QED BY <2>2, <2>3
<1>8. ASSUME InScope(m, k[2]), ~\E g \in InGroup[k[2]] \ {k[2]} : InScope(m, g) /\ <<k[1], g>> \in keys
      PROVE  k[2] \in find_nearest_message_location(m, k[1], keys)
    <2>1. PICK i \in DOMAIN up : up[i] = k[2]
        BY <1>4, <1>8
    <2>2. i \in there
        BY <1>2, <2>1
    <2> DEFINE l == Min(there)
    <2>3. l \in there /\ l <= i /\ l \in Nat /\ i \in Nat
        BY <1>1, <1>6, <2>2
    <2>4. CASE l < i
        <3>1. up[l] \in InGroup[k[2]] \ {k[2]}
            <4>1. {up[i], up[l]} \subseteq MessageGroups /\ l \in DOMAIN up
                BY <1>2, <2>1, <2>3
            <4> HIDE DEF l, up
            <4> QED BY <1>3, <2>1, <2>4, <4>1
        <3>2. InScope(m, up[l]) /\ <<k[1], up[l]>> \in keys
            BY <1>4, <2>3
        <3> QED BY <1>8, <3>1, <3>2
    <2>5. CASE l = i
        BY <1>5, <2>1, <2>2, <2>5
    <2> QED BY <2>3, <2>4, <2>5
<1> QED BY <1>7, <1>8

(* Whoever finds a definition is below it. *)
LEMMA FindersAreBelow ==
    ASSUME NEW decl, NEW keys \in SUBSET Keys, NEW k \in keys, NEW m \in Finders(decl, keys, k)
    PROVE  m \in MessageModels /\ InScope(m, k[2])
BY NearestIs DEF Finders

(* The definitions that are collected keep their users. *)
LEMMA CollectedIs ==
    ASSUME UsersBelow(messageRows), NEW groups \in SUBSET MessageGroups,
           NEW contents \in [MessageGroups -> SUBSET Names],
           NEW brought, \A k \in DOMAIN brought : \A m \in brought[k] :
                            m \in MessageModels /\ (k \in Keys => InScope(m, k[2]))
    PROVE  UsersBelow(collect_message_models(groups, contents, brought))
<1> DEFINE c == collect_message_models(groups, contents, brought)
           D == {x \in Keys : x[2] \in groups /\ x[1] \in contents[x[2]]}
<1>1. c = [k \in D |-> IF k \in DOMAIN messageRows THEN messageRows[k]
                       ELSE IF k \in DOMAIN brought THEN brought[k] ELSE {}]
    BY DEF collect_message_models
<1>2. DOMAIN c = D /\ c = [k \in DOMAIN c |-> c[k]]
    BY <1>1
<1>3. ASSUME NEW k \in D, NEW m \in c[k] PROVE m \in MessageModels /\ InScope(m, k[2])
    <2>1. k \in Keys
        OBVIOUS
    <2>2. CASE k \in DOMAIN messageRows
        BY <1>1, <1>3, <2>2 DEF UsersBelow
    <2>3. CASE k \notin DOMAIN messageRows
        BY <1>1, <1>3, <2>1, <2>3
    <2> QED BY <2>2, <2>3
<1> HIDE DEF c
<1>4. \A k \in D : \A m \in c[k] : m \in MessageModels /\ InScope(m, k[2])
    BY <1>3
<1> QED BY <1>2, <1>4 DEF UsersBelow, c

LEMMA NoTable ==
    DOMAIN <<>> = {} /\ UsersBelow(<<>>)
<1>1. <<>> = [k \in {} |-> {}]
    OBVIOUS
<1> QED BY <1>1 DEF UsersBelow

LEMMA MessagesStart == MessageDefinitionsInit => MessagesInv
<1> SUFFICES ASSUME MessageDefinitionsInit PROVE MessagesInv
    OBVIOUS
<1>1. PersistingInv
    BY DEF MessageDefinitionsInit, PersistingInv, NoPersist
<1>2. RefreshInv
    BY DEF MessageDefinitionsInit, RefreshInv, Idle
<1>3. UsersBelow(messageRows) /\ FreshInv
    BY NoTable DEF MessageDefinitionsInit, FreshInv
<1> QED BY <1>1, <1>2, <1>3, MessageDefinitionConstants DEF MessageDefinitionsInit, MessagesInv

(* A refresh that is disturbed is not quiet any more. *)
LEMMA Disturbed == ASSUME RefreshInv, Seen PROVE RefreshInv' /\ ~refresher'.quiet
<1>1. refresher' = [refresher EXCEPT !.quiet = FALSE]
    BY DEF Seen
<1>2. /\ refresher'.pc = refresher.pc /\ refresher'.defs = refresher.defs
      /\ refresher'.usage = refresher.usage /\ refresher'.known = refresher.known /\ refresher'.quiet = FALSE
      /\ refresher' = [pc |-> refresher'.pc, defs |-> refresher'.defs, known |-> refresher'.known,
                       usage |-> refresher'.usage, quiet |-> refresher'.quiet]
    BY <1>1 DEF RefreshInv
<1> QED BY <1>2 DEF RefreshInv, UsersOf

(* A change of definitions. *)
LEMMA PersistBegins ==
    ASSUME MessagesInv, NEW groups \in SUBSET MessageGroups,
           NEW contents \in [MessageGroups -> SUBSET Names], NEW brought,
           \A k \in DOMAIN brought : \A m \in brought[k] :
               m \in MessageModels /\ (k \in Keys => InScope(m, k[2])),
           persist_process_groups_with_messages(groups, contents, brought)
    PROVE  MessagesInv'
<1> DEFINE c == collect_message_models(groups, contents, brought)
<1>1. UsersBelow(c)
    BY CollectedIs DEF MessagesInv
<1>2. /\ persisting' = [on |-> TRUE, groups |-> groups, backup |-> groupFiles, models |-> c]
      /\ groupFiles' = contents /\ Seen /\ fresh' = FALSE /\ UNCHANGED <<declares, messageRows>>
      /\ persists < MaxPersists /\ persists' = persists + 1
    BY DEF persist_process_groups_with_messages
<1> HIDE DEF c
<1>3. PersistingInv'
    BY <1>1, <1>2 DEF PersistingInv, MessagesInv, UsersBelow, InScope
<1>4. RefreshInv'
    BY <1>2, Disturbed DEF MessagesInv
<1>5. persists' \in 0 .. MaxPersists
    BY <1>2, MessageDefinitionConstants DEF MessagesInv
<1> QED BY <1>2, <1>3, <1>4, <1>5 DEF MessagesInv, UsersBelow, FreshInv, InScope

(* The table without some models. *)
LEMMA RowRemoved ==
    ASSUME UsersBelow(messageRows), NEW ms
    PROVE  /\ UsersBelow(remove_from_usage(ms)) /\ DOMAIN remove_from_usage(ms) = DOMAIN messageRows
           /\ \A k \in DOMAIN messageRows : remove_from_usage(ms)[k] = messageRows[k] \ ms
BY DEF UsersBelow, remove_from_usage

LEMMA MessagesGoOn == MessagesInv /\ [MessageDefinitionsNext]_mdVars => MessagesInv'
<1> SUFFICES ASSUME MessagesInv, [MessageDefinitionsNext]_mdVars PROVE MessagesInv'
    OBVIOUS
<1>0. /\ groupFiles \in [MessageGroups -> SUBSET Names] /\ declares \in [MessageModels -> SUBSET Names]
      /\ persists \in 0 .. MaxPersists /\ fresh \in BOOLEAN
      /\ UsersBelow(messageRows) /\ PersistingInv /\ RefreshInv /\ FreshInv
    BY DEF MessagesInv
<1>1. ASSUME NEW g \in MessageGroups, NEW names \in SUBSET Names, process_group_update(g, names)
      PROVE  MessagesInv'
    BY <1>0, <1>1, NoTable, PersistBegins DEF process_group_update
<1>2. ASSUME NEW n \in Names, NEW n2 \in Names, NEW g \in MessageGroups, NEW g2 \in MessageGroups,
             move_message_between_groups(n, g, n2, g2)
      PROVE  MessagesInv'
    <2> DEFINE users    == IF <<n, g>> \in DOMAIN messageRows THEN messageRows[<<n, g>>] ELSE {}
               contents == [[groupFiles EXCEPT ![g] = @ \ {n}] EXCEPT ![g2] = @ \cup {n2}]
               brought  == [k \in {<<n2, g2>>} |-> users]
    <2>1. /\ \A m \in users : InScope(m, g2)
          /\ persist_process_groups_with_messages({g, g2}, contents, brought)
        BY <1>2 DEF move_message_between_groups
    <2>2. contents \in [MessageGroups -> SUBSET Names]
        BY <1>0
    <2>3. \A k \in DOMAIN brought : \A m \in brought[k] :
              m \in MessageModels /\ (k \in Keys => InScope(m, k[2]))
        BY <1>0, <2>1 DEF UsersBelow
    <2> QED BY <2>1, <2>2, <2>3, PersistBegins
<1>3. CASE PersistCommits
    <2>1. /\ persisting.on /\ persisting' = NoPersist /\ Seen /\ fresh' = FALSE
          /\ UNCHANGED <<persists, groupFiles, declares>>
          /\ messageRows' = [k \in {c \in DOMAIN messageRows : c[2] \notin persisting.groups}
                                       \cup DOMAIN persisting.models |->
                                IF k \in DOMAIN persisting.models THEN persisting.models[k] ELSE messageRows[k]]
        BY <1>3 DEF PersistCommits
    <2>2. UsersBelow(persisting.models)
        BY <1>0, <2>1 DEF PersistingInv
    <2>3. UsersBelow(messageRows')
        BY <1>0, <2>1, <2>2 DEF UsersBelow
    <2>4. PersistingInv' /\ RefreshInv'
        BY <1>0, <2>1, Disturbed DEF PersistingInv, NoPersist
    <2> QED BY <1>0, <2>1, <2>3, <2>4 DEF MessagesInv, FreshInv, UsersBelow, InScope
<1>4. CASE PersistFails
    <2>1. /\ persisting.on /\ persisting' = NoPersist /\ Seen /\ fresh' = FALSE
          /\ UNCHANGED <<persists, declares, messageRows>>
          /\ groupFiles' = [g \in MessageGroups |->
                               IF g \in persisting.groups THEN persisting.backup[g] ELSE groupFiles[g]]
        BY <1>4 DEF PersistFails
    <2>2. groupFiles' \in [MessageGroups -> SUBSET Names]
        BY <1>0, <2>1 DEF PersistingInv
    <2>3. PersistingInv' /\ RefreshInv'
        BY <1>0, <2>1, Disturbed DEF PersistingInv, NoPersist
    <2> QED BY <1>0, <2>1, <2>2, <2>3 DEF MessagesInv, FreshInv, UsersBelow, InScope
<1>5. ASSUME NEW m \in MessageModels, NEW names \in SUBSET Names, refresh_single_process_model_cache(m, names)
      PROVE  MessagesInv'
    <2> DEFINE keys == DOMAIN messageRows
               finds(k) == k[1] \in names /\ k[2] \in find_nearest_message_location(m, k[1], keys)
    <2>1. /\ declares' = [declares EXCEPT ![m] = names] /\ Seen
          /\ UNCHANGED <<persists, groupFiles, persisting, fresh>>
          /\ messageRows' = update_message_usage(m, names)
        BY <1>5 DEF refresh_single_process_model_cache
    <2>2. /\ messageRows' = [k \in keys |-> messageRows'[k]] /\ DOMAIN messageRows' = keys
          /\ \A k \in keys : messageRows'[k] = (messageRows[k] \ {m}) \cup (IF finds(k) THEN {m} ELSE {})
        BY <1>0, <2>1, RowRemoved DEF update_message_usage
    <2>3. keys \subseteq Keys
        BY <1>0 DEF UsersBelow
    <2>4. \A k \in keys : finds(k) => InScope(m, k[2])
        BY <2>3, NearestIs
    <2>5. UsersBelow(messageRows')
        BY <1>0, <2>2, <2>3, <2>4 DEF UsersBelow
    <2>6. ASSUME fresh, NEW k \in keys PROVE messageRows'[k] = Finders(declares', keys, k)
        <3>1. messageRows[k] = Finders(declares, keys, k)
            BY <1>0, <2>6 DEF FreshInv
        <3>2. \A x \in MessageModels : declares'[x] = IF x = m THEN names ELSE declares[x]
            BY <1>0, <2>1
        <3> HIDE DEF keys
        <3> QED BY <2>2, <3>1, <3>2 DEF Finders
    <2>7. RefreshInv'
        BY <1>0, <2>1, Disturbed
    <2>8. PersistingInv' /\ FreshInv' /\ declares' \in [MessageModels -> SUBSET Names]
        BY <1>0, <2>1, <2>2, <2>6 DEF PersistingInv, FreshInv, UsersBelow, InScope
    <2> QED BY <1>0, <2>1, <2>5, <2>7, <2>8 DEF MessagesInv, UsersBelow, InScope
<1>6. ASSUME NEW m \in MessageModels, process_model_delete(m) PROVE MessagesInv'
    <2>1. /\ declares' = [declares EXCEPT ![m] = {}] /\ Seen
          /\ messageRows' = remove_from_usage({m}) /\ UNCHANGED <<persists, groupFiles, persisting, fresh>>
        BY <1>6 DEF process_model_delete
    <2>2. /\ UsersBelow(messageRows') /\ DOMAIN messageRows' = DOMAIN messageRows
          /\ \A k \in DOMAIN messageRows : messageRows'[k] = messageRows[k] \ {m}
        BY <1>0, <2>1, RowRemoved
    <2>3. \A x \in MessageModels : declares'[x] = IF x = m THEN {} ELSE declares[x]
        BY <1>0, <2>1
    <2>4. FreshInv'
        <3>1. ASSUME fresh, NEW k \in DOMAIN messageRows
              PROVE  messageRows'[k] = Finders(declares', DOMAIN messageRows, k)
            <4>1. messageRows[k] = Finders(declares, DOMAIN messageRows, k)
                BY <1>0, <3>1 DEF FreshInv
            <4> QED BY <2>2, <2>3, <4>1 DEF Finders
        <3> QED BY <2>1, <2>2, <3>1 DEF FreshInv
    <2>5. RefreshInv'
        BY <1>0, <2>1, Disturbed
    <2>6. PersistingInv' /\ declares' \in [MessageModels -> SUBSET Names]
        BY <1>0, <2>1 DEF PersistingInv, UsersBelow, InScope
    <2> QED BY <1>0, <2>1, <2>2, <2>4, <2>5, <2>6 DEF MessagesInv, UsersBelow, InScope
<1>7. ASSUME NEW g \in MessageGroups, process_group_delete(g) PROVE MessagesInv'
    <2>1. /\ groupFiles' = [h \in MessageGroups |-> IF h \in InGroup[g] THEN {} ELSE groupFiles[h]]
          /\ declares' = [x \in MessageModels |-> IF x \in InGroup[g] THEN {} ELSE declares[x]]
          /\ messageRows' = remove_from_usage(InGroup[g]) /\ Seen
          /\ UNCHANGED <<persists, persisting, fresh>>
        BY <1>7 DEF process_group_delete
    <2>2. /\ UsersBelow(messageRows') /\ DOMAIN messageRows' = DOMAIN messageRows
          /\ \A k \in DOMAIN messageRows : messageRows'[k] = messageRows[k] \ InGroup[g]
        BY <1>0, <2>1, RowRemoved
    <2>3. FreshInv'
        <3>1. ASSUME fresh, NEW k \in DOMAIN messageRows
              PROVE  messageRows'[k] = Finders(declares', DOMAIN messageRows, k)
            <4>1. messageRows[k] = Finders(declares, DOMAIN messageRows, k)
                BY <1>0, <3>1 DEF FreshInv
            <4> QED BY <2>1, <2>2, <4>1 DEF Finders
        <3> QED BY <2>1, <2>2, <3>1 DEF FreshInv
    <2>4. RefreshInv'
        BY <1>0, <2>1, Disturbed
    <2>5. PersistingInv' /\ declares' \in [MessageModels -> SUBSET Names]
          /\ groupFiles' \in [MessageGroups -> SUBSET Names]
        BY <1>0, <2>1 DEF PersistingInv, UsersBelow, InScope
    <2> QED BY <1>0, <2>1, <2>2, <2>3, <2>4, <2>5 DEF MessagesInv, UsersBelow, InScope
<1>8. ASSUME NEW m \in MessageModels, NEW names \in SUBSET Names, PullModel(m, names) PROVE MessagesInv'
    <2>1. /\ declares' = [declares EXCEPT ![m] = names] /\ Seen /\ fresh' = FALSE
          /\ UNCHANGED <<persists, groupFiles, messageRows, persisting>>
        BY <1>8 DEF PullModel
    <2>2. RefreshInv'
        BY <1>0, <2>1, Disturbed
    <2> QED BY <1>0, <2>1, <2>2 DEF MessagesInv, PersistingInv, FreshInv, UsersBelow, InScope
<1>9. CASE RefreshCollects
    <2> DEFINE defs == collect_message_models(MessageGroups, groupFiles, <<>>)
    <2>1. /\ refresher' = [pc |-> "collected", defs |-> defs, known |-> DOMAIN messageRows,
                           usage |-> build_message_usage_map(DOMAIN defs), quiet |-> TRUE]
          /\ UNCHANGED <<persists, groupFiles, declares, messageRows, persisting, fresh>>
        BY <1>9 DEF RefreshCollects
    <2>2. UsersBelow(defs)
        BY <1>0, NoTable, CollectedIs
    <2> HIDE DEF defs
    <2>3. DOMAIN defs \subseteq Keys
        BY <2>2 DEF UsersBelow
    <2>4. \A k \in DOMAIN defs :
              UsersOf(build_message_usage_map(DOMAIN defs), k) = Finders(declares, DOMAIN defs, k)
        BY DEF UsersOf, build_message_usage_map, Finders
    <2>5. \A k \in DOMAIN defs : \A m \in Finders(declares, DOMAIN defs, k) : InScope(m, k[2])
        BY <2>3, FindersAreBelow
    <2>6. RefreshInv'
        BY <2>1, <2>2, <2>4, <2>5 DEF RefreshInv, UsersBelow, InScope, UsersOf
    <2> QED BY <1>0, <2>1, <2>6 DEF MessagesInv, PersistingInv, FreshInv, UsersBelow, InScope
<1>10. CASE delete_all_message_models
    <2>1. /\ refresher.pc = "collected" /\ refresher' = [refresher EXCEPT !.pc = "deleted"]
          /\ messageRows' = <<>> /\ fresh' = FALSE
          /\ UNCHANGED <<persists, groupFiles, declares, persisting>>
        BY <1>10 DEF delete_all_message_models
    <2>2. /\ refresher'.pc = "deleted" /\ refresher'.defs = refresher.defs
          /\ refresher'.usage = refresher.usage /\ refresher'.quiet = refresher.quiet
          /\ refresher' = [pc |-> refresher'.pc, defs |-> refresher'.defs, known |-> refresher'.known,
                           usage |-> refresher'.usage, quiet |-> refresher'.quiet]
        BY <1>0, <2>1 DEF RefreshInv
    <2>3. RefreshInv'
        BY <1>0, <2>1, <2>2, NoTable DEF RefreshInv, UsersBelow, InScope, UsersOf
    <2>4. UsersBelow(messageRows')
        BY <2>1, NoTable
    <2> QED BY <1>0, <2>1, <2>3, <2>4 DEF MessagesInv, PersistingInv, FreshInv, UsersBelow, InScope
<1>11. CASE save_all_message_models
    <2> DEFINE defs  == refresher.defs
               clash == DOMAIN defs \cap refresher.known \cap DOMAIN messageRows # {}
    <2>1. /\ refresher.pc = "deleted" /\ refresher' = Idle
          /\ messageRows' = IF clash THEN messageRows
                            ELSE [k \in DOMAIN messageRows \cup DOMAIN defs |->
                                    IF k \notin DOMAIN defs THEN messageRows[k]
                                    ELSE IF refresher.usage = {} THEN defs[k]
                                    ELSE UsersOf(refresher.usage, k)]
          /\ fresh' = (refresher.quiet /\ ~clash /\ (refresher.usage # {} \/ defs = <<>>))
          /\ UNCHANGED <<persists, groupFiles, declares, persisting>>
        BY <1>11 DEF save_all_message_models
    <2>2. /\ UsersBelow(defs)
          /\ \A k \in DOMAIN defs : \A m \in UsersOf(refresher.usage, k) : m \in MessageModels /\ InScope(m, k[2])
        BY <1>0, <2>1 DEF RefreshInv, UsersOf
    <2>3. UsersBelow(messageRows')
        <3>1. CASE clash
            BY <1>0, <2>1, <3>1
        <3>2. CASE ~clash
            <4>1. messageRows' = [k \in DOMAIN messageRows' |-> messageRows'[k]]
                  /\ DOMAIN messageRows' = DOMAIN messageRows \cup DOMAIN defs
                BY <2>1, <3>2
            <4>2. \A k \in DOMAIN messageRows' :
                      messageRows'[k] \in {IF k \in DOMAIN defs THEN defs[k] ELSE messageRows[k],
                                           IF k \in DOMAIN defs THEN UsersOf(refresher.usage, k) ELSE messageRows[k]}
                BY <2>1, <3>2
            <4> HIDE DEF defs, clash
            <4> QED BY <1>0, <2>2, <4>1, <4>2 DEF UsersBelow
        <3> QED BY <3>1, <3>2
    <2>4. ASSUME fresh' PROVE \A k \in DOMAIN messageRows' : messageRows'[k] = Finders(declares, DOMAIN messageRows', k)
        <3>1. refresher.quiet /\ ~clash /\ (refresher.usage # {} \/ defs = <<>>)
            BY <2>1, <2>4
        <3>2. /\ DOMAIN messageRows = {}
              /\ \A k \in DOMAIN defs : UsersOf(refresher.usage, k) = Finders(declares, DOMAIN defs, k)
            BY <1>0, <2>1, <3>1 DEF RefreshInv
        <3>3. DOMAIN messageRows' = DOMAIN defs
            BY <2>1, <3>1, <3>2
        <3>4. CASE refresher.usage # {}
            BY <2>1, <3>1, <3>2, <3>3, <3>4
        <3>5. CASE defs = <<>>
            BY <3>3, <3>5, NoTable
        <3> QED BY <3>1, <3>4, <3>5
    <2>5. FreshInv'
        BY <2>1, <2>4 DEF FreshInv
    <2>6. RefreshInv'
        BY <2>1 DEF RefreshInv, Idle
    <2>7. fresh' \in BOOLEAN
        BY <2>1
    <2> QED BY <1>0, <2>1, <2>3, <2>5, <2>6, <2>7 DEF MessagesInv, PersistingInv, UsersBelow, InScope
<1>12. CASE UNCHANGED mdVars
    BY <1>0, <1>12 DEF mdVars, MessagesInv, PersistingInv, RefreshInv, FreshInv, UsersBelow, InScope, UsersOf
<1> QED BY <1>1, <1>2, <1>3, <1>4, <1>5, <1>6, <1>7, <1>8, <1>9, <1>10, <1>11, <1>12 DEF MessageDefinitionsNext

(* Whoever is recorded as a user of a definition is below it, and after a  *)
(* full refresh that nothing disturbed the users are exactly the models    *)
(* that declare the message and have no nearer definition                  *)
(* (save_all_message_models, move_message_between_groups).                 *)
THEOREM DefinitionUsersAreSound == MessageDefinitionsSpec => []DefinitionUsersSound
<1>1. MessagesInv => MessageDefinitionsTypeOK /\ UsersInScope
    BY DEF MessagesInv, MessageDefinitionsTypeOK, UsersInScope, UsersBelow, PersistingInv, RefreshInv
<1>2. MessagesInv => UsageExact
    <2> SUFFICES ASSUME MessagesInv, fresh, NEW k \in DOMAIN messageRows
                 PROVE  messageRows[k] = {m \in MessageModels :
                           /\ k[1] \in declares[m] /\ InScope(m, k[2])
                           /\ ~\E g \in InGroup[k[2]] \ {k[2]} :
                                  InScope(m, g) /\ <<k[1], g>> \in DOMAIN messageRows}
        BY DEF UsageExact
    <2>1. messageRows[k] = Finders(declares, DOMAIN messageRows, k) /\ DOMAIN messageRows \subseteq Keys
        BY DEF MessagesInv, FreshInv, UsersBelow
    <2> QED BY <2>1, NearestIs DEF Finders
<1>3. MessagesInv => DefinitionUsersSound
    BY <1>1, <1>2 DEF DefinitionUsersSound
<1> QED BY <1>3, MessagesStart, MessagesGoOn, PTL DEF MessageDefinitionsSpec

=============================================================================
