--------------------------- MODULE AsyncRPCProofs ---------------------------
(***************************************************************************)
(* Proofs about AsyncRPC, for any operations and any number of workers.    *)
(* The inductive invariant says where an accepted operation can be: a      *)
(* worker holds it, it has ended, or it is ready and still queued, or, once*)
(* the queue is closed, still to be cancelled.                             *)
(***************************************************************************)
EXTENDS AsyncRPC, Integers, TLAPS

States == {"none", "ready", "executing"} \cup Final
Holding == {"found", "main", "start", "run", "unlock"}
Closing == {"closing", "cancelling", "closed", "joining closed", "ended"}
Finishing == {"finishing", "joining", "finished"}

\* Types.
Types ==
    /\ operation_map_ \in SUBSET Ops /\ operation_id_queue_ \in Seq(Ops)
    /\ state_ \in [Ops -> States]
    /\ locked \in SUBSET Locking
    /\ call \in [at : {"none", "built", "pop", "test", "store", "build"},
                op : Ops \cup {None}, todo : {"none", "start", "send"}]
    /\ pc \in [Workers -> {"lock", "wait", "gone"} \cup Holding]
    /\ operation \in [Workers -> Ops \cup {None}]
    /\ owner \in {"none"} \cup Finishing \cup Closing
    /\ toCancel \in SUBSET Ops /\ storing \in Ops \cup {None}
    /\ saplingMigrationOperationId \in Migrations \cup {None}
    /\ accepted \in SUBSET Ops

Queued(o) == \E i \in 1..Len(operation_id_queue_) : operation_id_queue_[i] = o
Held(o) == \E w \in Workers : operation[w] = o

\* The thread that ends the queue, and the flags it has stored.
EndingInv ==
    /\ owner = "none" => ~closed_ /\ ~finish_
    /\ owner \in Finishing => finish_ /\ ~closed_
    /\ owner \in Closing => closed_
    /\ storing # None => owner = "cancelling" /\ storing \in toCancel
    /\ owner \in {"finished", "ended"} => \A w \in Workers : pc[w] = "gone"

\* A worker that has left saw the queue empty or cleared it.
GoneInv ==
    \A w \in Workers : pc[w] = "gone" =>
        (closed_ \/ finish_) /\ operation_id_queue_ = <<>>

\* An operation is in one place: its id is queued once, and one worker has
\* it when its id is not queued any more.
PlaceInv ==
    /\ \A w \in Workers : operation[w] # None <=> pc[w] \in Holding
    /\ \A w, v \in Workers : operation[w] = operation[v] /\ operation[w] # None => w = v
    /\ \A w \in Workers : operation[w] # None =>
          operation[w] \in accepted /\ ~Queued(operation[w])
    /\ \A i, j \in 1..Len(operation_id_queue_) :
          operation_id_queue_[i] = operation_id_queue_[j] => i = j
    /\ \A o \in Ops : Queued(o) => o \in accepted
    /\ \A o \in Ops : state_[o] = "none" => o \notin accepted
    /\ operation_map_ \subseteq accepted /\ toCancel \subseteq accepted

\* Where an accepted operation that has not ended can be.
Pending(o) ==
    /\ state_[o] = "ready" /\ o \in operation_map_
    /\ IF closed_ THEN owner = "closing" \/ (owner = "cancelling" /\ o \in toCancel)
       ELSE Queued(o)

EndInv ==
    /\ \A o \in accepted : Held(o) \/ state_[o] \in Final \/ Pending(o)
    /\ \A w \in Workers : pc[w] = "unlock" => state_[operation[w]] \in Final
    /\ \A o \in Ops : state_[o] = "cancelled" => o \in Migrations \/ closed_

\* What the caller at work knows of its operation: one it has built is not
\* accepted yet, one it cancels is a migration, and one it is about to remove
\* has ended, or a worker runs it although it was cancelled.
CallInv ==
    /\ call.at = "built" => call.op \in Ops \ accepted /\ state_[call.op] = "ready"
    /\ call.at \in {"test", "store"} => call.op \in Migrations \cap accepted
    /\ call.at = "pop" =>
          call.op \in accepted /\ (Held(call.op) \/ state_[call.op] \in Final)

IndInv == /\ Types /\ EndingInv /\ GoneInv /\ PlaceInv /\ EndInv /\ CallInv
          /\ InputsReleased

-----------------------------------------------------------------------------
(***************************************************************************)
(* Queues and notifications.                                               *)
(***************************************************************************)

\* What Append does to the elements of a queue.
LEMMA AppendFacts ==
    ASSUME NEW S, NEW q \in Seq(S), NEW e \in S
    PROVE  /\ Append(q, e) \in Seq(S)
           /\ Len(Append(q, e)) = Len(q) + 1
           /\ \A i \in 1..Len(q) : Append(q, e)[i] = q[i]
           /\ Append(q, e)[Len(q) + 1] = e
OBVIOUS

\* What Head and Tail do to the elements of a queue.
LEMMA TailFacts ==
    ASSUME NEW S, NEW q \in Seq(S), q # <<>>
    PROVE  /\ Tail(q) \in Seq(S) /\ Len(q) \in Nat /\ Len(q) > 0
           /\ Len(Tail(q)) = Len(q) - 1
           /\ \A i \in 1..Len(Tail(q)) : Tail(q)[i] = q[i + 1]
           /\ Head(q) = q[1] /\ Head(q) \in S
OBVIOUS

\* notify_one and notify_all only move workers from the wait set to the lock.
LEMMA NotifyFacts ==
    ASSUME Types, pc' \in NotifyOne \cup {NotifyAll}
    PROVE  /\ pc' \in [Workers -> {"lock", "wait", "gone"} \cup Holding]
           /\ \A w \in Workers : pc'[w] = pc[w] \/ (pc[w] = "wait" /\ pc'[w] = "lock")
<1>1. CASE pc' = NotifyAll
    BY <1>1 DEF Types, NotifyAll, Blocked
<1>2. CASE pc' = pc
    BY <1>2 DEF Types
<1>3. CASE \E w \in Blocked : pc' = [pc EXCEPT ![w] = "lock"]
    BY <1>3 DEF Types, Blocked
<1>4. pc' = NotifyAll \/ pc' = pc \/ \E w \in Blocked : pc' = [pc EXCEPT ![w] = "lock"]
    BY Zenon DEF NotifyOne
<1> QED  BY <1>1, <1>2, <1>3, <1>4

\* addOperation's critical section: the operation becomes pending, or the
\* queue is ending and everything stays.
LEMMA EnqueueFacts ==
    ASSUME Types, GoneInv, NEW o \in Ops, Enqueue(o)
    PROVE  /\ operation_map_' \in SUBSET Ops /\ operation_map_ \subseteq operation_map_'
           /\ operation_id_queue_' \in Seq(Ops) /\ accepted' \in SUBSET Ops
           /\ pc' \in [Workers -> {"lock", "wait", "gone"} \cup Holding]
           /\ \A w \in Workers : pc'[w] = pc[w] \/ (pc[w] = "wait" /\ pc'[w] = "lock")
           /\ \/ /\ closed_ \/ finish_
                 /\ UNCHANGED <<operation_map_, operation_id_queue_, accepted>>
              \/ /\ ~closed_ /\ ~finish_
                 /\ accepted' = accepted \cup {o} /\ operation_map_' = operation_map_ \cup {o}
                 /\ operation_id_queue_' = Append(operation_id_queue_, o)
<1>1. CASE closed_ \/ finish_
    BY <1>1 DEF Enqueue, Types
<1>2. CASE ~(closed_ \/ finish_)
  <2>1. /\ operation_map_' = operation_map_ \cup {o}
        /\ operation_id_queue_' = Append(operation_id_queue_, o)
        /\ accepted' = accepted \cup {o}
        /\ pc' \in NotifyOne
    BY <1>2 DEF Enqueue
  <2>2. operation_id_queue_' \in Seq(Ops)
    BY <2>1, AppendFacts DEF Types
  <2> QED  BY <1>2, <2>1, <2>2, NotifyFacts DEF Types
<1> QED  BY <1>1, <1>2

-----------------------------------------------------------------------------
(***************************************************************************)
(* One lemma per action.                                                   *)
(***************************************************************************)

\* The initial states satisfy the invariant.
LEMMA InitInv == Init => IndInv
<1> SUFFICES ASSUME Init PROVE IndInv
    OBVIOUS
<1>1. Types
    BY OpsAssumption DEF Init, Types, States, Holding, Closing, Finishing, Final, NoCall
<1>2. EndingInv /\ GoneInv
    BY DEF Init, EndingInv, GoneInv, Finishing, Closing
<1>3. PlaceInv
    BY DEF Init, PlaceInv, Holding, Queued
<1>4. EndInv /\ InputsReleased /\ CallInv
    BY DEF Init, EndInv, InputsReleased, Final, CallInv, NoCall
<1> QED  BY <1>1, <1>2, <1>3, <1>4 DEF IndInv

\* The records that say where a caller is.
LEMMA CallFacts ==
    /\ NoCall.at = "none"
    /\ NoCall \in [at : {"none", "built", "pop", "test", "store", "build"},
                   op : Ops \cup {None}, todo : {"none", "start", "send"}]
    /\ \A o \in Ops \cup {None}, place \in {"built", "pop", "build"} :
          /\ At(place, o).at = place /\ At(place, o).op = o
          /\ At(place, o) \in [at : {"none", "built", "pop", "test", "store", "build"},
                               op : Ops \cup {None}, todo : {"none", "start", "send"}]
    /\ \A todo : Afterwards(todo) \in {NoCall, At("build", None)}
BY DEF NoCall, At, Afterwards

\* After a cancellation RunSaplingMigration builds a migration or returns.
LEMMA AfterwardsAt ==
    ASSUME NEW todo
    PROVE  Afterwards(todo).at = "none" \/ Afterwards(todo).at = "build"
BY DEF Afterwards, At, NoCall

\* An operation that is built is new, and its place is with the caller.
LEMMA BuiltInv ==
    ASSUME IndInv, NEW o \in Ops, state_[o] = "none",
           state_' = [state_ EXCEPT ![o] = "ready"], call' = At("built", o),
           locked' = locked \/ locked' = locked \cup {o}, locked' \in SUBSET Locking,
           saplingMigrationOperationId' \in Migrations \cup {None},
           UNCHANGED <<queue, pc, operation, ending, accepted>>
    PROVE  IndInv'
<1> USE DEF IndInv, queue, ending
<1>1. Types'
    BY CallFacts DEF Types, States
<1>2. EndingInv' /\ GoneInv'
    BY DEF EndingInv, GoneInv
<1>3. PlaceInv'
    BY DEF Types, PlaceInv, Queued
<1>4. EndInv'
    BY DEF Types, PlaceInv, EndInv, Held, Pending, Queued, Final
<1>5. CallInv'
    BY CallFacts DEF Types, PlaceInv, CallInv
<1>6. InputsReleased'
    BY DEF Types, InputsReleased
<1> QED  BY <1>1, <1>2, <1>3, <1>4, <1>5, <1>6

\* Building an operation, which may lock its inputs.
LEMMA ConstructInv ==
    ASSUME IndInv, NEW o \in Ops, Construct(o)
    PROVE  IndInv'
<1>1. locked' \in SUBSET Locking /\ (locked' = locked \/ locked' = locked \cup {o})
    BY DEF Construct, IndInv, Types
<1>2. saplingMigrationOperationId' \in Migrations \cup {None}
    BY DEF Construct, IndInv, Types
<1> QED  BY <1>1, <1>2, BuiltInv, Zenon DEF Construct

\* Building a migration.
LEMMA BuildMigrationInv ==
    ASSUME IndInv, NEW o \in Ops, BuildMigration(o)
    PROVE  IndInv'
<1>1. locked' \in SUBSET Locking /\ locked' = locked
    BY DEF BuildMigration, IndInv, Types
<1>2. saplingMigrationOperationId' \in Migrations \cup {None}
    BY DEF BuildMigration
<1> QED  BY <1>1, <1>2, BuiltInv, Zenon DEF BuildMigration

\* Enqueue of a new operation keeps every operation in its place.
LEMMA EnqueueInv ==
    ASSUME IndInv, NEW o \in Ops \ accepted, Enqueue(o), state_[o] = "ready",
           UNCHANGED <<closed_, finish_, state_, operation, ending>>
    PROVE  GoneInv' /\ PlaceInv' /\ EndInv'
<1> USE DEF IndInv, ending
<1> DEFINE q == operation_id_queue_
<1>1. /\ operation_map_' \in SUBSET Ops /\ operation_map_ \subseteq operation_map_'
      /\ operation_id_queue_' \in Seq(Ops) /\ accepted' \in SUBSET Ops
      /\ pc' \in [Workers -> {"lock", "wait", "gone"} \cup Holding]
      /\ \A w \in Workers : pc'[w] = pc[w] \/ (pc[w] = "wait" /\ pc'[w] = "lock")
    BY EnqueueFacts
<1>2. \A w \in Workers : pc'[w] \in Holding \cup {"gone"} <=> pc[w] \in Holding \cup {"gone"}
    BY <1>1 DEF Holding
<1>3. \A w \in Workers : pc'[w] \in Holding \cup {"gone"} => pc'[w] = pc[w]
    BY <1>1 DEF Holding
<1>4. CASE UNCHANGED <<operation_map_, operation_id_queue_, accepted>>
  <2>1. GoneInv'
    BY <1>3, <1>4 DEF GoneInv
  <2>2. PlaceInv'
    BY <1>2, <1>3, <1>4 DEF PlaceInv, Queued, Types, Holding, States
  <2>3. EndInv'
    BY <1>3, <1>4 DEF EndInv, Held, Pending, Queued, Types, Final, PlaceInv, Holding
  <2> QED  BY <2>1, <2>2, <2>3
<1>5. CASE /\ ~closed_ /\ ~finish_
           /\ accepted' = accepted \cup {o} /\ operation_map_' = operation_map_ \cup {o}
           /\ q' = Append(q, o)
  <2>1. /\ Len(q') = Len(q) + 1 /\ Len(q) \in Nat
        /\ \A i \in 1..Len(q) : q'[i] = q[i]
        /\ q'[Len(q) + 1] = o
    BY <1>5, AppendFacts DEF Types
  <2>2. \A p \in Ops : Queued(p)' <=> Queued(p) \/ p = o
    BY <2>1 DEF Queued
  <2>3. ~Queued(o) /\ \A w \in Workers : operation[w] # o
    BY OpsAssumption DEF PlaceInv
  <2>4. GoneInv'
    BY <1>3, <1>5 DEF GoneInv
  <2>5. PlaceInv'
    <3>1. \A i, j \in 1..Len(q') : q'[i] = q'[j] => i = j
        BY <2>1, <2>3 DEF PlaceInv, Queued
    <3>2. \A p \in Ops : state_'[p] = "none" => p \notin accepted'
        BY <1>5 DEF PlaceInv
    <3>3. \A w \in Workers : operation'[w] # None <=> pc'[w] \in Holding
        BY <1>2, <1>3 DEF PlaceInv, Holding
    <3>4. (\A w \in Workers : operation[w] # None =>
              operation[w] \in accepted /\ ~Queued(operation[w]))'
      <4>1. operation' = operation
        BY Zenon
      <4>2. \A w \in Workers : operation[w] # None =>
              operation[w] \in accepted /\ ~Queued(operation[w]) /\ operation[w] \in Ops
        BY DEF PlaceInv, Types
      <4> QED  BY <1>5, <2>2, <2>3, <4>1, <4>2
    <3>5. \A p \in Ops : Queued(p)' => p \in accepted'
        BY <1>5, <2>2 DEF PlaceInv
    <3>6. operation_map_' \subseteq accepted' /\ toCancel' \subseteq accepted'
        BY <1>5 DEF PlaceInv
    <3>7. \A w, v \in Workers :
              operation'[w] = operation'[v] /\ operation'[w] # None => w = v
        BY DEF PlaceInv
    <3> QED  BY <3>1, <3>2, <3>3, <3>4, <3>5, <3>6, <3>7 DEF PlaceInv
  <2>6. EndInv'
    <3>1. \A p \in accepted' : Held(p)' \/ state_'[p] \in Final \/ Pending(p)'
        BY <1>1, <1>5, <2>2 DEF EndInv, Held, Pending, Types, Final
    <3>2. \A w \in Workers : pc'[w] = "unlock" => state_'[operation'[w]] \in Final
        BY <1>3, <2>3 DEF EndInv, Types, Final, PlaceInv, Holding
    <3>3. \A p \in Ops : state_'[p] = "cancelled" => p \in Migrations \/ closed_'
        BY DEF EndInv
    <3> QED  BY <3>1, <3>2, <3>3 DEF EndInv
  <2> QED  BY <2>4, <2>5, <2>6
<1> QED  BY <1>4, <1>5, EnqueueFacts

\* addOperation, which takes or drops a built operation.
LEMMA addOperationInv ==
    ASSUME IndInv, NEW o \in Ops, addOperation(o)
    PROVE  IndInv'
<1> USE DEF IndInv, addOperation, ending
<1>1. o \notin accepted /\ state_[o] = "ready"
    BY CallFacts DEF CallInv
<1>2. Types'
    BY EnqueueFacts, CallFacts DEF Types
<1>3. EndingInv'
    BY EnqueueFacts DEF EndingInv
<1>4. GoneInv' /\ PlaceInv' /\ EndInv'
    BY <1>1, EnqueueInv
<1>5. CallInv'
    BY CallFacts DEF CallInv
<1>6. InputsReleased'
    BY EnqueueFacts DEF InputsReleased, Types
<1> QED  BY <1>2, <1>3, <1>4, <1>5, <1>6

\* A caller moves on and touches nothing else.
LEMMA CallStepInv ==
    ASSUME IndInv, CallInv', UNCHANGED saplingMigrationOperationId,
           call' \in [at : {"none", "built", "pop", "test", "store", "build"},
                     op : Ops \cup {None}, todo : {"none", "start", "send"}],
           UNCHANGED <<queue, state_, locked, pc, operation, ending, accepted>>
    PROVE  IndInv'
<1> USE DEF IndInv, queue, ending
<1>1. Types' /\ EndingInv' /\ GoneInv' /\ InputsReleased'
    BY DEF Types, EndingInv, GoneInv, InputsReleased
<1>2. PlaceInv'
    BY DEF PlaceInv, Queued
<1>3. EndInv'
    BY DEF EndInv, Held, Pending, Queued
<1> QED  BY <1>1, <1>2, <1>3

\* z_getoperationresult finds an operation that has ended.
LEMMA GetStatusInv ==
    ASSUME IndInv, NEW o \in Ops, GetStatus(o)
    PROVE  IndInv'
<1>1. CallInv'
    BY CallFacts DEF GetStatus, CallInv, IndInv, PlaceInv, Held
<1> QED  BY <1>1, CallFacts, CallStepInv DEF GetStatus

\* RunSaplingMigration looks for the last migration.
LEMMA FindLastInv ==
    ASSUME IndInv, NEW todo \in {"start", "send"}, FindLast(todo)
    PROVE  IndInv'
<1>1. CASE saplingMigrationOperationId \in operation_map_
  <2>1. call' = [at |-> "test", op |-> saplingMigrationOperationId, todo |-> todo]
    BY <1>1 DEF FindLast
  <2>2. /\ saplingMigrationOperationId \in Migrations
        /\ saplingMigrationOperationId \in accepted /\ accepted' = accepted
    BY <1>1, OpsAssumption DEF FindLast, IndInv, Types, PlaceInv
  <2>3. CallInv'
    BY <2>1, <2>2 DEF CallInv
  <2> QED  BY <2>1, <2>2, <2>3, CallStepInv, OpsAssumption DEF FindLast
<1>2. CASE saplingMigrationOperationId \notin operation_map_
  <2>1. call' \in {NoCall, At("build", None)}
    BY <1>2, CallFacts DEF FindLast
  <2>2. CallInv'
    BY <2>1, CallFacts DEF CallInv
  <2> QED  BY <2>1, <2>2, CallFacts, CallStepInv DEF FindLast
<1> QED  BY <1>1, <1>2

\* RunSaplingMigration tests the state of the last migration.
LEMMA CancelLastTestInv ==
    ASSUME IndInv, CancelLastTest
    PROVE  IndInv'
<1>1. CASE state_[call.op] = "ready"
  <2>1. call' = [call EXCEPT !.at = "store"] /\ accepted' = accepted /\ call.at = "test"
    BY <1>1 DEF CancelLastTest
  <2>2. CallInv'
    BY <2>1 DEF CallInv, IndInv, Types
  <2> QED  BY <2>1, <2>2, CallStepInv DEF CancelLastTest, IndInv, Types
<1>2. CASE state_[call.op] # "ready"
  <2>1. call' \in {NoCall, At("build", None)}
    BY <1>2, CallFacts DEF CancelLastTest
  <2>2. CallInv'
    BY <2>1, CallFacts DEF CallInv
  <2> QED  BY <2>1, <2>2, CallFacts, CallStepInv DEF CancelLastTest
<1> QED  BY <1>1, <1>2

\* z_getoperationresult forgets an operation that has ended.
LEMMA popOperationForIdInv ==
    ASSUME IndInv, NEW o \in Ops, popOperationForId(o)
    PROVE  IndInv'
<1> USE DEF IndInv, popOperationForId, ending
<1>1. Types' /\ EndingInv' /\ GoneInv' /\ InputsReleased'
    BY CallFacts DEF Types, EndingInv, GoneInv, InputsReleased
<1>2. PlaceInv'
    BY DEF PlaceInv, Queued
<1>3. Held(o) \/ state_[o] \in Final
    BY CallFacts DEF CallInv
<1>4. EndInv'
    BY <1>3 DEF EndInv, Held, Pending, Queued
<1>5. CallInv'
    BY CallFacts DEF CallInv
<1> QED  BY <1>1, <1>2, <1>4, <1>5

\* Where no caller moves, what it knows of its operation stays true while
\* operations that are not accepted keep their state, and one that is held or
\* has ended is held or has ended.
LEMMA CallKept ==
    ASSUME CallInv, UNCHANGED <<call, accepted>>,
           \A o \in Ops \ accepted : state_'[o] = state_[o],
           \A o \in accepted : Held(o) \/ state_[o] \in Final =>
                                Held(o)' \/ state_'[o] \in Final
    PROVE  CallInv'
BY Zenon DEF CallInv

\* A worker under lock_ blocks, leaves, or takes the front of the queue.
LEMMA DequeueInv ==
    ASSUME IndInv, NEW w \in Workers, Dequeue(w)
    PROVE  IndInv'
<1> USE DEF IndInv, ending, callers
<1> DEFINE q == operation_id_queue_
<1>1. /\ pc[w] = "lock" /\ operation[w] = None
      /\ UNCHANGED <<operation_map_, closed_, finish_, state_, locked, callers,
                     ending, accepted>>
    BY DEF Dequeue, PlaceInv, Holding
<1>2. owner \notin {"finished", "ended"}
    BY <1>1 DEF EndingInv
<1>c. ASSUME \A o \in Ops : Held(o) => Held(o)'
      PROVE  CallInv'
    BY <1>1, <1>c, CallKept DEF Types
<1>3. CASE /\ UNCHANGED <<operation_id_queue_, operation>>
           /\ Goto(w, "wait")
  <2>1. Types' /\ EndingInv' /\ GoneInv'
    BY <1>1, <1>2, <1>3 DEF Types, EndingInv, GoneInv, Goto
  <2>2. PlaceInv'
    BY <1>1, <1>3 DEF Types, PlaceInv, Queued, Goto, Holding
  <2>3. EndInv' /\ InputsReleased'
    BY <1>1, <1>3 DEF Types, EndInv, InputsReleased, Held, Pending, Queued, Goto
  <2>4. CallInv'
    BY <1>3, <1>c DEF Held
  <2> QED  BY <2>1, <2>2, <2>3, <2>4
<1>4. CASE /\ MustExit /\ Goto(w, "gone") /\ UNCHANGED operation
           /\ q' = IF finish_ /\ q = <<>> THEN q ELSE <<>>
  <2>1. q' = <<>> /\ (closed_ \/ q' = q) /\ (closed_ \/ finish_)
    BY <1>4 DEF MustExit
  <2>2. Types' /\ EndingInv' /\ GoneInv'
    BY <1>1, <1>2, <1>4, <2>1 DEF Types, EndingInv, GoneInv, Goto
  <2>3. \A o \in Ops : ~Queued(o)'
    BY <2>1 DEF Queued
  <2>4. PlaceInv'
    BY <1>1, <1>4, <2>1, <2>3 DEF Types, PlaceInv, Goto, Holding
  <2>5. EndInv' /\ InputsReleased'
    BY <1>1, <1>4, <2>1 DEF Types, EndInv, InputsReleased, Held, Pending, Queued, Goto
  <2>6. CallInv'
    BY <1>4, <1>c DEF Held
  <2> QED  BY <2>2, <2>4, <2>5, <2>6
<1>5. CASE /\ q # <<>> /\ ~MustExit /\ q' = Tail(q)
           /\ IF Head(q) \in operation_map_
              THEN operation' = [operation EXCEPT ![w] = Head(q)] /\ Goto(w, "found")
              ELSE Goto(w, "lock") /\ UNCHANGED operation
  <2>1. /\ q' \in Seq(Ops) /\ Len(q) \in Nat /\ Len(q) > 0 /\ Len(q') = Len(q) - 1
        /\ \A i \in 1..Len(q') : q'[i] = q[i + 1]
        /\ Head(q) = q[1] /\ Head(q) \in Ops
    BY <1>5, TailFacts DEF Types
  <2>2. \A i, j \in 1..Len(q') : q'[i] = q'[j] => i = j
    BY <2>1, SMTT(30) DEF PlaceInv
  <2>3. \A o \in Ops : Queued(o)' <=> Queued(o) /\ o # Head(q)
    <3>1. ASSUME NEW o \in Ops, NEW i \in 1..Len(q'), q'[i] = o
          PROVE  Queued(o) /\ o # Head(q)
        BY <2>1, <3>1 DEF PlaceInv, Queued
    <3>2. ASSUME NEW o \in Ops, NEW i \in 1..Len(q), q[i] = o, o # Head(q)
          PROVE  Queued(o)'
      <4>1. i - 1 \in 1..Len(q') /\ q'[i - 1] = o
        BY <2>1, <3>2
      <4> QED  BY <4>1 DEF Queued
    <3> QED  BY <3>1, <3>2 DEF Queued
  <2>4. Queued(Head(q)) /\ Head(q) \in accepted /\ ~closed_ /\ Head(q) # None
    BY <1>5, <2>1, OpsAssumption DEF Queued, MustExit, PlaceInv
  <2>5. Types' /\ EndingInv'
    BY <1>1, <1>2, <1>5, <2>1 DEF Types, EndingInv, Goto, Holding
  <2>6. GoneInv'
    BY <1>5 DEF GoneInv, Goto, Types
  <2>7. \A v \in Workers : operation[v] # Head(q)
    <3>1. \A v \in Workers : operation[v] # None => ~Queued(operation[v])
      BY Zenon DEF PlaceInv
    <3> QED  BY <2>4, <3>1, Zenon
  <2>8. CASE Head(q) \in operation_map_
    <3>1. PlaceInv'
      BY <1>1, <1>5, <2>2, <2>3, <2>4, <2>7, <2>8, SMTT(40) DEF PlaceInv, Types, Goto, Holding
    <3>2. \A o \in Ops : Held(o)' <=> Held(o) \/ o = Head(q)
        BY <1>1, <1>5, <2>8, OpsAssumption DEF Held, Types
    <3>3. EndInv'
        BY <1>1, <1>5, <2>3, <2>8, <3>2 DEF EndInv, Pending, Types, Goto
    <3>4. InputsReleased'
        BY <1>1, <1>5, <2>8 DEF InputsReleased, Types, Goto
    <3>5. CallInv'
        BY <1>c, <3>2
    <3> QED  BY <2>5, <2>6, <3>1, <3>3, <3>4, <3>5
  <2>9. CASE Head(q) \notin operation_map_
    <3>1. PlaceInv'
        BY <1>1, <1>5, <2>2, <2>3, <2>9 DEF PlaceInv, Types, Goto, Holding
    <3>2. EndInv' /\ InputsReleased'
        BY <1>1, <1>5, <2>3, <2>9 DEF EndInv, InputsReleased, Held, Pending, Types, Goto
    <3>3. CallInv'
        BY <1>5, <1>c, <2>9 DEF Held
    <3> QED  BY <2>5, <2>6, <3>1, <3>2, <3>3
  <2> QED  BY <2>8, <2>9
<1> QED  BY <1>3, <1>4, <1>5 DEF Dequeue

\* A worker lets go of an operation that has ended.
LEMMA AgainInv ==
    ASSUME IndInv, NEW w \in Workers, Again(w), pc[w] \in Holding,
           state_[operation[w]] \in Final, locked' \subseteq locked,
           UNCHANGED <<queue, state_, callers, ending, accepted>>
    PROVE  Types' /\ EndingInv' /\ GoneInv' /\ PlaceInv' /\ EndInv' /\ CallInv'
<1> USE DEF IndInv, Again, Goto, queue, callers, ending
<1>1. Types'
    BY DEF Types, Holding
<1>2. EndingInv' /\ GoneInv'
    BY DEF Types, EndingInv, GoneInv, Holding
<1>3. PlaceInv'
    BY DEF Types, PlaceInv, Queued, Holding
<1>4. \A o \in accepted : Held(o) => Held(o)' \/ state_[o] \in Final
    BY DEF Types, Held
<1>5. EndInv'
  <2>1. \A o \in accepted : Pending(o) => Pending(o)'
    BY DEF Pending, Queued
  <2>2. (\A o \in accepted : Held(o) \/ state_[o] \in Final \/ Pending(o))'
    BY <1>4, <2>1 DEF EndInv
  <2>3. \A v \in Workers : pc'[v] = "unlock" => pc[v] = "unlock" /\ v # w
    BY DEF Types
  <2>4. (\A v \in Workers : pc[v] = "unlock" => state_[operation[v]] \in Final)'
    BY <2>3 DEF EndInv, Types
  <2> QED  BY <2>2, <2>4 DEF EndInv
<1>6. CallInv'
    BY <1>4, CallKept
<1> QED  BY <1>1, <1>2, <1>3, <1>5, <1>6

\* A worker goes on with the operation it has, to another place of main().
LEMMA GotoInv ==
    ASSUME IndInv, NEW w \in Workers, pc[w] \in Holding,
           NEW place \in Holding \ {"unlock"}, Goto(w, place),
           UNCHANGED <<queue, state_, callers, ending, accepted, operation>>,
           locked' \subseteq locked
    PROVE  Types' /\ EndingInv' /\ GoneInv' /\ PlaceInv' /\ EndInv' /\ CallInv'
<1> USE DEF IndInv, Goto, queue, callers, ending
<1>1. Types'
    BY DEF Types
<1>2. EndingInv' /\ GoneInv'
    BY DEF Types, EndingInv, GoneInv, Holding
<1>3. PlaceInv'
    BY DEF Types, PlaceInv, Queued
<1>4. EndInv'
    BY DEF EndInv, Types, Held, Pending, Queued
<1>5. CallInv'
    BY CallKept DEF Held
<1> QED  BY <1>1, <1>2, <1>3, <1>4, <1>5

\* A worker skips a cancelled operation or calls main().
LEMMA DispatchInv ==
    ASSUME IndInv, NEW w \in Workers, Dispatch(w)
    PROVE  IndInv'
<1> USE DEF IndInv, Dispatch, queue
<1>1. CASE state_[operation[w]] = "cancelled"
  <2>1. Types' /\ EndingInv' /\ GoneInv' /\ PlaceInv' /\ EndInv' /\ CallInv'
    BY <1>1, AgainInv DEF Final, Holding
  <2>2. InputsReleased'
    BY <1>1 DEF InputsReleased, Types, Again, Goto
  <2> QED  BY <2>1, <2>2
<1>2. CASE state_[operation[w]] # "cancelled"
  <2>1. Types' /\ EndingInv' /\ GoneInv' /\ PlaceInv' /\ EndInv' /\ CallInv'
    BY <1>2, GotoInv DEF Holding
  <2>2. InputsReleased'
    BY <1>2 DEF InputsReleased, Types, Goto
  <2> QED  BY <2>1, <2>2
<1> QED  BY <1>1, <1>2, Zenon

\* main() returns for an operation cancelled meanwhile, or goes on.
LEMMA MainTestInv ==
    ASSUME IndInv, NEW w \in Workers, MainTest(w)
    PROVE  IndInv'
<1> USE DEF IndInv, MainTest, queue
<1>1. CASE state_[operation[w]] = "cancelled"
  <2>1. Types' /\ EndingInv' /\ GoneInv' /\ PlaceInv' /\ EndInv' /\ CallInv'
    BY <1>1, AgainInv DEF Final, Holding
  <2>2. InputsReleased'
    BY <1>1 DEF InputsReleased, Types, Again, Goto
  <2> QED  BY <2>1, <2>2
<1>2. CASE state_[operation[w]] # "cancelled"
  <2>1. Types' /\ EndingInv' /\ GoneInv' /\ PlaceInv' /\ EndInv' /\ CallInv'
    BY <1>2, GotoInv DEF Holding
  <2>2. InputsReleased'
    BY <1>2 DEF InputsReleased, Types, Goto
  <2> QED  BY <2>1, <2>2
<1> QED  BY <1>1, <1>2

\* main() stores "executing", over whatever state the operation has.
LEMMA MainStartInv ==
    ASSUME IndInv, NEW w \in Workers, MainStart(w)
    PROVE  IndInv'
<1> USE DEF IndInv, MainStart, Goto, queue, callers, ending
<1>1. /\ operation[w] \in accepted /\ operation[w] \in Ops
      /\ \A v \in Workers : operation[v] = operation[w] => v = w
    BY DEF PlaceInv, Types, Holding
<1>2. Types' /\ EndingInv' /\ GoneInv'
    BY <1>1 DEF Types, EndingInv, GoneInv, States, Holding
<1>3. PlaceInv'
    BY <1>1 DEF Types, PlaceInv, Queued, Holding
<1>4. Held(operation[w])'
    BY DEF Held
<1>5. EndInv'
    BY <1>1, <1>4 DEF EndInv, Types, Held, Pending, Queued
<1>6. InputsReleased'
    BY <1>1 DEF InputsReleased, Types
<1>7. CallInv'
    BY <1>1, <1>4, CallKept DEF Held, Types
<1> QED  BY <1>2, <1>3, <1>5, <1>6, <1>7

\* The work of an operation ends in success or failure.
LEMMA MainEndInv ==
    ASSUME IndInv, NEW w \in Workers, MainEnd(w)
    PROVE  IndInv'
<1> USE DEF IndInv, MainEnd, Goto, queue, callers, ending
<1>1. /\ operation[w] \in accepted /\ operation[w] \in Ops
      /\ \A v \in Workers : operation[v] = operation[w] => v = w
    BY DEF PlaceInv, Types, Holding
<1>2. PICK result \in {"success", "failed"} :
          state_' = [state_ EXCEPT ![operation[w]] = result]
    BY Zenon
<1>3. Types' /\ EndingInv' /\ GoneInv'
    BY <1>1, <1>2 DEF Types, EndingInv, GoneInv, States, Final, Holding
<1>4. PlaceInv'
    BY <1>1, <1>2 DEF Types, PlaceInv, Queued, Holding
<1>5. EndInv'
    BY <1>1, <1>2 DEF EndInv, Types, Held, Pending, Queued, Final, PlaceInv, Holding
<1>6. InputsReleased'
    BY <1>1, <1>2 DEF InputsReleased, Types
<1>7. CallInv'
    BY <1>1, <1>2, CallKept DEF Held, Types
<1> QED  BY <1>3, <1>4, <1>5, <1>6, <1>7

\* main() unlocks the inputs of an operation that has ended.
LEMMA MainUnlockInv ==
    ASSUME IndInv, NEW w \in Workers, MainUnlock(w)
    PROVE  IndInv'
<1> USE DEF IndInv, MainUnlock, Unlock
<1>1. Types' /\ EndingInv' /\ GoneInv' /\ PlaceInv' /\ EndInv' /\ CallInv'
    BY AgainInv DEF EndInv, Holding
<1>2. InputsReleased'
    BY DEF InputsReleased, Types, Again, Goto, queue
<1> QED  BY <1>1, <1>2

\* A step of the ending thread that wakes workers or moves on changes
\* nothing an operation's place depends on.
LEMMA WakeInv ==
    ASSUME IndInv, EndingInv',
           pc' \in [Workers -> {"lock", "wait", "gone"} \cup Holding],
           \A w \in Workers : pc'[w] = pc[w] \/ (pc[w] = "wait" /\ pc'[w] = "lock"),
           UNCHANGED <<queue, state_, locked, callers, operation, accepted>>,
           owner' \in {"none"} \cup Finishing \cup Closing,
           toCancel' \in SUBSET accepted, storing' \in Ops \cup {None},
           \A o \in accepted : Pending(o) => Held(o) \/ state_[o] \in Final \/ Pending(o)'
    PROVE  IndInv'
<1> USE DEF IndInv, queue, callers
<1>1. Types'
    BY DEF Types
<1>2. \A w \in Workers : pc'[w] \in Holding \cup {"gone"} <=> pc[w] \in Holding \cup {"gone"}
    BY DEF Holding
<1>3. \A w \in Workers : pc'[w] \in Holding \cup {"gone"} => pc'[w] = pc[w]
    BY DEF Holding
<1>4. GoneInv'
    BY <1>3 DEF GoneInv
<1>5. PlaceInv'
    BY <1>2, <1>3 DEF PlaceInv, Queued, Types, Holding
<1>6. EndInv'
    BY <1>3 DEF EndInv, Held, Types, Holding
<1>7. InputsReleased'
    BY <1>3 DEF InputsReleased, Types
<1>8. CallInv'
    BY CallKept DEF Held
<1> QED  BY <1>1, <1>4, <1>5, <1>6, <1>7, <1>8

\* A worker wakes up for no reason.
LEMMA SpuriousWakeupInv ==
    ASSUME IndInv, NEW w \in Workers, SpuriousWakeup(w)
    PROVE  IndInv'
<1> USE DEF IndInv, SpuriousWakeup, Goto, ending
<1>1. EndingInv'
    BY DEF EndingInv, Types, queue
<1>2. \A o \in accepted : Pending(o) => Pending(o)'
    BY Zenon DEF Pending, Queued, queue
<1> QED  BY <1>1, <1>2, WakeInv DEF Types, PlaceInv

\* finish() stores its flag without the lock.
LEMMA finishInv ==
    ASSUME IndInv, finish
    PROVE  IndInv'
<1> USE DEF IndInv, finish, callers
<1>1. Types' /\ EndingInv' /\ GoneInv'
    BY DEF Types, EndingInv, GoneInv, Finishing, Closing
<1>2. PlaceInv'
    BY DEF PlaceInv, Queued
<1>3. EndInv'
    BY DEF EndInv, EndingInv, Held, Pending, Queued
<1>4. InputsReleased'
    BY DEF InputsReleased
<1>5. CallInv'
    BY CallKept DEF Held
<1> QED  BY <1>1, <1>2, <1>3, <1>4, <1>5

\* close() stores its flag without the lock.
LEMMA closeInv ==
    ASSUME IndInv, close
    PROVE  IndInv'
<1> USE DEF IndInv, close, callers
<1>1. Types' /\ EndingInv' /\ GoneInv'
    BY Zenon DEF Types, EndingInv, GoneInv, Finishing, Closing
<1>2. PlaceInv'
    BY DEF PlaceInv, Queued
<1>3. EndInv'
    BY DEF EndInv, EndingInv, Held, Pending, Queued, Finishing
<1>4. InputsReleased'
    BY DEF InputsReleased
<1>5. CallInv'
    BY CallKept DEF Held
<1> QED  BY <1>1, <1>2, <1>3, <1>4, <1>5

\* cancelAllOperations takes the lock and the list of operations.
LEMMA cancelAllOperationsInv ==
    ASSUME IndInv, cancelAllOperations
    PROVE  IndInv'
<1> USE DEF IndInv, cancelAllOperations
<1>1. EndingInv'
    BY DEF EndingInv, Finishing, Closing, Types, queue
<1>2. \A o \in accepted : Pending(o) => Pending(o)'
    BY DEF Pending, EndingInv, Closing, queue
<1> QED  BY <1>1, <1>2, WakeInv DEF Types, PlaceInv, Closing

\* cancel() tests the state of an operation.
LEMMA CancelTestInv ==
    ASSUME IndInv, NEW o \in Ops, CancelTest(o)
    PROVE  IndInv'
<1> USE DEF IndInv, CancelTest
<1>1. EndingInv'
    BY DEF EndingInv, Finishing, Closing, Types, queue
<1>2. \A p \in accepted : Pending(p) => Pending(p)'
    BY Zenon DEF Pending, Queued, EndingInv, Closing, queue
<1> QED  BY <1>1, <1>2, WakeInv DEF Types, PlaceInv

\* cancel() stores, although a worker may have moved on.
LEMMA CancelStoreInv ==
    ASSUME IndInv, CancelStore
    PROVE  IndInv'
<1> USE DEF IndInv, CancelStore, queue, callers
<1>1. storing \in Ops /\ storing \in accepted /\ closed_
    BY DEF Types, EndingInv, PlaceInv, Closing
<1>2. Types' /\ EndingInv' /\ GoneInv'
    BY <1>1 DEF Types, EndingInv, GoneInv, States, Final
<1>3. PlaceInv'
    BY <1>1 DEF Types, PlaceInv, Queued
<1>4. EndInv'
    BY <1>1 DEF Types, EndInv, Held, Pending, Final, PlaceInv, Holding
<1>5. InputsReleased'
    BY <1>1, Zenon DEF InputsReleased
<1>6. CallInv'
    BY <1>1, CallKept DEF Held, Types, Final
<1> QED  BY <1>2, <1>3, <1>4, <1>5, <1>6

\* RunSaplingMigration stores the cancellation of the last migration, which
\* locks no inputs.
LEMMA CancelLastStoreInv ==
    ASSUME IndInv, CancelLastStore
    PROVE  IndInv'
<1> USE DEF IndInv, CancelLastStore, queue, ending
<1>1. call.op \in Ops /\ call.op \in accepted /\ call.op \in Migrations
    BY OpsAssumption DEF CallInv
<1>2. call' \in {NoCall, At("build", None)}
    BY CallFacts
<1>3. Types' /\ EndingInv' /\ GoneInv'
    BY <1>1, <1>2, CallFacts DEF Types, EndingInv, GoneInv, States, Final
<1>4. PlaceInv'
    BY <1>1 DEF Types, PlaceInv, Queued
<1>5. EndInv'
    BY <1>1 DEF Types, EndInv, Held, Pending, Queued, Final, PlaceInv, Holding
<1>6. InputsReleased'
    BY <1>1, OpsAssumption DEF InputsReleased, Types
<1>7. call'.at = "none" \/ call'.at = "build"
    BY AfterwardsAt, Zenon
<1>8. CallInv'
    BY <1>7 DEF CallInv
<1> QED  BY <1>3, <1>4, <1>5, <1>6, <1>8

\* cancelAllOperations lets the lock go and notifies.
LEMMA CancelDoneInv ==
    ASSUME IndInv, CancelDone
    PROVE  IndInv'
<1> USE DEF IndInv, CancelDone
<1>1. EndingInv'
    BY NotifyFacts, Zenon DEF EndingInv, Finishing, Closing, Types, queue
<1>2. \A o \in accepted : ~Pending(o)
    BY DEF Pending, EndingInv, Closing
<1> QED  BY <1>1, <1>2, WakeInv, NotifyFacts, Zenon DEF Types, PlaceInv, Closing

\* wait_for_worker_threads notifies.
LEMMA WaitForWorkersInv ==
    ASSUME IndInv, WaitForWorkers
    PROVE  IndInv'
<1> USE DEF IndInv, WaitForWorkers, WakeWorkers
<1>1. EndingInv'
    BY NotifyFacts, Zenon DEF EndingInv, Finishing, Closing, Types, queue
<1>2. \A o \in accepted : Pending(o) => Pending(o)'
    BY Zenon DEF Pending, Queued, EndingInv, Closing, Finishing, queue
<1> QED  BY <1>1, <1>2, WakeInv, NotifyFacts, Zenon DEF Types, PlaceInv, Closing, Finishing

\* The ending thread has joined every worker.
LEMMA JoinInv ==
    ASSUME IndInv, Join
    PROVE  IndInv'
<1> USE DEF IndInv, Join
<1>1. EndingInv'
    BY Zenon DEF EndingInv, Finishing, Closing, Types, queue
<1>2. \A o \in accepted : Pending(o) => Pending(o)'
    BY Zenon DEF Pending, Queued, EndingInv, Closing, Finishing, queue
<1> QED  BY <1>1, <1>2, WakeInv, Zenon DEF Types, PlaceInv, Closing, Finishing

\* A step that changes nothing.
LEMMA StutterInv ==
    ASSUME IndInv, UNCHANGED vars
    PROVE  IndInv'
<1> USE DEF IndInv, vars, queue, callers, ending
<1>1. Types'
    BY DEF Types
<1>2. EndingInv' /\ GoneInv'
    BY DEF EndingInv, GoneInv
<1>3. InputsReleased'
    BY DEF InputsReleased
<1>4. PlaceInv'
    BY DEF PlaceInv, Queued
<1>5. EndInv'
    BY DEF EndInv, Held, Pending, Queued
<1>6. CallInv'
    BY CallKept DEF Held
<1> QED  BY <1>1, <1>2, <1>3, <1>4, <1>5, <1>6

\* Every reachable state satisfies the inductive invariant.
THEOREM Invariance == Spec => []IndInv
<1>1. IndInv /\ [Next]_vars => IndInv'
  <2> SUFFICES ASSUME IndInv, [Next]_vars PROVE IndInv'
    OBVIOUS
  <2>1. ASSUME NEW o \in Ops, Construct(o) \/ GetStatus(o)
        PROVE  IndInv'
    BY <2>1, ConstructInv, GetStatusInv
  <2>2. ASSUME NEW todo \in {"start", "send"}, FindLast(todo)
        PROVE  IndInv'
    BY <2>2, FindLastInv
  <2>3. ASSUME NEW w \in Workers, run(w) \/ SpuriousWakeup(w)
        PROVE  IndInv'
    BY <2>3, DequeueInv, DispatchInv, MainTestInv, MainStartInv, MainEndInv,
       MainUnlockInv, SpuriousWakeupInv DEF run
  <2>4. CASE finish \/ close
    BY <2>4, finishInv, closeInv
  <2>5. CASE Ending
    BY <2>5, cancelAllOperationsInv, CancelTestInv, CancelStoreInv, CancelDoneInv,
       WaitForWorkersInv, JoinInv DEF Ending
  <2>6. CASE UNCHANGED vars
    BY <2>6, StutterInv
  <2>7. CASE Calling
    BY <2>7, addOperationInv, popOperationForIdInv, BuildMigrationInv,
       CancelLastTestInv, CancelLastStoreInv DEF Calling
  <2> QED  BY <2>1, <2>2, <2>3, <2>4, <2>5, <2>6, <2>7 DEF Next
<1> QED  BY <1>1, InitInv, PTL DEF Spec

\* Once every worker has left, nothing is held and nothing is queued, so
\* what is accepted has ended: the invariant implies DoneAfterWait.
LEMMA DoneAfterWaitFromInv == IndInv => DoneAfterWait
<1> SUFFICES ASSUME IndInv, owner \in {"finished", "ended"}
             PROVE  DoneAfterWait
    BY DEF DoneAfterWait
<1> USE DEF IndInv
<1>1. PICK w \in Workers : TRUE
    BY WorkersAssumption
<1>2. operation_id_queue_ = <<>>
    BY <1>1 DEF EndingInv, GoneInv
<1>3. \A o \in accepted : ~Held(o)
  <2>1. \A v \in Workers : pc[v] = "gone"
    BY DEF EndingInv
  <2>2. \A v \in Workers : operation[v] = None
    BY <2>1 DEF PlaceInv, Holding
  <2> QED  BY <2>2, OpsAssumption DEF Held, Types
<1>4. \A o \in accepted : ~Queued(o)
    BY <1>2 DEF Queued
<1>5. \A o \in accepted : ~Pending(o)
  <2>1. CASE owner = "finished"
    BY <1>4, <2>1 DEF Pending, EndingInv, Finishing
  <2>2. CASE owner = "ended"
    BY <2>2 DEF Pending, EndingInv, Closing
  <2> QED  BY <2>1, <2>2
<1>6. \A o \in accepted : state_[o] \in Final
    BY <1>3, <1>5, Zenon DEF EndInv
<1>7. owner = "finished" => \A o \in accepted \ Migrations : state_[o] # "cancelled"
    BY Zenon DEF EndInv, EndingInv, Finishing, Types
<1> QED  BY <1>2, <1>6, <1>7 DEF DoneAfterWait, Final

\* finishAndWait and closeAndWait return only when every operation that
\* addOperation accepted has ended, for any operations and workers.
THEOREM DoneAfterWaitHolds == Spec => []DoneAfterWait
BY Invariance, DoneAfterWaitFromInv, PTL

\* Until the queue is ended, no outcome of an operation leaves its inputs
\* locked, for any operations and workers.
THEOREM InputsReleasedHolds == Spec => []InputsReleased
<1>1. IndInv => InputsReleased
    BY DEF IndInv
<1> QED  BY <1>1, Invariance, PTL
=============================================================================
