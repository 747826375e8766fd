------------------------------ MODULE AsyncRPC ------------------------------
(***************************************************************************)
(* The queue of asynchronous RPC operations (src/src/asyncrpcqueue.cpp,    *)
(* asyncrpcoperation.cpp) and the life of the wallet operations it runs:   *)
(* an RPC handler builds an operation and adds it, a worker thread runs    *)
(* it, z_getoperationresult hands its result out and forgets it, and       *)
(* closeAndWait (StopRPC, the destructor) or finishAndWait ends the queue. *)
(*                                                                         *)
(* A step is one critical section of the queue's lock_, or one load or     *)
(* store of an operation's atomic state_ outside it: cancel() tests and    *)
(* stores in two steps, and so does main().  cancelAllOperations keeps     *)
(* lock_ over several of those steps.  The work of an operation is its     *)
(* outcome; z_mergetoaddress and z_shieldcoinbase (`Locking') lock their   *)
(* inputs in the constructor.  A Sapling migration (`Migrations') is built *)
(* by the wallet itself, which also cancels the one before it.  cancel()   *)
(* is not virtual and is called through base pointers, so for a migration  *)
(* too it is the base class's, not the one its class defines.  The list of *)
(* transactions a migration leaves for the wallet to send is left out.     *)
(*                                                                         *)
(* The RPC handlers and RunSaplingMigration hold cs_main while they work,  *)
(* so one of them is at work at a time: `call' says where it is.           *)
(***************************************************************************)
EXTENDS Naturals, Sequences, FiniteSets

CONSTANTS Ops,      \* the operations RPC handlers may build
          Locking,  \* those that lock their inputs in the wallet
          Migrations, \* those RunSaplingMigration builds
          Workers,  \* the worker threads (one in the node)
          MaxBuilt, \* bound on the operations built
          None      \* no operation

ASSUME OpsAssumption == /\ Locking \subseteq Ops /\ Migrations \subseteq Ops
                        /\ Locking \cap Migrations = {} /\ None \notin Ops
ASSUME WorkersAssumption == Workers # {}
ASSUME BoundAssumption == MaxBuilt \in Nat

VARIABLES operation_map_,       \* operations the queue knows
          operation_id_queue_,  \* ids waiting for a worker
          closed_, finish_,     \* the two atomic flags
          state_,               \* state of each operation ("none": not built)
          locked,               \* operations whose inputs are locked
          call,                 \* the caller that holds cs_main, see NoCall
          pc, operation,        \* each worker's place and its operation
          owner, toCancel, storing, \* the thread that ends the queue
          saplingMigrationOperationId, \* the wallet's last migration
          accepted              \* history: operations addOperation took

queue == <<operation_map_, operation_id_queue_, closed_, finish_>>
callers == <<call, saplingMigrationOperationId>>
ending == <<owner, toCancel, storing>>
vars == <<queue, state_, locked, callers, pc, operation, ending, accepted>>

Final == {"success", "failed", "cancelled"}

\* Where the caller is ("none": there is none), its operation, and whether
\* RunSaplingMigration is to start a migration or to send one.
NoCall == [at |-> "none", op |-> None, todo |-> "none"]
At(place, o) == [NoCall EXCEPT !.at = place, !.op = o]

Init ==
    /\ operation_map_ = {} /\ operation_id_queue_ = <<>>
    /\ closed_ = FALSE /\ finish_ = FALSE
    /\ state_ = [o \in Ops |-> "none"]
    /\ locked = {} /\ call = NoCall
    /\ pc = [w \in Workers |-> "lock"]
    /\ operation = [w \in Workers |-> None]
    /\ owner = "none" /\ toCancel = {} /\ storing = None
    /\ saplingMigrationOperationId = None /\ accepted = {}

\* lock_ is held across steps only by cancelAllOperations.
LockFree == owner # "cancelling"

\* Workers blocked on condition_; a woken one takes the lock and tests again.
Blocked == {w \in Workers : pc[w] = "wait"}

NotifyOne == IF Blocked = {} THEN {pc}
             ELSE {[pc EXCEPT ![w] = "lock"] : w \in Blocked}

NotifyAll == [w \in Workers |-> IF w \in Blocked THEN "lock" ELSE pc[w]]

Goto(w, place) == pc' = [pc EXCEPT ![w] = place]

\* The end of an iteration of run(): its shared_ptr goes out of scope.
Again(w) == Goto(w, "lock") /\ operation' = [operation EXCEPT ![w] = None]

MayBuild == Cardinality({o \in Ops : state_[o] # "none"}) < MaxBuilt

(***************************************************************************)
(* RPC handlers.                                                           *)
(***************************************************************************)

\* The handler constructs the operation; its inputs are locked at once.
Construct(o) ==
    /\ call = NoCall /\ MayBuild
    /\ o \notin Migrations /\ state_[o] = "none"
    /\ state_' = [state_ EXCEPT ![o] = "ready"]
    /\ call' = At("built", o)
    /\ locked' = locked \cup ({o} \cap Locking)
    /\ UNCHANGED <<queue, pc, operation, ending, saplingMigrationOperationId,
                   accepted>>

\* Mutated form of Enqueue: no worker is notified.
EnqueueSilently(o) ==
    IF closed_ \/ finish_
    THEN UNCHANGED <<operation_map_, operation_id_queue_, accepted, pc>>
    ELSE /\ operation_map_' = operation_map_ \cup {o}
         /\ operation_id_queue_' = Append(operation_id_queue_, o)
         /\ accepted' = accepted \cup {o}
         /\ UNCHANGED pc

\* What addOperation does under lock_; a queue that is ending drops the
\* operation without telling its caller.
Enqueue(o) ==
    IF closed_ \/ finish_
    THEN UNCHANGED <<operation_map_, operation_id_queue_, accepted, pc>>
    ELSE /\ operation_map_' = operation_map_ \cup {o}
         /\ operation_id_queue_' = Append(operation_id_queue_, o)
         /\ accepted' = accepted \cup {o}
         /\ pc' \in NotifyOne

addOperation(o) ==
    /\ call = At("built", o) /\ LockFree
    /\ call' = NoCall
    /\ Enqueue(o)
    /\ UNCHANGED <<closed_, finish_, state_, locked, operation, ending,
                   saplingMigrationOperationId>>

\* z_getoperationresult finds that an operation the queue knows has ended.
GetStatus(o) ==
    /\ call = NoCall /\ o \in operation_map_ /\ state_[o] \in Final
    /\ call' = At("pop", o)
    /\ UNCHANGED <<queue, state_, locked, pc, operation, ending,
                   saplingMigrationOperationId, accepted>>

\* It hands the result out and removes the operation, whose id may still be
\* queued.
popOperationForId(o) ==
    /\ call = At("pop", o) /\ LockFree
    /\ operation_map_' = operation_map_ \ {o}
    /\ call' = NoCall
    /\ UNCHANGED <<operation_id_queue_, closed_, finish_, state_, locked,
                   saplingMigrationOperationId, pc, operation, ending, accepted>>

(***************************************************************************)
(* RunSaplingMigration: 5 blocks before a batch is due ("start") the last  *)
(* migration is cancelled and a new one is built and added; 1 block before *)
(* ("send") it is cancelled and what it has built is sent.                 *)
(***************************************************************************)
Afterwards(todo) == IF todo = "start" THEN At("build", None) ELSE NoCall

\* getOperationForId looks for the last migration.
FindLast(todo) ==
    /\ call = NoCall /\ LockFree
    /\ todo = "start" => MayBuild /\ \E o \in Migrations : state_[o] = "none"
    /\ call' = IF saplingMigrationOperationId \in operation_map_
               THEN [at |-> "test", op |-> saplingMigrationOperationId, todo |-> todo]
               ELSE Afterwards(todo)
    /\ UNCHANGED <<queue, state_, locked, pc, operation, ending,
                   saplingMigrationOperationId, accepted>>

\* cancel(), the test.
CancelLastTest ==
    /\ call.at = "test"
    /\ call' = IF state_[call.op] = "ready" THEN [call EXCEPT !.at = "store"]
               ELSE Afterwards(call.todo)
    /\ UNCHANGED <<queue, state_, locked, pc, operation, ending,
                   saplingMigrationOperationId, accepted>>

\* cancel(), the store.
CancelLastStore ==
    /\ call.at = "store"
    /\ state_' = [state_ EXCEPT ![call.op] = "cancelled"]
    /\ call' = Afterwards(call.todo)
    /\ UNCHANGED <<queue, locked, pc, operation, ending,
                   saplingMigrationOperationId, accepted>>

BuildMigration(o) ==
    /\ call.at = "build" /\ o \in Migrations /\ state_[o] = "none"
    /\ state_' = [state_ EXCEPT ![o] = "ready"]
    /\ saplingMigrationOperationId' = o
    /\ call' = At("built", o)
    /\ UNCHANGED <<queue, locked, pc, operation, ending, accepted>>

(***************************************************************************)
(* A worker: run() and the main() it calls.                                *)
(***************************************************************************)

\* Mutated form of MustExit: a finishing queue no longer drains.
MustExitAtOnce == finish_ \/ closed_

\* Both tests that leave the loop.
MustExit == (finish_ /\ operation_id_queue_ = <<>>) \/ closed_

\* run() under lock_: block, leave, or take the operation at the front.
Dequeue(w) ==
    /\ pc[w] = "lock" /\ LockFree
    /\ \/ /\ operation_id_queue_ = <<>> /\ ~closed_ /\ ~finish_
          /\ Goto(w, "wait")
          /\ UNCHANGED <<operation_id_queue_, operation>>
       \/ /\ MustExit
          /\ operation_id_queue_' =
               IF finish_ /\ operation_id_queue_ = <<>>
               THEN operation_id_queue_ ELSE <<>>
          /\ Goto(w, "gone")
          /\ UNCHANGED operation
       \/ /\ operation_id_queue_ # <<>> /\ ~MustExit
          /\ operation_id_queue_' = Tail(operation_id_queue_)
          /\ LET o == Head(operation_id_queue_)
             IN  IF o \in operation_map_
                 THEN /\ operation' = [operation EXCEPT ![w] = o]
                      /\ Goto(w, "found")
                 ELSE /\ Goto(w, "lock") /\ UNCHANGED operation
    /\ UNCHANGED <<operation_map_, closed_, finish_, state_, locked, callers,
                   ending, accepted>>

\* run() without the lock: a cancelled operation is skipped.
Dispatch(w) ==
    /\ pc[w] = "found"
    /\ IF state_[operation[w]] = "cancelled" THEN Again(w)
       ELSE Goto(w, "main") /\ UNCHANGED operation
    /\ UNCHANGED <<queue, state_, locked, callers, ending, accepted>>

\* main(): one cancelled meanwhile unlocks its inputs and returns.
MainTest(w) ==
    /\ pc[w] = "main"
    /\ IF state_[operation[w]] = "cancelled"
       THEN locked' = locked \ {operation[w]} /\ Again(w)
       ELSE UNCHANGED <<locked, operation>> /\ Goto(w, "start")
    /\ UNCHANGED <<queue, state_, callers, ending, accepted>>

MainStart(w) ==
    /\ pc[w] = "start"
    /\ state_' = [state_ EXCEPT ![operation[w]] = "executing"]
    /\ Goto(w, "run")
    /\ UNCHANGED <<queue, locked, callers, operation, ending, accepted>>

\* main_impl returns or throws; every exception is caught.
MainEnd(w) ==
    /\ pc[w] = "run"
    /\ \E result \in {"success", "failed"} :
          state_' = [state_ EXCEPT ![operation[w]] = result]
    /\ Goto(w, "unlock")
    /\ UNCHANGED <<queue, locked, callers, operation, ending, accepted>>

\* Mutated form of Unlock: only a success unlocks.
UnlockOnSuccess(w) ==
    IF state_[operation[w]] = "success" THEN locked' = locked \ {operation[w]}
    ELSE UNCHANGED locked

\* unlock_utxos and unlock_notes.
Unlock(w) == locked' = locked \ {operation[w]}

MainUnlock(w) ==
    /\ pc[w] = "unlock"
    /\ Unlock(w)
    /\ Again(w)
    /\ UNCHANGED <<queue, state_, callers, ending, accepted>>

run(w) == \/ Dequeue(w) \/ Dispatch(w) \/ MainTest(w) \/ MainStart(w)
          \/ MainEnd(w) \/ MainUnlock(w)

\* A condition variable may wake a thread for no reason.
SpuriousWakeup(w) ==
    /\ pc[w] = "wait"
    /\ Goto(w, "lock")
    /\ UNCHANGED <<queue, state_, locked, callers, operation, ending,
                   accepted>>

(***************************************************************************)
(* The thread that ends the queue.  finishAndWait may be followed by the   *)
(* closeAndWait of the destructor.                                         *)
(***************************************************************************)

finish ==
    /\ owner = "none"
    /\ finish_' = TRUE /\ owner' = "finishing"
    /\ UNCHANGED <<operation_map_, operation_id_queue_, closed_, state_, locked,
                   callers, pc, operation, toCancel, storing, accepted>>

\* close(): the flag is stored before cancelAllOperations takes the lock.
close ==
    /\ owner \in {"none", "finished"}
    /\ closed_' = TRUE /\ owner' = "closing"
    /\ UNCHANGED <<operation_map_, operation_id_queue_, finish_, state_, locked,
                   callers, pc, operation, toCancel, storing, accepted>>

cancelAllOperations ==
    /\ owner = "closing"
    /\ owner' = "cancelling" /\ toCancel' = operation_map_
    /\ UNCHANGED <<queue, state_, locked, callers, pc, operation, storing,
                   accepted>>

\* cancel(), the test: an operation that is not ready is left alone.
CancelTest(o) ==
    /\ owner = "cancelling" /\ storing = None /\ o \in toCancel
    /\ IF state_[o] = "ready"
       THEN storing' = o /\ UNCHANGED toCancel
       ELSE toCancel' = toCancel \ {o} /\ UNCHANGED storing
    /\ UNCHANGED <<queue, state_, locked, callers, pc, operation, owner,
                   accepted>>

\* cancel(), the store: a worker may have started the operation in between.
CancelStore ==
    /\ storing # None
    /\ state_' = [state_ EXCEPT ![storing] = "cancelled"]
    /\ toCancel' = toCancel \ {storing} /\ storing' = None
    /\ UNCHANGED <<queue, locked, callers, pc, operation, owner, accepted>>

CancelDone ==
    /\ owner = "cancelling" /\ toCancel = {}
    /\ pc' = NotifyAll /\ owner' = "closed"
    /\ UNCHANGED <<queue, state_, locked, callers, operation, toCancel, storing,
                   accepted>>

\* Mutated form of WakeWorkers: wait_for_worker_threads only joins.
WakeNobody == UNCHANGED pc

WakeWorkers == pc' = NotifyAll

\* wait_for_worker_threads wakes every worker and joins them all.
WaitForWorkers ==
    /\ owner \in {"finishing", "closed"}
    /\ WakeWorkers
    /\ owner' = IF owner = "finishing" THEN "joining" ELSE "joining closed"
    /\ UNCHANGED <<queue, state_, locked, callers, operation, toCancel, storing,
                   accepted>>

Join ==
    /\ owner \in {"joining", "joining closed"}
    /\ \A w \in Workers : pc[w] = "gone"
    /\ owner' = IF owner = "joining" THEN "finished" ELSE "ended"
    /\ UNCHANGED <<queue, state_, locked, callers, pc, operation, toCancel,
                   storing, accepted>>

Ending == \/ cancelAllOperations \/ (\E o \in Ops : CancelTest(o))
          \/ CancelStore \/ CancelDone \/ WaitForWorkers \/ Join

\* A call that has begun.
Calling == \/ \E o \in Ops : addOperation(o) \/ popOperationForId(o) \/ BuildMigration(o)
           \/ CancelLastTest \/ CancelLastStore

Next ==
    \/ \E o \in Ops : Construct(o) \/ GetStatus(o)
    \/ \E todo \in {"start", "send"} : FindLast(todo)
    \/ Calling
    \/ \E w \in Workers : run(w) \/ SpuriousWakeup(w)
    \/ finish \/ close \/ Ending

\* Threads that can run do run, and the work of an operation terminates; a
\* call need not come, nor the end of the queue, nor a spurious wake-up.
Fairness == /\ \A w \in Workers : WF_vars(run(w))
            /\ WF_vars(Ending) /\ WF_vars(Calling)

Spec == Init /\ [][Next]_vars
LiveSpec == Spec /\ Fairness

(***************************************************************************)
(* Properties.                                                             *)
(***************************************************************************)

\* finishAndWait returns only when every operation the queue accepted has
\* run to its end (a migration may be cancelled by its successor), and
\* closeAndWait only when every one has run or is cancelled; neither leaves an
\* operation waiting or being executed, although cancel() may store after a
\* worker has started the operation and a worker may store over a cancellation.
DoneAfterWait ==
    /\ owner = "finished" =>
          \A o \in accepted \ Migrations : state_[o] \in {"success", "failed"}
    /\ owner = "finished" => \A o \in accepted : state_[o] \in Final
    /\ owner = "ended" => \A o \in accepted : state_[o] \in Final
    /\ owner \in {"finished", "ended"} => operation_id_queue_ = <<>>

\* Until the queue is ended, inputs stay locked in the wallet only for an
\* operation that is still to be added, to run or to be cleaned up by its
\* worker: no outcome of an operation leaves its coins unspendable.
InputsReleased ==
    \A o \in locked :
        \/ state_[o] \in {"ready", "executing"}
        \/ \E w \in Workers : operation[w] = o /\ pc[w] = "unlock"
        \/ closed_ \/ finish_

\* closeAndWait and finishAndWait return: no worker sleeps through the flag
\* that is stored without the lock.
WaitReturns == (owner \in {"finishing", "closing"}) ~> (owner \in {"finished", "ended"})

\* Every operation the queue accepts ends for good, whether it is run or
\* cancelled, although a worker that has tested isCancelled() may overwrite a
\* cancellation and a late cancellation may overwrite a result.  (Operations
\* are finitely many and never leave `accepted', so from some moment on all
\* that were accepted have ended.)
OperationsEnd == <>[](\A o \in accepted : state_[o] \in Final)
=============================================================================
