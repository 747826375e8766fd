----------------------------- MODULE CheckQueue -----------------------------
(***************************************************************************)
(* The script-verification queue of src/src/checkqueue.h (CCheckQueue and  *)
(* CCheckQueueControl) as ConnectBlock and the ThreadScriptCheck workers   *)
(* use it: one master adds batches of checks under ControlMutex, then      *)
(* joins the worker pool in Wait() until every check is done.              *)
(*                                                                         *)
(* A step is one critical section of CCheckQueue::mutex, or the lock-free  *)
(* execution of a batch.  A blocked thread may be notified, may wake up    *)
(* spuriously, and may be interrupted at shutdown by                       *)
(* threadGroup.interrupt_all(): boost::condition_variable::wait then       *)
(* throws, skipping `nIdle--' and `nTotal--'.                              *)
(*                                                                         *)
(* A check is an element of Checks; `fails' holds those whose operator()   *)
(* returns false.  The LIFO order of `queue' is abstracted away: a thread  *)
(* takes any nNow queued checks.                                           *)
(***************************************************************************)
EXTENDS Naturals, FiniteSets

CONSTANTS Checks,      \* the script checks that can be added
          Workers,     \* the ThreadScriptCheck threads
          Master,      \* the thread that runs ConnectBlock
          nBatchSize   \* largest batch a thread takes at once

ASSUME ChecksFinite == IsFiniteSet(Checks)
ASSUME WorkersFinite == IsFiniteSet(Workers)
ASSUME MasterIsNoWorker == Master \notin Workers
ASSUME BatchSizePositive == nBatchSize \in Nat \ {0}

Threads == Workers \cup {Master}

VARIABLES queue,        \* checks not yet taken by a thread
          nIdle,        \* threads blocked on a condition variable
          nTotal,       \* threads inside Loop()
          fAllOk,       \* the temporary evaluation result
          nTodo,        \* checks not yet completed
          pc,           \* where each thread is
          batch,        \* vChecks of each thread; nNow is its cardinality
          fOk,          \* the local verdict on each thread's batch
          interrupted,  \* threads with a pending boost interruption
          fails,        \* checks whose evaluation returns false
          added,        \* checks added since the control was constructed
          verdict       \* what the last Wait() returned

shared == <<queue, nIdle, nTotal, fAllOk, nTodo>>
vars == <<shared, pc, batch, fOk, interrupted, fails, added, verdict>>

\* "out": not in Loop() (the master holds no control);  "adding": the master
\* between the control's constructor and Wait();  "lock": about to lock the
\* mutex;  "wait": blocked;  "woken": notified, about to relock;  "work":
\* running its batch unlocked;  "dead": left Loop() by an interruption.
PCs == {"out", "adding", "lock", "wait", "woken", "work", "dead"}

Init ==
    /\ queue = {} /\ nIdle = 0 /\ nTotal = 0 /\ fAllOk = TRUE /\ nTodo = 0
    /\ pc = [t \in Threads |-> IF t = Master THEN "out" ELSE "lock"]
    /\ batch = [t \in Threads |-> {}]
    /\ fOk = [t \in Threads |-> TRUE]
    /\ interrupted = {} /\ fails = {} /\ added = {} /\ verdict = TRUE

(***************************************************************************)
(* The master outside Wait().                                              *)
(***************************************************************************)

\* CCheckQueueControl's constructor: ControlMutex is taken.
Control ==
    /\ pc[Master] = "out"
    /\ pc' = [pc EXCEPT ![Master] = "adding"]
    /\ added' = {} /\ fails' = {} /\ verdict' = TRUE
    /\ UNCHANGED <<shared, batch, fOk, interrupted>>

\* notify_one / notify_all on condWorker: one blocked worker, or all, become
\* runnable; nothing happens when no worker is blocked.
NotifyWorkers(n, pcs) ==
    LET blocked == {w \in Workers : pcs[w] = "wait"}
    IN  IF blocked = {} \/ n = 0 THEN {pcs}
        ELSE IF n = 1 THEN {[pcs EXCEPT ![w] = "woken"] : w \in blocked}
        ELSE {[t \in Threads |-> IF t \in blocked THEN "woken" ELSE pcs[t]]}

\* Add(): the new checks S, of which F will evaluate to false.
Add(S, F) ==
    /\ pc[Master] = "adding"
    /\ S \cap added = {}
    /\ queue' = queue \cup S
    /\ nTodo' = nTodo + Cardinality(S)
    /\ pc' \in NotifyWorkers(Cardinality(S), pc)
    /\ fails' = (fails \ S) \cup F
    /\ added' = added \cup S
    /\ UNCHANGED <<nIdle, nTotal, fAllOk, batch, fOk, interrupted, verdict>>

\* Wait(), called by ConnectBlock or by the control's destructor on every
\* early return.
Wait ==
    /\ pc[Master] = "adding"
    /\ pc' = [pc EXCEPT ![Master] = "lock"]
    /\ batch' = [batch EXCEPT ![Master] = {}]
    /\ UNCHANGED <<shared, fOk, interrupted, fails, added, verdict>>

(***************************************************************************)
(* Loop().  The clean-up of the previous run and the wake-up from a wait   *)
(* both continue at the `while (queue.empty())' test; the values they      *)
(* hand over are the record r.                                             *)
(***************************************************************************)

BatchCount(r) ==
    LET share == Cardinality(queue) \div (r.total + r.idle + 1)
        capped == IF share < nBatchSize THEN share ELSE nBatchSize
    IN  IF capped < 1 THEN 1 ELSE capped

\* Mutated form of Return: the master leaves as soon as the queue is empty,
\* although workers still hold batches.
ReturnEarly(t, r) ==
    /\ queue = {} /\ t = Master
    /\ nTotal' = r.total - 1 /\ nIdle' = r.idle /\ nTodo' = r.todo
    /\ fAllOk' = TRUE
    /\ verdict' = r.ok
    /\ pc' = [r.pcs EXCEPT ![t] = "out"]
    /\ batch' = [batch EXCEPT ![t] = {}]
    /\ fOk' = [fOk EXCEPT ![t] = TRUE]
    /\ UNCHANGED queue

Return(t, r) ==
    /\ queue = {} /\ t = Master /\ r.todo = 0
    /\ nTotal' = r.total - 1 /\ nIdle' = r.idle /\ nTodo' = r.todo
    /\ fAllOk' = TRUE
    /\ verdict' = r.ok
    /\ pc' = [r.pcs EXCEPT ![t] = "out"]
    /\ batch' = [batch EXCEPT ![t] = {}]
    /\ fOk' = [fOk EXCEPT ![t] = TRUE]
    /\ UNCHANGED queue

\* Mutated form of Block: `nIdle++' is missing.
BlockUncounted(t, r) ==
    /\ queue = {} /\ ~(t = Master /\ r.todo = 0)
    /\ nTotal' = r.total /\ nIdle' = r.idle /\ nTodo' = r.todo
    /\ fAllOk' = r.ok
    /\ pc' = [r.pcs EXCEPT ![t] = "wait"]
    /\ batch' = [batch EXCEPT ![t] = {}]
    /\ fOk' = [fOk EXCEPT ![t] = TRUE]
    /\ UNCHANGED <<queue, verdict>>

Block(t, r) ==
    /\ queue = {} /\ ~(t = Master /\ r.todo = 0)
    /\ nTotal' = r.total /\ nIdle' = r.idle + 1 /\ nTodo' = r.todo
    /\ fAllOk' = r.ok
    /\ pc' = [r.pcs EXCEPT ![t] = "wait"]
    /\ batch' = [batch EXCEPT ![t] = {}]
    /\ fOk' = [fOk EXCEPT ![t] = TRUE]
    /\ UNCHANGED <<queue, verdict>>

Take(t, r) ==
    /\ queue # {}
    /\ \E S \in SUBSET queue :
          /\ Cardinality(S) = BatchCount(r)
          /\ queue' = queue \ S
          /\ batch' = [batch EXCEPT ![t] = S]
    /\ nTotal' = r.total /\ nIdle' = r.idle /\ nTodo' = r.todo
    /\ fAllOk' = r.ok
    /\ fOk' = [fOk EXCEPT ![t] = r.ok]
    /\ pc' = [r.pcs EXCEPT ![t] = "work"]
    /\ UNCHANGED verdict

Loop(t, r) == Return(t, r) \/ Block(t, r) \/ Take(t, r)

\* Mutated form of CleanedUp: one check is subtracted from nTodo instead of
\* the whole batch.
CleanedUpOne(t) ==
    LET nNow == Cardinality(batch[t])
        todo == IF nNow > 0 THEN nTodo - 1 ELSE nTodo
        notify == nNow > 0 /\ todo = 0 /\ t # Master /\ pc[Master] = "wait"
    IN  [ok    |-> IF nNow > 0 THEN fAllOk /\ fOk[t] ELSE fAllOk,
         todo  |-> todo,
         total |-> IF nNow > 0 THEN nTotal ELSE nTotal + 1,
         idle  |-> nIdle,
         pcs   |-> IF notify THEN [pc EXCEPT ![Master] = "woken"] ELSE pc]

\* Mutated form of CleanedUp: `fAllOk = fOk' instead of `fAllOk &= fOk'.
CleanedUpOverwrites(t) ==
    LET nNow == Cardinality(batch[t])
        todo == nTodo - nNow
        notify == nNow > 0 /\ todo = 0 /\ t # Master /\ pc[Master] = "wait"
    IN  [ok    |-> IF nNow > 0 THEN fOk[t] ELSE fAllOk,
         todo  |-> todo,
         total |-> IF nNow > 0 THEN nTotal ELSE nTotal + 1,
         idle  |-> nIdle,
         pcs   |-> IF notify THEN [pc EXCEPT ![Master] = "woken"] ELSE pc]

\* Mutated form of CleanedUp: condMaster is never notified.
CleanedUpSilently(t) ==
    LET nNow == Cardinality(batch[t])
    IN  [ok    |-> IF nNow > 0 THEN fAllOk /\ fOk[t] ELSE fAllOk,
         todo  |-> nTodo - nNow,
         total |-> IF nNow > 0 THEN nTotal ELSE nTotal + 1,
         idle  |-> nIdle,
         pcs   |-> pc]

\* The thread locks the mutex after its first entry (nNow = 0) or after a
\* batch, whose result it now publishes; a worker that completes the last
\* check wakes the master.
CleanedUp(t) ==
    LET nNow == Cardinality(batch[t])
        todo == nTodo - nNow
        notify == nNow > 0 /\ todo = 0 /\ t # Master /\ pc[Master] = "wait"
    IN  [ok    |-> IF nNow > 0 THEN fAllOk /\ fOk[t] ELSE fAllOk,
         todo  |-> todo,
         total |-> IF nNow > 0 THEN nTotal ELSE nTotal + 1,
         idle  |-> nIdle,
         pcs   |-> IF notify THEN [pc EXCEPT ![Master] = "woken"] ELSE pc]

Enter(t) ==
    /\ pc[t] = "lock"
    /\ Loop(t, CleanedUp(t))
    /\ UNCHANGED <<interrupted, fails, added>>

\* cond.wait returned: `nIdle--' and back to the while test.
Resume(t) ==
    /\ pc[t] = "woken" /\ t \notin interrupted
    /\ Loop(t, [ok |-> fAllOk, todo |-> nTodo, total |-> nTotal,
                idle |-> nIdle - 1, pcs |-> pc])
    /\ UNCHANGED <<interrupted, fails, added>>

\* The unlocked part: evaluation stops at the first failure, and is skipped
\* altogether when the batch started with fOk = false.
Work(t) ==
    /\ pc[t] = "work"
    /\ fOk' = [fOk EXCEPT ![t] = @ /\ batch[t] \cap fails = {}]
    /\ pc' = [pc EXCEPT ![t] = "lock"]
    /\ UNCHANGED <<shared, batch, interrupted, fails, added, verdict>>

(***************************************************************************)
(* The environment: spurious wake-ups and shutdown.                        *)
(***************************************************************************)

Spurious(t) ==
    /\ pc[t] = "wait"
    /\ pc' = [pc EXCEPT ![t] = "woken"]
    /\ UNCHANGED <<shared, batch, fOk, interrupted, fails, added, verdict>>

\* threadGroup.interrupt_all(): the master is in the group when it is the
\* message handler or the import thread, not when it is an RPC thread.
InterruptAll ==
    /\ interrupted = {} /\ \E w \in Workers : pc[w] # "dead"
    /\ interrupted' \in {Workers, Threads}
    /\ UNCHANGED <<shared, pc, batch, fOk, fails, added, verdict>>

\* cond.wait throws boost::thread_interrupted.  A worker is gone, with nIdle
\* and nTotal still counting it.  The master unwinds through the destructor
\* of CCheckQueueControl, which calls Wait() again.
Interrupted(t) ==
    /\ t \in interrupted /\ pc[t] \in {"wait", "woken"}
    /\ pc' = [pc EXCEPT ![t] = IF t = Master THEN "lock" ELSE "dead"]
    /\ interrupted' = interrupted \ {t}
    /\ UNCHANGED <<shared, batch, fOk, fails, added, verdict>>

Next ==
    \/ Control \/ Wait \/ InterruptAll
    \/ \E S \in SUBSET Checks : \E F \in SUBSET S : Add(S, F)
    \/ \E t \in Threads : Enter(t) \/ Resume(t) \/ Work(t)
                          \/ Spurious(t) \/ Interrupted(t)

\* A runnable thread is eventually scheduled, and a started ConnectBlock
\* reaches its Wait() or the destructor's.
Fairness ==
    /\ WF_vars(Wait)
    /\ \A t \in Threads : WF_vars(Enter(t) \/ Resume(t) \/ Work(t)
                                  \/ Interrupted(t))

Spec == Init /\ [][Next]_vars
FairSpec == Spec /\ Fairness

-----------------------------------------------------------------------------

TypeOK ==
    /\ queue \in SUBSET Checks
    /\ nIdle \in Nat /\ nTotal \in Nat /\ nTodo \in Nat
    /\ fAllOk \in BOOLEAN /\ verdict \in BOOLEAN
    /\ pc \in [Threads -> PCs]
    /\ batch \in [Threads -> SUBSET Checks]
    /\ fOk \in [Threads -> BOOLEAN]
    /\ interrupted \in SUBSET Threads
    /\ fails \in SUBSET Checks /\ added \in SUBSET Checks

\* The checks some thread still owes a result for: queued, or taken and not
\* yet accounted for.
Outstanding == queue \cup UNION {batch[t] : t \in Threads}

\* nTodo is exactly the number of checks that are queued or in some thread's
\* batch, through every interleaving of takes, clean-ups, wake-ups and
\* interruptions.  The master's exit test relies on it.
TodoCountsOutstanding == nTodo = Cardinality(Outstanding)

\* What Wait() returns is right: true iff every check added since the control
\* was constructed evaluates to true; no earlier block's failure leaks in
\* (fAllOk is reset) and no worker's failure is lost.  ConnectBlock accepts
\* the block on this answer.
VerdictCorrect ==
    pc[Master] = "out" => (verdict <=> added \cap fails = {})

\* When the master is outside Loop() no check of its session is left in the
\* queue or in a worker's hands: the next block starts from an empty queue.
NothingLeftBehind ==
    pc[Master] = "out" => Outstanding = {} /\ nTodo = 0 /\ fAllOk

\* A Wait() always returns, whatever happens to the workers: no lost wake-up,
\* no worker whose death leaves the master blocked forever.
WaitReturns == pc[Master] = "lock" ~> pc[Master] = "out"

(***************************************************************************)
(* The inductive invariant behind the three safety properties.             *)
(***************************************************************************)

\* A thread holds checks only between taking a batch and cleaning it up, and
\* no check is held twice.
BatchesDisjoint ==
    /\ \A t \in Threads : batch[t] \cap queue = {}
    /\ \A t, u \in Threads : t # u => batch[t] \cap batch[u] = {}
    /\ \A t \in Threads : batch[t] # {} => pc[t] \in {"work", "lock"}
    /\ \A t \in Threads : pc[t] = "work" => batch[t] # {}

\* Who can be where: only the master is ever outside Loop() or adding, only a
\* worker is dead.
Roles ==
    /\ pc[Master] # "dead"
    /\ \A w \in Workers : pc[w] \notin {"out", "adding"}

Blocked == {t \in Threads : pc[t] \in {"wait", "woken"}}
InLoop == {t \in Threads : pc[t] \in {"wait", "woken"} \/ batch[t] # {}}

\* The counters never undercount: an interrupted thread stays counted.
CountersCover ==
    /\ nIdle >= Cardinality(Blocked)
    /\ nTotal >= Cardinality(InLoop)

\* Where the evidence of a failed check is: still queued, in a batch being
\* executed, in the local verdict of a thread, or in fAllOk, until Wait()
\* hands it to the caller.
FailureNotLost ==
    pc[Master] # "out" =>
    \A c \in added \cap fails :
        \/ c \in queue
        \/ ~fAllOk
        \/ \E t \in Threads : pc[t] = "work" /\ c \in batch[t]
        \/ \E t \in Threads : pc[t] = "lock" /\ batch[t] # {} /\ ~fOk[t]

\* A negative verdict, local or shared, is always some added check's failure.
FailureNotInvented ==
    /\ ~fAllOk => added \cap fails # {}
    /\ \A t \in Threads : batch[t] # {} /\ ~fOk[t] => added \cap fails # {}

IndInv ==
    /\ TypeOK /\ BatchesDisjoint /\ Roles /\ CountersCover
    /\ TodoCountsOutstanding
    /\ Outstanding \subseteq added
    /\ FailureNotLost /\ FailureNotInvented
    /\ NothingLeftBehind /\ VerdictCorrect
=============================================================================
