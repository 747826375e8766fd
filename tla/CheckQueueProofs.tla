-------------------------- MODULE CheckQueueProofs --------------------------
(***************************************************************************)
(* Proof that the script check queue answers correctly (VerdictCorrect)    *)
(* for any number of checks and workers and any batch size.  IndInv is the *)
(* inductive invariant.  Both ways into the while loop of Loop() (a thread *)
(* that locks the mutex, a thread that wakes up) hand over a record r of   *)
(* values; Handover says what holds of it, and one lemma then covers the   *)
(* three ways out (Return, Block, Take).                                   *)
(***************************************************************************)
EXTENDS CheckQueue, FiniteSetTheorems, TLAPS

\* What the other threads and the queue still owe when t has nothing.
Rest(t) == queue \cup UNION {batch[u] : u \in Threads \ {t}}

Handover(t, r) ==
    /\ r.pcs \in [Threads -> PCs]
    /\ r.pcs[t] = pc[t]
    /\ \A u \in Threads : \/ r.pcs[u] = pc[u]
                          \/ u = Master /\ pc[u] = "wait" /\ r.pcs[u] = "woken"
    /\ r.ok \in BOOLEAN /\ r.todo \in Nat /\ r.total \in Nat /\ r.idle \in Nat
    /\ r.todo = Cardinality(Rest(t))
    /\ r.idle >= Cardinality(Blocked \ {t})
    /\ r.total >= 1 + Cardinality(InLoop \ {t})
    /\ ~r.ok => added \cap fails # {}
    /\ pc[Master] = "out" => r.ok
    /\ pc[Master] # "out"
       => \A c \in added \cap fails :
            \/ c \in queue
            \/ ~r.ok
            \/ \E u \in Threads \ {t} : pc[u] = "work" /\ c \in batch[u]
            \/ \E u \in Threads \ {t} :
                  pc[u] = "lock" /\ batch[u] # {} /\ ~fOk[u]

-----------------------------------------------------------------------------

\* The sets whose sizes the counters track are finite.
LEMMA Finiteness ==
  ASSUME TypeOK
  PROVE  /\ IsFiniteSet(Threads)
         /\ IsFiniteSet(Outstanding)
         /\ IsFiniteSet(queue)
         /\ \A t \in Threads : IsFiniteSet(batch[t]) /\ IsFiniteSet(Rest(t))
         /\ IsFiniteSet(Blocked) /\ IsFiniteSet(InLoop)
<1>1. IsFiniteSet(Threads)
  BY WorkersFinite, FS_AddElement DEF Threads
<1>2. \A S \in SUBSET Checks : IsFiniteSet(S)
  BY ChecksFinite, FS_Subset
<1>3. \A S \in SUBSET Threads : IsFiniteSet(S)
  BY <1>1, FS_Subset
<1>4. Outstanding \in SUBSET Checks /\ \A t \in Threads : Rest(t) \in SUBSET Checks
  BY DEF TypeOK, Outstanding, Rest
<1>5. Blocked \in SUBSET Threads /\ InLoop \in SUBSET Threads
  BY DEF Blocked, InLoop
<1> QED
  BY <1>1, <1>2, <1>3, <1>4, <1>5 DEF TypeOK

\* Removing a subset of a finite set subtracts its size.
LEMMA CardinalityMinus ==
  ASSUME NEW S, IsFiniteSet(S), NEW T, T \subseteq S
  PROVE  /\ Cardinality(S \ T) = Cardinality(S) - Cardinality(T)
         /\ Cardinality(S) \in Nat /\ Cardinality(T) \in Nat
         /\ Cardinality(S \ T) \in Nat
<1>1. S \cap T = T
  OBVIOUS
<1>2. IsFiniteSet(T) /\ IsFiniteSet(S \ T)
  BY FS_Subset
<1> QED
  BY <1>1, <1>2, FS_Difference, FS_CardinalityType, Zenon

\* Only t's own checks separate Rest(t) from Outstanding.
LEMMA RestOfOutstanding ==
  ASSUME IndInv, NEW t \in Threads
  PROVE  /\ Rest(t) = Outstanding \ batch[t]
         /\ batch[t] \subseteq Outstanding
         /\ Cardinality(Rest(t)) = nTodo - Cardinality(batch[t])
         /\ Cardinality(batch[t]) \in Nat /\ Cardinality(Rest(t)) \in Nat
<1>1. Rest(t) = Outstanding \ batch[t]
  BY DEF IndInv, BatchesDisjoint, Rest, Outstanding
<1>2. batch[t] \subseteq Outstanding
  BY DEF Outstanding
<1>3. IsFiniteSet(Outstanding)
  BY Finiteness DEF IndInv
<1> QED
  BY <1>1, <1>2, <1>3, CardinalityMinus, Zenon DEF IndInv, TodoCountsOutstanding

-----------------------------------------------------------------------------

\* What a thread that locks the mutex hands over to the while loop.
LEMMA EnterHandover ==
  ASSUME IndInv, NEW t \in Threads, pc[t] = "lock"
  PROVE  Handover(t, CleanedUp(t))
<1> DEFINE r == CleanedUp(t)
<1>a. TypeOK /\ Master \in Threads
  BY DEF IndInv, Threads
<1>b. Cardinality(batch[t]) \in Nat /\ (Cardinality(batch[t]) = 0 <=> batch[t] = {})
  BY <1>a, Finiteness, RestOfOutstanding, FS_EmptySet
<1>1. /\ r.pcs \in [Threads -> PCs]
      /\ r.pcs[t] = pc[t]
      /\ \A u \in Threads : \/ r.pcs[u] = pc[u]
                            \/ u = Master /\ pc[u] = "wait" /\ r.pcs[u] = "woken"
  BY <1>a DEF CleanedUp, TypeOK, PCs
<1>2. r.todo = Cardinality(Rest(t)) /\ r.todo \in Nat
  BY RestOfOutstanding DEF CleanedUp
<1>3. r.idle \in Nat /\ r.idle >= Cardinality(Blocked \ {t})
  <2>1. Blocked \ {t} = Blocked
    BY DEF Blocked
  <2> QED
    BY <2>1, <1>a, Zenon DEF IndInv, CountersCover, CleanedUp, TypeOK
<1>4. r.total \in Nat /\ r.total >= 1 + Cardinality(InLoop \ {t})
  <2>1. IsFiniteSet(InLoop)
    BY <1>a, Finiteness
  <2>2. CASE batch[t] = {}
    <3>1. InLoop \ {t} = InLoop
      BY <2>2 DEF InLoop
    <3>2. Cardinality(InLoop) \in Nat
      BY <2>1, FS_CardinalityType
    <3>3. r.total = nTotal + 1
      BY <2>2, <1>b DEF CleanedUp
    <3> QED
      BY <3>1, <3>2, <3>3, <1>a DEF IndInv, CountersCover, TypeOK
  <2>3. CASE batch[t] # {}
    <3>1. t \in InLoop
      BY <2>3 DEF InLoop
    <3>2. Cardinality(InLoop \ {t}) = Cardinality(InLoop) - 1
      BY <2>1, <3>1, FS_RemoveElement, Zenon
    <3>3. Cardinality(InLoop) \in Nat
      BY <2>1, FS_CardinalityType
    <3>4. r.total = nTotal
      BY <2>3, <1>b DEF CleanedUp
    <3> QED
      BY <3>2, <3>3, <3>4, <1>a DEF IndInv, CountersCover, TypeOK
  <2> QED
    BY <2>2, <2>3
<1>5. r.ok \in BOOLEAN
  <2>1. r.ok = IF Cardinality(batch[t]) > 0 THEN fAllOk /\ fOk[t] ELSE fAllOk
    BY Zenon DEF CleanedUp
  <2>2. fAllOk \in BOOLEAN /\ fOk[t] \in BOOLEAN
    BY <1>a DEF TypeOK
  <2> QED
    BY <2>1, <2>2, Zenon
<1>6. ~r.ok => added \cap fails # {}
  BY <1>a, <1>b DEF CleanedUp, TypeOK, IndInv, FailureNotInvented
<1>7. ASSUME pc[Master] # "out", NEW c \in added \cap fails
      PROVE  \/ c \in queue
             \/ ~r.ok
             \/ \E u \in Threads \ {t} : pc[u] = "work" /\ c \in batch[u]
             \/ \E u \in Threads \ {t} :
                   pc[u] = "lock" /\ batch[u] # {} /\ ~fOk[u]
  <2>1. r.ok => fAllOk /\ (batch[t] # {} => fOk[t])
    BY <1>a, <1>b DEF CleanedUp, TypeOK
  <2> QED
    BY <1>7, <2>1 DEF IndInv, FailureNotLost
<1>8. pc[Master] = "out" => r.ok
  <2>1. pc[Master] = "out" => fAllOk /\ batch[t] = {}
    BY DEF IndInv, NothingLeftBehind, Outstanding
  <2> QED
    BY <2>1, <1>b DEF CleanedUp
<1> QED
  BY <1>1, <1>2, <1>3, <1>4, <1>5, <1>6, <1>7, <1>8 DEF Handover

\* What a thread that wakes up from cond.wait hands over.
LEMMA ResumeHandover ==
  ASSUME IndInv, NEW t \in Threads, pc[t] = "woken"
  PROVE  Handover(t, [ok |-> fAllOk, todo |-> nTodo, total |-> nTotal,
                      idle |-> nIdle - 1, pcs |-> pc])
<1>a. TypeOK
  BY DEF IndInv
<1>b. batch[t] = {}
  BY DEF IndInv, BatchesDisjoint
<1>1. nTodo = Cardinality(Rest(t))
  <2>1. Cardinality(batch[t]) = 0
    BY <1>b, FS_EmptySet
  <2> QED
    BY <2>1, RestOfOutstanding, <1>a DEF TypeOK
<1>2. nIdle - 1 \in Nat /\ nIdle - 1 >= Cardinality(Blocked \ {t})
  <2>1. t \in Blocked
    BY DEF Blocked
  <2>2. /\ Cardinality(Blocked \ {t}) = Cardinality(Blocked) - 1
        /\ Cardinality(Blocked \ {t}) \in Nat
    BY <2>1, <1>a, Finiteness, FS_RemoveElement, FS_CardinalityType
  <2>3. Cardinality(Blocked) \in Nat
    BY <1>a, Finiteness, FS_CardinalityType
  <2> QED
    BY <2>2, <2>3, <1>a DEF TypeOK, IndInv, CountersCover
<1>3. nTotal >= 1 + Cardinality(InLoop \ {t})
  <2>1. t \in InLoop
    BY DEF InLoop
  <2>2. Cardinality(InLoop \ {t}) = Cardinality(InLoop) - 1
    BY <2>1, <1>a, Finiteness, FS_RemoveElement, Zenon
  <2>3. Cardinality(InLoop) \in Nat
    BY <1>a, Finiteness, FS_CardinalityType
  <2> QED
    BY <2>2, <2>3, <1>a DEF TypeOK, IndInv, CountersCover
<1>4. pc[Master] # "out"
       => \A c \in added \cap fails :
            \/ c \in queue
            \/ ~fAllOk
            \/ \E u \in Threads \ {t} : pc[u] = "work" /\ c \in batch[u]
            \/ \E u \in Threads \ {t} :
                  pc[u] = "lock" /\ batch[u] # {} /\ ~fOk[u]
  BY DEF IndInv, FailureNotLost
<1>5. ~fAllOk => added \cap fails # {}
  BY DEF IndInv, FailureNotInvented
<1>6. pc[Master] = "out" => fAllOk
  BY DEF IndInv, NothingLeftBehind
<1> QED
  BY <1>a, <1>1, <1>2, <1>3, <1>4, <1>5, <1>6 DEF Handover, TypeOK

\* From a correct hand-over every way out of the while loop re-establishes the
\* invariant.
LEMMA LoopStep ==
  ASSUME IndInv, NEW t \in Threads, NEW r, Handover(t, r),
         pc[t] \in {"lock", "woken"},
         Loop(t, r), UNCHANGED <<interrupted, fails, added>>
  PROVE  IndInv'
<1>a. TypeOK /\ Master \in Threads
  BY DEF IndInv, Threads
<1>b. /\ r.pcs \in [Threads -> PCs] /\ r.ok \in BOOLEAN
      /\ r.todo \in Nat /\ r.total \in Nat /\ r.idle \in Nat
      /\ Cardinality(Blocked \ {t}) \in Nat /\ Cardinality(InLoop \ {t}) \in Nat
      /\ IsFiniteSet(Blocked \ {t}) /\ IsFiniteSet(InLoop \ {t})
      /\ IsFiniteSet(Rest(t))
  BY <1>a, Finiteness, FS_RemoveElement, FS_CardinalityType, Zenon DEF Handover
<1>1. CASE Return(t, r)
  <2>1. t = Master /\ queue = {} /\ r.todo = 0
    BY <1>1 DEF Return
  <2>2. Rest(t) = {}
    BY <2>1, <1>b, FS_EmptySet DEF Handover
  <2>3. \A u \in Threads \ {t} : batch[u] = {}
    BY <2>2 DEF Rest
  <2>4. \A u \in Threads : batch'[u] = {}
    BY <1>1, <1>a, <2>3 DEF Return, TypeOK
  <2>5. pc'[Master] = "out" /\ pc' \in [Threads -> PCs]
        /\ \A u \in Threads \ {t} : pc'[u] = r.pcs[u]
    BY <1>1, <1>b, <2>1 DEF Return, PCs
  <2>6. \A u \in Workers : u \in Threads \ {t} /\ pc'[u] = pc[u]
    BY <2>5, <2>1, MasterIsNoWorker DEF Handover, Threads
  <2>7. Blocked' = Blocked \ {t} /\ InLoop' \subseteq InLoop \ {t}
    BY <2>1, <2>4, <2>5, <2>6 DEF Blocked, InLoop, Threads
  <2>8. Outstanding' = {} /\ Cardinality(Outstanding') = 0
    BY <1>1, <2>1, <2>4, FS_EmptySet DEF Return, Outstanding
  <2>9. pc[Master] # "out"
    BY <2>1
  <2>10. r.ok <=> added \cap fails = {}
    BY <2>1, <2>3, <2>9 DEF Handover
  <2>11. TypeOK'
    BY <1>1, <1>a, <1>b, <2>4, <2>5 DEF Return, TypeOK, Handover
  <2>12. BatchesDisjoint' /\ Roles'
    <3>1. \A u \in Threads : pc'[u] # "work"
      BY <2>1, <2>3, <2>5, <2>6 DEF IndInv, BatchesDisjoint, Threads
    <3>2. \A u \in Workers : pc'[u] \notin {"out", "adding"}
      BY <2>6 DEF IndInv, Roles
    <3> QED
      BY <2>4, <2>5, <3>1, <3>2 DEF BatchesDisjoint, Roles
  <2>13. CountersCover'
    <3>1. Cardinality(InLoop') <= Cardinality(InLoop \ {t}) /\ Cardinality(InLoop') \in Nat
      BY <2>7, <1>b, FS_Subset, FS_CardinalityType
    <3>2. nIdle' = r.idle /\ nTotal' = r.total - 1
      BY <1>1 DEF Return
    <3> QED
      BY <3>1, <3>2, <2>7, <1>b DEF CountersCover, Handover
  <2>14. TodoCountsOutstanding' /\ NothingLeftBehind'
    BY <1>1, <2>1, <2>8 DEF Return, TodoCountsOutstanding, NothingLeftBehind
  <2>15. VerdictCorrect'
    BY <1>1, <2>10 DEF Return, VerdictCorrect
  <2>16. FailureNotLost' /\ FailureNotInvented'
    BY <1>1, <2>4, <2>5 DEF Return, FailureNotLost, FailureNotInvented
  <2> QED
    BY <2>8, <2>11, <2>12, <2>13, <2>14, <2>15, <2>16 DEF IndInv
<1>2. CASE Block(t, r)
  <2>1. queue = {} /\ queue' = {}
    BY <1>2 DEF Block
  <2>2. /\ pc' \in [Threads -> PCs] /\ pc'[t] = "wait"
        /\ \A u \in Threads \ {t} : pc'[u] = r.pcs[u]
    BY <1>2, <1>b DEF Block, PCs
  <2>3. /\ batch' \in [Threads -> SUBSET Checks] /\ batch'[t] = {}
        /\ \A u \in Threads \ {t} : batch'[u] = batch[u]
    BY <1>2, <1>a DEF Block, TypeOK
  <2>4. Outstanding' = Rest(t)
    BY <2>1, <2>3 DEF Outstanding, Rest
  <2>5. \A u \in Threads \ {t} :
           \/ pc'[u] = pc[u]
           \/ pc[u] = "wait" /\ pc'[u] = "woken"
    BY <2>2 DEF Handover
  <2>6. TypeOK'
    BY <1>2, <1>a, <1>b, <2>2, <2>3 DEF Block, TypeOK
  <2>7. BatchesDisjoint' /\ Roles'
    BY <2>1, <2>2, <2>3, <2>5, MasterIsNoWorker
       DEF IndInv, BatchesDisjoint, Roles, Threads
  <2>8. CountersCover'
    <3>1. Blocked' = (Blocked \ {t}) \cup {t} /\ InLoop' = (InLoop \ {t}) \cup {t}
      BY <2>2, <2>3, <2>5 DEF Blocked, InLoop
    <3>2. /\ Cardinality(Blocked') = Cardinality(Blocked \ {t}) + 1
          /\ Cardinality(InLoop') = Cardinality(InLoop \ {t}) + 1
      BY <3>1, <1>b, FS_AddElement, Zenon
    <3>3. nIdle' = r.idle + 1 /\ nTotal' = r.total
      BY <1>2 DEF Block
    <3> QED
      BY <3>2, <3>3, <1>b DEF CountersCover, Handover
  <2>9. TodoCountsOutstanding'
    BY <1>2, <2>4 DEF Block, TodoCountsOutstanding, Handover
  <2>10. Outstanding' \subseteq added'
    BY <2>4 DEF IndInv, Outstanding, Rest
  <2>11. pc'[Master] = "out" => pc[Master] = "out" /\ Master # t
    BY <2>2, <2>5, <1>a
  <2>12. FailureNotLost'
    <3> SUFFICES ASSUME pc'[Master] # "out", NEW c \in added \cap fails
                 PROVE  \/ ~fAllOk'
                        \/ \E u \in Threads : pc'[u] = "work" /\ c \in batch'[u]
                        \/ \E u \in Threads :
                              pc'[u] = "lock" /\ batch'[u] # {} /\ ~fOk'[u]
      BY DEF FailureNotLost
    <3>1. pc[Master] # "out"
      BY <2>2, <2>5, <1>a
    <3>2. fAllOk' = r.ok /\ \A u \in Threads \ {t} : fOk'[u] = fOk[u]
      BY <1>2, <1>a DEF Block, TypeOK
    <3>3. \/ ~r.ok
          \/ \E u \in Threads \ {t} : pc[u] = "work" /\ c \in batch[u]
          \/ \E u \in Threads \ {t} :
                 pc[u] = "lock" /\ batch[u] # {} /\ ~fOk[u]
      BY <2>1, <3>1 DEF Handover
    <3> QED
      BY <3>2, <3>3, <2>3, <2>5
  <2>13. FailureNotInvented'
    BY <1>2, <2>3 DEF Block, Handover, IndInv, FailureNotInvented
  <2>14. NothingLeftBehind' /\ VerdictCorrect'
    <3>1. CASE pc'[Master] # "out"
      BY <3>1 DEF NothingLeftBehind, VerdictCorrect
    <3>2. CASE pc'[Master] = "out"
      <4>1. Outstanding = {} /\ nTodo = 0 /\ fAllOk
            /\ (verdict <=> added \cap fails = {})
        BY <3>2, <2>11 DEF IndInv, NothingLeftBehind, VerdictCorrect
      <4>2. Rest(t) = {} /\ Outstanding' = {}
        BY <4>1, <2>4 DEF Outstanding, Rest
      <4>3. r.todo = 0 /\ nTodo' = 0
        BY <1>2, <4>2, FS_EmptySet, Zenon DEF Block, Handover
      <4>4. r.ok
        BY <3>2, <2>11 DEF Handover
      <4> QED
        BY <4>1, <4>2, <4>3, <4>4, <1>2, Zenon DEF Block, NothingLeftBehind, VerdictCorrect
    <3> QED
      BY <3>1, <3>2
  <2> QED
    BY <2>6, <2>7, <2>8, <2>9, <2>10, <2>12, <2>13, <2>14 DEF IndInv
<1>3. CASE Take(t, r)
  <2>1. PICK S \in SUBSET queue :
           /\ Cardinality(S) = BatchCount(r)
           /\ queue' = queue \ S
           /\ batch' = [batch EXCEPT ![t] = S]
    BY <1>3, Zenon DEF Take
  <2>2. /\ pc' \in [Threads -> PCs] /\ pc'[t] = "work"
        /\ \A u \in Threads \ {t} : pc'[u] = r.pcs[u]
    BY <1>3, <1>b DEF Take, PCs
  <2>3. /\ batch' \in [Threads -> SUBSET Checks] /\ batch'[t] = S
        /\ \A u \in Threads \ {t} : batch'[u] = batch[u]
    BY <2>1, <1>a DEF TypeOK
  <2>4. Outstanding' = Rest(t)
    BY <2>1, <2>3 DEF Outstanding, Rest
  <2>5. \A u \in Threads \ {t} :
           \/ pc'[u] = pc[u]
           \/ pc[u] = "wait" /\ pc'[u] = "woken"
    BY <2>2, Zenon DEF Handover
  <2>6. S # {}
    <3>1. BatchCount(r) >= 1
      <4>1. Cardinality(queue) \in Nat
        BY <1>a, Finiteness, FS_CardinalityType
      <4>2. r.total + r.idle + 1 \in Nat \ {0}
        BY <1>b
      <4>3. Cardinality(queue) \div (r.total + r.idle + 1) \in Nat
        BY <4>1, <4>2
      <4> QED
        BY <4>3, BatchSizePositive DEF BatchCount
    <3> QED
      BY <2>1, <3>1, FS_EmptySet
  <2>7. /\ fOk' \in [Threads -> BOOLEAN] /\ fOk'[t] = r.ok
        /\ \A u \in Threads \ {t} : fOk'[u] = fOk[u]
    BY <1>3, <1>a, <1>b, Zenon DEF Take, TypeOK
  <2>8. TypeOK'
    BY <1>3, <1>a, <1>b, <2>1, <2>2, <2>3, <2>7, Zenon DEF Take, TypeOK
  <2>9. BatchesDisjoint'
    BY <2>1, <2>2, <2>3, <2>5, <2>6, SMTT(40) DEF IndInv, BatchesDisjoint
  <2>10. Roles'
    BY <2>2, <2>5, MasterIsNoWorker DEF IndInv, Roles, Threads
  <2>11. CountersCover'
    <3>1. Blocked' = Blocked \ {t} /\ InLoop' = (InLoop \ {t}) \cup {t}
      BY <2>2, <2>3, <2>5, <2>6, Zenon DEF Blocked, InLoop
    <3>2. Cardinality(InLoop') = Cardinality(InLoop \ {t}) + 1
      BY <3>1, <1>b, FS_AddElement, Zenon
    <3>3. nIdle' = r.idle /\ nTotal' = r.total
      BY <1>3 DEF Take
    <3> QED
      BY <3>1, <3>2, <3>3, <1>b DEF CountersCover, Handover
  <2>12. TodoCountsOutstanding'
    BY <1>3, <2>4, Zenon DEF Take, TodoCountsOutstanding, Handover
  <2>13. Outstanding' \subseteq added'
    BY <2>4 DEF IndInv, Outstanding, Rest
  <2>14. pc[Master] # "out" /\ pc'[Master] # "out"
    <3>1. queue # {}
      BY <1>3, Zenon DEF Take
    <3>2. pc[Master] # "out"
      BY <3>1 DEF IndInv, NothingLeftBehind, Outstanding
    <3> QED
      BY <3>2, <2>2, <2>5, <1>a, Zenon
  <2>15. FailureNotLost'
    <3> SUFFICES ASSUME NEW c \in added \cap fails
                 PROVE  \/ c \in queue'
                        \/ ~fAllOk'
                        \/ \E u \in Threads : pc'[u] = "work" /\ c \in batch'[u]
                        \/ \E u \in Threads :
                              pc'[u] = "lock" /\ batch'[u] # {} /\ ~fOk'[u]
      BY DEF FailureNotLost
    <3>1. fAllOk' = r.ok
      BY <1>3, Zenon DEF Take
    <3>2. \/ c \in queue
          \/ ~r.ok
          \/ \E u \in Threads \ {t} : pc[u] = "work" /\ c \in batch[u]
          \/ \E u \in Threads \ {t} :
                 pc[u] = "lock" /\ batch[u] # {} /\ ~fOk[u]
      BY <2>14, Zenon DEF Handover
    <3>3. c \in queue => c \in queue' \/ c \in batch'[t]
      BY <2>1, <2>3
    <3> QED
      BY <3>1, <3>2, <3>3, <2>2, <2>3, <2>5, <2>7, Zenon
  <2>16. FailureNotInvented'
    <3>1. fAllOk' = r.ok /\ UNCHANGED <<fails, added>>
      BY <1>3, Zenon DEF Take
    <3> QED
      BY <3>1, <2>3, <2>7, Zenon DEF Handover, IndInv, FailureNotInvented
  <2>17. NothingLeftBehind' /\ VerdictCorrect'
    BY <2>14 DEF NothingLeftBehind, VerdictCorrect
  <2> QED
    BY <2>8, <2>9, <2>10, <2>11, <2>12, <2>13, <2>15, <2>16, <2>17 DEF IndInv
<1> QED
  BY <1>1, <1>2, <1>3 DEF Loop

-----------------------------------------------------------------------------

\* The initial state satisfies the invariant.
LEMMA InitIndInv == Init => IndInv
<1> SUFFICES ASSUME Init PROVE IndInv
  OBVIOUS
<1>1. TypeOK
  BY DEF Init, TypeOK, PCs, Threads
<1>2. Outstanding = {} /\ Blocked = {} /\ InLoop = {}
  BY DEF Init, Outstanding, Blocked, InLoop
<1>3. BatchesDisjoint
  BY DEF Init, BatchesDisjoint
<1>4. Roles
  BY MasterIsNoWorker DEF Init, Roles, Threads
<1>5. CountersCover /\ TodoCountsOutstanding
  BY <1>2, FS_EmptySet DEF Init, CountersCover, TodoCountsOutstanding
<1>6. FailureNotLost /\ FailureNotInvented
  BY DEF Init, FailureNotLost, FailureNotInvented
<1>7. NothingLeftBehind /\ VerdictCorrect
  BY <1>2 DEF Init, NothingLeftBehind, VerdictCorrect
<1> QED
  BY <1>1, <1>2, <1>3, <1>4, <1>5, <1>6, <1>7 DEF IndInv

\* Add keeps the invariant: the new checks are outstanding and unaccounted.
LEMMA AddStep ==
  ASSUME IndInv, NEW S \in SUBSET Checks, NEW F \in SUBSET S, Add(S, F)
  PROVE  IndInv'
<1>a. TypeOK /\ Master \in Threads /\ pc[Master] = "adding"
  BY DEF IndInv, Threads, Add
<1>1. /\ pc' \in [Threads -> PCs]
      /\ \A u \in Threads : \/ pc'[u] = pc[u]
                            \/ u \in Workers /\ pc[u] = "wait" /\ pc'[u] = "woken"
  BY <1>a, MasterIsNoWorker DEF Add, NotifyWorkers, TypeOK, PCs, Threads
<1>2. pc'[Master] = "adding"
  BY <1>1, <1>a, MasterIsNoWorker
<1>3. S \cap Outstanding = {} /\ S \cap added = {}
  BY DEF Add, IndInv
<1>4. Outstanding' = Outstanding \cup S
  BY DEF Add, Outstanding
<1>5. /\ IsFiniteSet(S) /\ IsFiniteSet(Outstanding)
      /\ Cardinality(S) \in Nat /\ Cardinality(Outstanding) \in Nat
      /\ Cardinality(Outstanding') = Cardinality(Outstanding) + Cardinality(S)
  <2>1. IsFiniteSet(S) /\ IsFiniteSet(Outstanding)
    BY <1>a, ChecksFinite, FS_Subset, Finiteness
  <2>2. Cardinality(Outstanding \cap S) = 0
    BY <1>3, FS_EmptySet
  <2>3. Cardinality(S) \in Nat /\ Cardinality(Outstanding) \in Nat
    BY <2>1, FS_CardinalityType
  <2>4. Cardinality(Outstanding \cup S)
          = Cardinality(Outstanding) + Cardinality(S) - Cardinality(Outstanding \cap S)
    BY <2>1, FS_Union
  <2> QED
    BY <1>4, <2>1, <2>2, <2>3, <2>4
<1>6. TypeOK'
  BY <1>a, <1>1, <1>5 DEF Add, TypeOK
<1>7. BatchesDisjoint'
  BY <1>1, <1>3 DEF Add, IndInv, BatchesDisjoint, Outstanding
<1>8. Roles'
  BY <1>1, <1>2, MasterIsNoWorker DEF IndInv, Roles, Threads
<1>9. CountersCover'
  <2>1. Blocked' = Blocked /\ InLoop' = InLoop
    BY <1>1 DEF Add, Blocked, InLoop
  <2> QED
    BY <2>1 DEF Add, IndInv, CountersCover
<1>10. TodoCountsOutstanding'
  BY <1>5 DEF Add, IndInv, TodoCountsOutstanding
<1>11. Outstanding' \subseteq added'
  BY <1>4 DEF Add, IndInv
<1>12. added' \cap fails' = (added \cap fails) \cup F
  BY <1>3 DEF Add
<1>13. FailureNotLost'
  <2> SUFFICES ASSUME NEW c \in added' \cap fails'
               PROVE  \/ c \in queue'
                      \/ ~fAllOk'
                      \/ \E u \in Threads : pc'[u] = "work" /\ c \in batch'[u]
                      \/ \E u \in Threads :
                            pc'[u] = "lock" /\ batch'[u] # {} /\ ~fOk'[u]
    BY DEF FailureNotLost
  <2>1. CASE c \in F
    BY <2>1 DEF Add
  <2>2. CASE c \in added \cap fails
    BY <2>2, <1>a, <1>1 DEF Add, IndInv, FailureNotLost
  <2> QED
    BY <2>1, <2>2, <1>12
<1>14. FailureNotInvented'
  BY <1>12 DEF Add, IndInv, FailureNotInvented
<1>15. NothingLeftBehind' /\ VerdictCorrect'
  BY <1>2 DEF NothingLeftBehind, VerdictCorrect
<1> QED
  BY <1>6, <1>7, <1>8, <1>9, <1>10, <1>11, <1>13, <1>14, <1>15 DEF IndInv

\* A step that changes only pc, and only in ways the counters and the
\* evidence of failures do not see, keeps the invariant.
LEMMA PcStep ==
  ASSUME IndInv, NEW t \in Threads,
         UNCHANGED <<shared, batch, fOk, fails, added, verdict>>,
         pc' \in [Threads -> PCs], interrupted' \in SUBSET Threads,
         \A u \in Threads \ {t} : pc'[u] = pc[u],
         pc[t] = "work" <=> pc'[t] = "work",
         pc[t] = "lock" => pc'[t] = "lock",
         pc'[t] \in {"wait", "woken"} => pc[t] \in {"wait", "woken"},
         pc[Master] = "out" <=> pc'[Master] = "out",
         t \in Workers => pc'[t] \notin {"out", "adding"},
         t = Master => pc'[t] # "dead"
  PROVE  IndInv'
<1>a. TypeOK /\ Master \in Threads
  BY DEF IndInv, Threads
<1>1. TypeOK'
  BY <1>a DEF TypeOK, shared
<1>2. Outstanding' = Outstanding
  BY DEF Outstanding, shared
<1>3. BatchesDisjoint'
  BY DEF IndInv, BatchesDisjoint, shared
<1>4. Roles'
  BY MasterIsNoWorker DEF IndInv, Roles, Threads
<1>5. CountersCover'
  <2>1. Blocked' \subseteq Blocked /\ InLoop' \subseteq InLoop
    BY DEF Blocked, InLoop
  <2>2. IsFiniteSet(Blocked) /\ IsFiniteSet(InLoop)
    BY <1>a, Finiteness
  <2>3. /\ Cardinality(Blocked') <= Cardinality(Blocked)
        /\ Cardinality(InLoop') <= Cardinality(InLoop)
        /\ Cardinality(Blocked) \in Nat /\ Cardinality(InLoop) \in Nat
        /\ Cardinality(Blocked') \in Nat /\ Cardinality(InLoop') \in Nat
    <3>1. IsFiniteSet(Blocked') /\ IsFiniteSet(InLoop')
      BY <2>1, <2>2, FS_Subset
    <3> QED
      BY <2>1, <2>2, <3>1, FS_Subset, FS_CardinalityType
  <2> QED
    BY <2>3, <1>a DEF IndInv, CountersCover, shared, TypeOK
<1>6. TodoCountsOutstanding' /\ Outstanding' \subseteq added'
  BY <1>2 DEF IndInv, TodoCountsOutstanding, shared
<1>7. FailureNotLost'
  BY DEF IndInv, FailureNotLost, shared
<1>8. FailureNotInvented'
  BY DEF IndInv, FailureNotInvented, shared
<1>9. NothingLeftBehind' /\ VerdictCorrect'
  BY <1>2 DEF IndInv, NothingLeftBehind, VerdictCorrect, shared
<1> QED
  BY <1>1, <1>3, <1>4, <1>5, <1>6, <1>7, <1>8, <1>9 DEF IndInv

\* A new control starts with nothing outstanding, so it may forget the checks
\* of the previous session.
LEMMA ControlStep == IndInv /\ Control => IndInv'
<1> SUFFICES ASSUME IndInv, Control PROVE IndInv'
  OBVIOUS
<1>a. TypeOK /\ Master \in Threads /\ pc[Master] = "out"
  BY DEF IndInv, Threads, Control
<1>1. Outstanding = {} /\ nTodo = 0 /\ fAllOk
  BY <1>a DEF IndInv, NothingLeftBehind
<1>2. Outstanding' = Outstanding
  BY DEF Control, Outstanding, shared
<1>3. /\ pc' \in [Threads -> PCs] /\ pc'[Master] = "adding"
      /\ \A u \in Threads \ {Master} : pc'[u] = pc[u]
  BY <1>a DEF Control, TypeOK, PCs
<1>4. \A u \in Threads : batch'[u] = {}
  BY <1>1 DEF Control, Outstanding
<1>5. TypeOK'
  BY <1>a, <1>3 DEF Control, TypeOK, shared
<1>6. BatchesDisjoint'
  BY <1>3, <1>4 DEF Control, IndInv, BatchesDisjoint
<1>7. Roles'
  BY <1>3, MasterIsNoWorker DEF IndInv, Roles, Threads
<1>8. CountersCover'
  <2>1. Blocked' = Blocked /\ InLoop' = InLoop
    BY <1>a, <1>3 DEF Control, Blocked, InLoop
  <2> QED
    BY <2>1 DEF Control, shared, IndInv, CountersCover
<1>9. TodoCountsOutstanding' /\ Outstanding' \subseteq added'
  BY <1>1, <1>2 DEF Control, shared, IndInv, TodoCountsOutstanding
<1>10. FailureNotLost' /\ FailureNotInvented'
  BY <1>1, <1>4 DEF Control, shared, FailureNotLost, FailureNotInvented
<1>11. NothingLeftBehind' /\ VerdictCorrect'
  BY <1>3 DEF NothingLeftBehind, VerdictCorrect
<1> QED
  BY <1>5, <1>6, <1>7, <1>8, <1>9, <1>10, <1>11 DEF IndInv

LEMMA WaitStep == IndInv /\ Wait => IndInv'
<1> SUFFICES ASSUME IndInv, Wait PROVE IndInv'
  OBVIOUS
<1>a. TypeOK /\ Master \in Threads /\ pc[Master] = "adding"
  BY DEF IndInv, Threads, Wait
<1>1. batch[Master] = {}
  BY <1>a DEF IndInv, BatchesDisjoint
<1>2. batch' = batch
  BY <1>a, <1>1 DEF Wait, TypeOK
<1>3. /\ pc' \in [Threads -> PCs] /\ pc'[Master] = "lock"
      /\ \A u \in Threads \ {Master} : pc'[u] = pc[u]
  BY <1>a DEF Wait, TypeOK, PCs
<1>4. interrupted' \in SUBSET Threads
  BY <1>a DEF Wait, TypeOK
<1> QED
  BY <1>a, <1>2, <1>3, <1>4, PcStep, MasterIsNoWorker DEF Wait

\* A batch that contains a failing check ends with a negative local verdict.
LEMMA WorkStep ==
  ASSUME IndInv, NEW t \in Threads, Work(t)
  PROVE  IndInv'
<1>a. TypeOK /\ Master \in Threads /\ pc[t] = "work" /\ batch[t] # {}
  BY DEF IndInv, Threads, Work, BatchesDisjoint
<1>1. /\ pc' \in [Threads -> PCs] /\ pc'[t] = "lock"
      /\ \A u \in Threads \ {t} : pc'[u] = pc[u]
  BY <1>a DEF Work, TypeOK, PCs
<1>2. /\ fOk' \in [Threads -> BOOLEAN]
      /\ \A u \in Threads \ {t} : fOk'[u] = fOk[u]
      /\ fOk'[t] <=> fOk[t] /\ batch[t] \cap fails = {}
  BY <1>a, Zenon DEF Work, TypeOK
<1>3. pc[Master] # "out" /\ pc'[Master] # "out"
  <2>1. pc[Master] # "out"
    BY <1>a DEF IndInv, NothingLeftBehind, Outstanding
  <2> QED
    BY <2>1, <1>a, <1>1
<1>4. TypeOK'
  BY <1>a, <1>1, <1>2 DEF Work, shared, TypeOK
<1>5. Outstanding' = Outstanding
  BY DEF Work, shared, Outstanding
<1>6. BatchesDisjoint'
  BY <1>a, <1>1 DEF Work, shared, IndInv, BatchesDisjoint
<1>7. Roles'
  BY <1>1, MasterIsNoWorker DEF IndInv, Roles, Threads
<1>8. CountersCover'
  <2>1. Blocked' = Blocked /\ InLoop' = InLoop
    BY <1>a, <1>1 DEF Work, Blocked, InLoop
  <2> QED
    BY <2>1 DEF Work, shared, IndInv, CountersCover
<1>9. TodoCountsOutstanding' /\ Outstanding' \subseteq added'
  BY <1>5 DEF Work, shared, IndInv, TodoCountsOutstanding
<1>10. FailureNotLost'
  <2> SUFFICES ASSUME NEW c \in added \cap fails
               PROVE  \/ c \in queue
                      \/ ~fAllOk
                      \/ \E u \in Threads : pc'[u] = "work" /\ c \in batch[u]
                      \/ \E u \in Threads :
                            pc'[u] = "lock" /\ batch[u] # {} /\ ~fOk'[u]
    BY DEF FailureNotLost, Work, shared
  <2>1. \/ c \in queue
        \/ ~fAllOk
        \/ \E u \in Threads : pc[u] = "work" /\ c \in batch[u]
        \/ \E u \in Threads : pc[u] = "lock" /\ batch[u] # {} /\ ~fOk[u]
    BY <1>3 DEF IndInv, FailureNotLost
  <2>2. c \in batch[t] => ~fOk'[t]
    BY <1>2
  <2> QED
    BY <1>a, <1>1, <1>2, <2>1, <2>2
<1>11. FailureNotInvented'
  <2>1. batch[t] \cap fails # {} => added \cap fails # {}
    BY DEF IndInv, Outstanding
  <2>2. ~fOk'[t] => added \cap fails # {}
    BY <2>1, <1>a, <1>2 DEF IndInv, FailureNotInvented
  <2> QED
    BY <2>2, <1>2 DEF Work, shared, IndInv, FailureNotInvented
<1>12. NothingLeftBehind' /\ VerdictCorrect'
  BY <1>3 DEF NothingLeftBehind, VerdictCorrect
<1> QED
  BY <1>4, <1>6, <1>7, <1>8, <1>9, <1>10, <1>11, <1>12 DEF IndInv

LEMMA SpuriousStep ==
  ASSUME IndInv, NEW t \in Threads, Spurious(t)
  PROVE  IndInv'
<1>1. /\ pc[t] = "wait" /\ pc' \in [Threads -> PCs] /\ pc'[t] = "woken"
      /\ \A u \in Threads \ {t} : pc'[u] = pc[u]
      /\ interrupted' \in SUBSET Threads
  BY DEF IndInv, Spurious, TypeOK, PCs
<1>2. pc[Master] = "out" <=> pc'[Master] = "out"
  BY <1>1 DEF Threads
<1> QED
  BY <1>1, <1>2, PcStep DEF Spurious

LEMMA InterruptAllStep == IndInv /\ InterruptAll => IndInv'
<1> SUFFICES ASSUME IndInv, InterruptAll PROVE IndInv'
  OBVIOUS
<1>1. Master \in Threads /\ pc' = pc /\ pc \in [Threads -> PCs]
  BY DEF Threads, InterruptAll, IndInv, TypeOK
<1>2. interrupted' \in SUBSET Threads
  BY DEF InterruptAll, Threads
<1> QED
  BY <1>1, <1>2, PcStep, MasterIsNoWorker DEF InterruptAll, IndInv, Roles

LEMMA InterruptedStep ==
  ASSUME IndInv, NEW t \in Threads, Interrupted(t)
  PROVE  IndInv'
<1>1. /\ pc[t] \in {"wait", "woken"} /\ pc' \in [Threads -> PCs]
      /\ pc'[t] = IF t = Master THEN "lock" ELSE "dead"
      /\ \A u \in Threads \ {t} : pc'[u] = pc[u]
      /\ interrupted' \in SUBSET Threads
  BY DEF IndInv, Interrupted, TypeOK, PCs
<1>2. pc[Master] = "out" <=> pc'[Master] = "out"
  BY <1>1 DEF Threads
<1> QED
  BY <1>1, <1>2, PcStep DEF Interrupted

\* Every step keeps the invariant.
LEMMA NextIndInv == IndInv /\ [Next]_vars => IndInv'
<1> SUFFICES ASSUME IndInv, [Next]_vars PROVE IndInv'
  OBVIOUS
<1>1. CASE Control
  BY <1>1, ControlStep
<1>2. CASE Wait
  BY <1>2, WaitStep
<1>3. CASE InterruptAll
  BY <1>3, InterruptAllStep
<1>4. ASSUME NEW S \in SUBSET Checks, NEW F \in SUBSET S, Add(S, F)
      PROVE  IndInv'
  BY <1>4, AddStep
<1>5. ASSUME NEW t \in Threads, Enter(t) PROVE IndInv'
  BY <1>5, EnterHandover, LoopStep DEF Enter
<1>6. ASSUME NEW t \in Threads, Resume(t) PROVE IndInv'
  BY <1>6, ResumeHandover, LoopStep DEF Resume
<1>7. ASSUME NEW t \in Threads, Work(t) PROVE IndInv'
  BY <1>7, WorkStep
<1>8. ASSUME NEW t \in Threads, Spurious(t) PROVE IndInv'
  BY <1>8, SpuriousStep
<1>9. ASSUME NEW t \in Threads, Interrupted(t) PROVE IndInv'
  BY <1>9, InterruptedStep
<1>10. CASE UNCHANGED vars
  BY <1>10, SMTT(40) DEF vars, shared, IndInv, TypeOK, BatchesDisjoint, Roles,
     CountersCover, Blocked, InLoop, TodoCountsOutstanding, Outstanding,
     FailureNotLost, FailureNotInvented, NothingLeftBehind, VerdictCorrect
<1> QED
  BY <1>1, <1>2, <1>3, <1>4, <1>5, <1>6, <1>7, <1>8, <1>9, <1>10 DEF Next

\* The invariant holds in every reachable state, whatever the number of
\* workers, checks and the batch size.
THEOREM Invariance == Spec => []IndInv
<1> QED
  BY InitIndInv, NextIndInv, PTL DEF Spec

\* Type correctness: in particular `nTodo -= nNow', `nIdle--' and `nTotal--'
\* on the unsigned/int counters never go below zero.
THEOREM TypeCorrect == Spec => []TypeOK
<1>1. IndInv => TypeOK
  BY DEF IndInv
<1> QED
  BY <1>1, Invariance, PTL

\* nTodo counts the outstanding checks exactly.
THEOREM TodoExact == Spec => []TodoCountsOutstanding
<1>1. IndInv => TodoCountsOutstanding
  BY DEF IndInv
<1> QED
  BY <1>1, Invariance, PTL

\* The answer of Wait() is the conjunction of the checks of its session.
THEOREM VerdictIsCorrect == Spec => []VerdictCorrect
<1>1. IndInv => VerdictCorrect
  BY DEF IndInv
<1> QED
  BY <1>1, Invariance, PTL

\* A finished session leaves an empty queue, no running check and a reset
\* fAllOk for the next block.
THEOREM SessionsAreSeparate == Spec => []NothingLeftBehind
<1>1. IndInv => NothingLeftBehind
  BY DEF IndInv
<1> QED
  BY <1>1, Invariance, PTL
=============================================================================
