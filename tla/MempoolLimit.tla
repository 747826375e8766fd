---------------------------- MODULE MempoolLimit ----------------------------
(***************************************************************************)
(* The two data structures that bound the memory pool (mempool_limit.h,    *)
(* mempool_limit.cpp): WeightedTxTree, from which a transaction is drawn   *)
(* at random in proportion to its eviction weight when the pool costs too  *)
(* much, and RecentlyEvictedList, which keeps what was drawn from coming   *)
(* back for a while.  Both are values here; Mempool holds them in its      *)
(* state.  Indices start at 1, so the parent of node i is i \div 2 and its *)
(* children are 2i and 2i + 1.                                             *)
(***************************************************************************)
EXTENDS Integers, Sequences, FiniteSets, FiniteSetsExt, SequencesExt

CONSTANTS Cost,             \* transaction -> its cost, max(memory usage, MIN_TX_COST)
          EvictionWeight,   \* transaction -> its cost, plus the low fee penalty
          CostLimit,        \* WeightedTxTree::capacity
          EvictedCapacity,  \* RecentlyEvictedList::capacity
          TimeToKeep        \* RecentlyEvictedList::timeToKeep

Zero == [cost |-> 0, weight |-> 0]

Plus(a, b) == [cost |-> a.cost + b.cost, weight |-> a.weight + b.weight]

Negate(a) == [cost |-> -a.cost, weight |-> -a.weight]

TxWeight(tx) == [cost |-> Cost[tx], weight |-> EvictionWeight[tx]]

-----------------------------------------------------------------------------
(* WeightedTxTree: txs is txIdAndWeights (the index map is its inverse),   *)
(* child[i] the weight of everything below node i.                         *)

EmptyTree == [txs |-> << >>, child |-> << >>]

GetWeightAt(t, i) ==
    IF i <= Len(t.txs) THEN Plus(TxWeight(t.txs[i]), t.child[i]) ELSE Zero

Ancestors(i) == {i \div (2^k) : k \in 1..i} \ {0}

\* (mutant) only the parent learns of the change
BackPropagateParent(child, i, delta) ==
    [j \in DOMAIN child |-> IF j = i \div 2 THEN Plus(child[j], delta) ELSE child[j]]

BackPropagate(child, i, delta) ==
    [j \in DOMAIN child |->
        IF j \in Ancestors(i) THEN Plus(child[j], delta) ELSE child[j]]

TreeAdd(t, tx) ==
    IF tx \in Range(t.txs) THEN t
    ELSE [txs   |-> Append(t.txs, tx),
          child |-> BackPropagate(Append(t.child, Zero), Len(t.txs) + 1, TxWeight(tx))]

\* (mutant) the ancestors of the hole keep the weight of what was there
TreeRemoveStale(t, tx) ==
    IF tx \notin Range(t.txs) THEN t
    ELSE LET n  == Len(t.txs)
             at == CHOOSE i \in 1..n : t.txs[i] = tx
         IN  [txs   |-> Front([t.txs EXCEPT ![at] = t.txs[n]]),
              child |-> Front(BackPropagate(t.child, n, Negate(TxWeight(t.txs[n]))))]

\* the last transaction takes the place of the removed one
TreeRemove(t, tx) ==
    IF tx \notin Range(t.txs) THEN t
    ELSE LET n     == Len(t.txs)
             at    == CHOOSE i \in 1..n : t.txs[i] = tx
             last  == TxWeight(t.txs[n])
             less  == BackPropagate(t.child, n, Negate(last))
             moved == IF at < n
                        THEN BackPropagate(less, at, Plus(last, Negate(TxWeight(tx))))
                        ELSE less
         IN  [txs   |-> Front([t.txs EXCEPT ![at] = t.txs[n]]),
              child |-> Front(moved)]

\* the node that owns the point w of the line of all eviction weights: the
\* left subtree first, then the node itself, then the right subtree
FindByEvictionWeight(t, w) ==
    LET find[i \in 1..(2 * Len(t.txs) + 1), x \in 0..w] ==
            LET left  == GetWeightAt(t, 2 * i).weight
                right == GetWeightAt(t, i).weight - GetWeightAt(t, 2 * i + 1).weight
            IN  CASE x < left  -> find[2 * i, x]
                  [] x >= left /\ x < right -> i
                  [] OTHER     -> find[2 * i + 1, x - right]
    IN  find[1, w]

\* the transactions maybeDropRandom may draw
Drawn(t) ==
    IF GetWeightAt(t, 1).cost <= CostLimit THEN {}
    ELSE {t.txs[FindByEvictionWeight(t, w)] : w \in 0..(GetWeightAt(t, 1).weight - 1)}

-----------------------------------------------------------------------------
(* RecentlyEvictedList: entries in the order they were added, and the set  *)
(* the lookups use.                                                        *)

NoneEvicted == [list |-> << >>, set |-> {}]

Prune(e, now) ==
    LET old  == {i \in DOMAIN e.list : \A j \in 1..i : now - e.list[j].time > TimeToKeep}
        gone == {e.list[i].tx : i \in old}
    IN  IF e.set = {} THEN e
        ELSE [list |-> SubSeq(e.list, Cardinality(old) + 1, Len(e.list)), set |-> e.set \ gone]

AddEvicted(e, tx, now) ==
    LET p == Prune(e, now)
        q == IF Len(p.list) = EvictedCapacity
               THEN [list |-> Tail(p.list), set |-> p.set \ {Head(p.list).tx}]
               ELSE p
    IN  [list |-> Append(q.list, [tx |-> tx, time |-> now]), set |-> q.set \union {tx}]
=============================================================================
