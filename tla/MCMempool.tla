----------------------------- MODULE MCMempool -----------------------------
(***************************************************************************)
(* A small instance of Mempool.  Coinbases c1, c2, d2, ... compete for the *)
(* heights 1 to 5.  a spends c1 and has the child b, final at height 3; e  *)
(* spends c2 and the other output of a; x double spends a's input and is   *)
(* not standard, so only a block brings it; z adds a note and expires at   *)
(* height 3; s and t both spend that note, t in the second epoch.          *)
(***************************************************************************)
EXTENDS Mempool

MCCoinbases == {"c1", "c2", "d2", "c3", "d3", "c4", "c5"}
MCCbHeight == [c1 |-> 1, c2 |-> 2, d2 |-> 2, c3 |-> 3, d3 |-> 3, c4 |-> 4, c5 |-> 5]

Spec1(ins, outs, nfs, anchor, expiry, lock, branch, cost, weight) ==
    [ins |-> ins, outs |-> outs, nfs |-> nfs, anchor |-> anchor, expiry |-> expiry,
     lock |-> lock, branch |-> branch, cost |-> cost, weight |-> weight]

Table ==
    [a |-> Spec1({<<"c1", 1>>}, 2, {}, << >>, 0, 0, 1, 1, 1),
     b |-> Spec1({<<"a", 1>>},  1, {}, << >>, 0, 3, 1, 1, 2),
     x |-> Spec1({<<"c1", 1>>}, 0, {}, << >>, 0, 0, 1, 1, 1),
     e |-> Spec1({<<"c2", 1>>, <<"a", 2>>}, 0, {}, << >>, 0, 0, 1, 2, 2),
     z |-> Spec1({}, 0, {"n0"}, << >>, 3, 0, 1, 1, 1),
     s |-> Spec1({}, 0, {"n1"}, <<"z">>, 0, 0, 1, 1, 1),
     t |-> Spec1({}, 0, {"n1"}, <<"z">>, 0, 0, 2, 1, 1)]

MCTxs == DOMAIN Table
MCInputs == [tx \in MCTxs |-> Table[tx].ins] @@ [c \in MCCoinbases |-> {}]
MCOutputs == [tx \in MCTxs |-> Table[tx].outs] @@ [c \in MCCoinbases |-> 1]
MCNullifiers == [tx \in MCTxs |-> Table[tx].nfs] @@ [c \in MCCoinbases |-> {}]
MCAnchor == [tx \in MCTxs |-> Table[tx].anchor]
MCExpiry == [tx \in MCTxs |-> Table[tx].expiry]
MCLock == [tx \in MCTxs |-> Table[tx].lock]
MCBranch == [tx \in MCTxs |-> Table[tx].branch]
MCCost == [tx \in MCTxs |-> Table[tx].cost]
MCWeight == [tx \in MCTxs |-> Table[tx].weight]
MCCommits == {"z"}
MCStandard == MCTxs \ {"x"}
MCBodies == {<< >>, <<"a", "b">>, <<"a", "e">>, <<"z", "a">>} \union {<<tx>> : tx \in MCTxs}
MCFirstChain == <<[cb |-> "c1", txs |-> << >>]>>
=============================================================================
