------------------------------ MODULE Mempool ------------------------------
(***************************************************************************)
(* The memory pool (txmempool.cpp), what enters it (AcceptToMemoryPool)    *)
(* and what every step of the active chain does to it: DisconnectTip puts  *)
(* the transactions of a block back, ConnectTip takes out what a block     *)
(* mined or made impossible, ActivateBestChainStep and InvalidateBlock     *)
(* finish with removeForReorg and removeWithoutBranchId.                   *)
(*                                                                         *)
(* A transaction is a name; the constants give its inputs, outputs,        *)
(* nullifiers, anchor and so on.  The coins view is a function of the      *)
(* chain, which is what Chainstate and ShieldedCache establish; Sprout and *)
(* Sapling spends obey the same rules and are modelled once.               *)
(* mapRecentlyAddedTx is in WalletNotes; the address and spent indexes of  *)
(* the pool are left out.                                                  *)
(***************************************************************************)
EXTENDS MempoolLimit

CONSTANTS Txs,          \* transactions that are not coinbases
          Coinbases,    \* coinbase transactions, of one output each
          CbHeight,     \* coinbase -> the height it commits to
          Inputs,       \* transaction -> set of outpoints <<tx, n>>, none for a coinbase
          Outputs,      \* transaction -> number of transparent outputs
          Nullifiers,   \* transaction -> set of nullifiers, none for a coinbase
          Anchor,       \* transaction -> the note tree it spends from
          Commits,      \* transactions that add to the note tree
          Expiry,       \* transaction -> nExpiryHeight, 0 for none
          LockHeight,   \* transaction -> nLockTime, 0 for none
          Branch,       \* transaction -> the epoch it signs for
          Standard,     \* transactions that policy accepts
          Activation,   \* height at which epoch 2 starts
          Maturity,     \* COINBASE_MATURITY
          Soon,         \* TX_EXPIRING_SOON_THRESHOLD
          FirstChain,   \* the chain at the start, a sequence of blocks
          MaxHeight,    \* bound: height of the active chain
          MaxReorg,     \* bound: blocks one step disconnects
          Bodies,       \* bound: what blocks hold besides their coinbase
          MaxTime       \* bound: GetTime()

ASSUME MempoolAssumption ==
    /\ Maturity \in Nat /\ MaxReorg \in Nat /\ CostLimit \in Nat
    /\ \A tx \in Txs : Inputs[tx] # {} \/ Nullifiers[tx] # {}
    /\ \A tx \in Txs : Cost[tx] > 0 /\ EvictionWeight[tx] >= Cost[tx]
    /\ EvictedCapacity > 0

VARIABLES chain,     \* active chain above genesis: [cb, txs] by height
          pool,      \* CTxMemPool, see EmptyPool
          phase,     \* "idle", "disconnecting" or "connecting"
          fBlocksDisconnected,
          oldHeight, \* height of the tip when the step began
          now        \* GetTime()

vars == <<chain, pool, phase, fBlocksDisconnected, oldHeight, now>>

-----------------------------------------------------------------------------
(* The coins view at the tip of chain c.                                   *)

BlockTxs(b) == <<b.cb>> \o b.txs

ChainTxs(c) == UNION {Range(BlockTxs(c[h])) : h \in DOMAIN c}

Mined(c) == ChainTxs(c) \intersect Txs

Created(S) == UNION {{<<tx, n>> : n \in 1..Outputs[tx]} : tx \in S}

Unspent(c) == Created(ChainTxs(c)) \ UNION {Inputs[tx] : tx \in Mined(c)}

Spent(c) == UNION {Nullifiers[tx] : tx \in Mined(c)}

BlockNotes(b) == SelectSeq(b.txs, LAMBDA tx : tx \in Commits)

Root(c) == FlattenSeq([h \in DOMAIN c |-> BlockNotes(c[h])])

Anchors(c) == {Root(SubSeq(c, 1, h)) : h \in 0..Len(c)}

EpochBranchId(height) == IF height >= Activation THEN 2 ELSE 1

-----------------------------------------------------------------------------
(* Rules for a transaction at a height.                                    *)

IsFinalTx(tx, height) == LockHeight[tx] = 0 \/ LockHeight[tx] < height

IsExpiredTx(tx, height) == Expiry[tx] # 0 /\ height > Expiry[tx]

IsExpiringSoonTx(tx, nextHeight) == IsExpiredTx(tx, nextHeight + Soon)

Mature(tx, spendHeight) ==
    \A o \in Inputs[tx] : o[1] \in Coinbases => spendHeight - CbHeight[o[1]] >= Maturity

-----------------------------------------------------------------------------
(* CTxMemPool.  entry is mapTx, next mapNextTx, nf the nullifier maps.     *)

NoFcn == [x \in {} |-> x]

EmptyPool == [entry |-> NoFcn, next |-> NoFcn, nf |-> NoFcn,
              tree  |-> EmptyTree, evicted |-> NoneEvicted]

InPool(p, tx) == tx \in DOMAIN p.entry

AddUnchecked(p, tx, e) ==
    [p EXCEPT !.tree  = TreeAdd(@, tx),
              !.entry = (tx :> e) @@ @,
              !.next  = [o \in Inputs[tx] |-> tx] @@ @,
              !.nf    = [n \in Nullifiers[tx] |-> tx] @@ @]

\* the transactions spending the outputs of tx, in the order of the outputs
Children(p, tx) ==
    LET outs == SelectSeq([n \in 1..Outputs[tx] |-> <<tx, n>>],
                          LAMBDA o : o \in DOMAIN p.next)
    IN  [i \in DOMAIN outs |-> p.next[outs[i]]]

\* (mutant) the nullifiers of a removed transaction stay
UnlinkInputs(p, tx) ==
    [p EXCEPT !.entry = Restrict(@, DOMAIN @ \ {tx}),
              !.next  = Restrict(@, DOMAIN @ \ Inputs[tx])]

Unlink(p, tx) ==
    [p EXCEPT !.entry = Restrict(@, DOMAIN @ \ {tx}),
              !.next  = Restrict(@, DOMAIN @ \ Inputs[tx]),
              !.nf    = Restrict(@, DOMAIN @ \ Nullifiers[tx])]

\* one turn of the loop over txToRemove
RemoveStep(s, recursive) ==
    LET tx   == Head(s.todo)
        more == IF recursive THEN Children(s.pool, tx) ELSE << >>
    IN  CASE s.todo = << >>          -> s
          [] ~InPool(s.pool, tx)     -> [s EXCEPT !.todo = Tail(@)]
          [] OTHER -> [todo    |-> Tail(s.todo) \o more,
                       pool    |-> Unlink(s.pool, tx),
                       removed |-> Append(s.removed, tx)]

RemoveTx(p, tx, recursive) ==
    LET start == <<tx>> \o IF recursive /\ ~InPool(p, tx) THEN Children(p, tx) ELSE << >>
        turns == Len(start) + Cardinality(DOMAIN p.next)
        done  == FoldLeft(LAMBDA s, i : RemoveStep(s, recursive),
                          [todo |-> start, pool |-> p, removed |-> << >>],
                          [i \in 1..turns |-> i])
    IN  [done.pool EXCEPT !.tree = FoldLeft(TreeRemove, @, done.removed)]

\* remove, recursively, what a sweep over the pool has collected
Sweep(p, bad) ==
    FoldLeft(LAMBDA q, tx : RemoveTx(q, tx, TRUE), p, SetToSeq(bad))

RemoveForReorg(p, c) ==
    LET immature(tx) ==
            \E o \in Inputs[tx] :
                /\ ~InPool(p, o[1])
                /\ \/ o[1] \notin {u[1] : u \in Unspent(c)}
                   \/ o[1] \in Coinbases /\ Len(c) + 1 - CbHeight[o[1]] < Maturity
    IN  Sweep(p, {tx \in DOMAIN p.entry : \/ ~IsFinalTx(tx, Len(c) + 1)
                                          \/ p.entry[tx].spendsCoinbase /\ immature(tx)})

RemoveWithAnchor(p, root) ==
    Sweep(p, {tx \in DOMAIN p.entry : Nullifiers[tx] # {} /\ Anchor[tx] = root})

RemoveExpired(p, height) ==
    Sweep(p, {tx \in DOMAIN p.entry : IsExpiredTx(tx, height)})

RemoveWithoutBranchId(p, id) ==
    Sweep(p, {tx \in DOMAIN p.entry : p.entry[tx].branch # id})

\* the pool's transactions that spend what tx spends
Conflicts(p, tx) ==
    ({p.next[o] : o \in Inputs[tx] \intersect DOMAIN p.next}
        \union {p.nf[n] : n \in Nullifiers[tx] \intersect DOMAIN p.nf}) \ {tx}

RemoveConflicts(p, tx) == Sweep(p, Conflicts(p, tx))

RemoveForBlock(p, txs) ==
    FoldLeft(LAMBDA q, tx : RemoveConflicts(RemoveTx(q, tx, FALSE), tx), p, txs)

\* one turn of the loop of EnsureSizeLimit: every pool it may lead to
EvictOnce(p) ==
    IF Drawn(p.tree) = {} THEN {p}
    ELSE {RemoveTx([p EXCEPT !.tree = TreeRemove(@, tx),
                           !.evicted = AddEvicted(@, tx, now)], tx, TRUE) : tx \in Drawn(p.tree)}

EnsureSizeLimit(p) ==
    FoldLeft(LAMBDA ps, i : UNION {EvictOnce(q) : q \in ps}, {p},
             [i \in 1..Len(p.tree.txs) |-> i])

-----------------------------------------------------------------------------
(* AcceptToMemoryPool for coins at the tip of c when chainActive.Height()  *)
(* is height (DisconnectTip calls it before it moves chainActive).         *)

\* (mutant) resurrected transactions were valid once: no look at the eviction list
AcceptableAgain(p, c, height, tx) ==
    /\ ~IsExpiringSoonTx(tx, height + 1) /\ tx \in Standard /\ IsFinalTx(tx, height + 1)
    /\ ~InPool(p, tx)
    /\ Inputs[tx] \intersect DOMAIN p.next = {} /\ Nullifiers[tx] \intersect DOMAIN p.nf = {}
    /\ tx \notin {o[1] : o \in Unspent(c)}
    /\ \A o \in Inputs[tx] : InPool(p, o[1]) \/ o \in Unspent(c)
    /\ Nullifiers[tx] \intersect Spent(c) = {}
    /\ Nullifiers[tx] # {} => Anchor[tx] \in Anchors(c)
    /\ Mature(tx, Len(c) + 1) /\ Branch[tx] = EpochBranchId(height + 1)

Acceptable(p, c, height, tx) ==
    /\ tx \notin p.evicted.set
    /\ ~IsExpiringSoonTx(tx, height + 1)
    /\ tx \in Standard
    /\ IsFinalTx(tx, height + 1)
    /\ ~InPool(p, tx)
    /\ Inputs[tx] \intersect DOMAIN p.next = {}
    /\ Nullifiers[tx] \intersect DOMAIN p.nf = {}
    /\ tx \notin {o[1] : o \in Unspent(c)}
    /\ \A o \in Inputs[tx] :
          IF InPool(p, o[1]) THEN o[2] <= Outputs[o[1]] ELSE o \in Unspent(c)
    /\ Nullifiers[tx] \intersect Spent(c) = {}
    /\ Nullifiers[tx] # {} => Anchor[tx] \in Anchors(c)
    /\ Mature(tx, Len(c) + 1)
    /\ Branch[tx] = EpochBranchId(height + 1)

NewEntry(tx, height) ==
    [spendsCoinbase |-> \E o \in Inputs[tx] : o[1] \in Coinbases,
     branch         |-> EpochBranchId(height + 1)]

\* the call returns FALSE: only the eviction list was pruned
Refused(p) == [p EXCEPT !.evicted = Prune(@, now)]

\* the pools the call may leave, given that it returns TRUE
Accepted(p, height, tx) == EnsureSizeLimit(AddUnchecked(Refused(p), tx, NewEntry(tx, height)))

\* (mutant) a coinbase that goes leaves its children
ResurrectLoose(p, c, height, tx) ==
    IF tx \notin Coinbases /\ Acceptable(Refused(p), c, height, tx)
      THEN Accepted(p, height, tx)
      ELSE {RemoveTx(Refused(p), tx, FALSE)}

\* DisconnectTip for one transaction of the block; c is the shorter chain
Resurrect(p, c, height, tx) ==
    IF tx \in Coinbases THEN {RemoveTx(p, tx, TRUE)}
    ELSE IF Acceptable(Refused(p), c, height, tx) THEN Accepted(p, height, tx)
    ELSE {RemoveTx(Refused(p), tx, TRUE)}

ResurrectBlock(p, c, height, txs) ==
    FoldLeft(LAMBDA ps, tx : UNION {Resurrect(q, c, height, tx) : q \in ps}, {p}, txs)

-----------------------------------------------------------------------------
(* Actions.  All of them run under cs_main, and nothing else changes the   *)
(* pool while a step of the active chain (phase # "idle") is under way.    *)

Init ==
    /\ chain = FirstChain
    /\ pool = EmptyPool
    /\ phase = "idle"
    /\ fBlocksDisconnected = FALSE
    /\ oldHeight = Len(FirstChain)
    /\ now = 0

AcceptToMemoryPool(tx) ==
    /\ phase = "idle"
    /\ pool' \in IF Acceptable(Refused(pool), chain, Len(chain), tx)
                   THEN Accepted(pool, Len(chain), tx)
                   ELSE {Refused(pool)}
    /\ UNCHANGED <<chain, phase, fBlocksDisconnected, oldHeight, now>>

DisconnectTip ==
    /\ phase \in {"idle", "disconnecting"}
    /\ Len(chain) > Len(FirstChain)
    /\ oldHeight - Len(chain) < MaxReorg
    /\ chain' = Front(chain)
    /\ \E p \in ResurrectBlock(pool, chain', Len(chain), BlockTxs(Last(chain))) :
          pool' = IF Root(chain) # Root(chain') THEN RemoveWithAnchor(p, Root(chain)) ELSE p
    /\ phase' = "disconnecting"
    /\ fBlocksDisconnected' = TRUE
    /\ UNCHANGED <<oldHeight, now>>

\* ConnectBlock accepts block b on top of chain c
ValidBlock(c, b) ==
    LET height    == Len(c) + 1
        before(i) == Append(c, [b EXCEPT !.txs = SubSeq(@, 1, i - 1)])
    IN  /\ CbHeight[b.cb] = height
        /\ \A i \in DOMAIN b.txs :
              LET tx == b.txs[i] IN
              /\ Inputs[tx] \subseteq Unspent(before(i))
              /\ Nullifiers[tx] \intersect Spent(before(i)) = {}
              /\ Nullifiers[tx] # {} => Anchor[tx] \in Anchors(c)
              /\ Mature(tx, height)
              /\ IsFinalTx(tx, height) /\ ~IsExpiredTx(tx, height)
              /\ Branch[tx] = EpochBranchId(height)

ConnectTip(b) ==
    /\ Len(chain) <= oldHeight /\ Len(chain) < MaxHeight
    /\ ValidBlock(chain, b)
    /\ chain' = Append(chain, b)
    /\ pool' = RemoveExpired(RemoveForBlock(pool, BlockTxs(b)), Len(chain'))
    /\ phase' = "connecting"
    /\ UNCHANGED <<fBlocksDisconnected, oldHeight, now>>

\* the end of ActivateBestChainStep, which stops as soon as the tip has more
\* work than before or a block is refused, and of InvalidateBlock
EndStep ==
    /\ phase # "idle"
    /\ pool' = RemoveWithoutBranchId(
                  IF fBlocksDisconnected THEN RemoveForReorg(pool, chain) ELSE pool,
                  EpochBranchId(Len(chain) + 1))
    /\ phase' = "idle"
    /\ fBlocksDisconnected' = FALSE
    /\ oldHeight' = Len(chain)
    /\ UNCHANGED <<chain, now>>

Tick ==
    /\ phase = "idle" /\ now < MaxTime
    /\ now' = now + 1
    /\ UNCHANGED <<chain, pool, phase, fBlocksDisconnected, oldHeight>>

Blocks == [cb : Coinbases, txs : Bodies]

Next ==
    \/ \E tx \in Txs : AcceptToMemoryPool(tx)
    \/ DisconnectTip
    \/ \E b \in Blocks : ConnectTip(b)
    \/ EndStep
    \/ Tick

Spec == Init /\ [][Next]_vars

-----------------------------------------------------------------------------
(* Properties.                                                             *)

\* Every map of the pool describes exactly its transactions, at every moment:
\* mapNextTx and the nullifier maps name each input and nullifier of a pool
\* transaction and nothing else, and the eviction tree holds each transaction
\* once (the assertions of CTxMemPool::check and checkNullifiers, and what
\* EnsureSizeLimit relies on when it dereferences mapTx.find).
IndexesExact ==
    LET in == DOMAIN pool.entry IN
    /\ pool.next = [o \in UNION {Inputs[tx] : tx \in in} |->
                        CHOOSE tx \in in : o \in Inputs[tx]]
    /\ pool.nf = [n \in UNION {Nullifiers[tx] : tx \in in} |->
                        CHOOSE tx \in in : n \in Nullifiers[tx]]
    /\ \A s, t \in in : s # t => Inputs[s] \intersect Inputs[t] = {}
                                 /\ Nullifiers[s] \intersect Nullifiers[t] = {}
    /\ Range(pool.tree.txs) = in /\ Len(pool.tree.txs) = Cardinality(in)

\* Between steps, every transaction of the pool could go into the next block
\* after its parents in the pool: its other inputs are unspent coins of the
\* chain, coinbases among them mature, its nullifiers unspent, its anchor a
\* tree of the chain, its lock time passed, its epoch the next block's; it has
\* not expired at the tip.  CTxMemPool::check asserts the first four after
\* every step and every acceptance.
PoolMinable ==
    phase = "idle" => \A tx \in DOMAIN pool.entry :
        /\ \A o \in Inputs[tx] : \/ o \in Unspent(chain)
                                 \/ InPool(pool, o[1]) /\ o[2] <= Outputs[o[1]]
        /\ Mature(tx, Len(chain) + 1)
        /\ Nullifiers[tx] \intersect Spent(chain) = {}
        /\ Nullifiers[tx] # {} => Anchor[tx] \in Anchors(chain)
        /\ IsFinalTx(tx, Len(chain) + 1) /\ ~IsExpiredTx(tx, Len(chain))
        /\ Branch[tx] = EpochBranchId(Len(chain) + 1)

\* The draw of an eviction is fair after any history of additions and removals:
\* of the numbers maybeDropRandom may draw, exactly EvictionWeight(tx) lead
\* findByEvictionWeight to transaction tx.
DrawIsProportional ==
    LET total == GetWeightAt(pool.tree, 1).weight
        hits(tx) == {w \in 0..(total - 1) : pool.tree.txs[FindByEvictionWeight(pool.tree, w)] = tx}
    IN  \A tx \in DOMAIN pool.entry : Cardinality(hits(tx)) = EvictionWeight[tx]

\* The transactions of the pool never cost more than the limit together,
\* whatever blocks, reorganisations and evictions did to the tree's sums
\* (EnsureSizeLimit looks only at the sum kept at the root of the tree).
CostBounded ==
    MapThenSumSet(LAMBDA tx : Cost[tx], DOMAIN pool.entry) <= CostLimit

\* A transaction that was evicted does not come back, from a peer or from a
\* disconnected block, while its entry is younger than timeToKeep and has not
\* been pushed out by the capacity of the list.
EvictedStaysOut ==
    \A i \in DOMAIN pool.evicted.list :
        LET e == pool.evicted.list[i] IN
        now - e.time <= TimeToKeep => ~InPool(pool, e.tx)
=============================================================================
