# Formal model of the Ycash node

This directory holds TLA+ specifications of the Ycash full node (`src/src/`,
a descendant of Zcash and Bitcoin Core), TLC configurations that check them on
small instances, and TLAPS proofs of their main properties for every value of
the constants. `PROJECT.json` lists the components, the runs, the mutations each
property is known to detect, the source lines of every definition, the hazards
and the theorems.

    tlc -workers 4 -config MCChainSelection.cfg MCChainSelection
    tlapm ChainSelectionProofs.tla

## 1. The system and its parts

A node receives headers and blocks from peers, keeps them in a tree, follows the
valid chain with the most work, and keeps the state that chain implies: unspent
transparent outputs, revealed nullifiers, note commitment anchors and the chain
history tree. A memory pool holds transactions on top of the tip, a wallet
follows the chain from a thread of its own, and RPC workers query and drive all
of it. `cs_main` serialises validation; the hard behaviour is in what happens
between two acquisitions of it, in the lazily written caches, and in the threads
that run beside it.

| Part (source) | State | Operations | Talks to | Hard behaviour | Status |
|---|---|---|---|---|---|
| Chain selection (`main.cpp`, `chain.*`) | block tree, status marks, `setBlockIndexCandidates`, `mapBlocksUnlinked`, tip | AcceptBlockHeader, AcceptBlock, ActivateBestChain, InvalidateBlock, ReconsiderBlock | coins, message handler, RPC | lock released between rounds; invalid block in mid-reorganisation; blocks before parents | `ChainSelection` |
| Coins (`coins.*`, `txdb.cpp`) | three layers of `cacheCoins` with DIRTY/FRESH | FetchCoins, ModifyCoins, BatchWrite, Flush | chain, LevelDB | stale flags, crash between flushes, failed write | `CoinsCache`, `CoinsView`, `CoinsWriteFailure` |
| Nullifiers and anchors (same files) | maps per pool, best anchor | SetNullifiers, PushAnchor, PopAnchor, BatchWrite | chain, LevelDB | cached negative answers, root that comes back | `ShieldedCache` |
| History tree (`zcash/History.*`, `coins.cpp`, `txdb.cpp`) | node array, length and root per epoch | PushHistoryNode, PopHistoryNode, PreloadHistoryTree | chain, librustzcash | array positions of peaks, epoch boundary, old records | `HistoryTree` |
| Script check queue (`checkqueue.h`) | queue, counters, verdict | Add, Wait, Loop | ConnectBlock, worker threads | lost wake-ups, leaked verdict, interruption | `CheckQueue` |
| Block effects and undo (`main.cpp`, `undo.h`) | undo records in `rev*.dat`, unspent and spent index | ConnectBlock, DisconnectBlock, FlushStateToDisk | coins, block index | order of restoring, reuse after a reorganisation, crash between index and coins | `Chainstate` |
| Block files, flush, prune, reload (`main.cpp`) | files, index records, dirty sets | FlushStateToDisk, FindFilesToPrune, LoadBlockIndexDB | coins, LevelDB | crash between writes, unsigned height | order of index and coins in `Chainstate`; rest planned |
| Memory pool (`txmempool.*`, `mempool_limit.*`, `main.cpp`) | `mapTx`, `mapNextTx`, nullifiers, weighted tree, evicted list | AcceptToMemoryPool, addUnchecked, remove and its callers, eviction | chain, wallet | reorganisations, recursive removal, partial sums, order of resurrection and tip | `Mempool`, `MempoolLimit` |
| Block download, orphans (`main.cpp`) | `mapBlocksInFlight`, peer queues | MarkBlockAs..., FindNextBlocksToDownload, SendMessages | peers | time-out against late answer, disconnection | planned |
| Asynchronous RPC operations (`asyncrpc*`, `wallet/asyncrpcoperation_*`) | queue, map, atomic flags and states, locked inputs | run, addOperation, cancel, close, finish, migration | RPC, wallet | check-then-act on atomics, flag set without the lock, shutdown | `AsyncRPC` |
| Other worker pools (`httpserver.cpp`, `scheduler.*`) | queues, flags | run, enqueue, interrupt, stop | RPC | lost wake-ups, shutdown | planned |
| Wallet notification (`validationinterface.*`) | last tip notified, recent conflicts and additions | ThreadNotifyWallets | chain, pool, wallet | works off a path while the chain moves | `WalletNotes` |
| Wallet notes (`wallet/wallet.*`) | note data, witness lists, nullifier map, best block | SyncTransaction, ChainTip, SetBestChain, rescan | notifier, Berkeley DB | witness lists at their limit, positions that move, restart | `WalletNotes` |
| Rest of the wallet (`wallet/`) | spends, key pool, encryption | import, reserve key | Berkeley DB | keys after a crash | planned |
| Atomic swaps (`rpc/atomicswap.cpp`) | status per swap | initiate, participate, claim, refund, monitor | ConnectBlock, wallet | status changed while a block is only tested | planned |
| Address manager (`addrman.*`) | new and tried tables | Add_, Good_, MakeTried | network | hand-kept counters | planned |

Scripts, cryptography, encodings, sockets, option parsing, formatting and the
vendored libraries are not modelled: they are pure functions of bytes or I/O.
`PROJECT.json` lists every part with its reason.

## 2. Modules and how they correspond to the code

**`ChainSelection`.** Variables are the fields of `CBlockIndex` (`parent`, `work`,
`data`, `scripts`, `failed`, `failedChild`, `linked` for `nChainTx # 0`, `seq`)
and the globals `candidates`, `unlinked`, `tip`. `anc` caches each block's
ancestors because the environment chooses the tree's shape. `cs` is `cs_main`
with the loop its holder is in; every other action needs the lock free. One
critical section is cut into the iterations of its loops (`LinkBlock`,
`DropCandidate`, `DisconnectTip`, `ConnectTip`), so that invariants are also
checked in the middle. ConnectTip fails in three ways: `ConnectInvalid` marks the block,
`ConnectCorrupt` (CorruptionPossible) leaves it a candidate, `DiskError` stops the node.
What is left out: pruning, restart, and the notifications.

`Next` calls invalidateblock and reconsiderblock as they are meant: on a block
whose chain is complete or of which only the header is known (`Judged`), and to
undo such a mark (`Undoes`); section 3 says what other calls do.

**`CoinsCache`, `CoinsView`.** The database, `pcoinsTip` and the per-block view. The
coins of a transaction are its set of unspent outputs. A block is any sequence of
creations, spends, reads and restorations on the view, committed with
`CommitBlock` or dropped with `Abandon`; `FlushTip` and `Crash` act below.
`CoinsView` is what the stack promises: one flat set of coins that changes by
whole blocks, with a durable copy. `CoinsCache` implements it
(`Flat == INSTANCE CoinsView WITH ...`). `CoinsWriteFailure` adds a batch write that
throws, and the flush made at shutdown.

**`ShieldedCache`.** The same three layers for one shielded pool (Sprout and Sapling
run the same code on separate maps). A tree is the sequence of its commitments and
stands for its root. `chain` and `dChain` record which blocks each layer reflects.

**`HistoryTree`.** A node of the Merkle mountain range is the sequence of leaves
below it, which stands for its hash; the array positions are those of the code.
`mmr_append` and `mmr_delete` of librustzcash are external: they see only the
nodes PreloadHistoryTree hands them. Two epochs, and VerifyDB's private view.

**`Chainstate`.** What a block does to the coins. A block is named by the transactions
of all blocks up to it, so `chain` is the active chain and its tip's name. `ConnectBlock`,
`UpdateCoins` (one transaction), `ConnectTip` or `RejectBlock` connect;
`DisconnectBlock`, `RemoveOutputs`, `ApplyTxInUndo` (one input) and `DisconnectTip` undo.
`txundo` and `undo` hold the undo records, with height and coinbase flag only where
the code keeps them. `batch` collects the updates of insightexplorer's indexes, which
reach `index` when the block does. `WriteBlockIndex` and `FlushCoins` are the two halves of
FlushStateToDisk; `Crash` reloads what they wrote. Script and proof checks may refuse
any block. Left out: values, fees, failing writes, pruning.

**`CheckQueue`.** One action per critical section of `CCheckQueue::mutex`, plus the
execution of a batch without the lock, spurious wake-ups, and
`interrupt_all()` at shutdown.

**`MempoolLimit`, `Mempool`.** `MempoolLimit` has the two data structures that bound the
pool as values: `WeightedTxTree`, an array heap with sums of what is below each node
(`TreeAdd`, `TreeRemove`, `BackPropagate`, `FindByEvictionWeight`; `Drawn` is the set of
results over all random numbers), and `RecentlyEvictedList` (`AddEvicted`, `Prune`). In
`Mempool` the pool is one record of maps; `AcceptToMemoryPool` tests in the code's order.
A step of the active chain is `DisconnectTip`s (each puts its block's transactions back
before the tip moves, as the code does), then `ConnectTip`s, then `EndStep` with removeForReorg
and removeWithoutBranchId. The coins at the tip are a function of the chain, which is
what `Chainstate` and `ShieldedCache` establish. Fees, priorities and the rate limiter
only decide whether a call is made.

**`WalletNotes`.** The chain moves by `ConnectTip` and `DisconnectTip`. The thread takes
`Collect` under `cs_main`, then for each block of the collected path `SyncDisconnected`,
`TipDisconnected` or `SyncConnected`, `TipConnected` without it, and last `SyncMempool`.
A note commitment tree is the sequence of its leaves and a witness is a position and
a tree. Each helper of IncrementNoteWitnesses and DecrementNoteWitnesses is an operator
on one note's data; their assertions set `wallet.failed`, after which the process is gone
(`Aborted`). The wallet starts rescanned (`InitRescanned`) or new (`InitFirstRun`: nothing is
scanned and the witness count is 0). `ViewOnly` notes have no nullifier the wallet can
compute. `disk` is wallet.dat: single
transactions are written by SyncTransaction, witness counts and the best block by
SetBestChain. `Restart` is a crash or an orderly shutdown (neither saves the wallet)
with the rescan of InitLoadWallet. `birth`, `peak`, `everSpent` and `rolledBack` are history
variables.
This is the default build, without the option `YCASH_WR`.

**`AsyncRPC`.** One action per critical section of `lock_`, and one per load or store of an
operation's atomic `state_` outside it, so that `cancel()` and `main()` test and set in two
steps. RPC handlers and RunSaplingMigration hold `cs_main`, so that one of them is at work
at a time; `call` says where it is, while workers and the ending thread go on.
`Construct` locks inputs and `addOperation` queues; `GetStatus` and `popOperationForId` are
z_getoperationresult; `FindLast`, `CancelLastTest`, `CancelLastStore` and `BuildMigration` are
RunSaplingMigration, which cancels the last migration before it builds or sends one.
`Dequeue` to `MainUnlock` are a worker's loop. `owner` is the thread that calls finishAndWait
or closeAndWait. `accepted` is a history variable. `cancel()` is not virtual in
`AsyncRPCOperation`, so the one `AsyncRPCOperation_saplingmigration` declares is never called,
and a migration that runs is not cancelled.

The `MC...` modules give the constants of their instances, and some add a symmetry set or the constraint that things which are alike are named in the order
in which they appear: the checks of `CheckQueue` and the migrations of `AsyncRPC` as they
are added, the blocks of `ChainSelection` as their headers arrive. Every behaviour has
such a naming, and the names occur nowhere else. `MCChainstate` has a VIEW instead: after a crash has taken back blocks,
no action or property depends on the indexes, so they do not tell states apart. The VIEW
of `MCWalletNotes` drops what is dead after the last restart the bounds allow.
No configuration replaces a definition.

## 3. Runs

| Run | Instance | What it shows |
|---|---|---|
| `check_queue` | 4 checks, 2 workers and the master, batches of at most 2 | `nTodo` is exact, Wait() answers for exactly its own session, nothing is left for the next one, and Wait() returns |
| `coins_cache` | 2 transactions of 2 outputs, 2 block hashes | FRESH and clean entries are what they claim, BatchWrite's assert holds, the stack implements `CoinsView` |
| `coins_write_failure` | 1 transaction, 2 block hashes | *violated*: see findings |
| `shielded_cache` | 1 nullifier, 2 commitments, chains of 2 blocks | every layer shows what the blocks below it revealed; the best anchor can be loaded; no double spend |
| `history_tree` | databases of 0 to 11 blocks, 3 more on two branches, second epoch at height 12 | every layer reads the tree of its own blocks; an append list covers what changed |
| `chainstate` | 3 coinbases and 4 transactions in chains of at most 3 blocks, 4 blocks connected | coins, nullifiers and the entries of the indexes are those of the chain; undo data is there after a crash and undoes cleanly |
| `index_heights` | the same | *violated*: see findings |
| `chain_selection` | 3 blocks of work 1 or 3 and genesis in any tree, MAX_REORG_LENGTH 1, 2 threads, 2 operator commands | CheckBlockIndex holds and the tip is best when quiet; no failed block is active; a failed reorganisation can return, a successful one loses no work; ActivateBestChain returns unless a block stays corrupt |
| `mempool` | 7 transactions, chains of at most 5 blocks, reorganisations of 2 | the pool's maps are exact, everything in it can be mined, its cost is bounded, the eviction draw is proportional, what was evicted stays out |
| `wallet_notes` | 3 notes of the wallet, one view-only, 5 heights, cache of 2 witnesses, 2 blocks rolled back, 1 restart | assertions fail only where the cache holds no block any more, every cached witness is the one of its block, nullifiers of witnessed notes are known |
| `wallet_restart` | cache of 3, 1 block rolled back, a restart after a reorganisation | *violated*: see findings |
| `async_rpc` | 2 operations, out of 1 that locks inputs and 2 migrations, 2 workers | waits return and leave nothing unfinished, every accepted operation ends for good, inputs are unlocked |

**Why the bounds are enough.** Two workers and batches of two are the least with
which two batches are in progress beside a queue that is not empty, which needs
four checks. Two outputs tell a spent from a pruned transaction; with two
transactions one is untouched while the other changes. Two commitments and
heights give a root that is pushed, popped and pushed again. Bases up to 11 give
mountain ranges with one, two and three peaks and every way an append merges
them. In `chainstate` one transaction takes both outputs of another, two take one each, one
spends an output of its own block, and two reveal the same nullifier. Four connected
blocks give a reorganisation of two blocks against two. In `chain_selection` three
blocks give a fork, and a gap of two blocks that arrive before their parent; work 1
and 3 with MAX_REORG_LENGTH 1 let one block displace two, a reorganisation that is
refused, beside others that succeed; two commands are an invalidateblock and the
reconsiderblock that undoes it, or two related marks. Where TLAPS proves the property
the bound does not matter; of this run only `ActivationEnds` is not proved. Those of `shielded_cache` and `chainstate` are all proved.

In `mempool` a transaction has two children, one of which also spends a coinbase, two
pairs conflict (on an output, on a nullifier), one depends on an anchor that a
reorganisation removes, one expires, one is locked and one belongs to the second epoch;
with maturity 2 and reorganisations of 2 a coinbase becomes immature again. A cost limit
of 3 is passed by every fourth transaction, and a list of 2 evicted ones overflows.
In `wallet_notes` the cache of 2 witnesses is filled and overflows, a note is mined at two
positions, before and after another note and at three heights, and two disconnected blocks
reach the end of the cache: one block is what MAX_REORG_LENGTH, one less than the cache, allows in one step,
and the second is a further step or an invalidateblock, where the code may abort.
`Relayed` bounds the transactions met in the memory pool to one. In `async_rpc` two
workers are the least that run beside each other (the node starts one, the tests several);
with two operations one is run while the other is cancelled or queued, and a migration
is cancelled by its successor.

**Fairness.** `CheckQueue`: a thread that can run is eventually scheduled (weak
fairness of each thread's own step) and ConnectBlock reaches Wait(), which its
control's destructor calls in any case. `ChainSelection`: a thread inside
ActivateBestChain keeps running (weak fairness per thread). `ActivationEnds` has the premise
`CorruptionPasses`: if ActivateBestChainStep is tried again and again, it is not only
ever stopped by a block it finds corrupt. The code does not ensure this, see below. `AsyncRPC`: a worker that can
run does, an operation's work terminates, and a caller and the thread that ends the queue go on
once they have begun; they need not begin. No fairness is
assumed for peers, operators, failures, spurious wake-ups or interruptions.

**Findings.**
- `coins_write_failure`: `CCoinsViewDB::BatchWrite` erases the cache's entries
  while it builds the batch. If LevelDB then fails, the flush in `Shutdown()`
  writes the best block without those coins (`txdb.cpp:248`, `init.cpp:237`).
- `index_heights`: DisconnectBlock restores an output to the unspent index with
  `undo.nHeight` (`main.cpp:2739`), which is 0 unless the input had spent the last output of
  its transaction (`main.cpp:2331`, `undo.h:24`). getaddressutxos, whose help says "The block
  height" (`rpc/misc.cpp:698`), then reports 0 for a confirmed output, which
  `qa/rpc-tests/addressindex.py:351` would refuse. `IndexesAgree` speaks of the entries and
  the spenders only.
- `wallet_restart`: ChainTipAdded saves witnesses and best block at intervals only
  (`wallet/wallet.cpp:621`), and nothing saves them at shutdown. After a reorganisation
  and a restart before the next save, the rescan only increments and skips notes whose
  `witnessHeight` is not below the block, so a note keeps a witness of the abandoned
  branch. `wallet_notes` therefore restarts only where no reorganisation came since the
  last save (`Benign`).

Observed while modelling, without a run of their own:
- Between two rounds of ActivateBestChain CheckBlockIndex's assertions need not
  hold: after an invalid block the tip is no candidate (`main.cpp:3878`, `5633`).
  `IndexConsistent` therefore speaks of quiet states.
- invalidateblock on a block whose parent's data is missing, followed by the data,
  leaves `nChainTx = 0` on a complete chain (`main.cpp:4166`, asserted at `5616`).
- A block that fails with CorruptionPossible is neither marked nor erased from the
  candidates (`main.cpp:2308`, `3832`). If it is stored corrupt and is the best candidate,
  ActivateBestChain chooses it again in every round and does not return (`main.cpp:3836`).
- reconsiderblock on a block that was not the one given to invalidateblock clears the
  marks of its ancestors without making them, or their other descendants, candidates
  (`main.cpp:3993`), so that a better valid chain can stay inactive. Its help names one
  use, "This can be used to undo the effects of invalidateblock"
  (`rpc/blockchain.cpp:1485`), and `Undoes` keeps to it.
- reconsiderblock on a block below a failed one leaves the failed one's other
  descendants marked (`main.cpp:3993`, asserted at `5627`).
- The loop in `CCoinsViewDB::BatchWriteHistory` that should delete old nodes
  erases nothing (`txdb.cpp:206`: its key has an `int` where the records have a
  64-bit index). `DiskHoldsChain` shows the old nodes are never read.
- The insightexplorer indexes are written when a block is connected, its coins at a
  later flush (`main.cpp:3236`). After a crash they are ahead of the chain, and stay so
  if another branch is connected then. `IndexesAgree` speaks of the time before.
- FlushStateToDisk empties the dirty sets before WriteBatchSync (`main.cpp:3356`). If
  that throws, the flush in `Shutdown()` writes coins without those index records.
- `spentHeight` of a note is not reset when the spending block is disconnected, so the
  witnesses of a note whose spend was reorganised away can still be pruned
  (`wallet/wallet.cpp:1376`, comment at `1379`). `WitnessesRight` excuses notes that were
  ever seen spent for this reason.
- On a disconnect SyncTransaction drops a note's nullifier, so its old entry in
  `mapSaplingNullifiersToNotes` can no longer be erased (`wallet/wallet.cpp:2588`): a leak
  without effect.
- invalidateblock, a heavier but shorter chain, or a deep reorganisation after a failed
  one can take the chain more than MAX_REORG_LENGTH below its highest tip; the wallet
  then ends in the assertion after the TODO at `wallet/wallet.cpp:1737`. So does a new
  wallet when the first block it was told of is disconnected, because its
  `nWitnessCacheSize` starts at 0 (`wallet/wallet.h:1252`; `gtest/test_wallet.cpp:1324`
  expects the death). `AbortsOnlyPastCache` says that these are the only cases.
- A process that ends between SyncTransaction and ChainTip of a disconnected block leaves
  a note without its nullifier on disk.
- `AsyncRPCOperation::cancel()` may test READY, a worker run the operation, and cancel then
  store CANCELLED: an executed operation shows as cancelled. In the other order a worker's
  EXECUTING overwrites CANCELLED. `OperationsEnd` shows that both end in a final state.
- `run()` skips cancelled operations, so `unlock_utxos()` is not reached for one that is
  cancelled before it runs, or dropped by addOperation in a queue that is ending. Both
  happen only when the queue ends, and the locks are in memory; `InputsReleased`
  speaks of the time before.

## 4. Proofs

All proofs hold for any value of the constants under the named assumptions of the
modules (sets of checks, workers and operations finite, a positive batch size, sentinel
values that are no entries, positive block work; for `Chainstate` the shape of blocks and
transactions that CheckBlock and CheckTransaction enforce: the coinbase comes first and
carries its height, the inputs of a transaction differ, and every other transaction has
an input or a nullifier). Each inductive invariant was checked with TLC on the instance of its
run before it was proved.

**`CheckQueueProofs`** (`TypeCorrect`, `TodoExact`, `VerdictIsCorrect`,
`SessionsAreSeparate`). `VerdictCorrect` is not inductive: a failed check's result
is on the way in one of four places, which `IndInv` lists (still queued, in a batch
being run, in a finished thread's `fOk`, or already in `fAllOk`). The counters are
tied to cardinalities of sets of threads as bounds, since an interrupted thread
stays counted. Both entries into Loop()'s body hand over a record that satisfies
`Handover`, and one lemma covers its three exits.

**`CoinsCacheProofs`** (`FreshFlagsAreTrue`, `CleanEntriesAgree`, `FlushNeverAsserts`,
`ImplementsFlat`). The strengthening in `IndInv` is that an entry in the view for
which pcoinsTip has none is FRESH with no database record, and that a transaction
still to be created by the open block is absent from every layer (for
`ModifyNewCoins`, which does not ask). Refinement follows: every call on a view is
a step or a stutter of `CoinsView`.

**`ChainSelectionProofs`** (`ActiveChainIsValid`, `ReorgCanReturn`, `TipIsBestChain`,
`WorkIsKept`). The argument is in terms of `Safe` candidates: their whole chain was
connected once and bears no mark, so neither ConnectBlock nor FindMostWorkChain can
take them away. `Return` says one is no worse than the tip; `Complete` says every
unmarked complete block is a candidate or worse than a safe one. Both survive each
action because whatever removes a candidate leaves a safe one that beats it.

**`BlockIndexProofs`** (`IndexIsConsistent`) adds what CheckBlockIndex asserts, for `Spec`, in
which the two RPCs are used as documented (`Judged`, `Undoes`). `WaitInv` says where a stored
block without nChainTx is: queued, waiting, or above a marked header. `MarkInv` makes the last case
final: only linked blocks and bare headers are marked, so that header's data is never
stored. `QueueInv` then keeps complete chains linked: when a block leaves the queue, the next block of
the chain (`PathInv`) has waited for it and takes its place. `NoWorse` holds at every step, and
with `Complete` and `Settled` it determines the candidates once all threads are done.

**`ShieldedCacheProofs`** (`TipIsChainHolds`, `DiskIsChainHolds`, `NoDoubleSpendHolds`,
`BestAnchorKnownHolds`). Per key, an entry that is not DIRTY agrees with the layer below
(`TipClean`, `ViewClean`), so a fetch changes nothing a layer shows and a BatchWrite makes the
layer below show what the upper one did. What a layer shows is tied to the blocks it
reflects, and `Good` says of those blocks that their trees only grow and that no
nullifier occurs twice: a root that PopAnchor erases is therefore the root of no earlier
block, unless the block added no commitment, in which case PushAnchor had done nothing.
`BestAnchorKnown` follows from the anchors of the blocks, for the view from `ViewInv`.

**`ChainstateProofs`** (`UtxoIsChainHolds`, `UndoAvailableHolds`, `DisconnectsCleanlyHolds`)
and **`ChainIndexProofs`** (`IndexesAgreeHolds`). `Plus(c, b, k)` is the chain `c` with a block of the first `k` transactions
of `b`. While a block is at work the view holds the coins of such a chain, minus the first
inputs of one transaction when undoing (`ConnectInv`, `OutputsInv`, `InputsInv`). `Good` chains
hold each transaction once, spend each output once and only outputs of earlier places;
`PlusUp` shows that HaveInputs preserves this, and `PlusDown` that the last transaction can be
taken away again. A transaction cannot be in the chain already: its inputs or nullifiers
would be spent, and a coinbase carries its height. `UndoInv` says that an undo record is a
function of its block and place alone (`Rec`), which is why data of an earlier connection
serves. `UndoStep` is the core: the record has a height exactly if no output is left, and
putting the output back leads to the coins one input earlier. `DiskInv` relates dirty set, block
index and coins on disk, and gives `UndoAvailable` after a crash. `IndexInv` says of the indexes,
with the pending batch, what the other invariants say of the view.

**`AsyncRPCProofs`** (`DoneAfterWaitHolds`, `InputsReleasedHolds`). An accepted operation
is in one place (`PlaceInv`), and it is held by a worker, has a final state, or is pending
(`EndInv`): still ready and queued or, once the queue is closed, still to be cancelled
by the thread that closes it. A worker leaves only when the queue is ending and empty (`GoneInv`),
and nothing is accepted after that; `EndingInv` ties the flags to the stages of the ending
thread. So once all workers are joined nothing is held or pending. `CallInv` says what the
operation of a caller can be at each of its steps: one it has built is ready and not yet
accepted, one it cancels is an accepted migration, and one it forgets has ended or is held by a
worker (which may have overwritten a cancellation). `InputsReleased` is
inductive beside these.

**Only model-checked.** Everything about `HistoryTree`,
whose array is defined by recursion on the number of leaves, `Mempool`, whose weighted tree is
built by recursive operators and whose removals are closures under spending, and `WalletNotes`, whose
steps fold over the notes and commitments of a block: what these compute for every input
takes an induction over data. Liveness (`WaitReturns` of both queues, `ActivationEnds`,
`OperationsEnd`) is out of the prover's reach.

## 5. Not modelled, and plan

`PROJECT.json` gives the reason for every part. Pure functions of bytes (scripts,
signatures, proofs, hashes, encodings, vendored libraries) and I/O are out of a model
checker's reach or have no state. These have state and are still to be written, most
important first:

1. `BlockStore`: files, file records, pruning and reload, with a crash between any two
   writes and with writes that fail; composed with `Chainstate`, the node restarts on a
   chain it can read and undo.
2. `BlockDownload`: each block in flight from at most one peer, counters agree with
   queues, a needed block is eventually asked from another peer; then orphans.
3. `AtomicSwap`: the status of a swap follows the active chain.
4. `WorkQueue` and `CScheduler`; the key pool across restarts; `AddrMan`.
5. The pure algorithms (incremental Merkle tree, skip list, difficulty).

Hazards for these, and smaller ones of the modelled parts, beside those of
`PROJECT.json`:
- block store: crash between the writes of block files, index and unlinked files
  (`main.cpp:3349`), a failed WriteBatchSync after the dirty sets were emptied
  (`main.cpp:3356`), a block twice in `mapBlocksUnlinked` of a pruning node (`main.cpp:4154`),
  the unsigned prune height (`main.cpp:4786`), indexes ahead of the chain after a crash
  (`main.cpp:3236`);
- peers: FinalizeNode leaves `nQueuedValidatedHeaders` as it is (`main.cpp:402`), orphans with
  two parents (`main.cpp:6478`), reference counts of addresses (`addrman.cpp:148`);
- pool: sums of weights compared as `int` (`mempool_limit.cpp:130`);
- threads: requests left in a stopped queue and single wake-ups (`httpserver.cpp:116`,
  `scheduler.cpp:87`);
- wallet: reserved keys after a crash (`wallet/wallet.cpp:5995`), a rescan RPC while the
  notifier lags, a migration's transaction added after its batch was sent; expired swaps
  that are spent (`rpc/atomicswap.cpp:1812`).

Covered by properties of section 3 without an entry of their own: a FRESH entry dropped
in a merge (`coins.cpp:842`, `FreshIsFresh`), a block that leaves
the note tree as it is (`coins.cpp:249`, `TipIsChain`), undo data of an earlier connection
(`main.cpp:3198`, `UtxoIsChain`), marks on active blocks (`main.cpp:3705`, `NoFailedActive`) and
an operation added while the queue closes (`asyncrpcqueue.cpp:88`, `DoneAfterWait`).

Theorems to add: `IndexesExact` of `Mempool`.
