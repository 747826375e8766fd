---------------------------- MODULE WalletNotes ----------------------------
(***************************************************************************)
(* The wallet's notes and the thread that tells the wallet about blocks:   *)
(* ThreadNotifyWallets (validationinterface.cpp), and in wallet.cpp        *)
(* SyncTransaction, ChainTip, IncrementNoteWitnesses,                      *)
(* DecrementNoteWitnesses, the Sapling nullifier map, SetBestChain and the *)
(* rescan at startup.  The thread collects under cs_main the path from the *)
(* block it told last to the tip and works it off without cs_main, while   *)
(* the chain moves on.                                                     *)
(*                                                                         *)
(* A block is the sequence of its transactions and is identified by the    *)
(* chain that ends in it.  A transaction adds one note commitment, named   *)
(* like it, or spends one note, or neither.  A note commitment tree is the *)
(* sequence of its leaves; a witness is the position of its note with the  *)
(* tree it is for.  Sprout notes go through the same templates, with a     *)
(* nullifier that needs no position.                                       *)
(***************************************************************************)
EXTENDS Integers, Sequences, FiniteSets, SequencesExt

CONSTANTS Commits,     \* transactions with a shielded output
          Mine,        \* those of them that pay this wallet
          ViewOnly,    \* those of which it has only an incoming viewing key
          Spender,     \* note of this wallet -> the transaction that spends it
          Others,      \* transactions that spend notes of others
          Bodies,      \* bound: contents of blocks, by height
          Relayed,     \* bound: transactions of the wallet met in the memory pool
          FirstChain,  \* the chain at the start, never disconnected
          NewChain,    \* the same for a wallet that is just created
          CacheSize,   \* WITNESS_CACHE_SIZE, MAX_REORG_LENGTH + 1
          MaxRollbacks,\* bound: blocks disconnected altogether
          MaxRestarts, \* bound
          AnyRestart   \* whether a restart may follow a reorganisation

ASSUME WalletAssumption ==
    /\ CacheSize \in Nat \ {0}
    /\ Mine \subseteq Commits /\ ViewOnly \subseteq Mine /\ Relayed \subseteq Mine
    /\ DOMAIN Spender = Mine
    /\ FirstChain # << >> /\ Len(NewChain) = Len(FirstChain)
    /\ \A h \in DOMAIN NewChain : Range(NewChain[h]) \intersect Mine = {}
    /\ AnyRestart \in BOOLEAN

VARIABLES chain,       \* chainActive, above the genesis block
          diskChain,   \* the chain of the last FlushStateToDisk
          conflicted,  \* blocks with an entry in recentlyConflictedTxs
          added,       \* mapRecentlyAddedTx
          lastTip,     \* pindexLastTip
          work,        \* what the thread collected and has not done, see Idle
          wallet,      \* the wallet in memory, see Load
          disk,        \* wallet.dat: notes, size of the cache, best block
          birth,       \* height from which on the wallet was told of blocks
          peak,        \* history: the greatest height it was told of
          everSpent,   \* history: notes that a notified block spent
          rolledBack,  \* history: a block was disconnected since SetBestChain
          rollbacks, restarts

history == <<birth, peak, everSpent, rolledBack>>
vars == <<chain, diskChain, conflicted, added, lastTip, work, wallet, disk, history,
          rollbacks, restarts>>

-----------------------------------------------------------------------------
(* Chains.                                                                 *)

IsCommit(tx) == tx \in Commits
Prefix(c, n) == SubSeq(c, 1, n)
BlockTxs(c) == Last(c)
Tree(c) == SelectSeq(FlattenSeq(c), IsCommit)
TxsOf(c) == UNION {Range(c[h]) : h \in DOMAIN c}

\* the note's position in the tree of a chain that holds it
IndexOf(n, tree) == CHOOSE i \in DOMAIN tree : tree[i] = n
Position(n, c) == LET tree == Tree(c) IN IndexOf(n, tree)

Witness(n, c) == LET tree == Tree(c) IN [pos |-> IndexOf(n, tree), tree |-> tree]

\* what block reveals: nullifiers of the wallet's notes depend on the position
RevealedBy(c) == {<<n, Position(n, c)>> : n \in {m \in Mine : Spender[m] \in Range(BlockTxs(c))}}
HasSpend(c) == \E tx \in Range(BlockTxs(c)) : tx \in Others \/ \E n \in Mine : Spender[n] = tx

FindFork(c, d) == Prefix(c, Max({n \in 0..Len(c) : IsPrefix(Prefix(c, n), d)}))

\* ConnectBlock accepts the body: every output is new, spends follow their note
ValidBody(c, b) ==
    /\ \A i, j \in DOMAIN b : i # j => b[i] # b[j]
    /\ Range(b) \intersect (TxsOf(c) \ Others) = {}
    /\ \A n \in Mine : Spender[n] \in Range(b) => n \in TxsOf(c)

-----------------------------------------------------------------------------
(* SaplingNoteData: witnesses, newest first; witnessHeight; nullifier;     *)
(* spentHeight (0 for none, not written to disk); hashBlock of the         *)
(* transaction.  A failed assertion ends the process: `failed' says which, *)
(* the one on nWitnessCacheSize in DecrementNoteWitnesses or another.      *)

NoNullifier == << >>

FreshNote == [wits |-> << >>, height |-> -1, nf |-> NoNullifier, spent |-> 0, block |-> << >>]

Serialised(nd) == [nd EXCEPT !.spent = 0]

Require(w, ok, assertion) ==
    [w EXCEPT !.failed = IF @ = "none" /\ ~ok THEN assertion ELSE @]

\* loading wallet.dat
Load(d) == [notes  |-> d.notes,
            size   |-> d.size,
            nfs    |-> {d.notes[n].nf : n \in DOMAIN d.notes} \ {NoNullifier},
            failed |-> "none"]

-----------------------------------------------------------------------------
(* SyncTransaction: AddToWallet and UpdatedNoteData.  block is the chain   *)
(* that ends in the transaction's block, << >> for the null pointer.       *)

SyncTransaction(s, tx, block) ==
    LET known   == tx \in DOMAIN s.wallet.notes
        nd      == IF known THEN s.wallet.notes[tx] ELSE FreshNote
        differs == nd.nf # NoNullifier \/ nd.height # -1
        moved   == block # << >> /\ block # nd.block
        merged  == [nd EXCEPT !.nf    = IF differs THEN NoNullifier ELSE @,
                              !.spent = IF differs THEN 0 ELSE @,
                              !.block = IF moved THEN block ELSE @]
    IN  IF tx \notin Mine THEN s
        ELSE [wallet |-> [s.wallet EXCEPT !.notes = (tx :> merged) @@ @],
              disk   |-> IF ~known \/ differs \/ moved
                           THEN [s.disk EXCEPT !.notes = (tx :> Serialised(merged)) @@ @]
                           ELSE s.disk]

SyncAll(s, txs, block) == FoldLeft(LAMBDA t, tx : SyncTransaction(t, tx, block), s, txs)

-----------------------------------------------------------------------------
(* IncrementNoteWitnesses for the block that ends chain c.                 *)

\* WitnessNoteIfMine, AppendNoteCommitment and UpdateWitnessHeights for a note
\* of the block itself
WitnessNew(nd, n, c) ==
    IF nd.height < Len(c)
      THEN [nd EXCEPT !.wits = <<Witness(n, c)>>, !.height = Len(c)]
      ELSE nd

\* Mutated form: pruning leaves the height of the witnesses
PruneKeepsHeight(nd, c) ==
    LET spent == IF nd.nf \in RevealedBy(c) THEN Len(c) ELSE nd.spent
    IN  IF nd.wits = << >> \/ ~HasSpend(c) THEN nd
        ELSE IF spent # 0 /\ spent + CacheSize < Len(c)
               THEN [nd EXCEPT !.spent = spent, !.wits = << >>]
               ELSE [nd EXCEPT !.spent = spent]

UpdateSpentHeightAndMaybePruneWitnesses(nd, c) ==
    LET spent == IF nd.nf \in RevealedBy(c) THEN Len(c) ELSE nd.spent
    IN  IF nd.wits = << >> \/ ~HasSpend(c) THEN nd
        ELSE IF spent # 0 /\ spent + CacheSize < Len(c)
               THEN [nd EXCEPT !.spent = spent, !.wits = << >>, !.height = -1]
               ELSE [nd EXCEPT !.spent = spent]

\* Mutated form: the commitments of the block are appended only to new witnesses
AdvanceCopies(nd, c) ==
    IF nd.height >= Len(c) \/ nd.wits = << >> THEN nd
    ELSE [nd EXCEPT !.height = Len(c),
                    !.wits = SubSeq(<<Head(@)>> \o @, 1, IF Len(@) < CacheSize THEN Len(@) + 1 ELSE Len(@))]

\* CopyPreviousWitnesses, AppendNoteCommitment and UpdateWitnessHeights
Advance(nd, c) ==
    LET top  == [Head(nd.wits) EXCEPT !.tree = @ \o SelectSeq(BlockTxs(c), IsCommit)]
        wits == <<top>> \o nd.wits
    IN  IF nd.height >= Len(c) \/ nd.wits = << >> THEN nd
        ELSE [nd EXCEPT !.height = Len(c),
                        !.wits = IF Len(wits) > CacheSize THEN Front(wits) ELSE wits]

\* the assertions of CopyPreviousWitnesses and UpdateWitnessHeights
AdvanceAsserts(nd, c, prevSize, size) ==
    nd.height < Len(c) =>
        /\ prevSize >= Len(nd.wits)
        /\ nd.height \in {-1, Len(c) - 1}
        /\ nd.wits = << >> => nd.height = -1
        /\ size >= Len(Advance(nd, c).wits)

IncrementNoteWitnesses(w, c) ==
    LET size    == IF w.size < CacheSize THEN w.size + 1 ELSE w.size
        inBlock == Range(BlockTxs(c))
        known   == [n \in DOMAIN w.notes |->
                      UpdateSpentHeightAndMaybePruneWitnesses(
                          IF n \in inBlock THEN WitnessNew(w.notes[n], n, c) ELSE w.notes[n], c)]
        ok      == \A n \in DOMAIN known : AdvanceAsserts(known[n], c, w.size, size)
    IN  Require([w EXCEPT !.size = size,
                          !.notes = [n \in DOMAIN known |-> Advance(known[n], c)]], ok, "other")

-----------------------------------------------------------------------------
(* DecrementNoteWitnesses for a block of the given height.                 *)

Retreat(nd, height) ==
    IF nd.height > height THEN nd
    ELSE LET wits == IF nd.wits = << >> THEN << >> ELSE Tail(nd.wits)
         IN  [nd EXCEPT !.wits = wits, !.height = IF wits = << >> THEN -1 ELSE height - 1]

DecrementNoteWitnesses(w, height) ==
    LET notes == [n \in DOMAIN w.notes |-> Retreat(w.notes[n], height)]
        ok(n) == /\ w.notes[n].height <= height =>
                       /\ w.size >= Len(w.notes[n].wits)
                       /\ w.notes[n].height \in {-1, height}
                 /\ notes[n].height < height => w.size - 1 >= Len(notes[n].wits)
        checked == Require(w, \A n \in DOMAIN notes : ok(n), "other")
    IN  Require([checked EXCEPT !.notes = notes, !.size = @ - 1], w.size - 1 > 0, "size")

\* Mutated form: the position of the tree's last leaf
UpdateNullifierLast(w, n) ==
    LET nd == w.notes[n]
        nf == IF nd.wits = << >> THEN NoNullifier ELSE <<n, Len(Head(nd.wits).tree)>>
    IN  [w EXCEPT !.notes[n].nf = nf,
                  !.nfs = IF nf = NoNullifier THEN @ \ {nd.nf} ELSE @ \union {nf}]

\* UpdateSaplingNullifierNoteMapWithTx for one transaction of the wallet; an
\* incoming viewing key is not enough to compute a nullifier
UpdateNullifier(w, n) ==
    LET nd == w.notes[n]
        nf == IF nd.wits = << >> THEN NoNullifier ELSE <<n, Head(nd.wits).pos>>
    IN  IF n \in ViewOnly /\ nd.wits # << >> THEN w
        ELSE [w EXCEPT !.notes[n].nf = nf,
                       !.nfs = IF nf = NoNullifier THEN @ \ {nd.nf} ELSE @ \union {nf}]

UpdateSaplingNullifierNoteMapForBlock(w, txs) ==
    FoldLeft(LAMBDA v, tx : IF tx \in DOMAIN v.notes THEN UpdateNullifier(v, tx) ELSE v, w, txs)

ChainTipAdded(w, c) ==
    UpdateSaplingNullifierNoteMapForBlock(IncrementNoteWitnesses(w, c), BlockTxs(c))

ChainTipRemoved(w, c) ==
    UpdateSaplingNullifierNoteMapForBlock(DecrementNoteWitnesses(w, Len(c)), BlockTxs(c))

SetBestChain(w, c) == [notes |-> [n \in DOMAIN w.notes |-> Serialised(w.notes[n])],
                       size  |-> w.size,
                       best  |-> c]

\* ScanForWalletTransactions from the block at height first to the tip of c
Rescan(s, c, first) ==
    FoldLeft(LAMBDA t, h :
                LET u == SyncAll(t, c[h], Prefix(c, h))
                IN  [u EXCEPT !.wallet = ChainTipAdded(@, Prefix(c, h))],
             s, [i \in 1..(Len(c) - first + 1) |-> first + i - 1])

-----------------------------------------------------------------------------
(* The node: every action holds cs_main.                                   *)

Idle(c) == [busy |-> FALSE, target |-> c, added |-> {}, synced |-> FALSE]

NoWallet == [notes |-> [n \in {} |-> FreshNote], size |-> 0, best |-> << >>]

\* A wallet that knows the chain from its first block on.
InitRescanned ==
    LET found == Rescan([wallet |-> Load(NoWallet), disk |-> NoWallet], FirstChain, 1)
    IN  /\ chain = FirstChain /\ birth = 0
        /\ wallet = found.wallet /\ disk = SetBestChain(found.wallet, FirstChain)

\* The first run with a new wallet: it starts at the tip and scans nothing.
InitFirstRun ==
    /\ chain = NewChain /\ birth = Len(NewChain)
    /\ wallet = Load(NoWallet) /\ disk = SetBestChain(wallet, NewChain)

Init ==
    /\ InitRescanned \/ InitFirstRun
    /\ diskChain = chain /\ conflicted = {} /\ added = {}
    /\ lastTip = chain /\ work = Idle(chain) /\ peak = Len(chain)
    /\ everSpent = {} /\ rolledBack = FALSE /\ rollbacks = 0 /\ restarts = 0

walletVars == <<lastTip, work, wallet, disk, history, restarts>>

Running == wallet.failed = "none"

ConnectTip(b) ==
    /\ Running /\ ValidBody(chain, b)
    /\ chain' = Append(chain, b)
    /\ conflicted' = conflicted \union {chain'}
    /\ added' = added \ Range(b)
    /\ UNCHANGED <<diskChain, rollbacks, walletVars>>

\* ActivateBestChainStep goes at most MAX_REORG_LENGTH blocks down from the tip
\* it starts from, but the next may go on from there, and InvalidateBlock has
\* no limit.
DisconnectTip ==
    /\ Running /\ Len(chain) > Len(FirstChain)
    /\ rollbacks < MaxRollbacks /\ rollbacks' = rollbacks + 1
    /\ chain' = Front(chain)
    /\ \E txs \in SUBSET (Relayed \intersect Range(Last(chain))) : added' = added \union txs
    /\ UNCHANGED <<diskChain, conflicted, walletVars>>

AcceptToMemoryPool(tx) ==
    /\ Running /\ tx \notin added /\ tx \notin TxsOf(chain)
    /\ added' = added \union {tx}
    /\ UNCHANGED <<chain, diskChain, conflicted, rollbacks, walletVars>>

FlushStateToDisk ==
    /\ Running /\ restarts < MaxRestarts
    /\ diskChain' = chain
    /\ UNCHANGED <<chain, conflicted, added, rollbacks, walletVars>>

-----------------------------------------------------------------------------
(* ThreadNotifyWallets.                                                    *)

nodeVars == <<chain, diskChain, rollbacks, restarts>>

\* A cycle that finds nothing new ends at once.
\* recentlyConflicted.first.at(pindex) throws for a block without an entry.
Collect ==
    /\ Running /\ ~work.busy
    /\ work' = [busy  |-> chain # lastTip \/ added # {}, target |-> chain,
                added |-> added, synced |-> FALSE]
    /\ wallet' = Require(wallet, \A h \in (Len(FindFork(lastTip, chain)) + 1)..Len(chain) :
                                    Prefix(chain, h) \in conflicted, "other")
    /\ conflicted' = {} /\ added' = {}
    /\ UNCHANGED <<nodeVars, lastTip, disk, history>>

Disconnecting == Running /\ work.busy /\ ~IsPrefix(lastTip, work.target)
Connecting == Running /\ work.busy /\ IsPrefix(lastTip, work.target) /\ lastTip # work.target

Sync(txs, block) ==
    LET s == SyncAll([wallet |-> wallet, disk |-> disk], txs, block)
    IN  wallet' = s.wallet /\ disk' = s.disk

SyncDisconnected ==
    /\ Disconnecting /\ ~work.synced
    /\ Sync(Last(lastTip), << >>)
    /\ work' = [work EXCEPT !.synced = TRUE]
    /\ rolledBack' = TRUE
    /\ UNCHANGED <<nodeVars, conflicted, added, lastTip, birth, peak, everSpent>>

TipDisconnected ==
    /\ Disconnecting /\ work.synced
    /\ wallet' = ChainTipRemoved(wallet, lastTip)
    /\ lastTip' = Front(lastTip)
    /\ work' = [work EXCEPT !.synced = FALSE]
    /\ UNCHANGED <<nodeVars, conflicted, added, disk, history>>

NextBlock == Prefix(work.target, Len(lastTip) + 1)

\* Transactions the block conflicted out of the memory pool are told like those
\* of the memory pool; the model has no conflicts among the wallet's own.
SyncConnected ==
    /\ Connecting /\ ~work.synced
    /\ Sync(Last(NextBlock), NextBlock)
    /\ work' = [work EXCEPT !.synced = TRUE]
    /\ UNCHANGED <<nodeVars, conflicted, added, lastTip, history>>

\* ChainTipAdded saves the wallet when the time of WITNESS_WRITE_INTERVAL is up
TipConnected ==
    /\ Connecting /\ work.synced
    /\ wallet' = ChainTipAdded(wallet, NextBlock)
    /\ \/ disk' = SetBestChain(wallet', NextBlock) /\ rolledBack' = FALSE
       \/ UNCHANGED <<disk, rolledBack>>
    /\ lastTip' = NextBlock
    /\ work' = [work EXCEPT !.synced = FALSE]
    /\ everSpent' = everSpent \union {n \in Mine : Spender[n] \in Range(Last(NextBlock))}
    /\ peak' = Max({peak, Len(NextBlock)})
    /\ UNCHANGED <<nodeVars, conflicted, added, birth>>

SyncMempool ==
    /\ Running /\ work.busy /\ lastTip = work.target
    /\ Sync(SetToSeq(work.added), << >>)
    /\ work' = Idle(lastTip)
    /\ UNCHANGED <<nodeVars, conflicted, added, lastTip, history>>

-----------------------------------------------------------------------------
(* The process ends, by a crash or in order (neither saves the wallet),    *)
(* and InitLoadWallet rescans from the fork with the saved best block.     *)

Benign == ~rolledBack /\ IsPrefix(lastTip, diskChain)

Restart ==
    /\ restarts < MaxRestarts
    /\ AnyRestart \/ Benign
    /\ chain' = diskChain
    /\ LET fork   == FindFork(disk.best, diskChain)
           loaded == [wallet |-> Load(disk), disk |-> disk]
           found  == Rescan(loaded, diskChain, Len(fork))
       IN  IF fork = diskChain
             THEN wallet' = loaded.wallet /\ UNCHANGED <<disk, rolledBack>>
             ELSE /\ wallet' = found.wallet
                  /\ disk' = SetBestChain(found.wallet, diskChain)
                  /\ rolledBack' = FALSE
    /\ lastTip' = diskChain
    /\ work' = Idle(diskChain)
    /\ conflicted' = {} /\ added' = {}
    /\ everSpent' = everSpent \union {n \in Mine : Spender[n] \in TxsOf(diskChain)}
    /\ peak' = Max({peak, Len(diskChain)})
    /\ restarts' = restarts + 1
    /\ UNCHANGED <<diskChain, birth, rollbacks>>

\* A failed assertion has ended the process.
Aborted == ~Running /\ UNCHANGED vars

Next ==
    \/ Len(chain) < Len(Bodies) /\ \E b \in Bodies[Len(chain) + 1] : ConnectTip(b)
    \/ DisconnectTip
    \/ \E tx \in Relayed : AcceptToMemoryPool(tx)
    \/ FlushStateToDisk
    \/ Collect \/ SyncDisconnected \/ TipDisconnected \/ SyncConnected \/ TipConnected
    \/ SyncMempool
    \/ Restart \/ Aborted

Spec == Init /\ [][Next]_vars

-----------------------------------------------------------------------------
(* Properties.                                                             *)

Told == Running /\ ~work.synced

\* The witness code fails an assertion only where it says it cannot go on (the
\* TODO in DecrementNoteWitnesses): a rollback leaves none of the blocks whose
\* witnesses are cached, the last CacheSize below the highest one the wallet
\* was told of, or none of those it was told of at all, as when the first block
\* after a wallet was created is disconnected.  Every other assertion holds, and
\* the list of conflicts is there for every block, however far the chain moves
\* while the thread is busy.
AbortsOnlyPastCache ==
    /\ wallet.failed # "other"
    /\ wallet.failed = "size" => Len(lastTip) <= Max({birth, peak - CacheSize})

\* What GetSaplingNoteWitnesses returns can be spent with: the cached witnesses
\* of a note are those of the last blocks the wallet was told of, newest first,
\* each for the tree of its block, through any reorganisation; a note of the
\* chain has one unless a spend of it was seen.
WitnessesRight ==
    Told => \A n \in DOMAIN wallet.notes :
        LET nd == wallet.notes[n] IN
        IF nd.wits = << >>
          THEN nd.height = -1 /\ (n \in TxsOf(lastTip) => n \in everSpent)
          ELSE /\ nd.height = Len(lastTip)
               /\ \A i \in DOMAIN nd.wits : LET c == Prefix(lastTip, Len(lastTip) - i + 1)
                                            IN n \in TxsOf(c) /\ nd.wits[i] = Witness(n, c)

\* A spend in the next block is recognised: the nullifier kept for a witnessed
\* note is the one of its position on the wallet's chain, although
\* SyncTransaction drops nullifiers and a reorganisation moves positions.
NullifiersKnown ==
    Told => \A n \in DOMAIN wallet.notes :
        wallet.notes[n].wits # << >> /\ n \notin ViewOnly =>
            /\ wallet.notes[n].nf = <<n, Position(n, lastTip)>>
            /\ wallet.notes[n].nf \in wallet.nfs

\* After a restart "the wallet state will be brought up to date during rescanning
\* on startup" (ChainTipAdded): a note whose newest witness is said to be for the
\* height of the wallet's tip has the witness for that tip.
BroughtUpToDate ==
    Told => \A n \in DOMAIN wallet.notes :
        wallet.notes[n].wits # << >> /\ wallet.notes[n].height = Len(lastTip) =>
            n \in TxsOf(lastTip) /\ Head(wallet.notes[n].wits) = Witness(n, lastTip)
=============================================================================
