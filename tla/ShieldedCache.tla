--------------------------- MODULE ShieldedCache ---------------------------
(***************************************************************************)
(* Nullifiers and anchors in the CCoinsView stack, for one shielded pool   *)
(* (Sprout and Sapling run the same code on separate maps): the database,  *)
(* pcoinsTip, and the per-block view of ConnectTip and DisconnectTip.      *)
(*                                                                         *)
(* A commitment tree is the sequence of its commitments, and stands for    *)
(* its own root.  `chain' is what the block index knows of the active      *)
(* chain: per block, the tree it ended with and the nullifiers it revealed.*)
(***************************************************************************)
EXTENDS Naturals, Sequences

CONSTANTS Nullifiers, Commitments,
          MaxCommitments,   \* capacity of a commitment tree
          MaxHeight,        \* bound on the length of the active chain
          NoEntry,          \* "not in the map"
          NullRoot          \* a best anchor not asked for yet

CacheEntry == [entered : BOOLEAN, dirty : BOOLEAN]
Trees == UNION {[1..n -> Commitments] : n \in 0..MaxCommitments}
EmptyRoot == <<>>
Block == [tree : Trees, nfs : SUBSET Nullifiers]

ASSUME Capacity == MaxCommitments \in Nat /\ MaxHeight \in Nat
ASSUME NoEntryIsNoEntry == NoEntry \notin CacheEntry
ASSUME NullRootIsNoRoot == NullRoot \notin Trees

VARIABLES mode,       \* what the per-block view is for, or "closed"
          tree, nfs,  \* of the block being connected: its tree, its nullifiers
          vNf, vAnchor, vBest,   \* maps and best anchor of the view
          tNf, tAnchor, tBest,   \* of pcoinsTip
          dNf, dAnchor, dBest,   \* records of the database
          chain, dChain          \* the blocks below pcoinsTip and the database

viewVars == <<vNf, vAnchor, vBest>>
tipVars == <<tNf, tAnchor, tBest>>
diskVars == <<dNf, dAnchor, dBest, dChain>>
vars == <<mode, tree, nfs, viewVars, tipVars, diskVars, chain>>

Entry(entered, dirty) == [entered |-> entered, dirty |-> dirty]
NoNfs == [n \in Nullifiers |-> NoEntry]
NoAnchors == [r \in Trees |-> NoEntry]

\* What a cache shows for one key over what its base shows.
Shows(entry, below) == IF entry = NoEntry THEN below ELSE entry.entered

\* CCoinsViewDB::GetSproutAnchorAt knows the empty tree without a record.
DiskHas(r) == r = EmptyRoot \/ dAnchor[r]
TipSpent(n) == Shows(tNf[n], dNf[n])
TipHas(r) == Shows(tAnchor[r], DiskHas(r))
ViewSpent(n) == Shows(vNf[n], TipSpent(n))
ViewHas(r) == Shows(vAnchor[r], TipHas(r))
\* GetBestAnchor
TipBest == IF tBest = NullRoot THEN dBest ELSE tBest
ViewBest == IF vBest = NullRoot THEN TipBest ELSE vBest

Init ==
    /\ mode = "closed" /\ tree = EmptyRoot /\ nfs = {}
    /\ vNf = NoNfs /\ vAnchor = NoAnchors /\ vBest = NullRoot
    /\ tNf = NoNfs /\ tAnchor = NoAnchors /\ tBest = NullRoot
    /\ dNf = [n \in Nullifiers |-> FALSE] /\ dAnchor = [r \in Trees |-> FALSE]
    /\ dBest = EmptyRoot
    /\ chain = <<>> /\ dChain = <<>>

(***************************************************************************)
(* Reading: a nullifier is cached whatever the answer, an anchor only when *)
(* the base has it.                                                        *)
(***************************************************************************)
FetchNf(entry, below) == IF entry = NoEntry THEN Entry(below, FALSE) ELSE entry
FetchAnchor(entry, below) ==
    IF entry = NoEntry /\ below THEN Entry(TRUE, FALSE) ELSE entry

TipNfFetched(N) ==
    [n \in Nullifiers |-> IF n \in N THEN FetchNf(tNf[n], dNf[n]) ELSE tNf[n]]
TipAnchorFetched(R) ==
    [r \in Trees |-> IF r \in R THEN FetchAnchor(tAnchor[r], DiskHas(r)) ELSE tAnchor[r]]
ViewAnchorFetched(R) ==
    [r \in Trees |-> IF r \in R THEN FetchAnchor(vAnchor[r], TipHas(r)) ELSE vAnchor[r]]
NfMissed(N) == {n \in N : vNf[n] = NoEntry}
AnchorMissed(R) == {r \in R : vAnchor[r] = NoEntry}

\* A read of pcoinsTip from outside block connection (mempool, miner, RPC).
TipRead(n, r) ==
    /\ mode = "closed"
    /\ tNf' = TipNfFetched({n})
    /\ tAnchor' = TipAnchorFetched({r})
    /\ tBest' = TipBest
    /\ UNCHANGED <<mode, tree, nfs, viewVars, diskVars, chain>>

(***************************************************************************)
(* Connecting a block.                                                     *)
(***************************************************************************)

\* ConnectBlock reads the best anchor and its tree, which "should never fail".
StartConnect ==
    /\ mode = "closed" /\ Len(chain) < MaxHeight
    /\ mode' = "connect"
    /\ tree' = ViewBest /\ nfs' = {}
    /\ vBest' = ViewBest /\ tBest' = TipBest
    /\ vAnchor' = ViewAnchorFetched({ViewBest})
    /\ tAnchor' = TipAnchorFetched(AnchorMissed({ViewBest}))
    /\ UNCHANGED <<vNf, tNf, diskVars, chain>>

\* HaveShieldedRequirements: unspent nullifiers and a known anchor; and room
\* in the tree, whose append() throws when it is full.
TxAllowedRespending(N, r, c) == ViewHas(r) /\ tree \o c \in Trees
TxAllowed(N, r, c) ==
    /\ \A n \in N : ~ViewSpent(n)
    /\ ViewHas(r)
    /\ tree \o c \in Trees

\* One transaction that reveals the nullifiers N, refers to the anchor r and
\* adds the commitments c: the tests, UpdateCoins (SetNullifiers), append.
ConnectTx(N, r, c) ==
    /\ mode = "connect"
    /\ TxAllowed(N, r, c)
    /\ tree' = tree \o c
    /\ nfs' = nfs \cup N
    /\ vNf' = [n \in Nullifiers |-> IF n \in N THEN Entry(TRUE, TRUE) ELSE vNf[n]]
    /\ tNf' = TipNfFetched(NfMissed(N))
    /\ vAnchor' = ViewAnchorFetched({r})
    /\ tAnchor' = TipAnchorFetched(AnchorMissed({r}))
    /\ UNCHANGED <<mode, vBest, tBest, diskVars, chain>>

\* AbstractPushAnchor: the view's anchors and best anchor afterwards.
PushBestOnly(t) == <<vAnchor, t>>
PushAnchor(t) ==
    IF ViewBest = t THEN <<vAnchor, ViewBest>>
    ELSE <<[vAnchor EXCEPT ![t] = Entry(TRUE, TRUE)], t>>

\* AbstractPopAnchor, after BringBestAnchorIntoCache.
PopAnchor(t) ==
    IF ViewBest = t THEN <<vAnchor, ViewBest>>
    ELSE <<[vAnchor EXCEPT ![ViewBest] = Entry(FALSE, TRUE)], t>>

\* BatchWriteNullifiers and BatchWriteAnchors for one key of pcoinsTip.
MovedUpOnlyNew(ours, child) ==
    IF child = NoEntry \/ ~child.dirty THEN ours
    ELSE IF ours = NoEntry THEN Entry(child.entered, TRUE) ELSE ours
MovedUp(ours, child) ==
    IF child = NoEntry \/ ~child.dirty THEN ours
    ELSE IF ours = NoEntry \/ ours.entered # child.entered
         THEN Entry(child.entered, TRUE)
         ELSE ours

\* BatchWrite into pcoinsTip of the view with anchors and best anchor <<a, b>>;
\* the hash is stored as it comes.
FlushView(nf, ab) ==
    /\ tNf' = [n \in Nullifiers |-> MovedUp(tNf[n], nf[n])]
    /\ tAnchor' = [r \in Trees |-> MovedUp(tAnchor[r], ab[1][r])]
    /\ tBest' = ab[2]
    /\ vNf' = NoNfs /\ vAnchor' = NoAnchors /\ vBest' = NullRoot

\* The end of ConnectBlock: PushAnchor, and ConnectTip flushes the view.
EndConnect ==
    /\ mode = "connect"
    /\ mode' = "closed"
    /\ FlushView(vNf, PushAnchor(tree))
    /\ chain' = Append(chain, [tree |-> tree, nfs |-> nfs])
    /\ tree' = EmptyRoot /\ nfs' = {}
    /\ UNCHANGED diskVars

\* A block found invalid, or one only tested.
Abandon ==
    /\ mode = "connect"
    /\ mode' = "closed" /\ tree' = EmptyRoot /\ nfs' = {}
    /\ vNf' = NoNfs /\ vAnchor' = NoAnchors /\ vBest' = NullRoot
    /\ UNCHANGED <<tipVars, diskVars, chain>>

(***************************************************************************)
(* Disconnecting the last block, flushing, crashing.                       *)
(***************************************************************************)

\* The tree of the block below the last one: blockUndo.old_sprout_tree_root,
\* or pprev->hashFinalSaplingRoot.
OldRoot == IF Len(chain) = 1 THEN EmptyRoot ELSE chain[Len(chain) - 1].tree

\* DisconnectBlock and DisconnectTip: the nullifiers are unspent, the anchor
\* popped, the view flushed.  The view is private, so this is one step; what
\* it pulled into pcoinsTip on the way is overwritten by the flush.
Disconnect ==
    LET N == chain[Len(chain)].nfs
    IN  /\ mode = "closed" /\ Len(chain) > 0
        /\ FlushView([n \in Nullifiers |-> IF n \in N THEN Entry(FALSE, TRUE) ELSE NoEntry],
                     PopAnchor(OldRoot))
        /\ chain' = SubSeq(chain, 1, Len(chain) - 1)
        /\ UNCHANGED <<mode, tree, nfs, diskVars>>

\* CCoinsViewDB::BatchWrite for one key.
WrittenNeverErases(record, child) ==
    record \/ (child # NoEntry /\ child.dirty /\ child.entered)
Written(record, child) ==
    IF child = NoEntry \/ ~child.dirty THEN record ELSE child.entered

FlushTip ==
    /\ mode = "closed"
    /\ dNf' = [n \in Nullifiers |-> Written(dNf[n], tNf[n])]
    /\ dAnchor' = [r \in Trees |-> r # EmptyRoot /\ Written(dAnchor[r], tAnchor[r])]
    /\ dBest' = TipBest
    /\ dChain' = chain
    /\ tNf' = NoNfs /\ tAnchor' = NoAnchors
    /\ UNCHANGED <<mode, tree, nfs, viewVars, tBest, chain>>

Crash ==
    /\ mode' = "closed" /\ tree' = EmptyRoot /\ nfs' = {}
    /\ vNf' = NoNfs /\ vAnchor' = NoAnchors /\ vBest' = NullRoot
    /\ tNf' = NoNfs /\ tAnchor' = NoAnchors /\ tBest' = NullRoot
    /\ chain' = dChain
    /\ UNCHANGED diskVars

Next ==
    \/ \E n \in Nullifiers, r \in Trees : TipRead(n, r)
    \/ StartConnect
    \/ \E N \in SUBSET Nullifiers, r \in Trees, c \in Trees : ConnectTx(N, r, c)
    \/ EndConnect
    \/ Abandon
    \/ Disconnect
    \/ FlushTip
    \/ Crash

Spec == Init /\ [][Next]_vars

-----------------------------------------------------------------------------
(***************************************************************************)
(* Properties.                                                             *)
(***************************************************************************)
SpentIn(c) == UNION {c[i].nfs : i \in DOMAIN c}
RootsOf(c) == {EmptyRoot} \cup {c[i].tree : i \in DOMAIN c}
BestOf(c) == IF c = <<>> THEN EmptyRoot ELSE c[Len(c)].tree

\* Through any reads, negative caching, flushes, reorganisations and crashes,
\* pcoinsTip shows exactly the nullifiers revealed and the anchors entered by
\* the blocks of the active chain, and its best anchor is the last one.
TipIsChain ==
    /\ \A n \in Nullifiers : TipSpent(n) <=> n \in SpentIn(chain)
    /\ \A r \in Trees : TipHas(r) <=> r \in RootsOf(chain)
    /\ TipBest = BestOf(chain)

\* The same of the database and the blocks it was flushed at.
DiskIsChain ==
    /\ \A n \in Nullifiers : dNf[n] <=> n \in SpentIn(dChain)
    /\ \A r \in Trees : DiskHas(r) <=> r \in RootsOf(dChain)
    /\ dBest = BestOf(dChain)

\* No nullifier is revealed twice on the active chain.
NoDoubleSpend ==
    \A i, j \in DOMAIN chain : i # j => chain[i].nfs \cap chain[j].nfs = {}

\* "This should never fail: we should always be able to get the root that is
\* on the tip of our chain": the asserts of ConnectBlock on the best anchor's
\* tree, in every layer.
BestAnchorKnown == ViewHas(ViewBest) /\ TipHas(TipBest) /\ DiskHas(dBest)
=============================================================================
