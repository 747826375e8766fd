---------------------------- MODULE HistoryTree ----------------------------
(***************************************************************************)
(* The chain history tree (ZIP 221) in the CCoinsView stack: HistoryCache  *)
(* (zcash/History.cpp), PushHistoryNode, PopHistoryNode and                *)
(* PreloadHistoryTree (coins.cpp), and its records in CCoinsViewDB.        *)
(*                                                                         *)
(* A Merkle mountain range is stored as an array of nodes.  A node is the  *)
(* sequence of the leaves below it, which stands for its hash; the root of *)
(* a tree is the sequence of all its leaves.  librustzcash's mmr_append    *)
(* and mmr_delete are external: they see only the nodes they are given.    *)
(***************************************************************************)
EXTENDS Naturals, Sequences, SequencesExt

CONSTANTS Branches,    \* what tells competing blocks of one height apart
          Bases,       \* heights of the database the node starts with
          Span,        \* bound: blocks above the base that come and go
          Activation,  \* first height of the second epoch
          NoCache      \* an epoch not in historyCacheMap

ASSUME Bounds == Bases \subseteq Nat /\ Span \in Nat /\ Activation \in Nat \ {0, 1}

Epochs == {1, 2}

VARIABLES mode,          \* "closed", or what the open view is used for
          view, tip,     \* historyCacheMap of the view and of pcoinsTip
          disk,          \* DB_MMR_NODE, DB_MMR_LENGTH and DB_MMR_ROOT records
          seen,          \* the blocks below the view (below pcoinsTip if closed)
          chain, dChain, \* the blocks below pcoinsTip and the database
          base           \* height of the blocks that are never disconnected

vars == <<mode, view, tip, disk, seen, chain, dChain, base>>

\* CurrentEpochBranchId, from the height of the block.
EpochOf(height) == IF height < Activation THEN 1 ELSE 2

Leaf(height, branch) == <<height, branch>>

(***************************************************************************)
(* Reference definition of the stored array, and the initial states.       *)
(***************************************************************************)
RECURSIVE FloorLog2(_)
FloorLog2(x) == IF x = 1 THEN 0 ELSE 1 + FloorLog2(x \div 2)

\* The leaves of epoch e on a chain.
LeavesOf(c, e) == SelectSeq(c, LAMBDA leaf : EpochOf(leaf[1]) = e)

\* Reference definition of the stored array: a perfect tree over the largest
\* power of two of the leaves, in post-order, then the array of the rest.
RECURSIVE PerfectTree(_)
PerfectTree(L) ==
    IF Len(L) = 1 THEN <<L>>
    ELSE LET h == Len(L) \div 2
         IN  PerfectTree(SubSeq(L, 1, h)) \o PerfectTree(SubSeq(L, h + 1, Len(L))) \o <<L>>
RECURSIVE Mountains(_)
Mountains(L) ==
    IF L = <<>> THEN <<>>
    ELSE LET p == 2^FloorLog2(Len(L))
         IN  PerfectTree(SubSeq(L, 1, p)) \o Mountains(SubSeq(L, p + 1, Len(L)))

NewCache(length, root) ==
    [appends |-> <<>>, length |-> length, updateDepth |-> length, root |-> root]
Unselected == [e \in Epochs |-> NoCache]

\* The database was flushed at the first blocks of one branch, and the node
\* has just been started.
Init ==
    /\ base \in Bases
    /\ \E b \in Branches : dChain = [h \in 1..base |-> Leaf(h, b)]
    /\ disk = [e \in Epochs |->
                 LET L == LeavesOf(dChain, e)
                 IN  [nodes |-> [i \in 0..(Len(Mountains(L)) - 1) |-> Mountains(L)[i + 1]],
                      length |-> Len(Mountains(L)), root |-> L]]
    /\ seen = dChain /\ chain = dChain
    /\ mode = "closed"
    /\ view = Unselected /\ tip = Unselected

(***************************************************************************)
(* Reading through the layers.  Array positions count from 0.              *)
(***************************************************************************)

\* SelectHistoryCache: asking creates the cache, in pcoinsTip too.
TipCache(e) ==
    IF tip[e] # NoCache THEN tip[e] ELSE NewCache(disk[e].length, disk[e].root)
ViewCache(e) ==
    IF view[e] # NoCache THEN view[e] ELSE NewCache(TipCache(e).length, TipCache(e).root)
Selected(E) == [e \in Epochs |-> IF e \in E THEN TipCache(e) ELSE tip[e]]

\* GetHistoryAt
TipAt(e, i) ==
    IF i >= TipCache(e).updateDepth THEN TipCache(e).appends[i] ELSE disk[e].nodes[i]
ViewAt(e, i) ==
    IF i >= ViewCache(e).updateDepth THEN ViewCache(e).appends[i] ELSE TipAt(e, i)

(***************************************************************************)
(* HistoryCache.                                                           *)
(***************************************************************************)
Put(f, i, x) == [j \in DOMAIN f \cup {i} |-> IF j = i THEN x ELSE f[j]]

Extend(cache, node) ==
    [cache EXCEPT !.appends = Put(@, cache.length, node), !.length = @ + 1]

TruncateShallow(cache, n) ==
    [cache EXCEPT !.appends = Restrict(@, {i \in DOMAIN @ : i < n}), !.length = n]
Truncate(cache, n) ==
    [cache EXCEPT !.appends = Restrict(@, {i \in DOMAIN @ : i < n}),
                  !.length = n,
                  !.updateDepth = IF @ > n THEN n ELSE @]

(***************************************************************************)
(* PreloadHistoryTree: the positions of the peaks, left to right, and the  *)
(* positions on the right slope of the last peak with their siblings.      *)
(***************************************************************************)
Altitude(n) == FloorLog2(n + 1) - 1

RECURSIVE PeaksWalkBlind(_, _, _)
PeaksWalkBlind(pos, alt, length) ==
    IF alt = 0 \/ pos >= length THEN <<>>
    ELSE <<<<pos, alt>>>> \o PeaksWalkBlind(pos + 2^(alt + 1) - 1, alt, length)

\* The while loop over (peak_pos, alt).
RECURSIVE PeaksWalk(_, _, _)
PeaksWalk(pos, alt, length) ==
    IF alt = 0 THEN <<>>
    ELSE LET down == pos >= length
             p == IF down THEN pos - 2^alt ELSE pos
             a == IF down THEN alt - 1 ELSE alt
         IN  IF p < length
             THEN <<<<p, a>>>> \o PeaksWalk(p + 2^(a + 1) - 1, a, length)
             ELSE PeaksWalk(p, a, length)

Peaks(length) ==
    IF length = 1 THEN <<<<0, 0>>>>
    ELSE PeaksWalk(2^(Altitude(length) + 1) - 2, Altitude(length), length)

\* The extra pass: left and right children down the right slope.
RECURSIVE RightSlope(_, _)
RightSlope(pos, alt) ==
    IF alt = 0 THEN <<>>
    ELSE <<pos - 2^alt, pos - 1>> \o RightSlope(pos - 1, alt - 1)

(***************************************************************************)
(* librustzcash_mmr_append and librustzcash_mmr_delete, as they are used.  *)
(***************************************************************************)

\* The nodes appended when `node' joins the peaks: equal heights merge.
RECURSIVE MmrAppend(_, _)
MmrAppend(peaks, node) ==
    IF peaks # <<>> /\ Len(Last(peaks)) = Len(node)
    THEN <<node>> \o MmrAppend(Front(peaks), Last(peaks) \o node)
    ELSE <<node>>

\* Removing the last leaf drops the right slope of the last peak; the left
\* siblings, every other extra node, become peaks.
MmrDeletes(lastAlt) == lastAlt + 1
MmrDeleteRoot(peaks, extra) ==
    FlattenSeq(Front(peaks)) \o
    FlattenSeq([i \in 1..(Len(extra) \div 2) |-> extra[2 * i - 1]])

(***************************************************************************)
(* PushHistoryNode and PopHistoryNode on the view's cache of epoch e.      *)
(***************************************************************************)
PushHistoryNode(e, leaf) ==
    LET cache == ViewCache(e)
        peaks == [k \in DOMAIN Peaks(cache.length) |-> ViewAt(e, Peaks(cache.length)[k][1])]
    IN  IF cache.length = 0 THEN [Extend(cache, <<leaf>>) EXCEPT !.root = <<leaf>>]
        ELSE [FoldLeft(Extend, cache, MmrAppend(peaks, <<leaf>>))
                 EXCEPT !.root = FlattenSeq(peaks) \o <<leaf>>]

PopHistoryNode(e) ==
    LET cache == ViewCache(e)
        at == Peaks(cache.length)
        peaks == [k \in DOMAIN at |-> ViewAt(e, at[k][1])]
        slope == RightSlope(Last(at)[1], Last(at)[2])
        extra == [k \in DOMAIN slope |-> ViewAt(e, slope[k])]
    IN  IF cache.length <= 1 THEN [Truncate(cache, 0) EXCEPT !.root = <<>>]
        ELSE IF cache.length = 3
             THEN [Truncate(cache, 1) EXCEPT !.root = ViewAt(e, 0)]
             ELSE [Truncate(cache, cache.length - MmrDeletes(Last(at)[2]))
                      EXCEPT !.root = MmrDeleteRoot(peaks, extra)]

(***************************************************************************)
(* Blocks.                                                                 *)
(***************************************************************************)
\* ConnectTip or DisconnectTip opens its view.
Open ==
    /\ mode = "closed"
    /\ mode' = "block"
    /\ UNCHANGED <<view, tip, disk, seen, chain, dChain, base>>

\* ConnectBlock reads the history root of the parent's epoch and pushes a
\* leaf to its own epoch.
Connect(b) ==
    LET height == Len(seen) + 1
        e == EpochOf(height)
        E == {EpochOf(height - 1), e}
    IN  /\ height <= base + Span
        /\ \/ mode = "block" /\ mode' = "done"
           \/ mode \in {"verify", "reconnect"} /\ mode' = "reconnect"
              /\ height <= Len(chain) /\ Leaf(height, b) = chain[height]
        /\ tip' = Selected(E)
        /\ view' = [x \in Epochs |-> IF x = e THEN PushHistoryNode(e, Leaf(height, b))
                                     ELSE IF x \in E THEN ViewCache(x) ELSE view[x]]
        /\ seen' = Append(seen, Leaf(height, b))
        /\ UNCHANGED <<disk, chain, dChain, base>>

\* DisconnectBlock pops from the epoch of the block.
Disconnect ==
    LET e == EpochOf(Len(seen))
    IN  /\ Len(seen) > base
        /\ \/ mode = "block" /\ mode' = "done"
           \/ mode = "verify" /\ UNCHANGED mode
        /\ tip' = Selected({e})
        /\ view' = [view EXCEPT ![e] = PopHistoryNode(e)]
        /\ seen' = Front(seen)
        /\ UNCHANGED <<disk, chain, dChain, base>>

\* BatchWriteHistory into pcoinsTip, for one epoch.
MovedUp(ours, child) ==
    IF child = NoCache THEN ours
    ELSE IF ours = NoCache THEN child
    ELSE [FoldLeft(Extend, Truncate(ours, child.updateDepth),
                   [k \in 1..(child.length - child.updateDepth) |->
                       child.appends[child.updateDepth + k - 1]])
             EXCEPT !.root = child.root]

\* The view is flushed at the end of ConnectTip or DisconnectTip.
Commit ==
    /\ mode = "done"
    /\ mode' = "closed"
    /\ tip' = [e \in Epochs |-> MovedUp(tip[e], view[e])]
    /\ view' = Unselected
    /\ chain' = seen
    /\ UNCHANGED <<disk, seen, dChain, base>>

\* VerifyDB opens a view, disconnects blocks on it and reconnects them.
Verify ==
    /\ mode = "closed" /\ chain # <<>>
    /\ mode' = "verify"
    /\ UNCHANGED <<view, tip, disk, seen, chain, dChain, base>>

\* VerifyDB ends, or the block was invalid: the view is thrown away.
Discard ==
    /\ mode # "closed"
    /\ mode' = "closed"
    /\ view' = Unselected
    /\ seen' = chain
    /\ UNCHANGED <<tip, disk, chain, dChain, base>>

\* BatchWriteHistory to the database, for one epoch.  The loop that erases
\* updateDepth+1..length serialises an `int' where the records have a 64-bit
\* index, and so erases nothing.
WrittenRootless(record, cache) ==
    IF cache = NoCache THEN record
    ELSE [nodes |-> cache.appends @@ record.nodes,
          length |-> cache.length, root |-> record.root]
Written(record, cache) ==
    IF cache = NoCache THEN record
    ELSE [nodes |-> cache.appends @@ record.nodes,
          length |-> cache.length, root |-> cache.root]

FlushTip ==
    /\ mode = "closed"
    /\ disk' = [e \in Epochs |-> Written(disk[e], tip[e])]
    /\ dChain' = chain
    /\ tip' = Unselected
    /\ UNCHANGED <<mode, view, seen, chain, base>>

Crash ==
    /\ mode' = "closed"
    /\ view' = Unselected /\ tip' = Unselected
    /\ seen' = dChain /\ chain' = dChain
    /\ UNCHANGED <<disk, dChain, base>>

Next ==
    \/ Open \/ Disconnect \/ Commit \/ Verify \/ Discard \/ FlushTip \/ Crash
    \/ \E b \in Branches : Connect(b)

Spec == Init /\ [][Next]_vars

-----------------------------------------------------------------------------
(***************************************************************************)
(* Properties.                                                             *)
(***************************************************************************)

\* A layer that reads `at' and reports `length' and `root' holds the tree of L.
Holds(L, length, root, At(_)) ==
    LET nodes == Mountains(L)
    IN  /\ length = Len(nodes)
        /\ root = L
        /\ \A i \in 0..(length - 1) : At(i) = nodes[i + 1]

\* Whatever was pushed, popped, flushed or lost, the view (pcoinsTip, when no
\* view is open) reads the very Merkle mountain range of the blocks below it:
\* the root that ConnectBlock compares with hashLightClientRoot is theirs.
ViewHoldsChain ==
    \A e \in Epochs :
        Holds(LeavesOf(seen, e), ViewCache(e).length, ViewCache(e).root,
              LAMBDA i : ViewAt(e, i))

\* The same of the database and the blocks it was last flushed at: the stale
\* nodes beyond DB_MMR_LENGTH are never read as nodes of the tree.
DiskHoldsChain ==
    \A e \in Epochs :
        Holds(LeavesOf(dChain, e), disk[e].length, disk[e].root,
              LAMBDA i : disk[e].nodes[i])

\* A layer keeps exactly the nodes from updateDepth on: the lookups into
\* `appends' and below it always find a node.
AppendsCoverUpdate ==
    \A cache \in {view[e] : e \in Epochs} \cup {tip[e] : e \in Epochs} :
        cache # NoCache =>
            /\ cache.updateDepth <= cache.length
            /\ DOMAIN cache.appends = cache.updateDepth..(cache.length - 1)
=============================================================================
