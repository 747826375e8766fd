-------------------------- MODULE BlockIndexProofs --------------------------
(***************************************************************************)
(* CheckBlockIndex never fails in ChainSelection, for any number of blocks *)
(* and threads, when the two RPCs are called as they are documented: the   *)
(* blocks with nChainTx are those whose whole chain has data, every other  *)
(* stored block waits for its parent unless a block of its chain failed,   *)
(* and the candidates are the complete chains no worse than the tip.       *)
(***************************************************************************)
EXTENDS ChainSelectionProofs

\* Below a block, every ancestor has a child on the way.
PathInv == \A b \in index : \A a \in anc[b] :
             a # b => \E d \in anc[b] : d # Genesis /\ parent[d] = a

\* No candidate is worse than the tip.
NoWorse == \A c \in candidates : ~ Worse(c, tip)

\* Only linked blocks and bare headers are marked, so a block whose parent
\* was marked when it arrived waits for data that is never stored.
MarkInv == failedChild \subseteq linked /\ failed \cap data \subseteq linked

\* Where a stored block is that is not linked yet.
WaitInv == \A b \in data \ linked :
             b \in cs.queue \/ b \in unlinked \/ parent[b] \in failed \ data

\* A complete chain is linked, or is about to be.
QueueInv == \A b \in index \ linked : anc[b] \subseteq data => anc[b] \cap cs.queue # {}

\* The queue is ReceivedBlockTransactions' own.
LoopInv == cs.loop # "link" => cs.queue = {}

BlockInv == PathInv /\ NoWorse /\ MarkInv /\ WaitInv /\ QueueInv /\ LoopInv

-----------------------------------------------------------------------------

\* Outside the link loop nothing is queued.
LEMMA NoQueue ==
  ASSUME BlockInv
  PROVE  /\ Free.queue = {} /\ Free.loop = "none"
         /\ \A t, l : Held(t, l).queue = {} /\ Held(t, l).loop = l
         /\ \A t : CanCall(t) \/ InFind(t) \/ InStep(t) => cs.queue = {}
<1>1. Free.queue = {} /\ Free.loop = "none"
  BY DEF Free
<1>2. \A t, l : Held(t, l).queue = {} /\ Held(t, l).loop = l
  BY DEF Free, Held
<1>3. \A t : CanCall(t) \/ InFind(t) => cs.queue = {}
  BY <1>1, <1>2, Zenon DEF CanCall, InFind
<1>4. \A t : InStep(t) => cs.queue = {}
  BY DEF InStep, BlockInv, LoopInv
<1> QED  BY <1>1, <1>2, <1>3, <1>4, Zenon

\* A step that stores and links no block, and marks only linked blocks and
\* bare headers.
LEMMA Kept ==
  ASSUME BlockInv, UNCHANGED <<tree, data, linked, unlinked>>,
         cs.queue = {}, cs'.queue = {},
         failed \ data \subseteq failed',
         failed' \cap data \subseteq linked, failedChild' \subseteq linked
  PROVE  PathInv' /\ MarkInv' /\ WaitInv' /\ QueueInv' /\ LoopInv'
<1>1. /\ index' = index /\ parent' = parent /\ anc' = anc
      /\ data' = data /\ linked' = linked /\ unlinked' = unlinked
  BY DEF tree
<1>2. PathInv'
  BY <1>1 DEF BlockInv, PathInv
<1>3. MarkInv'
  BY <1>1 DEF MarkInv
<1>4. WaitInv'
  BY <1>1 DEF BlockInv, WaitInv
<1>5. QueueInv'
  BY <1>1 DEF BlockInv, QueueInv
<1> QED  BY <1>2, <1>3, <1>4, <1>5 DEF LoopInv

\* The order of the candidates and the tip, when none is added.
LEMMA NoWorseKept ==
  ASSUME BlockInv, UNCHANGED <<tree, seq, tip>>, candidates' \subseteq candidates
  PROVE  NoWorse'
<1>1. \A x, y : Worse(x, y)' <=> Worse(x, y)
  BY WorseKept
<1> QED  BY <1>1 DEF BlockInv, NoWorse

\* With the genesis block alone nothing waits.
LEMMA InitBlockInv == Init => BlockInv
<1> SUFFICES ASSUME Init PROVE BlockInv
  OBVIOUS
<1>1. PathInv /\ MarkInv /\ WaitInv /\ QueueInv /\ LoopInv
  BY ConstantsAssumption DEF Init, PathInv, MarkInv, WaitInv, QueueInv, LoopInv, Free
<1>2. NoWorse
  BY ConstantsAssumption DEF Init, NoWorse, Worse
<1> QED  BY <1>1, <1>2 DEF BlockInv

\* A new header is a leaf without data.
LEMMA AcceptBlockHeaderBlock ==
  ASSUME IndInv, BlockInv, NEW t \in Thread, NEW b \in Block, NEW p \in index, NEW w \in Weight,
         AcceptBlockHeader(t, b, p, w)
  PROVE  BlockInv'
<1>1. /\ b \notin index /\ index' = index \cup {b} /\ b # Genesis /\ p # b
      /\ \A c \in index : parent'[c] = parent[c] /\ anc'[c] = anc[c] /\ work'[c] = work[c]
      /\ parent'[b] = p /\ anc'[b] = anc[p] \cup {b}
      /\ \A c \in index : anc[c] \subseteq index
      /\ p \in anc[p]
      /\ tip \in index /\ candidates \subseteq index /\ data \subseteq index /\ b \notin data
  BY DEF AcceptBlockHeader, IndInv, TypeOK, Tree
<1>2. UNCHANGED <<data, failed, failedChild, linked, seq, candidates, unlinked, tip, cs>>
  BY DEF AcceptBlockHeader, status, sets
<1>3. PathInv'
  <2> SUFFICES ASSUME NEW c \in index \cup {b}, NEW a \in anc'[c], a # c
               PROVE  \E d \in anc'[c] : d # Genesis /\ parent'[d] = a
    BY <1>1 DEF PathInv
  <2>1. CASE c \in index
    <3>1. PICK d \in anc[c] : d # Genesis /\ parent[d] = a
      BY <1>1, <2>1 DEF BlockInv, PathInv
    <3> QED  BY <1>1, <2>1, <3>1
  <2>2. CASE c = b /\ a = p
    BY <1>1, <2>2
  <2>3. CASE c = b /\ a # p
    <3>1. PICK d \in anc[p] : d # Genesis /\ parent[d] = a
      BY <1>1, <2>3 DEF BlockInv, PathInv
    <3> QED  BY <1>1, <2>3, <3>1
  <2> QED  BY <2>1, <2>2, <2>3
<1>4. NoWorse'
  BY <1>1, <1>2 DEF BlockInv, NoWorse, Worse
<1>5. MarkInv'
  BY <1>2 DEF BlockInv, MarkInv
<1>6. WaitInv'
  BY <1>1, <1>2 DEF BlockInv, WaitInv
<1>7. QueueInv'
  <2> SUFFICES ASSUME NEW c \in (index \cup {b}) \ linked, anc'[c] \subseteq data
               PROVE  anc'[c] \cap cs.queue # {}
    BY <1>1, <1>2 DEF QueueInv
  <2>1. c \in index /\ anc'[c] = anc[c]
    BY <1>1
  <2> QED  BY <2>1 DEF BlockInv, QueueInv
<1>8. LoopInv'
  BY <1>2 DEF BlockInv, LoopInv
<1> QED  BY <1>3, <1>4, <1>5, <1>6, <1>7, <1>8 DEF BlockInv

\* A block that AcceptBlock ignores or rejects: at most a bare header is
\* marked.
LEMMA IgnoreBlockBlock ==
  ASSUME BlockInv, NEW t \in Thread, NEW b \in index, IgnoreBlock(t, b)
  PROVE  BlockInv'
<1>1. /\ UNCHANGED <<tree, data, linked, unlinked, failed, failedChild, candidates, seq, tip, cs>>
      /\ cs.queue = {}
  BY NoQueue DEF IgnoreBlock, status, sets
<1> QED  BY <1>1, Kept, NoWorseKept DEF BlockInv, MarkInv

LEMMA RejectBlockBlock ==
  ASSUME BlockInv, NEW t \in Thread, NEW b \in index, RejectBlock(t, b)
  PROVE  BlockInv'
<1>1. /\ UNCHANGED <<tree, data, linked, unlinked, failedChild, candidates, seq, tip, cs>>
      /\ failed' = failed \cup {b} /\ b \notin data /\ cs.queue = {}
  BY NoQueue DEF RejectBlock, sets
<1> QED  BY <1>1, Kept, NoWorseKept DEF BlockInv, MarkInv

\* A stored block is queued if its parent is linked; it can complete no chain
\* otherwise, because the chain of its parent is not complete.
LEMMA StoreBlockBlock ==
  ASSUME IndInv, BlockInv, NEW t \in Thread, NEW b \in index, StoreBlock(t, b)
  PROVE  BlockInv'
<1>1. /\ UNCHANGED <<tree, failed, failedChild, linked, candidates, seq, tip>>
      /\ data' = data \cup {b} /\ b \notin data /\ b \notin failed /\ cs.queue = {}
  BY NoQueue DEF StoreBlock, Failed
<1>2. index' = index /\ parent' = parent /\ anc' = anc
  BY <1>1 DEF tree
<1>3. \/ parent[b] \in linked /\ cs'.queue = {b} /\ cs'.loop = "link" /\ unlinked' = unlinked
      \/ /\ parent[b] \notin linked /\ cs'.queue = {}
         /\ unlinked' = IF parent[b] \in Failed THEN unlinked ELSE unlinked \cup {b}
  <2>1. CASE parent[b] \in linked
    <3>1. cs' = [Held(t, "link") EXCEPT !.queue = {b}] /\ unlinked' = unlinked
      BY <2>1 DEF StoreBlock
    <3> QED  BY <2>1, <3>1 DEF Held, Free
  <2>2. CASE parent[b] \notin linked
    BY <1>1, <2>2 DEF StoreBlock
  <2> QED  BY <2>1, <2>2
<1>4. /\ b # Genesis /\ parent[b] \in index /\ b \in anc[b]
      /\ anc[b] = anc[parent[b]] \cup {b} /\ b \notin anc[parent[b]]
      /\ \A c \in index : \A a \in anc[c] : anc[a] \subseteq anc[c]
  BY <1>1, GenesisLinked DEF IndInv, TypeOK, Tree
<1>5. PathInv'
  BY <1>2 DEF BlockInv, PathInv
<1>6. NoWorse'
  BY <1>1, NoWorseKept
<1>7. MarkInv'
  BY <1>1 DEF BlockInv, MarkInv
<1>8. WaitInv'
  <2> SUFFICES ASSUME NEW c \in data' \ linked
               PROVE  c \in cs'.queue \/ c \in unlinked' \/ parent[c] \in failed \ data'
    BY <1>1, <1>2 DEF WaitInv
  <2>1. CASE c = b
    <3>1. CASE parent[b] \in Failed /\ parent[b] \notin linked
      <4>1. parent[b] \in failed \ data /\ parent[b] # b
        BY <1>4, <3>1 DEF Failed, BlockInv, MarkInv, IndInv, Tree
      <4> QED  BY <1>1, <2>1, <4>1
    <3> QED  BY <1>3, <2>1, <3>1
  <2>2. CASE c # b
    <3>1. c \in unlinked \/ parent[c] \in failed \ data
      BY <1>1, <2>2 DEF BlockInv, WaitInv
    <3> QED  BY <1>1, <1>3, <3>1
  <2> QED  BY <2>1, <2>2
<1>9. QueueInv'
  <2> SUFFICES ASSUME NEW c \in index \ linked, anc[c] \subseteq data'
               PROVE  anc[c] \cap cs'.queue # {}
    BY <1>1, <1>2 DEF QueueInv
  <2>1. b \in anc[c]
    BY <1>1 DEF BlockInv, QueueInv
  <2>2. CASE parent[b] \in linked
    BY <1>3, <2>1, <2>2
  <2>3. CASE parent[b] \notin linked
    <3>1. anc[parent[b]] \subseteq data
      BY <1>1, <1>4, <2>1
    <3> QED  BY <1>1, <1>4, <2>3, <3>1 DEF BlockInv, QueueInv
  <2> QED  BY <2>2, <2>3
<1>10. LoopInv'
  BY <1>3 DEF LoopInv
<1> QED  BY <1>5, <1>6, <1>7, <1>8, <1>9, <1>10 DEF BlockInv

\* A linked block is no worse than the tip if it becomes a candidate, and the
\* blocks that waited for it take its place in the queue.
LEMMA LinkBlockBlock ==
  ASSUME IndInv, BlockInv, NEW t \in Thread, LinkBlock(t)
  PROVE  BlockInv'
<1>1. PICK b \in cs.queue : LinkBlock(t)!2!(b)
  BY Zenon DEF LinkBlock
<1> DEFINE waiting == {c \in unlinked : parent[c] = b}
           queue == (cs.queue \ {b}) \cup waiting
<1>2. /\ linked' = linked \cup {b} /\ seq' = [seq EXCEPT ![b] = nextSeq]
      /\ candidates' = IF work[b] < work[tip] \/ (work[b] = work[tip] /\ nextSeq > seq[tip])
                         THEN candidates ELSE candidates \cup {b}
      /\ unlinked' = unlinked \ waiting
      /\ UNCHANGED <<tree, data, failed, failedChild, tip>>
  BY <1>1, Zenon DEF LinkBlock, StillWaiting
<1>3. cs'.queue = queue /\ LoopInv'
  <2>1. cs' = IF queue = {} THEN Free ELSE [cs EXCEPT !.queue = queue]
    BY <1>1
  <2>2. [cs EXCEPT !.queue = queue].queue = queue /\ [cs EXCEPT !.queue = queue].loop = cs.loop
    BY DEF IndInv, TypeOK
  <2>3. cs.loop = "link"
    BY DEF LinkBlock
  <2> HIDE DEF queue
  <2> QED  BY <2>1, <2>2, <2>3, NoQueue DEF LoopInv
<1>4. index' = index /\ parent' = parent /\ anc' = anc /\ work' = work
  BY <1>2 DEF tree
<1>5. /\ b \in data /\ b \in index /\ b \in Block /\ b \notin linked /\ parent[b] \in linked
      /\ tip \in linked /\ candidates \subseteq linked /\ linked \subseteq index
      /\ \A c \in linked : anc[c] \subseteq linked
  BY GenesisLinked DEF IndInv, TypeOK, Links
<1>6. PathInv'
  BY <1>4 DEF BlockInv, PathInv
<1>7. NoWorse'
  <2>1. seq'[b] = nextSeq /\ \A c \in linked : seq'[c] = seq[c]
    BY <1>2, <1>5 DEF IndInv, TypeOK
  <2>2. \A c \in linked : Worse(c, tip)' <=> Worse(c, tip)
    BY <1>2, <1>4, <1>5, <2>1 DEF Worse
  <2>3. b \in candidates' => ~ Worse(b, tip)'
    BY <1>2, <1>4, <1>5, <2>1 DEF Worse
  <2> QED  BY <1>2, <1>5, <2>2, <2>3 DEF BlockInv, NoWorse
<1>8. MarkInv'
  BY <1>2 DEF BlockInv, MarkInv
<1>9. WaitInv'
  <2> SUFFICES ASSUME NEW c \in data \ linked, c # b
               PROVE  c \in queue \/ c \in unlinked' \/ parent[c] \in failed \ data
    BY <1>2, <1>3, <1>4 DEF WaitInv
  <2>1. c \in cs.queue \/ c \in unlinked \/ parent[c] \in failed \ data
    BY DEF BlockInv, WaitInv
  <2> QED  BY <1>2, <2>1
<1>10. QueueInv'
  <2> SUFFICES ASSUME NEW c \in index \ linked, c # b, anc[c] \subseteq data
               PROVE  anc[c] \cap queue # {}
    BY <1>2, <1>3, <1>4 DEF QueueInv
  <2>1. anc[c] \cap cs.queue # {}
    BY DEF BlockInv, QueueInv
  <2>2. CASE b \in anc[c]
    <3>1. PICK d \in anc[c] : d # Genesis /\ parent[d] = b
      BY <2>2 DEF BlockInv, PathInv
    <3>2. d \in data /\ d # b
      BY <1>5, <3>1
    <3>3. d \notin linked
      <4>1. d \in index /\ anc[d] = anc[b] \cup {d} /\ b \in anc[b]
        BY <1>5, <3>1 DEF IndInv, TypeOK, Tree
      <4> QED  BY <1>5, <4>1
    <3>4. d \in cs.queue \/ d \in unlinked
      BY <1>5, <3>1, <3>2, <3>3 DEF BlockInv, WaitInv
    <3> QED  BY <3>1, <3>2, <3>4
  <2>3. CASE b \notin anc[c]
    BY <2>1, <2>3
  <2> QED  BY <2>2, <2>3
<1> QED  BY <1>3, <1>6, <1>7, <1>8, <1>9, <1>10 DEF BlockInv

\* FindMostWorkChain marks linked blocks.
LEMMA DropCandidateBlock ==
  ASSUME IndInv, BlockInv, NEW t \in Thread, DropCandidate(t)
  PROVE  BlockInv'
<1>1. PICK new \in candidates, test \in Failed \ Active :
         /\ failedChild' = failedChild \cup (anc[new] \ anc[test])
         /\ candidates' = candidates \ ((anc[new] \ anc[test]) \cup {test})
  BY DEF DropCandidate
<1>2. /\ UNCHANGED <<tree, data, linked, unlinked, failed, seq, tip>>
      /\ cs.queue = {} /\ cs'.queue = {}
  BY NoQueue DEF DropCandidate
<1>3. anc[new] \subseteq linked
  BY DEF IndInv, TypeOK, Links
<1> QED  BY <1>1, <1>2, <1>3, Kept, NoWorseKept DEF BlockInv, MarkInv

\* ActivateBestChain returns, starts a step or stops the node.
LEMMA FindBlock ==
  ASSUME BlockInv, NEW t \in Thread, StayAtTip(t) \/ StartStep(t) \/ RefuseReorg(t)
  PROVE  BlockInv'
<1>1. UNCHANGED <<tree, data, linked, unlinked, failed, failedChild, candidates, seq, tip>>
  BY ZenonT(30) DEF StayAtTip, StartStep, RefuseReorg, status, sets
<1>2. cs.queue = {} /\ cs'.queue = {}
  <2>1. \A new : [Held(t, "step") EXCEPT !.most = new, !.old = tip].queue = {}
    BY DEF Held, Free
  <2> QED  BY <2>1, NoQueue, Zenon DEF StayAtTip, StartStep, RefuseReorg
<1> QED  BY <1>1, <1>2, Kept, NoWorseKept DEF BlockInv, MarkInv

\* A block has more work than its parent, so no candidate is worse than the
\* tip's parent.
LEMMA ParentNoWorse ==
  ASSUME IndInv, BlockInv, NEW b \in Active \ {Genesis}
  PROVE  \A c \in candidates : ~ Worse(c, parent[b])
<1>1. /\ tip \in index /\ b \in index /\ parent[b] \in index /\ index \subseteq Block
      /\ candidates \subseteq Block
  BY DEF IndInv, TypeOK, Active
<1>2. parent[b] \in anc[tip] /\ parent[b] # tip
  BY <1>1 DEF IndInv, Tree, Active
<1>3. work[parent[b]] < work[tip]
  BY <1>1, <1>2 DEF IndInv, Tree
<1> QED  BY <1>1, <1>3 DEF BlockInv, NoWorse, Worse, IndInv, TypeOK

\* The steps of ActivateBestChainStep; ConnectTip prunes the candidates.
LEMMA DisconnectTipBlock ==
  ASSUME IndInv, BlockInv, NEW t \in Thread, DisconnectTip(t)
  PROVE  BlockInv'
<1>1. /\ UNCHANGED <<tree, data, linked, unlinked, failed, failedChild, candidates, seq, cs>>
      /\ tip' = parent[tip] /\ cs.queue = {}
  BY NoQueue DEF DisconnectTip, status, sets
<1>2. tip \in Active \ {Genesis}
  BY DEF DisconnectTip, IndInv, TypeOK, Tree, Active
<1>3. NoWorse'
  BY <1>1, <1>2, ParentNoWorse, WorseKept DEF NoWorse, Worse, tree
<1> QED  BY <1>1, <1>3, Kept DEF BlockInv, MarkInv

LEMMA ConnectTipBlock ==
  ASSUME BlockInv, NEW t \in Thread, ConnectTip(t)
  PROVE  BlockInv'
<1>1. PICK b \in Path(cs.most) : ConnectTip(t)!2!(b)
  BY DEF ConnectTip
<1>2. /\ UNCHANGED <<tree, data, linked, unlinked, failed, failedChild, seq>>
      /\ tip' = b /\ candidates' = {c \in candidates : ~ Worse(c, b)}
      /\ cs.queue = {} /\ cs'.queue = {}
  BY <1>1, NoQueue DEF ConnectTip, PruneBlockIndexCandidates
<1>3. NoWorse'
  BY <1>2 DEF NoWorse, Worse, tree
<1> QED  BY <1>2, <1>3, Kept DEF BlockInv, MarkInv

LEMMA ConnectInvalidBlock ==
  ASSUME IndInv, BlockInv, NEW t \in Thread, ConnectInvalid(t)
  PROVE  BlockInv'
<1>1. PICK b \in Path(cs.most) : failed' = failed \cup {b} /\ candidates' = candidates \ {b}
  BY DEF ConnectInvalid, InvalidBlockFound
<1>2. /\ UNCHANGED <<tree, data, linked, unlinked, failedChild, seq, tip>>
      /\ cs.queue = {} /\ cs'.queue = {}
  BY NoQueue DEF ConnectInvalid
<1>3. b \in linked
  BY DEF IndInv, TypeOK, Links, Path
<1> QED  BY <1>1, <1>2, <1>3, Kept, NoWorseKept, Zenon DEF BlockInv, MarkInv

LEMMA ConnectCorruptBlock ==
  ASSUME BlockInv, NEW t \in Thread, ConnectCorrupt(t)
  PROVE  BlockInv'
<1>1. /\ UNCHANGED <<tree, data, linked, unlinked, failed, failedChild, candidates, seq, tip>>
      /\ cs.queue = {} /\ cs'.queue = {}
  BY NoQueue DEF ConnectCorrupt, status, sets
<1> QED  BY <1>1, Kept, NoWorseKept, Zenon DEF BlockInv, MarkInv

LEMMA DiskErrorBlock ==
  ASSUME BlockInv, NEW t \in Thread, DiskError(t)
  PROVE  BlockInv'
<1>1. /\ UNCHANGED <<tree, data, linked, unlinked, failed, failedChild, candidates, seq, tip>>
      /\ cs.queue = {} /\ cs'.queue = {}
  BY NoQueue DEF DiskError, status, sets
<1> QED  BY <1>1, Kept, NoWorseKept, Zenon DEF BlockInv, MarkInv

\* InvalidateBlock marks the block, linked or a bare header, and active blocks;
\* what it reinstates is no worse than the new tip.
LEMMA InvalidateBlockBlock ==
  ASSUME IndInv, BlockInv, NEW t \in Thread, NEW b \in index, Judged(b), InvalidateBlock(t, b)
  PROVE  BlockInv'
<1> DEFINE down == {c \in Active : b \in anc[c]}
           new == IF b \in Active THEN parent[b] ELSE tip
<1>1. /\ UNCHANGED <<tree, data, linked, unlinked, seq, cs>> /\ cs.queue = {}
      /\ b # Genesis /\ failed' = failed \cup {b} /\ failedChild' = failedChild \cup down
      /\ tip' = new
      /\ candidates' = (candidates \ ({b} \cup down)) \cup Reinstated(failed' \cup failedChild', new)
  BY NoQueue DEF InvalidateBlock
<1>2. down \subseteq linked
  BY GenesisLinked DEF IndInv, Links, Active
<1>3. NoWorse'
  <2>1. \A c \in candidates : ~ Worse(c, new)
    BY <1>1, ParentNoWorse DEF BlockInv, NoWorse
  <2>2. \A c \in candidates' : ~ Worse(c, new)
    BY <1>1, <2>1 DEF Reinstated
  <2> HIDE DEF new
  <2> QED  BY <1>1, <2>2, WorseKept DEF NoWorse, Worse, tree
<1>4. failed' \cap data \subseteq linked /\ failedChild' \subseteq linked
  BY <1>1, <1>2 DEF BlockInv, MarkInv, Judged
<1> QED  BY <1>1, <1>3, <1>4, Kept DEF BlockInv

\* ReconsiderBlock, undoing an InvalidateBlock, unmarks linked blocks only.
LEMMA ReconsiderBlockBlock ==
  ASSUME IndInv, BlockInv, NEW t \in Thread, NEW b \in index, Undoes(b), ReconsiderBlock(t, b)
  PROVE  BlockInv'
<1> DEFINE unmarked == {c \in {c \in index : b \in anc[c]} : ~ IsValid(c)}
<1>1. /\ UNCHANGED <<tree, data, linked, unlinked, seq, tip, cs>> /\ cs.queue = {}
      /\ failed' = failed \ (unmarked \cup anc[b])
      /\ failedChild' = failedChild \ (unmarked \cup anc[b])
      /\ candidates' = candidates \cup Reconsidered(unmarked)
  BY NoQueue DEF ReconsiderBlock
<1>2. failed \ data \subseteq failed'
  <2>1. anc[b] \subseteq data /\ b \in data
    BY DEF Undoes, IndInv, TypeOK, Links
  <2>2. \A c \in unmarked : c \in failed => c = b
    BY DEF Undoes
  <2> QED  BY <1>1, <2>1, <2>2
<1>3. NoWorse'
  <2>1. \A c \in candidates' : ~ Worse(c, tip)
    <3>1. \A c \in Reconsidered(unmarked) : c \in Block /\ tip \in Block /\ Worse(tip, c)
      BY DEF Reconsidered, IndInv, TypeOK
    <3>2. \A c \in Reconsidered(unmarked) : ~ Worse(c, tip)
      BY <3>1, WorseOrder DEF IndInv
    <3> QED  BY <1>1, <3>2 DEF BlockInv, NoWorse
  <2> QED  BY <1>1, <2>1, WorseKept DEF NoWorse
<1>4. failed' \cap data \subseteq linked /\ failedChild' \subseteq linked
  BY <1>1 DEF BlockInv, MarkInv
<1> QED  BY <1>1, <1>2, <1>3, <1>4, Kept DEF BlockInv

\* A step of the node that changes nothing.
LEMMA StutterBlock ==
  ASSUME BlockInv, UNCHANGED vars
  PROVE  BlockInv'
  BY DEF BlockInv, PathInv, NoWorse, MarkInv, WaitInv, QueueInv, LoopInv, Worse, vars, tree,
         status, sets

\* Waiting, queued and linked blocks, marks and candidates agree at every
\* step.
THEOREM BlockInvariance == Spec => [](IndInv /\ BlockInv)
<1>1. ASSUME IndInv, BlockInv, [Next]_vars PROVE BlockInv'
  <2>1. ASSUME NEW t \in Thread, Call(t) PROVE BlockInv'
    BY <1>1, <2>1, AcceptBlockHeaderBlock, IgnoreBlockBlock, RejectBlockBlock, StoreBlockBlock
       DEF Call
  <2>2. ASSUME NEW t \in Thread, Activate(t) PROVE BlockInv'
    BY <1>1, <2>2, LinkBlockBlock, DropCandidateBlock, FindBlock, DisconnectTipBlock,
       ConnectTipBlock, ConnectInvalidBlock, ConnectCorruptBlock DEF Activate
  <2>3. CASE UNCHANGED vars \/ Stopped
    BY <1>1, <2>3, StutterBlock DEF Stopped
  <2> QED  BY <1>1, <2>1, <2>2, <2>3, DiskErrorBlock, InvalidateBlockBlock,
              ReconsiderBlockBlock DEF Next
<1> QED  BY <1>1, InitBlockInv, Invariance, PTL DEF Spec

\* The assertions of CheckBlockIndex, whenever no thread is at work.
THEOREM IndexIsConsistent == Spec => []IndexConsistent
<1>1. ASSUME IndInv, BlockInv PROVE IndexConsistent
  <2> SUFFICES ASSUME Quiet PROVE CheckBlockIndex
    BY DEF IndexConsistent
  <2>1. cs.queue = {} /\ \A c \in candidates : ~ Worse(tip, c)
    BY <1>1, NoQueue DEF Quiet, IndInv, Settled
  <2>2. \A b \in index : b \in linked <=> anc[b] \subseteq data
    BY <1>1, <2>1 DEF IndInv, TypeOK, Links, BlockInv, QueueInv
  <2>3. LinkedIfComplete
    BY <2>2 DEF LinkedIfComplete, HasMissingAncestor
  <2>4. MarksHaveCause
    BY <1>1, Zenon DEF MarksHaveCause, HasInvalidAncestor, Failed, IndInv, Cause, Tree
  <2>5. CandidatesComplete
    <3>1. ASSUME NEW b \in linked, ~ Worse(b, tip), anc[b] \cap failed = {} PROVE b \in candidates
      <4>1. b \in linked \ Failed
        BY <1>1, <3>1, <2>4 DEF IndInv, TypeOK, MarksHaveCause, HasInvalidAncestor
      <4>2. ASSUME NEW c \in candidates, Worse(b, c) PROVE FALSE
        <5>1. b \in Block /\ c \in Block /\ tip \in Block
          BY <1>1 DEF IndInv, TypeOK
        <5> QED  BY <1>1, <2>1, <3>1, <4>2, <5>1, WorseOrder DEF IndInv
      <4> QED  BY <1>1, <4>1, <4>2 DEF IndInv, Complete
    <3>2. \A b \in candidates : b \in linked /\ ~ Worse(b, tip)
      BY <1>1 DEF IndInv, TypeOK, BlockInv, NoWorse
    <3> QED  BY <2>2, <3>1, <3>2, Zenon DEF CandidatesComplete, HasMissingAncestor, HasInvalidAncestor
  <2>6. WaitersKnown
    <3>1. ASSUME NEW b \in data \ linked, anc[b] \cap failed = {} PROVE b \in unlinked
      <4>1. parent[b] \in anc[b]
        BY <1>1, GenesisLinked DEF IndInv, TypeOK, Tree
      <4> QED  BY <1>1, <2>1, <3>1, <4>1 DEF BlockInv, WaitInv
    <3>2. \A b \in unlinked : b \in data /\ b \notin linked
      BY <1>1 DEF IndInv, TypeOK, Links
    <3> QED  BY <2>2, <3>1, <3>2 DEF WaitersKnown, HasMissingAncestor, HasInvalidAncestor
  <2> QED  BY <2>3, <2>4, <2>5, <2>6 DEF CheckBlockIndex
<1> QED  BY <1>1, BlockInvariance, PTL
=============================================================================
