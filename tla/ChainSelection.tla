--------------------------- MODULE ChainSelection ---------------------------
(***************************************************************************)
(* Which chain is active: the block tree (mapBlockIndex), the candidates   *)
(* for the tip (setBlockIndexCandidates), the blocks that wait for a       *)
(* parent's data (mapBlocksUnlinked), and the operations of main.cpp that  *)
(* change them: AcceptBlockHeader, ProcessNewBlock, ActivateBestChain,     *)
(* InvalidateBlock and ReconsiderBlock.                                    *)
(*                                                                         *)
(* Several threads call these operations (the message handler and RPC      *)
(* workers).  cs_main is held for one whole operation, or one round of     *)
(* ActivateBestChain's loop, and is free between the rounds.  What happens *)
(* in one critical section is cut into the steps of its loops; `cs' says   *)
(* which loop the holder of the lock is in.                                *)
(*                                                                         *)
(* A tree grows header by header, its shape chosen by the environment, so  *)
(* ancestors and work are kept as state.  The node does not prune, so a    *)
(* block with nTx # 0 has BLOCK_HAVE_DATA and the missing-data branch of   *)
(* FindMostWorkChain is dead (see LinkedIfComplete below).                 *)
(***************************************************************************)
EXTENDS Naturals, FiniteSets

CONSTANTS
  Block,         \* the blocks the node may hear of, the genesis block included
  Genesis,
  Thread,        \* threads that may call into validation
  Weight,        \* GetBlockProof: the work a single block may have
  MaxReorg,      \* MAX_REORG_LENGTH
  MaxAhead,      \* MIN_BLOCKS_TO_KEEP, how far ahead an unrequested block may be
  MaxCommands,   \* bound on the number of invalidateblock/reconsiderblock calls
  NoThread

ASSUME ConstantsAssumption ==
  /\ Genesis \in Block
  /\ NoThread \notin Thread
  /\ Weight \subseteq Nat \ {0}
  /\ MaxReorg \in Nat \ {0}
  /\ MaxAhead \in Nat
  /\ MaxCommands \in Nat

VARIABLES
  index,     \* mapBlockIndex: blocks whose header was accepted
  parent,    \* pprev (of Genesis: itself)
  anc,       \* a block and all its ancestors
  work,      \* nChainWork
  data,      \* BLOCK_HAVE_DATA, nTx # 0, and at least BLOCK_VALID_TRANSACTIONS
  scripts,   \* BLOCK_VALID_SCRIPTS: ConnectBlock succeeded once
  failed,    \* BLOCK_FAILED_VALID
  failedChild, \* BLOCK_FAILED_CHILD
  linked,    \* nChainTx # 0
  seq,       \* nSequenceId
  nextSeq,   \* nBlockSequenceId
  candidates,\* setBlockIndexCandidates
  unlinked,  \* mapBlocksUnlinked, by its second component (the first is pprev)
  tip,       \* chainActive.Tip()
  activating,\* threads inside ActivateBestChain
  cs,        \* cs_main and the loop its holder is in
  shutdown,  \* StartShutdown or AbortNode was called
  commands   \* invalidateblock/reconsiderblock calls so far

tree == <<index, parent, anc, work>>
status == <<data, scripts, failed, failedChild, linked, seq, nextSeq>>
sets == <<candidates, unlinked>>
vars == <<tree, status, sets, tip, activating, cs, shutdown, commands>>

Free == [holder |-> NoThread, loop |-> "none", queue |-> {}, most |-> Genesis, old |-> Genesis]
Held(t, loop) == [Free EXCEPT !.holder = t, !.loop = loop]

Active == anc[tip]
Failed == failed \cup failedChild
Height(b) == Cardinality(anc[b]) - 1

\* CBlockIndexWorkComparator: less work, or as much but received later.  The
\* tie by address is left out: linked blocks have distinct sequence numbers.
Worse(a, b) == \/ work[a] < work[b]
               \/ work[a] = work[b] /\ seq[a] > seq[b]

\* *setBlockIndexCandidates.rbegin()
IsBest(b) == b \in candidates /\ \A c \in candidates : ~ Worse(b, c)

\* IsValid(BLOCK_VALID_TRANSACTIONS)
IsValid(b) == b \in data \ Failed

\* After InitBlockIndex: the genesis block is accepted and active.
Init ==
  /\ index = {Genesis}
  /\ parent = [b \in Block |-> Genesis]
  /\ anc = [b \in Block |-> IF b = Genesis THEN {Genesis} ELSE {}]
  /\ work = [b \in Block |-> IF b = Genesis THEN 1 ELSE 0]
  /\ data = {Genesis} /\ scripts = {Genesis} /\ linked = {Genesis}
  /\ failed = {} /\ failedChild = {}
  /\ seq = [b \in Block |-> IF b = Genesis THEN 1 ELSE 0]
  /\ nextSeq = 2
  /\ candidates = {Genesis} /\ unlinked = {}
  /\ tip = Genesis
  /\ activating = {} /\ cs = Free /\ shutdown = FALSE /\ commands = 0

\* A thread may start an operation when it is in none and cs_main is free.
CanCall(t) == ~ shutdown /\ cs = Free /\ t \notin activating

(***************************************************************************)
(* Headers and blocks.                                                     *)
(***************************************************************************)

\* AcceptBlockHeader and AddToBlockIndex for a header not seen before.  A
\* header whose parent is unknown or failed changes nothing.
AcceptBlockHeader(t, b, p, w) ==
  /\ CanCall(t)
  /\ b \notin index /\ p \in index \ Failed
  /\ index' = index \cup {b}
  /\ parent' = [parent EXCEPT ![b] = p]
  /\ anc' = [anc EXCEPT ![b] = anc[p] \cup {b}]
  /\ work' = [work EXCEPT ![b] = work[p] + w]
  /\ UNCHANGED <<status, sets, tip, activating, cs, shutdown, commands>>

\* AcceptBlock's early returns for a block that was not asked for.
Unwanted(b) == \/ work[b] <= work[tip]
               \/ Height(b) > Height(tip) + MaxAhead

\* ProcessNewBlock with a block the node has, or was not asked for and does
\* not want: nothing is stored, ActivateBestChain is called.
IgnoreBlock(t, b) ==
  /\ CanCall(t)
  /\ b \in index \ Failed
  /\ b \in data \/ Unwanted(b)
  /\ activating' = activating \cup {t}
  /\ UNCHANGED <<tree, status, sets, tip, cs, shutdown, commands>>

\* ProcessNewBlock with a block that CheckBlock or ContextualCheckBlock rejects.
RejectBlock(t, b) ==
  /\ CanCall(t)
  /\ b \in index \ (Failed \cup data)
  /\ failed' = failed \cup {b}
  /\ UNCHANGED <<tree, data, scripts, failedChild, linked, seq, nextSeq, sets,
                 tip, activating, cs, shutdown, commands>>

\* ProcessNewBlock with a block that is stored: ReceivedBlockTransactions up
\* to its queue.  The thread goes on to ActivateBestChain when the queue is
\* empty.  The header of b is known: with a new header AcceptBlockHeader comes
\* first.
StoreBlock(t, b) ==
  /\ CanCall(t)
  /\ b \in index \ (Failed \cup data)
  /\ data' = data \cup {b}
  /\ activating' = activating \cup {t}
  /\ IF parent[b] \in linked
       THEN /\ cs' = [Held(t, "link") EXCEPT !.queue = {b}]
            /\ UNCHANGED unlinked
       ELSE /\ unlinked' = IF parent[b] \in Failed THEN unlinked
                                                   ELSE unlinked \cup {b}
            /\ UNCHANGED cs
  /\ UNCHANGED <<tree, scripts, failed, failedChild, linked, seq, nextSeq,
                 candidates, tip, shutdown, commands>>

\* Slip: the waiting blocks are queued and not erased from mapBlocksUnlinked.
StillWaitingAll(S) == unlinked
StillWaiting(S) == unlinked \ S

\* One turn of ReceivedBlockTransactions' queue: a block gets its nChainTx and
\* the next sequence number, becomes a candidate unless it is worse than the
\* tip, and the blocks that waited for it join the queue.  The queue is a set:
\* its order only decides which of two siblings gets the lower number.
LinkBlock(t) ==
  /\ cs.holder = t /\ cs.loop = "link"
  /\ \E b \in cs.queue :
       LET waiting == {c \in unlinked : parent[c] = b}
           queue == (cs.queue \ {b}) \cup waiting
       IN /\ linked' = linked \cup {b}
          /\ seq' = [seq EXCEPT ![b] = nextSeq]
          /\ nextSeq' = nextSeq + 1
          /\ candidates' = IF \/ work[b] < work[tip]
                              \/ work[b] = work[tip] /\ nextSeq > seq[tip]
                             THEN candidates ELSE candidates \cup {b}
          /\ unlinked' = StillWaiting(waiting)
          /\ cs' = IF queue = {} THEN Free ELSE [cs EXCEPT !.queue = queue]
  /\ UNCHANGED <<tree, data, scripts, failed, failedChild, tip, activating,
                 shutdown, commands>>

(***************************************************************************)
(* ActivateBestChain.                                                      *)
(***************************************************************************)

\* The thread is at the top of its loop and takes cs_main, or is inside
\* FindMostWorkChain and holds it.
InFind(t) == /\ ~ shutdown /\ t \in activating
             /\ cs = Free \/ cs = Held(t, "find")

\* The blocks between the active chain and candidate b.
Path(b) == anc[b] \ Active

\* Slip: FindMostWorkChain without the check of the path.
UsableAlways(b) == Path(b) \subseteq index

\* No block on the path to b is known to be invalid.
Usable(b) == Path(b) \cap Failed = {}

\* FindMostWorkChain meets a failed block on the way down from the best
\* candidate: everything above it is marked and leaves the candidates.
DropCandidate(t) ==
  /\ InFind(t)
  /\ \E new \in candidates, test \in Failed \ Active :
       /\ IsBest(new) /\ test \in anc[new]
       /\ Path(new) \cap Failed \subseteq anc[test]
       /\ failedChild' = failedChild \cup (anc[new] \ anc[test])
       /\ candidates' = candidates \ ((anc[new] \ anc[test]) \cup {test})
  /\ cs' = Held(t, "find")
  /\ UNCHANGED <<tree, data, scripts, failed, linked, seq, nextSeq, unlinked, tip,
                 activating, shutdown, commands>>

\* Nothing better than the tip: ActivateBestChain returns.
StayAtTip(t) ==
  /\ InFind(t)
  /\ candidates = {} \/ IsBest(tip)
  /\ activating' = activating \ {t}
  /\ cs' = Free
  /\ UNCHANGED <<tree, status, sets, tip, shutdown, commands>>

\* chainActive.FindFork and the length of the reorganization to b.
ReorgLength(b) == Cardinality(Active \ anc[b])

\* ActivateBestChainStep starts on the best usable candidate.
StartStep(t) ==
  /\ InFind(t)
  /\ \E new \in candidates \ {tip} :
        /\ IsBest(new) /\ Usable(new)
        /\ ReorgLength(new) <= MaxReorg
        /\ cs' = [Held(t, "step") EXCEPT !.most = new, !.old = tip]
  /\ UNCHANGED <<tree, status, sets, tip, activating, shutdown, commands>>

\* A reorganization longer than MAX_REORG_LENGTH stops the node.
RefuseReorg(t) ==
  /\ InFind(t)
  /\ \E new \in candidates \ {tip} :
        IsBest(new) /\ Usable(new) /\ ReorgLength(new) > MaxReorg
  /\ shutdown' = TRUE
  /\ cs' = Free
  /\ activating' = activating \ {t}
  /\ UNCHANGED <<tree, status, sets, tip, commands>>

InStep(t) == cs.holder = t /\ cs.loop = "step"

\* DisconnectTip, while the tip is above the fork.
DisconnectTip(t) ==
  /\ InStep(t)
  /\ tip \notin anc[cs.most]
  /\ tip' = parent[tip]
  /\ UNCHANGED <<tree, status, sets, activating, cs, shutdown, commands>>

\* b is the block after the tip on the way to cs.most.
ToConnect(b) == tip \in anc[cs.most] /\ parent[b] = tip

\* Slip: the candidates are pruned against the target, not the new tip.
PruneToTarget(b) == {c \in candidates : ~ Worse(c, cs.most)}

\* PruneBlockIndexCandidates, with tip b.
PruneBlockIndexCandidates(b) == {c \in candidates : ~ Worse(c, b)}

\* Slip: the lock is released after every block connected.
BetterOffAlways(b) == b \in index

\* ActivateBestChainStep returns: more work than before, or the target reached.
BetterOff(b) == b = cs.most \/ work[b] > work[cs.old]

\* ConnectTip succeeds, then PruneBlockIndexCandidates.  The lock is released
\* when the chain has more work than before or cs.most is reached; in that
\* case the loop of ActivateBestChain ends too.
ConnectTip(t) ==
  /\ InStep(t)
  /\ \E b \in Path(cs.most) :
        /\ ToConnect(b)
        /\ tip' = b
        /\ scripts' = scripts \cup {b}
        /\ candidates' = PruneBlockIndexCandidates(b)
        /\ cs' = IF BetterOff(b) THEN Free ELSE cs
        /\ activating' = IF b = cs.most THEN activating \ {t} ELSE activating
  /\ UNCHANGED <<tree, data, failed, failedChild, linked, seq, nextSeq, unlinked,
                 shutdown, commands>>

\* Slip: InvalidBlockFound returns before it marks the block.
InvalidBlockUnmarked(b) == UNCHANGED <<failed, candidates>>

InvalidBlockFound(b) == /\ failed' = failed \cup {b}
                        /\ candidates' = candidates \ {b}

\* ConnectBlock finds the block invalid: the lock is released with the chain
\* where it is, and the loop of ActivateBestChain goes on.
ConnectInvalid(t) ==
  /\ InStep(t)
  /\ \E b \in Path(cs.most) \ scripts : ToConnect(b) /\ InvalidBlockFound(b)
  /\ cs' = Free
  /\ UNCHANGED <<tree, data, scripts, failedChild, linked, seq, nextSeq, unlinked,
                 tip, activating, shutdown, commands>>

\* CheckBlock, which ConnectBlock calls, finds the block's transactions not to
\* be those its header commits to (CorruptionPossible): the block itself may be
\* valid, so it is not marked and stays a candidate.  As in ConnectInvalid the
\* chain is left where it is and the loop goes on.
ConnectCorrupt(t) ==
  /\ InStep(t)
  /\ \E b \in Path(cs.most) : ToConnect(b)
  /\ cs' = Free
  /\ UNCHANGED <<tree, status, sets, tip, activating, shutdown, commands>>

\* A block cannot be read, or the chain state cannot be written (AbortNode).
DiskError(t) ==
  /\ InStep(t)
  /\ shutdown' = TRUE
  /\ cs' = Free
  /\ activating' = activating \ {t}
  /\ UNCHANGED <<tree, status, sets, tip, commands>>

(***************************************************************************)
(* The RPCs invalidateblock and reconsiderblock; both end in               *)
(* ActivateBestChain.                                                      *)
(***************************************************************************)

\* Slip: InvalidateBlock's loop without its nChainTx test.
ReinstatedUnlinked(marked, new) == {c \in index \ marked : ~ Worse(c, new)}

\* Every valid block no worse than the new tip.
Reinstated(marked, new) == {c \in linked \ marked : ~ Worse(c, new)}

\* InvalidateBlock: b is marked; if it is active the chain is disconnected
\* down to its parent, marking every block on the way; every valid block no
\* worse than the new tip becomes a candidate again.  (A disk error in
\* DisconnectTip, which stops the node half way, is left to DiskError.)
InvalidateBlock(t, b) ==
  /\ CanCall(t) /\ commands < MaxCommands
  /\ b \in index \ {Genesis}
  /\ LET down == {c \in Active : b \in anc[c]}
         new == IF b \in Active THEN parent[b] ELSE tip
     IN /\ failed' = failed \cup {b}
        /\ failedChild' = failedChild \cup down
        /\ tip' = new
        /\ candidates' = (candidates \ ({b} \cup down))
                           \cup Reinstated(failed' \cup failedChild', new)
  /\ activating' = activating \cup {t}
  /\ commands' = commands + 1
  /\ UNCHANGED <<tree, data, scripts, linked, seq, nextSeq, unlinked, cs, shutdown>>

\* Slip: ReconsiderBlock without its insertion into the candidates.
ReconsideredNone(unmarked) == {}
Reconsidered(unmarked) == {c \in unmarked \cap data \cap linked : Worse(tip, c)}

\* ReconsiderBlock: b and its descendants lose their failure marks, and those
\* better than the tip become candidates; b's ancestors only lose the marks.
ReconsiderBlock(t, b) ==
  /\ CanCall(t) /\ commands < MaxCommands
  /\ b \in index
  /\ LET below == {c \in index : b \in anc[c]}
         unmarked == {c \in below : ~ IsValid(c)}
     IN /\ failed' = failed \ (unmarked \cup anc[b])
        /\ failedChild' = failedChild \ (unmarked \cup anc[b])
        /\ candidates' = candidates \cup Reconsidered(unmarked)
  /\ activating' = activating \cup {t}
  /\ commands' = commands + 1
  /\ UNCHANGED <<tree, data, scripts, linked, seq, nextSeq, unlinked, tip, cs, shutdown>>

\* What invalidateblock is meant for: a block whose chain is complete, or one
\* of which only the header is known.
Judged(b) == b \in linked \/ b \notin data

\* What reconsiderblock is documented for: undoing an invalidateblock.  The
\* block's chain was complete, it carries the mark itself, and no ancestor and
\* no descendant was found invalid on its own.
Undoes(b) == /\ b \in failed \cap linked /\ anc[b] \cap Failed = {b}
             /\ {c \in failed : b \in anc[c]} = {b}

Call(t) ==
  \/ \E b \in Block, p \in index, w \in Weight : AcceptBlockHeader(t, b, p, w)
  \/ \E b \in index : \/ IgnoreBlock(t, b) \/ RejectBlock(t, b) \/ StoreBlock(t, b)

Activate(t) ==
  \/ LinkBlock(t)
  \/ DropCandidate(t) \/ StayAtTip(t) \/ StartStep(t) \/ RefuseReorg(t)
  \/ DisconnectTip(t) \/ ConnectTip(t) \/ ConnectInvalid(t)
  \/ ConnectCorrupt(t)

\* The node has stopped.
Stopped == shutdown /\ UNCHANGED vars

Next ==
  \/ \E t \in Thread : \/ Call(t) \/ Activate(t) \/ DiskError(t)
                       \/ \E b \in index : Judged(b) /\ InvalidateBlock(t, b)
                       \/ \E b \in index : Undoes(b) /\ ReconsiderBlock(t, b)
  \/ Stopped

\* A thread inside validation keeps running.  Weak fairness is enough: no
\* thread holds cs_main for ever, and none takes it again and again while it
\* has work to do.
Fairness == \A t \in Thread : WF_vars(Activate(t))

Spec == Init /\ [][Next]_vars
LiveSpec == Spec /\ Fairness

-----------------------------------------------------------------------------

TypeOK ==
  /\ Genesis \in index /\ index \subseteq Block
  /\ parent \in [Block -> Block] /\ \A b \in index : parent[b] \in index
  /\ anc \in [Block -> SUBSET index]
  /\ work \in [Block -> Nat] /\ seq \in [Block -> Nat] /\ nextSeq \in Nat
  /\ scripts \subseteq linked /\ linked \subseteq data /\ data \subseteq index
  /\ failed \subseteq index /\ failedChild \subseteq index
  /\ candidates \subseteq linked /\ unlinked \subseteq data
  /\ tip \in scripts
  /\ activating \subseteq Thread
  /\ cs \in [holder : Thread \cup {NoThread}, loop : {"none", "link", "find", "step"},
             queue : SUBSET data, most : linked, old : linked]
  /\ shutdown \in BOOLEAN /\ commands \in 0..MaxCommands

\* The first failed ancestor, the first without data: as CheckBlockIndex's walk
\* keeps them, up to whether there is one.
HasInvalidAncestor(b) == anc[b] \cap failed # {}
HasMissingAncestor(b) == ~ anc[b] \subseteq data

\* The assertions of CheckBlockIndex.  nChainTx is set for the blocks whose
\* whole chain has data.
LinkedIfComplete == \A b \in index : b \in linked <=> ~ HasMissingAncestor(b)

\* A block bears a failure mark only if it or an ancestor failed itself.
MarksHaveCause == \A b \in index : ~ HasInvalidAncestor(b) => b \notin Failed

\* A complete chain no worse than the tip is a candidate unless a block of it
\* failed; what is worse, or incomplete, is none.
CandidatesComplete ==
  \A b \in index :
    IF ~ Worse(b, tip) /\ ~ HasMissingAncestor(b)
      THEN ~ HasInvalidAncestor(b) => b \in candidates
      ELSE b \notin candidates

\* A block that has data and misses an ancestor's waits in mapBlocksUnlinked,
\* unless a block of its chain failed; no other block waits there.
WaitersKnown ==
  \A b \in index :
    /\ b \in data /\ HasMissingAncestor(b) /\ ~ HasInvalidAncestor(b) => b \in unlinked
    /\ b \notin data \/ ~ HasMissingAncestor(b) => b \notin unlinked

CheckBlockIndex == LinkedIfComplete /\ MarksHaveCause /\ CandidatesComplete /\ WaitersKnown

Quiet == cs = Free /\ activating = {} /\ ~ shutdown

\* CheckBlockIndex's assertions hold whenever no thread is inside
\* ActivateBestChain.  (Between two rounds of its loop they need not: after a
\* reorganization met an invalid block the tip is no candidate.)
IndexConsistent == Quiet => CheckBlockIndex

\* Once every call has returned the tip is the best there is: no block whose
\* whole chain is known and free of failure beats it, by work or by arrival.
TipIsBest ==
  Quiet => \A b \in linked : anc[b] \cap failed = {} => ~ Worse(tip, b)

\* A block that was found invalid, or that the operator invalidated, is never
\* on the active chain, not even while a reorganization is under way.
NoFailedActive == Active \cap Failed = {}

\* PruneBlockIndexCandidates' assertion, and what lets a reorganization that
\* fails return: there is always a usable candidate no worse than the tip.
CanReturn == ~ shutdown /\ cs.loop # "link" =>
  \E c \in candidates : ~ Worse(c, tip) /\ Usable(c)

\* ActivateBestChainStep sets fInvalidFound.
InvalidFound == \E t \in Thread : ConnectInvalid(t) \/ ConnectCorrupt(t)

\* ActivateBestChainStep never leaves the node on a chain of less work than the
\* one that was active, unless it set fInvalidFound or the node stops.
NoWorkLost ==
  [][cs.loop = "step" /\ cs' = Free /\ ~ shutdown' /\ ~ InvalidFound
       => work[tip'] >= work[cs.old]]_vars

\* Blocks are not found corrupt for ever: if ActivateBestChainStep tries again
\* and again to connect a block, then again and again one is connected or
\* marked as invalid.
CorruptionPasses ==
  []<>(\E t \in Thread : InStep(t) /\ tip \in anc[cs.most])
    => []<><<\E t \in Thread : ConnectTip(t) \/ ConnectInvalid(t)>>_vars

\* ActivateBestChain returns: no chain of reorganizations, failures and retries
\* keeps a thread in its loop, if corruption passes.  Where it does not (a block
\* that is stored corrupt and is the best candidate) the loop has no way out:
\* it picks the same block again in every round.
ActivationEnds ==
  CorruptionPasses => \A t \in Thread : t \in activating ~> (t \notin activating \/ shutdown)
=============================================================================
