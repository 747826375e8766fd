----------------------- MODULE ChainSelectionProofs -----------------------
(***************************************************************************)
(* Proofs about ChainSelection, for any number of blocks and threads: the  *)
(* active chain holds no failed block, a reorganization that fails can     *)
(* always go back, no reorganization loses work, and once every call has   *)
(* returned the tip is the best complete chain without a failure.          *)
(*                                                                         *)
(* The argument rests on a candidate being `Safe': its whole chain was     *)
(* connected once and bears no mark.  Such a candidate cannot be lost to a *)
(* failing ConnectBlock or to FindMostWorkChain, there is always one no    *)
(* worse than the tip (Return), and whatever is not a candidate is marked  *)
(* or worse than a safe one (Complete).                                    *)
(***************************************************************************)
EXTENDS ChainSelection, TLAPS

\* The shape of the block tree: ancestors are transitive and linear, they all
\* lead to the genesis block, and work grows along them.
Tree ==
  /\ anc[Genesis] = {Genesis}
  /\ \A b \in index : b \in anc[b] /\ Genesis \in anc[b]
  /\ \A b \in index \ {Genesis} : anc[b] = anc[parent[b]] \cup {b} /\ b \notin anc[parent[b]]
  /\ \A b \in index : \A c \in anc[b] : anc[c] \subseteq anc[b]
  /\ \A b \in index : \A a, c \in anc[b] : a \in anc[c] \/ c \in anc[a]
  /\ \A b \in index : \A c \in anc[b] : c # b => work[c] < work[b]

\* Linked blocks have distinct sequence numbers and linked ancestors; blocks
\* that wait, or are queued, are not linked.
Links ==
  /\ \A b \in linked : seq[b] < nextSeq /\ anc[b] \subseteq linked
  /\ \A a, b \in linked : seq[a] = seq[b] => a = b
  /\ cs.queue \cap linked = {} /\ unlinked \cap linked = {} /\ cs.queue \cap unlinked = {}
  /\ \A b \in cs.queue : parent[b] \in linked

\* The holder of cs_main is inside ActivateBestChain, or about to be.
Lock == cs # Free => cs.holder \in activating

\* During ActivateBestChainStep the target is the best candidate, has no
\* failed ancestor, and no less work than the tip the step started from.
Step ==
  cs.loop = "step" =>
    /\ anc[cs.most] \cap Failed = {}
    /\ work[cs.most] >= work[cs.old]
    /\ \A c \in candidates : ~ Worse(cs.most, c)

\* The active chain was connected and bears no mark.
Connected == Active \subseteq scripts /\ Active \cap Failed = {}

\* A BLOCK_FAILED_CHILD mark has a cause.
Cause == \A b \in failedChild : anc[b] \cap failed # {}

\* A candidate that ConnectBlock accepted with all its ancestors.
Safe(c) == c \in candidates /\ anc[c] \subseteq scripts /\ anc[c] \cap Failed = {}

\* A reorganization that fails has somewhere to go.
Return == \E c \in candidates : Safe(c) /\ ~ Worse(c, tip)

\* What is not a candidate is marked, or worse than a safe candidate.
Complete == \A b \in linked \ Failed :
              b \in candidates \/ \E c \in candidates : Safe(c) /\ Worse(b, c)

\* A thread leaves ActivateBestChain only when no candidate beats the tip.
Settled == activating = {} /\ ~ shutdown => \A c \in candidates : ~ Worse(tip, c)

IndInv == /\ TypeOK /\ Tree /\ Links /\ Lock /\ Step /\ Connected /\ Cause
          /\ Return /\ Complete /\ Settled

\* The genesis block and the tip always have a complete chain.
LEMMA GenesisLinked ==
  ASSUME IndInv
  PROVE  Genesis \in linked /\ tip \in linked
  BY DEF IndInv, TypeOK, Tree, Links

\* A thread in one of the locked loops is inside ActivateBestChain.
LEMMA HolderActivates ==
  ASSUME IndInv, NEW t \in Thread, cs.holder = t, cs.loop # "none"
  PROVE  t \in activating
<1>1. Free.loop = "none"
  BY DEF Free
<1>2. cs # Free
  BY <1>1
<1> QED BY <1>2 DEF IndInv, Lock

\* CBlockIndexWorkComparator orders the blocks strictly.
LEMMA WorseOrder ==
  ASSUME TypeOK, NEW a \in Block, NEW b \in Block, NEW c \in Block, Worse(a, b)
  PROVE  /\ Worse(b, c) => Worse(a, c)
         /\ ~ Worse(c, b) => Worse(a, c)
         /\ ~ Worse(b, a)
  BY DEF TypeOK, Worse

\* Of two linked blocks one is the worse: sequence numbers differ.
LEMMA WorseTotal ==
  ASSUME IndInv, NEW a \in linked, NEW b \in linked, a # b
  PROVE  Worse(a, b) \/ Worse(b, a)
<1>1. a \in Block /\ b \in Block
  BY DEF IndInv, TypeOK
<1>2. work[a] \in Nat /\ work[b] \in Nat /\ seq[a] \in Nat /\ seq[b] \in Nat
  BY <1>1 DEF IndInv, TypeOK
<1>3. seq[a] # seq[b]
  BY DEF IndInv, Links
<1> QED BY <1>2, <1>3 DEF Worse

\* What a step that leaves the variables of a conjunct alone preserves: the
\* block tree, in every step but AcceptBlockHeader's.
LEMMA TreeKept ==
  ASSUME Tree, UNCHANGED tree
  PROVE  Tree'
  BY DEF Tree, tree

\* nChainTx and nSequenceId, when nothing is linked, queued or made to wait.
LEMMA LinksKept ==
  ASSUME Links, UNCHANGED <<tree, linked, seq, nextSeq, unlinked>>,
         cs'.queue = {} \/ cs'.queue = cs.queue
  PROVE  Links'
  BY DEF Links, tree

\* The active chain, when the tip stays and no mark is set.
LEMMA ConnectedKept ==
  ASSUME Connected, UNCHANGED <<tree, tip>>, scripts \subseteq scripts', Failed' \subseteq Failed
  PROVE  Connected'
  BY DEF Connected, Active, tree

\* The cause of the BLOCK_FAILED_CHILD marks, when none is set and no
\* BLOCK_FAILED_VALID mark is cleared.
LEMMA CauseKept ==
  ASSUME Cause, UNCHANGED tree, failed \subseteq failed', failedChild' \subseteq failedChild
  PROVE  Cause'
  BY DEF Cause, tree

\* CBlockIndexWorkComparator, when work and arrival of no block change.
LEMMA WorseKept ==
  ASSUME UNCHANGED <<tree, seq>>
  PROVE  \A x, y : Worse(x, y)' <=> Worse(x, y)
  BY DEF Worse, tree

\* The lock record of a thread that holds no queue.
LEMMA FreeLock ==
  Free.queue = {} /\ Free.loop = "none"
  BY DEF Free

\* With only the genesis block, the state InitBlockIndex leaves.
LEMMA InitIndInv == Init => IndInv
<1> SUFFICES ASSUME Init PROVE IndInv
  OBVIOUS
<1> USE ConstantsAssumption DEF Init
<1>1. TypeOK
  <2>1. cs \in [holder : Thread \cup {NoThread}, loop : {"none", "link", "find", "step"},
                queue : SUBSET data, most : linked, old : linked]
    BY DEF Free
  <2>2. parent \in [Block -> Block] /\ anc \in [Block -> SUBSET index]
    OBVIOUS
  <2>3. work \in [Block -> Nat] /\ seq \in [Block -> Nat] /\ nextSeq \in Nat
        /\ commands \in 0..MaxCommands
    OBVIOUS
  <2>4. Genesis \in index /\ index \subseteq Block /\ parent[Genesis] = Genesis
    OBVIOUS
  <2>5. /\ scripts \subseteq linked /\ linked \subseteq data /\ data \subseteq index
        /\ failed \subseteq index /\ failedChild \subseteq index
        /\ candidates \subseteq linked /\ unlinked \subseteq data
        /\ tip \in scripts /\ activating \subseteq Thread /\ shutdown \in BOOLEAN
    BY Zenon
  <2>6. \A b \in index : parent[b] \in index
    BY <2>4
  <2> QED BY <2>1, <2>2, <2>3, <2>4, <2>5, <2>6 DEF TypeOK
<1>2. Tree /\ Links /\ Lock /\ Step
  BY DEF Tree, Links, Lock, Step, Free
<1>3. Connected /\ Cause
  BY DEF Connected, Cause, Failed, Active
<1>5. Safe(Genesis) /\ ~ Worse(Genesis, tip)
  BY DEF Safe, Failed, Worse
<1>6. Return /\ Complete
  BY <1>5 DEF Return, Complete
<1>4. Settled
  BY DEF Settled, Worse
<1> QED BY <1>1, <1>2, <1>3, <1>4, <1>6 DEF IndInv

\* A new header has neither data nor a mark: only the tree grows, by a leaf.
LEMMA AcceptBlockHeaderStep ==
  ASSUME IndInv, NEW t \in Thread, NEW b \in Block, NEW p \in index, NEW w \in Weight, AcceptBlockHeader(t, b, p, w)
  PROVE  IndInv'
<1>1. TypeOK'
  BY ConstantsAssumption DEF TypeOK, AcceptBlockHeader, CanCall, Failed, Free, tree, status, sets, IndInv
<1>2. Tree'
  BY ConstantsAssumption DEF Tree, AcceptBlockHeader, CanCall, Failed, tree, status, sets, IndInv, TypeOK
<1>3. Links'
  BY ConstantsAssumption DEF Links, AcceptBlockHeader, CanCall, Failed, Free, tree, status, sets, IndInv, TypeOK, Tree
<1>4. Lock'
  BY ConstantsAssumption DEF Lock, AcceptBlockHeader, CanCall, Failed, Free, tree, status, sets, IndInv
<1>5. Step'
  BY ConstantsAssumption DEF Step, AcceptBlockHeader, CanCall, Failed, Free, Worse, tree, status, sets, IndInv, TypeOK, Tree, Return, Safe
<1>6. Connected'
  BY ConstantsAssumption DEF Connected, AcceptBlockHeader, CanCall, Failed, Active, tree, status, sets, IndInv, TypeOK, Tree, Step, Links
<1>7. Cause'
  BY ConstantsAssumption DEF Cause, AcceptBlockHeader, CanCall, Failed, tree, status, sets, IndInv, TypeOK, Tree
<1>8. Return'
  BY ConstantsAssumption, SMTT(40) DEF Return, AcceptBlockHeader, CanCall, Failed, Safe, Worse, tree, status, sets, IndInv, TypeOK, Tree, Links
<1>9. Complete'
  <2>1. \A y \in linked : anc'[y] = anc[y] /\ work'[y] = work[y] /\ y \in Block
    BY DEF AcceptBlockHeader, CanCall, IndInv, TypeOK, Links
  <2> SUFFICES ASSUME NEW x \in linked \ Failed
               PROVE  x \in candidates \/ \E c \in candidates : Safe(c)' /\ Worse(x, c)'
    BY DEF Complete, AcceptBlockHeader, status, sets, Failed
  <2>2. \A c \in candidates : c \in linked
    BY DEF IndInv, TypeOK
  <2> QED BY <2>1, <2>2 DEF AcceptBlockHeader, status, sets, IndInv, Complete, Safe, Failed, Worse
<1>10. Settled'
  BY ConstantsAssumption DEF Settled, AcceptBlockHeader, CanCall, Failed, Worse, tree, status, sets, IndInv, TypeOK, Lock, Step
<1> QED BY <1>1, <1>2, <1>3, <1>4, <1>5, <1>6, <1>7, <1>8, <1>9, <1>10 DEF IndInv

\* A block that is not wanted only sends the thread into ActivateBestChain.
LEMMA IgnoreBlockStep ==
  ASSUME IndInv, NEW t \in Thread, NEW b \in index, IgnoreBlock(t, b)
  PROVE  IndInv'
<1>1. TypeOK'
  BY ConstantsAssumption DEF TypeOK, IgnoreBlock, CanCall, Failed, Free, tree, status, sets, IndInv
<1>2. Tree'
  BY TreeKept DEF IgnoreBlock, IndInv
<1>3. Links'
  BY LinksKept DEF IgnoreBlock, IndInv, status, sets
<1>4. Lock'
  BY ConstantsAssumption DEF Lock, IgnoreBlock, CanCall, Failed, Free, tree, status, sets, IndInv
<1>5. Step'
  BY ConstantsAssumption DEF Step, IgnoreBlock, CanCall, Failed, Free, Worse, tree, status, sets, IndInv, TypeOK, Tree, Return, Safe
<1>6. Connected'
  BY ConnectedKept DEF IgnoreBlock, IndInv, status, Failed
<1>7. Cause'
  BY CauseKept DEF IgnoreBlock, IndInv, status
<1>8. Return'
  BY ConstantsAssumption, SMTT(30) DEF Return, IgnoreBlock, CanCall, Failed, Safe, Worse, tree, status, sets, IndInv, TypeOK, Tree, Links
<1>9. Complete'
  BY ConstantsAssumption, Zenon DEF Complete, IgnoreBlock, CanCall, Failed, Safe, Worse, tree, status, sets, IndInv, TypeOK, Tree, Return, Links
<1>10. Settled'
  BY ConstantsAssumption DEF Settled, IgnoreBlock, CanCall, Failed, Worse, tree, status, sets, IndInv, TypeOK, Lock, Step
<1> QED BY <1>1, <1>2, <1>3, <1>4, <1>5, <1>6, <1>7, <1>8, <1>9, <1>10 DEF IndInv

\* A block that AcceptBlock rejects had no data, so it is on no complete chain,
\* and the active chain and the safe candidates stay unmarked.
LEMMA RejectBlockStep ==
  ASSUME IndInv, NEW t \in Thread, NEW b \in index, RejectBlock(t, b)
  PROVE  IndInv'
<1>1. TypeOK'
  BY ConstantsAssumption DEF TypeOK, RejectBlock, CanCall, Failed, Free, tree, status, sets, IndInv
<1>2. Tree'
  BY TreeKept DEF RejectBlock, IndInv
<1>3. Links'
  BY LinksKept DEF RejectBlock, IndInv, status, sets
<1>4. Lock'
  BY ConstantsAssumption DEF Lock, RejectBlock, CanCall, Failed, Free, tree, status, sets, IndInv
<1>5. Step'
  BY ConstantsAssumption DEF Step, RejectBlock, CanCall, Failed, Free, Worse, tree, status, sets, IndInv, TypeOK, Tree, Return, Safe
<1>6. Connected'
  BY ConstantsAssumption DEF Connected, RejectBlock, CanCall, Failed, Active, tree, status, sets, IndInv, TypeOK, Tree, Step, Links
<1>7. Cause'
  BY CauseKept DEF RejectBlock, IndInv, status
<1>8. Return'
  <2>1. Failed' = Failed \cup {b} /\ UNCHANGED <<tree, anc, tip, scripts, candidates, seq>>
    BY DEF RejectBlock, Failed, tree, sets
  <2>2. b \notin scripts
    BY DEF RejectBlock, IndInv, TypeOK
  <2>3. \A c : Safe(c) => Safe(c)'
    BY <2>1, <2>2 DEF Safe
  <2>4. \A x, y : Worse(x, y)' <=> Worse(x, y)
    BY <2>1, WorseKept
  <2> QED BY <2>1, <2>3, <2>4 DEF Return, IndInv
<1>9. Complete'
  <2>1. \A c : Safe(c) => Safe(c)'
    BY DEF RejectBlock, Safe, Failed, sets, tree, IndInv, TypeOK
  <2> QED BY <2>1 DEF RejectBlock, IndInv, Complete, Failed, Worse, tree, sets
<1>10. Settled'
  BY ConstantsAssumption DEF Settled, RejectBlock, CanCall, Failed, Worse, tree, status, sets, IndInv, TypeOK, Lock, Step
<1> QED BY <1>1, <1>2, <1>3, <1>4, <1>5, <1>6, <1>7, <1>8, <1>9, <1>10 DEF IndInv

\* The stored block is queued or waits; neither is linked yet.
LEMMA StoreBlockStep ==
  ASSUME IndInv, NEW t \in Thread, NEW b \in index, StoreBlock(t, b)
  PROVE  IndInv'
<1>1. TypeOK'
  BY ConstantsAssumption, ZenonT(40) DEF TypeOK, StoreBlock, CanCall, Failed, Held, Free, tree, status, sets, IndInv
<1>2. Tree'
  BY TreeKept DEF StoreBlock, IndInv
<1>3. Links'
  <2>1. b \notin linked /\ b \notin unlinked
    BY DEF StoreBlock, IndInv, TypeOK
  <2>2. cs.queue = {}
    BY DEF StoreBlock, CanCall, Free
  <2>3. \/ cs'.queue = {b} /\ parent[b] \in linked /\ unlinked' = unlinked
        \/ cs'.queue = {} /\ unlinked' \subseteq unlinked \cup {b}
    BY <2>2, Zenon DEF StoreBlock, Held, Free
  <2> QED BY <2>1, <2>3 DEF StoreBlock, IndInv, Links, tree
<1>4. Lock'
  BY ConstantsAssumption, Zenon DEF Lock, StoreBlock, CanCall, Failed, Held, Free, tree, status, sets, IndInv
<1>5. Step'
  <2>1. Held(t, "link").loop = "link" /\ Free.loop = "none"
    BY DEF Held, Free
  <2>2. [Held(t, "link") EXCEPT !.queue = {b}].loop = "link"
    BY <2>1 DEF Held, Free
  <2>3. cs'.loop # "step"
    BY <2>1, <2>2, Zenon DEF StoreBlock, CanCall
  <2> QED BY <2>3 DEF Step
<1>6. Connected'
  BY ConstantsAssumption DEF Connected, StoreBlock, CanCall, Failed, Held, Active, tree, status, sets, IndInv, TypeOK, Tree, Step, Links
<1>7. Cause'
  BY CauseKept DEF StoreBlock, IndInv, status
<1>8. Return'
  BY ConstantsAssumption, Zenon DEF Return, StoreBlock, CanCall, Failed, Held, Safe, Worse, tree, status, sets, IndInv, TypeOK, Tree, Links
<1>9. Complete'
  BY ConstantsAssumption, Zenon DEF Complete, StoreBlock, CanCall, Failed, Held, Safe, Worse, tree, status, sets, IndInv, TypeOK, Tree, Return, Links
<1>10. Settled'
  BY ConstantsAssumption DEF Settled, StoreBlock, CanCall, Failed, Held, Worse, tree, status, sets, IndInv, TypeOK, Lock, Step
<1> QED BY <1>1, <1>2, <1>3, <1>4, <1>5, <1>6, <1>7, <1>8, <1>9, <1>10 DEF IndInv

\* The linked block gets the highest sequence number, so that it is worse than
\* no block with less work, and is a candidate or worse than the tip.
LEMMA LinkBlockStep ==
  ASSUME IndInv, NEW t \in Thread, LinkBlock(t)
  PROVE  IndInv'
<1>1. TypeOK'
  <2> PICK b \in cs.queue : LinkBlock(t)!2!(b)
    BY Zenon DEF LinkBlock
  <2>1. b \in data /\ unlinked \subseteq data /\ cs.queue \subseteq data
    BY DEF IndInv, TypeOK
  <2>2. cs' \in [holder : Thread \cup {NoThread}, loop : {"none", "link", "find", "step"},
                 queue : SUBSET data, most : linked', old : linked']
    BY <2>1, GenesisLinked DEF Free, IndInv, TypeOK
  <2>3. b \in Block /\ seq' \in [Block -> Nat] /\ nextSeq' \in Nat
    BY <2>1 DEF IndInv, TypeOK
  <2> QED BY <2>1, <2>2, <2>3 DEF LinkBlock, StillWaiting, IndInv, TypeOK, tree
<1>2. Tree'
  BY TreeKept DEF LinkBlock, IndInv
<1>3. Links'
  BY ConstantsAssumption DEF Links, LinkBlock, StillWaiting, Free, tree, status, sets, IndInv, TypeOK, Tree
<1>4. Lock'
  BY ConstantsAssumption DEF Lock, LinkBlock, StillWaiting, Free, tree, status, sets, IndInv
<1>5. Step'
  BY ConstantsAssumption DEF Step, LinkBlock, StillWaiting, Free, Failed, Worse, tree, status, sets, IndInv, TypeOK, Tree, Return, Safe
<1>6. Connected'
  BY ConstantsAssumption DEF Connected, LinkBlock, StillWaiting, Free, Active, Failed, tree, status, sets, IndInv, TypeOK, Tree, Step, Links
<1>7. Cause'
  BY CauseKept DEF LinkBlock, IndInv, status
<1>8. Return' /\ Complete'
  <2> PICK b \in cs.queue : LinkBlock(t)!2!(b)
    BY Zenon DEF LinkBlock
  <2>1. b \in Block /\ b \notin linked /\ tip \in linked
    BY GenesisLinked DEF IndInv, TypeOK, Links
  <2>2. \A x \in linked : x \in Block /\ seq'[x] = seq[x]
    BY <2>1 DEF IndInv, TypeOK
  <2>3. UNCHANGED <<anc, work, scripts, Failed, tip>> /\ candidates \subseteq candidates'
    BY DEF LinkBlock, tree, Failed
  <2>4. \A c \in candidates : c \in linked /\ (Safe(c) => Safe(c)')
    BY <2>3 DEF Safe, IndInv, TypeOK
  <2>5. \A x, y \in linked : Worse(x, y)' <=> Worse(x, y)
    BY <2>2, <2>3 DEF Worse
  <2>6. PICK c \in candidates : Safe(c) /\ ~ Worse(c, tip)
    BY DEF IndInv, Return
  <2>7. Return'
    BY <2>1, <2>3, <2>4, <2>5, <2>6 DEF Return
  <2>8. b \in candidates' \/ Worse(b, c)'
    <3> SUFFICES ASSUME \/ work[b] < work[tip]
                        \/ work[b] = work[tip] /\ nextSeq > seq[tip]
                 PROVE  Worse(b, c)'
      OBVIOUS
    <3>1. seq'[b] = nextSeq /\ seq'[c] = seq[c]
      BY <2>1, <2>2, <2>4 DEF IndInv, TypeOK
    <3>2. \/ work[c] > work[tip]
          \/ work[c] = work[tip] /\ seq[c] <= seq[tip]
      BY <2>6, <2>1, <2>2, <2>4 DEF Worse, IndInv, TypeOK
    <3>3. work[b] \in Nat /\ work[c] \in Nat /\ work[tip] \in Nat /\ seq[c] \in Nat
          /\ seq[tip] \in Nat /\ nextSeq \in Nat
      BY <2>1, <2>2, <2>4 DEF IndInv, TypeOK
    <3> QED BY <3>1, <3>2, <3>3, <2>3 DEF Worse
  <2>9. Complete'
    <3> SUFFICES ASSUME NEW x \in linked \ Failed
                 PROVE  x \in candidates' \/ \E d \in candidates' : Safe(d)' /\ Worse(x, d)'
      BY <2>3, <2>4, <2>6, <2>8 DEF Complete
    <3> QED BY <2>3, <2>4, <2>5 DEF IndInv, Complete
  <2> QED BY <2>7, <2>9
<1>10. Settled'
  BY ConstantsAssumption DEF Settled, LinkBlock, StillWaiting, Free, Worse, tree, status, sets, IndInv, TypeOK, Lock, Step
<1> QED BY <1>1, <1>2, <1>3, <1>4, <1>5, <1>6, <1>7, <1>8, <1>10 DEF IndInv

\* Whatever FindMostWorkChain drops has a failed block in its chain, so no safe
\* candidate is lost and every new mark has a cause.
LEMMA DropCandidateStep ==
  ASSUME IndInv, NEW t \in Thread, DropCandidate(t)
  PROVE  IndInv'
<1>1. TypeOK'
  BY ConstantsAssumption, Zenon DEF TypeOK, DropCandidate, InFind, IsBest, Path, Active, Failed, Held, Free, tree, status, sets, IndInv
<1>2. Tree'
  BY TreeKept DEF DropCandidate, IndInv
<1>3. Links'
  BY ConstantsAssumption DEF Links, DropCandidate, InFind, IsBest, Path, Active, Failed, Held, Free, tree, status, sets, IndInv, TypeOK, Tree
<1>4. Lock'
  BY ConstantsAssumption DEF Lock, DropCandidate, InFind, IsBest, Path, Active, Failed, Held, Free, tree, status, sets, IndInv
<1>5. Step'
  BY ConstantsAssumption DEF Step, DropCandidate, InFind, IsBest, Path, Active, Failed, Held, Free, Worse, tree, status, sets, IndInv, TypeOK, Tree, Return, Safe
<1>6. Connected'
  BY ConstantsAssumption DEF Connected, DropCandidate, InFind, IsBest, Path, Active, Failed, Held, tree, status, sets, IndInv, TypeOK, Tree, Step, Links
<1>7. Cause'
  BY ConstantsAssumption DEF Cause, DropCandidate, InFind, IsBest, Path, Active, Failed, Held, tree, status, sets, IndInv, TypeOK, Tree
<1>8. Return'
  BY ConstantsAssumption, SMTT(40) DEF Return, DropCandidate, InFind, IsBest, Path, Active, Failed, Held, Safe, Worse, tree, status, sets, IndInv, TypeOK, Tree, Links
<1>9. Complete'
  <2> PICK new \in candidates, test \in Failed \ Active : DropCandidate(t)!2!(new, test)
    BY Zenon DEF DropCandidate
  <2> DEFINE above == anc[new] \ anc[test]
  <2>1. \A x \in above : test \in anc[x]
    BY DEF IndInv, TypeOK, Tree
  <2>2. \A c : Safe(c) => c \notin above \cup {test} /\ anc[c] \cap above = {}
    BY <2>1 DEF Safe, Failed, IndInv, TypeOK, Tree
  <2>3. \A c : Safe(c) => Safe(c)'
    BY <2>2 DEF DropCandidate, Safe, Failed, tree
  <2>4. \A x \in linked \ Failed' : x \in linked \ Failed /\ (x \in candidates => x \in candidates')
    BY DEF DropCandidate, Failed
  <2> QED BY <2>3, <2>4 DEF DropCandidate, Complete, IndInv, Worse, tree, Safe
<1>10. Settled'
  BY ConstantsAssumption DEF Settled, DropCandidate, InFind, IsBest, Path, Active, Failed, Held, Worse, tree, status, sets, IndInv, TypeOK, Lock, Step
<1> QED BY <1>1, <1>2, <1>3, <1>4, <1>5, <1>6, <1>7, <1>8, <1>9, <1>10 DEF IndInv

\* The thread leaves with no candidate better than the tip.
LEMMA StayAtTipStep ==
  ASSUME IndInv, NEW t \in Thread, StayAtTip(t)
  PROVE  IndInv'
<1>1. TypeOK'
  <2>1. cs' \in [holder : Thread \cup {NoThread}, loop : {"none", "link", "find", "step"},
                 queue : SUBSET data, most : linked, old : linked]
    BY GenesisLinked DEF StayAtTip, Free, IndInv, TypeOK
  <2> QED BY <2>1, ConstantsAssumption DEF StayAtTip, IndInv, TypeOK, tree, status, sets, InFind
<1>2. Tree'
  BY TreeKept DEF StayAtTip, IndInv
<1>3. Links'
  BY LinksKept, FreeLock DEF StayAtTip, IndInv, status, sets
<1>4. Lock'
  BY ConstantsAssumption DEF Lock, StayAtTip, InFind, IsBest, Free, tree, status, sets, IndInv
<1>5. Step'
  BY ConstantsAssumption DEF Step, StayAtTip, InFind, IsBest, Free, Failed, Worse, tree, status, sets, IndInv, TypeOK, Tree, Return, Safe
<1>6. Connected'
  BY ConnectedKept DEF StayAtTip, IndInv, status, Failed
<1>7. Cause'
  BY CauseKept DEF StayAtTip, IndInv, status
<1>8. Return'
  BY ConstantsAssumption, SMTT(30) DEF Return, StayAtTip, InFind, IsBest, Safe, Failed, Worse, tree, status, sets, IndInv, TypeOK, Tree, Links
<1>9. Complete'
  BY ConstantsAssumption, Zenon DEF Complete, StayAtTip, InFind, IsBest, Safe, Failed, Worse, tree, status, sets, IndInv, TypeOK, Tree, Return, Links
<1>10. Settled'
  BY ConstantsAssumption DEF Settled, StayAtTip, InFind, IsBest, Worse, tree, status, sets, IndInv, TypeOK, Lock, Step
<1> QED BY <1>1, <1>2, <1>3, <1>4, <1>5, <1>6, <1>7, <1>8, <1>9, <1>10 DEF IndInv

\* The target is the best candidate, and some candidate is no worse than the tip.
LEMMA StartStepStep ==
  ASSUME IndInv, NEW t \in Thread, StartStep(t)
  PROVE  IndInv'
<1>1. TypeOK'
  BY ConstantsAssumption, ZenonT(40) DEF TypeOK, StartStep, InFind, IsBest, Usable, Path, Active, Failed, Held, Free, tree, status, sets, IndInv
<1>2. Tree'
  BY TreeKept DEF StartStep, IndInv
<1>3. Links'
  BY ConstantsAssumption DEF Links, StartStep, InFind, IsBest, Usable, Path, Active, Failed, Held, Free, tree, status, sets, IndInv, TypeOK, Tree
<1>4. Lock'
  BY ConstantsAssumption DEF Lock, StartStep, InFind, IsBest, Usable, Path, Active, Failed, Held, Free, tree, status, sets, IndInv
<1>5. Step'
  <2> PICK new \in candidates \ {tip} : StartStep(t)!2!(new)
    BY Zenon DEF StartStep
  <2>1. cs'.most = new /\ cs'.old = tip
    BY DEF Held, Free
  <2>2. anc[new] \cap Failed = {}
    BY DEF Usable, Path, IndInv, Connected
  <2>3. work[new] >= work[tip]
    <3>1. PICK c \in candidates : ~ Worse(c, tip)
      BY DEF IndInv, Return
    <3>2. ~ Worse(new, c)
      BY DEF IsBest
    <3>3. work[c] \in Nat /\ work[new] \in Nat /\ work[tip] \in Nat
      BY DEF IndInv, TypeOK
    <3> QED BY <3>1, <3>2, <3>3 DEF Worse
  <2>4. \A c \in candidates : ~ Worse(new, c)
    BY DEF IsBest
  <2> QED BY <2>1, <2>2, <2>3, <2>4 DEF StartStep, Step, Failed, Worse, tree, status, sets
<1>6. Connected'
  BY ConnectedKept DEF StartStep, IndInv, status, Failed
<1>7. Cause'
  BY CauseKept DEF StartStep, IndInv, status
<1>8. Return'
  BY ConstantsAssumption, Zenon DEF Return, StartStep, InFind, IsBest, Usable, Path, Active, Failed, Held, Safe, Worse, tree, status, sets, IndInv, TypeOK, Tree, Links
<1>9. Complete'
  BY ConstantsAssumption, Zenon DEF Complete, StartStep, InFind, IsBest, Usable, Path, Active, Failed, Held, Safe, Worse, tree, status, sets, IndInv, TypeOK, Tree, Return, Links
<1>10. Settled'
  BY ConstantsAssumption DEF Settled, StartStep, InFind, IsBest, Usable, Path, Active, Failed, Held, Worse, tree, status, sets, IndInv, TypeOK, Lock, Step
<1> QED BY <1>1, <1>2, <1>3, <1>4, <1>5, <1>6, <1>7, <1>8, <1>9, <1>10 DEF IndInv

\* The node stops; nothing is claimed of the tip after that.
LEMMA RefuseReorgStep ==
  ASSUME IndInv, NEW t \in Thread, RefuseReorg(t)
  PROVE  IndInv'
<1>1. TypeOK'
  <2>1. cs' \in [holder : Thread \cup {NoThread}, loop : {"none", "link", "find", "step"},
                 queue : SUBSET data, most : linked, old : linked]
    BY GenesisLinked, Zenon DEF RefuseReorg, Free, IndInv, TypeOK
  <2> QED BY <2>1, ConstantsAssumption DEF RefuseReorg, IndInv, TypeOK, tree, status, sets, InFind
<1>2. Tree'
  BY TreeKept DEF RefuseReorg, IndInv
<1>3. Links'
  BY LinksKept, FreeLock, Zenon DEF RefuseReorg, IndInv, status, sets
<1>4. Lock'
  BY ConstantsAssumption, Zenon DEF Lock, RefuseReorg, InFind, Free, tree, status, sets, IndInv
<1>5. Step'
  BY ConstantsAssumption, Zenon DEF Step, RefuseReorg, InFind, Free, Failed, Worse, tree, status, sets, IndInv, TypeOK, Tree, Return, Safe
<1>6. Connected'
  BY ConnectedKept DEF RefuseReorg, IndInv, status, Failed
<1>7. Cause'
  BY CauseKept DEF RefuseReorg, IndInv, status
<1>8. Return'
  BY ConstantsAssumption, Zenon DEF Return, RefuseReorg, InFind, Safe, Failed, Worse, tree, status, sets, IndInv, TypeOK, Tree, Links
<1>9. Complete'
  BY ConstantsAssumption, Zenon DEF Complete, RefuseReorg, InFind, Safe, Failed, Worse, tree, status, sets, IndInv, TypeOK, Tree, Return, Links
<1>10. Settled'
  BY ConstantsAssumption DEF Settled, RefuseReorg, InFind, Worse, tree, status, sets, IndInv, TypeOK, Lock, Step
<1> QED BY <1>1, <1>2, <1>3, <1>4, <1>5, <1>6, <1>7, <1>8, <1>9, <1>10 DEF IndInv

\* The tip moves to its parent, which has less work: what was no worse than the
\* old tip is no worse than the new one.
LEMMA DisconnectTipStep ==
  ASSUME IndInv, NEW t \in Thread, DisconnectTip(t)
  PROVE  IndInv'
<1>1. TypeOK'
  <2>1. tip # Genesis /\ parent[tip] \in scripts
    BY DEF DisconnectTip, InStep, IndInv, TypeOK, Tree, Connected, Active
  <2> QED BY <2>1 DEF DisconnectTip, IndInv, TypeOK, tree, status, sets
<1>2. Tree'
  BY TreeKept DEF DisconnectTip, IndInv
<1>3. Links'
  BY LinksKept, Zenon DEF DisconnectTip, IndInv, status, sets
<1>4. Lock'
  BY ConstantsAssumption DEF Lock, DisconnectTip, InStep, Free, tree, status, sets, IndInv
<1>5. Step'
  BY ConstantsAssumption DEF Step, DisconnectTip, InStep, Free, Failed, Worse, tree, status, sets, IndInv, TypeOK, Tree, Return, Safe
<1>6. Connected'
  BY ConstantsAssumption DEF Connected, DisconnectTip, InStep, Active, Failed, tree, status, sets, IndInv, TypeOK, Tree, Step, Links
<1>7. Cause'
  BY CauseKept DEF DisconnectTip, IndInv, status
<1>8. Return'
  BY ConstantsAssumption, SMTT(40) DEF Return, DisconnectTip, InStep, Safe, Failed, Worse, tree, status, sets, IndInv, TypeOK, Tree, Links
<1>9. Complete'
  BY ConstantsAssumption, Zenon DEF Complete, DisconnectTip, InStep, Safe, Failed, Worse, tree, status, sets, IndInv, TypeOK, Tree, Return, Links
<1>10. Settled'
  <2>1. t \in activating
    BY HolderActivates DEF DisconnectTip, InStep
  <2> QED BY <2>1 DEF DisconnectTip, Settled
<1> QED BY <1>1, <1>2, <1>3, <1>4, <1>5, <1>6, <1>7, <1>8, <1>9, <1>10 DEF IndInv

\* The new tip is on the target's chain.  What PruneBlockIndexCandidates erases
\* is worse than the tip; the tip, or a better safe candidate, stays.
LEMMA ConnectTipStep ==
  ASSUME IndInv, NEW t \in Thread, ConnectTip(t)
  PROVE  IndInv'
<1>1. TypeOK'
  <2> PICK b \in Path(cs.most) : ConnectTip(t)!2!(b)
    BY DEF ConnectTip
  <2>1. b \in linked
    BY DEF Path, IndInv, TypeOK, Links
  <2>2. cs' \in [holder : Thread \cup {NoThread}, loop : {"none", "link", "find", "step"},
                 queue : SUBSET data, most : linked, old : linked]
    BY GenesisLinked, Zenon DEF Free, IndInv, TypeOK
  <2> QED BY <2>1, <2>2 DEF ConnectTip, PruneBlockIndexCandidates, IndInv, TypeOK, tree
<1>2. Tree'
  BY TreeKept DEF ConnectTip, IndInv
<1>3. Links'
  <2> PICK b \in Path(cs.most) : ConnectTip(t)!2!(b)
    BY DEF ConnectTip
  <2>1. cs'.queue = {} \/ cs'.queue = cs.queue
    BY FreeLock, Zenon
  <2> QED BY <2>1, LinksKept DEF ConnectTip, IndInv
<1>4. Lock'
  BY ConstantsAssumption, Zenon DEF Lock, ConnectTip, InStep, Path, Active, ToConnect, PruneBlockIndexCandidates, BetterOff, Free, tree, status, sets, IndInv
<1>5. Step'
  <2> PICK b \in Path(cs.most) : ConnectTip(t)!2!(b)
    BY DEF ConnectTip
  <2>1. CASE BetterOff(b)
    BY <2>1, FreeLock DEF Step
  <2>2. CASE ~ BetterOff(b)
    <3>1. cs' = cs /\ candidates' \subseteq candidates
      BY <2>2 DEF PruneBlockIndexCandidates
    <3>2. UNCHANGED <<anc, work, seq, Failed>>
      BY Zenon DEF ConnectTip, tree, Failed
    <3>3. \A x, y : Worse(x, y)' <=> Worse(x, y)
      BY <3>2 DEF Worse
    <3> QED BY <3>1, <3>2, <3>3, Zenon DEF Step, IndInv
  <2> QED BY <2>1, <2>2
<1>6. Connected'
  <2> PICK b \in Path(cs.most) : ConnectTip(t)!2!(b)
    BY DEF ConnectTip
  <2>1. b \in index /\ b # Genesis /\ anc[b] \cap Failed = {}
    <3>1. cs.most \in index /\ tip \in index /\ b \in anc[cs.most] /\ b \notin anc[tip]
      BY DEF Path, Active, IndInv, TypeOK
    <3>2. anc[b] \subseteq anc[cs.most] /\ b # Genesis
      BY <3>1 DEF IndInv, Tree
    <3>3. anc[cs.most] \cap Failed = {} /\ anc[cs.most] \subseteq index
      BY <3>1 DEF ConnectTip, InStep, IndInv, Step, TypeOK
    <3> QED BY <3>1, <3>2, <3>3
  <2>2. anc[b] = anc[tip] \cup {b}
    BY <2>1, Zenon DEF ToConnect, IndInv, Tree
  <2>3. UNCHANGED <<anc, Failed>>
    BY Zenon DEF ConnectTip, tree, Failed
  <2> QED BY <2>1, <2>2, <2>3 DEF Connected, Active, IndInv
<1>7. Cause'
  BY CauseKept DEF ConnectTip, IndInv, status
<1>8. Return' /\ Complete'
  <2> PICK b \in Path(cs.most) : ConnectTip(t)!2!(b)
    BY DEF ConnectTip
  <2>1. b \in linked /\ b \in anc[b]
    BY DEF Path, IndInv, TypeOK, Tree, Links
  <2>2. anc[b] \subseteq scripts' /\ anc[b] \cap Failed = {}
    BY <1>6, Zenon DEF ConnectTip, Connected, Active, Failed, tree
  <2>3. UNCHANGED <<anc, work, seq, linked, Failed>> /\ scripts \subseteq scripts'
    BY Zenon DEF ConnectTip, tree, Failed
  <2>4. \A x, y : Worse(x, y)' <=> Worse(x, y)
    BY <2>3, Zenon DEF Worse
  <2>5. candidates' = {c \in candidates : ~ Worse(c, b)} /\ tip' = b
    BY DEF PruneBlockIndexCandidates
  <2>6. \A c \in candidates' : Safe(c) => Safe(c)'
    BY <2>3, Zenon DEF Safe
  <2>7. \A x \in linked : x \in Block
    BY DEF IndInv, TypeOK
  <2>8. candidates \subseteq linked
    BY DEF IndInv, TypeOK
  <2>9. \E m \in candidates' : Safe(m)' /\ (m = b \/ Worse(b, m))
    <3>1. CASE b \in candidates
      <4>1. ~ Worse(b, b)
        BY <2>1, <2>7 DEF Worse, IndInv, TypeOK
      <4> QED BY <3>1, <4>1, <2>2, <2>3, <2>5 DEF Safe
    <3>2. CASE b \notin candidates
      <4>1. PICK c \in candidates : Safe(c) /\ Worse(b, c)
        BY <3>2, <2>1, <2>2, Zenon DEF IndInv, Complete
      <4>2. ~ Worse(c, b)
        BY <4>1, <2>1, <2>7, <2>8, WorseOrder, Zenon DEF IndInv
      <4> QED BY <4>1, <4>2, <2>5, <2>6
    <3> QED BY <3>1, <3>2
  <2>10. PICK m \in candidates' : Safe(m)' /\ (m = b \/ Worse(b, m))
    BY <2>9
  <2>11. Return'
    BY <2>10, <2>4, <2>5 DEF Return
  <2>12. \A x \in linked : Worse(x, b) => Worse(x, m)
    BY <2>10, <2>1, <2>5, <2>7, <2>8, WorseOrder DEF IndInv
  <2>13. Complete'
    <3> SUFFICES ASSUME NEW x \in linked \ Failed
                 PROVE  x \in candidates' \/ \E d \in candidates' : Safe(d)' /\ Worse(x, d)
      BY <2>3, <2>4 DEF Complete
    <3>1. CASE x \in candidates
      BY <3>1, <2>5, <2>10, <2>12
    <3>2. CASE x \notin candidates
      <4>1. PICK d \in candidates : Safe(d) /\ Worse(x, d)
        BY <3>2 DEF IndInv, Complete
      <4>2. CASE d \in candidates'
        BY <4>1, <4>2, <2>6
      <4>3. CASE d \notin candidates'
        <5>1. Worse(d, b)
          BY <4>3, <2>5
        <5>2. Worse(x, b)
          BY <5>1, <4>1, <2>1, <2>7, <2>8, WorseOrder, Zenon DEF IndInv
        <5> QED BY <5>2, <2>10, <2>12
      <4> QED BY <4>2, <4>3
    <3> QED BY <3>1, <3>2
  <2> QED BY <2>11, <2>13
<1>10. Settled'
  <2> PICK b \in Path(cs.most) : ConnectTip(t)!2!(b)
    BY DEF ConnectTip
  <2>1. t \in activating
    BY HolderActivates, Zenon DEF ConnectTip, InStep
  <2>2. CASE b = cs.most
    BY <2>2, Zenon DEF ConnectTip, InStep, PruneBlockIndexCandidates, Settled, IndInv, Step, Worse, tree
  <2>3. CASE b # cs.most
    BY <2>1, <2>3 DEF Settled
  <2> QED BY <2>2, <2>3
<1> QED BY <1>1, <1>2, <1>3, <1>4, <1>5, <1>6, <1>7, <1>8, <1>10 DEF IndInv

\* The block was never connected, so no safe candidate is above it.
LEMMA ConnectInvalidStep ==
  ASSUME IndInv, NEW t \in Thread, ConnectInvalid(t)
  PROVE  IndInv'
<1>1. TypeOK'
  <2>1. cs' \in [holder : Thread \cup {NoThread}, loop : {"none", "link", "find", "step"},
                 queue : SUBSET data, most : linked, old : linked]
    BY GenesisLinked, Zenon DEF ConnectInvalid, Free, IndInv, TypeOK
  <2> QED BY <2>1, ConstantsAssumption, Zenon DEF ConnectInvalid, IndInv, TypeOK, tree, status, sets, InStep, Path, InvalidBlockFound
<1>2. Tree'
  BY TreeKept DEF ConnectInvalid, IndInv
<1>3. Links'
  BY LinksKept, FreeLock, Zenon DEF ConnectInvalid, IndInv, status, sets
<1>4. Lock'
  BY ConstantsAssumption, Zenon DEF Lock, ConnectInvalid, InStep, Path, Active, ToConnect, InvalidBlockFound, Free, tree, status, sets, IndInv
<1>5. Step'
  BY ConstantsAssumption, Zenon DEF Step, ConnectInvalid, InStep, Path, Active, ToConnect, InvalidBlockFound, Free, Failed, Worse, tree, status, sets, IndInv, TypeOK, Tree, Return, Safe
<1>6. Connected'
  <2> PICK b \in Path(cs.most) \ scripts : ConnectInvalid(t)!2!(b)
    BY DEF ConnectInvalid
  <2>1. Failed' = Failed \cup {b} /\ UNCHANGED <<anc, tip, scripts>>
    BY DEF ConnectInvalid, InvalidBlockFound, Failed, tree
  <2> QED BY <2>1, Zenon DEF Connected, Active, IndInv
<1>7. Cause'
  BY CauseKept DEF ConnectInvalid, IndInv, status, InvalidBlockFound
<1>8. Return' /\ Complete'
  <2> PICK b \in Path(cs.most) \ scripts : ConnectInvalid(t)!2!(b)
    BY DEF ConnectInvalid
  <2>1. /\ Failed' = Failed \cup {b} /\ candidates' = candidates \ {b}
        /\ UNCHANGED <<tree, anc, tip, scripts, linked, seq>>
    BY DEF ConnectInvalid, InvalidBlockFound, Failed, tree
  <2>2. \A c \in candidates : c \in anc[c]
    BY DEF IndInv, TypeOK, Tree
  <2>3. \A c \in candidates : Safe(c) => c \in candidates' /\ Safe(c)'
    BY <2>1, <2>2, Zenon DEF Safe
  <2>4. \A x, y : Worse(x, y)' <=> Worse(x, y)
    BY <2>1, WorseKept
  <2>5. Return'
    BY <2>1, <2>3, <2>4 DEF Return, IndInv
  <2>6. Complete'
    BY <2>1, <2>3, <2>4 DEF Complete, IndInv
  <2> QED BY <2>5, <2>6
<1>10. Settled'
  BY ConstantsAssumption, Zenon DEF Settled, ConnectInvalid, InStep, Path, Active, ToConnect, InvalidBlockFound, Worse, tree, status, sets, IndInv, TypeOK, Lock, Step
<1> QED BY <1>1, <1>2, <1>3, <1>4, <1>5, <1>6, <1>7, <1>8, <1>10 DEF IndInv

\* A block found corrupt ends the step and nothing else.
LEMMA ConnectCorruptStep ==
  ASSUME IndInv, NEW t \in Thread, ConnectCorrupt(t)
  PROVE  IndInv'
<1>1. TypeOK'
  <2>1. cs' \in [holder : Thread \cup {NoThread}, loop : {"none", "link", "find", "step"},
                 queue : SUBSET data, most : linked, old : linked]
    BY GenesisLinked, Zenon DEF ConnectCorrupt, Free, IndInv, TypeOK
  <2> QED BY <2>1, ConstantsAssumption DEF ConnectCorrupt, IndInv, TypeOK, tree, status, sets, InStep
<1>2. Tree'
  BY TreeKept DEF ConnectCorrupt, IndInv
<1>3. Links'
  BY LinksKept, FreeLock DEF ConnectCorrupt, IndInv, status, sets
<1>4. Lock'
  BY ConstantsAssumption, Zenon DEF Lock, ConnectCorrupt, InStep, Free, tree, status, sets, IndInv
<1>5. Step'
  BY ConstantsAssumption, Zenon DEF Step, ConnectCorrupt, InStep, Free, Failed, Worse, tree, status, sets, IndInv, TypeOK, Tree, Return, Safe
<1>6. Connected'
  BY ConnectedKept DEF ConnectCorrupt, IndInv, status, Failed
<1>7. Cause'
  BY CauseKept DEF ConnectCorrupt, IndInv, status
<1>8. Return'
  BY ConstantsAssumption, Zenon DEF Return, ConnectCorrupt, InStep, Safe, Failed, Worse, tree, status, sets, IndInv, TypeOK, Tree, Links
<1>9. Complete'
  BY ConstantsAssumption, Zenon DEF Complete, ConnectCorrupt, InStep, Safe, Failed, Worse, tree, status, sets, IndInv, TypeOK, Tree, Return, Links
<1>10. Settled'
  <2>1. t \in activating
    BY HolderActivates DEF ConnectCorrupt, InStep
  <2> QED BY <2>1 DEF Settled, ConnectCorrupt
<1> QED BY <1>1, <1>2, <1>3, <1>4, <1>5, <1>6, <1>7, <1>8, <1>9, <1>10 DEF IndInv

\* The node stops in the middle of a step.
LEMMA DiskErrorStep ==
  ASSUME IndInv, NEW t \in Thread, DiskError(t)
  PROVE  IndInv'
<1>1. TypeOK'
  <2>1. cs' \in [holder : Thread \cup {NoThread}, loop : {"none", "link", "find", "step"},
                 queue : SUBSET data, most : linked, old : linked]
    BY GenesisLinked, Zenon DEF DiskError, Free, IndInv, TypeOK
  <2> QED BY <2>1, ConstantsAssumption DEF DiskError, IndInv, TypeOK, tree, status, sets, InStep
<1>2. Tree'
  BY TreeKept DEF DiskError, IndInv
<1>3. Links'
  BY LinksKept, FreeLock DEF DiskError, IndInv, status, sets
<1>4. Lock'
  BY ConstantsAssumption, Zenon DEF Lock, DiskError, InStep, Free, tree, status, sets, IndInv
<1>5. Step'
  BY ConstantsAssumption, Zenon DEF Step, DiskError, InStep, Free, Failed, Worse, tree, status, sets, IndInv, TypeOK, Tree, Return, Safe
<1>6. Connected'
  BY ConnectedKept DEF DiskError, IndInv, status, Failed
<1>7. Cause'
  BY CauseKept DEF DiskError, IndInv, status
<1>8. Return'
  BY ConstantsAssumption, Zenon DEF Return, DiskError, InStep, Safe, Failed, Worse, tree, status, sets, IndInv, TypeOK, Tree, Links
<1>9. Complete'
  BY ConstantsAssumption, Zenon DEF Complete, DiskError, InStep, Safe, Failed, Worse, tree, status, sets, IndInv, TypeOK, Tree, Return, Links
<1>10. Settled'
  BY ConstantsAssumption, Zenon DEF Settled, DiskError, InStep, Worse, tree, status, sets, IndInv, TypeOK, Lock, Step
<1> QED BY <1>1, <1>2, <1>3, <1>4, <1>5, <1>6, <1>7, <1>8, <1>9, <1>10 DEF IndInv

\* InvalidateBlock of a complete chain's block: after it every unmarked block no
\* worse than the new tip is a candidate, the new tip among them.
LEMMA InvalidateBlockStep ==
  ASSUME IndInv, NEW t \in Thread, NEW b \in index, InvalidateBlock(t, b), Judged(b)
  PROVE  IndInv'
<1>1. TypeOK'
  <2>1. ASSUME b \in Active PROVE parent[b] \in scripts
    <3>1. b # Genesis /\ tip \in index /\ parent[b] \in index
      BY Zenon DEF InvalidateBlock, IndInv, TypeOK
    <3>2. parent[b] \in anc[parent[b]] /\ anc[parent[b]] \subseteq anc[b] /\ anc[b] \subseteq anc[tip]
      BY <2>1, <3>1, ZenonT(40) DEF Active, IndInv, Tree
    <3> QED BY <3>2 DEF IndInv, Connected, Active
  <2>2. tip' \in scripts
    BY <2>1, Zenon DEF InvalidateBlock, IndInv, TypeOK
  <2>3. failed' \subseteq index /\ failedChild' \subseteq index /\ candidates' \subseteq linked
    BY Zenon DEF InvalidateBlock, Reinstated, Active, IndInv, TypeOK
  <2>4. UNCHANGED <<tree, data, scripts, linked, seq, nextSeq, unlinked, cs, shutdown>>
    BY Zenon DEF InvalidateBlock
  <2>5. activating' \subseteq Thread /\ commands < MaxCommands /\ commands' = commands + 1
    BY Zenon DEF InvalidateBlock, IndInv, TypeOK
  <2>6. commands' \in 0..MaxCommands
    BY <2>5, ConstantsAssumption DEF IndInv, TypeOK
  <2> QED BY <2>2, <2>3, <2>4, <2>5, <2>6, Zenon DEF IndInv, TypeOK, tree
<1>2. Tree'
  BY TreeKept, Zenon DEF InvalidateBlock, IndInv
<1>3. Links'
  BY LinksKept, Zenon DEF InvalidateBlock, IndInv, status, sets
<1>4. Lock'
  BY ConstantsAssumption, Zenon DEF Lock, InvalidateBlock, CanCall, Failed, Reinstated, Active, Free, tree, status, sets, IndInv
<1>5. Step'
  BY ConstantsAssumption, Zenon DEF Step, InvalidateBlock, CanCall, Failed, Reinstated, Active, Free, Worse, tree, status, sets, IndInv, TypeOK, Tree, Return, Safe
<1>6. Connected'
  <2> DEFINE down == {c \in Active : b \in anc[c]}
  <2>1. Failed' = Failed \cup {b} \cup down /\ UNCHANGED <<anc, scripts>>
    BY Zenon DEF InvalidateBlock, Failed, tree
  <2>2. b # Genesis /\ tip \in index /\ parent[b] \in index
    BY Zenon DEF InvalidateBlock, IndInv, TypeOK
  <2>3. CASE b \in Active
    <3>1. tip' = parent[b]
      BY <2>3, Zenon DEF InvalidateBlock
    <3>2. anc[parent[b]] \subseteq anc[tip] /\ b \notin anc[parent[b]]
      BY <2>2, <2>3, Zenon DEF Active, IndInv, Tree
    <3>3. \A x \in anc[parent[b]] : b \notin anc[x]
      BY <2>2, <3>2, Zenon DEF IndInv, Tree
    <3> QED BY <2>1, <3>1, <3>2, <3>3, Zenon DEF Connected, Active, IndInv
  <2>4. CASE b \notin Active
    <3>1. tip' = tip
      BY <2>4, Zenon DEF InvalidateBlock
    <3>2. \A x \in anc[tip] : b \notin anc[x]
      BY <2>2, <2>4, Zenon DEF Active, IndInv, Tree
    <3> QED BY <2>1, <2>4, <3>1, <3>2, Zenon DEF Connected, Active, IndInv
  <2> QED BY <2>3, <2>4
<1>7. Cause'
  <2>1. \A c \in failedChild' : c \in failedChild \/ b \in anc[c]
    BY Zenon DEF InvalidateBlock
  <2>2. failed' = failed \cup {b} /\ anc' = anc
    BY Zenon DEF InvalidateBlock, tree
  <2> QED BY <2>1, <2>2, Zenon DEF Cause, IndInv
<1>8. Return' /\ Complete'
  <2>1. UNCHANGED <<anc, work, seq, linked, scripts>>
    BY Zenon DEF InvalidateBlock, tree
  <2>2. \A x, y : Worse(x, y)' <=> Worse(x, y)
    BY <2>1, Zenon DEF Worse
  <2>3. \A x \in linked \ Failed' : ~ Worse(x, tip') => x \in candidates'
    BY Zenon DEF InvalidateBlock, Reinstated, Failed
  <2>4. tip' \in linked /\ anc[tip'] \subseteq scripts /\ anc[tip'] \cap Failed' = {} /\ tip' \in anc[tip']
    BY <1>1, <1>2, <1>6, <2>1, Zenon DEF Connected, Active, TypeOK, Tree
  <2>5. ~ Worse(tip', tip')
    BY <2>4 DEF Worse, IndInv, TypeOK
  <2>6. Safe(tip)'
    BY <2>1, <2>3, <2>4, <2>5, Zenon DEF Safe
  <2>7. tip' \in candidates'
    BY <2>6, Zenon DEF Safe
  <2> QED BY <2>1, <2>2, <2>3, <2>5, <2>6, <2>7 DEF Return, Complete
<1>10. Settled'
  BY ConstantsAssumption, Zenon DEF Settled, InvalidateBlock, CanCall, Failed, Reinstated, Active, Worse, tree, status, sets, IndInv, TypeOK, Lock, Step
<1> QED BY <1>1, <1>2, <1>3, <1>4, <1>5, <1>6, <1>7, <1>8, <1>10 DEF IndInv

\* ReconsiderBlock as the inverse of InvalidateBlock: each block that loses its
\* mark is a candidate if it is better than the tip.
LEMMA ReconsiderBlockStep ==
  ASSUME IndInv, NEW t \in Thread, NEW b \in index, ReconsiderBlock(t, b), Undoes(b)
  PROVE  IndInv'
<1>1. TypeOK'
  <2>1. failed' \subseteq index /\ failedChild' \subseteq index /\ candidates' \subseteq linked
    BY Zenon DEF ReconsiderBlock, Reconsidered, IndInv, TypeOK
  <2>2. UNCHANGED <<tree, data, scripts, linked, seq, nextSeq, unlinked, tip, cs, shutdown>>
    BY Zenon DEF ReconsiderBlock
  <2>3. activating' \subseteq Thread /\ commands < MaxCommands /\ commands' = commands + 1
    BY Zenon DEF ReconsiderBlock, IndInv, TypeOK
  <2>4. commands' \in 0..MaxCommands
    BY <2>3, ConstantsAssumption DEF IndInv, TypeOK
  <2> QED BY <2>1, <2>2, <2>3, <2>4, Zenon DEF IndInv, TypeOK, tree
<1>2. Tree'
  BY TreeKept, Zenon DEF ReconsiderBlock, IndInv
<1>3. Links'
  BY LinksKept, Zenon DEF ReconsiderBlock, IndInv, status, sets
<1>4. Lock'
  BY ConstantsAssumption, Zenon DEF Lock, ReconsiderBlock, CanCall, Failed, Reconsidered, Undoes, IsValid, Free, tree, status, sets, IndInv
<1>5. Step'
  BY ConstantsAssumption, Zenon DEF Step, ReconsiderBlock, CanCall, Failed, Reconsidered, Undoes, IsValid, Free, Worse, tree, status, sets, IndInv, TypeOK, Tree, Return, Safe
<1>6. Connected'
  BY ConnectedKept, Zenon DEF ReconsiderBlock, IndInv, status, Failed
<1>7. Cause'
  <2> DEFINE unmarked == {c \in index : b \in anc[c] /\ ~ IsValid(c)}
  <2>1. /\ failed' = failed \ (unmarked \cup anc[b]) /\ anc' = anc
        /\ failedChild' = failedChild \ (unmarked \cup anc[b])
    BY Zenon DEF ReconsiderBlock, tree
  <2> SUFFICES ASSUME NEW c \in failedChild, c \notin unmarked
               PROVE  \E f \in anc[c] : f \in failed /\ f \notin unmarked \cup anc[b]
    BY <2>1, Zenon DEF Cause
  <2>2. c \in index /\ b \notin anc[c]
    BY Zenon DEF IsValid, Failed, IndInv, TypeOK
  <2>3. PICK f \in anc[c] : f \in failed
    BY Zenon DEF IndInv, Cause
  <2>4. b \notin anc[f]
    BY <2>2, <2>3 DEF IndInv, Tree
  <2>5. f \notin anc[b]
    BY <2>2, <2>3 DEF Undoes, Failed
  <2> QED BY <2>3, <2>4, <2>5, Zenon
<1>8. Return' /\ Complete'
  <2> DEFINE unmarked == {c \in index : b \in anc[c] /\ ~ IsValid(c)}
  <2>1. UNCHANGED <<anc, work, seq, linked, scripts, tip>> /\ Failed' = Failed \ (unmarked \cup anc[b])
    BY DEF ReconsiderBlock, tree, Failed
  <2>2. candidates' = candidates \cup {c \in unmarked \cap data \cap linked : Worse(tip, c)}
    BY DEF ReconsiderBlock, Reconsidered
  <2>3. \A c : Safe(c) => Safe(c)'
    BY <2>1, <2>2 DEF Safe
  <2>4. \A x, y : Worse(x, y)' <=> Worse(x, y)
    BY <2>1 DEF Worse
  <2>5. PICK m \in candidates : Safe(m) /\ ~ Worse(m, tip)
    BY DEF IndInv, Return
  <2>6. Return'
    BY <2>1, <2>2, <2>3, <2>4, <2>5 DEF Return
  <2>7. Complete'
    <3> SUFFICES ASSUME NEW x \in linked, x \notin Failed', x \notin candidates'
                 PROVE  \E d \in candidates' : Safe(d)' /\ Worse(x, d)
      BY <2>1, <2>4 DEF Complete
    <3>1. CASE x \notin Failed
      BY <3>1, <2>2, <2>3 DEF IndInv, Complete
    <3>2. CASE x \in Failed
      <4>1. b \in anc[x] /\ x \in index
        BY <2>1, <3>2 DEF Undoes, IndInv, TypeOK, Tree
      <4>2. x \in unmarked \cap data
        BY <4>1, <3>2 DEF IsValid, IndInv, TypeOK
      <4>3. x # tip
        BY <3>2 DEF IndInv, Connected, Active, TypeOK, Tree
      <4>4. Worse(x, tip)
        BY <4>2, <4>3, <2>2, GenesisLinked, WorseTotal
      <4>5. Worse(x, m)
        BY <4>4, <2>5, GenesisLinked, WorseOrder DEF IndInv, TypeOK
      <4> QED BY <4>5, <2>2, <2>3, <2>5
    <3> QED BY <3>1, <3>2
  <2> QED BY <2>6, <2>7
<1>10. Settled'
  BY ConstantsAssumption, Zenon DEF Settled, ReconsiderBlock, CanCall, Failed, Reconsidered, Undoes, IsValid, Worse, tree, status, sets, IndInv, TypeOK, Lock, Step
<1> QED BY <1>1, <1>2, <1>3, <1>4, <1>5, <1>6, <1>7, <1>8, <1>10 DEF IndInv

\* Each conjunct depends on the variables of the specification only.
LEMMA StutterStep ==
  ASSUME IndInv, UNCHANGED vars
  PROVE  IndInv'
<1> USE DEF vars, tree, status, sets
<1>1. TypeOK'
  BY DEF IndInv, TypeOK
<1>4. Tree' /\ Links'
  BY TreeKept, LinksKept DEF IndInv
<1>2. Lock' /\ Step' /\ Connected' /\ Cause'
  BY DEF IndInv, Lock, Step, Connected, Cause, Active, Failed, Worse
<1>3. Return' /\ Complete' /\ Settled'
  BY DEF IndInv, Return, Complete, Settled, Safe, Failed, Worse
<1> QED BY <1>1, <1>2, <1>3, <1>4 DEF IndInv

\* Every step of every thread preserves the invariant.
LEMMA NextStep ==
  ASSUME IndInv, [Next]_vars
  PROVE  IndInv'
<1>1. CASE UNCHANGED vars
  BY <1>1, StutterStep
<1>2. ASSUME NEW t \in Thread, Call(t) PROVE IndInv'
  BY <1>2, AcceptBlockHeaderStep, IgnoreBlockStep, RejectBlockStep, StoreBlockStep DEF Call
<1>3. ASSUME NEW t \in Thread, Activate(t) \/ DiskError(t) PROVE IndInv'
  BY <1>3, LinkBlockStep, DropCandidateStep, StayAtTipStep, StartStepStep, RefuseReorgStep,
     DisconnectTipStep, ConnectTipStep, ConnectInvalidStep, ConnectCorruptStep,
     DiskErrorStep DEF Activate
<1>4. ASSUME NEW t \in Thread, NEW b \in index, Judged(b), InvalidateBlock(t, b) PROVE IndInv'
  BY <1>4, InvalidateBlockStep
<1>5. ASSUME NEW t \in Thread, NEW b \in index, Undoes(b), ReconsiderBlock(t, b) PROVE IndInv'
  BY <1>5, ReconsiderBlockStep
<1> QED BY <1>1, <1>2, <1>3, <1>4, <1>5 DEF Next, Stopped

\* The inductive invariant holds throughout.
THEOREM Invariance == Spec => []IndInv
<1> QED BY InitIndInv, NextStep, PTL DEF Spec

\* Types, for any blocks, threads, work and bounds.
THEOREM TypeCorrect == Spec => []TypeOK
<1>1. IndInv => TypeOK
  BY DEF IndInv
<1> QED BY <1>1, Invariance, PTL

\* No failed block is ever on the active chain: FindMostWorkChain checks the
\* whole path before ActivateBestChainStep takes it, and InvalidateBlock
\* disconnects before it releases cs_main.
THEOREM ActiveChainIsValid == Spec => []NoFailedActive
<1>1. IndInv => NoFailedActive
  BY DEF IndInv, Connected, NoFailedActive
<1> QED BY <1>1, Invariance, PTL

\* A reorganization that meets an invalid block can go back: a usable
\* candidate no worse than the tip is always there, so the assertion of
\* PruneBlockIndexCandidates holds.
THEOREM ReorgCanReturn == Spec => []CanReturn
<1>1. IndInv => CanReturn
  BY DEF IndInv, Return, CanReturn, Safe, Usable, Path
<1> QED BY <1>1, Invariance, PTL

\* When all calls have returned the node is on the best complete chain that
\* has no failed block.
THEOREM TipIsBestChain == Spec => []TipIsBest
<1>1. IndInv => TipIsBest
  <2> SUFFICES ASSUME IndInv, Quiet, NEW b \in linked, anc[b] \cap failed = {}, Worse(tip, b)
               PROVE  FALSE
    BY DEF TipIsBest
  <2>1. b \notin Failed
    BY DEF IndInv, Cause, Failed, TypeOK, Tree
  <2>2. \A c \in candidates : ~ Worse(tip, c)
    BY Zenon DEF Quiet, IndInv, Settled
  <2>3. PICK c \in candidates : Worse(b, c)
    BY <2>1, <2>2, Zenon DEF IndInv, Complete
  <2>4. Worse(tip, c)
    BY <2>3, GenesisLinked, WorseOrder DEF IndInv, TypeOK
  <2> QED BY <2>2, <2>4
<1> QED BY <1>1, Invariance, PTL

\* No step of ActivateBestChain ends with less work than it began with, unless
\* it found a block invalid or corrupt (fInvalidFound) or the node stops.
THEOREM WorkIsKept == Spec => NoWorkLost
<1>1. ASSUME IndInv, [Next]_vars
      PROVE  [cs.loop = "step" /\ cs' = Free /\ ~ shutdown' /\ ~ InvalidFound
                => work[tip'] >= work[cs.old]]_vars
  <2> SUFFICES ASSUME Next, cs.loop = "step", cs' = Free, ~ shutdown', ~ InvalidFound
               PROVE  work[tip'] >= work[cs.old]
    BY <1>1
  <2>1. cs # Free /\ \A t \in Thread : cs # Held(t, "find")
    <3>1. Free.loop = "none"
      BY DEF Free
    <3>2. \A t \in Thread : Held(t, "find").loop = "find"
      BY DEF Free, Held
    <3> QED BY <3>1, <3>2
  <2>2. ~ Stopped
    BY <2>1 DEF Stopped, vars
  <2>3. \A t \in Thread : ~ CanCall(t) /\ ~ InFind(t) /\ ~ LinkBlock(t)
    BY <2>1 DEF CanCall, InFind, LinkBlock
  <2>4. \A t \in Thread : ~ DiskError(t)
    BY DEF DiskError
  <2>5. \A t \in Thread : ~ ConnectInvalid(t) /\ ~ ConnectCorrupt(t)
    BY Zenon DEF InvalidFound
  <2>6. \A t \in Thread : ~ DisconnectTip(t)
    BY <2>1 DEF DisconnectTip
  <2>7. PICK t \in Thread : ConnectTip(t)
    BY <2>2, <2>3, <2>4, <2>5, <2>6, ZenonT(40) DEF Next, Call, Activate, AcceptBlockHeader, IgnoreBlock,
       RejectBlock, StoreBlock, DropCandidate, StayAtTip, StartStep, RefuseReorg,
       InvalidateBlock, ReconsiderBlock
  <2>8. PICK b \in Path(cs.most) : ConnectTip(t)!2!(b)
    BY <2>7 DEF ConnectTip
  <2>9. BetterOff(b)
    BY <2>1, <2>8
  <2>10. work[b] >= work[cs.old]
    BY <2>9, <1>1 DEF BetterOff, IndInv, Step, TypeOK, Path
  <2> QED BY <2>8, <2>10, Zenon
<1> QED BY <1>1, Invariance, PTL DEF Spec, NoWorkLost
=============================================================================
