------------------------ MODULE ShieldedCacheProofs ------------------------
(***************************************************************************)
(* Proofs about ShieldedCache, for any nullifiers, commitments, tree       *)
(* capacity and height.  The layers of the cache are related key by key    *)
(* (an entry that is not dirty says what its base says), and the trees of  *)
(* a chain only grow, so the anchor a disconnected block pops is the       *)
(* anchor of no block below it.                                            *)
(***************************************************************************)
EXTENDS ShieldedCache, TLAPS

USE NoEntryIsNoEntry

Entries == CacheEntry \cup {NoEntry}

\* An entry that is not dirty says what the base says.
Clean(entry, below) == entry # NoEntry /\ ~entry.dirty => (entry.entered <=> below)

(***************************************************************************)
(* One key of a cache.                                                     *)
(***************************************************************************)

\* An entry built by Entry() is an entry, and has the parts it was given.
LEMMA EntryParts ==
    ASSUME NEW e \in BOOLEAN, NEW d \in BOOLEAN
    PROVE  /\ Entry(e, d) \in CacheEntry /\ Entry(e, d) # NoEntry
           /\ Entry(e, d).entered = e /\ Entry(e, d).dirty = d
BY DEF Entry, CacheEntry

\* Caching a nullifier's answer, positive or negative, is invisible.
LEMMA FetchNfFacts ==
    ASSUME NEW entry \in Entries, NEW below \in BOOLEAN, Clean(entry, below)
    PROVE  LET f == FetchNf(entry, below) IN
           /\ f \in Entries /\ Clean(f, below)
           /\ Shows(f, below) <=> Shows(entry, below)
BY EntryParts, Zenon DEF FetchNf, Clean, Shows, Entries

\* Caching an anchor the base has is invisible.
LEMMA FetchAnchorFacts ==
    ASSUME NEW entry \in Entries, NEW below \in BOOLEAN, Clean(entry, below)
    PROVE  LET f == FetchAnchor(entry, below) IN
           /\ f \in Entries /\ Clean(f, below)
           /\ Shows(f, below) <=> Shows(entry, below)
BY EntryParts, Zenon DEF FetchAnchor, Clean, Shows, Entries

\* BatchWrite into a cache: it then shows what the child showed over it.
LEMMA MovedUpFacts ==
    ASSUME NEW ours \in Entries, NEW child \in Entries, NEW below \in BOOLEAN,
           Clean(ours, below), Clean(child, Shows(ours, below))
    PROVE  LET m == MovedUp(ours, child) IN
           /\ m \in Entries /\ Clean(m, below)
           /\ Shows(m, below) <=> Shows(child, Shows(ours, below))
BY EntryParts, Zenon DEF MovedUp, Clean, Shows, Entries, CacheEntry

\* BatchWrite into the database: the record is then what the cache showed.
LEMMA WrittenFacts ==
    ASSUME NEW entry \in Entries, NEW record \in BOOLEAN, Clean(entry, record)
    PROVE  /\ Written(record, entry) \in BOOLEAN
           /\ Written(record, entry) <=> Shows(entry, record)
BY DEF Written, Clean, Shows, Entries, CacheEntry

-----------------------------------------------------------------------------
(***************************************************************************)
(* Trees and chains.                                                       *)
(***************************************************************************)

\* A tree is the same as, or smaller than, one grown from it.
Below(t, u) == Len(t) <= Len(u) /\ (Len(t) = Len(u) => t = u)

\* The empty tree is a tree.
LEMMA EmptyTree == EmptyRoot \in Trees
<1>1. <<>> \in [1..0 -> Commitments]
    OBVIOUS
<1>2. 0 \in 0..MaxCommitments
    BY Capacity
<1> QED  BY <1>1, <1>2 DEF EmptyRoot, Trees

\* A tree is a sequence of commitments.
LEMMA TreeIsSeq == ASSUME NEW t \in Trees PROVE t \in Seq(Commitments) /\ Len(t) \in Nat
<1>1. PICK n \in 0..MaxCommitments : t \in [1..n -> Commitments]
    BY DEF Trees
<1>2. n \in Nat
    BY Capacity
<1> QED  BY <1>1, <1>2

\* Trees are ordered by growth.
LEMMA BelowFacts ==
    ASSUME NEW t \in Trees, NEW u \in Trees, NEW v \in Trees
    PROVE  /\ Below(EmptyRoot, t) /\ Below(t, t)
           /\ Below(t, u) /\ Below(u, v) => Below(t, v)
           /\ Below(t, u) /\ Below(u, t) => t = u
           /\ Below(t, EmptyRoot) => t = EmptyRoot
<1>1. t \in Seq(Commitments) /\ u \in Seq(Commitments) /\ v \in Seq(Commitments)
    BY TreeIsSeq
<1>2. Len(t) \in Nat /\ Len(u) \in Nat /\ Len(v) \in Nat /\ Len(EmptyRoot) = 0
    BY <1>1 DEF EmptyRoot
<1>3. Len(t) = 0 => t = EmptyRoot
    BY <1>1 DEF EmptyRoot
<1> QED  BY <1>2, <1>3 DEF Below

\* Appending commitments grows a tree.
LEMMA AppendGrows ==
    ASSUME NEW t \in Trees, NEW c \in Trees
    PROVE  Below(t, t \o c)
<1>1. t \in Seq(Commitments) /\ c \in Seq(Commitments)
    BY TreeIsSeq
<1>2. Len(t \o c) = Len(t) + Len(c) /\ Len(t) \in Nat /\ Len(c) \in Nat
    BY <1>1
<1>3. Len(c) = 0 => t \o c = t
    BY <1>1
<1> QED  BY <1>2, <1>3 DEF Below

\* The chains the active chain can be: nothing is spent twice, and the
\* trees only grow.
Good(c) ==
    /\ c \in Seq(Block)
    /\ \A i, j \in DOMAIN c : i # j => c[i].nfs \cap c[j].nfs = {}
    /\ \A i, j \in DOMAIN c : i <= j => Below(c[i].tree, c[j].tree)

\* A block that spends nothing of the chain and grows its last tree.
LEMMA AppendChain ==
    ASSUME NEW c, Good(c), NEW b \in Block,
           b.nfs \cap SpentIn(c) = {}, Below(BestOf(c), b.tree)
    PROVE  LET a == Append(c, b) IN
           /\ Good(a)
           /\ SpentIn(a) = SpentIn(c) \cup b.nfs
           /\ RootsOf(a) = RootsOf(c) \cup {b.tree}
           /\ BestOf(a) = b.tree
<1> DEFINE a == Append(c, b)
           n == Len(c)
<1>1. /\ c \in Seq(Block) /\ a \in Seq(Block) /\ n \in Nat /\ Len(a) = n + 1
      /\ DOMAIN c = 1..n /\ DOMAIN a = 1..(n + 1)
      /\ \A i \in 1..n : a[i] = c[i] /\ c[i] \in Block
      /\ a[n + 1] = b
    BY DEF Good
<1> HIDE DEF a, n
<1>2. \A i \in 1..n : b.nfs \cap c[i].nfs = {}
    BY <1>1 DEF SpentIn
<1>3. \A i, j \in DOMAIN a : i # j => a[i].nfs \cap a[j].nfs = {}
    BY <1>1, <1>2 DEF Good
<1>4. \A i \in 1..n : Below(c[i].tree, b.tree)
  <2> SUFFICES ASSUME NEW i \in 1..n PROVE Below(c[i].tree, b.tree)
    OBVIOUS
  <2>1. n \in 1..n /\ c # <<>> /\ BestOf(c) = c[n].tree
    BY <1>1 DEF BestOf, n
  <2>2. Below(c[i].tree, c[n].tree)
    BY <1>1, <2>1 DEF Good
  <2>3. c[i].tree \in Trees /\ c[n].tree \in Trees /\ b.tree \in Trees
    BY <1>1, <2>1 DEF Block
  <2> QED  BY <2>1, <2>2, <2>3, BelowFacts
<1>5. b.tree \in Trees
    BY DEF Block
<1>6. \A i, j \in DOMAIN a : i <= j => Below(a[i].tree, a[j].tree)
    BY <1>1, <1>4, <1>5, BelowFacts DEF Good
<1>7. SpentIn(a) = SpentIn(c) \cup b.nfs
    BY <1>1 DEF SpentIn
<1>8. RootsOf(a) = RootsOf(c) \cup {b.tree}
    BY <1>1 DEF RootsOf
<1>9. BestOf(a) = b.tree
    BY <1>1 DEF BestOf
<1> QED  BY <1>1, <1>3, <1>6, <1>7, <1>8, <1>9 DEF Good, a

\* The chain without its last block: what the block spent is unspent, and
\* its anchor is gone unless the block below ended with it too.
LEMMA FrontChain ==
    ASSUME NEW c, Good(c), Len(c) > 0
    PROVE  LET f == SubSeq(c, 1, Len(c) - 1)
               b == c[Len(c)]
               old == IF Len(c) = 1 THEN EmptyRoot ELSE c[Len(c) - 1].tree IN
           /\ Good(f)
           /\ SpentIn(f) = SpentIn(c) \ b.nfs
           /\ RootsOf(f) = IF b.tree = old THEN RootsOf(c) ELSE RootsOf(c) \ {b.tree}
           /\ BestOf(f) = old /\ BestOf(c) = b.tree /\ old \in Trees /\ b \in Block
<1> DEFINE n == Len(c)
           f == SubSeq(c, 1, n - 1)
           b == c[n]
           old == IF n = 1 THEN EmptyRoot ELSE c[n - 1].tree
<1>1. /\ c \in Seq(Block) /\ n \in Nat /\ n > 0
      /\ DOMAIN c = 1..n /\ \A i \in 1..n : c[i] \in Block
    BY DEF Good
<1>2. /\ f \in Seq(Block) /\ Len(f) = n - 1 /\ DOMAIN f = 1..(n - 1)
      /\ \A i \in 1..(n - 1) : f[i] = c[i]
    BY <1>1
<1> HIDE DEF n, f
<1>3. Good(f)
    BY <1>1, <1>2 DEF Good
<1>4. SpentIn(f) = SpentIn(c) \ b.nfs
  <2>1. \A i \in 1..(n - 1) : c[i].nfs \cap b.nfs = {}
    BY <1>1 DEF Good
  <2>2. SpentIn(c) = SpentIn(f) \cup b.nfs
    BY <1>1, <1>2 DEF SpentIn
  <2>3. SpentIn(f) \cap b.nfs = {}
    BY <1>2, <2>1 DEF SpentIn
  <2> QED  BY <2>2, <2>3
<1>5. b \in Block /\ b.tree \in Trees /\ \A i \in 1..n : c[i].tree \in Trees
    BY <1>1 DEF Block
<1>6. old \in Trees /\ BestOf(c) = b.tree
    BY <1>1, <1>5, EmptyTree DEF BestOf, n
<1>7. BestOf(f) = old
    BY <1>1, <1>2 DEF BestOf
<1>8. RootsOf(c) = RootsOf(f) \cup {b.tree}
    BY <1>1, <1>2 DEF RootsOf
<1>9. old \in RootsOf(f)
    BY <1>1, <1>2 DEF RootsOf
<1>10. ASSUME b.tree # old PROVE b.tree \notin RootsOf(f)
  <2>1. Below(old, b.tree)
    BY <1>1, <1>5, BelowFacts DEF Good
  <2>2. ASSUME NEW i \in 1..(n - 1), c[i].tree = b.tree PROVE FALSE
    <3>1. n # 1 /\ i \in 1..n /\ n - 1 \in 1..n /\ i <= n - 1
        BY <1>1
    <3>2. old = c[n - 1].tree
        BY <3>1
    <3>3. Below(c[i].tree, old)
        BY <1>1, <3>1, <3>2 DEF Good
    <3> QED  BY <1>5, <1>6, <1>10, <2>1, <2>2, <3>3, BelowFacts
  <2>3. b.tree # EmptyRoot
    BY <1>5, <1>6, <1>10, <2>1, BelowFacts
  <2> QED  BY <1>2, <2>2, <2>3, Zenon DEF RootsOf
<1> QED  BY <1>3, <1>4, <1>5, <1>6, <1>7, <1>8, <1>9, <1>10, Zenon DEF f, n

-----------------------------------------------------------------------------
(***************************************************************************)
(* The inductive invariant.                                                *)
(***************************************************************************)

NfMap == [Nullifiers -> Entries]
AnchorMap == [Trees -> Entries]

Types ==
    /\ mode \in {"closed", "connect"} /\ tree \in Trees /\ nfs \in SUBSET Nullifiers
    /\ vNf \in NfMap /\ vAnchor \in AnchorMap /\ vBest \in Trees \cup {NullRoot}
    /\ tNf \in NfMap /\ tAnchor \in AnchorMap /\ tBest \in Trees \cup {NullRoot}
    /\ dNf \in [Nullifiers -> BOOLEAN] /\ dAnchor \in [Trees -> BOOLEAN]
    /\ dBest \in Trees

\* Each layer's clean entries agree with the layer below.
TipClean ==
    /\ \A n \in Nullifiers : Clean(tNf[n], dNf[n])
    /\ \A r \in Trees : Clean(tAnchor[r], DiskHas(r))
ViewClean ==
    /\ \A n \in Nullifiers : Clean(vNf[n], TipSpent(n))
    /\ \A r \in Trees : Clean(vAnchor[r], TipHas(r))

\* The per-block view is empty, or shows the chain and the block so far.
ViewInv ==
    \/ mode = "closed" /\ vNf = NoNfs /\ vAnchor = NoAnchors /\ vBest = NullRoot
    \/ /\ mode = "connect"
       /\ vBest = BestOf(chain) /\ Below(BestOf(chain), tree)
       /\ nfs \cap SpentIn(chain) = {}
       /\ \A n \in Nullifiers : ViewSpent(n) <=> n \in SpentIn(chain) \cup nfs
       /\ \A r \in Trees : ViewHas(r) <=> r \in RootsOf(chain)

IndInv ==
    /\ Types /\ TipClean /\ ViewClean
    /\ Good(chain) /\ Good(dChain)
    /\ TipIsChain /\ DiskIsChain /\ ViewInv

\* What the layers show is a truth value.
LEMMA ShownBoolean ==
    ASSUME Types
    PROVE  /\ \A n \in Nullifiers : TipSpent(n) \in BOOLEAN /\ ViewSpent(n) \in BOOLEAN
           /\ \A r \in Trees : /\ DiskHas(r) \in BOOLEAN
                               /\ TipHas(r) \in BOOLEAN /\ ViewHas(r) \in BOOLEAN
<1>1. \A e \in Entries, b \in BOOLEAN : Shows(e, b) \in BOOLEAN
    BY DEF Entries, CacheEntry, Shows
<1>2. \A r \in Trees : DiskHas(r) \in BOOLEAN
    BY DEF DiskHas
<1>3. \A n \in Nullifiers : tNf[n] \in Entries /\ vNf[n] \in Entries /\ dNf[n] \in BOOLEAN
    BY DEF Types, NfMap
<1>4. \A r \in Trees : tAnchor[r] \in Entries /\ vAnchor[r] \in Entries
    BY DEF Types, AnchorMap
<1>5. \A n \in Nullifiers : TipSpent(n) \in BOOLEAN
    BY <1>1, <1>3, Zenon DEF TipSpent
<1>6. \A r \in Trees : TipHas(r) \in BOOLEAN
    BY <1>1, <1>2, <1>4 DEF TipHas
<1>7. \A n \in Nullifiers : ViewSpent(n) \in BOOLEAN
    BY <1>1, <1>3, <1>5, Zenon DEF ViewSpent
<1>8. \A r \in Trees : ViewHas(r) \in BOOLEAN
    BY <1>1, <1>4, <1>6 DEF ViewHas
<1> QED  BY <1>2, <1>5, <1>6, <1>7, <1>8

\* Reading nullifiers through pcoinsTip is invisible.
LEMMA TipNfFetchedFacts ==
    ASSUME Types, TipClean, NEW N, tNf' = TipNfFetched(N), dNf' = dNf
    PROVE  /\ tNf' \in NfMap
           /\ \A n \in Nullifiers : /\ Clean(tNf'[n], dNf'[n])
                                    /\ TipSpent(n)' <=> TipSpent(n)
<1>1. ASSUME NEW n \in Nullifiers
      PROVE  /\ tNf'[n] \in Entries /\ Clean(tNf'[n], dNf[n])
             /\ Shows(tNf'[n], dNf[n]) <=> Shows(tNf[n], dNf[n])
  <2>1. tNf[n] \in Entries /\ dNf[n] \in BOOLEAN /\ Clean(tNf[n], dNf[n])
    BY DEF Types, NfMap, TipClean
  <2>2. tNf'[n] = IF n \in N THEN FetchNf(tNf[n], dNf[n]) ELSE tNf[n]
    BY DEF TipNfFetched
  <2> QED  BY <2>1, <2>2, FetchNfFacts
<1>2. tNf' \in NfMap
    BY <1>1 DEF TipNfFetched, NfMap
<1> QED  BY <1>1, <1>2 DEF TipSpent

\* Reading anchors through pcoinsTip is invisible.
LEMMA TipAnchorFetchedFacts ==
    ASSUME Types, TipClean, NEW R, tAnchor' = TipAnchorFetched(R), dAnchor' = dAnchor
    PROVE  /\ tAnchor' \in AnchorMap
           /\ \A r \in Trees : /\ DiskHas(r)' <=> DiskHas(r)
                               /\ Clean(tAnchor'[r], DiskHas(r)')
                               /\ TipHas(r)' = TipHas(r)
<1>1. \A r \in Trees : DiskHas(r)' = DiskHas(r)
    BY DEF DiskHas
<1>2. ASSUME NEW r \in Trees
      PROVE  /\ tAnchor'[r] \in Entries /\ Clean(tAnchor'[r], DiskHas(r))
             /\ Shows(tAnchor'[r], DiskHas(r)) <=> Shows(tAnchor[r], DiskHas(r))
  <2>1. tAnchor[r] \in Entries /\ DiskHas(r) \in BOOLEAN /\ Clean(tAnchor[r], DiskHas(r))
    BY ShownBoolean DEF Types, AnchorMap, TipClean
  <2>2. tAnchor'[r] = IF r \in R THEN FetchAnchor(tAnchor[r], DiskHas(r)) ELSE tAnchor[r]
    BY DEF TipAnchorFetched
  <2> QED  BY <2>1, <2>2, FetchAnchorFacts
<1>3. tAnchor' \in AnchorMap
    BY <1>2 DEF TipAnchorFetched, AnchorMap
<1>4. \A r \in Trees : TipHas(r)' \in BOOLEAN /\ TipHas(r) \in BOOLEAN
  <2>1. \A e \in Entries, b \in BOOLEAN : Shows(e, b) \in BOOLEAN
    BY DEF Entries, CacheEntry, Shows
  <2> QED  BY <1>1, <1>2, <2>1, ShownBoolean DEF TipHas
<1>5. \A r \in Trees : TipHas(r)' <=> TipHas(r)
    BY <1>1, <1>2 DEF TipHas
<1> QED  BY <1>1, <1>2, <1>3, <1>4, <1>5

\* Reading anchors through the per-block view is invisible.
LEMMA ViewAnchorFetchedFacts ==
    ASSUME Types, ViewClean, NEW R, vAnchor' = ViewAnchorFetched(R),
           \A r \in Trees : TipHas(r)' = TipHas(r)
    PROVE  /\ vAnchor' \in AnchorMap
           /\ \A r \in Trees : /\ Clean(vAnchor'[r], TipHas(r)')
                               /\ ViewHas(r)' <=> ViewHas(r)
<1>1. ASSUME NEW r \in Trees
      PROVE  /\ vAnchor'[r] \in Entries /\ Clean(vAnchor'[r], TipHas(r))
             /\ Shows(vAnchor'[r], TipHas(r)) <=> Shows(vAnchor[r], TipHas(r))
  <2>1. vAnchor[r] \in Entries /\ TipHas(r) \in BOOLEAN /\ Clean(vAnchor[r], TipHas(r))
    BY ShownBoolean DEF Types, AnchorMap, ViewClean
  <2>2. vAnchor'[r] = IF r \in R THEN FetchAnchor(vAnchor[r], TipHas(r)) ELSE vAnchor[r]
    BY DEF ViewAnchorFetched
  <2> QED  BY <2>1, <2>2, FetchAnchorFacts
<1>2. vAnchor' \in AnchorMap
    BY <1>1 DEF ViewAnchorFetched, AnchorMap
<1> QED  BY <1>1, <1>2 DEF ViewHas

\* A best anchor that is set is never the null root.
LEMMA BestFacts ==
    ASSUME Types
    PROVE  /\ TipBest \in Trees /\ ViewBest \in Trees
           /\ \A t \in Trees : t # NullRoot
BY NullRootIsNoRoot DEF Types, TipBest, ViewBest

\* The empty view agrees with anything below it, and shows it.
LEMMA EmptyView ==
    ASSUME vNf = NoNfs, vAnchor = NoAnchors
    PROVE  /\ vNf \in NfMap /\ vAnchor \in AnchorMap /\ ViewClean
           /\ \A n \in Nullifiers : ViewSpent(n) = TipSpent(n)
           /\ \A r \in Trees : ViewHas(r) = TipHas(r)
BY DEF NoNfs, NoAnchors, NfMap, AnchorMap, Entries, ViewClean, Clean, ViewSpent, ViewHas, Shows

\* The same of a view that a step leaves empty.
LEMMA EmptyViewNext ==
    ASSUME vNf' = NoNfs, vAnchor' = NoAnchors
    PROVE  vNf' \in NfMap /\ vAnchor' \in AnchorMap /\ ViewClean'
BY DEF NoNfs, NoAnchors, NfMap, AnchorMap, Entries, ViewClean, Clean

\* Flushing a view: pcoinsTip then shows what the view showed.
LEMMA FlushViewFacts ==
    ASSUME Types, TipClean, NEW nf \in NfMap, NEW ab, ab[1] \in AnchorMap, ab[2] \in Trees,
           FlushView(nf, ab), UNCHANGED diskVars,
           \A n \in Nullifiers : Clean(nf[n], TipSpent(n)),
           \A r \in Trees : Clean(ab[1][r], TipHas(r))
    PROVE  /\ tNf' \in NfMap /\ tAnchor' \in AnchorMap /\ tBest' = ab[2]
           /\ TipClean'
           /\ \A n \in Nullifiers : TipSpent(n)' <=> Shows(nf[n], TipSpent(n))
           /\ \A r \in Trees : TipHas(r)' <=> Shows(ab[1][r], TipHas(r))
           /\ vNf' = NoNfs /\ vAnchor' = NoAnchors /\ vBest' = NullRoot
<1>1. /\ \A n \in Nullifiers : tNf'[n] = MovedUp(tNf[n], nf[n])
      /\ \A r \in Trees : tAnchor'[r] = MovedUp(tAnchor[r], ab[1][r])
      /\ tBest' = ab[2]
      /\ vNf' = NoNfs /\ vAnchor' = NoAnchors /\ vBest' = NullRoot
    BY DEF FlushView
<1>2. dNf' = dNf /\ dAnchor' = dAnchor
    BY DEF diskVars
<1>3. \A r \in Trees : DiskHas(r)' = DiskHas(r)
    BY <1>2 DEF DiskHas
<1>4. ASSUME NEW n \in Nullifiers
      PROVE  /\ tNf'[n] \in Entries /\ Clean(tNf'[n], dNf[n])
             /\ Shows(tNf'[n], dNf[n]) <=> Shows(nf[n], TipSpent(n))
  <2>1. /\ tNf[n] \in Entries /\ dNf[n] \in BOOLEAN /\ Clean(tNf[n], dNf[n])
        /\ nf[n] \in Entries /\ Clean(nf[n], Shows(tNf[n], dNf[n]))
    BY DEF Types, NfMap, TipClean, TipSpent
  <2> QED  BY <1>1, <2>1, MovedUpFacts DEF TipSpent
<1>5. ASSUME NEW r \in Trees
      PROVE  /\ tAnchor'[r] \in Entries /\ Clean(tAnchor'[r], DiskHas(r))
             /\ Shows(tAnchor'[r], DiskHas(r)) <=> Shows(ab[1][r], TipHas(r))
  <2>1. /\ tAnchor[r] \in Entries /\ DiskHas(r) \in BOOLEAN /\ Clean(tAnchor[r], DiskHas(r))
        /\ ab[1][r] \in Entries /\ Clean(ab[1][r], Shows(tAnchor[r], DiskHas(r)))
    BY ShownBoolean, Zenon DEF Types, AnchorMap, TipClean, TipHas
  <2> QED  BY <1>1, <2>1, MovedUpFacts DEF TipHas
<1>6. tNf' \in NfMap /\ tAnchor' \in AnchorMap
    BY <1>4, <1>5, Zenon DEF FlushView, NfMap, AnchorMap
<1>7. TipClean'
    BY <1>2, <1>3, <1>4, <1>5, Zenon DEF TipClean
<1>8. \A n \in Nullifiers : TipSpent(n)' <=> Shows(nf[n], TipSpent(n))
    BY <1>2, <1>4 DEF TipSpent
<1>9. \A r \in Trees : TipHas(r)' <=> Shows(ab[1][r], TipHas(r))
    BY <1>3, <1>5 DEF TipHas
<1> QED  BY <1>1, <1>6, <1>7, <1>8, <1>9

-----------------------------------------------------------------------------
(***************************************************************************)
(* One lemma per action.                                                   *)
(***************************************************************************)

\* An empty cache over an empty database.
LEMMA InitInv == Init => IndInv
<1> SUFFICES ASSUME Init PROVE IndInv
    OBVIOUS
<1>1. /\ vNf = NoNfs /\ vAnchor = NoAnchors /\ tNf = NoNfs /\ tAnchor = NoAnchors
      /\ vBest = NullRoot /\ tBest = NullRoot /\ dBest = EmptyRoot
      /\ chain = <<>> /\ dChain = <<>> /\ mode = "closed" /\ tree = EmptyRoot /\ nfs = {}
      /\ dNf = [n \in Nullifiers |-> FALSE] /\ dAnchor = [r \in Trees |-> FALSE]
    BY DEF Init
<1>2. Types
    BY <1>1, EmptyTree DEF Types, NoNfs, NoAnchors, NfMap, AnchorMap, Entries
<1>3. TipClean
    BY <1>1 DEF TipClean, Clean, NoNfs, NoAnchors
<1>4. ViewClean
    BY <1>1, EmptyView
<1>5. Good(<<>>) /\ SpentIn(<<>>) = {} /\ RootsOf(<<>>) = {EmptyRoot} /\ BestOf(<<>>) = EmptyRoot
    BY DEF Good, SpentIn, RootsOf, BestOf
<1>6. DiskIsChain
    BY <1>1, <1>5 DEF DiskIsChain, DiskHas
<1>7. TipIsChain
    BY <1>1, <1>5 DEF TipIsChain, TipSpent, TipHas, TipBest, DiskHas, Shows, NoNfs, NoAnchors
<1>8. ViewInv
    BY <1>1 DEF ViewInv
<1> QED  BY <1>1, <1>2, <1>3, <1>4, <1>5, <1>6, <1>7, <1>8 DEF IndInv

\* What the database shows and the chain below it stay as they are.
LEMMA DiskKept ==
    ASSUME IndInv, UNCHANGED diskVars
    PROVE  /\ DiskIsChain' /\ Good(dChain)'
           /\ dNf' = dNf /\ dAnchor' = dAnchor /\ dBest' = dBest /\ dChain' = dChain
<1>1. dNf' = dNf /\ dAnchor' = dAnchor /\ dBest' = dBest /\ dChain' = dChain
    BY DEF diskVars
<1>2. DiskIsChain'
    BY <1>1 DEF IndInv, DiskIsChain, DiskHas
<1> QED  BY <1>1, <1>2 DEF IndInv

\* A read of pcoinsTip from outside block connection.
LEMMA TipReadInv ==
    ASSUME IndInv, NEW n \in Nullifiers, NEW r \in Trees, TipRead(n, r)
    PROVE  IndInv'
<1> USE DEF IndInv
<1>1. /\ mode = "closed" /\ tNf' = TipNfFetched({n}) /\ tAnchor' = TipAnchorFetched({r})
      /\ tBest' = TipBest /\ UNCHANGED diskVars
      /\ UNCHANGED <<mode, tree, nfs, vNf, vAnchor, vBest, chain>>
    BY DEF TipRead, viewVars
<1>2. DiskIsChain' /\ Good(dChain)' /\ dNf' = dNf /\ dAnchor' = dAnchor /\ dBest' = dBest
    BY <1>1, DiskKept
<1>3. /\ tNf' \in NfMap /\ tAnchor' \in AnchorMap /\ tBest' \in Trees
      /\ \A m \in Nullifiers : Clean(tNf'[m], dNf'[m]) /\ (TipSpent(m)' <=> TipSpent(m))
      /\ \A s \in Trees : /\ Clean(tAnchor'[s], DiskHas(s)')
                          /\ TipHas(s)' <=> TipHas(s)
    BY <1>1, <1>2, TipNfFetchedFacts, TipAnchorFetchedFacts, BestFacts, Zenon
<1>4. Types'
    BY <1>1, <1>2, <1>3 DEF Types
<1>5. TipClean'
    BY <1>3 DEF TipClean
<1>6. vNf' = NoNfs /\ vAnchor' = NoAnchors /\ ViewInv'
    BY <1>1 DEF ViewInv
<1>7. ViewClean'
    BY <1>6, EmptyViewNext
<1>8. TipBest' = TipBest
    BY <1>1, <1>2, BestFacts DEF TipBest
<1>9. TipIsChain'
    BY <1>1, <1>3, <1>8 DEF TipIsChain
<1> QED  BY <1>1, <1>2, <1>4, <1>5, <1>6, <1>7, <1>9

\* ConnectBlock opens a view and reads the best anchor's tree.
LEMMA StartConnectInv ==
    ASSUME IndInv, StartConnect
    PROVE  IndInv'
<1> USE DEF IndInv
<1>1. /\ mode = "closed" /\ mode' = "connect"
      /\ tree' = ViewBest /\ nfs' = {} /\ vBest' = ViewBest /\ tBest' = TipBest
      /\ vAnchor' = ViewAnchorFetched({ViewBest})
      /\ tAnchor' = TipAnchorFetched(AnchorMissed({ViewBest}))
      /\ vNf' = vNf /\ tNf' = tNf /\ chain' = chain /\ UNCHANGED diskVars
    BY DEF StartConnect
<1>2. DiskIsChain' /\ Good(dChain)' /\ dNf' = dNf /\ dAnchor' = dAnchor /\ dBest' = dBest
    BY <1>1, DiskKept
<1>3. vNf = NoNfs /\ vAnchor = NoAnchors /\ vBest = NullRoot
    BY <1>1 DEF ViewInv
<1>4. ViewBest = BestOf(chain) /\ TipBest = BestOf(chain) /\ ViewBest \in Trees
    BY <1>3, BestFacts DEF ViewBest, TipIsChain
<1>5. /\ tAnchor' \in AnchorMap
      /\ \A s \in Trees : /\ Clean(tAnchor'[s], DiskHas(s)')
                          /\ TipHas(s)' = TipHas(s)
    BY <1>1, <1>2, TipAnchorFetchedFacts
<1>6. \A m \in Nullifiers : /\ TipSpent(m)' = TipSpent(m)
                            /\ Clean(tNf'[m], dNf'[m])
    BY <1>1, <1>2 DEF TipSpent, TipClean
<1>7. /\ vAnchor' \in AnchorMap
      /\ \A s \in Trees : /\ Clean(vAnchor'[s], TipHas(s)')
                          /\ ViewHas(s)' <=> ViewHas(s)
    BY <1>1, <1>5, ViewAnchorFetchedFacts
<1>8. Types'
    BY <1>1, <1>2, <1>4, <1>5, <1>7 DEF Types
<1>9. TipClean'
    BY <1>5, <1>6 DEF TipClean
<1>10. ViewClean'
    BY <1>1, <1>6, <1>7, Zenon DEF ViewClean
<1>11. TipBest' = TipBest
    BY <1>1, <1>2, <1>4, BestFacts DEF TipBest
<1>12. TipIsChain'
    BY <1>1, <1>5, <1>6, <1>11, Zenon DEF TipIsChain
<1>13. \A m \in Nullifiers : ViewSpent(m)' <=> m \in SpentIn(chain) \cup {}
  <2>1. \A m \in Nullifiers : ViewSpent(m)' = ViewSpent(m)
    BY <1>1, <1>6 DEF ViewSpent
  <2> QED  BY <1>3, <2>1, EmptyView DEF TipIsChain
<1>14. \A s \in Trees : ViewHas(s)' <=> s \in RootsOf(chain)
    BY <1>3, <1>7, EmptyView DEF TipIsChain
<1>15. ViewInv'
    BY <1>1, <1>4, <1>13, <1>14, BelowFacts DEF ViewInv
<1> QED  BY <1>1, <1>2, <1>8, <1>9, <1>10, <1>12, <1>15

\* One transaction of the block: its nullifiers, unspent so far, are spent in
\* the view, and its commitments grow the tree.
LEMMA ConnectTxInv ==
    ASSUME IndInv, NEW N \in SUBSET Nullifiers, NEW r \in Trees, NEW c \in Trees,
           ConnectTx(N, r, c)
    PROVE  IndInv'
<1> USE DEF IndInv
<1>1. /\ mode = "connect" /\ mode' = mode /\ tree' = tree \o c /\ nfs' = nfs \cup N
      /\ vNf' = [n \in Nullifiers |-> IF n \in N THEN Entry(TRUE, TRUE) ELSE vNf[n]]
      /\ tNf' = TipNfFetched(NfMissed(N))
      /\ vAnchor' = ViewAnchorFetched({r})
      /\ tAnchor' = TipAnchorFetched(AnchorMissed({r}))
      /\ vBest' = vBest /\ tBest' = tBest /\ chain' = chain /\ UNCHANGED diskVars
    BY DEF ConnectTx
<1>2. (\A n \in N : ~ViewSpent(n)) /\ tree \o c \in Trees
    BY DEF ConnectTx, TxAllowed
<1>3. DiskIsChain' /\ Good(dChain)' /\ dNf' = dNf /\ dAnchor' = dAnchor /\ dBest' = dBest
    BY <1>1, DiskKept
<1>4. /\ tNf' \in NfMap
      /\ \A n \in Nullifiers : Clean(tNf'[n], dNf'[n]) /\ (TipSpent(n)' <=> TipSpent(n))
    BY <1>1, <1>3, TipNfFetchedFacts
<1>5. /\ tAnchor' \in AnchorMap
      /\ \A s \in Trees : /\ Clean(tAnchor'[s], DiskHas(s)')
                          /\ TipHas(s)' = TipHas(s)
    BY <1>1, <1>3, TipAnchorFetchedFacts, Zenon
<1>6. /\ vAnchor' \in AnchorMap
      /\ \A s \in Trees : /\ Clean(vAnchor'[s], TipHas(s)')
                          /\ ViewHas(s)' <=> ViewHas(s)
    BY <1>1, <1>5, ViewAnchorFetchedFacts, Zenon
<1>7. /\ Entry(TRUE, TRUE) \in Entries /\ Entry(TRUE, TRUE) # NoEntry
      /\ Entry(TRUE, TRUE).entered /\ Entry(TRUE, TRUE).dirty
    BY EntryParts, Zenon DEF Entries
<1>8. \A n \in Nullifiers : vNf'[n] = IF n \in N THEN Entry(TRUE, TRUE) ELSE vNf[n]
    BY <1>1
<1>9. vNf' \in NfMap
    BY <1>1, <1>7, Zenon DEF Types, NfMap
<1>10. Types'
    BY <1>1, <1>2, <1>3, <1>4, <1>5, <1>6, <1>9 DEF Types
<1>11. TipClean'
    BY <1>4, <1>5 DEF TipClean
<1>12. ViewClean'
  <2>1. \A n \in Nullifiers : Clean(vNf'[n], TipSpent(n)')
    BY <1>4, <1>7, <1>8, Zenon DEF ViewClean, Clean
  <2> QED  BY <1>6, <2>1, Zenon DEF ViewClean
<1>13. TipBest' = TipBest
    BY <1>1, <1>3 DEF TipBest
<1>14. TipIsChain'
    BY <1>1, <1>4, <1>5, <1>13, Zenon DEF TipIsChain
<1>15. \A n \in Nullifiers : ViewSpent(n)' <=> ViewSpent(n) \/ n \in N
    BY <1>4, <1>7, <1>8, Zenon DEF ViewSpent, Shows
<1>16. /\ vBest = BestOf(chain) /\ Below(BestOf(chain), tree)
       /\ nfs \cap SpentIn(chain) = {}
       /\ \A n \in Nullifiers : ViewSpent(n) <=> n \in SpentIn(chain) \cup nfs
       /\ \A s \in Trees : ViewHas(s) <=> s \in RootsOf(chain)
    BY <1>1, Zenon DEF ViewInv
<1>17. nfs' \cap SpentIn(chain) = {}
    BY <1>1, <1>2, <1>16
<1>18. BestOf(chain) \in Trees /\ tree \in Trees
    BY BestFacts DEF Types, TipIsChain
<1>19. Below(BestOf(chain), tree')
    BY <1>1, <1>2, <1>16, <1>18, AppendGrows, BelowFacts
<1>20. ViewInv'
    BY <1>1, <1>6, <1>15, <1>16, <1>17, <1>19 DEF ViewInv
<1> QED  BY <1>1, <1>3, <1>10, <1>11, <1>12, <1>14, <1>20

\* The end of ConnectBlock: the anchor is pushed, the view flushed, and the
\* chain is one block longer.
LEMMA EndConnectInv ==
    ASSUME IndInv, EndConnect
    PROVE  IndInv'
<1> USE DEF IndInv
<1> DEFINE ab == PushAnchor(tree)
           blk == [tree |-> tree, nfs |-> nfs]
<1>1. /\ mode = "connect" /\ mode' = "closed" /\ FlushView(vNf, ab)
      /\ chain' = Append(chain, blk)
      /\ tree' = EmptyRoot /\ nfs' = {} /\ UNCHANGED diskVars
    BY DEF EndConnect
<1>2. DiskIsChain' /\ Good(dChain)' /\ dNf' = dNf /\ dAnchor' = dAnchor /\ dBest' = dBest
    BY <1>1, DiskKept
<1>3. /\ vBest = BestOf(chain) /\ Below(BestOf(chain), tree)
      /\ nfs \cap SpentIn(chain) = {}
      /\ \A n \in Nullifiers : ViewSpent(n) <=> n \in SpentIn(chain) \cup nfs
      /\ \A s \in Trees : ViewHas(s) <=> s \in RootsOf(chain)
    BY <1>1 DEF ViewInv
<1>4. BestOf(chain) \in Trees /\ tree \in Trees /\ ViewBest = BestOf(chain)
    BY <1>3, BestFacts DEF Types, TipIsChain, ViewBest
<1>5. blk \in Block /\ blk.tree = tree /\ blk.nfs = nfs
    BY <1>4 DEF Block, Types
<1>6. /\ Good(chain') /\ SpentIn(chain') = SpentIn(chain) \cup nfs
      /\ RootsOf(chain') = RootsOf(chain) \cup {tree} /\ BestOf(chain') = tree
    BY <1>1, <1>3, <1>5, AppendChain
<1>7. /\ Entry(TRUE, TRUE) \in Entries /\ Entry(TRUE, TRUE) # NoEntry
      /\ Entry(TRUE, TRUE).entered /\ Entry(TRUE, TRUE).dirty
    BY EntryParts, Zenon DEF Entries
<1>8. /\ ab[1] \in AnchorMap /\ ab[2] = tree
      /\ \A s \in Trees : ab[1][s] = vAnchor[s] \/ (s = tree /\ ab[1][s] = Entry(TRUE, TRUE))
      /\ tree # BestOf(chain) => ab[1][tree] = Entry(TRUE, TRUE)
    BY <1>4, <1>7, Zenon DEF PushAnchor, Types, AnchorMap
<1>9. \A s \in Trees : Clean(ab[1][s], TipHas(s))
    BY <1>7, <1>8, Zenon DEF ViewClean, Clean
<1>10. tree = BestOf(chain) => tree \in RootsOf(chain)
    BY DEF BestOf, RootsOf, Good
<1>11. \A s \in Trees : Shows(ab[1][s], TipHas(s)) <=> s \in RootsOf(chain) \cup {tree}
  <2>1. \A s \in Trees : Shows(vAnchor[s], TipHas(s)) <=> s \in RootsOf(chain)
    BY <1>3 DEF ViewHas
  <2> QED  BY <1>4, <1>7, <1>8, <1>10, <2>1, Zenon DEF Shows
<1> HIDE DEF ab
<1>12. /\ tNf' \in NfMap /\ tAnchor' \in AnchorMap /\ tBest' = ab[2] /\ TipClean'
       /\ \A n \in Nullifiers : TipSpent(n)' <=> Shows(vNf[n], TipSpent(n))
       /\ \A s \in Trees : TipHas(s)' <=> Shows(ab[1][s], TipHas(s))
       /\ vNf' = NoNfs /\ vAnchor' = NoAnchors /\ vBest' = NullRoot
    BY <1>1, <1>4, <1>8, <1>9, FlushViewFacts, Zenon DEF Types, ViewClean
<1>13. vNf' \in NfMap /\ vAnchor' \in AnchorMap /\ ViewClean'
    BY <1>12, EmptyViewNext, Zenon
<1>14. Types'
    BY <1>1, <1>2, <1>4, <1>8, <1>12, <1>13, EmptyTree, Zenon DEF Types
<1>15. TipBest' = tree
    BY <1>4, <1>8, <1>12, BestFacts DEF TipBest
<1>16. TipIsChain'
    BY <1>3, <1>6, <1>11, <1>12, <1>15, Zenon DEF TipIsChain, ViewSpent
<1>17. ViewInv'
    BY <1>1, <1>12, Zenon DEF ViewInv
<1> QED  BY <1>2, <1>6, <1>12, <1>13, <1>14, <1>16, <1>17, Zenon

\* The view of a rejected block is dropped.
LEMMA AbandonInv ==
    ASSUME IndInv, Abandon
    PROVE  IndInv'
<1> USE DEF IndInv
<1>1. /\ mode' = "closed" /\ tree' = EmptyRoot /\ nfs' = {}
      /\ vNf' = NoNfs /\ vAnchor' = NoAnchors /\ vBest' = NullRoot
      /\ tNf' = tNf /\ tAnchor' = tAnchor /\ tBest' = tBest
      /\ UNCHANGED diskVars /\ chain' = chain
    BY DEF Abandon, tipVars
<1>2. DiskIsChain' /\ Good(dChain)' /\ dNf' = dNf /\ dAnchor' = dAnchor /\ dBest' = dBest
    BY <1>1, DiskKept
<1>3. vNf' \in NfMap /\ vAnchor' \in AnchorMap /\ ViewClean'
    BY <1>1, EmptyViewNext
<1>4. Types'
    BY <1>1, <1>2, <1>3, EmptyTree DEF Types
<1>5. TipClean'
    BY <1>1, <1>2 DEF TipClean, DiskHas
<1>6. TipIsChain'
    BY <1>1, <1>2 DEF TipIsChain, TipSpent, TipHas, TipBest, DiskHas
<1>7. ViewInv'
    BY <1>1 DEF ViewInv
<1> QED  BY <1>1, <1>2, <1>3, <1>4, <1>5, <1>6, <1>7

\* DisconnectTip: what the last block spent is unspent, and its anchor is
\* popped, which no block below it has.
LEMMA DisconnectInv ==
    ASSUME IndInv, Disconnect
    PROVE  IndInv'
<1> USE DEF IndInv
<1> DEFINE b == chain[Len(chain)]
           nf == [n \in Nullifiers |-> IF n \in b.nfs THEN Entry(FALSE, TRUE) ELSE NoEntry]
           ab == PopAnchor(OldRoot)
<1>1. /\ mode = "closed" /\ Len(chain) > 0 /\ FlushView(nf, ab)
      /\ chain' = SubSeq(chain, 1, Len(chain) - 1)
      /\ mode' = mode /\ tree' = tree /\ nfs' = nfs /\ UNCHANGED diskVars
    BY DEF Disconnect
<1>2. DiskIsChain' /\ Good(dChain)' /\ dNf' = dNf /\ dAnchor' = dAnchor /\ dBest' = dBest
    BY <1>1, DiskKept
<1>3. vNf = NoNfs /\ vAnchor = NoAnchors /\ vBest = NullRoot
    BY <1>1 DEF ViewInv
<1>4. /\ Good(chain') /\ SpentIn(chain') = SpentIn(chain) \ b.nfs
      /\ RootsOf(chain') = IF b.tree = OldRoot THEN RootsOf(chain) ELSE RootsOf(chain) \ {b.tree}
      /\ BestOf(chain') = OldRoot /\ BestOf(chain) = b.tree /\ OldRoot \in Trees /\ b \in Block
    BY <1>1, FrontChain, Zenon DEF OldRoot
<1>5. ViewBest = b.tree /\ b.tree \in Trees
    BY <1>3, <1>4 DEF ViewBest, TipIsChain, Block
<1>6. /\ Entry(FALSE, TRUE) \in Entries /\ Entry(FALSE, TRUE) # NoEntry
      /\ ~Entry(FALSE, TRUE).entered /\ Entry(FALSE, TRUE).dirty
    BY EntryParts, Zenon DEF Entries
<1>7. /\ nf \in NfMap
      /\ \A n \in Nullifiers : nf[n] = IF n \in b.nfs THEN Entry(FALSE, TRUE) ELSE NoEntry
    BY <1>6, Zenon DEF NfMap, Entries
<1>8. /\ ab[1] \in AnchorMap /\ ab[2] = OldRoot
      /\ \A s \in Trees : ab[1][s] = IF s = b.tree /\ b.tree # OldRoot
                                     THEN Entry(FALSE, TRUE) ELSE NoEntry
  <2>1. CASE b.tree = OldRoot
    BY <1>3, <1>5, <2>1 DEF PopAnchor, NoAnchors, AnchorMap, Entries
  <2>2. CASE b.tree # OldRoot
    BY <1>3, <1>5, <1>6, <2>2, Zenon DEF PopAnchor, NoAnchors, AnchorMap, Entries
  <2> QED  BY <2>1, <2>2, Zenon
<1> HIDE DEF ab, nf, b
<1>9. /\ \A n \in Nullifiers : Clean(nf[n], TipSpent(n))
      /\ \A s \in Trees : Clean(ab[1][s], TipHas(s))
    BY <1>6, <1>7, <1>8, Zenon DEF Clean
<1>10. /\ tNf' \in NfMap /\ tAnchor' \in AnchorMap /\ tBest' = ab[2] /\ TipClean'
       /\ \A n \in Nullifiers : TipSpent(n)' <=> Shows(nf[n], TipSpent(n))
       /\ \A s \in Trees : TipHas(s)' <=> Shows(ab[1][s], TipHas(s))
       /\ vNf' = NoNfs /\ vAnchor' = NoAnchors /\ vBest' = NullRoot
    BY <1>1, <1>4, <1>7, <1>8, <1>9, FlushViewFacts, Zenon
<1>11. vNf' \in NfMap /\ vAnchor' \in AnchorMap /\ ViewClean'
    BY <1>10, EmptyViewNext
<1>12. Types'
    BY <1>1, <1>2, <1>4, <1>8, <1>10, <1>11, Zenon DEF Types
<1>13. TipBest' = OldRoot
    BY <1>4, <1>8, <1>10, BestFacts DEF TipBest
<1>14. \A n \in Nullifiers : TipSpent(n)' <=> n \in SpentIn(chain')
    BY <1>4, <1>6, <1>7, <1>10, Zenon DEF TipIsChain, Shows
<1>15. \A s \in Trees : TipHas(s)' <=> s \in RootsOf(chain')
    BY <1>4, <1>6, <1>8, <1>10, Zenon DEF TipIsChain, Shows
<1>16. TipIsChain'
    BY <1>4, <1>13, <1>14, <1>15 DEF TipIsChain
<1>17. ViewInv'
    BY <1>1, <1>10, Zenon DEF ViewInv
<1> QED  BY <1>2, <1>4, <1>10, <1>11, <1>12, <1>16, <1>17

\* pcoinsTip is written to the database, which then shows the active chain.
LEMMA FlushTipInv ==
    ASSUME IndInv, FlushTip
    PROVE  IndInv'
<1> USE DEF IndInv
<1>1. /\ mode = "closed" /\ mode' = mode /\ tree' = tree /\ nfs' = nfs
      /\ dNf' = [n \in Nullifiers |-> Written(dNf[n], tNf[n])]
      /\ dAnchor' = [r \in Trees |-> r # EmptyRoot /\ Written(dAnchor[r], tAnchor[r])]
      /\ dBest' = TipBest /\ dChain' = chain /\ chain' = chain
      /\ tNf' = NoNfs /\ tAnchor' = NoAnchors /\ tBest' = tBest
      /\ vNf' = vNf /\ vAnchor' = vAnchor /\ vBest' = vBest
    BY DEF FlushTip, viewVars
<1>2. vNf' = NoNfs /\ vAnchor' = NoAnchors /\ vBest' = NullRoot
    BY <1>1 DEF ViewInv
<1>3. vNf' \in NfMap /\ vAnchor' \in AnchorMap /\ ViewClean'
    BY <1>2, EmptyViewNext
<1>4. ASSUME NEW n \in Nullifiers
      PROVE  dNf'[n] \in BOOLEAN /\ (dNf'[n] <=> TipSpent(n))
  <2>1. tNf[n] \in Entries /\ dNf[n] \in BOOLEAN /\ Clean(tNf[n], dNf[n])
    BY DEF Types, NfMap, TipClean
  <2> QED  BY <1>1, <2>1, WrittenFacts DEF TipSpent
<1>5. ASSUME NEW r \in Trees
      PROVE  dAnchor'[r] \in BOOLEAN /\ (r # EmptyRoot => (dAnchor'[r] <=> TipHas(r)))
  <2>1. dAnchor'[r] = (r # EmptyRoot /\ Written(dAnchor[r], tAnchor[r]))
    BY <1>1
  <2>2. CASE r # EmptyRoot
    <3>1. tAnchor[r] \in Entries /\ dAnchor[r] \in BOOLEAN /\ DiskHas(r) = dAnchor[r]
        BY <2>2 DEF Types, AnchorMap, DiskHas
    <3>2. Clean(tAnchor[r], dAnchor[r])
        BY <3>1 DEF TipClean
    <3> QED  BY <2>1, <2>2, <3>1, <3>2, WrittenFacts DEF TipHas
  <2> QED  BY <2>1, <2>2
<1>6. dNf' \in [Nullifiers -> BOOLEAN] /\ dAnchor' \in [Trees -> BOOLEAN]
    BY <1>1, <1>4, <1>5
<1>7. tNf' \in NfMap /\ tAnchor' \in AnchorMap /\ TipClean'
    BY <1>1, Zenon DEF NoNfs, NoAnchors, NfMap, AnchorMap, Entries, TipClean, Clean
<1>8. Types'
    BY <1>1, <1>3, <1>6, <1>7, BestFacts, Zenon DEF Types
<1>9. \A r \in Trees : DiskHas(r)' <=> r \in RootsOf(chain)
    BY <1>5 DEF DiskHas, TipIsChain, RootsOf
<1>10. DiskIsChain'
    BY <1>1, <1>4, <1>9 DEF DiskIsChain, TipIsChain
<1>11. /\ \A n \in Nullifiers : TipSpent(n)' <=> dNf'[n]
       /\ \A r \in Trees : TipHas(r)' <=> DiskHas(r)'
    BY <1>1 DEF TipSpent, TipHas, Shows, NoNfs, NoAnchors
<1>12. TipBest' = TipBest
    BY <1>1 DEF TipBest
<1>13. TipIsChain'
    BY <1>1, <1>4, <1>9, <1>11, <1>12 DEF TipIsChain
<1>14. ViewInv'
    BY <1>1, <1>2, Zenon DEF ViewInv
<1> QED  BY <1>1, <1>3, <1>7, <1>8, <1>10, <1>13, <1>14, Zenon

\* A restart: the caches are gone, and the chain is the one of the database.
LEMMA CrashInv ==
    ASSUME IndInv, Crash
    PROVE  IndInv'
<1> USE DEF IndInv
<1>1. /\ mode' = "closed" /\ tree' = EmptyRoot /\ nfs' = {}
      /\ vNf' = NoNfs /\ vAnchor' = NoAnchors /\ vBest' = NullRoot
      /\ tNf' = NoNfs /\ tAnchor' = NoAnchors /\ tBest' = NullRoot
      /\ chain' = dChain /\ UNCHANGED diskVars
    BY DEF Crash
<1>2. /\ DiskIsChain' /\ Good(dChain)'
      /\ dNf' = dNf /\ dAnchor' = dAnchor /\ dBest' = dBest /\ dChain' = dChain
    BY <1>1, DiskKept
<1>3. vNf' \in NfMap /\ vAnchor' \in AnchorMap /\ ViewClean'
    BY <1>1, EmptyViewNext
<1>4. tNf' \in NfMap /\ tAnchor' \in AnchorMap /\ TipClean'
    BY <1>1 DEF NoNfs, NoAnchors, NfMap, AnchorMap, Entries, TipClean, Clean
<1>5. Types'
    BY <1>1, <1>2, <1>3, <1>4, EmptyTree DEF Types
<1>6. /\ \A n \in Nullifiers : TipSpent(n)' <=> dNf'[n]
      /\ \A r \in Trees : TipHas(r)' <=> DiskHas(r)'
    BY <1>1 DEF TipSpent, TipHas, Shows, NoNfs, NoAnchors
<1>7. TipBest' = dBest'
    BY <1>1 DEF TipBest
<1>8. TipIsChain'
    BY <1>1, <1>2, <1>6, <1>7 DEF TipIsChain, DiskIsChain
<1>9. ViewInv'
    BY <1>1 DEF ViewInv
<1> QED  BY <1>1, <1>2, <1>3, <1>4, <1>5, <1>8, <1>9

\* A step that changes nothing.
LEMMA StutterInv ==
    ASSUME IndInv, UNCHANGED vars
    PROVE  IndInv'
<1> USE DEF IndInv
<1>1. /\ mode' = mode /\ tree' = tree /\ nfs' = nfs
      /\ vNf' = vNf /\ vAnchor' = vAnchor /\ vBest' = vBest
      /\ tNf' = tNf /\ tAnchor' = tAnchor /\ tBest' = tBest
      /\ UNCHANGED diskVars /\ chain' = chain
    BY DEF vars, viewVars, tipVars
<1>2. DiskIsChain' /\ Good(dChain)' /\ dNf' = dNf /\ dAnchor' = dAnchor /\ dBest' = dBest
    BY <1>1, DiskKept
<1>3. Types'
    BY <1>1, <1>2 DEF Types
<1>4. /\ \A n \in Nullifiers : TipSpent(n)' = TipSpent(n)
      /\ \A r \in Trees : DiskHas(r)' = DiskHas(r) /\ TipHas(r)' = TipHas(r)
    BY <1>1, <1>2 DEF TipSpent, TipHas, DiskHas
<1>5. /\ \A n \in Nullifiers : ViewSpent(n)' = ViewSpent(n)
      /\ \A r \in Trees : ViewHas(r)' = ViewHas(r)
    BY <1>1, <1>4 DEF ViewSpent, ViewHas
<1>6. TipClean' /\ ViewClean'
    BY <1>1, <1>2, <1>4 DEF TipClean, ViewClean
<1>7. TipIsChain'
    BY <1>1, <1>2, <1>4 DEF TipIsChain, TipBest
<1>8. ViewInv'
    BY <1>1, <1>5 DEF ViewInv
<1> QED  BY <1>1, <1>2, <1>3, <1>6, <1>7, <1>8

\* Every reachable state satisfies the inductive invariant.
THEOREM Invariance == Spec => []IndInv
<1>1. IndInv /\ [Next]_vars => IndInv'
  <2> SUFFICES ASSUME IndInv, [Next]_vars PROVE IndInv'
    OBVIOUS
  <2>1. ASSUME NEW n \in Nullifiers, NEW r \in Trees, TipRead(n, r) PROVE IndInv'
    BY <2>1, TipReadInv
  <2>2. ASSUME NEW N \in SUBSET Nullifiers, NEW r \in Trees, NEW c \in Trees, ConnectTx(N, r, c)
        PROVE  IndInv'
    BY <2>2, ConnectTxInv
  <2>3. CASE StartConnect \/ EndConnect \/ Abandon
    BY <2>3, StartConnectInv, EndConnectInv, AbandonInv
  <2>4. CASE Disconnect \/ FlushTip \/ Crash
    BY <2>4, DisconnectInv, FlushTipInv, CrashInv
  <2>5. CASE UNCHANGED vars
    BY <2>5, StutterInv
  <2> QED  BY <2>1, <2>2, <2>3, <2>4, <2>5 DEF Next
<1> QED  BY <1>1, InitInv, PTL DEF Spec

\* Whatever is read, flushed, reorganised or lost in a crash, pcoinsTip shows
\* exactly the nullifiers and anchors of the active chain.
THEOREM TipIsChainHolds == Spec => []TipIsChain
<1>1. IndInv => TipIsChain
    BY DEF IndInv
<1> QED  BY <1>1, Invariance, PTL

\* The database shows exactly those of the chain it was flushed at.
THEOREM DiskIsChainHolds == Spec => []DiskIsChain
<1>1. IndInv => DiskIsChain
    BY DEF IndInv
<1> QED  BY <1>1, Invariance, PTL

\* No nullifier is revealed twice on the active chain.
THEOREM NoDoubleSpendHolds == Spec => []NoDoubleSpend
<1>1. IndInv => NoDoubleSpend
    BY DEF IndInv, Good, NoDoubleSpend
<1> QED  BY <1>1, Invariance, PTL

\* ConnectBlock's asserts hold: every layer knows the tree of its best anchor.
THEOREM BestAnchorKnownHolds == Spec => []BestAnchorKnown
<1>1. ASSUME NEW c, Good(c) PROVE BestOf(c) \in RootsOf(c)
    BY DEF Good, BestOf, RootsOf
<1>2. IndInv => BestAnchorKnown
  <2> SUFFICES ASSUME IndInv PROVE BestAnchorKnown
    OBVIOUS
  <2> USE DEF IndInv
  <2>1. DiskHas(dBest)
    BY <1>1 DEF DiskIsChain, Types
  <2>2. TipHas(TipBest)
    BY <1>1, BestFacts DEF TipIsChain
  <2>3. CASE mode = "closed"
    <3>1. vNf = NoNfs /\ vAnchor = NoAnchors /\ vBest = NullRoot
        BY <2>3 DEF ViewInv
    <3> QED  BY <2>1, <2>2, <3>1, EmptyView, BestFacts DEF BestAnchorKnown, ViewBest
  <2>4. CASE mode = "connect"
    <3>1. vBest = BestOf(chain) /\ \A r \in Trees : ViewHas(r) <=> r \in RootsOf(chain)
        BY <2>4 DEF ViewInv
    <3>2. ViewBest = BestOf(chain) /\ ViewBest \in Trees
        BY <3>1, BestFacts DEF ViewBest, TipIsChain
    <3> QED  BY <1>1, <2>1, <2>2, <3>1, <3>2 DEF BestAnchorKnown
  <2> QED  BY <2>3, <2>4 DEF Types
<1> QED  BY <1>2, Invariance, PTL
=============================================================================
