-------------------------- MODULE CoinsCacheProofs --------------------------
(***************************************************************************)
(* Proofs about CoinsCache, for any sets of transactions, outputs and      *)
(* blocks: IndInv is inductive, and under it every step of the layered     *)
(* caches is a step, or a stutter, of the flat CoinsView.                  *)
(***************************************************************************)
EXTENDS CoinsCache, TLAPS

USE NoEntryIsNoEntry

\* An entry built by Entry() is an entry, and has the parts it was given.
LEMMA EntryParts ==
    ASSUME NEW c \in SUBSET Outputs, NEW f \in SUBSET Flags
    PROVE  /\ Entry(c, f) \in CCoinsCacheEntry
           /\ Entry(c, f) # NoEntry
           /\ Entry(c, f).coins = c
           /\ Entry(c, f).flags = f
BY DEF Entry, CCoinsCacheEntry

\* Asking pcoinsTip changes nothing that a reader can see, and afterwards it
\* holds everything asked for that the database has.
LEMMA TipFetchedFacts ==
    ASSUME IndInv, NEW S \in SUBSET Txids
    PROVE  LET F == TipFetched(S) IN
           /\ F \in Cache
           /\ \A t \in Txids :
                 /\ tip[t] # NoEntry => F[t] = tip[t]
                 /\ t \notin S => F[t] = tip[t]
                 /\ t \in S /\ F[t] = NoEntry => disk[t] = {}
                 /\ tip[t] = NoEntry /\ F[t] # NoEntry =>
                       F[t].coins = disk[t] /\ F[t].flags = {} /\ disk[t] # {}
                 /\ (IF F[t] = NoEntry THEN disk[t] ELSE F[t].coins) = TipCoins[t]
<1>1. ASSUME NEW t \in Txids PROVE FetchCoins(tip[t], disk[t] # {}, disk[t]) =
            IF tip[t] # NoEntry \/ disk[t] = {} THEN tip[t] ELSE Entry(disk[t], {})
    BY DEF FetchCoins
<1>2. \A t \in Txids : /\ disk[t] \in SUBSET Outputs
                       /\ tip[t] \in CCoinsCacheEntry \cup {NoEntry}
    BY DEF IndInv, TypeOK, Cache
<1>3. \A t \in Txids : /\ Entry(disk[t], {}) \in CCoinsCacheEntry
                       /\ Entry(disk[t], {}) # NoEntry
                       /\ Entry(disk[t], {}).coins = disk[t]
                       /\ Entry(disk[t], {}).flags = {}
    BY <1>2, EntryParts DEF Flags
<1>4. \A t \in Txids : TipFetched(S)[t] =
          IF t \in S /\ tip[t] = NoEntry /\ disk[t] # {} THEN Entry(disk[t], {}) ELSE tip[t]
    BY <1>1 DEF TipFetched
<1>5. TipFetched(S) \in Cache
  <2>1. TipFetched(S) = [t \in Txids |-> TipFetched(S)[t]]
    BY DEF TipFetched
  <2>2. \A t \in Txids : TipFetched(S)[t] \in CCoinsCacheEntry \cup {NoEntry}
    BY <1>2, <1>3, <1>4
  <2> QED  BY <2>1, <2>2 DEF Cache
<1> QED  BY <1>2, <1>3, <1>4, <1>5 DEF TipCoins


\* The part of IndInv that reading and modifying the view must keep.
Layers ==
    /\ view \in Cache /\ tip \in Cache
    /\ FreshIsFresh
    /\ CleanAgrees
    /\ \A t \in Txids : view[t] # NoEntry /\ tip[t] = NoEntry =>
                            "FRESH" \in view[t].flags /\ disk[t] = {}

\* Reading through the view keeps the layers sound and is invisible; the
\* database has no record that pcoinsTip was asked for and does not hold.
LEMMA ViewFetchFacts ==
    ASSUME IndInv, NEW S \in SUBSET Txids, ViewFetch(S), disk' = disk
    PROVE  /\ Layers'
           /\ TipCoins' = TipCoins
           /\ ViewCoins' = ViewCoins
           /\ \A t \in S : tip'[t] = NoEntry /\ view[t] = NoEntry => disk[t] = {}
<1> DEFINE F == TipFetched(Missed(S))
<1>1. Missed(S) \in SUBSET Txids
    BY DEF Missed
<1>2. /\ F \in Cache
      /\ \A t \in Txids :
            /\ tip[t] # NoEntry => F[t] = tip[t]
            /\ t \notin Missed(S) => F[t] = tip[t]
            /\ t \in Missed(S) /\ F[t] = NoEntry => disk[t] = {}
            /\ tip[t] = NoEntry /\ F[t] # NoEntry =>
                  F[t].coins = disk[t] /\ F[t].flags = {} /\ disk[t] # {}
            /\ (IF F[t] = NoEntry THEN disk[t] ELSE F[t].coins) = TipCoins[t]
    BY <1>1, TipFetchedFacts
<1>3. tip' = F
    BY DEF ViewFetch
<1> HIDE DEF F
<1>4. TipCoins' = TipCoins
    BY <1>2, <1>3 DEF TipCoins
<1>5. \A t \in Txids : F[t] # NoEntry => F[t].coins \in SUBSET Outputs
    BY <1>2 DEF Cache, CCoinsCacheEntry
<1>6. \A t \in Txids : F[t] # NoEntry =>
         LET e == Entry(F[t].coins, IF F[t].coins = {} THEN {"FRESH"} ELSE {}) IN
         /\ e \in CCoinsCacheEntry /\ e # NoEntry
         /\ e.coins = F[t].coins
         /\ e.flags = (IF F[t].coins = {} THEN {"FRESH"} ELSE {})
    BY <1>5, EntryParts DEF Flags
<1>7. \A t \in Txids : view'[t] =
         IF t \in S /\ view[t] = NoEntry /\ F[t] # NoEntry
         THEN Entry(F[t].coins, IF F[t].coins = {} THEN {"FRESH"} ELSE {})
         ELSE view[t]
    BY DEF ViewFetch, FetchCoins, F
<1>8. view' = [t \in Txids |-> view'[t]]
    BY DEF ViewFetch
<1>9. /\ view \in Cache /\ tip \in Cache
      /\ \A t \in Txids : view[t] \in CCoinsCacheEntry \cup {NoEntry}
    BY DEF IndInv, TypeOK, Cache
<1>10. view' \in Cache /\ tip' \in Cache
  <2>1. \A t \in Txids : view'[t] \in CCoinsCacheEntry \cup {NoEntry}
    BY <1>6, <1>7, <1>9
  <2> QED  BY <2>1, <1>8, <1>2, <1>3 DEF Cache
<1>11. \A t \in Txids : F[t] # NoEntry => F[t].coins = TipCoins[t]
    BY <1>2
<1>12. ViewCoins' = ViewCoins
    BY <1>4, <1>6, <1>7, <1>11 DEF ViewCoins
<1>13. FreshIsFresh'
  <2>1. ASSUME NEW t \in Txids, tip'[t] # NoEntry, "FRESH" \in tip'[t].flags
        PROVE  disk[t] = {}
    BY <2>1, <1>2, <1>3 DEF IndInv, FreshIsFresh
  <2>2. ASSUME NEW t \in Txids, view'[t] # NoEntry, "FRESH" \in view'[t].flags
        PROVE  TipCoins[t] = {}
    BY <2>2, <1>6, <1>7, <1>11 DEF IndInv, FreshIsFresh
  <2> QED  BY <2>1, <2>2, <1>4 DEF FreshIsFresh
<1>14. CleanAgrees'
  <2>1. ASSUME NEW t \in Txids, tip'[t] # NoEntry, "DIRTY" \notin tip'[t].flags
        PROVE  tip'[t].coins = disk[t]
    BY <2>1, <1>2, <1>3 DEF IndInv, CleanAgrees
  <2>2. ASSUME NEW t \in Txids, view'[t] # NoEntry, "DIRTY" \notin view'[t].flags
        PROVE  view'[t].coins = TipCoins[t]
    BY <2>2, <1>6, <1>7, <1>11 DEF IndInv, CleanAgrees
  <2> QED  BY <2>1, <2>2, <1>4 DEF CleanAgrees
<1>15. ASSUME NEW t \in Txids, view'[t] # NoEntry, tip'[t] = NoEntry
       PROVE  "FRESH" \in view'[t].flags /\ disk[t] = {}
    BY <1>15, <1>2, <1>3, <1>7 DEF IndInv
<1>16. \A t \in S : tip'[t] = NoEntry /\ view[t] = NoEntry => disk[t] = {}
    BY <1>2, <1>3 DEF Missed
<1> QED  BY <1>4, <1>10, <1>12, <1>13, <1>14, <1>15, <1>16 DEF Layers

\* ModifyCoins changes what the view shows of its txid, and nothing else.
LEMMA ModifyCoinsFacts ==
    ASSUME IndInv, NEW u \in Txids, NEW c \in SUBSET Outputs, ModifyCoins(u, c),
           disk' = disk
    PROVE  /\ Layers'
           /\ TipCoins' = TipCoins
           /\ ViewCoins' = [ViewCoins EXCEPT ![u] = c]
           /\ \A t \in Txids : tip'[t] = NoEntry => tip[t] = NoEntry
<1> DEFINE F == TipFetched(Missed({u}))
           e == IF view[u] # NoEntry THEN view[u] ELSE EntryFromBase(F[u])
<1>1. Missed({u}) \in SUBSET Txids
    BY DEF Missed
<1>2. /\ F \in Cache
      /\ \A t \in Txids :
            /\ tip[t] # NoEntry => F[t] = tip[t]
            /\ t \notin Missed({u}) => F[t] = tip[t]
            /\ t \in Missed({u}) /\ F[t] = NoEntry => disk[t] = {}
            /\ tip[t] = NoEntry /\ F[t] # NoEntry =>
                  F[t].coins = disk[t] /\ F[t].flags = {} /\ disk[t] # {}
            /\ (IF F[t] = NoEntry THEN disk[t] ELSE F[t].coins) = TipCoins[t]
    BY <1>1, TipFetchedFacts, Zenon
<1>3. /\ tip' = F
      /\ view' = [view EXCEPT ![u] = Released(c, e.flags \cup {"DIRTY"})]
    BY DEF ModifyCoins
<1>4. view[u] = NoEntry => u \in Missed({u})
    BY DEF Missed
<1> HIDE DEF F
<1>5. TipCoins' = TipCoins
    BY <1>2, <1>3 DEF TipCoins
<1>6. /\ view \in Cache
      /\ \A t \in Txids : view[t] \in CCoinsCacheEntry \cup {NoEntry}
    BY DEF IndInv, TypeOK, Cache
<1>7. /\ e.flags \in SUBSET Flags
      /\ "FRESH" \in e.flags => TipCoins[u] = {}
      /\ F[u] = NoEntry => "FRESH" \in e.flags /\ disk[u] = {}
  <2>1. CASE view[u] # NoEntry
    <3>1. view[u] \in CCoinsCacheEntry
        BY <2>1, <1>6
    <3>2. e = view[u] /\ view[u].flags \in SUBSET Flags
        BY <2>1, <3>1 DEF CCoinsCacheEntry
    <3>3. F[u] = NoEntry => tip[u] = NoEntry
        BY <1>2
    <3> QED  BY <2>1, <3>2, <3>3 DEF IndInv, FreshIsFresh
  <2>2. CASE view[u] = NoEntry
    <3>1. CASE F[u] = NoEntry
      <4>1. e = Entry({}, {"FRESH"})
        BY <2>2, <3>1 DEF EntryFromBase
      <4>2. e.flags = {"FRESH"}
        BY <4>1, EntryParts DEF Flags
      <4> QED  BY <4>2, <3>1, <2>2, <1>2, <1>4 DEF Flags
    <3>2. CASE F[u] # NoEntry
      <4>1. F[u].coins \in SUBSET Outputs
        BY <3>2, <1>2 DEF Cache, CCoinsCacheEntry
      <4>2. e = Entry(F[u].coins, IF F[u].coins = {} THEN {"FRESH"} ELSE {})
        BY <2>2, <3>2 DEF EntryFromBase
      <4>3. e.flags = IF F[u].coins = {} THEN {"FRESH"} ELSE {}
        BY <4>1, <4>2, EntryParts DEF Flags
      <4> QED  BY <4>3, <3>2, <1>2 DEF Flags
    <3> QED  BY <3>1, <3>2
  <2> QED  BY <2>1, <2>2
<1> HIDE DEF e
<1>8. LET r == Released(c, e.flags \cup {"DIRTY"}) IN
      /\ r \in CCoinsCacheEntry \cup {NoEntry}
      /\ r = NoEntry => c = {} /\ "FRESH" \in e.flags
      /\ r # NoEntry => r.coins = c /\ r.flags = e.flags \cup {"DIRTY"}
    BY <1>7, EntryParts DEF Released, Flags
<1> DEFINE r == Released(c, e.flags \cup {"DIRTY"})
<1>9. \A t \in Txids : view'[t] = IF t = u THEN r ELSE view[t]
    BY <1>3, <1>6 DEF Cache
<1>10. view' \in Cache /\ tip' \in Cache
    BY <1>2, <1>3, <1>6, <1>8 DEF Cache
<1> HIDE DEF r
<1>11. /\ r = NoEntry => c = {} /\ "FRESH" \in e.flags
       /\ r # NoEntry => r.coins = c /\ r.flags = e.flags \cup {"DIRTY"}
    BY <1>8 DEF r
<1>12. ViewCoins' = [ViewCoins EXCEPT ![u] = c]
    BY <1>5, <1>7, <1>9, <1>11, Zenon DEF ViewCoins
<1>13. FreshIsFresh'
  <2>1. ASSUME NEW t \in Txids, tip'[t] # NoEntry, "FRESH" \in tip'[t].flags
        PROVE  disk[t] = {}
    BY <2>1, <1>2, <1>3 DEF IndInv, FreshIsFresh
  <2>2. ASSUME NEW t \in Txids, view'[t] # NoEntry, "FRESH" \in view'[t].flags
        PROVE  TipCoins[t] = {}
    <3>1. CASE t = u  BY <3>1, <2>2, <1>7, <1>9, <1>11
    <3>2. CASE t # u  BY <3>2, <2>2, <1>9 DEF IndInv, FreshIsFresh
    <3> QED  BY <3>1, <3>2
  <2> QED  BY <2>1, <2>2, <1>5 DEF FreshIsFresh
<1>14. CleanAgrees'
  <2>1. ASSUME NEW t \in Txids, tip'[t] # NoEntry, "DIRTY" \notin tip'[t].flags
        PROVE  tip'[t].coins = disk[t]
    BY <2>1, <1>2, <1>3 DEF IndInv, CleanAgrees
  <2>2. ASSUME NEW t \in Txids, view'[t] # NoEntry, "DIRTY" \notin view'[t].flags
        PROVE  view'[t].coins = TipCoins[t]
    <3>1. CASE t = u  BY <3>1, <2>2, <1>9, <1>11
    <3>2. CASE t # u  BY <3>2, <2>2, <1>9 DEF IndInv, CleanAgrees
    <3> QED  BY <3>1, <3>2
  <2> QED  BY <2>1, <2>2, <1>5 DEF CleanAgrees
<1>15. ASSUME NEW t \in Txids, view'[t] # NoEntry, tip'[t] = NoEntry
       PROVE  "FRESH" \in view'[t].flags /\ disk[t] = {}
  <2>1. CASE t = u  BY <2>1, <1>15, <1>3, <1>7, <1>9, <1>11, Zenon
  <2>2. CASE t # u  BY <2>2, <1>15, <1>2, <1>3, <1>9 DEF IndInv
  <2> QED  BY <2>1, <2>2
<1>16. \A t \in Txids : tip'[t] = NoEntry => tip[t] = NoEntry
    BY <1>2, <1>3
<1> QED  BY <1>5, <1>10, <1>12, <1>13, <1>14, <1>15, <1>16 DEF Layers


\* Flushing the view into pcoinsTip moves what the view shows, exactly.
LEMMA CommitFacts ==
    ASSUME IndInv, NEW b \in Blocks, CommitBlock(b)
    PROVE  /\ Layers'
           /\ TipCoins' = ViewCoins
           /\ ViewCoins' = ViewCoins
<1>1. /\ disk' = disk /\ view' = Empty
      /\ tip' = [t \in Txids |-> MovedUp(tip[t], view[t])]
    BY DEF CommitBlock
<1>2. ASSUME NEW t \in Txids
      PROVE  /\ view[t] # NoEntry => /\ view[t].coins \in SUBSET Outputs
                                     /\ view[t].flags \in SUBSET Flags
             /\ tip[t] # NoEntry => /\ tip[t].coins \in SUBSET Outputs
                                    /\ tip[t].flags \in SUBSET Flags
             /\ tip[t] \in CCoinsCacheEntry \cup {NoEntry}
    BY DEF IndInv, TypeOK, Cache, CCoinsCacheEntry
<1>3. ASSUME NEW t \in Txids
      PROVE  LET m == MovedUp(tip[t], view[t]) IN
             /\ m \in CCoinsCacheEntry \cup {NoEntry}
             /\ m = NoEntry => disk[t] = ViewCoins[t]
             /\ m # NoEntry =>
                   /\ m.coins = ViewCoins[t]
                   /\ "FRESH" \in m.flags => disk[t] = {}
                   /\ "DIRTY" \notin m.flags => m.coins = disk[t]
  <2> DEFINE m == MovedUp(tip[t], view[t])
  <2>1. CASE view[t] = NoEntry \/ "DIRTY" \notin view[t].flags
    <3>1. m = tip[t]
        BY <2>1 DEF MovedUp
    <3>2. ViewCoins[t] = TipCoins[t]
        BY <2>1 DEF ViewCoins, IndInv, CleanAgrees
    <3> QED  BY <3>1, <3>2, <1>2 DEF TipCoins, IndInv, FreshIsFresh, CleanAgrees
  <2>2. CASE view[t] # NoEntry /\ "DIRTY" \in view[t].flags
    <3>1. ViewCoins[t] = view[t].coins
        BY <2>2 DEF ViewCoins
    <3>2. CASE tip[t] = NoEntry
      <4>1. disk[t] = {}
        BY <2>2, <3>2 DEF IndInv
      <4>2. CASE view[t].coins = {}
        <5>1. m = NoEntry
            BY <2>2, <3>2, <4>2 DEF MovedUp
        <5> QED  BY <5>1, <4>1, <4>2, <3>1
      <4>3. CASE view[t].coins # {}
        <5>1. m = Entry(view[t].coins, Flags)
            BY <2>2, <3>2, <4>3 DEF MovedUp
        <5>2. /\ m \in CCoinsCacheEntry /\ m # NoEntry
              /\ m.coins = view[t].coins /\ m.flags = Flags
            BY <5>1, <2>2, <1>2, EntryParts
        <5> QED  BY <5>2, <4>1, <3>1 DEF Flags
      <4> QED  BY <4>2, <4>3
    <3>3. CASE tip[t] # NoEntry /\ "FRESH" \in tip[t].flags /\ view[t].coins = {}
      <4>1. m = NoEntry
        BY <2>2, <3>3 DEF MovedUp
      <4> QED  BY <4>1, <3>1, <3>3 DEF IndInv, FreshIsFresh
    <3>4. CASE tip[t] # NoEntry /\ ~("FRESH" \in tip[t].flags /\ view[t].coins = {})
      <4>1. m = Entry(view[t].coins, tip[t].flags \cup {"DIRTY"})
        BY <2>2, <3>4 DEF MovedUp
      <4>2. /\ m \in CCoinsCacheEntry /\ m # NoEntry
            /\ m.coins = view[t].coins /\ m.flags = tip[t].flags \cup {"DIRTY"}
        BY <4>1, <2>2, <3>4, <1>2, EntryParts DEF Flags
      <4> QED  BY <4>2, <3>1, <3>4 DEF IndInv, FreshIsFresh
    <3> QED  BY <3>2, <3>3, <3>4
  <2> QED  BY <2>1, <2>2
<1>4. \A t \in Txids :
             /\ tip'[t] \in CCoinsCacheEntry \cup {NoEntry}
             /\ tip'[t] = NoEntry => disk[t] = ViewCoins[t]
             /\ tip'[t] # NoEntry =>
                   /\ tip'[t].coins = ViewCoins[t]
                   /\ "FRESH" \in tip'[t].flags => disk[t] = {}
                   /\ "DIRTY" \notin tip'[t].flags => tip'[t].coins = disk[t]
    BY <1>1, <1>3
<1>5. tip' \in Cache /\ view' \in Cache /\ \A t \in Txids : view'[t] = NoEntry
    BY <1>1, <1>4 DEF Cache, Empty
<1>6. TipCoins' = ViewCoins
    BY <1>1, <1>4 DEF TipCoins, ViewCoins
<1>7. ViewCoins' = ViewCoins
    BY <1>5, <1>6 DEF ViewCoins
<1>8. FreshIsFresh' /\ CleanAgrees'
    BY <1>1, <1>4, <1>5 DEF FreshIsFresh, CleanAgrees
<1> QED  BY <1>5, <1>6, <1>7, <1>8 DEF Layers

\* Writing pcoinsTip out and emptying it changes nothing a reader can see,
\* and leaves on disk what pcoinsTip showed.
LEMMA FlushTipFacts ==
    ASSUME IndInv, FlushTip
    PROVE  /\ Layers'
           /\ disk' = TipCoins
           /\ disk' \in [Txids -> SUBSET Outputs]
           /\ TipCoins' = TipCoins
           /\ ViewCoins' = ViewCoins
           /\ TipBest' = TipBest
           /\ diskBest' = TipBest
<1>1. /\ disk' = [t \in Txids |-> Written(disk[t], tip[t])]
      /\ tip' = Empty /\ view' = view /\ view = Empty
      /\ diskBest' = TipBest /\ tipBest' = tipBest
    BY DEF FlushTip, IndInv, TypeOK
<1>2. \A t \in Txids : Written(disk[t], tip[t]) = TipCoins[t]
    BY DEF Written, TipCoins, IndInv, CleanAgrees
<1>3. disk' = TipCoins
    BY <1>1, <1>2 DEF TipCoins
<1>4. TipCoins \in [Txids -> SUBSET Outputs]
    BY DEF TipCoins, IndInv, TypeOK, Cache, CCoinsCacheEntry
<1>5. /\ \A t \in Txids : tip'[t] = NoEntry /\ view'[t] = NoEntry /\ view[t] = NoEntry
      /\ tip' \in Cache /\ view' \in Cache
    BY <1>1 DEF Empty, Cache
<1>6. TipCoins' = TipCoins
    BY <1>3, <1>5 DEF TipCoins
<1>7. ViewCoins' = ViewCoins
    BY <1>5, <1>6 DEF ViewCoins
<1>8. FreshIsFresh' /\ CleanAgrees'
    BY <1>5 DEF FreshIsFresh, CleanAgrees
<1>9. TipBest' = TipBest
    BY <1>1 DEF TipBest
<1> QED  BY <1>1, <1>3, <1>4, <1>5, <1>6, <1>7, <1>8, <1>9 DEF Layers

\* The initial state: empty caches over an empty database.
LEMMA InitIndInv == Init => IndInv
<1> SUFFICES ASSUME Init PROVE IndInv
    OBVIOUS
<1>1. \A t \in Txids : view[t] = NoEntry /\ tip[t] = NoEntry
    BY DEF Init, Empty
<1>2. FreshIsFresh /\ CleanAgrees
    BY <1>1 DEF FreshIsFresh, CleanAgrees
<1>3. TypeOK
    BY DEF Init, Empty, TypeOK, Cache
<1> QED  BY <1>1, <1>2, <1>3 DEF IndInv, Init


\* Best blocks and types that every step below starts from.
LEMMA Types ==
    ASSUME IndInv
    PROVE  /\ TipBest \in Blocks \cup {NullHash}
           /\ TipCoins \in [Txids -> SUBSET Outputs]
           /\ ViewCoins \in [Txids -> SUBSET Outputs]
           /\ mode = "closed" => ViewCoins = TipCoins
<1>1. TipBest \in Blocks \cup {NullHash}
    BY DEF TipBest, IndInv, TypeOK
<1>2. TipCoins \in [Txids -> SUBSET Outputs]
    BY DEF TipCoins, IndInv, TypeOK, Cache, CCoinsCacheEntry
<1>3. ViewCoins \in [Txids -> SUBSET Outputs]
    BY <1>2 DEF ViewCoins, IndInv, TypeOK, Cache, CCoinsCacheEntry
<1>4. mode = "closed" => ViewCoins = TipCoins
    BY DEF IndInv, TypeOK, Empty, ViewCoins, TipCoins
<1> QED  BY <1>1, <1>2, <1>3, <1>4

\* A step that only modifies one txid of the view, not one still to be added.
LEMMA ModifyStep ==
    ASSUME IndInv, mode # "closed", NEW u \in Txids, NEW c \in SUBSET Outputs,
           u \notin new,
           ModifyCoins(u, c), UNCHANGED <<mode, new, tipBest, disk, diskBest>>
    PROVE  IndInv' /\ Flat!Update(u)
<1>1. /\ Layers' /\ TipCoins' = TipCoins
      /\ ViewCoins' = [ViewCoins EXCEPT ![u] = c]
      /\ \A t \in Txids : tip'[t] = NoEntry => tip[t] = NoEntry
    BY ModifyCoinsFacts
<1>2. \A t \in new : /\ TipCoins'[t] = {} /\ ViewCoins'[t] = {}
                     /\ tip'[t] = NoEntry => disk[t] = {}
  <2>1. \A t \in new : /\ t \in Txids /\ t # u /\ TipCoins[t] = {} /\ ViewCoins[t] = {}
                       /\ tip[t] = NoEntry => disk[t] = {}
    BY DEF IndInv, TypeOK
  <2> QED  BY <1>1, <2>1, Types
<1>3. IndInv'
    BY <1>1, <1>2 DEF IndInv, TypeOK, Layers
<1>4. TipBest' = TipBest
    BY DEF TipBest
<1> QED  BY <1>1, <1>3, <1>4, Zenon DEF Flat!Update

\* Transactions still to be added have no coins in the view, so neither a
\* spend nor an undo can be about them.
LEMMA SpendStep ==
    ASSUME IndInv, NEW u \in Txids, NEW o \in Outputs, Spend(u, o)
    PROVE  IndInv' /\ Flat!Update(u)
<1>1. ViewCoins[u] \ {o} \in SUBSET Outputs
    BY Types
<1>2. u \notin new
    BY DEF Spend, IndInv
<1> QED  BY <1>1, <1>2, ModifyStep, Zenon DEF Spend

\* Removing the outputs of a disconnected transaction.
LEMMA RemoveStep ==
    ASSUME IndInv, NEW u \in Txids, Remove(u)
    PROVE  IndInv' /\ Flat!Update(u)
<1>1. u \notin new
    BY DEF Remove, IndInv, TypeOK
<1> QED  BY <1>1, ModifyStep DEF Remove

\* Putting a spent output back; a disconnect adds no transactions.
LEMMA RestoreStep ==
    ASSUME IndInv, NEW u \in Txids, NEW o \in Outputs, Restore(u, o)
    PROVE  IndInv' /\ Flat!Update(u)
<1>1. u \notin new
    BY DEF Restore, IndInv, TypeOK
<1>2. PICK c \in {{o}, ViewCoins[u] \cup {o}} : ModifyCoins(u, c)
    BY DEF Restore
<1>3. c \in SUBSET Outputs
    BY Types
<1> QED  BY <1>1, <1>2, <1>3, ModifyStep DEF Restore

\* Adding the outputs of a new transaction: the BIP30 test at the start of
\* ConnectBlock is what makes the FRESH flag of ModifyNewCoins true here.
LEMMA CreateStep ==
    ASSUME IndInv, NEW u \in Txids, NEW c \in SUBSET Outputs, Create(u, c)
    PROVE  IndInv' /\ Flat!Update(u)
<1>1. /\ u \in new /\ new' = new \ {u} /\ mode = "connect"
      /\ view' = [view EXCEPT ![u] = Released(c, Flags)]
      /\ UNCHANGED <<tip, mode, tipBest, disk, diskBest>>
    BY DEF Create, ModifyNewCoins
<1>2. /\ TipCoins[u] = {} /\ ViewCoins[u] = {} /\ (tip[u] = NoEntry => disk[u] = {})
      /\ view \in Cache /\ tip \in Cache
    BY <1>1 DEF IndInv, TypeOK
<1>3. TipCoins' = TipCoins /\ TipBest' = TipBest
    BY <1>1 DEF TipCoins, TipBest
<1> DEFINE r == Released(c, Flags)
<1>4. /\ r \in CCoinsCacheEntry \cup {NoEntry}
      /\ r = NoEntry => c = {}
      /\ r # NoEntry => r.coins = c /\ r.flags = Flags
    BY EntryParts DEF Released, Flags
<1> HIDE DEF r
<1>5. \A t \in Txids : view'[t] = IF t = u THEN r ELSE view[t]
    BY <1>1, <1>2 DEF Cache, r
<1>6. view' \in Cache /\ tip' \in Cache
    BY <1>1, <1>2, <1>4 DEF Cache, r
<1>7. ViewCoins' = [ViewCoins EXCEPT ![u] = c]
    BY <1>2, <1>3, <1>4, <1>5, Zenon DEF ViewCoins
<1>8. FreshIsFresh'
    BY <1>1, <1>2, <1>3, <1>4, <1>5 DEF FreshIsFresh, IndInv
<1>9. CleanAgrees'
    BY <1>1, <1>3, <1>4, <1>5 DEF CleanAgrees, IndInv, Flags
<1>10. \A t \in Txids : view'[t] # NoEntry /\ tip'[t] = NoEntry =>
                            "FRESH" \in view'[t].flags /\ disk'[t] = {}
    BY <1>1, <1>2, <1>4, <1>5 DEF IndInv, Flags
<1>11. \A t \in new' : /\ TipCoins'[t] = {} /\ ViewCoins'[t] = {}
                       /\ tip'[t] = NoEntry => disk'[t] = {}
  <2>1. \A t \in new' : /\ t \in Txids /\ t # u /\ TipCoins[t] = {} /\ ViewCoins[t] = {}
                        /\ tip[t] = NoEntry => disk[t] = {}
    BY <1>1 DEF IndInv, TypeOK
  <2> QED  BY <1>1, <1>3, <1>7, <2>1, Types
<1>12. Layers'
    BY <1>6, <1>8, <1>9, <1>10 DEF Layers
<1>13. IndInv'
    BY <1>1, <1>11, <1>12, Zenon DEF IndInv, TypeOK, Layers
<1> QED  BY <1>1, <1>3, <1>7, <1>13, Zenon DEF Flat!Update

\* The BIP30 test pulls every new transaction in and finds it pruned.
LEMMA StartConnectStep ==
    ASSUME IndInv, NEW S \in SUBSET Txids, StartConnect(S)
    PROVE  IndInv' /\ Flat!Begin
<1>1. /\ mode = "closed" /\ mode' = "connect" /\ new' = S /\ ViewFetch(S)
      /\ tipBest' = TipBest /\ disk' = disk /\ diskBest' = diskBest
      /\ \A t \in S : ViewCoins[t] = {}
    BY DEF StartConnect
<1>2. /\ Layers' /\ TipCoins' = TipCoins /\ ViewCoins' = ViewCoins
      /\ \A t \in S : tip'[t] = NoEntry /\ view[t] = NoEntry => disk[t] = {}
    BY <1>1, ViewFetchFacts, Zenon
<1>3. ViewCoins = TipCoins /\ TipBest \in Blocks \cup {NullHash}
    BY <1>1, Types
<1>4. \A t \in Txids : view[t] = NoEntry
    BY <1>1 DEF IndInv, TypeOK, Empty
<1>5. IndInv'
    BY <1>1, <1>2, <1>3, <1>4, Zenon DEF IndInv, TypeOK, Layers
<1>6. TipBest' = TipBest
    BY <1>1 DEF TipBest
<1> QED  BY <1>1, <1>2, <1>5, <1>6, Zenon DEF Flat!Begin

\* Opening a view to disconnect a block shows nothing new.
LEMMA StartDisconnectStep ==
    ASSUME IndInv, StartDisconnect
    PROVE  IndInv' /\ Flat!Begin
<1>1. /\ mode = "closed" /\ mode' = "disconnect" /\ tipBest' = TipBest
      /\ UNCHANGED <<new, view, tip, disk, diskBest>>
    BY DEF StartDisconnect
<1>2. TipCoins' = TipCoins /\ ViewCoins' = ViewCoins /\ TipBest' = TipBest
    BY <1>1, Zenon DEF TipCoins, ViewCoins, TipBest
<1>3. new = {}
    BY <1>1, Zenon DEF IndInv, TypeOK
<1>4. Layers'
    BY <1>1, <1>2, Zenon DEF IndInv, TypeOK, Layers, FreshIsFresh, CleanAgrees
<1>5. IndInv'
    BY <1>1, <1>3, <1>4, Types, Zenon DEF IndInv, TypeOK, Layers
<1> QED  BY <1>1, <1>2, <1>5 DEF Flat!Begin


\* A read through the view is invisible.
LEMMA ViewAccessStep ==
    ASSUME IndInv, NEW u \in Txids, ViewAccess(u)
    PROVE  IndInv' /\ UNCHANGED Flat!vars
<1>1. /\ mode # "closed" /\ ViewFetch({u})
      /\ UNCHANGED <<mode, new, tipBest, disk, diskBest>>
    BY DEF ViewAccess
<1>2. {u} \in SUBSET Txids
    OBVIOUS
<1>3. Layers' /\ TipCoins' = TipCoins /\ ViewCoins' = ViewCoins
    BY <1>1, <1>2, ViewFetchFacts
<1>4. \A t \in Txids : tip'[t] = NoEntry => tip[t] = NoEntry
  <2>1. Missed({u}) \in SUBSET Txids
    BY DEF Missed
  <2> QED  BY <1>1, <2>1, TipFetchedFacts, Zenon DEF ViewFetch
<1>5. IndInv'
    BY <1>1, <1>3, <1>4, Zenon DEF IndInv, TypeOK, Layers
<1>6. TipBest' = TipBest
    BY <1>1 DEF TipBest
<1> QED  BY <1>1, <1>3, <1>5, <1>6 DEF Flat!vars

\* A read of pcoinsTip is invisible.
LEMMA TipAccessStep ==
    ASSUME IndInv, NEW u \in Txids, TipAccess(u)
    PROVE  IndInv' /\ UNCHANGED Flat!vars
<1>1. /\ mode = "closed" /\ tip' = TipFetched({u})
      /\ UNCHANGED <<mode, new, view, tipBest, disk, diskBest>>
    BY DEF TipAccess
<1>2. {u} \in SUBSET Txids
    OBVIOUS
<1>3. /\ tip' \in Cache
      /\ \A t \in Txids :
            /\ tip[t] # NoEntry => tip'[t] = tip[t]
            /\ tip[t] = NoEntry /\ tip'[t] # NoEntry =>
                  tip'[t].coins = disk[t] /\ tip'[t].flags = {} /\ disk[t] # {}
            /\ (IF tip'[t] = NoEntry THEN disk[t] ELSE tip'[t].coins) = TipCoins[t]
    BY <1>1, <1>2, TipFetchedFacts
<1>4. TipCoins' = TipCoins
    BY <1>1, <1>3, Zenon DEF TipCoins
<1>5. ViewCoins' = ViewCoins
    BY <1>1, <1>4 DEF ViewCoins
<1>6. /\ \A t \in Txids : view[t] = NoEntry
      /\ view' = view /\ new = {}
    BY <1>1 DEF IndInv, TypeOK, Empty
<1>7. FreshIsFresh' /\ CleanAgrees'
  <2>1. FreshIsFresh'
    <3>1. ASSUME NEW t \in Txids
          PROVE  tip'[t] # NoEntry /\ "FRESH" \in tip'[t].flags => disk'[t] = {}
      BY <1>1, <1>3, Zenon DEF IndInv, FreshIsFresh
    <3>2. \A t \in Txids : view'[t] = NoEntry
      BY <1>6
    <3> QED  BY <3>1, <3>2, Zenon DEF FreshIsFresh
  <2>2. CleanAgrees'
    <3>1. ASSUME NEW t \in Txids
          PROVE  tip'[t] # NoEntry /\ "DIRTY" \notin tip'[t].flags => tip'[t].coins = disk'[t]
      BY <1>1, <1>3, ZenonT(40) DEF IndInv, CleanAgrees
    <3>2. \A t \in Txids : view'[t] = NoEntry
      BY <1>6
    <3> QED  BY <3>1, <3>2, Zenon DEF CleanAgrees
  <2> QED  BY <2>1, <2>2
<1>8. IndInv'
    BY <1>1, <1>3, <1>6, <1>7 DEF IndInv, TypeOK
<1>9. TipBest' = TipBest
    BY <1>1 DEF TipBest
<1> QED  BY <1>1, <1>4, <1>5, <1>8, <1>9 DEF Flat!vars

\* Flushing the view commits the block.
LEMMA CommitBlockStep ==
    ASSUME IndInv, NEW b \in Blocks, CommitBlock(b)
    PROVE  IndInv' /\ Flat!Commit(b)
<1>1. /\ mode # "closed" /\ mode' = "closed" /\ tipBest' = b /\ view' = Empty
      /\ new = {} /\ UNCHANGED <<new, disk, diskBest>>
    BY DEF CommitBlock
<1>2. Layers' /\ TipCoins' = ViewCoins /\ ViewCoins' = ViewCoins
    BY CommitFacts
<1>3. TipBest' = b
    BY <1>1, NullHashIsNoBlock DEF TipBest
<1>4. IndInv'
    BY <1>1, <1>2, Zenon DEF IndInv, TypeOK, Layers
<1> QED  BY <1>1, <1>2, <1>3, <1>4 DEF Flat!Commit, Flat!State

\* Dropping the view goes back to pcoinsTip.
LEMMA AbandonStep ==
    ASSUME IndInv, Abandon
    PROVE  IndInv' /\ Flat!Abandon
<1>1. /\ mode # "closed" /\ mode' = "closed" /\ new' = {} /\ view' = Empty
      /\ UNCHANGED <<tip, tipBest, disk, diskBest>>
    BY DEF Abandon
<1>2. TipCoins' = TipCoins /\ TipBest' = TipBest
    BY <1>1 DEF TipCoins, TipBest
<1>3. view' \in Cache /\ \A t \in Txids : view'[t] = NoEntry
    BY <1>1 DEF Empty, Cache
<1>4. ViewCoins' = TipCoins
    BY <1>2, <1>3, Zenon DEF ViewCoins, TipCoins
<1>5. FreshIsFresh' /\ CleanAgrees'
    BY <1>1, <1>3, Zenon DEF IndInv, FreshIsFresh, CleanAgrees
<1>6. IndInv'
    BY <1>1, <1>3, <1>5, Zenon DEF IndInv, TypeOK
<1> QED  BY <1>1, <1>2, <1>4, <1>6 DEF Flat!Abandon

\* Flushing pcoinsTip makes its state durable.
LEMMA FlushTipStep ==
    ASSUME IndInv, FlushTip
    PROVE  IndInv' /\ Flat!Persist
<1>1. /\ mode = "closed" /\ UNCHANGED <<mode, new, view, tipBest>>
    BY DEF FlushTip
<1>2. /\ Layers' /\ disk' = TipCoins /\ disk' \in [Txids -> SUBSET Outputs]
      /\ TipCoins' = TipCoins /\ ViewCoins' = ViewCoins
      /\ TipBest' = TipBest /\ diskBest' = TipBest
    BY FlushTipFacts
<1>3. view = Empty /\ new = {} /\ TipBest \in Blocks \cup {NullHash}
    BY <1>1, Types, Zenon DEF IndInv, TypeOK
<1>4. IndInv'
    BY <1>1, <1>2, <1>3, Zenon DEF IndInv, TypeOK, Layers
<1> QED  BY <1>1, <1>2, <1>4 DEF Flat!Persist

\* After a crash every layer shows what the disk holds.
LEMMA CrashStep ==
    ASSUME IndInv, Crash
    PROVE  IndInv' /\ Flat!Crash
<1>1. /\ mode' = "closed" /\ new' = {} /\ view' = Empty /\ tip' = Empty
      /\ tipBest' = NullHash /\ UNCHANGED <<disk, diskBest>>
    BY DEF Crash
<1>2. /\ view' \in Cache /\ tip' \in Cache
      /\ \A t \in Txids : view'[t] = NoEntry /\ tip'[t] = NoEntry
    BY <1>1 DEF Empty, Cache
<1>3. disk \in [Txids -> SUBSET Outputs]
    BY DEF IndInv, TypeOK
<1>4. TipCoins' = disk /\ TipBest' = diskBest
    BY <1>1, <1>2, <1>3 DEF TipCoins, TipBest
<1>5. ViewCoins' = disk
    BY <1>2, <1>3, <1>4 DEF ViewCoins
<1>6. FreshIsFresh' /\ CleanAgrees'
    BY <1>2 DEF FreshIsFresh, CleanAgrees
<1>7. IndInv'
    BY <1>1, <1>2, <1>6, Zenon DEF IndInv, TypeOK
<1> QED  BY <1>1, <1>4, <1>5, <1>7 DEF Flat!Crash

\* One step of the caches, seen from outside.
LEMMA NextStep ==
    ASSUME IndInv, [Next]_vars
    PROVE  IndInv' /\ [Flat!Next]_Flat!vars
<1>1. ASSUME NEW t \in Txids, ViewAccess(t) PROVE IndInv' /\ [Flat!Next]_Flat!vars
    BY <1>1, ViewAccessStep
<1>2. ASSUME NEW t \in Txids, TipAccess(t) PROVE IndInv' /\ [Flat!Next]_Flat!vars
    BY <1>2, TipAccessStep
<1>3. ASSUME NEW S \in SUBSET Txids, StartConnect(S) PROVE IndInv' /\ [Flat!Next]_Flat!vars
    BY <1>3, StartConnectStep DEF Flat!Next
<1>4. ASSUME NEW t \in Txids, NEW o \in Outputs, Spend(t, o)
      PROVE  IndInv' /\ [Flat!Next]_Flat!vars
    BY <1>4, SpendStep DEF Flat!Next
<1>5. ASSUME NEW t \in Txids, NEW c \in SUBSET Outputs, Create(t, c)
      PROVE  IndInv' /\ [Flat!Next]_Flat!vars
    BY <1>5, CreateStep DEF Flat!Next
<1>6. CASE StartDisconnect
    BY <1>6, StartDisconnectStep DEF Flat!Next
<1>7. ASSUME NEW t \in Txids, Remove(t) PROVE IndInv' /\ [Flat!Next]_Flat!vars
    BY <1>7, RemoveStep DEF Flat!Next
<1>8. ASSUME NEW t \in Txids, NEW o \in Outputs, Restore(t, o)
      PROVE  IndInv' /\ [Flat!Next]_Flat!vars
    BY <1>8, RestoreStep DEF Flat!Next
<1>9. ASSUME NEW b \in Blocks, CommitBlock(b) PROVE IndInv' /\ [Flat!Next]_Flat!vars
    BY <1>9, CommitBlockStep DEF Flat!Next
<1>10. CASE Abandon
    BY <1>10, AbandonStep DEF Flat!Next
<1>11. CASE FlushTip
    BY <1>11, FlushTipStep DEF Flat!Next
<1>12. CASE Crash
    BY <1>12, CrashStep DEF Flat!Next
<1>13. CASE UNCHANGED vars
  <2>1. TipCoins' = TipCoins /\ TipBest' = TipBest
    BY <1>13 DEF vars, TipCoins, TipBest
  <2>2. ViewCoins' = ViewCoins
    BY <1>13, <2>1 DEF vars, ViewCoins
  <2>3. UNCHANGED Flat!vars
    BY <1>13, <2>1, <2>2 DEF vars, Flat!vars
  <2>4. FreshIsFresh' /\ CleanAgrees' /\ TypeOK'
    BY <1>13, <2>1, Zenon DEF vars, IndInv, FreshIsFresh, CleanAgrees, TypeOK
  <2>5. IndInv'
    BY <1>13, <2>1, <2>2, <2>4, Zenon DEF vars, IndInv
  <2> QED  BY <2>3, <2>5
<1> QED  BY <1>1, <1>2, <1>3, <1>4, <1>5, <1>6, <1>7, <1>8, <1>9, <1>10, <1>11,
            <1>12, <1>13 DEF Next

\* IndInv holds throughout.
THEOREM Invariance == Spec => []IndInv
<1>1. IndInv /\ [Next]_vars => IndInv'
    BY NextStep
<1> QED  BY <1>1, InitIndInv, PTL DEF Spec

\* Types, and no per-block entry outlives its view.
THEOREM TypeCorrect == Spec => []TypeOK
<1>1. IndInv => TypeOK
    BY DEF IndInv
<1> QED  BY <1>1, Invariance, PTL

\* FRESH is set only where the parent view has nothing (coins.h).
THEOREM FreshFlagsAreTrue == Spec => []FreshIsFresh
<1>1. IndInv => FreshIsFresh
    BY DEF IndInv
<1> QED  BY <1>1, Invariance, PTL

\* Entries without DIRTY are equal to what the parent view shows.
THEOREM CleanEntriesAgree == Spec => []CleanAgrees
<1>1. IndInv => CleanAgrees
    BY DEF IndInv
<1> QED  BY <1>1, Invariance, PTL

\* The assert in CCoinsViewCache::BatchWrite never fails.
THEOREM FlushNeverAsserts == Spec => []FlushAssertHolds
<1>1. IndInv => FlushAssertHolds
    BY DEF IndInv, FlushAssertHolds
<1> QED  BY <1>1, Invariance, PTL

\* The layered caches implement one flat, atomically changing set of coins.
THEOREM ImplementsFlat == Spec => FlatSpec
<1>1. Init => Flat!Init
    BY Zenon DEF Init, Flat!Init, Flat!NoCoins, Flat!State, TipCoins, ViewCoins, TipBest, Empty
<1>2. IndInv /\ [Next]_vars => [Flat!Next]_Flat!vars
    BY NextStep
<1> QED  BY <1>1, <1>2, Invariance, PTL DEF Spec, FlatSpec, Flat!Spec
=============================================================================
