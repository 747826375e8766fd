----------------------------- MODULE CoinsCache -----------------------------
(***************************************************************************)
(* The coins part of the CCoinsView stack: the chainstate database         *)
(* (CCoinsViewDB, txdb.cpp), pcoinsTip on top of it, and the per-block     *)
(* CCoinsViewCache that ConnectTip and DisconnectTip open on pcoinsTip,    *)
(* flush into it, or throw away (coins.cpp, main.cpp).                     *)
(*                                                                         *)
(* The coins of a transaction are the set of its unspent outputs; {} is a  *)
(* pruned CCoins, and on disk the absence of a record, since BatchWrite    *)
(* erases what is pruned.  A cache maps a txid to an entry or to NoEntry.  *)
(* cs_main serialises everything here; an action is one call on a view.    *)
(***************************************************************************)
EXTENDS FiniteSets

CONSTANTS Txids, Outputs, Blocks, NullHash,
          NoEntry    \* "not in cacheCoins"

Flags == {"DIRTY", "FRESH"}
CCoinsCacheEntry == [coins : SUBSET Outputs, flags : SUBSET Flags]

ASSUME NoEntryIsNoEntry == NoEntry \notin CCoinsCacheEntry
ASSUME NullHashIsNoBlock == NullHash \notin Blocks

VARIABLES mode,      \* what the open per-block view is for, or "closed"
          new,       \* transactions of the block being connected, not yet added
          view,      \* cacheCoins of the per-block view
          tip,       \* cacheCoins of pcoinsTip
          tipBest,   \* hashBlock of pcoinsTip; null until first asked for
          disk,      \* DB_COINS records
          diskBest   \* DB_BEST_BLOCK

vars == <<mode, new, view, tip, tipBest, disk, diskBest>>

Entry(coins, flags) == [coins |-> coins, flags |-> flags]
Empty == [t \in Txids |-> NoEntry]

\* What a reader gets from pcoinsTip, and from the per-block view.
TipCoins == [t \in Txids |-> IF tip[t] = NoEntry THEN disk[t] ELSE tip[t].coins]
ViewCoins == [t \in Txids |-> IF view[t] = NoEntry THEN TipCoins[t] ELSE view[t].coins]
TipBest == IF tipBest = NullHash THEN diskBest ELSE tipBest

Init ==
    /\ mode = "closed" /\ new = {}
    /\ view = Empty /\ tip = Empty /\ tipBest = NullHash
    /\ disk = [t \in Txids |-> {}] /\ diskBest = NullHash

(***************************************************************************)
(* Reading.                                                                *)
(***************************************************************************)

\* FetchCoins, for one txid: a miss asks the base view, and caches what it
\* finds there.
FetchCoins(entry, found, coins) ==
    IF entry # NoEntry \/ ~found THEN entry
    ELSE Entry(coins, IF coins = {} THEN {"FRESH"} ELSE {})

\* pcoinsTip after its FetchCoins was called for the txids in S.
TipFetched(S) ==
    [t \in Txids |-> IF t \in S THEN FetchCoins(tip[t], disk[t] # {}, disk[t])
                     ELSE tip[t]]

\* The view misses what it does not hold, and only that reaches pcoinsTip.
Missed(S) == {t \in S : view[t] = NoEntry}

\* AccessCoins, GetCoins or HaveCoins on the view for the txids in S.
ViewFetch(S) ==
    LET below == TipFetched(Missed(S))
    IN  /\ tip' = below
        /\ view' = [t \in Txids |->
                       IF t \in S
                       THEN FetchCoins(view[t], below[t] # NoEntry, below[t].coins)
                       ELSE view[t]]

ViewAccess(t) ==
    /\ mode # "closed"
    /\ ViewFetch({t})
    /\ UNCHANGED <<mode, new, tipBest, disk, diskBest>>

\* A read of pcoinsTip by anyone else, or through a view that is then thrown
\* away (mempool acceptance, RPC, a block refused by the BIP30 test).
TipAccess(t) ==
    /\ mode = "closed"
    /\ tip' = TipFetched({t})
    /\ UNCHANGED <<mode, new, view, tipBest, disk, diskBest>>

(***************************************************************************)
(* Modifying the view.                                                     *)
(***************************************************************************)

\* ~CCoinsModifier: a fresh entry that ends up pruned is dropped.
Released(coins, flags) ==
    IF "FRESH" \in flags /\ coins = {} THEN NoEntry ELSE Entry(coins, flags)

\* The entry ModifyCoins starts from when the view has none, given the
\* entry of pcoinsTip after it was asked.
EntryUnfresh(below) ==
    IF below = NoEntry THEN Entry({}, {})
    ELSE Entry(below.coins, IF below.coins = {} THEN {"FRESH"} ELSE {})
EntryFromBase(below) ==
    IF below = NoEntry THEN Entry({}, {"FRESH"})
    ELSE Entry(below.coins, IF below.coins = {} THEN {"FRESH"} ELSE {})

\* ModifyCoins, the caller setting the coins to c, and the destructor.
ModifyCoins(t, c) ==
    LET below == TipFetched(Missed({t}))
        entry == IF view[t] # NoEntry THEN view[t] ELSE EntryFromBase(below[t])
    IN  /\ tip' = below
        /\ view' = [view EXCEPT ![t] = Released(c, entry.flags \cup {"DIRTY"})]

\* ModifyNewCoins: no read of the base, the entry is declared fresh.
ModifyNewCoins(t, c) ==
    /\ view' = [view EXCEPT ![t] = Released(c, Flags)]
    /\ UNCHANGED tip

\* ConnectBlock, up to the BIP30 test, which looks all its transactions up.
StartConnectUntested(S) ==
    /\ mode = "closed"
    /\ mode' = "connect" /\ new' = S
    /\ ViewFetch(S)
    /\ tipBest' = TipBest
    /\ UNCHANGED <<disk, diskBest>>
StartConnect(S) ==
    /\ mode = "closed"
    /\ \A t \in S : ViewCoins[t] = {}
    /\ mode' = "connect" /\ new' = S
    /\ ViewFetch(S)
    /\ tipBest' = TipBest
    /\ UNCHANGED <<disk, diskBest>>

\* UpdateCoins: an available input is spent.
Spend(t, o) ==
    /\ mode = "connect"
    /\ o \in ViewCoins[t]
    /\ ModifyCoins(t, ViewCoins[t] \ {o})
    /\ UNCHANGED <<mode, new, tipBest, disk, diskBest>>

\* UpdateCoins: the outputs of a transaction are added.  FromTx drops the
\* unspendable ones, which may be all of them.
Create(t, c) ==
    /\ mode = "connect"
    /\ t \in new
    /\ new' = new \ {t}
    /\ ModifyNewCoins(t, c)
    /\ UNCHANGED <<mode, tipBest, disk, diskBest>>

StartDisconnect ==
    /\ mode = "closed"
    /\ mode' = "disconnect"
    /\ tipBest' = TipBest
    /\ UNCHANGED <<new, view, tip, disk, diskBest>>

\* DisconnectBlock: the outputs of a transaction of the block are removed.
Remove(t) ==
    /\ mode = "disconnect"
    /\ ModifyCoins(t, {})
    /\ UNCHANGED <<mode, new, tipBest, disk, diskBest>>

\* ApplyTxInUndo: a spent output is put back; undo data that carries a
\* height clears the entry first.
Restore(t, o) ==
    /\ mode = "disconnect"
    /\ \E c \in {{o}, ViewCoins[t] \cup {o}} : ModifyCoins(t, c)
    /\ UNCHANGED <<mode, new, tipBest, disk, diskBest>>

(***************************************************************************)
(* Ending the view, flushing, crashing.                                    *)
(***************************************************************************)

\* CCoinsViewCache::BatchWrite for one txid: the child's entry moves into
\* ours.
MovedUpAlwaysErases(ours, child) ==
    IF child = NoEntry \/ "DIRTY" \notin child.flags THEN ours
    ELSE IF ours = NoEntry
         THEN IF child.coins = {} THEN NoEntry ELSE Entry(child.coins, Flags)
         ELSE IF child.coins = {} THEN NoEntry
              ELSE Entry(child.coins, ours.flags \cup {"DIRTY"})
MovedUpClean(ours, child) ==
    IF child = NoEntry \/ "DIRTY" \notin child.flags THEN ours
    ELSE IF ours = NoEntry
         THEN IF child.coins = {} THEN NoEntry ELSE Entry(child.coins, Flags)
         ELSE IF "FRESH" \in ours.flags /\ child.coins = {} THEN NoEntry
              ELSE Entry(child.coins, ours.flags)
MovedUp(ours, child) ==
    IF child = NoEntry \/ "DIRTY" \notin child.flags THEN ours
    ELSE IF ours = NoEntry
         THEN IF child.coins = {} THEN NoEntry ELSE Entry(child.coins, Flags)
         ELSE IF "FRESH" \in ours.flags /\ child.coins = {} THEN NoEntry
              ELSE Entry(child.coins, ours.flags \cup {"DIRTY"})

\* The end of ConnectBlock or DisconnectBlock: SetBestBlock, then
\* ConnectTip or DisconnectTip flushes the view into pcoinsTip.
CommitBlock(b) ==
    /\ mode # "closed" /\ new = {}
    /\ tip' = [t \in Txids |-> MovedUp(tip[t], view[t])]
    /\ tipBest' = b
    /\ mode' = "closed"
    /\ view' = Empty
    /\ UNCHANGED <<new, disk, diskBest>>

\* The block is invalid, or only being tested: the view goes away unflushed.
AbandonKeepsView ==
    /\ mode # "closed"
    /\ mode' = "closed" /\ new' = {}
    /\ UNCHANGED <<view, tip, tipBest, disk, diskBest>>
Abandon ==
    /\ mode # "closed"
    /\ mode' = "closed" /\ new' = {} /\ view' = Empty
    /\ UNCHANGED <<tip, tipBest, disk, diskBest>>

\* CCoinsViewDB::BatchWrite for one txid: the child's entry is written, or
\* its record erased.
Written(record, child) ==
    IF child = NoEntry \/ "DIRTY" \notin child.flags THEN record ELSE child.coins

\* FlushStateToDisk: pcoinsTip->Flush() writes one atomic batch and empties
\* the cache; a null hashBlock is not written.
FlushTip ==
    /\ mode = "closed"
    /\ disk' = [t \in Txids |-> Written(disk[t], tip[t])]
    /\ diskBest' = TipBest
    /\ tip' = Empty
    /\ UNCHANGED <<mode, new, view, tipBest>>

\* The process dies and starts again on the database it left.
Crash ==
    /\ mode' = "closed" /\ new' = {}
    /\ view' = Empty /\ tip' = Empty /\ tipBest' = NullHash
    /\ UNCHANGED <<disk, diskBest>>

Next ==
    \/ \E t \in Txids : ViewAccess(t)
    \/ \E t \in Txids : TipAccess(t)
    \/ \E S \in SUBSET Txids : StartConnect(S)
    \/ \E t \in Txids, o \in Outputs : Spend(t, o)
    \/ \E t \in Txids, c \in SUBSET Outputs : Create(t, c)
    \/ StartDisconnect
    \/ \E t \in Txids : Remove(t)
    \/ \E t \in Txids, o \in Outputs : Restore(t, o)
    \/ \E b \in Blocks : CommitBlock(b)
    \/ Abandon
    \/ FlushTip
    \/ Crash

Spec == Init /\ [][Next]_vars

-----------------------------------------------------------------------------
(***************************************************************************)
(* Properties.                                                             *)
(***************************************************************************)

Cache == [Txids -> CCoinsCacheEntry \cup {NoEntry}]

\* Types, and no per-block entry outlives its view.
TypeOK ==
    /\ mode \in {"closed", "connect", "disconnect"}
    /\ new \in SUBSET Txids
    /\ view \in Cache /\ tip \in Cache
    /\ tipBest \in Blocks \cup {NullHash}
    /\ disk \in [Txids -> SUBSET Outputs]
    /\ diskBest \in Blocks \cup {NullHash}
    /\ mode = "closed" => view = Empty /\ new = {}
    /\ mode = "disconnect" => new = {}

\* FRESH means what coins.h says: "The parent view does not have this entry
\* (or it is pruned)".  Every shortcut of BatchWrite and ~CCoinsModifier
\* that drops an entry rests on it.
FreshIsFresh ==
    \A t \in Txids :
        /\ tip[t] # NoEntry /\ "FRESH" \in tip[t].flags => disk[t] = {}
        /\ view[t] # NoEntry /\ "FRESH" \in view[t].flags => TipCoins[t] = {}

\* An entry without DIRTY may be forgotten at any time: it is not
\* "potentially different from the version in the parent view".
CleanAgrees ==
    \A t \in Txids :
        /\ tip[t] # NoEntry /\ "DIRTY" \notin tip[t].flags => tip[t].coins = disk[t]
        /\ view[t] # NoEntry /\ "DIRTY" \notin view[t].flags =>
              view[t].coins = TipCoins[t]

\* The assert in CCoinsViewCache::BatchWrite cannot fail: a live entry that
\* pcoinsTip has never seen is FRESH in the child, so that the database has
\* no record of it ("if the grandparent did have it, we would have pulled it
\* in at first GetCoins").
FlushAssertHolds ==
    \A t \in Txids :
        (view[t] # NoEntry /\ view[t].coins # {} /\ tip[t] = NoEntry) =>
            ("DIRTY" \in view[t].flags => "FRESH" \in view[t].flags /\ disk[t] = {})

\* The three layers with their flags, lazy reads and partial write-back are
\* one flat set of coins: what the view, pcoinsTip and the disk show moves
\* only by whole blocks, flushes and crashes.
Flat == INSTANCE CoinsView WITH
            open <- mode # "closed",
            working <- ViewCoins,
            committed <- [coins |-> TipCoins, best |-> TipBest],
            durable <- [coins |-> disk, best |-> diskBest]
FlatSpec == Flat!Spec

\* The invariant behind all of them; inductive.
IndInv ==
    /\ TypeOK
    /\ FreshIsFresh
    /\ CleanAgrees
    /\ \A t \in Txids :
          /\ view[t] # NoEntry /\ tip[t] = NoEntry =>
                "FRESH" \in view[t].flags /\ disk[t] = {}
          /\ t \in new => /\ TipCoins[t] = {}
                          /\ ViewCoins[t] = {}
                          /\ tip[t] = NoEntry => disk[t] = {}
=============================================================================
