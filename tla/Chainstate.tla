----------------------------- MODULE Chainstate -----------------------------
(***************************************************************************)
(* What blocks do to the coins, and how it is undone: ConnectBlock and     *)
(* UpdateCoins, DisconnectBlock and ApplyTxInUndo with the undo records of *)
(* undo.h, the unspent and spent indexes of insightexplorer, and the order *)
(* in which FlushStateToDisk makes block index and coins durable.          *)
(*                                                                         *)
(* A block is identified by the transactions of all blocks up to it, as    *)
(* its hash commits to them, so the active chain names its own tip.        *)
(* CoinsCache shows that the caches below are one set of coins; here they  *)
(* are `utxo', with the database's copy `dUtxo'.  The nullifiers revealed  *)
(* by shielded spends come and go with them.  cs_main serialises           *)
(* all of it; an action handles one transaction, or one input when undoing.*)
(***************************************************************************)
EXTENDS Integers, Sequences, FiniteSets

CONSTANTS
  Txid,
  Coinbase,    \* the coinbases among them
  Vin,         \* vin of a transaction: a sequence of outpoints
  Nullifiers,  \* of its JoinSplits and shielded spends
  Vout,        \* its spendable outputs (FromTx drops the others), all of
               \*   a script type that the indexes know
  CbHeight,    \* the height a coinbase begins with (BIP 34)
  Bodies,      \* vtx of the blocks that peers may send
  Maturity,    \* COINBASE_MATURITY
  MaxHeight,   \* bound on the length of a chain
  MaxBlocks,   \* bound on the number of blocks ever connected
  Erase        \* in a batch: delete the record

COutPoint == [hash : Txid, n : UNION {Vout[t] : t \in Txid}]

ASSUME Transactions ==
  /\ Coinbase \subseteq Txid
  /\ \A t \in Txid : IsFiniteSet(Vout[t])
  /\ Vin \in [Txid -> Seq(COutPoint)]
  /\ \A t \in Txid : \A j, k \in 1..Len(Vin[t]) : Vin[t][j] = Vin[t][k] => j = k
  /\ \A t \in Txid : t \in Coinbase <=> Vin[t] = <<>> /\ Nullifiers[t] = {}
ASSUME Blocks ==
  /\ CbHeight \in [Coinbase -> Nat \ {0}]
  /\ \A b \in Bodies : /\ b \in Seq(Txid) /\ b # <<>> /\ b[1] \in Coinbase
                       /\ \A i \in 2..Len(b) : b[i] \notin Coinbase
ASSUME EraseIsNoValue == Erase \notin Nat \cup Txid
ASSUME Bounds == Maturity \in Nat /\ MaxHeight \in Nat /\ MaxBlocks \in Nat

VARIABLES
  mode,      \* "idle", or which loop is running
  body,      \* vtx of the block at work
  pos, inp,  \* its current transaction, and the input when undoing
  view,      \* the per-block CCoinsViewCache, and
  viewNf,    \*   its nullifiers
  txundo,    \* undo records so far, by transaction and input
  batch,     \* pending updates of the two indexes
  fClean,
  chain,     \* the blocks below pcoinsTip
  utxo, nf,  \* the coins and nullifiers pcoinsTip shows
  undo,      \* blocks with BLOCK_HAVE_UNDO, and their undo data
  dirty,     \* setDirtyBlockIndex
  index,     \* the records of the unspent and of the spent index
  dChain, dUtxo, dNf,  \* the same three in the chainstate database
  dIndexed,  \* blocks whose undo position is in the block tree database
  lost       \* a crash took back blocks that the indexes had recorded

work == <<body, pos, inp, view, viewNf, txundo, batch, fClean>>
tip == <<chain, utxo, nf>>
disk == <<dChain, dUtxo, dNf, dIndexed>>
vars == <<mode, work, tip, undo, dirty, index, disk, lost>>

-----------------------------------------------------------------------------

\* CCoins, with nHeight and fCoinBase for all the metadata.  Objects without
\* outputs are equal.
Coins(outs, height, coinbase) ==
  IF outs = {} THEN [outs |-> {}, nHeight |-> 0, fCoinBase |-> FALSE]
  ELSE [outs |-> outs, nHeight |-> height, fCoinBase |-> coinbase]
Pruned == Coins({}, 0, FALSE)
FromTx(tx, height) == Coins(Vout[tx], height, tx \in Coinbase)

\* A batch holds one value per key, the last one written.
NoRecords == [o \in {} |-> Erase]
PutFirst(f, S, val) == [o \in DOMAIN f \cup S |-> IF o \in DOMAIN f THEN f[o] ELSE val]
Put(f, S, val) == [o \in DOMAIN f \cup S |-> IF o \in S THEN val ELSE f[o]]
Written(f, g) ==
  [o \in {p \in DOMAIN f \cup DOMAIN g : p \in DOMAIN g => g[p] # Erase} |->
     IF o \in DOMAIN g THEN g[o] ELSE f[o]]
NoBatch == [unspent |-> NoRecords, spent |-> NoRecords]
WriteIndexes == index' = [unspent |-> Written(index.unspent, batch.unspent),
                          spent |-> Written(index.spent, batch.spent)]

Inputs(tx) == {Vin[tx][j] : j \in 1..Len(Vin[tx])}
Outputs(tx) == {[hash |-> tx, n |-> n] : n \in Vout[tx]}

NoWork == /\ body' = <<>> /\ pos' = 0 /\ inp' = 0 /\ view' = utxo' /\ viewNf' = nf'
          /\ txundo' = NoRecords /\ batch' = NoBatch /\ fClean' = TRUE
Start(m, b, p) == /\ mode' = m /\ body' = b /\ pos' = p /\ inp' = 0
                  /\ view' = utxo /\ viewNf' = nf
                  /\ txundo' = NoRecords /\ batch' = NoBatch /\ fClean' = TRUE

Init ==
  /\ mode = "idle" /\ body = <<>> /\ pos = 0 /\ inp = 0
  /\ txundo = NoRecords /\ batch = NoBatch /\ fClean = TRUE
  /\ chain = <<>> /\ dChain = <<>>
  /\ utxo = [t \in Txid |-> Pruned] /\ view = utxo /\ dUtxo = utxo
  /\ nf = {} /\ viewNf = {} /\ dNf = {}
  /\ undo = [b \in {} |-> NoRecords] /\ dirty = {} /\ dIndexed = {}
  /\ index = NoBatch /\ lost = FALSE

(***************************************************************************)
(* Connecting a block.                                                     *)
(***************************************************************************)
Height == Len(chain) + (IF mode = "connect" THEN 1 ELSE 0)

\* The checks before the loop: BIP 30; the coinbase's height was checked by
\* ContextualCheckBlock when the block was accepted.
ConnectBlock(b) ==
  /\ mode = "idle" /\ Len(chain) < MaxHeight
  /\ Append(chain, b) \in DOMAIN undo \/ Cardinality(DOMAIN undo) < MaxBlocks
  /\ CbHeight[b[1]] = Len(chain) + 1
  /\ \A i \in 1..Len(b) : utxo[b[i]].outs = {}
  /\ Start("connect", b, 1)
  /\ UNCHANGED <<tip, undo, dirty, index, disk, lost>>

\* HaveInputs, CheckTxInputs for the spending of coinbases, and
\* HaveShieldedRequirements.
HaveInputs(tx) ==
  /\ Nullifiers[tx] \cap viewNf = {}
  /\ \A o \in Inputs(tx) :
       /\ o.n \in view[o.hash].outs
       /\ view[o.hash].fCoinBase => Height - view[o.hash].nHeight >= Maturity

\* The outputs of prev that the first j inputs of tx spend.
SpentBy(tx, prev, j) == {Vin[tx][k].n : k \in {i \in 1..j : Vin[tx][i].hash = prev}}

CTxInUndoAny(tx, j) ==
  LET prev == Vin[tx][j].hash
  IN IF view[prev].outs \subseteq SpentBy(tx, prev, Len(Vin[tx]))
       THEN [nHeight |-> view[prev].nHeight, fCoinBase |-> view[prev].fCoinBase]
       ELSE [nHeight |-> 0, fCoinBase |-> FALSE]

\* Undo record of input j: with metadata if it spends the last output.
CTxInUndo(tx, j) ==
  LET prev == Vin[tx][j].hash
  IN IF view[prev].outs \subseteq SpentBy(tx, prev, j)
       THEN [nHeight |-> view[prev].nHeight, fCoinBase |-> view[prev].fCoinBase]
       ELSE [nHeight |-> 0, fCoinBase |-> FALSE]

Spent(tx, prev) ==
  Coins(view[prev].outs \ SpentBy(tx, prev, Len(Vin[tx])),
        view[prev].nHeight, view[prev].fCoinBase)

UpdateCoins ==
  /\ mode = "connect" /\ pos <= Len(body)
  /\ LET tx == body[pos] IN
       /\ HaveInputs(tx)
       /\ view' = [t \in Txid |-> IF t = tx THEN FromTx(tx, Height) ELSE Spent(tx, t)]
       /\ viewNf' = viewNf \cup Nullifiers[tx]
       /\ txundo' = [q \in DOMAIN txundo \cup {<<pos, j>> : j \in 1..Len(Vin[tx])} |->
                       IF q \in DOMAIN txundo THEN txundo[q] ELSE CTxInUndo(tx, q[2])]
       /\ batch' = [unspent |-> Put(Put(batch.unspent, Inputs(tx), Erase),
                                    Outputs(tx), Height),
                    spent |-> Put(batch.spent, Inputs(tx), tx)]
  /\ pos' = pos + 1
  /\ UNCHANGED <<mode, body, inp, fClean, tip, undo, dirty, index, disk, lost>>

\* ConnectBlock returns false, for missing inputs or any other check: the
\* view is dropped.
RejectBlock ==
  /\ mode = "connect"
  /\ mode' = "idle"
  /\ UNCHANGED <<tip, undo, dirty, index, disk, lost>>
  /\ NoWork

\* The end of ConnectBlock, and ConnectTip: undo data is written unless the
\* block has it from an earlier connection.
ConnectTip ==
  LET block == Append(chain, body) IN
  /\ mode = "connect" /\ pos > Len(body)
  /\ mode' = "idle"
  /\ chain' = block /\ utxo' = view /\ nf' = viewNf
  /\ undo' = [b \in DOMAIN undo \cup {block} |-> IF b \in DOMAIN undo THEN undo[b] ELSE txundo]
  /\ dirty' = IF block \in DOMAIN undo THEN dirty ELSE dirty \cup {block}
  /\ WriteIndexes
  /\ UNCHANGED <<disk, lost>>
  /\ NoWork

(***************************************************************************)
(* Disconnecting the tip: its transactions last to first, and the inputs   *)
(* of each last to first.                                                  *)
(***************************************************************************)
Tip == chain[Len(chain)]

DisconnectBlock ==
  /\ mode = "idle" /\ chain # <<>>
  /\ chain \in DOMAIN undo
  /\ Start("outputs", Tip, Len(Tip))
  /\ UNCHANGED <<tip, undo, dirty, index, disk, lost>>

\* With `left' inputs of the transaction still to restore.
Continue(left) ==
  /\ mode' = IF left = 0 THEN "outputs" ELSE "inputs"
  /\ pos' = IF left = 0 THEN pos - 1 ELSE pos
  /\ inp' = left

RemoveOutputs ==
  /\ mode = "outputs" /\ pos > 0
  /\ LET tx == body[pos] IN
       /\ fClean' = (fClean /\ view[tx] = FromTx(tx, Height))
       /\ view' = [view EXCEPT ![tx] = Pruned]
       /\ viewNf' = viewNf \ Nullifiers[tx]
       /\ batch' = [batch EXCEPT !.unspent = Put(@, Outputs(tx), Erase)]
       /\ Continue(Len(Vin[tx]))
  /\ UNCHANGED <<body, txundo, tip, undo, dirty, index, disk, lost>>

RestoredAsPlain(coins, rec) ==
  IF rec.nHeight # 0 THEN [outs |-> {}, nHeight |-> rec.nHeight, fCoinBase |-> FALSE]
  ELSE coins

\* The coins to which ApplyTxInUndo adds the output.
Restored(coins, rec) ==
  IF rec.nHeight # 0
    THEN [outs |-> {}, nHeight |-> rec.nHeight, fCoinBase |-> rec.fCoinBase]
    ELSE coins

ApplyTxInUndo ==
  /\ mode = "inputs"
  /\ LET out == Vin[body[pos]][inp]
         rec == undo[chain][<<pos, inp>>]
         coins == view[out.hash]
         base == Restored(coins, rec)
     IN /\ fClean' = (fClean /\ (rec.nHeight # 0 <=> coins.outs = {}) /\ out.n \notin base.outs)
        /\ view' = [view EXCEPT ![out.hash] = [base EXCEPT !.outs = @ \cup {out.n}]]
        /\ batch' = [unspent |-> Put(batch.unspent, {out}, rec.nHeight),
                     spent |-> Put(batch.spent, {out}, Erase)]
  /\ Continue(inp - 1)
  /\ UNCHANGED <<body, viewNf, txundo, tip, undo, dirty, index, disk, lost>>

\* The end of DisconnectBlock, and DisconnectTip, which goes on only after a
\* clean result.
DisconnectTip ==
  /\ mode = "outputs" /\ pos = 0
  /\ mode' = "idle"
  /\ chain' = IF fClean THEN SubSeq(chain, 1, Len(chain) - 1) ELSE chain
  /\ utxo' = IF fClean THEN view ELSE utxo
  /\ nf' = IF fClean THEN viewNf ELSE nf
  /\ WriteIndexes
  /\ UNCHANGED <<undo, dirty, disk, lost>>
  /\ NoWork

(***************************************************************************)
(* FlushStateToDisk: the block index first, then in a full flush the       *)
(* coins.  ConnectTip and DisconnectTip call it when the cache is large,   *)
(* the message handler when time has passed.  A crash of the process keeps *)
(* what LevelDB has been given.                                            *)
(***************************************************************************)
WriteBlockIndexAfter ==
  /\ mode = "idle"
  /\ \/ mode' = "idle" /\ dIndexed' = dIndexed \cup dirty /\ dirty' = {}
     \/ mode' = "flush" /\ UNCHANGED <<dIndexed, dirty>>
  /\ UNCHANGED <<work, tip, undo, index, dChain, dUtxo, dNf, lost>>

WriteBlockIndex ==
  /\ mode = "idle"
  /\ dIndexed' = dIndexed \cup dirty /\ dirty' = {}
  /\ mode' \in {"idle", "flush"}
  /\ UNCHANGED <<work, tip, undo, index, dChain, dUtxo, dNf, lost>>

FlushCoins ==
  /\ mode = "flush"
  /\ dChain' = chain /\ dUtxo' = utxo /\ dNf' = nf
  /\ mode' = "idle"
  /\ UNCHANGED <<work, tip, undo, dirty, index, dIndexed, lost>>

Crash ==
  /\ mode' = "idle"
  /\ chain' = dChain /\ utxo' = dUtxo /\ nf' = dNf
  /\ undo' = [b \in dIndexed |-> undo[b]] /\ dirty' = {}
  /\ lost' = (lost \/ chain # dChain)
  /\ UNCHANGED <<index, disk>>
  /\ NoWork

Next ==
  \/ \E b \in Bodies : ConnectBlock(b)
  \/ UpdateCoins \/ RejectBlock \/ ConnectTip
  \/ DisconnectBlock \/ RemoveOutputs \/ ApplyTxInUndo \/ DisconnectTip
  \/ WriteBlockIndex \/ FlushCoins \/ Crash

Spec == Init /\ [][Next]_vars

-----------------------------------------------------------------------------

\* Reference: the coins a chain implies.  A transaction of the chain has the
\* outputs no transaction of the chain spends, and the height of its block.
TxsOf(c) == UNION {{c[h][i] : i \in 1..Len(c[h])} : h \in 1..Len(c)}
HeightOf(c, t) == CHOOSE h \in 1..Len(c) : \E i \in 1..Len(c[h]) : c[h][i] = t
SpentIn(c) == UNION {Inputs(t) : t \in TxsOf(c)}
NullifiersOf(c) == UNION {Nullifiers[t] : t \in TxsOf(c)}
UnspentIn(c) == (UNION {Outputs(t) : t \in TxsOf(c)}) \ SpentIn(c)
CoinsOf(c) ==
  [t \in Txid |->
     IF t \in TxsOf(c)
       THEN Coins({n \in Vout[t] : [hash |-> t, n |-> n] \notin SpentIn(c)},
                  HeightOf(c, t), t \in Coinbase)
       ELSE Pruned]

\* pcoinsTip and the database hold exactly the coins and nullifiers of their chains, after
\* any sequence of connections, reorganisations, flushes and crashes: undo
\* records bring back every output with its height and coinbase flag.
UtxoIsChain == /\ utxo = CoinsOf(chain) /\ nf = NullifiersOf(chain)
               /\ dUtxo = CoinsOf(dChain) /\ dNf = NullifiersOf(dChain)

\* DisconnectBlock finds undo data for every block of the active chain, also
\* after a crash: FlushStateToDisk never lets coins on disk get ahead of the
\* block index.
UndoAvailable == \A h \in 1..Len(chain) : SubSeq(chain, 1, h) \in DOMAIN undo

\* DisconnectBlock never returns DISCONNECT_UNCLEAN: not when transactions of
\* the block spend each other, nor when the undo data stems from an earlier
\* connection of the block.
DisconnectsCleanly == fClean

\* The unspent index lists exactly the unspent outputs, and the spent index
\* exactly the spent ones, each with a transaction of the chain that spends it,
\* as long as no crash has taken back what the indexes recorded.
IndexesAgree ==
  mode = "idle" /\ ~ lost =>
    /\ DOMAIN index.unspent = UnspentIn(chain)
    /\ DOMAIN index.spent = SpentIn(chain)
    /\ \A o \in SpentIn(chain) : index.spent[o] \in TxsOf(chain) /\ o \in Inputs(index.spent[o])

\* The height that the unspent index keeps, and getaddressutxos returns, for an
\* output is that of its block.
IndexHeights ==
  mode = "idle" /\ ~ lost =>
    \A o \in UnspentIn(chain) \cap DOMAIN index.unspent :
      index.unspent[o] = HeightOf(chain, o.hash)
=============================================================================
