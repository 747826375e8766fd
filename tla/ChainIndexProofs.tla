-------------------------- MODULE ChainIndexProofs --------------------------
(***************************************************************************)
(* Proofs about the unspent and spent indexes of Chainstate, for any       *)
(* transactions, block bodies and bounds.  Until a crash takes back blocks *)
(* that the indexes had recorded, the indexes list the outputs of the      *)
(* active chain, and with the batch written they list those of the chain   *)
(* the view holds the coins of.                                            *)
(***************************************************************************)
EXTENDS ChainstateProofs

\* The indexes when they list chain c, except that the outputs R are taken
\* for spent.
UnspentOk(f, c, R) == /\ DOMAIN f = Less(UnspentIn(c), R)
                      /\ \A o \in Less(UnspentIn(c), R) : f[o] \in {0, HeightOf(c, o.hash)}
SpentOk(f, c, R) == /\ DOMAIN f = SpentIn(c) \cup R
                    /\ \A o \in SpentIn(c) : f[o] \in TxsOf(c) /\ o \in Inputs(f[o])
IndexOk(idx, c, R) == UnspentOk(idx.unspent, c, R) /\ SpentOk(idx.spent, c, R)

\* What the indexes will hold when the batch is written.
NewIndex == [unspent |-> Written(index.unspent, batch.unspent),
             spent |-> Written(index.spent, batch.spent)]
FirstInputs(tx, j) == {Vin[tx][i] : i \in 1..j}

IndexInv ==
  /\ batch = [unspent |-> batch.unspent, spent |-> batch.spent]
  /\ ~ lost =>
       /\ IndexOk(index, chain, {})
       /\ mode = "connect" => IndexOk(NewIndex, Plus(chain, body, pos - 1), {})
       /\ mode = "outputs" => IndexOk(NewIndex, Plus(Front(chain), body, pos), {})
       /\ mode = "inputs" => IndexOk(NewIndex, Plus(Front(chain), body, pos - 1),
                                     FirstInputs(body[pos], inp))

\* V is W without the keys S, and with val for them.
Erased(V, W, S) == /\ \A o : o \in DOMAIN V <=> o \in DOMAIN W /\ o \notin S
                   /\ \A o \in DOMAIN V : V[o] = W[o]
Added(V, W, S, val) == /\ \A o : o \in DOMAIN V <=> o \in DOMAIN W \/ o \in S
                       /\ \A o \in S : V[o] = val
                       /\ \A o \in DOMAIN W : o \notin S => V[o] = W[o]

\* What a batch will write.
LEMMA WrittenFacts ==
  ASSUME NEW f, NEW g
  PROVE  /\ \A o : o \in DOMAIN Written(f, g) <=>
                     o \in DOMAIN f \cup DOMAIN g /\ (o \in DOMAIN g => g[o] # Erase)
         /\ \A o \in DOMAIN Written(f, g) :
              Written(f, g)[o] = IF o \in DOMAIN g THEN g[o] ELSE f[o]
BY DEF Written

\* Keys put into a batch.
LEMMA PutFacts ==
  ASSUME NEW g, NEW S, NEW val
  PROVE  /\ \A o : o \in DOMAIN Put(g, S, val) <=> o \in DOMAIN g \/ o \in S
         /\ \A o \in DOMAIN Put(g, S, val) :
              Put(g, S, val)[o] = IF o \in S THEN val ELSE g[o]
BY DEF Put

\* A batch with more keys erased.
LEMMA PutErase ==
  ASSUME NEW f, NEW g, NEW S
  PROVE  Erased(Written(f, Put(g, S, Erase)), Written(f, g), S)
<1> DEFINE h == Put(g, S, Erase)
           V == Written(f, h)
           W == Written(f, g)
<1>1. /\ \A o : o \in DOMAIN h <=> o \in DOMAIN g \/ o \in S
      /\ \A o \in DOMAIN h : h[o] = IF o \in S THEN Erase ELSE g[o]
  BY PutFacts
<1>2. /\ \A o : o \in DOMAIN V <=> o \in DOMAIN f \cup DOMAIN h /\ (o \in DOMAIN h => h[o] # Erase)
      /\ \A o \in DOMAIN V : V[o] = IF o \in DOMAIN h THEN h[o] ELSE f[o]
  BY WrittenFacts, Zenon
<1>3. /\ \A o : o \in DOMAIN W <=> o \in DOMAIN f \cup DOMAIN g /\ (o \in DOMAIN g => g[o] # Erase)
      /\ \A o \in DOMAIN W : W[o] = IF o \in DOMAIN g THEN g[o] ELSE f[o]
  BY WrittenFacts
<1> HIDE DEF h, V, W
<1>4. Erased(V, W, S)
  BY <1>1, <1>2, <1>3 DEF Erased
<1> QED  BY <1>4 DEF V, W, h

\* A batch with more keys set.
LEMMA PutValue ==
  ASSUME NEW f, NEW g, NEW S, NEW val, val # Erase
  PROVE  Added(Written(f, Put(g, S, val)), Written(f, g), S, val)
<1> DEFINE h == Put(g, S, val)
           V == Written(f, h)
           W == Written(f, g)
<1>1. /\ \A o : o \in DOMAIN h <=> o \in DOMAIN g \/ o \in S
      /\ \A o \in DOMAIN h : h[o] = IF o \in S THEN val ELSE g[o]
  BY PutFacts
<1>2. /\ \A o : o \in DOMAIN V <=> o \in DOMAIN f \cup DOMAIN h /\ (o \in DOMAIN h => h[o] # Erase)
      /\ \A o \in DOMAIN V : V[o] = IF o \in DOMAIN h THEN h[o] ELSE f[o]
  BY WrittenFacts, Zenon
<1>3. /\ \A o : o \in DOMAIN W <=> o \in DOMAIN f \cup DOMAIN g /\ (o \in DOMAIN g => g[o] # Erase)
      /\ \A o \in DOMAIN W : W[o] = IF o \in DOMAIN g THEN g[o] ELSE f[o]
  BY WrittenFacts
<1> HIDE DEF h, V, W
<1>4. Added(V, W, S, val)
  BY <1>1, <1>2, <1>3 DEF Added
<1> QED  BY <1>4 DEF V, W, h

\* An empty batch writes nothing.
LEMMA PutNone ==
  ASSUME NEW f
  PROVE  Erased(Written(f, NoRecords), f, {})
<1>1. DOMAIN NoRecords = {}
  BY DEF NoRecords
<1> QED  BY <1>1, WrittenFacts DEF Erased

\* The unspent outputs of a chain.
LEMMA UnspentFacts ==
  ASSUME NEW c
  PROVE  /\ \A o \in UnspentIn(c) : o.hash \in TxsOf(c) /\ o \in Outputs(o.hash)
         /\ \A t \in TxsOf(c) : \A o \in Outputs(t) : o \in UnspentIn(c) <=> o \notin SpentIn(c)
         /\ \A t : \A o \in Outputs(t) : o.hash = t
<1>1. \A t : \A o \in Outputs(t) : o.hash = t
  BY DEF Outputs
<1>2. \A o : o \in UnspentIn(c) <=> (\E t \in TxsOf(c) : o \in Outputs(t)) /\ o \notin SpentIn(c)
  <2> DEFINE T == TxsOf(c)
             U == UNION {Outputs(t) : t \in T}
  <2>1. UnspentIn(c) = U \ SpentIn(c)
    BY DEF UnspentIn
  <2> HIDE DEF T
  <2>2. ASSUME NEW o PROVE o \in U <=> \E t \in T : o \in Outputs(t)
    OBVIOUS
  <2> HIDE DEF U
  <2> QED  BY <2>1, <2>2 DEF T
<1> QED  BY <1>1, <1>2

\* The unspent outputs with one transaction more.
LEMMA UnspentStep ==
  ASSUME NEW P, NEW Q, NEW n, NEW tx, Adds(P, Q, n, tx)
  PROVE  /\ \A o : o \in UnspentIn(Q) <=> (o \in UnspentIn(P) /\ o \notin Inputs(tx)) \/ o \in Outputs(tx)
         /\ \A o \in Outputs(tx) : o \notin UnspentIn(P) /\ o.hash = tx
         /\ \A o \in Inputs(tx) : o \in UnspentIn(P) /\ o \notin Outputs(tx)
         /\ \A o \in UnspentIn(P) : HeightOf(Q, o.hash) = HeightOf(P, o.hash)
<1>1. /\ tx \in Txid /\ tx \notin TxsOf(P) /\ TxsOf(Q) = TxsOf(P) \cup {tx}
      /\ SpentIn(Q) = SpentIn(P) \cup Inputs(tx) /\ SpentIn(P) \cap Inputs(tx) = {}
      /\ \A m : [hash |-> tx, n |-> m] \notin SpentIn(Q)
      /\ \A o \in Inputs(tx) : o.hash \in TxsOf(P) /\ o.n \in Vout[o.hash]
      /\ \A t \in TxsOf(P) : HeightOf(Q, t) = HeightOf(P, t)
  BY Zenon DEF Adds
<1>2. \A o \in Outputs(tx) : o \notin SpentIn(Q) /\ o.hash = tx
  BY <1>1 DEF Outputs
<1>3. \A o \in Inputs(tx) : o \in Outputs(o.hash)
  BY <1>1, VinFacts DEF Outputs
<1>4. \A o \in Inputs(tx) : o \in UnspentIn(P) /\ o.hash # tx
  BY <1>1, <1>3, UnspentFacts
<1>5. \A o \in UnspentIn(P) : o.hash \in TxsOf(P) /\ o \in Outputs(o.hash) /\ o \notin SpentIn(P)
  BY UnspentFacts
<1>6. \A o \in UnspentIn(Q) : o.hash \in TxsOf(Q) /\ o \in Outputs(o.hash) /\ o \notin SpentIn(Q)
  BY UnspentFacts
<1>7. ASSUME NEW o, o \in UnspentIn(Q)
      PROVE  (o \in UnspentIn(P) /\ o \notin Inputs(tx)) \/ o \in Outputs(tx)
  <2>1. CASE o.hash = tx
    BY <1>6, <1>7, <2>1
  <2>2. CASE o.hash # tx
    <3>1. o.hash \in TxsOf(P) /\ o \in Outputs(o.hash) /\ o \notin SpentIn(P) /\ o \notin Inputs(tx)
      BY <1>1, <1>6, <1>7, <2>2, Zenon
    <3> QED  BY <3>1, UnspentFacts
  <2> QED  BY <2>1, <2>2
<1>8. ASSUME NEW o, o \in UnspentIn(P), o \notin Inputs(tx) PROVE o \in UnspentIn(Q)
  <2>1. o.hash \in TxsOf(Q) /\ o \in Outputs(o.hash) /\ o \notin SpentIn(Q)
    BY <1>1, <1>5, <1>8, Zenon
  <2> QED  BY <2>1, UnspentFacts
<1>9. ASSUME NEW o \in Outputs(tx) PROVE o \in UnspentIn(Q)
  BY <1>1, <1>2, UnspentFacts, Zenon
<1> QED  BY <1>1, <1>2, <1>4, <1>5, <1>7, <1>8, <1>9, Zenon

\* The indexes listing a chain, by key.
LEMMA OkFacts ==
  ASSUME NEW f, NEW c, NEW R
  PROVE  /\ UnspentOk(f, c, R) <=>
              /\ \A o : o \in DOMAIN f <=> o \in UnspentIn(c) /\ o \notin R
              /\ \A o \in DOMAIN f : f[o] \in {0, HeightOf(c, o.hash)}
         /\ SpentOk(f, c, R) <=>
              /\ \A o : o \in DOMAIN f <=> o \in SpentIn(c) \/ o \in R
              /\ \A o \in SpentIn(c) : f[o] \in TxsOf(c) /\ o \in Inputs(f[o])
<1>1. DOMAIN f = Less(UnspentIn(c), R) <=> \A o : o \in DOMAIN f <=> o \in UnspentIn(c) /\ o \notin R
  BY DEF Less
<1>2. DOMAIN f = SpentIn(c) \cup R <=> \A o : o \in DOMAIN f <=> o \in SpentIn(c) \/ o \in R
  OBVIOUS
<1> QED  BY <1>1, <1>2 DEF UnspentOk, SpentOk

\* The same function on its domain lists the same chain, and so does any
\* function for a chain with the same transactions.
LEMMA OkSame ==
  ASSUME NEW f, NEW g, NEW c, NEW d, Erased(f, g, {}),
         TxsOf(c) = TxsOf(d), SpentIn(c) = SpentIn(d),
         \A t \in TxsOf(c) : HeightOf(c, t) = HeightOf(d, t)
  PROVE  /\ UnspentOk(g, d, {}) => UnspentOk(f, c, {})
         /\ SpentOk(g, d, {}) => SpentOk(f, c, {})
<1>1. (\A o : o \in DOMAIN f <=> o \in DOMAIN g) /\ \A o \in DOMAIN f : f[o] = g[o]
  BY DEF Erased
<1>2. UnspentIn(c) = UnspentIn(d)
  BY DEF UnspentIn
<1>3. \A o \in UnspentIn(c) : o.hash \in TxsOf(c)
  BY UnspentFacts
<1>4. ASSUME UnspentOk(g, d, {}) PROVE UnspentOk(f, c, {})
  <2>1. /\ \A o : o \in DOMAIN g <=> o \in UnspentIn(d)
        /\ \A o \in DOMAIN g : g[o] \in {0, HeightOf(d, o.hash)}
    BY <1>4, OkFacts
  <2>2. \A o : o \in DOMAIN f <=> o \in UnspentIn(c) /\ o \notin {}
    BY <1>1, <1>2, <2>1, Zenon
  <2>3. \A o \in DOMAIN f : f[o] \in {0, HeightOf(c, o.hash)}
    BY <1>1, <1>2, <1>3, <2>1, Zenon
  <2> QED  BY <2>2, <2>3, OkFacts, Zenon
<1>5. ASSUME SpentOk(g, d, {}) PROVE SpentOk(f, c, {})
  <2>1. /\ \A o : o \in DOMAIN g <=> o \in SpentIn(d)
        /\ \A o \in SpentIn(d) : g[o] \in TxsOf(d) /\ o \in Inputs(g[o])
    BY <1>5, OkFacts
  <2>2. \A o : o \in DOMAIN f <=> o \in SpentIn(c) \/ o \in {}
    BY <1>1, <2>1
  <2>3. \A o \in SpentIn(c) : f[o] \in TxsOf(c) /\ o \in Inputs(f[o])
    BY <1>1, <2>1
  <2> QED  BY <2>2, <2>3, OkFacts, Zenon
<1> QED  BY <1>4, <1>5

\* UpdateCoins, in the unspent index.
LEMMA UnspentUp ==
  ASSUME NEW P, NEW Q, NEW n, NEW tx, Adds(P, Q, n, tx),
         NEW W, NEW X, NEW V, UnspentOk(W, P, {}),
         Erased(X, W, Inputs(tx)), Added(V, X, Outputs(tx), n)
  PROVE  UnspentOk(V, Q, {})
<1>1. /\ \A o : o \in UnspentIn(Q) <=> (o \in UnspentIn(P) /\ o \notin Inputs(tx)) \/ o \in Outputs(tx)
      /\ \A o \in Outputs(tx) : o \notin UnspentIn(P) /\ o.hash = tx
      /\ \A o \in UnspentIn(P) : HeightOf(Q, o.hash) = HeightOf(P, o.hash)
      /\ HeightOf(Q, tx) = n
  BY UnspentStep, Zenon DEF Adds
<1>2. /\ \A o : o \in DOMAIN W <=> o \in UnspentIn(P)
      /\ \A o \in DOMAIN W : W[o] \in {0, HeightOf(P, o.hash)}
  BY OkFacts
<1>3. /\ \A o : o \in DOMAIN X <=> o \in DOMAIN W /\ o \notin Inputs(tx)
      /\ \A o \in DOMAIN X : X[o] = W[o]
  BY Zenon DEF Erased
<1>4. /\ \A o : o \in DOMAIN V <=> o \in DOMAIN X \/ o \in Outputs(tx)
      /\ \A o \in Outputs(tx) : V[o] = n
      /\ \A o \in DOMAIN X : o \notin Outputs(tx) => V[o] = X[o]
  BY Zenon DEF Added
<1>5. \A o : o \in DOMAIN V <=> o \in UnspentIn(Q) /\ o \notin {}
  BY <1>1, <1>2, <1>3, <1>4, Zenon
<1>6. ASSUME NEW o \in DOMAIN V PROVE V[o] \in {0, HeightOf(Q, o.hash)}
  <2>1. CASE o \in Outputs(tx)
    BY <1>1, <1>4, <2>1, Zenon
  <2>2. CASE o \notin Outputs(tx)
    BY <1>1, <1>2, <1>3, <1>4, <2>2, Zenon
  <2> QED  BY <2>1, <2>2
<1> QED  BY <1>5, <1>6, OkFacts

\* UpdateCoins, in the spent index.
LEMMA SpentUp ==
  ASSUME NEW P, NEW Q, NEW n, NEW tx, Adds(P, Q, n, tx),
         NEW W, NEW V, SpentOk(W, P, {}), Added(V, W, Inputs(tx), tx)
  PROVE  SpentOk(V, Q, {})
<1>1. /\ TxsOf(Q) = TxsOf(P) \cup {tx} /\ SpentIn(Q) = SpentIn(P) \cup Inputs(tx)
      /\ SpentIn(P) \cap Inputs(tx) = {}
  BY Zenon DEF Adds
<1>2. /\ \A o : o \in DOMAIN W <=> o \in SpentIn(P)
      /\ \A o \in SpentIn(P) : W[o] \in TxsOf(P) /\ o \in Inputs(W[o])
  BY OkFacts
<1>3. /\ \A o : o \in DOMAIN V <=> o \in DOMAIN W \/ o \in Inputs(tx)
      /\ \A o \in Inputs(tx) : V[o] = tx
      /\ \A o \in DOMAIN W : o \notin Inputs(tx) => V[o] = W[o]
  BY Zenon DEF Added
<1>4. \A o : o \in DOMAIN V <=> o \in SpentIn(Q) \/ o \in {}
  BY <1>1, <1>2, <1>3, Zenon
<1>5. \A o \in SpentIn(Q) : V[o] \in TxsOf(Q) /\ o \in Inputs(V[o])
  BY <1>1, <1>2, <1>3, Zenon
<1> QED  BY <1>4, <1>5, OkFacts

\* RemoveOutputs, in the unspent index.
LEMMA UnspentDown ==
  ASSUME NEW P, NEW Q, NEW n, NEW tx, Adds(P, Q, n, tx),
         NEW W, NEW V, UnspentOk(W, Q, {}), Erased(V, W, Outputs(tx))
  PROVE  UnspentOk(V, P, Inputs(tx))
<1>1. /\ \A o : o \in UnspentIn(Q) <=> (o \in UnspentIn(P) /\ o \notin Inputs(tx)) \/ o \in Outputs(tx)
      /\ \A o \in Outputs(tx) : o \notin UnspentIn(P)
      /\ \A o \in UnspentIn(P) : HeightOf(Q, o.hash) = HeightOf(P, o.hash)
  BY UnspentStep
<1>2. /\ \A o : o \in DOMAIN W <=> o \in UnspentIn(Q)
      /\ \A o \in DOMAIN W : W[o] \in {0, HeightOf(Q, o.hash)}
  BY OkFacts
<1>3. /\ \A o : o \in DOMAIN V <=> o \in DOMAIN W /\ o \notin Outputs(tx)
      /\ \A o \in DOMAIN V : V[o] = W[o]
  BY DEF Erased
<1>4. \A o : o \in DOMAIN V <=> o \in UnspentIn(P) /\ o \notin Inputs(tx)
  BY <1>1, <1>2, <1>3, Zenon
<1>5. \A o \in DOMAIN V : V[o] \in {0, HeightOf(P, o.hash)}
  BY <1>1, <1>2, <1>3, <1>4, Zenon
<1> QED  BY <1>4, <1>5, OkFacts

\* RemoveOutputs, in the spent index: no other transaction spends an input
\* of tx, so the records of the others are not its own.
LEMMA SpentDown ==
  ASSUME NEW P, NEW Q, NEW n, NEW tx, Adds(P, Q, n, tx),
         NEW W, SpentOk(W, Q, {})
  PROVE  SpentOk(W, P, Inputs(tx))
<1>1. /\ TxsOf(Q) = TxsOf(P) \cup {tx} /\ SpentIn(Q) = SpentIn(P) \cup Inputs(tx)
      /\ SpentIn(P) \cap Inputs(tx) = {}
  BY Zenon DEF Adds
<1>2. /\ \A o : o \in DOMAIN W <=> o \in SpentIn(Q)
      /\ \A o \in SpentIn(Q) : W[o] \in TxsOf(Q) /\ o \in Inputs(W[o])
  BY OkFacts
<1>3. \A o : o \in DOMAIN W <=> o \in SpentIn(P) \/ o \in Inputs(tx)
  BY <1>1, <1>2
<1>4. \A o \in SpentIn(P) : W[o] \in TxsOf(P) /\ o \in Inputs(W[o])
  BY <1>1, <1>2
<1> QED  BY <1>3, <1>4, OkFacts

\* The inputs of a transaction one by one.
LEMMA FirstInputsFacts ==
  ASSUME NEW tx \in Txid
  PROVE  /\ FirstInputs(tx, 0) = {} /\ FirstInputs(tx, Len(Vin[tx])) = Inputs(tx)
         /\ \A j \in 1..Len(Vin[tx]) :
              /\ \A o : o \in FirstInputs(tx, j) <=> o \in FirstInputs(tx, j - 1) \/ o = Vin[tx][j]
              /\ Vin[tx][j] \notin FirstInputs(tx, j - 1)
<1> DEFINE q == Vin[tx]
<1>1. Len(q) \in Nat /\ \A j, k \in 1..Len(q) : q[j] = q[k] => j = k
  BY VinFacts
<1>2. \A j : \A o : o \in FirstInputs(tx, j) <=> \E i \in 1..j : o = q[i]
  BY DEF FirstInputs
<1>3. FirstInputs(tx, Len(q)) = Inputs(tx)
  BY DEF FirstInputs, Inputs
<1> HIDE DEF q
<1>4. FirstInputs(tx, 0) = {}
  BY <1>2
<1>5. ASSUME NEW j \in 1..Len(q)
      PROVE  /\ \A o : o \in FirstInputs(tx, j) <=> o \in FirstInputs(tx, j - 1) \/ o = q[j]
             /\ q[j] \notin FirstInputs(tx, j - 1)
  <2>1. \A i : i \in 1..j <=> i \in 1..(j - 1) \/ i = j
    BY <1>1
  <2>2. \A i \in 1..(j - 1) : i \in 1..Len(q) /\ i # j
    BY <1>1
  <2> QED  BY <1>1, <1>2, <2>1, <2>2
<1> QED  BY <1>3, <1>4, <1>5 DEF q

\* ApplyTxInUndo, in the unspent index.
LEMMA UnspentBack ==
  ASSUME NEW P, NEW R, NEW S, NEW out, NEW h, NEW W, NEW V,
         UnspentOk(W, P, R), Added(V, W, {out}, h), out \in UnspentIn(P),
         h \in {0, HeightOf(P, out.hash)},
         \A o : o \in R <=> o \in S \/ o = out, out \notin S
  PROVE  UnspentOk(V, P, S)
<1>1. /\ \A o : o \in DOMAIN W <=> o \in UnspentIn(P) /\ o \notin R
      /\ \A o \in DOMAIN W : W[o] \in {0, HeightOf(P, o.hash)}
  BY OkFacts, Zenon
<1>2. /\ \A o : o \in DOMAIN V <=> o \in DOMAIN W \/ o = out
      /\ V[out] = h
      /\ \A o \in DOMAIN W : o # out => V[o] = W[o]
  BY DEF Added
<1>3. \A o : o \in DOMAIN V <=> o \in UnspentIn(P) /\ o \notin S
  BY <1>1, <1>2
<1>4. \A o \in DOMAIN V : V[o] \in {0, HeightOf(P, o.hash)}
  BY <1>1, <1>2, Zenon
<1> QED  BY <1>3, <1>4, OkFacts, Zenon

\* ApplyTxInUndo, in the spent index.
LEMMA SpentBack ==
  ASSUME NEW P, NEW R, NEW S, NEW out, NEW W, NEW V,
         SpentOk(W, P, R), Erased(V, W, {out}), out \notin SpentIn(P),
         \A o : o \in R <=> o \in S \/ o = out, out \notin S
  PROVE  SpentOk(V, P, S)
<1>1. /\ \A o : o \in DOMAIN W <=> o \in SpentIn(P) \/ o \in R
      /\ \A o \in SpentIn(P) : W[o] \in TxsOf(P) /\ o \in Inputs(W[o])
  BY OkFacts, Zenon
<1>2. /\ \A o : o \in DOMAIN V <=> o \in DOMAIN W /\ o # out
      /\ \A o \in DOMAIN V : V[o] = W[o]
  BY DEF Erased
<1>3. \A o : o \in DOMAIN V <=> o \in SpentIn(P) \/ o \in S
  BY <1>1, <1>2, Zenon
<1>4. \A o \in SpentIn(P) : V[o] \in TxsOf(P) /\ o \in Inputs(V[o])
  BY <1>1, <1>2, Zenon
<1> QED  BY <1>3, <1>4, OkFacts, Zenon

\* An empty batch lists what the indexes list, also for the chain with an
\* empty block.
LEMMA EmptyBatch ==
  ASSUME NEW c, Good(c), NEW b \in Seq(Txid), NEW idx, IndexOk(idx, c, {}),
         NEW new, new.unspent = Written(idx.unspent, NoRecords),
         new.spent = Written(idx.spent, NoRecords)
  PROVE  IndexOk(new, c, {}) /\ IndexOk(new, Plus(c, b, 0), {})
<1> DEFINE P == Plus(c, b, 0)
<1>1. c \in Chains
  BY DEF Good
<1>2. /\ TxsOf(P) = TxsOf(c) /\ SpentIn(P) = SpentIn(c)
      /\ \A t \in TxsOf(c) : HeightOf(P, t) = HeightOf(c, t)
  BY <1>1, PlusZero, Zenon
<1> HIDE DEF P
<1>3. Erased(new.unspent, idx.unspent, {}) /\ Erased(new.spent, idx.spent, {})
  BY PutNone, Zenon
<1>4. UnspentOk(new.unspent, P, {}) /\ SpentOk(new.spent, P, {})
  BY <1>2, <1>3, OkSame, Zenon DEF IndexOk
<1>5. UnspentOk(new.unspent, c, {}) /\ SpentOk(new.spent, c, {})
  BY <1>3, OkSame, Zenon DEF IndexOk
<1> QED  BY <1>4, <1>5, Zenon DEF IndexOk, P

\* The chain below a block of which nothing is left.
LEMMA ZeroIndex ==
  ASSUME NEW c, Good(c), NEW b \in Seq(Txid), NEW idx, IndexOk(idx, Plus(c, b, 0), {})
  PROVE  IndexOk(idx, c, {})
<1> DEFINE P == Plus(c, b, 0)
<1>1. c \in Chains
  BY DEF Good
<1>2. /\ TxsOf(P) = TxsOf(c) /\ SpentIn(P) = SpentIn(c)
      /\ \A t \in TxsOf(c) : HeightOf(c, t) = HeightOf(P, t)
  BY <1>1, PlusZero
<1>3. IndexOk(idx, P, {})
  OBVIOUS
<1> HIDE DEF P
<1>4. Erased(idx.unspent, idx.unspent, {}) /\ Erased(idx.spent, idx.spent, {})
  BY DEF Erased
<1> QED  BY <1>2, <1>3, <1>4, OkSame, Zenon DEF IndexOk

\* Init: empty indexes for an empty chain.
LEMMA InitIndex ==
  ASSUME Init
  PROVE  IndexInv
<1>1. /\ chain = <<>> /\ mode = "idle" /\ index = NoBatch /\ batch = NoBatch
  BY DEF Init
<1>2. UnspentIn(<<>>) = {}
  BY EmptyChain DEF UnspentIn
<1>3. DOMAIN NoRecords = {}
  BY DEF NoRecords
<1>4. UnspentOk(NoRecords, <<>>, {}) /\ SpentOk(NoRecords, <<>>, {})
  BY <1>2, <1>3, EmptyChain, OkFacts
<1>5. IndexOk(index, chain, {})
  BY <1>1, <1>4 DEF IndexOk, NoBatch
<1> QED  BY <1>1, <1>5 DEF IndexInv, NoBatch

\* ConnectBlock and DisconnectBlock start with an empty batch.
LEMMA ConnectBlockIndex ==
  ASSUME IndInv, IndexInv, NEW b \in Bodies, ConnectBlock(b)
  PROVE  IndexInv'
<1>1. /\ mode' = "connect" /\ body' = b /\ pos' = 1 /\ batch' = NoBatch /\ chain' = chain
      /\ index' = index /\ lost' = lost
  BY DEF ConnectBlock, Start, tip
<1>2. Good(chain) /\ b \in Seq(Txid)
  BY BodyFacts DEF IndInv, TipInv
<1>3. /\ NewIndex'.unspent = Written(index.unspent, NoRecords)
      /\ NewIndex'.spent = Written(index.spent, NoRecords)
  BY <1>1 DEF NewIndex, NoBatch
<1>4. ~ lost => IndexOk(index, chain, {}) /\ IndexOk(NewIndex', Plus(chain, b, 0), {})
  BY <1>2, <1>3, EmptyBatch DEF IndexInv
<1>5. 1 - 1 = 0
  OBVIOUS
<1> HIDE DEF NewIndex
<1>6. batch' = [unspent |-> batch'.unspent, spent |-> batch'.spent]
  BY <1>1 DEF NoBatch
<1> QED  BY <1>1, <1>4, <1>5, <1>6 DEF IndexInv

\* UpdateCoins erases the inputs and adds the outputs.
LEMMA UpdateCoinsIndex ==
  ASSUME IndInv, IndexInv, UpdateCoins, IndInv'
  PROVE  IndexInv'
<1>1. /\ mode = "connect" /\ mode' = "connect" /\ body' = body /\ pos' = pos + 1
      /\ chain' = chain /\ index' = index /\ lost' = lost /\ pos <= Len(body)
  BY Zenon DEF UpdateCoins, tip
<1>2. body \in Bodies /\ pos \in 1..(Len(body) + 1) /\ Good(Plus(chain, body, pos' - 1))
  BY <1>1, Zenon DEF IndInv, ConnectInv
<1>3. body \in Seq(Txid) /\ Len(body) \in Nat \ {0} /\ chain \in Chains
  BY <1>2, BodyFacts DEF IndInv, TipInv, Good
<1>4. PICK k \in 0..(Len(body) - 1) : pos = k + 1
  BY <1>1, <1>2, <1>3, Pred, Zenon
<1> DEFINE tx == body[k + 1]
           P == Plus(chain, body, k)
           Q == Plus(chain, body, k + 1)
           n == Len(chain) + 1
           U == Put(batch.unspent, Inputs(tx), Erase)
<1>5. /\ pos - 1 = k /\ pos' - 1 = k + 1 /\ body[pos] = tx /\ n \in Nat
  BY <1>1, <1>3, <1>4, TxsFacts
<1>6. Adds(P, Q, n, tx)
  BY <1>2, <1>3, <1>5, PlusDown
<1>7. batch' = [unspent |-> Put(U, Outputs(tx), n), spent |-> Put(batch.spent, Inputs(tx), tx)]
  <2>1. Height = n
    BY <1>1 DEF Height
  <2>2. LET u == body[pos] IN
        batch' = [unspent |-> Put(Put(batch.unspent, Inputs(u), Erase), Outputs(u), Height),
                  spent |-> Put(batch.spent, Inputs(u), u)]
    BY Zenon DEF UpdateCoins
  <2> QED  BY <1>5, <2>1, <2>2
<1> HIDE DEF P, Q, n, tx, U
<1>8. /\ batch' = [unspent |-> batch'.unspent, spent |-> batch'.spent]
      /\ batch'.unspent = Put(U, Outputs(tx), n)
      /\ batch'.spent = Put(batch.spent, Inputs(tx), tx)
  BY <1>7
<1>9. n # Erase /\ tx # Erase
  BY <1>5, <1>6, EraseIsNoValue, Zenon DEF Adds
<1>10. ASSUME ~ lost PROVE IndexOk(NewIndex', Q, {})
  <2> DEFINE W == Written(index.unspent, batch.unspent)
             X == Written(index.unspent, U)
             V == Written(index.unspent, Put(U, Outputs(tx), n))
             Y == Written(index.spent, batch.spent)
             Z == Written(index.spent, Put(batch.spent, Inputs(tx), tx))
  <2>1. UnspentOk(W, P, {}) /\ SpentOk(Y, P, {})
    BY <1>1, <1>5, <1>10 DEF IndexInv, IndexOk, NewIndex, P
  <2>2. Erased(X, W, Inputs(tx)) /\ Added(V, X, Outputs(tx), n) /\ Added(Z, Y, Inputs(tx), tx)
    BY <1>9, PutErase, PutValue, Zenon DEF U
  <2>3. NewIndex'.unspent = V /\ NewIndex'.spent = Z
    BY <1>1, <1>8 DEF NewIndex
  <2> HIDE DEF W, X, V, Y, Z
  <2>4. UnspentOk(V, Q, {}) /\ SpentOk(Z, Q, {})
    BY <1>6, <2>1, <2>2, UnspentUp, SpentUp
  <2> QED  BY <2>3, <2>4 DEF IndexOk
<1> QED  BY <1>1, <1>5, <1>8, <1>10 DEF IndexInv, Q

\* RejectBlock leaves the indexes alone.
LEMMA RejectBlockIndex ==
  ASSUME IndInv, IndexInv, RejectBlock
  PROVE  IndexInv'
<1>1. mode' = "idle" /\ batch' = NoBatch /\ chain' = chain /\ index' = index /\ lost' = lost
  BY DEF RejectBlock, NoWork, tip
<1> QED  BY <1>1 DEF IndexInv, NoBatch

\* ConnectTip writes the batch of the whole block.
LEMMA ConnectTipIndex ==
  ASSUME IndInv, IndexInv, ConnectTip
  PROVE  IndexInv'
<1>1. /\ mode = "connect" /\ pos > Len(body) /\ mode' = "idle" /\ batch' = NoBatch
      /\ chain' = Append(chain, body) /\ index' = NewIndex /\ lost' = lost
  BY DEF ConnectTip, NoWork, WriteIndexes, NewIndex
<1>2. body \in Bodies /\ pos \in 1..(Len(body) + 1)
  BY <1>1, Zenon DEF IndInv, ConnectInv
<1>3. body \in Seq(Txid) /\ Len(body) \in Nat \ {0} /\ chain \in Chains
  BY <1>2, BodyFacts DEF IndInv, TipInv, Good
<1>4. pos - 1 = Len(body)
  BY <1>1, <1>2, <1>3
<1>5. Plus(chain, body, Len(body)) = Append(chain, body)
  BY <1>3, PlusFull, SMTT(30)
<1>6. ~ lost => IndexOk(NewIndex, Append(chain, body), {})
  BY <1>1, <1>4, <1>5, Zenon DEF IndexInv
<1> QED  BY <1>1, <1>6 DEF IndexInv, NoBatch

\* DisconnectBlock starts with an empty batch.
LEMMA DisconnectBlockIndex ==
  ASSUME IndInv, IndexInv, DisconnectBlock
  PROVE  IndexInv'
<1>1. /\ mode' = "outputs" /\ body' = Last(chain) /\ pos' = Len(Last(chain)) /\ chain # <<>>
      /\ batch' = NoBatch /\ chain' = chain /\ index' = index /\ lost' = lost
  BY DEF DisconnectBlock, Start, Tip, Last, tip
<1>2. Plus(Front(chain), Last(chain), Len(Last(chain))) = chain /\ Last(chain) \in Seq(Txid)
  BY <1>1, TipFacts, Zenon
<1>3. /\ NewIndex'.unspent = Written(index.unspent, NoRecords)
      /\ NewIndex'.spent = Written(index.spent, NoRecords)
  BY <1>1, Zenon DEF NewIndex, NoBatch
<1>4. ~ lost => IndexOk(index, chain, {}) /\ IndexOk(NewIndex', chain, {})
  BY <1>2, <1>3, EmptyBatch DEF IndexInv, IndInv, TipInv
<1>5. batch' = [unspent |-> batch'.unspent, spent |-> batch'.spent]
  BY <1>1 DEF NoBatch
<1> QED  BY <1>1, <1>2, <1>4, <1>5 DEF IndexInv

\* The loop goes on with the next input or the next transaction.
LEMMA ContinueIndex ==
  ASSUME IndexInv, chain' = chain, index' = index, lost' = lost, body' = body,
         body \in Seq(Txid), NEW k \in 0..(Len(body) - 1), pos = k + 1,
         NEW left \in 0..Len(Vin[body[k + 1]]), Continue(left),
         (batch = [unspent |-> batch.unspent, spent |-> batch.spent])',
         ~ lost => IndexOk(NewIndex', Plus(Front(chain), body, k), FirstInputs(body[k + 1], left))
  PROVE  IndexInv'
<1>1. body[k + 1] \in Txid /\ Len(body) \in Nat
  OBVIOUS
<1>2. CASE left = 0
  <2>1. mode' = "outputs" /\ pos' = k
    BY <1>2 DEF Continue
  <2>2. ~ lost => IndexOk(NewIndex', Plus(Front(chain), body, k), {})
    BY <1>1, <1>2, FirstInputsFacts, Zenon
  <2> QED  BY <2>1, <2>2 DEF IndexInv
<1>3. CASE left # 0
  <2>1. mode' = "inputs" /\ pos' = k + 1 /\ inp' = left
    BY <1>3 DEF Continue
  <2>2. (k + 1) - 1 = k
    OBVIOUS
  <2> QED  BY <2>1, <2>2 DEF IndexInv
<1> QED  BY <1>2, <1>3

\* RemoveOutputs erases the outputs.
LEMMA RemoveOutputsIndex ==
  ASSUME IndInv, IndexInv, RemoveOutputs
  PROVE  IndexInv'
<1>1. /\ mode = "outputs" /\ pos > 0 /\ body' = body
      /\ batch' = [batch EXCEPT !.unspent = Put(@, Outputs(body[pos]), Erase)]
      /\ Continue(Len(Vin[body[pos]]))
      /\ chain' = chain /\ index' = index /\ lost' = lost
  BY DEF RemoveOutputs, tip
<1>2. /\ chain # <<>> /\ body = Last(chain) /\ pos \in 0..Len(body)
      /\ Good(Plus(Front(chain), body, pos))
  BY <1>1 DEF IndInv, OutputsInv
<1>3. Front(chain) \in Chains /\ body \in Seq(Txid) /\ Len(body) \in Nat
  BY <1>2, TipFacts, Zenon
<1>4. PICK k \in 0..(Len(body) - 1) : pos = k + 1
  BY <1>1, <1>2, <1>3, Pred, Zenon
<1> DEFINE tx == body[k + 1]
           P == Plus(Front(chain), body, k)
           Q == Plus(Front(chain), body, k + 1)
           n == Len(Front(chain)) + 1
           m == Len(Vin[tx])
<1>5. Good(Q) /\ body[pos] = tx
  BY <1>2, <1>4
<1>6. Adds(P, Q, n, tx)
  BY <1>3, <1>5, PlusDown
<1>7. tx \in Txid /\ m \in 0..m /\ Continue(m)
  BY <1>1, <1>5, <1>6, VinFacts DEF Adds
<1>8. /\ batch' = [unspent |-> batch'.unspent, spent |-> batch'.spent]
      /\ batch'.unspent = Put(batch.unspent, Outputs(tx), Erase) /\ batch'.spent = batch.spent
  <2>1. batch = [unspent |-> batch.unspent, spent |-> batch.spent]
    BY DEF IndexInv
  <2>2. batch' = [batch EXCEPT !.unspent = Put(batch.unspent, Outputs(tx), Erase)]
    BY <1>1, <1>5
  <2> HIDE DEF tx
  <2> QED  BY <2>1, <2>2
<1>9. ASSUME ~ lost PROVE IndexOk(NewIndex', P, FirstInputs(tx, m))
  <2> DEFINE W == Written(index.unspent, batch.unspent)
             V == Written(index.unspent, Put(batch.unspent, Outputs(tx), Erase))
             Y == Written(index.spent, batch.spent)
  <2>1. UnspentOk(W, Q, {}) /\ SpentOk(Y, Q, {})
    BY <1>1, <1>4, <1>9 DEF IndexInv, IndexOk, NewIndex
  <2>2. Erased(V, W, Outputs(tx))
    BY PutErase
  <2>3. NewIndex'.unspent = V /\ NewIndex'.spent = Y
    BY <1>1, <1>8 DEF NewIndex
  <2>4. FirstInputs(tx, m) = Inputs(tx)
    BY <1>7, FirstInputsFacts
  <2> HIDE DEF W, V, Y, P, Q, n, tx
  <2>5. UnspentOk(V, P, Inputs(tx)) /\ SpentOk(Y, P, Inputs(tx))
    BY <1>6, <2>1, <2>2, UnspentDown, SpentDown
  <2> QED  BY <2>3, <2>4, <2>5 DEF IndexOk
<1> QED  BY <1>1, <1>3, <1>4, <1>7, <1>8, <1>9, ContinueIndex

\* ApplyTxInUndo moves the output back to the unspent index, with the height
\* of the undo record.
LEMMA ApplyTxInUndoIndex ==
  ASSUME IndInv, IndexInv, ApplyTxInUndo
  PROVE  IndexInv'
<1> DEFINE out == Vin[body[pos]][inp]
           rec == undo[chain][<<pos, inp>>]
<1>1. /\ mode = "inputs" /\ body' = body /\ Continue(inp - 1)
      /\ batch' = [unspent |-> Put(batch.unspent, {out}, rec.nHeight),
                   spent |-> Put(batch.spent, {out}, Erase)]
      /\ chain' = chain /\ index' = index /\ lost' = lost
  BY Zenon DEF ApplyTxInUndo, tip
<1>2. /\ chain # <<>> /\ body = Last(chain) /\ pos \in 1..Len(body)
      /\ inp \in 1..Len(Vin[body[pos]])
      /\ Good(Plus(Front(chain), body, pos))
  BY <1>1, Zenon DEF IndInv, InputsInv
<1>3. /\ Front(chain) \in Chains /\ body \in Seq(Txid) /\ Len(body) \in Nat
      /\ RecsOk(undo[chain], Front(chain), body, Len(body))
  BY <1>2, TipFacts, Zenon
<1>4. PICK k \in 0..(Len(body) - 1) : pos = k + 1
  BY <1>2, <1>3, Pred, Zenon
<1>5. pos - 1 = k
  BY <1>4
<1> DEFINE tx == body[k + 1]
           P == Plus(Front(chain), body, k)
           Q == Plus(Front(chain), body, k + 1)
           n == Len(Front(chain)) + 1
           h == rec.nHeight
<1>6. Good(Q) /\ body[pos] = tx /\ inp \in 1..Len(Vin[tx]) /\ out = Vin[tx][inp]
  BY <1>2, <1>4, <1>5
<1>7. Adds(P, Q, n, tx)
  BY <1>3, <1>6, PlusDown, Zenon
<1>8. rec = Rec(CoinsOf(P), tx, inp)
  BY <1>2, <1>3, <1>4, <1>5, ZenonT(40) DEF RecsOk
<1>9. UndoesOne(P, tx, inp)
  BY <1>3, <1>6, UndoStep, Zenon
<1> tx \in Txid
  BY <1>7, Zenon DEF Adds
<1>10. out \in Inputs(tx)
  BY <1>6, VinFacts
<1>11. /\ out \in UnspentIn(P) /\ out \notin SpentIn(P) /\ out.hash \in TxsOf(P) /\ Good(P)
  <2> HIDE DEF P, Q, n, tx, out
  <2> QED  BY <1>7, <1>10, UnspentStep, Zenon DEF Adds
<1>12. h \in {0, HeightOf(P, out.hash)} /\ h # Erase
  <2>1. h \in {0, HeightOf(P, out.hash)}
    <3> HIDE DEF P, tx
    <3> QED  BY <1>6, <1>8, <1>9, Zenon DEF UndoesOne
  <2>2. HeightOf(P, out.hash) \in Nat
    BY <1>11, HeightType, Zenon
  <2> HIDE DEF P, Q, n, tx, out, h
  <2> QED  BY <2>1, <2>2, EraseIsNoValue
<1>13. inp - 1 \in 0..Len(Vin[tx])
  BY <1>6, VinFacts
<1>14. /\ \A o : o \in FirstInputs(tx, inp) <=> o \in FirstInputs(tx, inp - 1) \/ o = out
       /\ out \notin FirstInputs(tx, inp - 1)
  BY <1>6, FirstInputsFacts, Zenon
<1>15. ~ lost => UnspentOk(Written(index.unspent, batch.unspent), P, FirstInputs(tx, inp))
                 /\ SpentOk(Written(index.spent, batch.spent), P, FirstInputs(tx, inp))
  BY <1>1, <1>5, <1>6, Zenon DEF IndexInv, IndexOk, NewIndex
<1>16. /\ batch' = [unspent |-> batch'.unspent, spent |-> batch'.spent]
       /\ batch'.unspent = Put(batch.unspent, {out}, h) /\ batch'.spent = Put(batch.spent, {out}, Erase)
  <2> DEFINE f == Put(batch.unspent, {out}, h)
             g == Put(batch.spent, {out}, Erase)
  <2>1. batch' = [unspent |-> f, spent |-> g]
    BY <1>1
  <2> HIDE DEF f, g
  <2>2. batch'.unspent = f /\ batch'.spent = g
    BY <2>1
  <2> QED  BY <2>1, <2>2, Zenon DEF f, g
<1>17. ASSUME ~ lost PROVE IndexOk(NewIndex', P, FirstInputs(tx, inp - 1))
  <2> DEFINE S == {out}
             W == Written(index.unspent, batch.unspent)
             V == Written(index.unspent, Put(batch.unspent, S, h))
             Y == Written(index.spent, batch.spent)
             Z == Written(index.spent, Put(batch.spent, S, Erase))
             R == FirstInputs(tx, inp)
             T == FirstInputs(tx, inp - 1)
  <2>1. UnspentOk(W, P, R) /\ SpentOk(Y, P, R)
    BY <1>15, <1>17, Zenon
  <2>2. NewIndex'.unspent = V /\ NewIndex'.spent = Z
    BY <1>1, <1>16, Zenon DEF NewIndex
  <2> HIDE DEF h
  <2>3. Added(V, W, S, h)
    <3> HIDE DEF S
    <3> QED  BY <1>12, PutValue, Zenon
  <2>4. Erased(Z, Y, S)
    <3> HIDE DEF S
    <3> QED  BY PutErase
  <2> HIDE DEF W, V, Y, Z, R, T, out, P, tx
  <2>5. UnspentOk(V, P, T)
    BY <1>11, <1>12, <1>14, <2>1, <2>3, UnspentBack DEF R, T
  <2>6. SpentOk(Z, P, T)
    BY <1>11, <1>14, <2>1, <2>4, SpentBack DEF R, T
  <2> QED  BY <2>2, <2>5, <2>6 DEF IndexOk, T
<1> HIDE DEF out, rec
<1> QED  BY <1>1, <1>3, <1>4, <1>13, <1>16, <1>17, ContinueIndex, Zenon

\* DisconnectTip writes the batch of the whole block.
LEMMA DisconnectTipIndex ==
  ASSUME IndInv, IndexInv, DisconnectTip
  PROVE  IndexInv'
<1>1. /\ mode = "outputs" /\ pos = 0 /\ mode' = "idle" /\ batch' = NoBatch
      /\ chain' = IF fClean THEN Front(chain) ELSE chain
      /\ index' = NewIndex /\ lost' = lost
  BY Zenon DEF DisconnectTip, NoWork, WriteIndexes, NewIndex, Front
<1>2. fClean
  BY DEF IndInv, TipInv
<1>3. chain # <<>> /\ body = Last(chain) /\ Good(Plus(Front(chain), body, 0))
  BY <1>1 DEF IndInv, OutputsInv
<1>4. Front(chain) \in Chains /\ body \in Seq(Txid)
  BY <1>3, TipFacts
<1>5. Good(Front(chain))
  BY <1>3, <1>4, ZeroCoins
<1>6. ~ lost => IndexOk(NewIndex, Front(chain), {})
  BY <1>1, <1>4, <1>5, ZeroIndex DEF IndexInv
<1> QED  BY <1>1, <1>2, <1>6 DEF IndexInv, NoBatch

\* WriteBlockIndex and FlushCoins leave the indexes and the chain alone.
LEMMA FlushIndex ==
  ASSUME IndexInv, WriteBlockIndex \/ FlushCoins
  PROVE  IndexInv'
<1>1. /\ mode' \in {"idle", "flush"} /\ batch' = batch /\ chain' = chain
      /\ index' = index /\ lost' = lost
  BY DEF WriteBlockIndex, FlushCoins, work, tip
<1> QED  BY <1>1 DEF IndexInv

\* Crash: the indexes list the chain on disk unless blocks are lost.
LEMMA CrashIndex ==
  ASSUME IndexInv, Crash
  PROVE  IndexInv'
<1>1. /\ mode' = "idle" /\ batch' = NoBatch /\ chain' = dChain /\ index' = index
      /\ lost' = (lost \/ chain # dChain)
  BY DEF Crash, NoWork
<1>2. ~ lost' => ~ lost /\ chain' = chain
  BY <1>1, Zenon
<1> QED  BY <1>1, <1>2 DEF IndexInv, NoBatch

\* A step that changes nothing.
LEMMA StutterIndex ==
  ASSUME IndexInv, UNCHANGED vars
  PROVE  IndexInv'
<1>1. /\ mode' = mode /\ body' = body /\ pos' = pos /\ inp' = inp /\ batch' = batch
      /\ chain' = chain /\ index' = index /\ lost' = lost
  BY DEF vars, work, tip
<1>2. NewIndex' = NewIndex
  BY <1>1, Zenon DEF NewIndex
<1> QED  BY <1>1, <1>2 DEF IndexInv

\* While a block is connected or disconnected, the indexes with the pending
\* batch list the chain up to the transaction and the input at work.
THEOREM IndexInvariance == Spec => []IndexInv
<1>1. Init => IndexInv
  BY InitIndex
<1>2. IndInv /\ IndInv' /\ IndexInv /\ [Next]_vars => IndexInv'
  BY ConnectBlockIndex, UpdateCoinsIndex, RejectBlockIndex, ConnectTipIndex, DisconnectBlockIndex,
     RemoveOutputsIndex, ApplyTxInUndoIndex, DisconnectTipIndex, FlushIndex, CrashIndex,
     StutterIndex DEF Next
<1> QED  BY <1>1, <1>2, Invariance, PTL DEF Spec

\* The unspent index lists the unspent outputs and the spent index who spent
\* the others, as long as no crash has taken back blocks.
THEOREM IndexesAgreeHolds == Spec => []IndexesAgree
<1>1. IndexInv => IndexesAgree
  <2> SUFFICES ASSUME IndexInv, ~ lost
               PROVE  /\ DOMAIN index.unspent = UnspentIn(chain)
                      /\ DOMAIN index.spent = SpentIn(chain)
                      /\ \A o \in SpentIn(chain) :
                           index.spent[o] \in TxsOf(chain) /\ o \in Inputs(index.spent[o])
    BY DEF IndexesAgree
  <2>1. UnspentOk(index.unspent, chain, {}) /\ SpentOk(index.spent, chain, {})
    BY DEF IndexInv, IndexOk
  <2>2. Less(UnspentIn(chain), {}) = UnspentIn(chain) /\ SpentIn(chain) \cup {} = SpentIn(chain)
    BY DEF Less
  <2> QED  BY <2>1, <2>2, Zenon DEF UnspentOk, SpentOk
<1> QED  BY <1>1, IndexInvariance, PTL
=============================================================================
