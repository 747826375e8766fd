-------------------------- MODULE ChainstateProofs --------------------------
(***************************************************************************)
(* Proofs about Chainstate, for any transactions, block bodies and bounds. *)
(* While a block is connected or disconnected, the view holds the coins of *)
(* a chain whose last block ends with the transaction the loop has reached;*)
(* `Plus' is that chain, `Part' the coins between two inputs.  In a chain  *)
(* built by ConnectBlock every transaction occurs once and spends outputs  *)
(* of earlier ones, so each undo record is determined by its place.        *)
(***************************************************************************)
EXTENDS Chainstate, SequenceTheorems, TLAPS

\* The chain c and a block with the first k transactions of b.
Plus(c, b, k) == Append(c, SubSeq(b, 1, k))

Front(c) == SubSeq(c, 1, Len(c) - 1)
Last(c) == c[Len(c)]

\* Coins without the outputs S.
Less(O, S) == O \ S
Spend(x, S) == Coins(Less(x.outs, S), x.nHeight, x.fCoinBase)

\* The coins C when the first j inputs of tx are spent.
Part(C, tx, j) == [t \in Txid |-> Spend(C[t], SpentBy(tx, t, j))]

\* The undo record for input j of tx, spent from the coins C.
Rec(C, tx, j) ==
  LET prev == Vin[tx][j].hash
  IN IF C[prev].outs \subseteq SpentBy(tx, prev, j)
       THEN [nHeight |-> C[prev].nHeight, fCoinBase |-> C[prev].fCoinBase]
       ELSE [nHeight |-> 0, fCoinBase |-> FALSE]

(***************************************************************************)
(* Coins and inputs.                                                       *)
(***************************************************************************)

\* The parts of a CCoins object, and spending more outputs of it.
LEMMA CoinsFacts ==
  ASSUME NEW O, NEW h, NEW f
  PROVE  /\ Coins(O, h, f).outs = O
         /\ O # {} => Coins(O, h, f) = [outs |-> O, nHeight |-> h, fCoinBase |-> f]
         /\ O # {} => Coins(O, h, f).nHeight = h /\ Coins(O, h, f).fCoinBase = f
         /\ O = {} => Coins(O, h, f) = Pruned
         /\ \A S : Spend(Coins(O, h, f), S) = Coins(Less(O, S), h, f)
         /\ \A S : Spend(Pruned, S) = Pruned
<1>1. Coins(O, h, f).outs = O
  BY DEF Coins
<1>2. O # {} => /\ Coins(O, h, f) = [outs |-> O, nHeight |-> h, fCoinBase |-> f]
                /\ Coins(O, h, f).nHeight = h /\ Coins(O, h, f).fCoinBase = f
  BY Zenon DEF Coins
<1>3. O = {} => Coins(O, h, f) = Pruned
  BY DEF Coins, Pruned
<1>4. ASSUME NEW S PROVE Spend(Coins(O, h, f), S) = Coins(Less(O, S), h, f)
  <2>1. CASE O = {}
    BY <1>1, <2>1 DEF Coins, Spend, Less
  <2>2. CASE O # {}
    BY <1>1, <1>2, <2>2 DEF Spend
  <2> QED  BY <2>1, <2>2
<1>5. ASSUME NEW S PROVE Spend(Pruned, S) = Pruned
  BY DEF Spend, Less, Pruned, Coins
<1> QED  BY <1>1, <1>2, <1>3, <1>4, <1>5

\* Spending a set of outputs of a CCoins object.
LEMMA SpendCoins ==
  ASSUME NEW O, NEW h, NEW f, NEW S
  PROVE  Spend(Coins(O, h, f), S) = Coins(Less(O, S), h, f)
BY CoinsFacts

\* The inputs of a transaction are outpoints, all different.
LEMMA VinFacts ==
  ASSUME NEW tx \in Txid
  PROVE  /\ Vin[tx] \in Seq(COutPoint) /\ Len(Vin[tx]) \in Nat
         /\ \A j \in 1..Len(Vin[tx]) : /\ Vin[tx][j] \in Inputs(tx)
                                       /\ Vin[tx][j].hash \in Txid
         /\ Inputs(tx) \subseteq COutPoint
         /\ \A o \in COutPoint : o = [hash |-> o.hash, n |-> o.n] /\ o.hash \in Txid
         /\ \A j, k \in 1..Len(Vin[tx]) : Vin[tx][j] = Vin[tx][k] => j = k
<1>1. Vin[tx] \in Seq(COutPoint)
  BY Transactions
<1>2. Len(Vin[tx]) \in Nat /\ \A j \in 1..Len(Vin[tx]) : Vin[tx][j] \in COutPoint
  BY <1>1
<1>3. \A o \in COutPoint : o = [hash |-> o.hash, n |-> o.n] /\ o.hash \in Txid
  BY DEF COutPoint
<1>4. \A j, k \in 1..Len(Vin[tx]) : Vin[tx][j] = Vin[tx][k] => j = k
  BY Transactions
<1> QED  BY <1>1, <1>2, <1>3, <1>4 DEF Inputs

\* What the inputs of tx spend of prev: none, one more, all.
LEMMA SpentByFacts ==
  ASSUME NEW tx \in Txid, NEW prev \in Txid
  PROVE  /\ SpentBy(tx, prev, 0) = {}
         /\ \A n : n \in SpentBy(tx, prev, Len(Vin[tx])) <=>
                     [hash |-> prev, n |-> n] \in Inputs(tx)
         /\ \A j \in 1..Len(Vin[tx]) :
              LET out == Vin[tx][j] IN
              /\ out.hash # prev => SpentBy(tx, prev, j) = SpentBy(tx, prev, j - 1)
              /\ out.hash = prev =>
                   /\ SpentBy(tx, prev, j) = SpentBy(tx, prev, j - 1) \cup {out.n}
                   /\ out.n \notin SpentBy(tx, prev, j - 1)
<1> DEFINE q == Vin[tx]
<1>1. /\ Len(q) \in Nat /\ \A j \in 1..Len(q) : q[j] \in COutPoint
      /\ \A o \in COutPoint : o = [hash |-> o.hash, n |-> o.n]
      /\ \A j, k \in 1..Len(q) : q[j] = q[k] => j = k
  BY VinFacts
<1>2. \A j \in Nat : SpentBy(tx, prev, j) = {q[k].n : k \in {i \in 1..j : q[i].hash = prev}}
  BY DEF SpentBy
<1>3. Inputs(tx) = {q[j] : j \in 1..Len(q)}
  BY DEF Inputs
<1> HIDE DEF q
<1>4. SpentBy(tx, prev, 0) = {}
  BY <1>2
<1>5. ASSUME NEW n, n \in SpentBy(tx, prev, Len(q)) PROVE [hash |-> prev, n |-> n] \in Inputs(tx)
  <2>1. PICK k \in 1..Len(q) : q[k].hash = prev /\ n = q[k].n
    BY <1>1, <1>2, <1>5
  <2>2. q[k] = [hash |-> prev, n |-> n]
    BY <1>1, <2>1
  <2> QED  BY <1>3, <2>2
<1>6. ASSUME NEW n, [hash |-> prev, n |-> n] \in Inputs(tx) PROVE n \in SpentBy(tx, prev, Len(q))
  <2>1. PICK k \in 1..Len(q) : q[k] = [hash |-> prev, n |-> n]
    BY <1>3, <1>6
  <2> QED  BY <1>1, <1>2, <2>1
<1>7. ASSUME NEW j \in 1..Len(q)
      PROVE  /\ q[j].hash # prev => SpentBy(tx, prev, j) = SpentBy(tx, prev, j - 1)
             /\ q[j].hash = prev =>
                  /\ SpentBy(tx, prev, j) = SpentBy(tx, prev, j - 1) \cup {q[j].n}
                  /\ q[j].n \notin SpentBy(tx, prev, j - 1)
  <2>1. j \in Nat /\ j - 1 \in Nat /\ 1..j = (1..(j - 1)) \cup {j}
    BY <1>1
  <2>2. /\ SpentBy(tx, prev, j) = {q[k].n : k \in {i \in 1..j : q[i].hash = prev}}
        /\ SpentBy(tx, prev, j - 1) = {q[k].n : k \in {i \in 1..(j - 1) : q[i].hash = prev}}
    BY <1>2, <2>1
  <2>3. \A k \in 1..(j - 1) : k \in 1..Len(q) /\ k # j
    BY <1>1
  <2>4. q[j].hash = prev => q[j].n \notin SpentBy(tx, prev, j - 1)
    <3>1. ASSUME NEW k \in 1..(j - 1), q[k].hash = prev, q[j].hash = prev, q[k].n = q[j].n
          PROVE  FALSE
      BY <1>1, <2>3, <3>1
    <3> QED  BY <2>2, <3>1
  <2> QED  BY <2>1, <2>2, <2>4
<1> QED  BY <1>4, <1>5, <1>6, <1>7 DEF q

\* The place before the one a loop over n transactions has reached.
LEMMA Pred ==
  ASSUME NEW n \in Nat
  PROVE  /\ \A p \in 1..n : \E k \in 0..(n - 1) : p = k + 1
         /\ \A p \in 1..(n + 1) : p <= n => \E k \in 0..(n - 1) : p = k + 1
         /\ \A p \in 0..n : p > 0 => \E k \in 0..(n - 1) : p = k + 1
<1>1. ASSUME NEW p \in 1..n PROVE \E k \in 0..(n - 1) : p = k + 1
  <2>1. p - 1 \in 0..(n - 1) /\ p = (p - 1) + 1
    OBVIOUS
  <2> QED  BY <2>1
<1>2. /\ \A p \in 1..(n + 1) : p <= n => p \in 1..n
      /\ \A p \in 0..n : p > 0 => p \in 1..n
  OBVIOUS
<1> QED  BY <1>1, <1>2, Zenon

-----------------------------------------------------------------------------
(***************************************************************************)
(* Chains that ConnectBlock can build.                                     *)
(***************************************************************************)
Chains == Seq(Seq(Txid))

\* Place <<g, j>> comes before place <<h, i>>.
Before(g, j, h, i) == g < h \/ (g = h /\ j < i)

\* A transaction occurs once.
Once(c) ==
  \A h, g \in 1..Len(c) : \A i \in 1..Len(c[h]), j \in 1..Len(c[g]) :
     c[h][i] = c[g][j] => h = g /\ i = j

\* No output and no nullifier is spent by two transactions.
NoConflict(c) ==
  \A t, u \in TxsOf(c) : t # u => /\ Inputs(t) \cap Inputs(u) = {}
                                  /\ Nullifiers[t] \cap Nullifiers[u] = {}

\* Inputs are outputs of earlier transactions.
Sourced(c) ==
  \A h \in 1..Len(c) : \A i \in 1..Len(c[h]) : \A o \in Inputs(c[h][i]) :
     /\ o.n \in Vout[o.hash]
     /\ \E g \in 1..Len(c) : \E j \in 1..Len(c[g]) :
           c[g][j] = o.hash /\ Before(g, j, h, i)

\* The coinbases come first in their blocks and carry the height.
CbHeights(c) ==
  \A h \in 1..Len(c) : \A i \in 1..Len(c[h]) :
     c[h][i] \in Coinbase => CbHeight[c[h][i]] = h

Good(c) == c \in Chains /\ Once(c) /\ NoConflict(c) /\ Sourced(c) /\ CbHeights(c)

\* The transactions of a chain, by place.
LEMMA TxsFacts ==
  ASSUME NEW c \in Chains
  PROVE  /\ Len(c) \in Nat
         /\ \A h \in 1..Len(c) : c[h] \in Seq(Txid) /\ Len(c[h]) \in Nat
         /\ TxsOf(c) \subseteq Txid
         /\ \A t : t \in TxsOf(c) <=> \E h \in 1..Len(c) : \E i \in 1..Len(c[h]) : c[h][i] = t
<1>1. Len(c) \in Nat /\ \A h \in 1..Len(c) : c[h] \in Seq(Txid)
  BY DEF Chains
<1>2. \A h \in 1..Len(c) : Len(c[h]) \in Nat /\ \A i \in 1..Len(c[h]) : c[h][i] \in Txid
  BY <1>1
<1>3. ASSUME NEW t PROVE t \in TxsOf(c) <=> \E h \in 1..Len(c) : \E i \in 1..Len(c[h]) : c[h][i] = t
  <2>1. t \in TxsOf(c) <=> \E h \in 1..Len(c) : t \in {c[h][i] : i \in 1..Len(c[h])}
    BY DEF TxsOf
  <2> QED  BY <2>1
<1>4. TxsOf(c) \subseteq Txid
  BY <1>2, <1>3
<1> QED  BY <1>1, <1>2, <1>3, <1>4

\* The height of a transaction is that of the one block it is in.
LEMMA HeightFacts ==
  ASSUME NEW c, Good(c), NEW h \in 1..Len(c), NEW i \in 1..Len(c[h])
  PROVE  HeightOf(c, c[h][i]) = h
<1>1. \E g \in 1..Len(c) : \E j \in 1..Len(c[g]) : c[g][j] = c[h][i]
  OBVIOUS
<1>2. /\ HeightOf(c, c[h][i]) \in 1..Len(c)
      /\ \E j \in 1..Len(c[HeightOf(c, c[h][i])]) : c[HeightOf(c, c[h][i])][j] = c[h][i]
  BY <1>1, Zenon DEF HeightOf
<1> QED  BY <1>2 DEF Good, Once

\* Where the transactions of Plus(c, b, k) are.
LEMMA PlusFacts ==
  ASSUME NEW c \in Chains, NEW b \in Seq(Txid), NEW k \in 0..Len(b)
  PROVE  LET P == Plus(c, b, k)
             n == Len(c) + 1 IN
         /\ P \in Chains /\ Len(P) = n /\ n \in Nat /\ Len(c) \in Nat
         /\ \A h \in 1..Len(c) : P[h] = c[h]
         /\ Len(P[n]) = k /\ \A i \in 1..k : P[n][i] = b[i]
         /\ TxsOf(P) = TxsOf(c) \cup {b[i] : i \in 1..k}
<1> DEFINE s == SubSeq(b, 1, k)
           P == Plus(c, b, k)
           n == Len(c) + 1
<1>1. k \in Nat /\ k <= Len(b) /\ Len(b) \in Nat
  OBVIOUS
<1>2. s \in Seq(Txid) /\ Len(s) = k /\ \A i \in 1..k : s[i] = b[i]
  BY <1>1
<1> HIDE DEF s
<1>3. /\ P \in Chains /\ Len(P) = n /\ Len(c) \in Nat /\ n \in Nat
      /\ (\A h \in 1..Len(c) : P[h] = c[h]) /\ P[n] = s
  BY <1>2 DEF Plus, Chains, s
<1> HIDE DEF P
<1>4. TxsOf(P) = TxsOf(c) \cup {b[i] : i \in 1..k}
  <2>1. \A h : h \in 1..n <=> h \in 1..Len(c) \/ h = n
    BY <1>3
  <2>2. \A t : t \in TxsOf(P) <=> \E h \in 1..n : \E i \in 1..Len(P[h]) : P[h][i] = t
    BY <1>3, TxsFacts
  <2>3. \A t : t \in TxsOf(c) <=> \E h \in 1..Len(c) : \E i \in 1..Len(c[h]) : c[h][i] = t
    BY TxsFacts
  <2>4. ASSUME NEW t \in TxsOf(P) PROVE t \in TxsOf(c) \cup {b[i] : i \in 1..k}
    <3>1. PICK h \in 1..n : \E i \in 1..Len(P[h]) : P[h][i] = t
      BY <2>2, <2>4
    <3>2. CASE h \in 1..Len(c)
      BY <1>3, <2>3, <3>1, <3>2
    <3>3. CASE h = n
      BY <1>2, <1>3, <3>1, <3>3
    <3> QED  BY <2>1, <3>2, <3>3
  <2>5. ASSUME NEW t \in TxsOf(c) PROVE t \in TxsOf(P)
    <3>1. PICK h \in 1..Len(c) : \E i \in 1..Len(c[h]) : c[h][i] = t
      BY <2>3, <2>5
    <3>2. h \in 1..n /\ P[h] = c[h]
      BY <1>3, <2>1
    <3> QED  BY <2>2, <3>1, <3>2
  <2>6. ASSUME NEW i \in 1..k PROVE b[i] \in TxsOf(P)
    BY <1>2, <1>3, <2>1, <2>2
  <2> QED  BY <2>4, <2>5, <2>6
<1> QED  BY <1>2, <1>3, <1>4 DEF P

\* Q is P with one place <<n, m>> more, after all others, and tx there.
OneMore(P, Q, n, m, tx) ==
  /\ P \in Chains /\ Q \in Chains /\ n \in Nat /\ n \in 1..n /\ tx \in Txid
  /\ Len(P) = n /\ Len(Q) = n
  /\ \A h \in 1..n : \A i \in 1..Len(P[h]) :
        i \in 1..Len(Q[h]) /\ Q[h][i] = P[h][i] /\ Before(h, i, n, m)
  /\ m \in 1..Len(Q[n]) /\ Q[n][m] = tx
  /\ \A h \in 1..n : \A i \in 1..Len(Q[h]) : i \in 1..Len(P[h]) \/ (h = n /\ i = m)
  /\ TxsOf(Q) = TxsOf(P) \cup {tx}

\* Plus(c, b, k + 1) has one place more than Plus(c, b, k), after all others.
LEMMA PlusPlaces ==
  ASSUME NEW c \in Chains, NEW b \in Seq(Txid), NEW k \in 0..(Len(b) - 1)
  PROVE  OneMore(Plus(c, b, k), Plus(c, b, k + 1), Len(c) + 1, k + 1, b[k + 1])
<1> DEFINE P == Plus(c, b, k)
           Q == Plus(c, b, k + 1)
           n == Len(c) + 1
<1>1. k \in 0..Len(b) /\ k + 1 \in 0..Len(b) /\ k \in Nat /\ b[k + 1] \in Txid
  OBVIOUS
<1>2. /\ P \in Chains /\ Len(P) = n /\ n \in Nat /\ Len(c) \in Nat
      /\ \A h \in 1..Len(c) : P[h] = c[h]
      /\ Len(P[n]) = k /\ \A i \in 1..k : P[n][i] = b[i]
      /\ TxsOf(P) = TxsOf(c) \cup {b[i] : i \in 1..k}
  BY <1>1, PlusFacts, Zenon
<1>3. /\ Q \in Chains /\ Len(Q) = n
      /\ \A h \in 1..Len(c) : Q[h] = c[h]
      /\ Len(Q[n]) = k + 1 /\ \A i \in 1..(k + 1) : Q[n][i] = b[i]
      /\ TxsOf(Q) = TxsOf(c) \cup {b[i] : i \in 1..(k + 1)}
  BY <1>1, PlusFacts, SMTT(30)
<1> HIDE DEF P, Q
<1>4. \A h \in 1..n : h \in 1..Len(c) \/ h = n
  BY <1>2
<1>5. \A h \in 1..Len(c) : Len(c[h]) \in Nat
  BY TxsFacts
<1>6. ASSUME NEW h \in 1..n, NEW i \in 1..Len(P[h])
      PROVE  i \in 1..Len(Q[h]) /\ Q[h][i] = P[h][i] /\ Before(h, i, n, k + 1)
  BY <1>1, <1>2, <1>3, <1>4 DEF Before
<1>7. ASSUME NEW h \in 1..n, NEW i \in 1..Len(Q[h])
      PROVE  i \in 1..Len(P[h]) \/ (h = n /\ i = k + 1)
  BY <1>1, <1>2, <1>3, <1>4
<1>8. TxsOf(Q) = TxsOf(P) \cup {b[k + 1]}
  <2>1. 1..(k + 1) = (1..k) \cup {k + 1}
    BY <1>1
  <2> QED  BY <1>2, <1>3, <2>1
<1>9. n \in 1..n /\ k + 1 \in 1..Len(Q[n]) /\ Q[n][k + 1] = b[k + 1]
  BY <1>1, <1>2, <1>3
<1> QED  BY <1>1, <1>2, <1>3, <1>6, <1>7, <1>8, <1>9 DEF P, Q, OneMore

\* Q is the good chain P and the transaction tx, unknown to P, in block n.
Adds(P, Q, n, tx) ==
  /\ Good(P) /\ tx \in Txid /\ tx \notin TxsOf(P) /\ TxsOf(Q) = TxsOf(P) \cup {tx}
  /\ SpentIn(Q) = SpentIn(P) \cup Inputs(tx) /\ SpentIn(P) \cap Inputs(tx) = {}
  /\ NullifiersOf(Q) = NullifiersOf(P) \cup Nullifiers[tx]
  /\ NullifiersOf(P) \cap Nullifiers[tx] = {}
  /\ \A m : [hash |-> tx, n |-> m] \notin SpentIn(Q)
  /\ \A o \in Inputs(tx) : o.hash \in TxsOf(P) /\ o.n \in Vout[o.hash]
  /\ \A t \in TxsOf(P) : HeightOf(Q, t) = HeightOf(P, t)
  /\ HeightOf(Q, tx) = n

\* Taking the last transaction away leaves a good chain, in which the
\* transaction is unknown, its inputs unspent and its nullifiers not revealed.
LEMMA PlusDown ==
  ASSUME NEW c \in Chains, NEW b \in Seq(Txid), NEW k \in 0..(Len(b) - 1),
         Good(Plus(c, b, k + 1))
  PROVE  Adds(Plus(c, b, k), Plus(c, b, k + 1), Len(c) + 1, b[k + 1])
<1> DEFINE P == Plus(c, b, k)
           Q == Plus(c, b, k + 1)
           n == Len(c) + 1
           tx == b[k + 1]
<1>a. OneMore(P, Q, n, k + 1, tx)
  BY PlusPlaces
<1> Good(Q)
  OBVIOUS
<1> HIDE DEF P, Q, n, tx
<1>1. /\ P \in Chains /\ Q \in Chains /\ n \in Nat /\ n \in 1..n /\ tx \in Txid
      /\ Len(P) = n /\ Len(Q) = n
      /\ \A h \in 1..n : \A i \in 1..Len(P[h]) :
            i \in 1..Len(Q[h]) /\ Q[h][i] = P[h][i] /\ Before(h, i, n, k + 1)
      /\ k + 1 \in 1..Len(Q[n]) /\ Q[n][k + 1] = tx
      /\ \A h \in 1..n : \A i \in 1..Len(Q[h]) : i \in 1..Len(P[h]) \/ (h = n /\ i = k + 1)
      /\ TxsOf(Q) = TxsOf(P) \cup {tx}
  BY <1>a DEF OneMore
<1>0. /\ \A t : t \in TxsOf(P) <=> \E h \in 1..n : \E i \in 1..Len(P[h]) : P[h][i] = t
      /\ \A t : t \in TxsOf(Q) <=> \E h \in 1..n : \E i \in 1..Len(Q[h]) : Q[h][i] = t
  <2>1. \A t : t \in TxsOf(P) <=> \E h \in 1..Len(P) : \E i \in 1..Len(P[h]) : P[h][i] = t
    BY <1>1, TxsFacts, Zenon
  <2>2. \A t : t \in TxsOf(Q) <=> \E h \in 1..Len(Q) : \E i \in 1..Len(Q[h]) : Q[h][i] = t
    BY <1>1, TxsFacts, Zenon
  <2> QED  BY <1>1, <2>1, <2>2, Zenon
<1>2. \A h \in 1..n : \A i \in 1..Len(P[h]) : ~(h = n /\ i = k + 1)
  BY <1>1 DEF Before
<1>3. tx \notin TxsOf(P)
  <2>1. ASSUME NEW h \in 1..n, NEW i \in 1..Len(P[h]), P[h][i] = tx PROVE FALSE
    <3>1. i \in 1..Len(Q[h]) /\ Q[h][i] = Q[n][k + 1]
      BY <1>1, <2>1
    <3>2. h = n /\ i = k + 1
      BY <1>1, <3>1 DEF Good, Once
    <3> QED  BY <1>2, <3>2
  <2> QED  BY <1>0, <2>1
<1>4. Once(P)
  BY <1>1 DEF Good, Once
<1>5. NoConflict(P) /\ CbHeights(P)
  <2>1. TxsOf(P) \subseteq TxsOf(Q) /\ NoConflict(Q) /\ CbHeights(Q)
    BY <1>1, Zenon DEF Good
  <2>2. NoConflict(P)
    BY <2>1, Zenon DEF NoConflict
  <2> QED  BY <1>1, <2>1, <2>2, Zenon DEF CbHeights
<1>6. ASSUME NEW h \in 1..n, NEW i \in 1..Len(Q[h]), NEW o \in Inputs(Q[h][i])
      PROVE  /\ o.n \in Vout[o.hash]
             /\ \E g \in 1..n : \E j \in 1..Len(P[g]) : P[g][j] = o.hash /\ Before(g, j, h, i)
  <2>0. Sourced(Q) /\ Len(Q) = n
    BY <1>1, Zenon DEF Good
  <2>1. o.n \in Vout[o.hash]
    BY <2>0, Zenon DEF Sourced
  <2>2. PICK g \in 1..n : \E j \in 1..Len(Q[g]) : Q[g][j] = o.hash /\ Before(g, j, h, i)
    BY <2>0, Zenon DEF Sourced
  <2>3. PICK j \in 1..Len(Q[g]) : Q[g][j] = o.hash /\ Before(g, j, h, i)
    BY <2>2
  <2>4. ~(g = n /\ j = k + 1)
    <3>1. i \in 1..Len(P[h]) \/ (h = n /\ i = k + 1)
      BY <1>1
    <3>2. Before(h, i, n, k + 1) \/ (h = n /\ i = k + 1)
      BY <1>1, <3>1
    <3>3. Len(Q[h]) \in Nat /\ k + 1 \in Nat /\ i \in Nat /\ h \in Nat /\ n \in Nat
      BY <1>1, TxsFacts
    <3> QED  BY <2>3, <3>2, <3>3 DEF Before
  <2>5. j \in 1..Len(P[g]) /\ P[g][j] = o.hash
    BY <1>1, <2>3, <2>4
  <2> QED  BY <2>1, <2>3, <2>5
<1>7. Sourced(P)
  <2> SUFFICES ASSUME NEW h \in 1..n, NEW i \in 1..Len(P[h]), NEW o \in Inputs(P[h][i])
               PROVE  /\ o.n \in Vout[o.hash]
                      /\ \E g \in 1..n : \E j \in 1..Len(P[g]) :
                            P[g][j] = o.hash /\ Before(g, j, h, i)
    BY <1>1, Zenon DEF Sourced
  <2>1. i \in 1..Len(Q[h]) /\ Q[h][i] = P[h][i]
    BY <1>1, Zenon
  <2> QED  BY <1>6, <2>1, Zenon
<1>8. Good(P)
  BY <1>1, <1>4, <1>5, <1>7 DEF Good
<1>9. \A o \in Inputs(tx) : o.hash \in TxsOf(P) /\ o.n \in Vout[o.hash]
  <2> SUFFICES ASSUME NEW o \in Inputs(tx) PROVE o.hash \in TxsOf(P) /\ o.n \in Vout[o.hash]
    OBVIOUS
  <2>1. /\ o.n \in Vout[o.hash]
        /\ \E g \in 1..n : \E j \in 1..Len(P[g]) : P[g][j] = o.hash
    <3>1. n \in 1..n /\ k + 1 \in 1..Len(Q[n]) /\ o \in Inputs(Q[n][k + 1])
      BY <1>1
    <3>2. /\ o.n \in Vout[o.hash]
          /\ \E g \in 1..n : \E j \in 1..Len(P[g]) : P[g][j] = o.hash /\ Before(g, j, n, k + 1)
      BY <1>6, <3>1
    <3> QED  BY <3>2, Zenon
  <2> QED  BY <1>0, <2>1
<1>10. /\ SpentIn(Q) = SpentIn(P) \cup Inputs(tx)
       /\ NullifiersOf(Q) = NullifiersOf(P) \cup Nullifiers[tx]
  BY <1>1 DEF SpentIn, NullifiersOf
<1>11. /\ SpentIn(P) \cap Inputs(tx) = {}
       /\ NullifiersOf(P) \cap Nullifiers[tx] = {}
  <2>1. \A t \in TxsOf(P) : /\ Inputs(t) \cap Inputs(tx) = {}
                            /\ Nullifiers[t] \cap Nullifiers[tx] = {}
    BY <1>1, <1>3 DEF Good, NoConflict
  <2> QED  BY <2>1 DEF SpentIn, NullifiersOf
<1>12. ASSUME NEW m PROVE [hash |-> tx, n |-> m] \notin SpentIn(Q)
  <2>1. ASSUME NEW t \in TxsOf(Q), [hash |-> tx, n |-> m] \in Inputs(t) PROVE FALSE
    <3>1. PICK h \in 1..n : \E i \in 1..Len(Q[h]) : Q[h][i] = t
      BY <1>0, <2>1
    <3>2. PICK i \in 1..Len(Q[h]) : Q[h][i] = t
      BY <3>1
    <3>3. \E g \in 1..n : \E j \in 1..Len(P[g]) : P[g][j] = [hash |-> tx, n |-> m].hash
      BY <1>6, <2>1, <3>2
    <3> QED  BY <1>0, <1>3, <3>3
  <2> QED  BY <2>1 DEF SpentIn
<1>13. ASSUME NEW t \in TxsOf(P) PROVE HeightOf(Q, t) = HeightOf(P, t)
  <2>1. PICK h \in 1..n : \E i \in 1..Len(P[h]) : P[h][i] = t
    BY <1>0, <1>13
  <2>2. PICK i \in 1..Len(P[h]) : P[h][i] = t
    BY <2>1
  <2>3. i \in 1..Len(Q[h]) /\ Q[h][i] = t
    BY <1>1, <2>2
  <2>4. HeightOf(P, t) = h
    BY <1>1, <1>8, <2>2, HeightFacts, ZenonT(40)
  <2>5. HeightOf(Q, t) = h
    BY <1>1, <2>3, HeightFacts
  <2> QED  BY <2>4, <2>5
<1>14. HeightOf(Q, tx) = n
  BY <1>1, HeightFacts
<1>15. Adds(P, Q, n, tx)
  BY <1>1, <1>3, <1>8, <1>9, <1>10, <1>11, <1>12, <1>13, <1>14 DEF Adds
<1> QED  BY <1>15 DEF P, Q, n, tx

\* A transaction that passes HaveInputs extends a good chain: it cannot be
\* in the chain already, or its inputs or nullifiers would be spent.
LEMMA PlusUp ==
  ASSUME NEW c \in Chains, NEW b \in Seq(Txid), NEW k \in 0..(Len(b) - 1),
         Good(Plus(c, b, k)),
         b[k + 1] \in Coinbase => k = 0 /\ CbHeight[b[k + 1]] = Len(c) + 1,
         Nullifiers[b[k + 1]] \cap NullifiersOf(Plus(c, b, k)) = {},
         \A o \in Inputs(b[k + 1]) : /\ o.hash \in TxsOf(Plus(c, b, k)) /\ o.n \in Vout[o.hash]
                                     /\ o \notin SpentIn(Plus(c, b, k))
  PROVE  Good(Plus(c, b, k + 1))
<1> DEFINE P == Plus(c, b, k)
           Q == Plus(c, b, k + 1)
           n == Len(c) + 1
           tx == b[k + 1]
<1>a. OneMore(P, Q, n, k + 1, tx)
  BY PlusPlaces
<1>2. /\ Good(P) /\ Nullifiers[tx] \cap NullifiersOf(P) = {}
      /\ tx \in Coinbase => k = 0 /\ CbHeight[tx] = n
      /\ \A o \in Inputs(tx) : o.hash \in TxsOf(P) /\ o.n \in Vout[o.hash] /\ o \notin SpentIn(P)
  OBVIOUS
<1>3. Len(P[n]) = k
  BY PlusFacts
<1> HIDE DEF P, Q, n, tx
<1>1. /\ P \in Chains /\ Q \in Chains /\ n \in Nat /\ n \in 1..n /\ tx \in Txid
      /\ Len(P) = n /\ Len(Q) = n
      /\ \A h \in 1..n : \A i \in 1..Len(P[h]) :
            i \in 1..Len(Q[h]) /\ Q[h][i] = P[h][i] /\ Before(h, i, n, k + 1)
      /\ k + 1 \in 1..Len(Q[n]) /\ Q[n][k + 1] = tx
      /\ \A h \in 1..n : \A i \in 1..Len(Q[h]) : i \in 1..Len(P[h]) \/ (h = n /\ i = k + 1)
      /\ TxsOf(Q) = TxsOf(P) \cup {tx}
  BY <1>a DEF OneMore
<1>4. \A t : t \in TxsOf(P) <=> \E h \in 1..n : \E i \in 1..Len(P[h]) : P[h][i] = t
  <2>1. \A t : t \in TxsOf(P) <=> \E h \in 1..Len(P) : \E i \in 1..Len(P[h]) : P[h][i] = t
    BY <1>1, TxsFacts, Zenon
  <2> QED  BY <1>1, <2>1, Zenon
<1>5. tx \notin TxsOf(P)
  <2> SUFFICES ASSUME tx \in TxsOf(P) PROVE FALSE
    OBVIOUS
  <2>1. CASE tx \in Coinbase
    <3>1. PICK h \in 1..n : \E i \in 1..Len(P[h]) : P[h][i] = tx
      BY <1>4
    <3>2. h = n
      BY <1>1, <1>2, <2>1, <3>1 DEF Good, CbHeights
    <3> QED  BY <1>2, <1>3, <2>1, <3>1, <3>2
  <2>2. CASE tx \notin Coinbase
    <3>1. Inputs(tx) \subseteq SpentIn(P) /\ Nullifiers[tx] \subseteq NullifiersOf(P)
      BY DEF SpentIn, NullifiersOf
    <3>2. Inputs(tx) = {} /\ Nullifiers[tx] = {}
      BY <1>2, <3>1
    <3>3. Vin[tx] = <<>>
      <4>1. Vin[tx] \in Seq(COutPoint) /\ Len(Vin[tx]) \in Nat
        BY <1>1, VinFacts
      <4>2. Len(Vin[tx]) # 0 => Vin[tx][1] \in Inputs(tx)
        BY <4>1 DEF Inputs
      <4> QED  BY <3>2, <4>1, <4>2
    <3> QED  BY <1>1, <2>2, <3>2, <3>3, Transactions, Zenon
  <2> QED  BY <2>1, <2>2
<1>6. Once(Q)
  <2> SUFFICES ASSUME NEW h \in 1..n, NEW g \in 1..n, NEW i \in 1..Len(Q[h]),
                      NEW j \in 1..Len(Q[g]), Q[h][i] = Q[g][j]
               PROVE  h = g /\ i = j
    BY <1>1, Zenon DEF Once
  <2>1. CASE i \in 1..Len(P[h]) /\ j \in 1..Len(P[g])
    BY <1>1, <1>2, <2>1 DEF Good, Once
  <2>2. CASE i \in 1..Len(P[h]) /\ g = n /\ j = k + 1
    <3>1. P[h][i] = tx
      BY <1>1, <2>2, Zenon
    <3> QED  BY <1>4, <1>5, <2>2, <3>1, Zenon
  <2>3. CASE j \in 1..Len(P[g]) /\ h = n /\ i = k + 1
    <3>1. P[g][j] = tx
      BY <1>1, <2>3
    <3> QED  BY <1>4, <1>5, <2>3, <3>1, Zenon
  <2> QED  BY <1>1, <2>1, <2>2, <2>3
<1>7. NoConflict(Q)
  <2>1. \A t \in TxsOf(P) : /\ Inputs(t) \cap Inputs(tx) = {}
                            /\ Nullifiers[t] \cap Nullifiers[tx] = {}
    BY <1>2 DEF SpentIn, NullifiersOf
  <2> QED  BY <1>1, <1>2, <2>1, Zenon DEF Good, NoConflict
<1>8. Sourced(Q)
  <2> SUFFICES ASSUME NEW h \in 1..n, NEW i \in 1..Len(Q[h]), NEW o \in Inputs(Q[h][i])
               PROVE  /\ o.n \in Vout[o.hash]
                      /\ \E g \in 1..n : \E j \in 1..Len(Q[g]) :
                            Q[g][j] = o.hash /\ Before(g, j, h, i)
    BY <1>1, Zenon DEF Sourced
  <2>1. CASE i \in 1..Len(P[h])
    <3>1. /\ o.n \in Vout[o.hash]
          /\ \E g \in 1..n : \E j \in 1..Len(P[g]) : P[g][j] = o.hash /\ Before(g, j, h, i)
      BY <1>1, <1>2, <2>1 DEF Good, Sourced
    <3> QED  BY <1>1, <3>1
  <2>2. CASE h = n /\ i = k + 1
    <3>1. o.n \in Vout[o.hash] /\ o.hash \in TxsOf(P)
      BY <1>1, <1>2, <2>2, Zenon
    <3>2. PICK g \in 1..n : \E j \in 1..Len(P[g]) : P[g][j] = o.hash
      BY <1>4, <3>1, Zenon
    <3>3. PICK j \in 1..Len(P[g]) : P[g][j] = o.hash
      BY <3>2, Zenon
    <3>4. j \in 1..Len(Q[g]) /\ Q[g][j] = o.hash /\ Before(g, j, h, i)
      BY <1>1, <2>2, <3>3, Zenon
    <3> QED  BY <3>1, <3>4, Zenon
  <2> QED  BY <1>1, <2>1, <2>2
<1>9. CbHeights(Q)
  <2> SUFFICES ASSUME NEW h \in 1..n, NEW i \in 1..Len(Q[h]), Q[h][i] \in Coinbase
               PROVE  CbHeight[Q[h][i]] = h
    BY <1>1, Zenon DEF CbHeights
  <2>1. CASE i \in 1..Len(P[h])
    <3>1. Q[h][i] = P[h][i] /\ h \in 1..Len(P) /\ CbHeights(P)
      BY <1>1, <1>2, <2>1, Zenon DEF Good
    <3> QED  BY <2>1, <3>1, Zenon DEF CbHeights
  <2>2. CASE h = n /\ i = k + 1
    BY <1>1, <1>2, <2>2, Zenon
  <2> QED  BY <1>1, <2>1, <2>2, Zenon
<1> QED  BY <1>1, <1>6, <1>7, <1>8, <1>9 DEF Good, Q

\* An empty block changes nothing a chain implies.
LEMMA PlusZero ==
  ASSUME NEW c \in Chains, NEW b \in Seq(Txid)
  PROVE  LET P == Plus(c, b, 0) IN
         /\ Good(P) <=> Good(c)
         /\ TxsOf(P) = TxsOf(c) /\ SpentIn(P) = SpentIn(c) /\ NullifiersOf(P) = NullifiersOf(c)
         /\ Good(c) => \A t \in TxsOf(c) : HeightOf(P, t) = HeightOf(c, t)
<1> DEFINE P == Plus(c, b, 0)
           n == Len(c) + 1
<1>1. /\ P \in Chains /\ Len(P) = n /\ n \in Nat /\ Len(c) \in Nat
      /\ \A h \in 1..Len(c) : P[h] = c[h]
      /\ Len(P[n]) = 0 /\ TxsOf(P) = TxsOf(c) \cup {b[i] : i \in 1..0}
  BY PlusFacts
<1> HIDE DEF P
<1>2. TxsOf(P) = TxsOf(c)
  BY <1>1
<1>3. SpentIn(P) = SpentIn(c) /\ NullifiersOf(P) = NullifiersOf(c)
  BY <1>2 DEF SpentIn, NullifiersOf
<1>4. /\ \A h \in 1..Len(P) : \A i \in 1..Len(P[h]) :
             h \in 1..Len(c) /\ i \in 1..Len(c[h]) /\ P[h][i] = c[h][i]
      /\ \A h \in 1..Len(c) : h \in 1..Len(P) /\ P[h] = c[h]
  BY <1>1
<1>5. Once(P) <=> Once(c)
  <2>1. Once(P) => Once(c)
    BY <1>4, SMTT(30) DEF Once
  <2>2. ASSUME Once(c), NEW h \in 1..Len(P), NEW g \in 1..Len(P), NEW i \in 1..Len(P[h]),
               NEW j \in 1..Len(P[g]), P[h][i] = P[g][j]
        PROVE  h = g /\ i = j
    <3>1. /\ h \in 1..Len(c) /\ i \in 1..Len(c[h]) /\ P[h][i] = c[h][i]
          /\ g \in 1..Len(c) /\ j \in 1..Len(c[g]) /\ P[g][j] = c[g][j]
      BY <1>4, Zenon
    <3>2. c[h][i] = c[g][j]
      BY <2>2, <3>1, Zenon
    <3> QED  BY <2>2, <3>1, <3>2, SMTT(30) DEF Once
  <2> QED  BY <2>1, <2>2, Zenon DEF Once
<1>6. NoConflict(P) <=> NoConflict(c)
  BY <1>2 DEF NoConflict
<1>7. Sourced(P) <=> Sourced(c)
  <2>1. ASSUME Sourced(P) PROVE Sourced(c)
    <3> SUFFICES ASSUME NEW h \in 1..Len(c), NEW i \in 1..Len(c[h]), NEW o \in Inputs(c[h][i])
                 PROVE  /\ o.n \in Vout[o.hash]
                        /\ \E g \in 1..Len(c) : \E j \in 1..Len(c[g]) :
                              c[g][j] = o.hash /\ Before(g, j, h, i)
      BY Zenon DEF Sourced
    <3>1. /\ o.n \in Vout[o.hash]
          /\ \E g \in 1..Len(P) : \E j \in 1..Len(P[g]) : P[g][j] = o.hash /\ Before(g, j, h, i)
      BY <1>4, <2>1, Zenon DEF Sourced
    <3> QED  BY <1>4, <3>1
  <2>2. ASSUME Sourced(c) PROVE Sourced(P)
    <3> SUFFICES ASSUME NEW h \in 1..Len(P), NEW i \in 1..Len(P[h]), NEW o \in Inputs(P[h][i])
                 PROVE  /\ o.n \in Vout[o.hash]
                        /\ \E g \in 1..Len(P) : \E j \in 1..Len(P[g]) :
                              P[g][j] = o.hash /\ Before(g, j, h, i)
      BY Zenon DEF Sourced
    <3>1. /\ o.n \in Vout[o.hash]
          /\ \E g \in 1..Len(c) : \E j \in 1..Len(c[g]) : c[g][j] = o.hash /\ Before(g, j, h, i)
      BY <1>4, <2>2, Zenon DEF Sourced
    <3> QED  BY <1>4, <3>1, Zenon
  <2> QED  BY <2>1, <2>2
<1>8. CbHeights(P) <=> CbHeights(c)
  BY <1>4, ZenonT(40) DEF CbHeights
<1>9. Good(P) <=> Good(c)
  BY <1>1, <1>5, <1>6, <1>7, <1>8 DEF Good
<1>10. ASSUME Good(c), NEW t \in TxsOf(c) PROVE HeightOf(P, t) = HeightOf(c, t)
  <2>1. PICK h \in 1..Len(c) : \E i \in 1..Len(c[h]) : c[h][i] = t
    BY <1>10, TxsFacts, Zenon
  <2>2. PICK i \in 1..Len(c[h]) : c[h][i] = t
    BY <2>1
  <2>3. HeightOf(c, t) = h
    BY <1>10, <2>2, HeightFacts
  <2>4. HeightOf(P, t) = h
    BY <1>4, <1>9, <1>10, <2>2, HeightFacts
  <2> QED  BY <2>3, <2>4
<1> QED  BY <1>2, <1>3, <1>9, <1>10 DEF P

\* With all transactions of b, Plus is the chain with b; and a chain is its
\* front with its last block.
LEMMA PlusFull ==
  ASSUME NEW c \in Chains
  PROVE  /\ \A b \in Seq(Txid) : Plus(c, b, Len(b)) = Append(c, b) /\ Append(c, b) \in Chains
         /\ \A b \in Seq(Txid) : /\ Front(Append(c, b)) = c /\ Last(Append(c, b)) = b
                                 /\ Append(c, b) # <<>> /\ Len(Append(c, b)) = Len(c) + 1
         /\ c # <<>> => /\ Front(c) \in Chains /\ Last(c) \in Seq(Txid)
                        /\ c = Append(Front(c), Last(c)) /\ Len(Front(c)) = Len(c) - 1
<1>1. c \in Seq(Seq(Txid))
  BY DEF Chains
<1>2. ASSUME NEW b \in Seq(Txid)
      PROVE  /\ Plus(c, b, Len(b)) = Append(c, b) /\ Append(c, b) \in Chains
             /\ Append(c, b) # <<>> /\ Len(Append(c, b)) = Len(c) + 1
             /\ Last(Append(c, b)) = b
  <2>1. SubSeq(b, 1, Len(b)) = b
    OBVIOUS
  <2>2. Append(c, b) \in Seq(Seq(Txid)) /\ Len(Append(c, b)) = Len(c) + 1 /\ Len(c) \in Nat
    BY <1>1
  <2>3. Append(c, b)[Len(c) + 1] = b
    BY <1>1
  <2>4. Append(c, b) # <<>>
    BY <2>2
  <2> QED  BY <2>1, <2>2, <2>3, <2>4 DEF Plus, Chains, Last
<1>3. ASSUME NEW b \in Seq(Txid) PROVE Front(Append(c, b)) = c
  BY <1>1 DEF Front
<1>4. ASSUME c # <<>>
      PROVE  /\ Front(c) \in Chains /\ Last(c) \in Seq(Txid) /\ Len(Front(c)) = Len(c) - 1
             /\ c = Append(Front(c), Last(c))
  <2>1. Len(c) \in Nat /\ Len(c) > 0 /\ c[Len(c)] \in Seq(Txid)
    BY <1>1, <1>4
  <2>2. /\ Front(c) \in Seq(Seq(Txid)) /\ Len(Front(c)) = Len(c) - 1
        /\ \A i \in 1..(Len(c) - 1) : Front(c)[i] = c[i]
    <3> DEFINE n == Len(c)
               f == SubSeq(c, 1, n - 1)
    <3>1. /\ n \in Nat /\ n > 0 /\ 1 \in Int /\ n - 1 \in Int
          /\ \A i \in 1..(n - 1) : c[i] \in Seq(Txid)
      BY <1>1, <2>1
    <3>2. /\ f \in Seq(Seq(Txid)) /\ Len(f) = IF 1 <= n - 1 THEN n - 1 - 1 + 1 ELSE 0
          /\ \A i \in 1..(n - 1 - 1 + 1) : f[i] = c[1 + i - 1]
      BY <3>1, SubSeqProperties
    <3> HIDE DEF n, f
    <3>3. Len(f) = n - 1
      BY <3>1, <3>2
    <3>4. ASSUME NEW i \in 1..(n - 1) PROVE f[i] = c[i]
      <4>1. i \in 1..(n - 1 - 1 + 1) /\ 1 + i - 1 = i
        BY <3>1
      <4> QED  BY <3>2, <4>1
    <3> QED  BY <3>2, <3>3, <3>4 DEF Front, n, f
  <2>3. /\ Append(Front(c), c[Len(c)]) \in Seq(Seq(Txid))
        /\ Len(Append(Front(c), c[Len(c)])) = Len(c)
        /\ \A i \in 1..Len(c) : Append(Front(c), c[Len(c)])[i] = c[i]
    BY <2>1, <2>2
  <2>4. c = Append(Front(c), c[Len(c)])
    <3> DEFINE d == Append(Front(c), c[Len(c)])
    <3>1. d \in Seq(Seq(Txid)) /\ Len(d) = Len(c) /\ \A i \in 1..Len(c) : d[i] = c[i]
      BY <2>3
    <3> HIDE DEF d
    <3>2. d = c
      BY <1>1, <3>1, SeqEqual
    <3> QED  BY <3>2 DEF d
  <2> QED  BY <2>1, <2>2, <2>4 DEF Last, Chains
<1> QED  BY <1>2, <1>3, <1>4

-----------------------------------------------------------------------------
(***************************************************************************)
(* The coins of a chain.                                                   *)
(***************************************************************************)
UnspentOf(c, t) == {n \in Vout[t] : [hash |-> t, n |-> n] \notin SpentIn(c)}
IsCoinBase(t) == t \in Coinbase

\* The coins of one transaction.
LEMMA CoinsOfFacts ==
  ASSUME NEW c, NEW t \in Txid
  PROVE  /\ t \in TxsOf(c) => CoinsOf(c)[t] = Coins(UnspentOf(c, t), HeightOf(c, t), IsCoinBase(t))
         /\ t \notin TxsOf(c) => CoinsOf(c)[t] = Pruned
         /\ CoinsOf(c)[t].outs = IF t \in TxsOf(c) THEN UnspentOf(c, t) ELSE {}
<1>1. t \in TxsOf(c) => CoinsOf(c)[t] = Coins(UnspentOf(c, t), HeightOf(c, t), IsCoinBase(t))
  BY DEF CoinsOf, UnspentOf, IsCoinBase
<1>2. t \notin TxsOf(c) => CoinsOf(c)[t] = Pruned
  BY DEF CoinsOf
<1>3. Pruned.outs = {}
  BY DEF Pruned, Coins
<1> QED  BY <1>1, <1>2, <1>3, CoinsFacts

\* Two chains that imply the same for each transaction have the same coins.
LEMMA CoinsOfEqual ==
  ASSUME NEW c, NEW d, TxsOf(c) = TxsOf(d), SpentIn(c) = SpentIn(d),
         \A t \in TxsOf(c) : HeightOf(c, t) = HeightOf(d, t)
  PROVE  CoinsOf(c) = CoinsOf(d)
<1>1. CoinsOf(c) = [t \in Txid |-> CoinsOf(c)[t]] /\ CoinsOf(d) = [t \in Txid |-> CoinsOf(d)[t]]
  BY DEF CoinsOf
<1>2. ASSUME NEW t \in Txid PROVE CoinsOf(c)[t] = CoinsOf(d)[t]
  <2>1. UnspentOf(c, t) = UnspentOf(d, t)
    BY DEF UnspentOf
  <2>2. CASE t \in TxsOf(c)
    BY <2>1, <2>2, CoinsOfFacts
  <2>3. CASE t \notin TxsOf(c)
    BY <2>3, CoinsOfFacts
  <2> QED  BY <2>2, <2>3
<1> QED  BY <1>1, <1>2

\* Spending nothing changes nothing.
LEMMA PartZero ==
  ASSUME NEW c, NEW tx \in Txid
  PROVE  Part(CoinsOf(c), tx, 0) = CoinsOf(c)
<1>1. CoinsOf(c) = [t \in Txid |-> CoinsOf(c)[t]]
  BY DEF CoinsOf
<1>2. ASSUME NEW t \in Txid PROVE Spend(CoinsOf(c)[t], {}) = CoinsOf(c)[t]
  <2>1. CASE t \in TxsOf(c)
    <3>1. CoinsOf(c)[t] = Coins(UnspentOf(c, t), HeightOf(c, t), IsCoinBase(t))
      BY <2>1, CoinsOfFacts
    <3>2. Less(UnspentOf(c, t), {}) = UnspentOf(c, t)
      BY DEF Less
    <3> QED  BY <3>1, <3>2, CoinsFacts
  <2>2. CASE t \notin TxsOf(c)
    BY <2>2, CoinsOfFacts, CoinsFacts
  <2> QED  BY <2>1, <2>2
<1>3. \A t \in Txid : SpentBy(tx, t, 0) = {}
  BY SpentByFacts
<1> QED  BY <1>1, <1>2, <1>3 DEF Part

\* One transaction more: its coins appear, and what it spends is gone.
LEMMA CoinsStep ==
  ASSUME NEW c \in Chains, NEW b \in Seq(Txid), NEW k \in 0..(Len(b) - 1),
         Good(Plus(c, b, k + 1))
  PROVE  LET C == CoinsOf(Plus(c, b, k))
             D == CoinsOf(Plus(c, b, k + 1))
             tx == b[k + 1] IN
         /\ D = [t \in Txid |-> IF t = tx THEN FromTx(tx, Len(c) + 1)
                                ELSE Part(C, tx, Len(Vin[tx]))[t]]
         /\ D[tx] = FromTx(tx, Len(c) + 1)
         /\ [D EXCEPT ![tx] = Pruned] = Part(C, tx, Len(Vin[tx]))
<1> DEFINE P == Plus(c, b, k)
           Q == Plus(c, b, k + 1)
           C == CoinsOf(P)
           D == CoinsOf(Q)
           n == Len(c) + 1
           tx == b[k + 1]
           m == Len(Vin[tx])
<1>1. /\ Good(P) /\ tx \in Txid /\ tx \notin TxsOf(P) /\ TxsOf(Q) = TxsOf(P) \cup {tx}
      /\ SpentIn(Q) = SpentIn(P) \cup Inputs(tx)
      /\ \A x : [hash |-> tx, n |-> x] \notin SpentIn(Q)
      /\ \A t \in TxsOf(P) : HeightOf(Q, t) = HeightOf(P, t)
      /\ HeightOf(Q, tx) = n
  <2>1. Adds(P, Q, n, tx)
    BY PlusDown, Zenon
  <2> HIDE DEF P, Q, n, tx
  <2> QED  BY <2>1, Zenon DEF Adds
<1> HIDE DEF P, Q, n, tx
<1>2. D[tx] = FromTx(tx, n)
  <2>1. UnspentOf(Q, tx) = Vout[tx]
    BY <1>1, Zenon DEF UnspentOf
  <2> QED  BY <1>1, <2>1, CoinsOfFacts, Zenon DEF FromTx, IsCoinBase
<1>3. ASSUME NEW t \in Txid, t # tx PROVE D[t] = Part(C, tx, m)[t]
  <2>1. Part(C, tx, m)[t] = Spend(C[t], SpentBy(tx, t, m))
    BY DEF Part
  <2>2. CASE t \in TxsOf(P)
    <3>1. C[t] = Coins(UnspentOf(P, t), HeightOf(P, t), IsCoinBase(t))
      BY <2>2, CoinsOfFacts
    <3>2. D[t] = Coins(UnspentOf(Q, t), HeightOf(P, t), IsCoinBase(t))
      BY <1>1, <2>2, CoinsOfFacts, Zenon
    <3>3. UnspentOf(Q, t) = Less(UnspentOf(P, t), SpentBy(tx, t, m))
      BY <1>1, SpentByFacts, Zenon DEF UnspentOf, Less
    <3>4. Spend(Coins(UnspentOf(P, t), HeightOf(P, t), IsCoinBase(t)), SpentBy(tx, t, m))
          = Coins(Less(UnspentOf(P, t), SpentBy(tx, t, m)), HeightOf(P, t), IsCoinBase(t))
      BY SpendCoins, Zenon
    <3> HIDE DEF C, D, m
    <3> QED  BY <2>1, <3>1, <3>2, <3>3, <3>4, Zenon
  <2>3. CASE t \notin TxsOf(P)
    <3>1. C[t] = Pruned /\ D[t] = Pruned
      BY <1>1, <1>3, <2>3, CoinsOfFacts, Zenon
    <3> QED  BY <2>1, <3>1, CoinsFacts, ZenonT(40)
  <2> QED  BY <2>2, <2>3, Zenon
<1>4. Part(C, tx, m)[tx] = Pruned
  <2>1. Part(C, tx, m)[tx] = Spend(C[tx], SpentBy(tx, tx, m))
    BY <1>1, Zenon DEF Part
  <2>2. C[tx] = Pruned
    BY <1>1, CoinsOfFacts, Zenon
  <2> QED  BY <2>1, <2>2, CoinsFacts, Zenon
<1>5. D = [t \in Txid |-> D[t]] /\ Part(C, tx, m) = [t \in Txid |-> Part(C, tx, m)[t]]
  BY DEF CoinsOf, Part
<1> HIDE DEF C, D, m
<1>6. D = [t \in Txid |-> IF t = tx THEN FromTx(tx, n) ELSE Part(C, tx, m)[t]]
  BY <1>2, <1>3, <1>5
<1>7. [D EXCEPT ![tx] = Pruned] = Part(C, tx, m)
  BY <1>1, <1>3, <1>4, <1>5
<1> QED  BY <1>2, <1>6, <1>7 DEF C, D, P, Q, n, tx, m

\* An output put back.
AddOut(x, n) == [x EXCEPT !.outs = @ \cup {n}]

\* Coins with outputs O, of which T are spent, n the last of them and S the
\* others; rec is the undo record of n, and x is left.
SpendsLast(O, h, f, S, T, n, rec, x) ==
  /\ h \in Nat \ {0} /\ n \in O /\ n \notin S /\ T = S \cup {n}
  /\ O \subseteq T => rec.nHeight = h /\ rec.fCoinBase = f
  /\ ~ (O \subseteq T) => rec.nHeight = 0
  /\ x = Coins(Less(O, T), h, f)

\* ApplyTxInUndo is clean and leaves y.
PutBack(x, rec, n, h, y) ==
  /\ rec.nHeight # 0 <=> x.outs = {}
  /\ rec.nHeight \in {0, h}
  /\ n \notin Restored(x, rec).outs
  /\ AddOut(Restored(x, rec), n) = y

\* One output put back, for the coins of one transaction: the record carries
\* the height exactly if nothing else is left of the coins.
LEMMA RestoreOne ==
  ASSUME NEW O, NEW h, NEW f, NEW S, NEW T, NEW n, NEW rec, NEW x,
         SpendsLast(O, h, f, S, T, n, rec, x)
  PROVE  PutBack(x, rec, n, h, Coins(Less(O, S), h, f))
<1> USE DEF SpendsLast
<1>0. x.outs = Less(O, T)
  BY CoinsFacts
<1>1. CASE O \subseteq T
  <2>1. rec.nHeight = h /\ rec.fCoinBase = f
    BY <1>1
  <2>2. Less(O, T) = {} /\ Less(O, S) = {n}
    BY <1>1 DEF Less
  <2>3. Restored(x, rec) = [outs |-> {}, nHeight |-> h, fCoinBase |-> f]
    BY <2>1 DEF Restored
  <2>4. Coins(Less(O, S), h, f) = [outs |-> {n}, nHeight |-> h, fCoinBase |-> f]
    BY <2>2 DEF Coins
  <2>5. AddOut(Restored(x, rec), n) = [outs |-> {n}, nHeight |-> h, fCoinBase |-> f]
    <3>1. AddOut(Restored(x, rec), n) = [outs |-> {} \cup {n}, nHeight |-> h, fCoinBase |-> f]
      BY <2>3 DEF AddOut
    <3>2. {} \cup {n} = {n}
      OBVIOUS
    <3> QED  BY <3>1, <3>2
  <2>6. Restored(x, rec).outs = {}
    BY <2>3
  <2> QED  BY <1>0, <2>1, <2>2, <2>4, <2>5, <2>6 DEF PutBack
<1>2. CASE ~ (O \subseteq T)
  <2>1. rec.nHeight = 0
    BY <1>2
  <2>2. Less(O, T) # {} /\ Less(O, S) # {} /\ Less(O, S) = Less(O, T) \cup {n} /\ n \notin Less(O, T)
    BY <1>2 DEF Less
  <2>3. x = [outs |-> Less(O, T), nHeight |-> h, fCoinBase |-> f]
    BY <2>2 DEF Coins
  <2>4. Restored(x, rec) = x
    BY <2>1 DEF Restored
  <2>5. Coins(Less(O, S), h, f) = [outs |-> Less(O, S), nHeight |-> h, fCoinBase |-> f]
    BY <2>2 DEF Coins
  <2>6. AddOut(x, n) = [outs |-> Less(O, T) \cup {n}, nHeight |-> h, fCoinBase |-> f]
    BY <2>3, SMTT(30) DEF AddOut
  <2> QED  BY <1>0, <2>1, <2>2, <2>4, <2>5, <2>6, SMTT(30) DEF PutBack
<1> QED  BY <1>1, <1>2

\* The height of a transaction of a chain.
LEMMA HeightType ==
  ASSUME NEW c, Good(c), NEW t \in TxsOf(c)
  PROVE  HeightOf(c, t) \in 1..Len(c) /\ HeightOf(c, t) \in Nat \ {0}
<1>1. c \in Chains
  BY DEF Good
<1>2. PICK h \in 1..Len(c) : \E i \in 1..Len(c[h]) : c[h][i] = t
  BY <1>1, TxsFacts
<1> QED  BY <1>1, <1>2, HeightFacts, TxsFacts

\* Input j of tx, spent on top of chain P, can be put back cleanly, with a
\* record of the right height, and that takes the view one input back.
UndoesOne(P, tx, j) ==
  LET C == CoinsOf(P)
      out == Vin[tx][j]
      rec == Rec(C, tx, j)
      coins == Part(C, tx, j)[out.hash]
      base == Restored(coins, rec) IN
  /\ rec.nHeight # 0 <=> coins.outs = {}
  /\ rec.nHeight \in {0, HeightOf(P, out.hash)}
  /\ out.n \notin base.outs
  /\ [Part(C, tx, j) EXCEPT ![out.hash] = [base EXCEPT !.outs = @ \cup {out.n}]]
       = Part(C, tx, j - 1)

\* ApplyTxInUndo is clean and takes the view one input back.
LEMMA UndoStep ==
  ASSUME NEW c \in Chains, NEW b \in Seq(Txid), NEW k \in 0..(Len(b) - 1),
         Good(Plus(c, b, k + 1)), NEW j \in 1..Len(Vin[b[k + 1]])
  PROVE  UndoesOne(Plus(c, b, k), b[k + 1], j)
<1> DEFINE P == Plus(c, b, k)
           C == CoinsOf(P)
           tx == b[k + 1]
           out == Vin[tx][j]
           prev == out.hash
           rec == Rec(C, tx, j)
           coins == Part(C, tx, j)[prev]
           base == Restored(coins, rec)
           O == UnspentOf(P, prev)
           h == HeightOf(P, prev)
           f == IsCoinBase(prev)
           S == SpentBy(tx, prev, j - 1)
           T == SpentBy(tx, prev, j)
<1>1. /\ Good(P) /\ tx \in Txid /\ SpentIn(P) \cap Inputs(tx) = {}
      /\ \A o \in Inputs(tx) : o.hash \in TxsOf(P) /\ o.n \in Vout[o.hash]
  BY PlusDown, Zenon DEF Adds
<1> j \in 1..Len(Vin[tx])
  OBVIOUS
<1> HIDE DEF P, tx
<1>2. out \in Inputs(tx) /\ prev \in Txid /\ out = [hash |-> prev, n |-> out.n] /\ prev \in TxsOf(P)
  BY <1>1, VinFacts
<1>3. C[prev] = Coins(O, h, f)
  BY <1>2, CoinsOfFacts, Zenon
<1>4. h \in Nat \ {0}
  BY <1>1, <1>2, HeightType, Zenon
<1>5. out.n \in O
  BY <1>1, <1>2, Zenon DEF UnspentOf
<1>6. T = S \cup {out.n} /\ out.n \notin S
  BY <1>1, <1>2, SpentByFacts, Zenon
<1>7. coins = Coins(Less(O, T), h, f) /\ Part(C, tx, j - 1)[prev] = Coins(Less(O, S), h, f)
  <2>1. /\ Part(C, tx, j)[prev] = Spend(C[prev], T)
        /\ Part(C, tx, j - 1)[prev] = Spend(C[prev], S)
    BY <1>2, Zenon DEF Part
  <2> HIDE DEF O, S, T, h, f, C, prev
  <2>2. /\ Spend(Coins(O, h, f), T) = Coins(Less(O, T), h, f)
        /\ Spend(Coins(O, h, f), S) = Coins(Less(O, S), h, f)
    BY SpendCoins, Zenon
  <2>3. coins = Spend(C[prev], T)
    BY <2>1, Zenon DEF coins
  <2> HIDE DEF coins
  <2> QED  BY <1>3, <2>1, <2>2, <2>3, Zenon
<1>8. /\ O \subseteq T => rec.nHeight = h /\ rec.fCoinBase = f
      /\ ~ (O \subseteq T) => rec.nHeight = 0
  <2>1. C[prev].outs = O /\ C[prev].nHeight = h /\ C[prev].fCoinBase = f
    <3> HIDE DEF O, h, f
    <3> QED  BY <1>3, <1>5, CoinsFacts
  <2> QED  BY <2>1, Zenon DEF Rec
<1>9. ASSUME NEW t \in Txid, t # prev PROVE Part(C, tx, j)[t] = Part(C, tx, j - 1)[t]
  <2>1. SpentBy(tx, t, j) = SpentBy(tx, t, j - 1)
    <3> tx \in Txid
      BY <1>1
    <3> HIDE DEF O, S, T, h, f, C, rec, coins, base
    <3> QED  BY <1>9, SpentByFacts
  <2> QED  BY <2>1, Zenon DEF Part
<1>10. /\ Part(C, tx, j) = [t \in Txid |-> Part(C, tx, j)[t]]
       /\ Part(C, tx, j - 1) = [t \in Txid |-> Part(C, tx, j - 1)[t]]
  BY DEF Part
<1> DEFINE n == out.n
           A == Part(C, tx, j)
           B == Part(C, tx, j - 1)
<1> HIDE DEF O, h, f, S, T, rec, coins, n
<1>a. SpendsLast(O, h, f, S, T, n, rec, coins)
  BY <1>4, <1>5, <1>6, <1>7, <1>8, Zenon DEF n, SpendsLast
<1>b. PutBack(coins, rec, n, h, Coins(Less(O, S), h, f))
  BY <1>a, RestoreOne
<1>11. /\ rec.nHeight # 0 <=> coins.outs = {}
       /\ rec.nHeight \in {0, h}
       /\ n \notin base.outs
       /\ AddOut(base, n) = Coins(Less(O, S), h, f)
  BY <1>b DEF PutBack
<1> HIDE DEF base
<1>12. [A EXCEPT ![prev] = [base EXCEPT !.outs = @ \cup {n}]] = B
  <2>1. B[prev] = [base EXCEPT !.outs = @ \cup {n}]
    BY <1>7, <1>11, Zenon DEF AddOut
  <2> HIDE DEF A, B, prev
  <2> QED  BY <1>2, <1>9, <1>10, <2>1, Zenon DEF A, B
<1>13. UndoesOne(P, tx, j)
  BY <1>11, <1>12, Zenon DEF UndoesOne, rec, coins, base, n, h
<1> QED  BY <1>13 DEF P, tx

-----------------------------------------------------------------------------
(***************************************************************************)
(* The inductive invariant.                                                *)
(***************************************************************************)

\* Undo records of the first k transactions of block b on chain c.
RecsOk(r, c, b, k) ==
  \A p \in 1..k : \A j \in 1..Len(Vin[b[p]]) :
     r[<<p, j>>] = Rec(CoinsOf(Plus(c, b, p - 1)), b[p], j)

\* Every block of c is in S.
Covers(S, c) == \A h \in 1..Len(c) : SubSeq(c, 1, h) \in S

TipInv ==
  /\ mode \in {"idle", "connect", "outputs", "inputs", "flush"}
  /\ Good(chain) /\ Good(dChain) /\ UtxoIsChain /\ fClean

\* Undo data is that of the first connection, and depends on the block only.
UndoInv == \A b \in DOMAIN undo : /\ b \in Chains /\ b # <<>>
                                  /\ RecsOk(undo[b], Front(b), Last(b), Len(Last(b)))

\* The block index on disk is ahead of the coins on disk.
DiskInv == /\ Covers(DOMAIN undo, chain) /\ Covers(dIndexed, dChain)
           /\ DOMAIN undo = dirty \cup dIndexed
           /\ mode = "flush" => Covers(dIndexed, chain)

ConnectInv ==
  mode = "connect" =>
    /\ body \in Bodies /\ CbHeight[body[1]] = Len(chain) + 1
    /\ pos \in 1..(Len(body) + 1)
    /\ Good(Plus(chain, body, pos - 1))
    /\ view = CoinsOf(Plus(chain, body, pos - 1))
    /\ viewNf = NullifiersOf(Plus(chain, body, pos - 1))
    /\ \A q \in DOMAIN txundo : q[1] \in 1..(pos - 1)
    /\ \A p \in 1..(pos - 1) : \A j \in 1..Len(Vin[body[p]]) : <<p, j>> \in DOMAIN txundo
    /\ RecsOk(txundo, chain, body, pos - 1)

OutputsInv ==
  mode = "outputs" =>
    /\ chain # <<>> /\ body = Last(chain) /\ pos \in 0..Len(body)
    /\ Good(Plus(Front(chain), body, pos))
    /\ view = CoinsOf(Plus(Front(chain), body, pos))
    /\ viewNf = NullifiersOf(Plus(Front(chain), body, pos))

InputsInv ==
  mode = "inputs" =>
    /\ chain # <<>> /\ body = Last(chain) /\ pos \in 1..Len(body)
    /\ Good(Plus(Front(chain), body, pos))
    /\ inp \in 1..Len(Vin[body[pos]])
    /\ view = Part(CoinsOf(Plus(Front(chain), body, pos - 1)), body[pos], inp)
    /\ viewNf = NullifiersOf(Plus(Front(chain), body, pos - 1))

IndInv == TipInv /\ UndoInv /\ DiskInv /\ ConnectInv /\ OutputsInv /\ InputsInv

\* The empty chain.
LEMMA EmptyChain ==
  /\ Good(<<>>) /\ TxsOf(<<>>) = {} /\ SpentIn(<<>>) = {} /\ NullifiersOf(<<>>) = {}
  /\ CoinsOf(<<>>) = [t \in Txid |-> Pruned]
<1>1. <<>> \in Chains /\ Len(<<>>) = 0 /\ 1..0 = {}
  BY DEF Chains
<1>2. TxsOf(<<>>) = {}
  BY <1>1, TxsFacts
<1>3. SpentIn(<<>>) = {} /\ NullifiersOf(<<>>) = {}
  BY <1>2 DEF SpentIn, NullifiersOf
<1>4. Good(<<>>)
  BY <1>1, <1>2 DEF Good, Once, NoConflict, Sourced, CbHeights
<1>5. CoinsOf(<<>>) = [t \in Txid |-> Pruned]
  BY <1>2 DEF CoinsOf
<1> QED  BY <1>2, <1>3, <1>4, <1>5

\* A block without transactions so far changes nothing.
LEMMA ZeroCoins ==
  ASSUME NEW c \in Chains, NEW b \in Seq(Txid)
  PROVE  /\ Good(Plus(c, b, 0)) <=> Good(c)
         /\ NullifiersOf(Plus(c, b, 0)) = NullifiersOf(c)
         /\ Good(c) => CoinsOf(Plus(c, b, 0)) = CoinsOf(c)
<1> DEFINE P == Plus(c, b, 0)
<1>1. /\ Good(P) <=> Good(c)
      /\ TxsOf(P) = TxsOf(c) /\ SpentIn(P) = SpentIn(c) /\ NullifiersOf(P) = NullifiersOf(c)
      /\ Good(c) => \A t \in TxsOf(c) : HeightOf(P, t) = HeightOf(c, t)
  BY PlusZero
<1> HIDE DEF P
<1>2. Good(c) => CoinsOf(P) = CoinsOf(c)
  BY <1>1, CoinsOfEqual
<1> QED  BY <1>1, <1>2 DEF P

\* The blocks of a chain with one block more, and with one less.
LEMMA CoversFacts ==
  ASSUME NEW c \in Chains, NEW S
  PROVE  /\ \A b \in Seq(Txid) : Covers(S, c) /\ Append(c, b) \in S => Covers(S, Append(c, b))
         /\ Covers(S, c) /\ c # <<>> => c \in S /\ Covers(S, Front(c))
         /\ Covers(S, <<>>)
<1>1. c \in Seq(Seq(Txid)) /\ Len(c) \in Nat
  BY DEF Chains
<1>2. ASSUME NEW b \in Seq(Txid), Covers(S, c), Append(c, b) \in S PROVE Covers(S, Append(c, b))
  <2> DEFINE d == Append(c, b)
  <2>1. d \in Seq(Seq(Txid)) /\ Len(d) = Len(c) + 1
    BY <1>1
  <2>2. ASSUME NEW h \in 1..Len(c) PROVE SubSeq(d, 1, h) = SubSeq(c, 1, h)
    BY <1>1
  <2>3. SubSeq(d, 1, Len(d)) = d
    BY <2>1
  <2> HIDE DEF d
  <2>4. ASSUME NEW h \in 1..Len(d) PROVE SubSeq(d, 1, h) \in S
    <3>1. CASE h = Len(d)
      BY <1>2, <2>3, <3>1, Zenon DEF d
    <3>2. CASE h # Len(d)
      <4>1. h \in 1..Len(c)
        BY <1>1, <2>1, <3>2
      <4> QED  BY <1>2, <2>2, <4>1, Zenon DEF Covers
    <3> QED  BY <3>1, <3>2
  <2> QED  BY <2>4 DEF Covers, d
<1>3. ASSUME Covers(S, c), c # <<>> PROVE c \in S /\ Covers(S, Front(c))
  <2>1. Len(c) \in 1..Len(c) /\ SubSeq(c, 1, Len(c)) = c
    BY <1>1, <1>3
  <2>2. Len(Front(c)) = Len(c) - 1
    BY <1>3, PlusFull
  <2>3. ASSUME NEW h \in 1..(Len(c) - 1) PROVE SubSeq(Front(c), 1, h) = SubSeq(c, 1, h) /\ h \in 1..Len(c)
    BY <1>1 DEF Front
  <2> QED  BY <1>3, <2>1, <2>2, <2>3, Zenon DEF Covers
<1>4. Covers(S, <<>>)
  BY DEF Covers
<1> QED  BY <1>2, <1>3, <1>4

(***************************************************************************)
(* The invariant is established by Init and preserved by every action.     *)
(***************************************************************************)

\* Init: no blocks anywhere.
LEMMA InitInv ==
  ASSUME Init
  PROVE  IndInv
<1>1. chain = <<>> /\ dChain = <<>> /\ mode = "idle" /\ fClean = TRUE
  BY DEF Init
<1>2. utxo = [t \in Txid |-> Pruned] /\ dUtxo = [t \in Txid |-> Pruned] /\ nf = {} /\ dNf = {}
  BY DEF Init
<1>3. TipInv
  BY <1>1, <1>2, EmptyChain DEF TipInv, UtxoIsChain
<1>4. DOMAIN undo = {} /\ dIndexed = {} /\ dirty = {}
  BY DEF Init
<1>5. <<>> \in Chains
  BY DEF Chains
<1>6. UndoInv /\ DiskInv
  BY <1>1, <1>4, <1>5, CoversFacts DEF UndoInv, DiskInv
<1> QED  BY <1>1, <1>3, <1>6, Zenon DEF IndInv, ConnectInv, OutputsInv, InputsInv

\* Bodies of blocks: the coinbase is the first transaction and no other.
LEMMA BodyFacts ==
  ASSUME NEW b \in Bodies
  PROVE  b \in Seq(Txid) /\ Len(b) \in Nat \ {0}
         /\ \A i \in 1..Len(b) : b[i] \in Txid /\ (b[i] \in Coinbase => i = 1)
<1>1. b \in Seq(Txid) /\ b # <<>> /\ \A i \in 2..Len(b) : b[i] \notin Coinbase
  BY Blocks
<1> QED  BY <1>1

\* ConnectBlock starts with the coins of the chain.
LEMMA ConnectBlockInv ==
  ASSUME IndInv, NEW b \in Bodies, ConnectBlock(b)
  PROVE  IndInv'
<1>1. /\ mode' = "connect" /\ body' = b /\ pos' = 1 /\ view' = utxo /\ viewNf' = nf
      /\ DOMAIN txundo' = {} /\ fClean' = TRUE /\ CbHeight[b[1]] = Len(chain) + 1
      /\ chain' = chain /\ utxo' = utxo /\ nf' = nf /\ undo' = undo /\ dirty' = dirty
      /\ dChain' = dChain /\ dUtxo' = dUtxo /\ dNf' = dNf /\ dIndexed' = dIndexed
  BY Zenon DEF ConnectBlock, Start, tip, disk, NoRecords
<1>2. TipInv' /\ UndoInv' /\ DiskInv'
  BY <1>1, Zenon DEF IndInv, TipInv, UndoInv, DiskInv, UtxoIsChain
<1>3. b \in Seq(Txid) /\ Len(b) \in Nat \ {0} /\ chain \in Chains /\ Good(chain)
  BY BodyFacts DEF IndInv, TipInv, Good
<1>4. /\ Good(Plus(chain, b, 0)) /\ utxo = CoinsOf(Plus(chain, b, 0))
      /\ nf = NullifiersOf(Plus(chain, b, 0))
  BY <1>3, ZeroCoins DEF IndInv, TipInv, UtxoIsChain
<1>5. ConnectInv'
  <2>1. 1 \in 1..(Len(b) + 1) /\ 1 - 1 = 0 /\ 1..(1 - 1) = {}
    BY <1>3
  <2> QED  BY <1>1, <1>4, <2>1, Zenon DEF ConnectInv, RecsOk
<1> QED  BY <1>1, <1>2, <1>5, Zenon DEF IndInv, OutputsInv, InputsInv

\* What HaveInputs found in the view is unspent in the chain the view shows.
LEMMA HaveInputsFacts ==
  ASSUME NEW c \in Chains, NEW tx \in Txid, HaveInputs(tx),
         view = CoinsOf(c), viewNf = NullifiersOf(c)
  PROVE  /\ Nullifiers[tx] \cap NullifiersOf(c) = {}
         /\ \A o \in Inputs(tx) : o.hash \in TxsOf(c) /\ o.n \in Vout[o.hash] /\ o \notin SpentIn(c)
<1>1. ASSUME NEW o \in Inputs(tx)
      PROVE  o.hash \in TxsOf(c) /\ o.n \in Vout[o.hash] /\ o \notin SpentIn(c)
  <2>1. o = [hash |-> o.hash, n |-> o.n] /\ o.hash \in Txid
    BY VinFacts
  <2>2. o.n \in CoinsOf(c)[o.hash].outs
    BY DEF HaveInputs
  <2>3. o.hash \in TxsOf(c) /\ o.n \in UnspentOf(c, o.hash)
    BY <2>1, <2>2, CoinsOfFacts
  <2> QED  BY <2>1, <2>3 DEF UnspentOf
<1> QED  BY <1>1, Zenon DEF HaveInputs

\* UpdateCoins: one transaction more, with undo records for its inputs.
LEMMA UpdateCoinsInv ==
  ASSUME IndInv, UpdateCoins
  PROVE  IndInv'
<1>1. /\ mode = "connect" /\ pos <= Len(body)
      /\ mode' = "connect" /\ body' = body /\ pos' = pos + 1 /\ fClean' = fClean
      /\ chain' = chain /\ utxo' = utxo /\ nf' = nf /\ undo' = undo /\ dirty' = dirty
      /\ dChain' = dChain /\ dUtxo' = dUtxo /\ dNf' = dNf /\ dIndexed' = dIndexed
  BY Zenon DEF UpdateCoins, tip, disk
<1>2. TipInv' /\ UndoInv' /\ DiskInv'
  BY <1>1, Zenon DEF IndInv, TipInv, UndoInv, DiskInv, UtxoIsChain
<1>3. /\ body \in Bodies /\ CbHeight[body[1]] = Len(chain) + 1
      /\ pos \in 1..(Len(body) + 1)
      /\ Good(Plus(chain, body, pos - 1))
      /\ view = CoinsOf(Plus(chain, body, pos - 1))
      /\ viewNf = NullifiersOf(Plus(chain, body, pos - 1))
      /\ \A q \in DOMAIN txundo : q[1] \in 1..(pos - 1)
      /\ \A p \in 1..(pos - 1) : \A j \in 1..Len(Vin[body[p]]) : <<p, j>> \in DOMAIN txundo
      /\ RecsOk(txundo, chain, body, pos - 1)
  BY <1>1, Zenon DEF IndInv, ConnectInv
<1>4. /\ body \in Seq(Txid) /\ Len(body) \in Nat \ {0} /\ chain \in Chains
      /\ \A i \in 1..Len(body) : body[i] \in Txid /\ (body[i] \in Coinbase => i = 1)
  BY <1>3, BodyFacts, Zenon DEF IndInv, TipInv, Good
<1>5. PICK k \in 0..(Len(body) - 1) : pos = k + 1
  BY <1>1, <1>3, <1>4, Pred, Zenon
<1>6. pos - 1 = k /\ pos' - 1 = k + 1 /\ k + 1 \in 1..Len(body) /\ pos' \in 1..(Len(body) + 1)
  BY <1>1, <1>4, <1>5
<1> DEFINE tx == body[k + 1]
           P == Plus(chain, body, k)
           Q == Plus(chain, body, k + 1)
           C == CoinsOf(P)
           m == Len(Vin[tx])
<1>a. /\ Good(P) /\ view = C /\ viewNf = NullifiersOf(P) /\ P \in Chains
      /\ RecsOk(txundo, chain, body, k)
  BY <1>3, <1>6, Zenon DEF Good
<1>b. tx \in Coinbase => k = 0 /\ CbHeight[tx] = Len(chain) + 1
  <2>1. tx \in Coinbase => k + 1 = 1
    BY <1>4, <1>6
  <2>2. k + 1 = 1 => k = 0
    BY <1>5
  <2> QED  BY <1>3, <2>1, <2>2, Zenon
<1>7. tx \in Txid /\ body[pos] = tx
  BY <1>4, <1>5, <1>6
<1>8. HaveInputs(tx)
  BY <1>7, Zenon DEF UpdateCoins
<1>9. Good(Q)
  <2>1. /\ Nullifiers[tx] \cap NullifiersOf(P) = {}
        /\ \A o \in Inputs(tx) : o.hash \in TxsOf(P) /\ o.n \in Vout[o.hash] /\ o \notin SpentIn(P)
    <3> HIDE DEF P, tx
    <3> QED  BY <1>a, <1>7, <1>8, HaveInputsFacts, Zenon
  <2> QED  BY <1>4, <1>a, <1>b, <2>1, PlusUp, Zenon
<1>10. /\ view' = [t \in Txid |-> IF t = tx THEN FromTx(tx, Len(chain) + 1) ELSE Spent(tx, t)]
       /\ viewNf' = viewNf \cup Nullifiers[tx]
       /\ txundo' = [q \in DOMAIN txundo \cup {<<pos, j>> : j \in 1..m} |->
                       IF q \in DOMAIN txundo THEN txundo[q] ELSE CTxInUndo(tx, q[2])]
  <2>1. Height = Len(chain) + 1
    BY <1>1 DEF Height
  <2> DEFINE u == body[pos]
  <2>2. /\ view' = [t \in Txid |-> IF t = u THEN FromTx(u, Height) ELSE Spent(u, t)]
        /\ viewNf' = viewNf \cup Nullifiers[u]
        /\ txundo' = [q \in DOMAIN txundo \cup {<<pos, j>> : j \in 1..Len(Vin[u])} |->
                        IF q \in DOMAIN txundo THEN txundo[q] ELSE CTxInUndo(u, q[2])]
    BY Zenon DEF UpdateCoins
  <2>3. u = tx
    BY <1>7
  <2> HIDE DEF u, tx
  <2> QED  BY <2>1, <2>2, <2>3, Zenon
<1>11. view' = CoinsOf(Q)
  <2>1. \A t \in Txid : Spent(tx, t) = Part(C, tx, m)[t]
    BY <1>a, Zenon DEF Spent, Part, Spend, Less
  <2>2. CoinsOf(Q) = [t \in Txid |-> IF t = tx THEN FromTx(tx, Len(chain) + 1) ELSE Part(C, tx, m)[t]]
    BY <1>4, <1>9, CoinsStep, ZenonT(40)
  <2> QED  BY <1>10, <2>1, <2>2, Zenon
<1>12. viewNf' = NullifiersOf(Q)
  <2>1. NullifiersOf(Q) = NullifiersOf(P) \cup Nullifiers[tx]
    <3>1. Adds(P, Q, Len(chain) + 1, tx)
      BY <1>4, <1>9, PlusDown, Zenon
    <3> HIDE DEF P, Q, tx
    <3> QED  BY <3>1, Zenon DEF Adds
  <2> QED  BY <1>a, <1>10, <2>1, Zenon
<1>13. \A q \in DOMAIN txundo' : q[1] \in 1..(pos' - 1)
  <2>1. ASSUME NEW q \in DOMAIN txundo' PROVE q[1] \in 1..(pos' - 1)
    <3>1. q \in DOMAIN txundo \/ \E j \in 1..m : q = <<pos, j>>
      BY <1>10, Zenon
    <3>2. CASE q \in DOMAIN txundo
      <4>1. q[1] \in 1..(pos - 1)
        BY <1>3, <3>2, Zenon
      <4> QED  BY <1>1, <1>3, <4>1
    <3>3. CASE \E j \in 1..m : q = <<pos, j>>
      <4>1. q[1] = pos
        BY <3>3
      <4> QED  BY <1>1, <1>3, <4>1
    <3> QED  BY <3>1, <3>2, <3>3
  <2> QED  BY <2>1
<1>14. ASSUME NEW p \in 1..(k + 1), NEW j \in 1..Len(Vin[body[p]])
       PROVE  <<p, j>> \in DOMAIN txundo' /\ txundo'[<<p, j>>] = Rec(CoinsOf(Plus(chain, body, p - 1)), body[p], j)
  <2>1. CASE p \in 1..k
    <3>1. <<p, j>> \in DOMAIN txundo
      BY <1>3, <1>6, <2>1, Zenon
    <3>2. txundo[<<p, j>>] = Rec(CoinsOf(Plus(chain, body, p - 1)), body[p], j)
      BY <1>3, <1>6, <2>1, Zenon DEF RecsOk
    <3> QED  BY <1>10, <3>1, <3>2
  <2>2. CASE p = k + 1
    <3>1. j \in 1..m /\ p = pos /\ p - 1 = k /\ body[p] = tx
      BY <1>5, <1>6, <2>2
    <3>2. <<p, j>> \notin DOMAIN txundo
      <4>1. <<p, j>>[1] = p /\ p \notin 1..(p - 1)
        OBVIOUS
      <4> QED  BY <1>3, <3>1, <4>1, Zenon
    <3>3. <<p, j>> \in {<<pos, i>> : i \in 1..m}
      BY <3>1
    <3>4. txundo'[<<p, j>>] = CTxInUndo(tx, j)
      BY <1>10, <3>2, <3>3
    <3>5. CTxInUndo(tx, j) = Rec(C, tx, j)
      BY <1>3, <1>6, Zenon DEF CTxInUndo, Rec
    <3> QED  BY <1>10, <3>1, <3>3, <3>4, <3>5, Zenon
  <2>3. p \in 1..k \/ p = k + 1
    BY <1>5
  <2> QED  BY <2>1, <2>2, <2>3
<1>15. ConnectInv'
  BY <1>1, <1>3, <1>6, <1>9, <1>11, <1>12, <1>13, <1>14, Zenon DEF ConnectInv, RecsOk
<1> QED  BY <1>1, <1>2, <1>15 DEF IndInv, OutputsInv, InputsInv

\* RejectBlock drops the view.
LEMMA RejectBlockInv ==
  ASSUME IndInv, RejectBlock
  PROVE  IndInv'
<1>1. /\ mode' = "idle" /\ fClean' = TRUE
      /\ chain' = chain /\ utxo' = utxo /\ nf' = nf /\ undo' = undo /\ dirty' = dirty
      /\ dChain' = dChain /\ dUtxo' = dUtxo /\ dNf' = dNf /\ dIndexed' = dIndexed
  BY DEF RejectBlock, NoWork, tip, disk
<1>2. TipInv' /\ UndoInv' /\ DiskInv'
  BY <1>1, Zenon DEF IndInv, TipInv, UndoInv, DiskInv, UtxoIsChain
<1> QED  BY <1>1, <1>2, Zenon DEF IndInv, ConnectInv, OutputsInv, InputsInv

\* ConnectTip: the whole block is in the view, and its undo data is that of
\* any earlier connection.
LEMMA ConnectTipInv ==
  ASSUME IndInv, ConnectTip
  PROVE  IndInv'
<1> DEFINE block == Append(chain, body)
<1>1. /\ mode = "connect" /\ pos > Len(body) /\ mode' = "idle" /\ fClean' = TRUE
      /\ chain' = block /\ utxo' = view /\ nf' = viewNf
      /\ undo' = [b \in DOMAIN undo \cup {block} |-> IF b \in DOMAIN undo THEN undo[b] ELSE txundo]
      /\ dirty' = IF block \in DOMAIN undo THEN dirty ELSE dirty \cup {block}
      /\ dChain' = dChain /\ dUtxo' = dUtxo /\ dNf' = dNf /\ dIndexed' = dIndexed
  BY DEF ConnectTip, NoWork, disk
<1>2. /\ body \in Bodies /\ pos \in 1..(Len(body) + 1)
      /\ Good(Plus(chain, body, pos - 1))
      /\ view = CoinsOf(Plus(chain, body, pos - 1))
      /\ viewNf = NullifiersOf(Plus(chain, body, pos - 1))
      /\ RecsOk(txundo, chain, body, pos - 1)
  BY <1>1, Zenon DEF IndInv, ConnectInv
<1>3. body \in Seq(Txid) /\ Len(body) \in Nat \ {0} /\ chain \in Chains
  BY <1>2, BodyFacts DEF IndInv, TipInv, Good
<1>4. pos - 1 = Len(body)
  BY <1>1, <1>2, <1>3
<1>5. /\ Plus(chain, body, Len(body)) = block /\ block \in Chains
      /\ Front(block) = chain /\ Last(block) = body /\ block # <<>>
  BY <1>3, PlusFull, Zenon
<1> HIDE DEF block
<1>6. /\ Good(block) /\ view = CoinsOf(block) /\ viewNf = NullifiersOf(block)
      /\ RecsOk(txundo, Front(block), Last(block), Len(Last(block)))
  BY <1>2, <1>4, <1>5
<1>7. TipInv'
  BY <1>1, <1>6 DEF IndInv, TipInv, UtxoIsChain
<1>8. UndoInv'
  <2>1. ASSUME NEW b \in DOMAIN undo'
        PROVE  b \in Chains /\ b # <<>> /\ RecsOk(undo'[b], Front(b), Last(b), Len(Last(b)))
    <3>1. CASE b \in DOMAIN undo
      <4>1. undo'[b] = undo[b]
        BY <1>1, <3>1
      <4> QED  BY <3>1, <4>1 DEF IndInv, UndoInv
    <3>2. CASE b \notin DOMAIN undo
      <4>1. b = block /\ undo'[b] = txundo
        BY <1>1, <3>2
      <4> QED  BY <1>5, <1>6, <4>1
    <3> QED  BY <3>1, <3>2
  <2> QED  BY <2>1 DEF UndoInv
<1>9. DiskInv'
  <2>1. DOMAIN undo' = DOMAIN undo \cup {block}
    BY <1>1
  <2>2. Covers(DOMAIN undo', chain)
    BY <2>1 DEF IndInv, DiskInv, Covers
  <2>3. Covers(DOMAIN undo', block)
    BY <1>3, <2>1, <2>2, CoversFacts, Zenon DEF block
  <2>4. DOMAIN undo' = dirty' \cup dIndexed'
    BY <1>1, <2>1 DEF IndInv, DiskInv
  <2> QED  BY <1>1, <2>1, <2>3, <2>4 DEF IndInv, DiskInv
<1> QED  BY <1>1, <1>7, <1>8, <1>9, Zenon DEF IndInv, ConnectInv, OutputsInv, InputsInv

\* The block that is disconnected, and the chain below it.
LEMMA TipFacts ==
  ASSUME IndInv, chain # <<>>
  PROVE  /\ chain \in Chains /\ Front(chain) \in Chains /\ Last(chain) \in Seq(Txid)
         /\ Len(Last(chain)) \in Nat /\ Len(chain) \in Nat /\ Len(Front(chain)) + 1 = Len(chain)
         /\ Plus(Front(chain), Last(chain), Len(Last(chain))) = chain
         /\ chain \in DOMAIN undo
         /\ RecsOk(undo[chain], Front(chain), Last(chain), Len(Last(chain)))
         /\ Covers(DOMAIN undo, Front(chain))
<1>1. chain \in Chains
  BY DEF IndInv, TipInv, Good
<1>2. /\ Front(chain) \in Chains /\ Last(chain) \in Seq(Txid)
      /\ chain = Append(Front(chain), Last(chain)) /\ Len(Front(chain)) = Len(chain) - 1
  BY <1>1, PlusFull
<1>3. Plus(Front(chain), Last(chain), Len(Last(chain))) = chain
  BY <1>2, PlusFull, Zenon
<1>4. chain \in DOMAIN undo /\ Covers(DOMAIN undo, Front(chain))
  BY <1>1, CoversFacts DEF IndInv, DiskInv
<1>5. RecsOk(undo[chain], Front(chain), Last(chain), Len(Last(chain)))
  BY <1>4 DEF IndInv, UndoInv
<1>6. Len(chain) \in Nat /\ Len(Last(chain)) \in Nat /\ Len(Front(chain)) + 1 = Len(chain)
  BY <1>1, <1>2, TxsFacts
<1> QED  BY <1>1, <1>2, <1>3, <1>4, <1>5, <1>6

\* DisconnectBlock starts with the coins of the chain.
LEMMA DisconnectBlockInv ==
  ASSUME IndInv, DisconnectBlock
  PROVE  IndInv'
<1>1. /\ mode' = "outputs" /\ body' = Last(chain) /\ pos' = Len(Last(chain)) /\ chain # <<>>
      /\ view' = utxo /\ viewNf' = nf /\ fClean' = TRUE
      /\ chain' = chain /\ utxo' = utxo /\ nf' = nf /\ undo' = undo /\ dirty' = dirty
      /\ dChain' = dChain /\ dUtxo' = dUtxo /\ dNf' = dNf /\ dIndexed' = dIndexed
  BY Zenon DEF DisconnectBlock, Start, Tip, Last, tip, disk
<1>2. TipInv' /\ UndoInv' /\ DiskInv'
  BY <1>1, Zenon DEF IndInv, TipInv, UndoInv, DiskInv, UtxoIsChain
<1>3. Len(Last(chain)) \in Nat /\ Plus(Front(chain), Last(chain), Len(Last(chain))) = chain
  BY <1>1, TipFacts, Zenon
<1>4. Len(Last(chain)) \in 0..Len(Last(chain))
  BY <1>3
<1>5. OutputsInv'
  BY <1>1, <1>3, <1>4 DEF OutputsInv, IndInv, TipInv, UtxoIsChain
<1> QED  BY <1>1, <1>2, <1>5, Zenon DEF IndInv, ConnectInv, InputsInv

\* The loop of DisconnectBlock goes on with the next input, or the next
\* transaction.
LEMMA ContinueInv ==
  ASSUME IndInv, chain # <<>>, chain' = chain, body = Last(chain), body' = body,
         NEW k \in 0..(Len(body) - 1), pos = k + 1, Good(Plus(Front(chain), body, k + 1)),
         NEW left \in 0..Len(Vin[body[k + 1]]), Continue(left),
         view' = Part(CoinsOf(Plus(Front(chain), body, k)), body[k + 1], left),
         viewNf' = NullifiersOf(Plus(Front(chain), body, k))
  PROVE  mode' \in {"outputs", "inputs"} /\ OutputsInv' /\ InputsInv'
<1>1. Front(chain) \in Chains /\ body \in Seq(Txid) /\ Len(body) \in Nat
  BY TipFacts, Zenon
<1>2. Good(Plus(Front(chain), body, k)) /\ body[k + 1] \in Txid
  BY <1>1, PlusDown, Zenon DEF Adds
<1>3. CASE left = 0
  <2>1. mode' = "outputs" /\ pos' = k
    BY <1>3 DEF Continue
  <2>2. view' = CoinsOf(Plus(Front(chain), body, k))
    BY <1>2, <1>3, PartZero
  <2>3. k \in 0..Len(body)
    BY <1>1
  <2> QED  BY <1>2, <2>1, <2>2, <2>3 DEF OutputsInv, InputsInv
<1>4. CASE left # 0
  <2>1. mode' = "inputs" /\ pos' = k + 1 /\ inp' = left
    BY <1>4 DEF Continue
  <2>2. k + 1 \in 1..Len(body) /\ (k + 1) - 1 = k
    BY <1>1
  <2>3. left \in 1..Len(Vin[body[k + 1]])
    BY <1>2, <1>4, VinFacts
  <2> QED  BY <2>1, <2>2, <2>3 DEF OutputsInv, InputsInv
<1> QED  BY <1>3, <1>4

\* RemoveOutputs finds the outputs of the transaction as they were made, and
\* leaves the coins before it, with its inputs spent.
LEMMA RemoveOutputsInv ==
  ASSUME IndInv, RemoveOutputs
  PROVE  IndInv'
<1>1. /\ mode = "outputs" /\ pos > 0 /\ body' = body
      /\ fClean' = (fClean /\ view[body[pos]] = FromTx(body[pos], Height))
      /\ view' = [view EXCEPT ![body[pos]] = Pruned]
      /\ viewNf' = viewNf \ Nullifiers[body[pos]]
      /\ Continue(Len(Vin[body[pos]]))
      /\ chain' = chain /\ utxo' = utxo /\ nf' = nf /\ undo' = undo /\ dirty' = dirty
      /\ dChain' = dChain /\ dUtxo' = dUtxo /\ dNf' = dNf /\ dIndexed' = dIndexed
  BY DEF RemoveOutputs, tip, disk
<1>2. /\ chain # <<>> /\ body = Last(chain) /\ pos \in 0..Len(body)
      /\ Good(Plus(Front(chain), body, pos))
      /\ view = CoinsOf(Plus(Front(chain), body, pos))
      /\ viewNf = NullifiersOf(Plus(Front(chain), body, pos))
  BY <1>1, Zenon DEF IndInv, OutputsInv
<1>3. /\ Front(chain) \in Chains /\ body \in Seq(Txid) /\ Len(body) \in Nat
      /\ Len(Front(chain)) + 1 = Len(chain)
  BY <1>2, TipFacts, Zenon
<1>4. PICK k \in 0..(Len(body) - 1) : pos = k + 1
  BY <1>1, <1>2, <1>3, Pred, Zenon
<1> DEFINE tx == body[k + 1]
           P == Plus(Front(chain), body, k)
           Q == Plus(Front(chain), body, k + 1)
           m == Len(Vin[tx])
<1>5. Good(Q) /\ view = CoinsOf(Q) /\ viewNf = NullifiersOf(Q) /\ body[pos] = tx
  BY <1>2, <1>4
<1>6. Adds(P, Q, Len(Front(chain)) + 1, tx)
  BY <1>3, <1>5, PlusDown
<1>7. /\ CoinsOf(Q)[tx] = FromTx(tx, Len(Front(chain)) + 1)
      /\ [CoinsOf(Q) EXCEPT ![tx] = Pruned] = Part(CoinsOf(P), tx, m)
  BY <1>3, <1>5, CoinsStep, ZenonT(40)
<1>8. fClean'
  <2>1. Height = Len(chain)
    <3>1. mode # "connect"
      BY <1>1, Zenon
    <3>2. Len(chain) \in Nat
      BY <1>2, TipFacts, Zenon
    <3> QED  BY <3>1, <3>2 DEF Height
  <2> QED  BY <1>1, <1>3, <1>5, <1>7, <2>1, Zenon DEF IndInv, TipInv
<1>9. view' = Part(CoinsOf(P), tx, m)
  BY <1>1, <1>5, <1>7, Zenon
<1>10. viewNf' = NullifiersOf(P)
  BY <1>1, <1>5, <1>6, Zenon DEF Adds
<1>11. m \in 0..m /\ Continue(m)
  <2>1. tx \in Txid
    BY <1>6, Zenon DEF Adds
  <2>2. m \in 0..m
    <3> HIDE DEF tx
    <3> QED  BY <2>1, VinFacts
  <2> QED  BY <1>1, <1>5, <2>2, Zenon
<1>12. mode' \in {"outputs", "inputs"} /\ OutputsInv' /\ InputsInv'
  BY <1>1, <1>2, <1>4, <1>5, <1>9, <1>10, <1>11, ContinueInv, Zenon
<1>13. TipInv' /\ UndoInv' /\ DiskInv'
  BY <1>1, <1>8, <1>12, Zenon DEF IndInv, TipInv, UndoInv, DiskInv, UtxoIsChain
<1> QED  BY <1>12, <1>13, Zenon DEF IndInv, ConnectInv

\* ApplyTxInUndo: the undo record is the one made when the input was spent.
LEMMA ApplyTxInUndoInv ==
  ASSUME IndInv, ApplyTxInUndo
  PROVE  IndInv'
<1> DEFINE out == Vin[body[pos]][inp]
           rec == undo[chain][<<pos, inp>>]
           coins == view[out.hash]
           base == Restored(coins, rec)
<1>1. /\ mode = "inputs" /\ body' = body /\ viewNf' = viewNf /\ Continue(inp - 1)
      /\ fClean' = (fClean /\ (rec.nHeight # 0 <=> coins.outs = {}) /\ out.n \notin base.outs)
      /\ view' = [view EXCEPT ![out.hash] = [base EXCEPT !.outs = @ \cup {out.n}]]
      /\ chain' = chain /\ utxo' = utxo /\ nf' = nf /\ undo' = undo /\ dirty' = dirty
      /\ dChain' = dChain /\ dUtxo' = dUtxo /\ dNf' = dNf /\ dIndexed' = dIndexed
  BY Zenon DEF ApplyTxInUndo, tip, disk
<1>2. /\ chain # <<>> /\ body = Last(chain) /\ pos \in 1..Len(body)
      /\ inp \in 1..Len(Vin[body[pos]])
      /\ Good(Plus(Front(chain), body, pos))
      /\ view = Part(CoinsOf(Plus(Front(chain), body, pos - 1)), body[pos], inp)
      /\ viewNf = NullifiersOf(Plus(Front(chain), body, pos - 1))
  BY <1>1, Zenon DEF IndInv, InputsInv
<1>3. /\ Front(chain) \in Chains /\ body \in Seq(Txid) /\ Len(body) \in Nat
      /\ RecsOk(undo[chain], Front(chain), body, Len(body))
  BY <1>2, TipFacts, Zenon
<1>4. PICK k \in 0..(Len(body) - 1) : pos = k + 1
  BY <1>2, <1>3, Pred, Zenon
<1>5. pos - 1 = k
  BY <1>4
<1> DEFINE tx == body[k + 1]
           P == Plus(Front(chain), body, k)
           Q == Plus(Front(chain), body, k + 1)
           C == CoinsOf(P)
<1>6. /\ Good(Q) /\ view = Part(C, tx, inp) /\ viewNf = NullifiersOf(P)
      /\ body[pos] = tx /\ inp \in 1..Len(Vin[tx])
  BY <1>2, <1>4, <1>5
<1>7. rec = Rec(C, tx, inp)
  BY <1>2, <1>3, <1>4, <1>5, Zenon DEF RecsOk
<1>8. /\ rec.nHeight # 0 <=> coins.outs = {}
      /\ out.n \notin base.outs
      /\ [Part(C, tx, inp) EXCEPT ![out.hash] = [base EXCEPT !.outs = @ \cup {out.n}]]
           = Part(C, tx, inp - 1)
  <2> DEFINE x == Rec(C, tx, inp)
             o == Vin[tx][inp]
             y == Part(C, tx, inp)[o.hash]
             z == Restored(y, x)
  <2>1. /\ x.nHeight # 0 <=> y.outs = {}
        /\ o.n \notin z.outs
        /\ [Part(C, tx, inp) EXCEPT ![o.hash] = [z EXCEPT !.outs = @ \cup {o.n}]]
             = Part(C, tx, inp - 1)
    <3>1. UndoesOne(P, tx, inp)
      BY <1>3, <1>6, UndoStep
    <3> HIDE DEF P, tx
    <3> QED  BY <3>1, Zenon DEF UndoesOne
  <2>2. x = rec /\ o = out /\ y = coins /\ z = base
    BY <1>6, <1>7, Zenon
  <2> HIDE DEF x, o, y, z, rec, out, coins, base
  <2> QED  BY <2>1, <2>2
<1>9. fClean' /\ view' = Part(C, tx, inp - 1)
  <2> HIDE DEF rec, out, coins, base
  <2> QED  BY <1>1, <1>6, <1>8, Zenon DEF IndInv, TipInv
<1>10. inp - 1 \in 0..Len(Vin[tx])
  <2>1. tx \in Txid
    BY <1>3
  <2> QED  BY <1>6, <2>1, VinFacts
<1>11. mode' \in {"outputs", "inputs"} /\ OutputsInv' /\ InputsInv'
  <2> HIDE DEF rec, out, coins, base
  <2> QED  BY <1>1, <1>2, <1>4, <1>6, <1>9, <1>10, ContinueInv, Zenon
<1>12. TipInv' /\ UndoInv' /\ DiskInv'
  <2> HIDE DEF rec, out, coins, base
  <2> QED  BY <1>1, <1>9, <1>11 DEF IndInv, TipInv, UndoInv, DiskInv, UtxoIsChain
<1> QED  BY <1>11, <1>12, Zenon DEF IndInv, ConnectInv

\* DisconnectTip: the view holds the coins below the block.
LEMMA DisconnectTipInv ==
  ASSUME IndInv, DisconnectTip
  PROVE  IndInv'
<1>1. /\ mode = "outputs" /\ pos = 0 /\ mode' = "idle" /\ fClean' = TRUE
      /\ chain' = IF fClean THEN Front(chain) ELSE chain
      /\ utxo' = IF fClean THEN view ELSE utxo
      /\ nf' = IF fClean THEN viewNf ELSE nf
      /\ undo' = undo /\ dirty' = dirty
      /\ dChain' = dChain /\ dUtxo' = dUtxo /\ dNf' = dNf /\ dIndexed' = dIndexed
  BY DEF DisconnectTip, NoWork, disk, Front
<1>2. fClean
  BY DEF IndInv, TipInv
<1>3. /\ chain # <<>> /\ body = Last(chain) /\ Good(Plus(Front(chain), body, 0))
      /\ view = CoinsOf(Plus(Front(chain), body, 0))
      /\ viewNf = NullifiersOf(Plus(Front(chain), body, 0))
  BY <1>1 DEF IndInv, OutputsInv
<1>4. /\ Front(chain) \in Chains /\ body \in Seq(Txid) /\ Covers(DOMAIN undo, Front(chain))
  BY <1>3, TipFacts, Zenon
<1>5. Good(Front(chain)) /\ view = CoinsOf(Front(chain)) /\ viewNf = NullifiersOf(Front(chain))
  BY <1>3, <1>4, ZeroCoins
<1>6. TipInv'
  BY <1>1, <1>2, <1>5 DEF IndInv, TipInv, UtxoIsChain
<1>7. UndoInv' /\ DiskInv'
  BY <1>1, <1>2, <1>4, Zenon DEF IndInv, UndoInv, DiskInv
<1> QED  BY <1>1, <1>6, <1>7, Zenon DEF IndInv, ConnectInv, OutputsInv, InputsInv

\* WriteBlockIndex: every block with undo data is then on disk, so those of
\* the chain are.
LEMMA WriteBlockIndexInv ==
  ASSUME IndInv, WriteBlockIndex
  PROVE  IndInv'
<1>1. /\ mode' \in {"idle", "flush"} /\ fClean' = fClean
      /\ dIndexed' = dIndexed \cup dirty /\ dirty' = {}
      /\ chain' = chain /\ utxo' = utxo /\ nf' = nf /\ undo' = undo
      /\ dChain' = dChain /\ dUtxo' = dUtxo /\ dNf' = dNf
  BY DEF WriteBlockIndex, work, tip
<1>2. TipInv' /\ UndoInv'
  BY <1>1, Zenon DEF IndInv, TipInv, UndoInv, UtxoIsChain
<1>3. DOMAIN undo = dIndexed' /\ dIndexed \subseteq dIndexed'
  BY <1>1, Zenon DEF IndInv, DiskInv
<1>4. DOMAIN undo' = dirty' \cup dIndexed'
  BY <1>1, <1>3
<1>5. Covers(dIndexed', dChain) /\ Covers(dIndexed', chain)
  BY <1>1, <1>3 DEF IndInv, DiskInv, Covers
<1>6. DiskInv'
  BY <1>1, <1>3, <1>4, <1>5 DEF IndInv, DiskInv
<1> QED  BY <1>1, <1>2, <1>6, Zenon DEF IndInv, ConnectInv, OutputsInv, InputsInv

\* FlushCoins follows WriteBlockIndex under the same lock.
LEMMA FlushCoinsInv ==
  ASSUME IndInv, FlushCoins
  PROVE  IndInv'
<1>1. /\ mode = "flush" /\ mode' = "idle" /\ fClean' = fClean
      /\ dIndexed' = dIndexed /\ dirty' = dirty
      /\ chain' = chain /\ utxo' = utxo /\ nf' = nf /\ undo' = undo
      /\ dChain' = chain /\ dUtxo' = utxo /\ dNf' = nf
  BY DEF FlushCoins, work, tip
<1>2. TipInv' /\ UndoInv' /\ DiskInv'
  BY <1>1, Zenon DEF IndInv, TipInv, UndoInv, DiskInv, UtxoIsChain
<1> QED  BY <1>1, <1>2, Zenon DEF IndInv, ConnectInv, OutputsInv, InputsInv

\* Crash: what is on disk is a chain with its coins and undo data.
LEMMA CrashInv ==
  ASSUME IndInv, Crash
  PROVE  IndInv'
<1>1. /\ mode' = "idle" /\ fClean' = TRUE
      /\ chain' = dChain /\ utxo' = dUtxo /\ nf' = dNf
      /\ undo' = [b \in dIndexed |-> undo[b]] /\ dirty' = {}
      /\ dChain' = dChain /\ dUtxo' = dUtxo /\ dNf' = dNf /\ dIndexed' = dIndexed
  BY DEF Crash, NoWork, disk
<1>2. TipInv'
  BY <1>1 DEF IndInv, TipInv, UtxoIsChain
<1>3. dIndexed \subseteq DOMAIN undo
  BY DEF IndInv, DiskInv
<1>4. DOMAIN undo' = dIndexed /\ \A b \in dIndexed : undo'[b] = undo[b]
  BY <1>1
<1>5. UndoInv'
  BY <1>3, <1>4 DEF IndInv, UndoInv
<1>6. DiskInv'
  BY <1>1, <1>4 DEF IndInv, DiskInv
<1> QED  BY <1>1, <1>2, <1>5, <1>6, Zenon DEF IndInv, ConnectInv, OutputsInv, InputsInv

\* A step that changes nothing.
LEMMA StutterInv ==
  ASSUME IndInv, UNCHANGED vars
  PROVE  IndInv'
<1>1. /\ mode' = mode /\ body' = body /\ pos' = pos /\ inp' = inp /\ view' = view
      /\ viewNf' = viewNf /\ txundo' = txundo /\ fClean' = fClean
      /\ chain' = chain /\ utxo' = utxo /\ nf' = nf /\ undo' = undo /\ dirty' = dirty
      /\ dChain' = dChain /\ dUtxo' = dUtxo /\ dNf' = dNf /\ dIndexed' = dIndexed
  BY DEF vars, work, tip, disk
<1>2. TipInv' /\ UndoInv' /\ DiskInv'
  BY <1>1, Zenon DEF IndInv, TipInv, UndoInv, DiskInv, UtxoIsChain
<1>3. ConnectInv' /\ OutputsInv' /\ InputsInv'
  BY <1>1, Zenon DEF IndInv, ConnectInv, OutputsInv, InputsInv
<1> QED  BY <1>2, <1>3 DEF IndInv

\* While blocks are connected, disconnected, flushed and lost in crashes, the
\* view holds the coins of the chain up to the transaction at work, and the
\* undo data is that of the block's place.
THEOREM Invariance == Spec => []IndInv
<1>1. Init => IndInv
  BY InitInv
<1>2. IndInv /\ [Next]_vars => IndInv'
  BY ConnectBlockInv, UpdateCoinsInv, RejectBlockInv, ConnectTipInv, DisconnectBlockInv,
     RemoveOutputsInv, ApplyTxInUndoInv, DisconnectTipInv, WriteBlockIndexInv, FlushCoinsInv,
     CrashInv, StutterInv DEF Next
<1> QED  BY <1>1, <1>2, PTL DEF Spec

\* pcoinsTip and the database hold the coins and nullifiers of their chains:
\* what UpdateCoins does, ApplyTxInUndo undoes.
THEOREM UtxoIsChainHolds == Spec => []UtxoIsChain
<1>1. IndInv => UtxoIsChain
  BY DEF IndInv, TipInv
<1> QED  BY <1>1, Invariance, PTL

\* Every block of the active chain has undo data, also after a crash.
THEOREM UndoAvailableHolds == Spec => []UndoAvailable
<1>1. IndInv => UndoAvailable
  BY DEF IndInv, DiskInv, Covers, UndoAvailable
<1> QED  BY <1>1, Invariance, PTL

\* DisconnectBlock never reports DISCONNECT_UNCLEAN.
THEOREM DisconnectsCleanlyHolds == Spec => []DisconnectsCleanly
<1>1. IndInv => DisconnectsCleanly
  BY DEF IndInv, TipInv, DisconnectsCleanly
<1> QED  BY <1>1, Invariance, PTL
=============================================================================
