------------------------------ MODULE CoinsView ------------------------------
(***************************************************************************)
(* What the stack of CCoinsViews of src/src/coins.h promises to its users: *)
(* one flat set of unspent outputs, changed by whole blocks.  A block is   *)
(* worked out on the side, then committed or abandoned as a whole; what is *)
(* on disk is a set that was once committed, together with the hash of the *)
(* block it belongs to, and a crash goes back to exactly that.             *)
(***************************************************************************)
CONSTANTS Txids,     \* transaction hashes
          Outputs,   \* output positions of a transaction
          Blocks,    \* block hashes
          NullHash   \* the null block hash

VARIABLES open,       \* a block is being connected or disconnected
          working,    \* the coins as that block sees them
          committed,  \* the chainstate at the tip of the active chain
          durable     \* the chainstate on disk

vars == <<open, working, committed, durable>>

\* The unspent outputs of every transaction; {} is a pruned or absent entry.
Coins == [Txids -> SUBSET Outputs]
NoCoins == [t \in Txids |-> {}]
State(coins, best) == [coins |-> coins, best |-> best]

Init ==
    /\ open = FALSE
    /\ working = NoCoins
    /\ committed = State(NoCoins, NullHash)
    /\ durable = State(NoCoins, NullHash)

Begin ==
    /\ ~open
    /\ open' = TRUE
    /\ UNCHANGED <<working, committed, durable>>

\* The block changes the outputs of one transaction.
Update(t) ==
    /\ open
    /\ \E c \in SUBSET Outputs : working' = [working EXCEPT ![t] = c]
    /\ UNCHANGED <<open, committed, durable>>

Commit(b) ==
    /\ open
    /\ open' = FALSE
    /\ committed' = State(working, b)
    /\ UNCHANGED <<working, durable>>

Abandon ==
    /\ open
    /\ open' = FALSE
    /\ working' = committed.coins
    /\ UNCHANGED <<committed, durable>>

Persist ==
    /\ ~open
    /\ durable' = committed
    /\ UNCHANGED <<open, working, committed>>

Crash ==
    /\ open' = FALSE
    /\ working' = durable.coins
    /\ committed' = durable
    /\ UNCHANGED durable

Next ==
    \/ Begin \/ Abandon \/ Persist \/ Crash
    \/ \E t \in Txids : Update(t)
    \/ \E b \in Blocks : Commit(b)

Spec == Init /\ [][Next]_vars
=============================================================================
