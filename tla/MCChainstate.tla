---------------------------- MODULE MCChainstate ----------------------------
(* Chainstate for TLC: three coinbases; x takes both outputs of the first,  *)
(* y and z one each, z together with what y pays; z pays nothing spendable. *)
(* s has only a shielded input, the note that x also spends.                *)
EXTENDS Chainstate

MCTxid == {"a", "b", "c", "x", "y", "z", "s"}
MCCoinbase == {"a", "b", "c"}
Out(t, i) == [hash |-> t, n |-> i]
MCVin == [t \in MCTxid |->
            CASE t = "x" -> <<Out("a", 1), Out("a", 2)>>
              [] t = "y" -> <<Out("a", 1)>>
              [] t = "z" -> <<Out("a", 2), Out("y", 1)>>
              [] OTHER -> <<>>]
MCNullifiers == [t \in MCTxid |-> IF t \in {"s", "x"} THEN {"n"} ELSE {}]
MCVout == [t \in MCTxid |-> CASE t = "a" -> {1, 2} [] t = "z" -> {} [] OTHER -> {1}]
MCCbHeight == [t \in MCCoinbase |-> CASE t = "a" -> 1 [] t = "b" -> 2 [] t = "c" -> 3]
Rest == {<<>>} \cup {<<t>> : t \in {"x", "y", "z", "s"}} \cup {<<"y", "z">>, <<"z", "y">>, <<"s", "x">>}
MCBodies == {<<t>> \o r : t \in MCCoinbase, r \in Rest}

\* Once `lost' is set no property reads the indexes, and no action depends on
\* them.
WithoutLostIndexes ==
  <<mode, body, pos, inp, view, viewNf, txundo, fClean, tip, undo, dirty, disk, lost,
    IF lost THEN <<>> ELSE <<batch, index>>>>
=============================================================================
