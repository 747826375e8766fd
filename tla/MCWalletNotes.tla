--------------------------- MODULE MCWalletNotes ---------------------------
(***************************************************************************)
(* Notes n, m and o of the wallet, which has only an incoming viewing key  *)
(* for o; s spends m, f spends a note of another.                          *)
(***************************************************************************)
EXTENDS WalletNotes

MCCommits == {"n", "m", "o"}
MCMine == {"n", "m", "o"}
MCViewOnly == {"o"}
MCSpender == [m |-> "s", n |-> "never", o |-> "never"]
MCOthers == {"f"}
MCBodies == << {<<"m">>},
               {<<"s">>, <<"n">>, <<"o", "n">>},
               {<<"f">>, <<"n", "o">>},
               {<<"f">>, <<"n">>},
               {<<"f">>} >>
MCFirstChain == <<<<"m">>>>
MCNewChain == <<<<"f">>>>

\* Without what no later state depends on: wallet.dat and the chain on disk
\* after the last restart.
View == <<chain, conflicted, added, lastTip, work, wallet, birth, peak, everSpent, rollbacks,
          restarts,
          IF restarts < MaxRestarts THEN <<disk, diskChain, rolledBack>> ELSE << >> >>
=============================================================================
