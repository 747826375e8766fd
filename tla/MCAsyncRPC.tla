----------------------------- MODULE MCAsyncRPC -----------------------------
(* Two workers and two operations out of three: one that locks its inputs    *)
(* and two migrations, the second of which cancels the first.  The node      *)
(* starts one worker, its tests several.                                     *)
EXTENDS AsyncRPC, TLC

CONSTANTS a, b, c, w1, w2

MCOps == {a, b, c}
MCLocking == {a}
MCMigrations == {b, c}
MCWorkers == {w1, w2}

\* The two migrations are alike: b is the name of the one that starts first.
InOrder == state_[c] # "none" => state_[b] # "none"
=============================================================================
