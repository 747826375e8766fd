-------------------------- MODULE CoinsWriteFailure --------------------------
(***************************************************************************)
(* CoinsCache when the batch write of a full flush can fail.               *)
(* CCoinsViewDB::BatchWrite erases the entries of the cache it is given    *)
(* while it builds the batch, and CDBWrapper::WriteBatch throws when       *)
(* LevelDB reports an error.  FlushStateToDisk catches the exception and   *)
(* calls AbortNode, which requests a shutdown; Shutdown() then calls       *)
(* FlushStateToDisk again on the same pcoinsTip.                           *)
(***************************************************************************)
EXTENDS CoinsCache

VARIABLES aborted,   \* AbortNode was called: only Shutdown() follows
          states     \* every state pcoinsTip has shown between two blocks

allVars == <<vars, aborted, states>>

TipState == [coins |-> TipCoins, best |-> TipBest]

InitW == Init /\ aborted = FALSE /\ states = {TipState}

\* Any step of the healthy node.
Healthy ==
    /\ ~aborted
    /\ Next
    /\ UNCHANGED aborted
    /\ states' = IF mode' = "closed" THEN states \cup {TipState'} ELSE states

\* WriteBatch throws: nothing is written, but the entries are gone from
\* pcoinsTip, whose hashBlock stays.
FlushFails ==
    /\ ~aborted /\ mode = "closed"
    /\ aborted' = TRUE
    /\ tip' = Empty
    /\ UNCHANGED <<mode, new, view, tipBest, disk, diskBest, states>>

\* Shutdown(): FlushStateToDisk on what is left, successfully; the process
\* ends and is started again.
ShutdownAfterAbort ==
    /\ aborted
    /\ aborted' = FALSE
    /\ disk' = [t \in Txids |-> Written(disk[t], tip[t])]
    /\ diskBest' = TipBest
    /\ tip' = Empty /\ tipBest' = NullHash
    /\ UNCHANGED <<mode, new, view, states>>

SpecW == InitW /\ [][Healthy \/ FlushFails \/ ShutdownAfterAbort]_allVars

\* The database holds the coins of the block it names: GetBestBlock returns
\* "the block hash whose state this CCoinsView currently represents"
\* (coins.h), also after a failed write that "is handled by the caller"
\* (init.cpp).
DiskIsOneState == [coins |-> disk, best |-> diskBest] \in states
=============================================================================
