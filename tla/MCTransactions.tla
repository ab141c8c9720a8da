--------------------------- MODULE MCTransactions ---------------------------
(* Small instances of the transaction subsystem for TLC. *)
EXTENDS Transactions, TLC

CONSTANTS c1, c2

OneChain == {c1}
TwoChains == {c1, c2}
Symmetry == Permutations(TwoChains)

(* Bound: a dapp's request is made when the one before was prepared without *)
(* an error, and waits for the user or is answered. *)
InTurn ==
  \A t, u \in TxIds : t < u /\ store[u].status # "unborn" =>
                       req[t] \notin {"checking", "gas", "error"}

(* Bound: the user has answered one transaction before the next comes up.   *)
Answered ==
  \A t, u \in TxIds : t < u /\ store[u].status # "unborn" =>
                       store[t].status \notin {"generated", "unapproved"}

(* No step reads the disk any more once the last death is behind.          *)
ViewOfDisk ==
  <<storeVars, cur, loading, pipeVars, uiVars, regas, glob, chainVars, trackVars,
    crashes, switches, IF crashes = MaxCrashes THEN <<>> ELSE <<disk, writes>>>>
=============================================================================
