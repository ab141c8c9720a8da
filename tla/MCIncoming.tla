----------------------------- MODULE MCIncoming -----------------------------
(* A small instance of the incoming transactions by itself: two networks,   *)
(* both served by the explorer, and one account.                            *)
EXTENDS IncomingTransactions, TLC
=============================================================================
