-------------------------- MODULE NonceLedgerProofs --------------------------
(* The nonce ledger keeps its promise. *)
EXTENDS NonceLedger, TLAPS

(* Claims in memory and on the disk: a restart turns one into the other. *)
LedgerInv == Exclusive(claims) /\ Exclusive(saved)

(* However acquisitions, claims and restarts follow each other, no two      *)
(* transactions claim the same nonce of the same chain.                     *)
THEOREM LedgerExclusive == LedgerSpec => []LedgerInv
<1>1. LedgerInit => LedgerInv
  BY DEF LedgerInit, LedgerInv, Exclusive
<1>2. LedgerInv /\ [LedgerNext]_ledger => LedgerInv'
  <2> SUFFICES ASSUME LedgerInv, [LedgerNext]_ledger PROVE LedgerInv'
    OBVIOUS
  <2> USE DEF LedgerInv, Exclusive
  <2>1. ASSUME NEW t \in Txs, Acquire(t) PROVE LedgerInv'
    BY <2>1 DEF Acquire
  <2>2. CASE Release
    BY <2>2 DEF Release
  <2>3. ASSUME NEW t \in Txs, NEW slot \in Slots, Claim(t, slot) PROVE LedgerInv'
    BY <2>3 DEF Claim
  <2>4. CASE Resolve
    BY <2>4 DEF Resolve
  <2>5. CASE Save
    BY <2>5 DEF Save
  <2>6. CASE Reboot
    BY <2>6 DEF Reboot
  <2>7. CASE UNCHANGED ledger
    BY <2>7 DEF ledger
  <2> QED BY <2>1, <2>2, <2>3, <2>4, <2>5, <2>6, <2>7 DEF LedgerNext
<1> QED BY <1>1, <1>2, PTL DEF LedgerSpec
=============================================================================
