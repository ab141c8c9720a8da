----------------------------- MODULE NonceLedger -----------------------------
(***************************************************************************)
(* What the nonce lock of the transaction controller promises: a nonce the *)
(* tracker chose is claimed on its chain by one waiting transaction at a   *)
(* time.  A claim is made only by the holder of the lock, for a slot (a    *)
(* chain and a nonce) nobody else claims; claims end at any time; the      *)
(* claims last written to the disk are those of the next start.            *)
(***************************************************************************)
CONSTANTS
  Txs,   \* the transactions of an account
  Slots, \* what can be claimed
  NoOne  \* no holder, no claim

VARIABLES
  holder,  \* who holds the nonce lock
  claims,  \* per transaction, the slot it waits on
  saved    \* the claims on the disk

ledger == <<holder, claims, saved>>

LedgerTypeOK ==
  /\ holder \in Txs \cup {NoOne}
  /\ claims \in [Txs -> Slots \cup {NoOne}]
  /\ saved \in [Txs -> Slots \cup {NoOne}]

LedgerInit ==
  /\ holder = NoOne
  /\ claims = [t \in Txs |-> NoOne]
  /\ saved = [t \in Txs |-> NoOne]

Acquire(t) ==
  /\ holder = NoOne
  /\ holder' = t
  /\ UNCHANGED <<claims, saved>>

(* The holder gives the lock back without a claim of its own. *)
Release ==
  /\ holder' = NoOne
  /\ UNCHANGED <<claims, saved>>

(* The holder's transaction waits in the network from now on. *)
Claim(t, slot) ==
  /\ holder = t
  /\ \A u \in Txs \ {t} : claims[u] # slot
  /\ claims' = [claims EXCEPT ![t] = slot]
  /\ holder' = NoOne
  /\ UNCHANGED saved

(* Some transactions stop waiting: confirmed, dropped, failed or removed. *)
Resolve ==
  /\ \A t \in Txs : claims'[t] \in {claims[t], NoOne}
  /\ claims' \in [Txs -> Slots \cup {NoOne}]
  /\ UNCHANGED <<holder, saved>>

Save ==
  /\ saved' = claims
  /\ UNCHANGED <<holder, claims>>

Reboot ==
  /\ holder' = NoOne
  /\ claims' = saved
  /\ UNCHANGED saved

LedgerNext ==
  \/ \E t \in Txs : Acquire(t)
  \/ Release
  \/ \E t \in Txs, slot \in Slots : Claim(t, slot)
  \/ Resolve
  \/ Save
  \/ Reboot

LedgerSpec == LedgerInit /\ [][LedgerNext]_ledger

(* No two transactions claim the same slot. *)
Exclusive(c) == \A t, u \in Txs : t # u /\ c[t] = c[u] => c[t] = NoOne
=============================================================================
