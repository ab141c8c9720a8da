-------------------------- MODULE PendingTxTracker --------------------------
(***************************************************************************)
(* controllers/transactions/pending-tx-tracker.js.  On every block, while  *)
(* the listener is attached, updatePendingTxs checks all pending           *)
(* transactions in parallel under the nonce tracker's global mutex, and    *)
(* resubmitPendingTxs then walks a list captured once, awaiting each       *)
(* element.                                                                *)
(*                                                                         *)
(* A round that fails leaves its other checks running, and the next block  *)
(* starts a second check of the same transactions beside them.             *)
(*                                                                         *)
(* Bounds: one resubmission loop runs at a time; only the checks of        *)
(* LateTxs outlive their round, and two of one transaction that wait for   *)
(* the same answer of the same chain are one.  The exponential backoff is  *)
(* a choice of whether a retry is due.                                     *)
(***************************************************************************)
EXTENDS TransactionController

CONSTANTS
  DropBuffer,  \* DROPPED_BUFFER_COUNT (3 in the code)
  SlowTxs,     \* the ids that may get older than the signing timeout
  LateTxs      \* bound: the ids whose checks may outlive their round

ASSUME DropBufferAssumption == DropBuffer \in Nat

VARIABLES
  checks, \* the calls of _checkPendingTx under way
  buf,    \* droppedBlocksBufferByHash
  todo,   \* rest of the list resubmitPendingTxs walks: <<part, id>>
  resub,  \* what that loop awaits: <<"publish" or "approve", id>>, or None
  old     \* ids created more than 180 s ago

trackVars == <<checks, buf, todo, resub, old>>

(* A check: the request it awaits, the chain asked, and whether the round   *)
(* that holds the global mutex still waits for it. *)
Check == [tx : TxIds, stage : {"receipt", "count"}, on : Chains, awaited : BOOLEAN]

Awaited == {c \in checks : c.awaited}

(* getPendingTransactions as wired by the controller: submitted ones (part *)
(* 0), then approved ones (part 1), each in the order of the list.         *)
PendingList(s) ==
  {<<0, t>> : t \in {u \in TxIds : s[u].status = "submitted" /\ s[u].chain = cur}}
    \cup
  {<<1, t>> : t \in {u \in TxIds : s[u].status = "approved" /\ s[u].chain = cur}}

-----------------------------------------------------------------------------
(* updatePendingTxs *)

(* The round is over: the global mutex is released and resubmission starts *)
(* on the transactions pending now.                                        *)
EndRound(s) ==
  /\ glob' = FALSE
  /\ todo' = IF todo = {} /\ resub = None THEN PendingList(s) ELSE todo

(* A slip: the comparison is the wrong way round. *)
NonceIsBehind(t) ==
  \E u \in WithStatus("confirmed") : u # t /\ store[u].nonce <= store[t].nonce

(* "Transactions whose nonce is taken": another confirmed one is as high. *)
NonceIsTaken(t) ==
  \E u \in WithStatus("confirmed") : u # t /\ store[u].nonce >= store[t].nonce

(***************************************************************************)
(* A block arrives.  _checkPendingTx of every pending transaction runs up  *)
(* to its first request: an approved one older than the timeout, and a     *)
(* submitted one without hash, is failed; one whose nonce is taken is      *)
(* dropped; for the others the receipt is requested, though a check of an  *)
(* earlier round may still be under way.                                   *)
(***************************************************************************)
UpdatePendingTxs ==
  LET tooOld == WithStatus("approved") \cap old
      noHash == {t \in WithStatus("submitted") : store[t].hash = None}
      failed == tooOld \cup noHash
      taken  == {t \in WithStatus("submitted") \ noHash : NonceIsTaken(t)}
      asks   == WithStatus("submitted") \ (noHash \cup taken)
  IN
  /\ listening
  /\ ~glob
  /\ store' = WithStatusSet(WithStatusSet(store, failed, "failed"), taken, "dropped")
  /\ listening' = IF failed \cup taken = {} THEN listening
                  ELSE PollingNeeded(store', cur)
  /\ req' = Settle(failed, "failed")
  /\ checks' = checks \cup
       {[tx |-> t, stage |-> "receipt", on |-> cur, awaited |-> TRUE] : t \in asks}
  /\ IF asks = {} THEN EndRound(store') ELSE glob' = TRUE /\ UNCHANGED todo
  /\ UNCHANGED <<buf, resub, old, regas, cur, loading>>
  /\ UNCHANGED <<pipeVars, uiVars, chainVars>>

(* The check c returns; the last one its round awaits ends the round. *)
CheckDone(c, s) ==
  /\ checks' = checks \ {c}
  /\ IF Awaited = {c} THEN EndRound(s) ELSE UNCHANGED <<glob, todo>>

checkFrame == <<resub, old, regas, cur, loading, pipeVars, uiVars, chainVars>>

ReceiptExists(c) ==
  /\ store[c.tx].hash < Len(mined[c.on])
  /\ mined[c.on][store[c.tx].hash + 1] = c.tx

(* _markNonceDuplicatesDropped: every other transaction of the nonce on the *)
(* current chain, whatever its status.                                      *)
NonceDuplicates(t) ==
  {u \in TxIds \ {t} : Visible(u) /\ store[u].nonce = store[t].nonce}

(* A receipt with a block number: confirmTransaction, whatever the status   *)
(* has become since the check began. *)
ConfirmTransaction(c) ==
  /\ c.stage = "receipt"
  /\ ReceiptExists(c)
  /\ IF Visible(c.tx)
     THEN SetTxStatus(WithStatusSet(store, NonceDuplicates(c.tx), "dropped"),
                      {c.tx}, "confirmed", cur)
     ELSE UNCHANGED storeVars
  /\ CheckDone(c, store')
  /\ UNCHANGED <<buf, checkFrame>>

(***************************************************************************)
(* No receipt, though there may be one (the node lags): the account's      *)
(* nonce is requested next.  A failed request ends the check, unless the   *)
(* transaction was submitted three days ago, which asks for the nonce too. *)
(***************************************************************************)
ReceiptMissing(c) ==
  /\ c.stage = "receipt"
  /\ checks' = (checks \ {c}) \cup {[c EXCEPT !.stage = "count", !.on = cur]}
  /\ UNCHANGED <<storeVars, glob, todo, buf, checkFrame>>

ReceiptFails(c) ==
  /\ c.stage = "receipt"
  /\ CheckDone(c, store)
  /\ UNCHANGED <<storeVars, buf, checkFrame>>

BufferOverrun(b) == b + 1  \* a slip: never reset

(* One more count by which the network is past the transaction's nonce. *)
BufferAfter(b) == IF b < DropBuffer THEN b + 1 ELSE 0

(***************************************************************************)
(* _checkIfTxWasDropped: the nonce the node asked gives (it may lag) has   *)
(* to be past the transaction's DropBuffer + 1 times.  Nothing looks at    *)
(* the status again: what was confirmed meanwhile is dropped.              *)
(***************************************************************************)
NonceCount(c, networkNonce) ==
  LET t      == c.tx
      behind == store[t].nonce < networkNonce IN
  /\ c.stage = "count"
  /\ networkNonce <= Len(mined[c.on])
  /\ IF behind /\ buf[t] = DropBuffer /\ Visible(t)
     THEN SetTxStatus(store, {t}, "dropped", cur)
     ELSE UNCHANGED storeVars
  /\ buf' = [buf EXCEPT ![t] = IF behind THEN BufferAfter(@) ELSE @]
  /\ CheckDone(c, store')
  /\ UNCHANGED checkFrame

(***************************************************************************)
(* The request for the nonce fails, which nothing catches: if the round    *)
(* still awaits the check, Promise.all rejects and the round ends at once, *)
(* with the other checks under way and awaited by nobody.                  *)
(***************************************************************************)
NonceCountFails(c) ==
  /\ c.stage = "count"
  /\ IF c.awaited
     THEN /\ \A d \in checks \ {c} : d.tx \in LateTxs
          /\ checks' = {[d EXCEPT !.awaited = FALSE] : d \in checks \ {c}}
          /\ EndRound(store)
     ELSE /\ checks' = checks \ {c}
          /\ UNCHANGED <<glob, todo>>
  /\ UNCHANGED <<storeVars, buf, checkFrame>>

-----------------------------------------------------------------------------
(* resubmitPendingTxs *)

(* Between two awaits the loop runs without a break: nothing else happens   *)
(* while it has a list and awaits nothing.                                  *)
LoopRunning == todo # {} /\ resub = None

NextTodo(x) ==
  /\ LoopRunning
  /\ x \in todo
  /\ \A y \in todo : x[1] < y[1] \/ (x[1] = y[1] /\ x[2] <= y[2])
  /\ todo' = todo \ {x}

resubFrame == <<checks, buf, old, uiVars, cur, loading, regas, glob>>

(* The backoff has not elapsed, or the block only starts it. *)
ResubmitLater(x) ==
  /\ NextTodo(x)
  /\ UNCHANGED <<resub, storeVars, pipeVars, resubFrame, chainVars>>

NeverRaw(t) == FALSE  \* a slip: signed ones are approved again

(* "Only auto-submit already-signed txs" *)
HasRawTx(t) == store[t].raw # None

(***************************************************************************)
(* Without rawTx the transaction is approved again: the list was captured  *)
(* before the awaits of its earlier elements, so its status may have       *)
(* changed since.  approveTransaction returns at once if it is in process, *)
(* and throws if it is no longer visible.                                  *)
(***************************************************************************)
ResubmitApprove(x) ==
  LET t == x[2] IN
  /\ NextTodo(x)
  /\ ~HasRawTx(t)
  /\ StartApproval(t, store)
  /\ resub' = IF pc' = pc THEN None ELSE <<"approve", t>>
  /\ UNCHANGED <<lock, tries, asked, sig, resubFrame, chainVars>>

(* With rawTx it is sent to whatever provider is configured now. *)
ResubmitPublish(x) ==
  LET t == x[2] IN
  /\ NextTodo(x)
  /\ HasRawTx(t)
  /\ Broadcast(t, store[t].raw)
  /\ resub' = <<"publish", t>>
  /\ UNCHANGED <<storeVars, pipeVars, resubFrame, mined>>

(***************************************************************************)
(* What the loop awaited ends.  One of the "known transaction" errors      *)
(* stops the whole loop; a success or another error goes on with the next. *)
(***************************************************************************)
ResubmitReturns(stop) ==
  /\ resub # None
  /\ resub[1] = "approve" => ~InProcessOfSigning(resub[2])
  /\ resub' = None
  /\ todo' = IF stop THEN {} ELSE todo
  /\ UNCHANGED <<storeVars, pipeVars, resubFrame, chainVars>>

(* Three minutes have passed since t was created. *)
GetOld(t) ==
  /\ t \in SlowTxs \ old
  /\ store[t].status # "unborn"
  /\ old' = old \cup {t}
  /\ UNCHANGED <<storeVars, pipeVars, uiVars, cur, loading, regas, glob, chainVars>>
  /\ UNCHANGED <<checks, buf, todo, resub>>
=============================================================================
