------------------------ MODULE TransactionController ------------------------
(***************************************************************************)
(* controllers/transactions/index.js: how a transaction is requested,      *)
(* approved, given a nonce, signed and published.  approveTransaction is   *)
(* one asynchronous call per transaction; pc[t] is the await it is at.     *)
(*                                                                         *)
(*   gate    nonceTracker.getNonceLock, waiting for the global mutex       *)
(*   lock    the same call, queued for the account's mutex                 *)
(*   nonce   the same call, waiting for the network's nonce                *)
(*   sign    signEthTx (keyring, possibly a hardware wallet)               *)
(*   balance the extra balance query of a swap                             *)
(*   send    sendRawTransaction                                            *)
(*                                                                         *)
(* Everything between two awaits is one action.  inProcessOfSigning is the *)
(* set of ids whose pc is not idle.                                        *)
(***************************************************************************)
EXTENDS TxStateManager

CONSTANTS
  Other,         \* a transaction another wallet sends from the same account
  CustomNonces,  \* the nonces a user may type in
  SwapTxs,       \* the ids whose transactionCategory is SWAP
  NonceTries,    \* attempts retry() makes at the nonce (3 in the code)
  MaxClicks      \* bound: answers the user gives to one transaction
                 \* (two: a popup and a tab are open on it)

ASSUME OtherAssumption == Other \notin Nat
ASSUME CustomNoncesAssumption == CustomNonces \subseteq Nonces
ASSUME NonceTriesAssumption == NonceTries \in Nat \ {0}
ASSUME MaxClicksAssumption == MaxClicks \in Nat

VARIABLES
  pc,      \* where approveTransaction(t) is
  lock,    \* holder of the account's nonce mutex
  tries,   \* failed attempts at the nonce
  asked,   \* chain whose provider was asked for the nonce
  sig,     \* chain id in the signature of t (None: signed without one)
  sent,    \* answers the user has given to t in the UI
  inbox,   \* answers of the UI not yet handled by the background
  regas,   \* gas estimations started by _onBootCleanUp
  glob,    \* is the nonce tracker's global mutex taken?
  mined,   \* per chain, who used the account's nonces 0, 1, ...
  pool     \* signed transactions a node of a chain has accepted

pipeVars == <<pc, lock, tries, asked, sig>>
uiVars == <<sent, inbox>>
chainVars == <<mined, pool>>

Answers == {"approve", "reject"}
InPipeline == {"gate", "lock", "nonce", "sign", "balance", "send"}
HoldsLock == {"nonce", "sign", "balance", "send"}
HasNonce == {"sign", "balance", "send"}

InProcessOfSigning(t) == pc[t] # "idle"

-----------------------------------------------------------------------------
(* Requests of dapps. *)

(***************************************************************************)
(* addUnapprovedTransaction up to its first await: generateTxMeta records  *)
(* the chain and refuses while the network is loading.  The permission     *)
(* check and _determineTransactionCategory are awaited before addTx.       *)
(***************************************************************************)
GenerateTx(t) ==
  /\ Fresh(t)
  /\ ~loading
  /\ store' = [store EXCEPT ![t] = GeneratedTx]
  /\ req' = [req EXCEPT ![t] = "checking"]
  /\ UNCHANGED <<listening, cur, loading, regas, glob>>
  /\ UNCHANGED <<pipeVars, uiVars, chainVars>>

(* The checks passed: addTx, then gas defaults are awaited. *)
AddUnapprovedTransaction(t) ==
  /\ req[t] = "checking"
  /\ store' = WithTxAdded(t, [store[t] EXCEPT !.status = "unapproved"])
  /\ req' = [req EXCEPT ![t] = "gas"]
  /\ UNCHANGED <<listening, cur, loading, regas, glob>>
  /\ UNCHANGED <<pipeVars, uiVars, chainVars>>

(* A check failed: the dapp gets an error and nothing is stored. *)
RefuseTransaction(t) ==
  /\ req[t] = "checking"
  /\ store' = [store EXCEPT ![t].status = "removed"]
  /\ req' = [req EXCEPT ![t] = "error"]
  /\ UNCHANGED <<listening, cur, loading, regas, glob>>
  /\ UNCHANGED <<pipeVars, uiVars, chainVars>>

(***************************************************************************)
(* The end of addTxGasDefaults.  If the transaction is no longer visible   *)
(* getTx gives undefined and the request fails with a TypeError; if the    *)
(* estimation fails the transaction stays in the list, ready, though the   *)
(* dapp gets the error.  Only on success does newUnapprovedTransaction     *)
(* start to listen for `finished`.                                         *)
(***************************************************************************)
AddTxGasDefaults(t, ok) ==
  /\ req[t] = "gas"
  /\ store' = IF Visible(t) THEN [store EXCEPT ![t].ready = TRUE] ELSE store
  /\ req' = [req EXCEPT ![t] = IF ok /\ Visible(t) THEN "waiting" ELSE "error"]
  /\ UNCHANGED <<listening, cur, loading, regas, glob>>
  /\ UNCHANGED <<pipeVars, uiVars, chainVars>>

-----------------------------------------------------------------------------
(* The user's answers. *)

(* The UI shows t as unapproved (approval only once the defaults are there) *)
(* and sends the user's answer to the background.                           *)
Click(t, answer) ==
  /\ Visible(t) /\ store[t].status = "unapproved"
  /\ answer = "approve" => store[t].ready
  /\ answer \notin sent[t]
  /\ Cardinality(sent[t]) < MaxClicks
  /\ sent' = [sent EXCEPT ![t] = @ \cup {answer}]
  /\ inbox' = [inbox EXCEPT ![t] = @ \cup {answer}]
  /\ UNCHANGED <<storeVars, cur, loading, regas, glob>>
  /\ UNCHANGED <<pipeVars, chainVars>>

(***************************************************************************)
(* The synchronous start of approveTransaction on a store s: nothing if it *)
(* is already in process; else setTxStatusApproved, whatever the status    *)
(* was.  An id that is not visible ends in a TypeError that is only        *)
(* logged.                                                                 *)
(***************************************************************************)
StartApproval(t, s) ==
  LET seen == s[t].status \in ListedStatus /\ s[t].chain = cur IN
  IF ~InProcessOfSigning(t) /\ seen
  THEN /\ SetTxStatus(s, {t}, "approved", cur)
       /\ pc' = [pc EXCEPT ![t] = "gate"]
  ELSE /\ store' = s
       /\ UNCHANGED <<listening, req, pc>>

(***************************************************************************)
(* updateAndApproveTransaction: the UI's copy of the transaction, taken    *)
(* while it was unapproved and possibly with a custom nonce, replaces the  *)
(* one in the list, if there is one.                                       *)
(***************************************************************************)
UiCopy(t, custom) ==
  [store[t] EXCEPT !.status = "unapproved", !.ready = TRUE, !.nonce = None,
                   !.custom = custom, !.raw = None, !.hash = None]

UpdateAndApproveTransaction(t, custom) ==
  /\ "approve" \in inbox[t]
  /\ inbox' = [inbox EXCEPT ![t] = @ \ {"approve"}]
  /\ StartApproval(t, IF Listed(t) THEN [store EXCEPT ![t] = UiCopy(t, custom)]
                      ELSE store)
  /\ UNCHANGED <<lock, tries, asked, sig, sent, cur, loading, regas, glob, chainVars>>

(* cancelTransaction *)
CancelTransaction(t) ==
  /\ "reject" \in inbox[t]
  /\ inbox' = [inbox EXCEPT ![t] = @ \ {"reject"}]
  /\ SetTxStatusRejected(t)
  /\ UNCHANGED <<sent, cur, loading, regas, glob>>
  /\ UNCHANGED <<pipeVars, chainVars>>

(***************************************************************************)
(* createCancelTransaction and createSpeedUpTransaction: a transaction of  *)
(* the same nonce, born approved, enters the list and is approved at once. *)
(* The UI offers them for a submitted transaction; the answer may arrive   *)
(* after that one was confirmed or dropped.                                *)
(***************************************************************************)
CreateReplacement(orig, t) ==
  /\ Fresh(t)
  /\ ~loading
  /\ Visible(orig) /\ store[orig].status \in {"submitted", "confirmed", "dropped"}
  /\ SetTxStatus(WithTxAdded(t, [GeneratedTx EXCEPT !.nonce = store[orig].nonce,
                                                    !.fixed = TRUE,
                                                    !.ready = TRUE]),
                 {t}, "approved", cur)
  /\ pc' = [pc EXCEPT ![t] = "gate"]
  /\ UNCHANGED <<lock, tries, asked, sig, uiVars, cur, loading, regas, glob, chainVars>>

-----------------------------------------------------------------------------
(* approveTransaction, from the nonce to the published transaction. *)

envVars == <<uiVars, cur, loading, regas, glob>>

(* getNonceLock first waits until the global mutex is free ... *)
PassGlobalMutex(t) ==
  /\ pc[t] = "gate"
  /\ ~glob
  /\ pc' = [pc EXCEPT ![t] = "lock"]
  /\ UNCHANGED <<storeVars, lock, tries, asked, sig, envVars, chainVars>>

(* ... then takes the account's mutex and asks the network for its nonce. *)
TakeNonceLock(t) ==
  /\ pc[t] = "lock"
  /\ lock = None
  /\ lock' = t
  /\ asked' = cur
  /\ pc' = [pc EXCEPT ![t] = "nonce"]
  /\ UNCHANGED <<storeVars, tries, sig, envVars, chainVars>>

(***************************************************************************)
(* The catch block of approveTransaction: setTxStatusFailed, which throws  *)
(* (and is only logged) if the transaction is not visible, then the lock   *)
(* is released, and the finally block.                                     *)
(***************************************************************************)
MarkNothing(t, s) == store' = s /\ UNCHANGED <<listening, req>>  \* a slip
MarkFailed(t, s) ==
  IF Visible(t) THEN SetTxStatus(s, {t}, "failed", cur)
  ELSE store' = s /\ UNCHANGED <<listening, req>>

KeepLock == lock' = lock  \* a slip: the lock is leaked
ReleaseLock == lock' = None

FailApproval(t, s) ==
  /\ MarkFailed(t, s)
  /\ ReleaseLock
  /\ pc' = [pc EXCEPT ![t] = "idle"]
  /\ tries' = [tries EXCEPT ![t] = 0]

(* The network did not answer: getNonceLock releases the mutex and throws; *)
(* retry() calls it again, and its last error fails the transaction.       *)
NonceFails(t) ==
  /\ pc[t] = "nonce"
  /\ IF tries[t] + 1 < NonceTries
     THEN /\ pc' = [pc EXCEPT ![t] = "gate"]
          /\ tries' = [tries EXCEPT ![t] = @ + 1]
          /\ ReleaseLock
          /\ UNCHANGED storeVars
     ELSE FailApproval(t, store)
  /\ UNCHANGED <<asked, sig, envVars, chainVars>>

(***************************************************************************)
(* getNonceLock's answer: at least the network's nonce and one more than   *)
(* any locally confirmed one, and past the pending nonces contiguous with  *)
(* that.  The node may lag behind the chain ("we could be talking to a     *)
(* node that is out of sync").                                             *)
(***************************************************************************)
IsNextNonce(n, networkNonce) ==
  \E start \in 0..n :
    /\ start = networkNonce \/ start - 1 \in ConfirmedNonces
    /\ networkNonce <= start
    /\ \A c \in ConfirmedNonces : c < start
    /\ n \notin PendingNonces
    /\ \A m \in start..(n - 1) : m \in PendingNonces

(***************************************************************************)
(* The nonce arrives.  A replacement keeps its own; a nonce the user typed *)
(* wins over both.  signTransaction starts in the same turn: it needs the  *)
(* transaction on the current chain, and signs with the current chain id,  *)
(* which getChainId gives as 0 while the network is loading.               *)
(***************************************************************************)
NonceArrives(t, networkNonce) ==
  /\ pc[t] = "nonce"
  /\ networkNonce <= Len(mined[asked])
  /\ \E next \in Nonces :
       /\ IsNextNonce(next, networkNonce)
       /\ LET own   == IF store[t].fixed THEN store[t].nonce ELSE next
              nonce == IF store[t].custom # None THEN store[t].custom ELSE own
              s     == IF Listed(t) THEN [store EXCEPT ![t].nonce = nonce] ELSE store
          IN IF Visible(t)
             THEN /\ store' = s
                  /\ pc' = [pc EXCEPT ![t] = "sign"]
                  /\ sig' = [sig EXCEPT ![t] = IF loading THEN None ELSE cur]
                  /\ UNCHANGED <<listening, req, lock, tries>>
             ELSE FailApproval(t, s) /\ UNCHANGED sig
  /\ UNCHANGED <<asked, envVars, chainVars>>

SignFails(t) ==
  /\ pc[t] = "sign"
  /\ FailApproval(t, store)
  /\ UNCHANGED <<asked, sig, envVars, chainVars>>

(***************************************************************************)
(* A node accepts a transaction signed for its chain or for none, if its   *)
(* nonce is not used yet.                                                  *)
(***************************************************************************)
Accepts(c, t, nonce) ==
  sig[t] \in {c, None} /\ nonce >= Len(mined[c])

Accepted(c, t, nonce) == <<c, t, nonce>> \in pool

(* The request goes out: the node of the current chain may get it or not. *)
Broadcast(t, nonce) ==
  \/ pool' = pool
  \/ Accepts(cur, t, nonce) /\ pool' = pool \cup {<<cur, t, nonce>>}

(***************************************************************************)
(* signEthTx resolved.  setTxStatusSigned does nothing to a transaction    *)
(* that is not visible, and publishTransaction then fails on it; otherwise *)
(* rawTx is stored and, unless a swap asks for the balance first, sent.    *)
(***************************************************************************)
SignTransaction(t) ==
  /\ pc[t] = "sign"
  /\ IF Visible(t)
     THEN /\ SetTxStatus([store EXCEPT ![t].raw = store[t].nonce], {t}, "signed", cur)
          /\ IF t \in SwapTxs
             THEN pc' = [pc EXCEPT ![t] = "balance"] /\ UNCHANGED pool
             ELSE pc' = [pc EXCEPT ![t] = "send"] /\ Broadcast(t, store[t].nonce)
          /\ UNCHANGED <<lock, tries>>
     ELSE FailApproval(t, store) /\ UNCHANGED pool
  /\ UNCHANGED <<asked, sig, envVars, mined>>

(* The balance of a swap's account arrived: no second look at the list. *)
SwapBalance(t) ==
  /\ pc[t] = "balance"
  /\ pc' = [pc EXCEPT ![t] = "send"]
  /\ Broadcast(t, store[t].raw)
  /\ UNCHANGED <<storeVars, lock, tries, asked, sig, envVars, mined>>

SwapBalanceFails(t) ==
  /\ pc[t] = "balance"
  /\ FailApproval(t, store)
  /\ UNCHANGED <<asked, sig, envVars, chainVars>>

(***************************************************************************)
(* sendRawTransaction gave a hash, or the error "known transaction", from  *)
(* which the hash is computed: setTxHash, setTxStatusSubmitted, and the    *)
(* lock is released.  Not visible any more: setTxHash throws.              *)
(***************************************************************************)
PublishTransaction(t) ==
  /\ pc[t] = "send"
  /\ \E c \in Chains : Accepted(c, t, store[t].raw)
  /\ IF Visible(t)
     THEN /\ SetTxStatus([store EXCEPT ![t].hash = store[t].raw], {t}, "submitted", cur)
          /\ ReleaseLock
          /\ pc' = [pc EXCEPT ![t] = "idle"]
          /\ tries' = [tries EXCEPT ![t] = 0]
     ELSE FailApproval(t, store)
  /\ UNCHANGED <<asked, sig, envVars, chainVars>>

(* Any other error, or no answer: the node may have the transaction or not. *)
PublishFails(t) ==
  /\ pc[t] = "send"
  /\ FailApproval(t, store)
  /\ UNCHANGED <<asked, sig, envVars, chainVars>>

-----------------------------------------------------------------------------
(* _onBootCleanUp: runs in the constructor and on every update of the      *)
(* network store.                                                          *)

StuckApproved(s, c) ==
  {t \in TxIds : s[t].status = "approved" /\ s[t].chain = c}

NeedGas(s, c) ==
  {t \in TxIds : s[t].status = "unapproved" /\ ~s[t].ready /\ s[t].chain = c}

(* On the store s and the chain c just configured. *)
OnBootCleanUp(s, c) ==
  /\ SetTxStatus(s, StuckApproved(s, c), "failed", c)
  /\ regas' = regas \cup NeedGas(s, c)

(* The gas defaults asked for at boot arrive, or do not.  A transaction no *)
(* longer visible makes the handler throw, unnoticed.                      *)
BootGasDefaults(t, ok) ==
  /\ t \in regas
  /\ regas' = regas \ {t}
  /\ LET s == IF Visible(t) THEN [store EXCEPT ![t].ready = TRUE] ELSE store IN
     IF ok \/ ~Visible(t)
     THEN store' = s /\ UNCHANGED <<listening, req>>
     ELSE SetTxStatus(s, {t}, "failed", cur)
  /\ UNCHANGED <<pipeVars, uiVars, cur, loading, glob, chainVars>>
=============================================================================
