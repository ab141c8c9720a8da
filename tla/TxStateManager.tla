--------------------------- MODULE TxStateManager ---------------------------
(***************************************************************************)
(* The transaction store of the extension (controllers/transactions/       *)
(* tx-state-manager.js) and the pieces of state whose listeners hang on    *)
(* it: the promises of newUnapprovedTransaction that wait for the          *)
(* `finished` event, and the block listener that polls while something is  *)
(* pending.                                                                *)
(*                                                                         *)
(* The model follows the transactions of one account.  Every lookup of the *)
(* code by `from` then selects them all; two accounts share nothing but    *)
(* the nonce tracker's global lock.  An id stands for the moment its       *)
(* transaction was created, by which the code orders the list.             *)
(***************************************************************************)
EXTENDS Integers, FiniteSets, Sequences

CONSTANTS
  NumTxs,        \* bound: how many transactions are ever created
  MaxNonce,      \* bound: nonces are below it
  Chains,        \* the chains a provider can be configured for
  HistoryLimit,  \* txHistoryLimit (40 in the code)
  None           \* an absent field

ASSUME NumTxsAssumption == NumTxs \in Nat \ {0}
ASSUME MaxNonceAssumption == MaxNonce \in Nat \ {0}
ASSUME HistoryLimitAssumption == HistoryLimit \in Nat \ {0}
ASSUME NoneAssumption == None \notin Chains /\ None \notin Nat

VARIABLES
  store,       \* the txMeta of every id
  req,         \* the dapp's promise for every id
  listening,   \* is the block listener attached?
  cur,         \* chainId of the configured provider
  loading      \* is the network store 'loading'?

storeVars == <<store, req, listening>>

TxIds == 1..NumTxs
Nonces == 0..(MaxNonce - 1)

(***************************************************************************)
(* "rejected" never rests in the store: the handler that sets it removes   *)
(* the transaction.  The two first states and the last one say that the id *)
(* is not in the list.                                                     *)
(***************************************************************************)
ListedStatus == {"unapproved", "approved", "signed", "submitted",
                 "confirmed", "failed", "dropped"}
Status == {"unborn", "generated", "removed"} \cup ListedStatus
FinalStates == {"rejected", "confirmed", "failed", "dropped"}
UnfinishedFailure == {"submitted", "rejected"}  \* a slip: failures are forgotten
FinishedStates == {"submitted", "rejected", "failed"}

TxMeta == [status : Status,
           chain  : Chains \cup {None},    \* chainId it was created on
           nonce  : Nonces \cup {None},    \* txParams.nonce
           custom : Nonces \cup {None},    \* customNonceValue
           fixed  : BOOLEAN,               \* lastGasPrice is set: a replacement
           ready  : BOOLEAN,               \* ~loadingDefaults
           raw    : Nonces \cup {None},    \* the nonce rawTx commits to
           hash   : Nonces \cup {None}]    \* the nonce the published hash stands for

Requests == {"none", "checking", "gas", "waiting", "submitted", "rejected",
             "failed", "error", "lost"}

Blank == [status |-> "unborn", chain |-> None, nonce |-> None, custom |-> None,
          fixed |-> FALSE, ready |-> FALSE, raw |-> None, hash |-> None]

(* generateTxMeta: the defaults of a new transaction on the current chain. *)
GeneratedTx == [Blank EXCEPT !.status = "generated", !.chain = cur]

-----------------------------------------------------------------------------
(* Queries of the store. *)

Listed(t) == store[t].status \in ListedStatus

OnAnyChain(t) == Listed(t)  \* a slip: the chain is not compared

(* getTx(t) # undefined, and membership in getTxList(): current chain only. *)
Visible(t) == Listed(t) /\ store[t].chain = cur

(* getFilteredTxList({status}) *)
WithStatus(s) == {t \in TxIds : Visible(t) /\ store[t].status = s}

(* Slips: the nonces of another status. *)
SignedNonces == {store[t].nonce : t \in WithStatus("signed")}
SubmittedNonces == {store[t].nonce : t \in WithStatus("submitted")}

PendingNonces == {store[t].nonce : t \in WithStatus("submitted")}
ConfirmedNonces == {store[t].nonce : t \in WithStatus("confirmed")}

(* A slip: only one of the two statuses is looked at. *)
PollingIgnoresSubmitted(s, c) ==
  \E t \in TxIds : s[t].chain = c /\ s[t].status = "approved"

(* The pending and approved transactions of chain c in a store s. *)
PollingNeeded(s, c) ==
  \E t \in TxIds : s[t].chain = c /\ s[t].status \in {"submitted", "approved"}

-----------------------------------------------------------------------------
(* Updates of the store. *)

WithStatusSet(s, S, st) ==
  [t \in TxIds |-> IF t \in S THEN [s[t] EXCEPT !.status = st] ELSE s[t]]

(* The listeners of `${id}:finished`: only a promise already waiting hears it. *)
Settle(S, how) ==
  [t \in TxIds |-> IF t \in S /\ req[t] = "waiting" THEN how ELSE req[t]]

(***************************************************************************)
(* _setTxStatus on the transactions S of a store s (s carries the fields   *)
(* the caller has just written): the status, the `tx:status-update` event, *)
(* which makes _setupBlockTrackerListener attach or detach the block       *)
(* listener for the chain c, and the `finished` event.                     *)
(***************************************************************************)
SetTxStatus(s, S, st, c) ==
  /\ store' = WithStatusSet(s, S, st)
  /\ listening' = IF S = {} THEN listening
                  ELSE PollingNeeded(WithStatusSet(s, S, st), c)
  /\ req' = IF st \in FinishedStates THEN Settle(S, st) ELSE req

(* setTxStatusRejected: the status and its events, then _removeTx, which    *)
(* unlike getTx looks at every chain.  The removal happens after the block  *)
(* listener was updated; a rejected transaction is not polled either way.   *)
SetTxStatusRejected(t) ==
  LET seen == IF Visible(t) THEN {t} ELSE {} IN
  /\ store' = IF Listed(t) THEN [store EXCEPT ![t].status = "removed"] ELSE store
  /\ listening' = IF seen = {} THEN listening
                  ELSE PollingNeeded(WithStatusSet(store, {t}, "removed"), cur)
  /\ req' = Settle(seen, "rejected")

(* A slip: the oldest transaction goes, whatever its status. *)
EvictedAny ==
  LET listed == {u \in TxIds : Listed(u)}
  IN IF Cardinality(listed) > HistoryLimit - 1
     THEN {u \in listed : \A v \in listed : u <= v} ELSE {}

(***************************************************************************)
(* addTx: when the list is at the limit the oldest transaction in a final  *)
(* state makes room; if there is none the list grows past the limit.       *)
(***************************************************************************)
Evicted ==
  LET full  == Cardinality({u \in TxIds : Listed(u)}) > HistoryLimit - 1
      final == {u \in TxIds : Listed(u) /\ store[u].status \in FinalStates}
  IN IF full THEN {u \in final : \A v \in final : u <= v} ELSE {}

WithTxAdded(t, txMeta) ==
  [WithStatusSet(store, Evicted, "removed") EXCEPT ![t] = txMeta]

(* clearUnapprovedTxs: every chain, and nobody is told. *)
WithoutUnapproved(s) ==
  WithStatusSet(s, {t \in TxIds : s[t].status = "unapproved"}, "removed")

(* wipeTransactions: the account's transactions of the current chain. *)
WithoutCurrentChain == WithStatusSet(store, {t \in TxIds : Visible(t)}, "removed")

(* The next id, in creation order. *)
Fresh(t) ==
  /\ store[t].status = "unborn"
  /\ \A u \in TxIds : u < t => store[u].status # "unborn"
=============================================================================
