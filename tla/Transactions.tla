---------------------------- MODULE Transactions ----------------------------
(***************************************************************************)
(* The transaction subsystem: the controller and the pending tracker       *)
(* together with what surrounds them - the network controller's switches,  *)
(* the chains, the persistence pipeline of background.js and the restart   *)
(* of the background page.                                                 *)
(***************************************************************************)
EXTENDS PendingTxTracker

CONSTANTS
  OtherChains,  \* chains on which another wallet uses the same account
  MaxSwitches,  \* bound: network switches and account resets
  MaxCrashes    \* bound: deaths of the background page

ASSUME OtherChainsAssumption == OtherChains \subseteq Chains
ASSUME NoneIsNoSlot == None \notin (Chains \cup {None}) \X (Nonces \cup {None})
ASSUME MaxSwitchesAssumption == MaxSwitches \in Nat
ASSUME MaxCrashesAssumption == MaxCrashes \in Nat

VARIABLES
  disk,      \* the transactions in chrome.storage
  writes,    \* writes to it so far
  crashes,   \* deaths so far
  switches   \* switches and resets so far

hostVars == <<disk, writes, crashes, switches>>

vars == <<storeVars, cur, loading, pipeVars, uiVars, regas, glob, chainVars,
          trackVars, hostVars>>

TypeOK ==
  /\ store \in [TxIds -> TxMeta]
  /\ req \in [TxIds -> Requests]
  /\ listening \in BOOLEAN
  /\ cur \in Chains
  /\ loading \in BOOLEAN
  /\ pc \in [TxIds -> InPipeline \cup {"idle"}]
  /\ lock \in TxIds \cup {None}
  /\ tries \in [TxIds -> 0..NonceTries]
  /\ asked \in Chains
  /\ sig \in [TxIds -> Chains \cup {None}]
  /\ sent \in [TxIds -> SUBSET Answers]
  /\ inbox \in [TxIds -> SUBSET Answers]
  /\ regas \in SUBSET TxIds
  /\ glob \in BOOLEAN
  /\ mined \in [Chains -> Seq(TxIds \cup {Other})]
  /\ pool \in SUBSET (Chains \X TxIds \X (Nonces \cup {None}))
  /\ checks \subseteq Check
  /\ buf \in [TxIds -> 0..DropBuffer]
  /\ todo \in SUBSET ({0, 1} \X TxIds)
  /\ resub \in ({"publish", "approve"} \X TxIds) \cup {None}
  /\ old \in SUBSET TxIds
  /\ disk \in [TxIds -> TxMeta]
  /\ writes \in 0..MaxCrashes
  /\ crashes \in 0..MaxCrashes
  /\ switches \in 0..MaxSwitches

-----------------------------------------------------------------------------
(* A first start, on some network that has not answered yet. *)
Init ==
  /\ store = [t \in TxIds |-> Blank]
  /\ req = [t \in TxIds |-> "none"]
  /\ listening = FALSE
  /\ cur \in Chains
  /\ loading = TRUE
  /\ pc = [t \in TxIds |-> "idle"]
  /\ lock = None
  /\ tries = [t \in TxIds |-> 0]
  /\ asked = cur
  /\ sig = [t \in TxIds |-> None]
  /\ sent = [t \in TxIds |-> {}]
  /\ inbox = [t \in TxIds |-> {}]
  /\ regas = {}
  /\ glob = FALSE
  /\ mined = [c \in Chains |-> <<>>]
  /\ pool = {}
  /\ checks = {}
  /\ buf = [t \in TxIds |-> 0]
  /\ todo = {}
  /\ resub = None
  /\ old = {}
  /\ disk = [t \in TxIds |-> Blank]
  /\ writes = 0
  /\ crashes = 0
  /\ switches = 0

-----------------------------------------------------------------------------
(* The network controller. *)

(* NETWORK_WILL_CHANGE clears the unapproved transactions; then the network *)
(* store becomes 'loading', which runs _onBootCleanUp for the new chain.    *)
SwitchTo(c, s) ==
  /\ switches < MaxSwitches
  /\ switches' = switches + 1
  /\ cur' = c
  /\ loading' = TRUE
  /\ OnBootCleanUp(WithoutUnapproved(s), c)
  /\ UNCHANGED <<pipeVars, uiVars, glob, chainVars, trackVars, disk, writes, crashes>>

SetProviderConfig(c) == SwitchTo(c, store)

(* resetAccount: the history of the current chain is wiped, and the same   *)
(* network configured again.                                               *)
ResetAccount == SwitchTo(cur, WithoutCurrentChain)

(* net_version of the current provider answers or fails: either way the    *)
(* network store is updated, which runs _onBootCleanUp.                    *)
LookupNetwork(ok) ==
  /\ loading
  /\ loading' = ~ok
  /\ OnBootCleanUp(store, cur)
  /\ UNCHANGED <<cur, pipeVars, uiVars, glob, chainVars, trackVars, hostVars>>

-----------------------------------------------------------------------------
(* The chains. *)

(* Chain c mines the account's next nonce: one of the transactions its     *)
(* nodes have accepted, or one of another wallet.                          *)
Mine(c) ==
  /\ Len(mined[c]) < MaxNonce
  /\ \/ \E t \in TxIds : /\ Accepted(c, t, Len(mined[c]))
                         /\ mined' = [mined EXCEPT ![c] = Append(@, t)]
     \/ /\ c \in OtherChains
        /\ mined' = [mined EXCEPT ![c] = Append(@, Other)]
  /\ UNCHANGED <<storeVars, cur, loading, pipeVars, uiVars, regas, glob, pool,
                 trackVars, hostVars>>

-----------------------------------------------------------------------------
(* The host: persistence, and the death of the background page. *)

(***************************************************************************)
(* The state stream, debounced by a second, reaches chrome.storage.  Bound: *)
(* one write between two deaths, the last one, which is all a restart can  *)
(* tell.                                                                   *)
(***************************************************************************)
PersistData ==
  /\ writes <= crashes
  /\ crashes < MaxCrashes
  /\ disk' = store
  /\ writes' = writes + 1
  /\ UNCHANGED <<storeVars, cur, loading, pipeVars, uiVars, regas, glob, chainVars,
                 trackVars, crashes, switches>>

(* What a new page reads back.  An id given out after the last write is not *)
(* given out again.                                                         *)
FromDisk ==
  [t \in TxIds |->
     IF disk[t].status = "generated" \/ (disk[t].status = "unborn" /\
                                         store[t].status # "unborn")
     THEN [disk[t] EXCEPT !.status = "removed"] ELSE disk[t]]

(***************************************************************************)
(* The page dies and starts again: everything but the chains and the disk  *)
(* is lost, the dapps' promises with it.  The constructor runs             *)
(* _onBootCleanUp before anything is listening, attaches the block         *)
(* listener if something is pending, and starts with a 'loading' network.  *)
(***************************************************************************)
Restart ==
  LET s == WithStatusSet(FromDisk, StuckApproved(FromDisk, cur), "failed") IN
  /\ crashes < MaxCrashes
  /\ crashes' = crashes + 1
  /\ store' = s
  /\ listening' = PollingNeeded(s, cur)
  /\ req' = [t \in TxIds |-> IF req[t] \in {"checking", "gas", "waiting"}
                             THEN "lost" ELSE req[t]]
  /\ loading' = TRUE
  /\ pc' = [t \in TxIds |-> "idle"]
  /\ lock' = None
  /\ tries' = [t \in TxIds |-> 0]
  /\ sent' = [t \in TxIds |-> {}]
  /\ inbox' = [t \in TxIds |-> {}]
  /\ regas' = NeedGas(s, cur)
  /\ glob' = FALSE
  /\ checks' = {}
  /\ buf' = [t \in TxIds |-> 0]
  /\ todo' = {}
  /\ resub' = None
  /\ UNCHANGED <<cur, asked, sig, chainVars, old, disk, writes, switches>>

-----------------------------------------------------------------------------
(* Steps of the controller leave the tracker and the host alone. *)
ControllerStep(t) ==
  /\ \/ GenerateTx(t)
     \/ AddUnapprovedTransaction(t)
     \/ RefuseTransaction(t)
     \/ \E ok \in BOOLEAN : AddTxGasDefaults(t, ok)
     \/ \E answer \in Answers : Click(t, answer)
     \/ \E custom \in CustomNonces \cup {None} : UpdateAndApproveTransaction(t, custom)
     \/ CancelTransaction(t)
     \/ \E orig \in TxIds : CreateReplacement(orig, t)
     \/ PassGlobalMutex(t)
     \/ TakeNonceLock(t)
     \/ NonceFails(t)
     \/ \E n \in 0..MaxNonce : NonceArrives(t, n)
     \/ SignFails(t)
     \/ SignTransaction(t)
     \/ SwapBalance(t)
     \/ SwapBalanceFails(t)
     \/ PublishTransaction(t)
     \/ PublishFails(t)
     \/ \E ok \in BOOLEAN : BootGasDefaults(t, ok)
  /\ UNCHANGED <<trackVars, hostVars>>

ResubmitStep ==
  /\ \/ \E x \in todo : ResubmitLater(x)
     \/ \E x \in todo : ResubmitApprove(x)
     \/ \E x \in todo : ResubmitPublish(x)
  /\ UNCHANGED hostVars

TrackerStep ==
  /\ \/ UpdatePendingTxs
     \/ \E c \in checks : ConfirmTransaction(c)
     \/ \E c \in checks : ReceiptMissing(c)
     \/ \E c \in checks : ReceiptFails(c)
     \/ \E c \in checks, n \in 0..MaxNonce : NonceCount(c, n)
     \/ \E c \in checks : NonceCountFails(c)
     \/ \E stop \in BOOLEAN : ResubmitReturns(stop)
     \/ \E t \in TxIds : GetOld(t)
  /\ UNCHANGED hostVars

HostStep ==
  \/ \E c \in Chains : SetProviderConfig(c)
  \/ ResetAccount
  \/ \E ok \in BOOLEAN : LookupNetwork(ok)
  \/ PersistData
  \/ Restart

Next ==
  \/ ResubmitStep
  \/ \E c \in Chains : Mine(c)
  \/ /\ ~LoopRunning
     /\ \/ \E t \in TxIds : ControllerStep(t)
        \/ TrackerStep
        \/ HostStep

Spec == Init /\ [][Next]_vars

-----------------------------------------------------------------------------
(* Safety. *)

(* The nonce of t in the store s was the tracker's choice: t replaces       *)
(* nothing and the user typed no nonce.                                     *)
AutoNonce(s, t) == ~s[t].fixed /\ s[t].custom = None

(* Two transactions of s compete for one nonce of one chain. *)
Compete(s, t, u) ==
  t # u /\ AutoNonce(s, t) /\ AutoNonce(s, u) /\ s[t].chain = s[u].chain /\ s[t].nonce = s[u].nonce

SubmittedApart(s) ==
  \A t, u \in TxIds :
    s[t].status = "submitted" /\ s[u].status = "submitted" => ~Compete(s, t, u)

(***************************************************************************)
(* Two transactions waiting in the network on the same chain never share a *)
(* nonce the tracker chose, whatever the nodes answer: one of them would   *)
(* silently replace the other (approveTransaction's nonce lock).           *)
(***************************************************************************)
NoSharedNonce == SubmittedApart(store)

(***************************************************************************)
(* The same promise as an abstract specification: claims are the slots of  *)
(* the submitted transactions, in memory and on the disk.                  *)
(***************************************************************************)
ClaimsOf(s) ==
  [t \in TxIds |-> IF s[t].status = "submitted" /\ AutoNonce(s, t)
                   THEN <<s[t].chain, s[t].nonce>> ELSE None]

Ledger == INSTANCE NonceLedger WITH
  Txs <- TxIds, Slots <- (Chains \cup {None}) \X (Nonces \cup {None}), NoOne <- None,
  holder <- lock, claims <- ClaimsOf(store), saved <- ClaimsOf(disk)

(* Every step of the subsystem is a step of the nonce ledger: only the      *)
(* holder of the lock starts to wait, with a nonce nobody else waits on,    *)
(* and a restart goes back to what was persisted.                           *)
ImplementsLedger == Ledger!LedgerSpec

(***************************************************************************)
(* Nor does one that is being signed, sent or waits in the network share   *)
(* it with a confirmed one: it could only fail, or wait for ever (highest  *)
(* locally confirmed nonce, nonce lock).  Excepted are the transactions    *)
(* whose checks outlive their round: such a check may confirm one that     *)
(* another check has dropped, after its nonce was given away.              *)
(***************************************************************************)
ConfirmedNonceNotReused ==
  \A t \in TxIds, u \in TxIds \ LateTxs :
    /\ pc[t] \in HasNonce \/ store[t].status = "submitted"
    /\ store[u].status = "confirmed"
    => ~Compete(store, t, u)

(***************************************************************************)
(* The nonce mutex is held exactly by the one approval between the nonce's *)
(* computation and its last step, on every path through the errors.        *)
(***************************************************************************)
LockDiscipline == \A t \in TxIds : lock = t <=> pc[t] \in HoldsLock

(***************************************************************************)
(* Why nonces stay apart, as an invariant that every step preserves.       *)
(***************************************************************************)

(* The approval that holds the lock has a nonce nobody waits with. *)
HolderApart ==
  \A t, u \in TxIds :
    pc[t] \in HasNonce /\ store[u].status = "submitted" => ~Compete(store, t, u)

(* Before t is approved for the first time, or while an approval of it is   *)
(* on its way from the UI. *)
BeforeApproval(t) ==
  store[t].status \in {"unborn", "generated", "unapproved"} \/ "approve" \in inbox[t]

(* Until then no approval of t runs and the resubmission loop has not seen  *)
(* it, so its fields are not overwritten under an approval's feet. *)
UntouchedBeforeApproval ==
  \A t \in TxIds :
    /\ BeforeApproval(t) => pc[t] = "idle" /\ \A x \in todo : x[2] # t
    /\ "approve" \in inbox[t] => store[t].status \notin {"unborn", "approved", "submitted"}
    /\ req[t] = "checking" => store[t].status = "generated"

InProcessNotSubmitted ==
  \A t \in TxIds : InProcessOfSigning(t) => store[t].status # "submitted"

(* The nonce lock protects the nonce from its computation to the moment the *)
(* transaction counts as submitted: the invariant behind NoSharedNonce and  *)
(* ImplementsLedger. *)
NonceProtocol ==
  /\ LockDiscipline
  /\ HolderApart
  /\ SubmittedApart(store)
  /\ SubmittedApart(disk)
  /\ UntouchedBeforeApproval
  /\ InProcessNotSubmitted

(***************************************************************************)
(* One approval pays once: no transaction is ever accepted by nodes with   *)
(* two different nonces, though it may be resent, re-approved by the       *)
(* resubmission loop, or answered with an error after it was accepted.     *)
(***************************************************************************)
OneNoncePerTx ==
  \A x, y \in pool : x[2] = y[2] => x[3] = y[3]

(***************************************************************************)
(* As long as the current network has a submitted or an approved           *)
(* transaction, the block listener is attached that follows, rebroadcasts, *)
(* retries or gives up on it (_setupBlockTrackerListener; "continues       *)
(* broadcast while in the pending state").                                 *)
(***************************************************************************)
PolledWhilePending ==
  WithStatus("submitted") \cup WithStatus("approved") # {} => listening

(***************************************************************************)
(* A transaction reaches the nodes of another chain than the one it was     *)
(* created on only if it was signed while the network was loading, when     *)
(* getChainId gives no chain; otherwise it could be executed on a chain the *)
(* user never saw.                                                          *)
(***************************************************************************)
StaysOnItsChain ==
  \A x \in pool : sig[x[2]] = None \/ x[1] = store[x[2]].chain

(* A transaction is only called dropped once its chain has used its nonce   *)
(* (_checkIfNonceIsTaken, _checkIfTxWasDropped, _markNonceDuplicatesDropped). *)
DroppedNonceIsUsed ==
  [][\A t \in TxIds :
       store[t].status # "dropped" /\ store'[t].status = "dropped" =>
         /\ store[t].nonce # None
         /\ store[t].nonce < Len(mined[store[t].chain])]_vars

(***************************************************************************)
(* A confirmed transaction stays confirmed until it leaves the history;    *)
(* only a check of it that was still under way when it was confirmed, left *)
(* by a round that failed, can call it dropped (_checkPendingTx).          *)
(***************************************************************************)
LateDrop(t) ==
  /\ store'[t].status = "dropped"
  /\ \E c \in checks \ checks' : c.tx = t /\ c.stage = "count"

ConfirmedIsFinal ==
  [][\A t \in TxIds :
       store[t].status = "confirmed" =>
         store'[t].status \in {"confirmed", "removed"} \/ LateDrop(t)]_vars

(***************************************************************************)
(* "must set transaction to submitted/failed before releasing lock": an    *)
(* approval that got its nonce does not give up the lock while its         *)
(* transaction is approved or signed, unless the page dies.                *)
(***************************************************************************)
DecidedBeforeRelease ==
  [][\A t \in TxIds :
       lock = t /\ lock' # t /\ pc[t] \in HasNonce /\ crashes' = crashes =>
         store'[t].status \notin {"approved", "signed"}]_vars

(***************************************************************************)
(* A transaction the user has approved never leaves the list while it may  *)
(* still be executed: "removes only confirmed or rejected tx's, not tx's   *)
(* that are pending or unapproved" (addTx).                                *)
(***************************************************************************)
PendingNotForgotten ==
  [][\A t \in TxIds : store[t].status \in {"approved", "signed", "submitted"} =>
                       store'[t].status \in ListedStatus]_vars

-----------------------------------------------------------------------------
(* Liveness. *)

(***************************************************************************)
(* What the program and its environment keep doing:                        *)
(*  - requests to a node and to the keyring are answered or fail;          *)
(*  - the mutexes are queues: a waiting approval is not passed over        *)
(*    forever (strong fairness, which also covers that a callback that is  *)
(*    ready waits whenever the resubmission loop runs between two awaits); *)
(*  - messages of the UI are handled, blocks arrive, the loop runs on;     *)
(*  - a chain goes on mining what its nodes accepted, and a node that is   *)
(*    asked again and again answers truly again and again.                 *)
(***************************************************************************)
RequestAnswered(t) ==
  /\ \/ AddUnapprovedTransaction(t) \/ RefuseTransaction(t)
     \/ \E ok \in BOOLEAN : AddTxGasDefaults(t, ok)
  /\ ~LoopRunning
  /\ UNCHANGED <<trackVars, hostVars>>

AnswerHandled(t) ==
  /\ \/ \E custom \in CustomNonces \cup {None} : UpdateAndApproveTransaction(t, custom)
     \/ CancelTransaction(t)
  /\ ~LoopRunning
  /\ UNCHANGED <<trackVars, hostVars>>

ApprovalStep(t) ==
  /\ \/ PassGlobalMutex(t) \/ TakeNonceLock(t)
     \/ NonceFails(t) \/ \E n \in 0..MaxNonce : NonceArrives(t, n)
     \/ SignFails(t) \/ SignTransaction(t)
     \/ SwapBalance(t) \/ SwapBalanceFails(t)
     \/ PublishTransaction(t) \/ PublishFails(t)
  /\ ~LoopRunning
  /\ UNCHANGED <<trackVars, hostVars>>

(* The node asked is up to date: it has the receipt if there is one ... *)
TrueReceipt(t) ==
  /\ \E c \in checks :
       c.tx = t /\ (ConfirmTransaction(c) \/ (ReceiptMissing(c) /\ ~ReceiptExists(c)))
  /\ ~LoopRunning
  /\ UNCHANGED hostVars

(* ... and gives the account's nonce on its chain. *)
TrueCount(t) ==
  /\ \E c \in checks : c.tx = t /\ NonceCount(c, Len(mined[c.on]))
  /\ ~LoopRunning
  /\ UNCHANGED hostVars

Fairness ==
  /\ WF_vars(ResubmitStep)
  /\ WF_vars(\E stop \in BOOLEAN : ResubmitReturns(stop) /\ UNCHANGED hostVars)
  /\ WF_vars(LookupNetwork(TRUE) /\ ~LoopRunning)
  /\ WF_vars(UpdatePendingTxs /\ ~LoopRunning /\ UNCHANGED hostVars)
  /\ \A t \in TxIds :
       /\ WF_vars(RequestAnswered(t))
       /\ WF_vars(AnswerHandled(t))
       /\ SF_vars(ApprovalStep(t))
       /\ SF_vars(TrueReceipt(t))
       /\ SF_vars(TrueCount(t))
  /\ \A c \in Chains : WF_vars(Mine(c))

FairSpec == Spec /\ Fairness

(***************************************************************************)
(* Every approval ends, with the nonce lock free for the next one, however *)
(* often the network, the keyring or the node fail and blocks interfere.   *)
(***************************************************************************)
ApprovalEnds == \A t \in TxIds : InProcessOfSigning(t) ~> ~InProcessOfSigning(t)

(***************************************************************************)
(* A dapp that waits for its transaction ("listen for tx completion        *)
(* (success, fail)") hears of it once the user has answered.               *)
(***************************************************************************)
DappAnswered ==
  \A t \in TxIds : req[t] \in {"gas", "waiting"} /\ sent[t] # {} ~>
                    req[t] \notin {"gas", "waiting"}

(* A submitted transaction does not stay pending forever.                   *)
SubmittedResolved ==
  \A t \in TxIds : store[t].status = "submitted" ~> store[t].status # "submitted"
=============================================================================
