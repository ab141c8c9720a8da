# Formal model of the extension's background page and home page

The extension is a wallet: dapps ask its background page to send transactions,
sign messages and reveal accounts; the user answers in a popup or a
notification window; the background page signs with a keyring and talks to a
node of the configured network.  A second application in the same package adds
a home page for more blockchains and asks the user in a window of its own.

This directory holds TLA+ modules of what changes state in it - the life of a
transaction, the requests of dapps and their answers, accounts and who may see
them, what is cached per account and network, the stores of the home page -
with TLC configurations that check them on small instances and TLAPS proofs of
the central safety properties.

Source paths below are relative to the repository; `transactions/` stands for
`app/scripts/controllers/transactions/`, `lib/` for `app/scripts/lib/`,
`controllers/` for `app/scripts/controllers/`, and `background.js` and
`metamask-controller.js` are in `app/scripts/`.

## 1. The system

| Component | State | Operations | Interacts with |
|---|---|---|---|
| Transaction store `transactions/tx-state-manager.js` | the list of txMetas | add, update, status changes with events, queries by status and chain, clear, wipe, eviction at the history limit | everything below reads it; its events settle the dapp's promise and attach the block listener |
| Transaction controller `transactions/index.js` | `inProcessOfSigning`, listeners | request, approve (nonce, sign, publish), reject, cancel, speed up, confirm, clean-up at boot | nonce tracker (locks), keyring, provider, store, UI |
| Pending tracker `transactions/pending-tx-tracker.js` | drop buffer per hash | a round of checks per block, resubmission | nonce tracker's global mutex, provider, `approveTransaction` |
| Network controller `app/scripts/controllers/network/network.js` | provider, `loading` or network id | switch, look up | clears unapproved transactions, triggers `_onBootCleanUp`; every cache |
| Persistence `app/scripts/background.js`, `lib/local-store.js`, `lib/migrator` | the state on the disk | debounced write, load, migrate | all stores |
| MetaMask controller `app/scripts/metamask-controller.js` | vault mutex, connections | wiring, account reset, vault, import | all |
| Message managers `lib/*-manager.js` (5) | unapproved messages, promises | add, approve, sign, reject, look, clear | dapps, keyring, network switches |
| Permissions `controllers/permissions/` | pending approvals, permitted accounts, metadata of sites | request, approve, reject, notify | dapps, unlock, accounts |
| Unlock queue `controllers/app-state.js` | waiting promises | wait, unlock, lock on a timer | permissions |
| Vault and identities `metamask-controller.js`, `controllers/preferences.js` | keyrings, identities, selected account | create, restore, add, import, watch, remove, forget a device | keyring controller (library), permissions |
| Tokens `controllers/preferences.js`, `detect-tokens.js` | lists per account and chain, the chosen one's list | add, hide, detect, switch | selected account, network, a balance checker |
| Incoming transactions `controllers/incoming-transactions.js` | transactions, last block fetched per chain | fetch on block, account or network | block explorer |
| Balances `lib/account-tracker.js`, `controllers/cached-balances.js` | accounts with balances, cache per chain | per block, per change of the network | node, balance checker |
| Token rates `controllers/token-rates.js` | price per token | poll | price service |
| Notification window and approvals `background.js`, `lib/notification-manager.js`, `src/wallets/dapp/`, `src/pages/PageApprovePopup/` | the open window, approvals waiting, connections of dapps | trigger, open, approve, reject, close, disconnect | dapps, browser |
| Solana provider `src/wallets/providers/SOL/dapp/` | response handlers, connected sites | connect, sign, disconnect | dapps, popups, browser storage |
| Home page `src/store/storeAccount.js`, `storeChain.js`, `storeWallet.js`, `storeToken.js` | list of accounts, the chosen one, wallet, tokens | choose, import, delete, first account of a chain, put addresses right, fetch tokens | background page, nodes |
| Alerts, onboarding, ENS, permissions log, RPC middleware, content script, migrations, gas utilities, screens, other stores of the home page | - | - | not modelled, see section 8 |

Everything runs on one JavaScript thread, so the interleavings are those of
awaits: an asynchronous function is a sequence of atomic pieces, and anything
may happen between two of them.  What is hard about it:

* **awaits in the middle of a decision** - a nonce is computed, then a hardware
  wallet is waited for, then a node; meanwhile blocks arrive, the user switches
  networks, other approvals run;
* **two mutexes** of the nonce tracker (a global one for rounds of checks and a
  mutex per account), which every approval passes;
* **lists captured before awaits** (`resubmitPendingTxs`);
* **nodes that lag or fail**, and answers that are lost after the transaction
  was accepted;
* **visibility**: almost every query of the store is limited to the current
  chain, so a network switch makes transactions invisible to code that is in
  the middle of handling them;
* **restarts** from a state that was written up to a second ago;
* **state captured before a request and written back after it** - incoming
  transactions, balances, the lists of the home page, `connectedWallets` in the
  browser's storage, the identities after a restore;
* **answers that arrive for a choice that is no longer the choice** - tokens,
  prices and balances of another account or network;
* **several windows** that show the same request, and one window that shows
  several, one after the other;
* **flags across awaits** (`isProcessingRequestAccounts`, `uiIsTriggering`)
  that refuse or delay everybody else while they are set.

What makes each component correct:

* store: only finished transactions make room; status changes reach the dapp
  and the block listener;
* controller: no two pending transactions share a nonce, a confirmed nonce is
  not used again, the lock is given back on every path and not before the
  transaction is decided, one approval pays once, a transaction stays on its
  chain, approvals end, the dapp hears of its transaction;
* tracker: pending transactions are followed until resolved, nothing is dropped
  whose nonce is free, what is confirmed stays confirmed unless a check left
  over from an earlier round drops it;
* network controller: the answer of one provider is not taken for another's;
* persistence: a restart loses at most the last writes and leaves nothing half
  way;
* message managers, approvals, Solana provider: a dapp gets one answer, a yes
  only out of something the user agreed to, and an answer whenever the user
  decided;
* permissions: what makes others wait or be refused ends with its request, and
  a page that was told accounts was told those it may see now;
* vault: an account is lost only if the user removes it or forgets its device,
  the identities follow the keys, and no handler gives or leaves a dapp a
  permission for an account without a key - `forgetDevice` and the outdated list
  a restore ends with excepted, which the properties name;
* caches: what is stored belongs to the network it is stored for, or does so
  again once things calm down;
* notification window: there is one, and its opening does not lock out others;
* home page: chain, account, wallet and tokens are of one account, and no
  account is lost to an answer that comes late.

## 2. Plan

1. (done) The transactions: `TxStateManager`, `TransactionController`,
   `PendingTxTracker`, `Transactions`, the abstract `NonceLedger`; type
   correctness, the nonce protocol and the refinement proved.
2. (done) Requests and answers: the abstract `RequestAnswers` and three things
   that implement it - `SigningMessages`, `Approvals`, `SolRequests`; the three
   refinements proved.
3. (done) Accounts and who sees them: `Permissions` with the unlock queue,
   `DomainMetadata`, `Vault`; their invariants and action properties proved.
4. (done) What is kept per account and network: `Session`, `Tokens`,
   `IncomingTransactions`, `Balances`, `TokenRates`; the invariants of the first
   two and the types of all proved.
5. (done) The home page: `HomeStores`; its invariants proved.
6. (done) What becomes of a transaction: the invariants and action properties
   of `Transactions` beside the nonce protocol proved, each under the bounds it
   holds for (`HistoryProofs`).
7. (open) The network controller's own races (a stale answer of
   `lookupNetwork`, the rollback) and a second home page that writes the same
   storage.

## 3. The modules

```
TxStateManager            the store: queries, status changes with their events
  TransactionController   requests, approval, nonce, signing, publishing, boot
    PendingTxTracker      rounds of checks, resubmission
      Transactions        + network, chains, disk, restart; Next, properties
        MCTransactions    constants for TLC
        TransactionsProofs -> NonceProofs -> HistoryProofs
                              types; nonces and the refinement; histories
NonceLedger               the abstract nonce lock;  NonceLedgerProofs

RequestAnswers            the abstract request and its answer
  SigningMessages         the five message managers
  Approvals               the window and its approvals
  SolRequests             requests of Solana dapps

Session                   the chosen network and account
  Tokens, IncomingTransactions                  SessionProofs
  Balances, TokenRates
Permissions, DomainMetadata, HomeStores
Vault                                           VaultProofs

MCAccounts   Permissions, Vault, DomainMetadata, Tokens, IncomingTransactions,
             HomeStores                         AccountsProofs, over
                                                SessionProofs and VaultProofs
MCDapps      SigningMessages, Approvals, SolRequests, Balances, TokenRates
                                                DappsProofs
MCIncoming   IncomingTransactions
```

### Transactions

Each module EXTENDS the one above it, as each part of the code calls the ones
before it; one action is one piece of a handler between two awaits, with
everything that piece calls (status events, listeners, `_onBootCleanUp`).

**State.**  `store[t]` is the txMeta of id `t`: its status (with *unborn*,
*generated* - created but not in the list yet - and *removed* for ids that are
not in the list), chain, nonce, custom nonce, whether it replaces another one
(`fixed`: `lastGasPrice` is set), whether its gas defaults are there (`ready`),
and the nonces its `rawTx` and `hash` stand for.  `req[t]` is the dapp's
promise, `listening` the block listener, `cur` and `loading` the network.
`pc[t]` is the await `approveTransaction(t)` is at; `lock` and `glob` are the
two mutexes.  `checks` are the calls of `_checkPendingTx` under way: the
transaction, the request each awaits, the chain asked, and whether a round still
waits for it (a round that fails leaves the others running, and the next block
checks the same transactions beside them); `todo` and `resub` are the rest of the list of
`resubmitPendingTxs` and what it awaits.  `mined[c]` says who used the nonces of
the account on chain `c`, `pool` which signed transactions nodes have accepted.

**Actions.**

| Action | Code |
|---|---|
| `GenerateTx`, `AddUnapprovedTransaction`, `RefuseTransaction`, `AddTxGasDefaults` | `addUnapprovedTransaction`, `addTxGasDefaults`, `newUnapprovedTransaction` |
| `Click` | the UI (external): a button of an unapproved transaction; answers may come from two windows |
| `UpdateAndApproveTransaction`, `CancelTransaction`, `CreateReplacement` | `updateAndApproveTransaction`, `cancelTransaction`, `createCancelTransaction` / `createSpeedUpTransaction` |
| `PassGlobalMutex`, `TakeNonceLock`, `NonceArrives`, `NonceFails` | `retry(getNonceLock)` and the lines after it up to `signEthTx` |
| `SignTransaction`, `SignFails` | `signTransaction`, start of `publishTransaction` |
| `SwapBalance`, `SwapBalanceFails`, `PublishTransaction`, `PublishFails` | `publishTransaction` and the end of `approveTransaction` |
| `FailApproval` (inside the failing ones) | its `catch` and `finally` |
| `UpdatePendingTxs`, `ConfirmTransaction`, `ReceiptMissing`, `ReceiptFails`, `NonceCount`, `NonceCountFails` | `updatePendingTxs`, `_checkPendingTx`, `_checkIfTxWasDropped`, `confirmTransaction` |
| `ResubmitLater`, `ResubmitApprove`, `ResubmitPublish`, `ResubmitReturns` | `resubmitPendingTxs`, `_resubmitTx` |
| `GetOld` | three minutes pass since the creation |
| `SetProviderConfig`, `ResetAccount`, `LookupNetwork`, `BootGasDefaults` | the network controller, `resetAccount`, `_onBootCleanUp` |
| `Mine` | a chain (external) |
| `PersistData`, `Restart` | `persistData`, the constructors |

**External parts.**  The nonce tracker is a library: `IsNextNonce` is what its
`getNonceLock` computes from the node's count and the pending and confirmed
lists the controller hands it.  A node accepts a signed transaction of its
chain, or one signed for no chain, whose nonce is not used (`Accepts`); it may
lag in what it answers.

**Abstract specification.**  `NonceLedger` knows a lock, the claims of waiting
transactions and the claims on the disk.  `Transactions` implements it with
`holder <- lock`, `claims <- ClaimsOf(store)`, `saved <- ClaimsOf(disk)`:
obtaining the lock is `Acquire`, publishing `Claim`, every failure `Release`,
confirmations, drops, removals `Resolve`, persisting `Save`, a restart `Reboot`.

### Requests and answers

`RequestAnswers` says what a dapp may rely on: `answer[r]` is none, waiting,
yes or no and is never taken back, and a yes comes only while `r` is *served* -
somebody agreed and the result is on its way.

| Module | State | Actions and their code | `served` is |
|---|---|---|---|
| `SigningMessages` | `msg` per id (kind, status, the chain typed data names), `promise`, `job[m][w]`: what window `w` has posted or awaits | `AskForMessage` (`newUnsigned*Message`, `newRequest*`, with `validateParams`); `ClickMessage` (the UI); `SignMessage`, `SignPersonalMessage`, `SignTypedMessage`, `DecryptMessage`, `EncryptionPublicKey`, with `Signed`, `ErrorMessage` when the keyring ends; `DecryptMessageInline`, `Looked`; `CancelMessage`; `NetworkWillChange` (`clearUnapproved` of each manager) | a message a window waits for the keyring with, and no other window rejected meanwhile |
| `Approvals` | `call` (where a handler is), `reply`, `approvals` (`approvalMaps`), `triggering`, `popupId`, `win` (open, loaded, covered by the unlock page, gone; what its URL names), `current` (the account, or `Locked`), `post` (messages on a port), `connected`, `told` | `HandleDappMethods`, `RequestAccounts`, `TriggerUi`, `GetPopup`, `UpdateTab`, `OpenWindow`, `UpdateWindowPosition`, `OpenPopup`, with `Failed` and `FailureTold`; `ConnectRemote`, `LockWallet`, `Unlock`, `PageReady`, `ApproveConnection`, `ApproveTransaction`, `RefuseShown`, `CloseWindow` (the page); `Resolve`, `Reject`, `NotificationClosed`, `EndOfStream` (the port); `RemoveAccountsConnection`, `OnAccountsChanged`, `SetCurrentAccount` | a call with an approval posted, one connected already, or one that waits for the window to be gone |
| `SolRequests` | `ask`, `handlers` (`responseHandlers`), `popup`, `answers`, `stored` and `held` (`connectedWallets` in the storage and as read) | `SolRequest`, `StorageGet`, `HandleConnect`, `HandleDisconnect`, `AnswerHandler`; `PopupOpens`, `OnConnect`, `SaveConnection`, `OnApprove`, `OnSigned`, `OnReject`, `PopupCloses` | a request whose id a popup said yes to, or whose site is in the list just read |

The managers are copies of each other but for the statuses that settle the
promise (`Ends`); that is the only thing the module keeps apart.  A message on
a port, a posted click, a storage access are steps of their own; what happens
in one turn of the event loop is one action.

### Accounts and what is kept for them

| Module | State | Actions and their code |
|---|---|---|
| `Permissions` | `locked`, `waiting` (`waitingForUnlock`), `call[k].at`, `processing`, `approval` per origin, `permitted`, `recent`, `page`, `told` | `RequestAccounts`, `RequestPermissions`, `RequestInInterface`, `RequestInNewHome` (permissionsMethodMiddleware.js and the interface's own calls), `Resume` (a request woken by an unlock; nothing else runs first: `Quiet`), `SubmitPassword`, `SetLocked`, `Approve-` and `RejectPermissionsRequest`, `AddPermittedAccount`, `RemovePermittedAccount`, `ClearPermissions`, `SelectAccount`, `RemoveAccount`, `OpenTab`, `CloseTab` |
| `DomainMetadata` | `metadata`, `pending` (`_pendingSiteMetadata`), `domains` | `AddDomainMetadata`, `Connect`, `Disconnect`, `Reboot` (`_trimDomainMetadata`) |
| `Vault` | `vault`, `unsaved` (a device forgotten in memory only), `sealed`, `identities`, `selected`, `exposed`, `mutex`, `op[w]`: the handler window `w` waits for; `unsynced` (ghost): accounts `forgetDevice` or a restore's list left known without a key, or the reverse | `WantNewVault`, `CreateNewVault`, `WantRestore`, `RestoreVault`, `RestoreMade`, `BalanceFound`, `GrowEnds`, `BalanceIsZero`, `RestoreFails`, `AddNewAccount`, `ImportAccount`, `ImportWatchAccount`, `AskDevice`, `UnlockHardwareEnds`, `RemoveAccountOf` and their ends, `ForgetDevice`; `OnKeyringControllerUpdate` inside each; `Seal`, `Unseal`, `Expose`, `Withdraw` |
| `Tokens` | `known` (identities), `refused` (ghost: a selection was refused since the lists shown were the chosen account's), `accountTokens`, `accountHiddenTokens` per account and chain, `tokens`, `hiddenTokens`, `tokensWithBalance`, `lookups` | `AddToken`, `RemoveToken`, `SetSelectedAddress` (also refused), `RemoveAddressTokens`, `SyncAddresses`, `AddIdentity`, `SetActive`, `NetworkDidChangeTokens`, `DetectNewTokens`, `DetectTokensBalance`, `NewTokensFound`, `BalancesFound`, `LookupFails` |
| `IncomingTransactions` | `incoming`, `lastFetched`, `lastChainId`, `fetches` with what each captured; `blocks` (the chains, external) | `OnLatestBlock`, `AccountChosen`, `NetworkChosen`, `FetchAnswered` (with `NextFrom`, the arithmetic of the next block), `FetchFails`, start and stop |
| `Balances` | `tables`: the account objects in circulation, `table`: the one in the store, `cachedBalances`, `inFlight` | `Start`, `Stop`, `FirstBlock`, `UpdateForBlock`, `NetworkDidChange`, `SyncWithAddresses`, `RemoveTracked`, `ClearAccounts`, `UpdateAccount`, `CheckerAnswers`, `CheckerUseless` (an answer that is no list of the right length), `CheckerFails` |
| `TokenRates` | `wanted`, `contractExchangeRates`, `polling`, `asking` | `SetTokens`, `StartRates`, `StopRates`, `Poll`, `RatesArrive`, `RatesFail` |
| `HomeStores` | `allAccountsRaw`, `currentAccountRaw`, `currentChainKey`, `currentWallet`, `currentTokensRaw`, `inits`, `fix`, `tokenRequests` | `ChooseAccount`, `ConfirmImport`, `DeleteAccount`, `SetHardwareOnlyMode`, `InitFirstAccount`, `AddressesArrive`, `AddressesFail`, `AutofixMismatchAddresses`, `FixNext`, `FixFails`, `FetchTokens`, `TokensArrive`, `TokensFail`, `Reopen`; `Show` and `React` are what the autoruns do, inside every action that changes what they read |

Of a balance or a price only the chain it was read on is kept, of a token the
chain its contract is on, of an incoming transaction its block.  `EXTENDS` in
the MC modules puts independent components side by side: a variable `focus`
chosen at the start says which of them a behaviour exercises, so that a run
adds their state spaces instead of multiplying them.  Components that do share
state (the account list seen by permissions, tokens and identities; the chosen
network) each model that state as they see it.

## 4. The runs

The first nine use `MCTransactions`; the constants are in the cfg of the run's
name.

| Run | Instance | Shows |
|---|---|---|
| `wallets` | 2 transactions, 3 nonces, another wallet of the same account | `NoSharedNonce`, `ConfirmedNonceNotReused`, `DroppedNonceIsUsed`, `TypeOK` |
| `history` | 3 transactions, history limit 2 | `PendingNotForgotten` |
| `pipeline` | 2 transactions, 2 attempts at the nonce, a swap, a slow one, a custom nonce, 2 answers each | `LockDiscipline`, `OneNoncePerTx`, `DecidedBeforeRelease`, `ConfirmedIsFinal` |
| `crash` | 2 transactions, 1 death of the page | `NonceProtocol`, `ImplementsLedger`, `PolledWhilePending` |
| `switch` | 2 transactions, 2 chains, 1 switch or reset | `OneNoncePerTx`, `StaysOnItsChain` |
| `liveness` | 2 transactions, 2 attempts, fair | `ApprovalEnds`, `DappAnswered`, `SubmittedResolved` |
| `f_release` | 1 transaction, 1 switch | `DecidedBeforeRelease` is violated |
| `f_polled` | 2 transactions, 2 switches | `PolledWhilePending` is violated |
| `f_dapp` | 1 transaction, 1 switch, fair | `DappAnswered` is violated |
| `accounts` | `MCAccounts`, seven foci | `FlagMeansWaiting`, `ToldIsCurrent` (permissions), `IdentitiesFollowKeys`, `ExposedExist`, `AccountsNotLost` (vault), `ConnectedRemembered` (metadata), `TokensOnTheirChain`, `ShownTokensAreOwn`, `IncomingOnItsChain`, `HomeShowsOneAccount`, `AccountsKept` |
| `dapps` | `MCDapps`, five foci, fair | `ClearingIsExact` (messages), `OneWindow`, `ClosedIsSettled`, `TriggerEnds`, `RemovedIsTold` (approvals), `SitesWereApproved` (Solana), `ImplementsAnswers`, `WindowsImplementAnswers` (the refinements), `DecidedIsTold`, `PolledCatchesUp` |
| `f_incoming` | `MCIncoming`: 2 chains, 1 account, 1 block each, 2 requests | `FirstTimeGetsAll` is violated |

`CHECK_DEADLOCK` is off: with their bounded numbers of transactions, requests,
clicks and crashes the models stop when there is nothing left to do.

Four runs are disagreements between comments and code:

* `f_release` - the comment "must set transaction to submitted/failed before
  releasing lock" stands twice in `approveTransaction`.  After a switch
  `setTxStatusFailed` does not find the transaction, throws, is logged, and the
  lock goes with the transaction still approved or signed.
* `f_polled` - the tracker "continues broadcast while in the pending state".
  The listener is updated by status changes only; a submitted transaction whose
  network was left and configured again is not polled until some other status
  changes.
* `f_dapp` - the promise of `newUnapprovedTransaction` waits "for tx completion
  (success, fail)".  A switch clears an unapproved transaction without an event,
  also one whose approval is on its way.
* `f_incoming` - after a change of the chain the block is set to null "so that
  scan api can get all txs first time of chain changed".  A request that was
  under way writes back the transactions and blocks it captured before, over
  what the first request on the new chain stored.

Behaviours met on the way that no run states as a violation:

* after a restart a transaction that was paid may be unapproved or missing, so
  `OneNoncePerTx` and `ConfirmedIsFinal` hold without restarts only;
* with two networks the gas estimate started by `_onBootCleanUp` (index.js:741)
  can set a transaction to failed long after it was confirmed, so
  `ConfirmedIsFinal` and `ConfirmedNonceNotReused` are checked on one network;
* a request for the nonce of an account that fails ends a round of checks while
  others are still under way (pending-tx-tracker.js:59; 246 and 263 are not
  guarded), and the next block checks the same transactions again.  On one
  network and without a crash the older check can then drop a transaction that
  the newer has confirmed (`LateDrop`, the exception in `ConfirmedIsFinal`), or
  confirm one that the newer has dropped, after its nonce was given away (the
  exception in `ConfirmedNonceNotReused`);
* a transaction failed by the signing timeout can still be signed, submitted
  and confirmed (pending-tx-tracker.js:181);
* a transaction that was itself mined can be called dropped, since the nonce is
  compared with `>=` (pending-tx-tracker.js:299) and receipts may be late;
* a transaction signed when the page dies stays signed (index.js:752 looks at
  approved ones only);
* while the network is loading `getChainId` gives 0 and a transaction is signed
  for no chain - hence the exception in `StaysOnItsChain`;
* a transaction rejected in one window after it was approved in another leaves
  the list and goes on being signed;
* the managers of `eth_sign`, `personal_sign` and the public key settle the
  promise for fewer statuses than the other two: if the keyring fails after the
  approval, the dapp waits for ever (`DecidedIsTold` is about the other two);
* a new request shows itself in the notification window of an older one, whose
  page is not unloaded: nobody refuses the older one when the window closes
  (`ClosedIsSettled` is about the one it shows);
* the page of an approval is behind `RouteAuthenticated`: a window that shows
  the unlock page has no `beforeunload` handler of it, and the dapp waits if it
  is closed then (`ClosedIsSettled` excepts it);
* the window of an approved transaction closes two seconds later and refuses
  whatever it shows by then; a call that comes while another trigger runs has
  no window of its own;
* the flag "a notification is open" is one for all windows: the end of an older
  one resets it, and `wallet_watchAsset` stops waiting;
* a Solana popup closed without an answer leaves the dapp waiting; a disconnect
  before any site was ever connected throws, and the dapp waits; a dapp may be
  told it is connected before that is stored; a disconnected site can come back
  through an overlapping write; the handler of a request is lost when another
  page of the extension's dapps uses the same id;
* a restore clears identities and permissions before the phrase is accepted,
  and ends with the list of accounts it read before asking for a balance: one
  removed meanwhile is known again without a key, one added is unknown, until
  the keyrings next change or the wallet is unlocked;
* `forgetDevice` empties the keyring of a device in memory and does nothing
  else: its accounts stay known, selected and permitted to dapps without a key,
  and are back at the next unlock unless the keyrings were stored in between;
* an account without an identity cannot be selected, but the lists shown are its
  own from then on, and a token added next is written with them under the
  chosen account (preferences.js:344) - `ShownTokensAreOwn` excepts the time
  until the chosen account's lists are next written or read;
* an answer of the balance contract that is no list of the right length is left
  unread and nobody else is asked (account-tracker.js:316);
* an account imported while the wallet is locked leaves the identities empty
  until the unlock;
* a token hidden while a lookup runs is listed again by its answer; tokens found
  for one account are listed for the one chosen meanwhile; the balances of
  tokens are stored under the type of the provider and read under its chain;
* an empty answer of the block explorer moves the counter of incoming
  transactions past the block asked for, or makes it NaN, which counts as "from
  the start";
* a failed request for prices erases all of them until the next one;
* on the home page, deleting an account while `autofixMismatchAddresses` is in
  the list makes it pass over another or write the deleted one back
  (`AccountsKept` excepts it); the account chosen meanwhile can be replaced by
  the first of its chain or by the one whose address was put right - chain,
  wallet and tokens follow it (`HomeShowsOneAccount`).

## 5. Bounds

| Bound | Value | Why it is enough |
|---|---|---|
| `NumTxs` | 2, 3 in `history` | competition for a nonce, the drop of duplicates and the mutex are between two; eviction takes a third |
| `MaxNonce` | 2, 3 in `wallets` | one used and one free nonce; a third leaves a gap behind another wallet's |
| `HistoryLimit` | 40 (never reached), 2 in `history` | the code's 40 with so few transactions; two makes the third evict |
| `NonceTries` | 1 or 2 (3 in the code) | one repeated attempt takes the path of the others |
| `MaxClicks` | 1, 2 in `pipeline` | a transaction is shown in at most a popup and a tab |
| `DropBuffer` | 0 or 1 (3 in the code) | 1 (`wallets`) exercises counting and reset, 0 the drop alone |
| `LateTxs`: transactions whose checks may outlive their round | one in `wallets`, `pipeline`, `crash`, `liveness`, none elsewhere | the other is the one whose request fails, or that competes for the nonce; the theorems take any set |
| `MaxSwitches`, `MaxCrashes` | 0 to 2 | each failure scenario needs one or two |
| one write to the disk between two deaths | | only the last one before a death can be read |
| one resubmission loop; two checks of one transaction that await the same answer of the same chain are one | | a second loop starts only while the first awaits, and equal checks do the same with their answer; the code has no state that tells them apart |
| `InTurn`, `Answered` | constraints of `crash` and `history` | each request is prepared, and answered by the user, before the next is made; approvals still overlap from there on, and the other runs have no such constraint |
| `ViewOfDisk` | view of `crash` | the disk is not read after the last death |
| `Symmetry` | of `switch` | the two chains are interchangeable |

Accounts (`MCAccounts`):

| Bound | Value | Why it is enough |
|---|---|---|
| `Accounts`, `Origins`, `Tabs`, `Calls` | 2, 2, 3, 2 | two pages of one dapp share a permission and have a flag each, a third page is of a dapp that must not learn of it; two requests compete |
| `FirstThingsFirst` | constraint | which of two equal requests or pages is first makes no difference; the other dapp only listens |
| `VaultWindows`, `MaxVaults`, `MaxLocks`, `MaxHd` | 2, 2, 1, 2 | the mutex is between two; a second vault follows the first; one account found by a restore beside the first |
| `Imports`, `Device`, `OneImport` | one key and one account of a device; constraint | the wallet has one of the two at a time, but for its first vault before it is first locked and before a dapp sees any of its accounts: what one does to the identities does not depend on the other |
| `WindowSymmetry` | of the vault windows | neither has anything the other has not |
| removal | of imports only | the page offers no removal of accounts of the seed phrase |
| devices | one, with one account; its first connection, which adds a keyring without accounts, is left out | an empty keyring changes no identity |
| `OneFlow` | constraint | the first-time flow creates a vault or imports one |
| `Sites`, `CacheMax` | 4, 2 | two more than fit: sites leave the queue, and one granted a permission meanwhile is not forgotten |
| tokens of identities | one identity always remains; a removal by `setAddresses` never empties the chosen account's lists; lists are values | the chosen account is an identity from the first vault on.  In the code a list of the store is also the one of its account, so that what is added after a refused selection is added to the refused account's list as well |
| `MaxLookups`, `MaxFetches`, `MaxHeight` | 2, 2, 1 | an older request beside a newer; a block received beside none |
| `OneReceiver`, `TwoNetworks` | constraints | the others are there to be chosen, not to receive |
| home page | 2 chains that share addresses, 3 accounts, one page, unlocked; one repair and one `initFirstAccount` at a time, one request for tokens | repair and tokens are separate foci ("home", "assets"): each writes what the other does not read |

Dapps (`MCDapps`):

| Bound | Value | Why it is enough |
|---|---|---|
| `MsgIds`, `Windows`, `MaxClicks`, `Networks`, `MaxMoves` | 1, 2, 2, 2, 2 | messages do not meet; two windows answer one; there and back |
| `Reqs`, `Accts` | 2 calls of one dapp, 1 account | the second call meets the window of the first |
| kinds of the two calls | a `connect` is not the second alone, a `watch` not the first alone | the calls are made in any order, so the other assignments are the same |
| position of a new window | refused only if the window is gone | the browser has just opened it at this very position |
| one click of a page before its message is handled | | a second one names the same approval |
| `Asks` | 3, two of one site, two under one id | shared ids, and a site that connects and disconnects |
| `MaxClears`, `MaxInFlight`, `MaxAsking` | 1, 2, 2 | an old table beside the new one; an older answer after a newer |

The backoff of the resubmission, the age of a transaction and the debounce of
the writes are choices.

## 6. Fairness

`FairSpec` assumes what keeps running whatever the user does: the requests to a
node and the keyring end, messages of the UI are handled, blocks arrive, the
resubmission loop goes on (weak fairness).  An approval is strongly fair: the
mutexes are queues, so one that waits is not passed over forever, although
another may hold the lock again and again; strong fairness also covers that a
callback that is ready waits while the loop runs between two awaits.  The
receipt and nonce of a transaction are strongly fair in their true answers: a
node asked on every block answers truly again and again, not each time.  Chains
go on mining.  Nothing is assumed of the user, of dapps, of the signing timeout,
or of which way a request ends.

In `dapps` the conditions are weaker still: posted clicks are handled and the
keyring answers, one way or the other (`MsgFairness`); the browser answers,
ports deliver and timers fire (`ApFairness`); the storage answers and messages
arrive (`SolFairness`); while a window is open blocks come and timers fire, and
requests for a balance or prices, though they may fail, do not fail for ever
(`BalFairness`, `RateFairness`, strong for the true answers); the balance
contract may fail, but its answers are not useless for ever.  Nobody has to
click or to close a window.

## 7. The proofs

| Theorem | Says | In |
|---|---|---|
| `TypeCorrect` | `Spec => []TypeOK` | `TransactionsProofs` |
| `NonceProtocolHolds` | `Spec => []NonceProtocol` | `NonceProofs` |
| `NoncesNeverShared` | `Spec => []NoSharedNonce` | `NonceProofs` |
| `LockNeverLeaked` | `Spec => []LockDiscipline` | `NonceProofs` |
| `LedgerImplemented` | `Spec => ImplementsLedger` | `NonceProofs` |
| `LedgerExclusive` | the abstract ledger keeps claims apart, in memory and on the disk | `NonceLedgerProofs` |
| `HistoryHolds` | `Spec => []HInv`, what the life of a transaction keeps true | `HistoryProofs` |
| `PoolHolds` | `Spec => []PoolInv`, what nodes were sent is what the list shows | `HistoryProofs` |
| `PaidOnce` | `Spec => [](crashes = 0 => OneNoncePerTx)` | `HistoryProofs` |
| `SentToItsChain` | `Spec => [](crashes = 0 => StaysOnItsChain)` | `HistoryProofs` |
| `ConfirmedEnds` | a confirmed transaction loses its status only to `_onBootCleanUp`, a restart, a check under way since before its confirmation (`LateDrop`), or by leaving the list | `HistoryProofs` |
| `ConfirmedForGood` | no switches, no deaths: `Spec => ConfirmedIsFinal` | `HistoryProofs` |
| `DecidedOnRelease` | one network: `Spec => DecidedBeforeRelease` | `HistoryProofs` |
| `DroppedAfterUse` | one network, no deaths: `Spec => DroppedNonceIsUsed` | `HistoryProofs` |
| `PolledOnOneNetwork` | one network: `Spec => []PolledWhilePending` | `HistoryProofs` |
| `PendingKept` | no switches, no deaths, one click: `Spec => PendingNotForgotten` | `HistoryProofs` |
| `ConfirmedNoncesFree` | no switches, no deaths: `Spec => []ConfirmedNonceNotReused` | `HistoryProofs` |
| `ClearingIsRight` | `MsgSpec => []ClearingIsExact` | `DappsProofs` |
| `MessagesAreAnswers` | `MsgSpec => ImplementsAnswers` | `DappsProofs` |
| `OneWindowAtATime` | `ApSpec => []OneWindow` | `DappsProofs` |
| `ApTypeCorrect` | `ApSpec => []ApTypeOK` | `DappsProofs` |
| `ApprovalsAnswerOnce` | `ApSpec => ApprovalsImplementAnswers` | `DappsProofs` |
| `OnlyApprovedSites` | `SolSpec => []SitesWereApproved` | `DappsProofs` |
| `SolanaIsAnswered` | `SolSpec => SolImplementsAnswers` | `DappsProofs` |
| `WindowsAnswerOnce` | `DappsSpec => WindowsImplementAnswers` | `DappsProofs` |
| `DappsTypeCorrect` | finitely many accounts: `DappsSpec => []DappsTypes` | `DappsProofs` |
| `FoundOnTheChainAsked` | `TokSpec => []TokensOnTheirChain` | `SessionProofs` |
| `StoreShowsTheChosen` | `TokSpec => []ShownTokensAreOwn` | `SessionProofs` |
| `ListedOrHidden` | `TokSpec /\ []~refused => []HiddenIsNotListed` | `SessionProofs` |
| `IncomingWhereItHappened` | `InSpec => []IncomingOnItsChain` | `SessionProofs` |
| `IncomingTypeCorrect` | `InSpec => []InTypeOK` | `SessionProofs` |
| `FlagsNeverStick` | `PermSpec => []FlagMeansWaiting` | `AccountsProofs` |
| `PermTypeCorrect` | `PermSpec => []PermTypeOK` | `AccountsProofs` |
| `PagesKnowCurrent` | `PermSpec => []ToldIsCurrent` | `AccountsProofs` |
| `VaultTypeCorrect` | `VaultSpec => []VaultTypeOK` | `VaultProofs` |
| `IdentitiesAreKeys` | `VaultSpec => []IdentitiesFollowKeys` | `VaultProofs` |
| `ExposedAreKeys` | `VaultSpec /\ []OneFlow => ExposedExist` | `VaultProofs` |
| `AccountsStay` | `VaultSpec /\ []OneFlow => AccountsNotLost` | `VaultProofs` |
| `MetaTypeCorrect` | `MetaSpec => []MetaTypeOK` | `AccountsProofs` |
| `ConnectedAreRemembered` | `MetaSpec => ConnectedRemembered` | `AccountsProofs` |
| `HomeIsOfOneAccount` | `HomeSpec => []HomeShowsOneAccount` | `AccountsProofs` |
| `HomeTypeCorrect` | `HomeSpec => []HomeTypeOK` | `AccountsProofs` |
| `NoAccountIsLost` | `OnePathEach`: `HomeSpec => []AccountsKept` | `AccountsProofs` |
| `AccountsTypeCorrect` | `AccountsSpec => []AccountsTypes` | `AccountsProofs` |

They hold for every number of transactions, nonces, chains, messages, windows,
calls, sites, ids, accounts, tokens, crashes and switches, and every limit,
except where the table names a restriction; "one network" is `MaxSwitches = 0`
or one chain.  The assumptions are those named in the modules: bounds are
naturals, values that mean "nothing" differ from what they stand beside, custom
nonces are nonces, contracts are tokens, no account to import is one of a seed
phrase, there is an account to select and a block to mine, sets that are counted
are finite.

**Nonces.**  `TypeOK` is inductive.  `NoSharedNonce` is not: nothing in it forbids an
approval about to publish a nonce that another transaction waits with.  The
invariant is `TypeOK /\ NonceProtocol`, where `NonceProtocol` adds

* `LockDiscipline`: the lock is held by exactly the approval between *nonce* and
  *send*, so two approvals cannot both carry a nonce;
* `HolderApart`: the nonce the holder carries is nobody's pending nonce - true
  when it arrives (`IsNextNonce` avoids the pending ones) and kept because
  nobody else publishes meanwhile;
* `UntouchedBeforeApproval`: while an approval is on its way from the UI nothing
  else works on the transaction, so that the UI's copy, which overwrites nonce
  and status, cannot replace the fields of one in the pipeline;
* `InProcessNotSubmitted`: an approval under way is of a transaction that does
  not wait yet;
* `SubmittedApart(disk)`: what a restart reads back was apart when written.

Most actions are of two kinds: those that only end transactions or leave them
alone (`QuietStep`), and those that take up one whose approval has not begun
(`StartStep`).  Both preserve the invariant by one lemma each; the nonce's
arrival, publication and restart have their own.  The refinement classifies the
same steps by what they do to the lock.

**What becomes of a transaction** (`HInv`).  Every step but a restart is first
described by what it does to one transaction `u` (`Life`): it rests, is born,
answered, taken up again, advances in its pipeline, fails there, is numbered,
signed or published.  `LifeInv` relates the stage of the approval, the status,
nonce, signature and hash of `u`, its checks and what is mined; it is then
preserved by each kind of life step, whichever action of the code that comes
from.  `PoolInv` says the same of what nodes were given:
they hold what was signed, under the nonce of the transaction it was signed
for.  It is about a page that has not died, since a disk older than the memory
lets a transaction be approved, and paid, again.

The restrictions are those the code needs.  Across networks the two comments
of `f_release` and `f_polled` are false.  At a boot `_onBootCleanUp` starts a
gas estimate for an unapproved transaction and fails the transaction when the
estimate does (`index.js:741`), which by then may be confirmed: hence
`ConfirmedEnds` in general, and `ConfirmedIsFinal` when no boot follows a
first (`NothingRegassed`).  With two windows a rejection may follow an
approval and remove a transaction on its way to the node (`RejectedOnce`:
with one click it cannot).  And `ConfirmedNonceNotReused` is about
transactions whose checks end with their rounds: such a check holds the global
mutex (`CheckedOnce`), and one whose nonce was given away meanwhile was
overtaken on the chain (`CheckedOvertaken`), so that no receipt confirms it;
a check that outlives its round knows neither.  On one network every chain in
the store and on the disk is the current one (`Here`), which is what makes a
status change find its transaction.  TLC checked each of
these invariants on instances of the runs before it was proved.

**Messages** (`SigInv`).  `ClearingIsExact` needs that a message a window is
signing was decided on (`SigningDecided`): a switch of the network clears
undecided ones only.  The refinement needs that whatever was in the list has a
promise (`Promised`), and that a message one window rejected while another was
signing it has been answered with no (`RejectedHear`): the signature that comes
after it is no second answer.

**Approvals** (`WinInv`, `ApInv`).  One window: at most one call is between
taking `uiIsTriggering` and clearing it, and a window that is there is the one
`popupId` remembers or the one being placed, also if the browser refuses to
open it or it is closed in between.  One answer: an approval in
`approvalMaps` is of a call whose promise still waits, and pages show, sign and
answer only calls that were made.  For the types: an answer names an account
from the moment the page posts it, through the port, to the dapp (`CarryInv`).

**Solana** (`SolInv`).  A handler is that of a request under its own id that
still waits; sites in any copy of `connectedWallets`, stored or held between a
read and a write, were connected by a popup.

**Tokens and incoming transactions** (`TokInv`, `IncomingInv`).  What a lookup may
find is on the chain it asked (`LookupsFindTheirs`), and its answer is dropped
when another chain is chosen; what a fetch captured or will be told is of the
chain it asked, and the list it writes back is true whenever it arrives.  The lists in the
store are the chosen account's but after a refused selection (`refused`), and
as long as none is refused no token is both listed and hidden
(`HiddenIsNotListed`).

**Home page** (`HomeInv`).  A request for tokens asks the node of the chain the
account's own tokens are kept for, since wallet and account agree when it
starts; its answer passes the guard of `setCurrentTokens` only if it is of the
account shown.

Its list (`HeldInv`).  `autofixMismatchAddresses` awaits one address after the
other and writes the list at the end of each round.  What it has put right so
far is a prefix of the list, entry for entry the old one or its right version
(`LoopFits`); whatever others do meanwhile appends, unless an account is deleted
(`deletedAmid`).  The hypothesis `OnePathEach` says that on a chain an address
belongs to one path.  Without it an import of an account is skipped when a
stored, wrong entry of another path has its address, and the account is gone
once that entry is put right.

**Permissions** (`CallInv`, `ToldInv`).  The queue of the unlock holds each waiting request
once (`QueueWaits`), a page waits with at most one (`WaitsOnce`), and its flag
is set exactly then (`FlagFits`): so a request that is woken may clear the flag
without clearing that of another.  An origin's approval is that of the request
of this origin which is at the approval step (`ApprovalFits`).

`ToldInv`: a page that is told of accounts is told those permitted to its
origin in the order of selection, and every action that changes permission,
order or lock tells the pages concerned; an origin with an open approval has
no accounts, so approving it makes a difference to the pages of that origin only.

**Vault** (`KeysInv`, `ExposedInv`).  Each handler that changes the keyrings, but
for `forgetDevice`, ends by setting the identities to them, and until it does it
is under way (`IdentitiesRight`); the accounts `forgetDevice` or a restore's old
list are wrong about are in `unsynced` until the identities next follow the
keys; a vault is made by whoever holds `createVaultMutex`
(`OneMaker`), and a vault that is there has an account of its phrase
(`HdStays`).  Every identity has a key or is in
`unsynced`, also between the steps of a handler (`KnownExist`), and permissions
are given to identities only: so no step leaves a permission without a key, or
gives one, beside those.  The account itself may well stay permitted after its
device was forgotten, which is why `ExposedExist` is about steps.
`ExposedExist` and `AccountsNotLost` are proved while `OneFlow` holds: a window
that restores a vault does not meet one that creates one.  The model allows
it, and then the creation, for which the restored wallet is locked again
meanwhile, can replace the restored vault; the first-time flow offers one or
the other.

**Metadata.**  The queue of sites is kept within its bound and a site that leaves
it is deleted only while it has no permissions.

**Side by side.**  A step of `MCAccounts` or `MCDapps` is a step of each component
or leaves it alone (`OwnSteps`, `EachItsOwn`), so their specifications imply the
components' and the theorems carry over.  `Tokens` and `IncomingTransactions`
share the chosen network and account; their types are shown together
(`ChosenInv`).

`LeastNat` - a nonempty set of naturals has a least element - comes from the
library's fact that the finite sets are well founded under strict inclusion.  It
replaces induction: the first account a `CHOOSE` finds, the maximum of a set of
numbers and the elements of a filtered list rest on it.

Only model-checked is liveness, for which the prover has no fairness:
`ApprovalEnds`, `DappAnswered`, `SubmittedResolved`, `DecidedIsTold`,
`ClosedIsSettled`, `TriggerEnds`, `RemovedIsTold`, `PolledCatchesUp`.  Every
invariant, action property and refinement of the passing runs is stated by a
theorem, some under the restrictions in the table.

## 8. Not modelled

* Within the transactions: the round `_updatePendingTxsAfterFirstBlock` starts
  once at boot, when something is pending (`UpdatePendingTxs` is enabled then);
  `updateTransaction`; balances of swaps; validation, history notes and gas
  arithmetic.  Two accounts share only the global mutex; the model has one.
* The network controller's own races.  `lookupNetwork` compares the network id
  before and after its request, and both are "loading" after two switches; the
  answer of the first provider is then taken for the second until the next
  look-up.  Nothing the transactions sign comes from it, and the code promises
  nothing that would hold or fail in an interesting way.
* Several home pages that write the same storage: each saves whole values, so
  the last writer wins; a second page that adds an account refutes the obvious
  property in two steps.  Prices, balances, transfers and history of the home
  page, and the clients of its chains, are requests and displays.
* The keyrings are a library: they are sets of accounts whose changes end with
  an encryption.  Ports and streams are libraries too; what is delivered in
  which order is modelled, framing is not.
* Alerts, onboarding and ENS, the log of permissions: setters and bounded logs.
  (A name resolved before a switch is stored after it; an entry of the log may
  be gone when its answer comes.)
* RPC middleware, content script and inpage provider compose libraries;
  migrations rewrite an object once; gas estimation is a choice of success or
  failure; React screens have no state that others rely on beyond the answers
  modelled as clicks.
