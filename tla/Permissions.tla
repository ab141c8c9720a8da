----------------------------- MODULE Permissions -----------------------------
(***************************************************************************)
(* How the pages of a dapp come to know accounts: controllers/permissions  *)
(* (eth_requestAccounts, the approval, the permission, the notifications), *)
(* the queue of controllers/app-state.js for requests that wait for the    *)
(* unlock, and the connections of MetamaskController.                      *)
(*                                                                         *)
(* Promises that are already settled go on before the next event of the    *)
(* browser, so an action is everything up to an await of the user or the   *)
(* network, except that the requests woken by an unlock go on one after    *)
(* the other (Resume), before anything else (Quiet).                       *)
(***************************************************************************)
EXTENDS Naturals, Sequences, FiniteSets, SequencesExt

CONSTANTS
  Accounts,  \* the accounts of the keyrings at the start
  Origins,   \* the dapps
  Tabs,      \* the pages; a page opened again is another one
  OriginOf,  \* the dapp of each page
  Calls,     \* requests for accounts by pages
  Interface, \* a request for accounts made in the extension's own pages
  None       \* no page, no request

ASSUME ApprovalNamesAssumption ==
  Interface \notin Calls /\ None \notin Calls \cup {Interface} \cup Tabs
ASSUME OriginOfAssumption == OriginOf \in [Tabs -> Origins]
ASSUME AccountsAssumption == IsFiniteSet(Accounts) /\ Accounts # {}

VARIABLES
  locked,      \* isUnlocked() is false
  waiting,     \* waitingForUnlock: the requests that await the unlock
  call,        \* per request, the page it is of and where it is
  processing,  \* isProcessingRequestAccounts of the engine of each page
  approval,    \* per origin, the pending request for its approval
  permitted,   \* per origin, the accounts of eth_accounts (none: no permission)
  recent,      \* the accounts that exist, the last selected first
  page,        \* whether each page is new, open or closed
  told,        \* the accounts a page was last told
  newHome      \* the second application is shown (isNewHome)

permVars ==
  <<locked, waiting, call, processing, approval, permitted, recent, page, told,
    newHome>>

(* unlock: in waitForUnlock; approval, permission: in requestUserApproval,  *)
(* for eth_requestAccounts and wallet_requestPermissions; the others are    *)
(* results: the accounts (the permission), none because another application *)
(* is shown, a refusal, "already processing", and "accounts unexpectedly    *)
(* unavailable".                                                            *)
Asking == {"approval", "permission"}
CallStates == {"unborn", "unlock", "accounts", "none", "refused", "busy",
               "unavailable"} \cup Asking

PermTypeOK ==
  /\ locked \in BOOLEAN
  /\ waiting \in Seq(Calls)
  /\ call \in [Calls -> [tab : Tabs \cup {None}, at : CallStates]]
  /\ processing \in [Tabs -> BOOLEAN]
  /\ approval \in [Origins -> Calls \cup {Interface, None}]
  /\ permitted \in [Origins -> SUBSET Accounts]
  /\ recent \in Seq(Accounts) /\ recent # <<>> /\ IsInjective(recent)
  /\ newHome \in BOOLEAN
  /\ page \in [Tabs -> {"new", "open", "closed"}]
  /\ told \in [Tabs -> SUBSET Accounts]

PermInit ==
  /\ locked \in BOOLEAN
  /\ waiting = <<>>
  /\ call = [k \in Calls |-> [tab |-> None, at |-> "unborn"]]
  /\ processing = [t \in Tabs |-> FALSE]
  /\ approval = [o \in Origins |-> None]
  /\ permitted \in [Origins -> SUBSET Accounts]
  /\ recent \in SetToSeqs(Accounts)
  /\ page = [t \in Tabs |-> "new"]
  /\ told = [t \in Tabs |-> {}]
  /\ newHome \in BOOLEAN

Quiet == locked \/ waiting = <<>>

-----------------------------------------------------------------------------
(* Accounts a dapp may see. *)

Selected(order) == Head(order)

(* The first of the permitted accounts in the order of their last selection *)
(* (caveat limitResponseLength); while locked there are no keyrings.        *)
Exposed(allowed, order) ==
  {order[i] : i \in {j \in 1..Len(order) :
     order[j] \in allowed /\ \A h \in 1..(j - 1) : order[h] \notin allowed}}

(* getAccounts(origin) *)
GetAccounts(o) == IF locked THEN {} ELSE Exposed(permitted[o], recent)

(* notifyAccountsChanged: what the pages of the origins in `news` are told. *)
Notify(news) ==
  told' = [t \in Tabs |->
             IF OriginOf[t] \in DOMAIN news /\ page[t] = "open" /\ ~locked
             THEN news[OriginOf[t]] ELSE told[t]]

-----------------------------------------------------------------------------
(* Pages and their requests. *)

(* addConnection *)
OpenTab(t) ==
  /\ Quiet
  /\ page[t] = "new"
  /\ page' = [page EXCEPT ![t] = "open"]
  /\ UNCHANGED <<locked, waiting, call, processing, approval, permitted, recent, told, newHome>>

(* removeConnection; a request of the page goes on without it.              *)
CloseTab(t) ==
  /\ Quiet
  /\ page[t] = "open"
  /\ page' = [page EXCEPT ![t] = "closed"]
  /\ told' = [told EXCEPT ![t] = {}]
  /\ UNCHANGED <<locked, waiting, call, processing, approval, permitted, recent, newHome>>

Answer(k, t, result, tell) ==
  /\ call' = [call EXCEPT ![k] = [tab |-> t, at |-> result]]
  /\ told' = IF page[t] = "open" /\ result = "accounts"
             THEN [told EXCEPT ![t] = tell] ELSE told

(* The approval controller keeps one request per origin. *)
MayAsk(o) == approval[o] = None

(* getAccounts, and if there are none a request for the approval.           *)
TryAccounts(k, t) ==
  LET o == OriginOf[t]
      accounts == GetAccounts(o)
  IN  \/ /\ accounts # {}
         /\ Answer(k, t, "accounts", accounts)
         /\ UNCHANGED approval
      \/ /\ accounts = {} /\ MayAsk(o)
         /\ approval' = [approval EXCEPT ![o] = k]
         /\ Answer(k, t, "approval", {})
      \/ /\ accounts = {} /\ ~MayAsk(o)
         /\ Answer(k, t, "refused", {})
         /\ UNCHANGED approval

(* eth_requestAccounts up to its first wait. *)
RequestAccounts(k, t) ==
  /\ Quiet /\ ~newHome
  /\ call[k].at = "unborn" /\ page[t] = "open"
  /\ \/ /\ processing[t]
        /\ Answer(k, t, "busy", {})
        /\ UNCHANGED <<waiting, processing, approval>>
     \/ /\ ~processing[t] /\ permitted[OriginOf[t]] # {} /\ locked
        /\ processing' = [processing EXCEPT ![t] = TRUE]
        /\ waiting' = Append(waiting, k)
        /\ Answer(k, t, "unlock", {})
        /\ UNCHANGED approval
     \/ /\ ~processing[t] /\ (permitted[OriginOf[t]] = {} \/ ~locked)
        /\ TryAccounts(k, t)
        /\ UNCHANGED <<waiting, processing>>
  /\ UNCHANGED <<locked, permitted, recent, page, newHome>>

(* While the second application is shown pages get no accounts, and none is *)
(* asked for.                                                               *)
RequestInNewHome(k, t) ==
  /\ Quiet /\ newHome
  /\ call[k].at = "unborn" /\ page[t] = "open"
  /\ Answer(k, t, "none", {})
  /\ UNCHANGED <<locked, waiting, processing, approval, permitted, recent, page, newHome>>

(* wallet_requestPermissions for eth_accounts: always asks the user.        *)
RequestPermissions(k, t) ==
  LET o == OriginOf[t]
  IN  /\ Quiet
      /\ call[k].at = "unborn" /\ page[t] = "open"
      /\ Answer(k, t, IF MayAsk(o) THEN "permission" ELSE "refused", {})
      /\ approval' = [approval EXCEPT ![o] = IF MayAsk(o) THEN k ELSE @]
      /\ UNCHANGED <<locked, waiting, processing, permitted, recent, page, newHome>>

(* requestAccountsPermissionWithId *)
RequestInInterface(o) ==
  /\ Quiet
  /\ MayAsk(o)
  /\ approval' = [approval EXCEPT ![o] = Interface]
  /\ UNCHANGED <<locked, waiting, call, processing, permitted, recent, page, told, newHome>>

LeaveFlag(t) == UNCHANGED processing
ClearFlag(t) == processing' = [processing EXCEPT ![t] = FALSE]

(* handleUnlock resolves the promises of the queue in its order; each       *)
(* request goes on after `await getUnlockPromise()`, that of a closed page  *)
(* as well.                                                                 *)
Resume ==
  /\ ~locked /\ waiting # <<>>
  /\ LET k == Head(waiting)
         t == call[k].tab
     IN  /\ waiting' = Tail(waiting)
         /\ ClearFlag(t)
         /\ TryAccounts(k, t)
  /\ UNCHANGED <<locked, permitted, recent, page, newHome>>

-----------------------------------------------------------------------------
(* The user. *)

SubmitPassword ==
  /\ locked
  /\ locked' = FALSE
  /\ UNCHANGED <<waiting, call, processing, approval, permitted, recent, page, told, newHome>>

PagesKeep == UNCHANGED told
PagesForget == told' = [t \in Tabs |-> {}]

(* The user or the inactivity timer; _onLock tells every page.              *)
SetLocked ==
  /\ ~locked /\ Quiet
  /\ locked' = TRUE
  /\ PagesForget
  /\ UNCHANGED <<waiting, call, processing, approval, permitted, recent, page, newHome>>

(* approvePermissionsRequest; the accounts were chosen in a window that may *)
(* not know of the last changes.                                            *)
ApprovePermissionsRequest(o, chosen) ==
  LET k == approval[o]
  IN  /\ Quiet
      /\ k # None
      /\ approval' = [approval EXCEPT ![o] = None]
      /\ \/ /\ chosen \subseteq ToSet(recent)
            /\ permitted' = [permitted EXCEPT ![o] = chosen]
            /\ LET accounts == IF locked THEN {} ELSE Exposed(chosen, recent)
               IN  \/ /\ k = Interface
                      /\ Notify([d \in {o} |-> accounts])
                      /\ UNCHANGED call
                   \/ /\ k # Interface /\ call[k].at = "permission"
                      /\ Notify([d \in {o} |-> accounts])
                      /\ call' = [call EXCEPT ![k].at = "accounts"]
                   \/ /\ k # Interface /\ call[k].at = "approval"
                      /\ Answer(k, call[k].tab,
                                IF accounts = {} THEN "unavailable" ELSE "accounts",
                                accounts)
         \/ /\ ~(chosen \subseteq ToSet(recent))
            /\ call' = [j \in Calls |-> IF j = k THEN [call[j] EXCEPT !.at = "refused"]
                                                 ELSE call[j]]
            /\ UNCHANGED <<permitted, told>>
      /\ UNCHANGED <<locked, waiting, processing, recent, page, newHome>>

RejectPermissionsRequest(o) ==
  LET k == approval[o]
  IN  /\ Quiet
      /\ k # None
      /\ approval' = [approval EXCEPT ![o] = None]
      /\ call' = [j \in Calls |-> IF j = k THEN [call[j] EXCEPT !.at = "refused"]
                                           ELSE call[j]]
      /\ UNCHANGED <<locked, waiting, processing, permitted, recent, page, told, newHome>>

AddPermittedAccount(o, a) ==
  /\ Quiet
  /\ permitted[o] # {} /\ a \in ToSet(recent) \ permitted[o]
  /\ permitted' = [permitted EXCEPT ![o] = @ \cup {a}]
  /\ Notify([d \in {o} |-> Exposed(permitted[o] \cup {a}, recent)])
  /\ UNCHANGED <<locked, waiting, call, processing, approval, recent, page, newHome>>

(* removePermittedAccount and removePermissionsFor. *)
RemovePermittedAccount(o, a) ==
  /\ Quiet
  /\ a \in permitted[o] \cap ToSet(recent)
  /\ permitted' = [permitted EXCEPT ![o] = @ \ {a}]
  /\ Notify([d \in {o} |-> Exposed(permitted[o] \ {a}, recent)])
  /\ UNCHANGED <<locked, waiting, call, processing, approval, recent, page, newHome>>

ClearPermissions ==
  /\ Quiet
  /\ permitted' = [o \in Origins |-> {}]
  /\ PagesForget
  /\ UNCHANGED <<locked, waiting, call, processing, approval, recent, page, newHome>>

Without(order, a) == RemoveAt(order, CHOOSE i \in 1..Len(order) : order[i] = a)
SelectedFirst(a) == <<a>> \o Without(recent, a)

(* setSelectedAddress and _handleAccountSelected. *)
SelectAccount(a) ==
  /\ ~locked /\ Quiet
  /\ a \in ToSet(recent) /\ a # Selected(recent)
  /\ recent' = SelectedFirst(a)
  /\ Notify([o \in {d \in Origins : a \in permitted[d]} |-> {a}])
  /\ UNCHANGED <<locked, waiting, call, processing, approval, permitted, page, newHome>>

(* The home is chosen: disconnectAllDomainAccounts tells the pages of every *)
(* origin with a permission [], emitAccountChangedToConnectedDomain those   *)
(* that may see the selected account that it is selected.                   *)
DisconnectAllDomainAccounts ==
  /\ Quiet
  /\ newHome' = TRUE
  /\ Notify([o \in {d \in Origins : permitted[d] # {}} |-> {}])
  /\ UNCHANGED <<locked, waiting, call, processing, approval, permitted, recent, page>>

EmitAccountChanged ==
  /\ Quiet
  /\ newHome' = FALSE
  /\ Notify([o \in {d \in Origins : Selected(recent) \in permitted[d]} |-> {Selected(recent)}])
  /\ UNCHANGED <<locked, waiting, call, processing, approval, permitted, recent, page>>

(* removeAccount: the permissions first, then the identity - which selects  *)
(* another account if it was the selected one - and the key last.  While    *)
(* the key has no identity any more eth_accounts fails ("Missing identity") *)
(* and the pages of the newly selected account may be told [].              *)
RemoveAccount(a, next) ==
  LET rest == Without(recent, a)
      order == IF a = Selected(recent) THEN <<next>> \o Without(rest, next) ELSE rest
      touched == {o \in Origins : a \in permitted[o]}
      chosen == {o \in Origins : a = Selected(recent) /\ next \in permitted[o]}
  IN  /\ ~locked /\ Quiet
      /\ a \in ToSet(recent) /\ next \in ToSet(rest)
      /\ recent' = order
      /\ permitted' = [o \in Origins |-> permitted[o] \ {a}]
      /\ \E missing \in BOOLEAN :
           Notify([o \in touched \cup chosen |->
                     IF o \in chosen /\ missing THEN {} ELSE Exposed(permitted[o] \ {a}, order)])
      /\ UNCHANGED <<locked, waiting, call, processing, approval, page, newHome>>

PermNext ==
  \/ \E t \in Tabs : OpenTab(t) \/ CloseTab(t)
  \/ \E k \in Calls, t \in Tabs :
       RequestAccounts(k, t) \/ RequestInNewHome(k, t) \/ RequestPermissions(k, t)
  \/ \E o \in Origins :
       \/ RequestInInterface(o)
       \/ \E chosen \in SUBSET Accounts \ {{}} : ApprovePermissionsRequest(o, chosen)
       \/ RejectPermissionsRequest(o)
       \/ \E a \in Accounts : AddPermittedAccount(o, a) \/ RemovePermittedAccount(o, a)
  \/ Resume \/ SubmitPassword \/ SetLocked \/ ClearPermissions
  \/ DisconnectAllDomainAccounts \/ EmitAccountChanged
  \/ \E a \in Accounts : SelectAccount(a)
  \/ \E a, next \in Accounts : RemoveAccount(a, next)

PermSpec == PermInit /\ [][PermNext]_permVars

-----------------------------------------------------------------------------
(* Properties *)

(* What makes others be refused is held only by a request that waits.  A    *)
(* page is refused with "already processing" only while a request of its    *)
(* own waits for the unlock, which is while the extension is locked: the    *)
(* flag set before the await (permissionsMethodMiddleware.js:105) is never  *)
(* left behind.  And the one approval an origin may have pending is that of *)
(* the request that waits for it: none waits for an answer nobody can give, *)
(* and none keeps the origin from asking again after its end.               *)
FlagMeansWaiting ==
  /\ \A t \in Tabs : processing[t] <=> \E k \in Calls : call[k].tab = t /\ call[k].at = "unlock"
  /\ Quiet => \A k \in Calls : call[k].at = "unlock" => locked
  /\ \A k \in Calls, o \in Origins :
       approval[o] = k <=> call[k].at \in Asking /\ OriginOf[call[k].tab] = o

(* Whatever was approved, revoked, selected, locked or removed since, a     *)
(* page that was told an account was told the one it would get now.         *)
ToldIsCurrent == \A t \in Tabs : told[t] \in {{}, GetAccounts(OriginOf[t])}
=============================================================================
