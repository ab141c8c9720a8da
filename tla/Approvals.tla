------------------------------ MODULE Approvals ------------------------------
(***************************************************************************)
(* The notification window and the approvals of the new application:       *)
(* triggerUi, openPopup and openApprovalPopup of app/scripts/background.js, *)
(* showPopup of lib/notification-manager.js, the dapp approval store of    *)
(* src/wallets/dapp and the page the user answers on                       *)
(* (PageApprovePopup).                                                     *)
(*                                                                         *)
(* A call is a dapp's cfx_requestAccounts ("connect"), cfx_sendTransaction *)
(* ("send") or wallet_watchAsset ("watch": the old pages, which wait for   *)
(* the window to be gone).  call[r].at is where its handler is:            *)
(*   reading   getAccounts waits for the current account                   *)
(*   tabs      triggerUi waits for the active tabs                         *)
(*   finding   showPopup waits for the list of windows                     *)
(*   updating  showPopup waits for the tab of the window it found          *)
(*   opening, placing   showPopup waits for the new window, its position   *)
(*   waiting   openPopup polls until the notification window is gone       *)
(* A window has the name of the call that opened it.  Its page is behind   *)
(* RouteAuthenticated: while the wallet is locked the window is covered by *)
(* the unlock page, and the page of the approval is not mounted.           *)
(***************************************************************************)
EXTENDS Naturals, FiniteSets, Sequences

CONSTANTS
  Reqs,      \* the calls of a run
  OriginOf,  \* the dapp each call is from
  Accts,     \* the accounts the user may select
  Nobody,    \* none is selected, or the old home page chosen
  Locked,    \* the wallet is locked
  NoReq      \* no call: a window that shows another page, no window

ASSUME ReqsAssumption == NoReq \notin Reqs
ASSUME AcctsAssumption == Nobody \notin Accts /\ Locked \notin Accts

VARIABLES
  call,        \* per call: its kind and where its handler is
  reply,       \* the dapp's promise
  approvals,   \* approvalMaps: the approvals that can still be settled
  triggering,  \* uiIsTriggering
  popupId,     \* _popupId of the notification manager
  win,         \* per window: its life and the approval its URL names
  signing,     \* per window, the transactions its page is signing
  post,        \* per window, the messages on its port
  notifOpen,   \* notificationIsOpen
  current,     \* the account selected on the new home page, unless it is locked
  connected,   \* connections: per dapp, its approved accounts
  leaving,     \* removeAccountsConnection waits its half second
  told         \* per dapp, the accounts its page was told last

winVars == <<triggering, popupId, win, signing, post, notifOpen>>
dappVars == <<connected, leaving, told>>
apVars == <<call, reply, approvals, winVars, current, dappVars>>

CallKinds == {"connect", "send", "watch"}
Stages == {"unborn", "reading", "tabs", "finding", "updating", "opening",
           "placing", "waiting", "done"}
Lives == {"unborn", "open", "loaded", "covered", "closed", "died"}
Currents == Accts \cup {Nobody, Locked}
Dapps == {OriginOf[r] : r \in Reqs}
Mail == [what : {"resolve", "reject"}, key : Reqs, acct : Currents]
          \cup [what : {"end"}]

ApTypeOK ==
  /\ call \in [Reqs -> [kind : CallKinds, at : Stages]]
  /\ reply \in [Reqs -> {"none", "pending", "resolved", "refused"}]
  /\ approvals \subseteq Reqs
  /\ triggering \in BOOLEAN
  /\ popupId \in Reqs \cup {NoReq}
  /\ win \in [Reqs -> [life : Lives, shows : Reqs \cup {NoReq}]]
  /\ signing \in [Reqs -> SUBSET Reqs]
  /\ post \in [Reqs -> Seq(Mail)]
  /\ notifOpen \in BOOLEAN
  /\ current \in Currents
  /\ connected \in [Dapps -> SUBSET Accts]
  /\ leaving \in BOOLEAN
  /\ told \in [Dapps -> SUBSET Accts]

ApInit ==
  /\ call \in [Reqs -> [kind : CallKinds, at : {"unborn"}]]
  /\ reply = [r \in Reqs |-> "none"]
  /\ approvals = {}
  /\ triggering = FALSE
  /\ popupId = NoReq
  /\ win = [w \in Reqs |-> [life |-> "unborn", shows |-> NoReq]]
  /\ signing = [w \in Reqs |-> {}]
  /\ post = [w \in Reqs |-> <<>>]
  /\ notifOpen = FALSE
  /\ current \in Currents
  /\ connected = [o \in Dapps |-> {}]
  /\ leaving = FALSE
  /\ told = [o \in Dapps |-> {}]

Alive(w) == win[w].life \in {"open", "loaded", "covered"}
Moves(r, stage) == call' = [call EXCEPT ![r].at = stage]

-----------------------------------------------------------------------------
(* The dapp approval store. *)

(* getAccounts: the selected account, if the dapp is connected to it; none  *)
(* while the wallet is locked or shows the old home page.                   *)
Visible(conns, o) == conns[o] \cap {current}

(* onAccountsChanged, with connections as they are when it has read the     *)
(* current account.                                                         *)
Notify(conns) == told' = [o \in Dapps |-> Visible(conns, o)]

SaveApproval(r) == approvals' = approvals \cup {r}
RemoveApproval(r) == approvals' = approvals \ {r}

(* A call arrives: cfx_sendTransaction and wallet_watchAsset check nothing  *)
(* and go for the window at once.                                           *)
HandleDappMethods(r) ==
  /\ call[r].at = "unborn"
  /\ reply' = [reply EXCEPT ![r] = "pending"]
  /\ \/ /\ call[r].kind = "connect"
        /\ Moves(r, "reading")
        /\ UNCHANGED approvals
     \/ /\ call[r].kind = "send"
        /\ Moves(r, "tabs")
        /\ SaveApproval(r)
     \/ /\ call[r].kind = "watch"
        /\ Moves(r, "tabs")
        /\ UNCHANGED approvals
  /\ UNCHANGED <<winVars, current, dappVars>>

AlreadyConnected(r) == Visible(connected, OriginOf[r]) # {}

(* requestAccounts, when getAccounts has the current account. *)
RequestAccounts(r) ==
  /\ call[r].at = "reading"
  /\ \/ /\ AlreadyConnected(r)
        /\ reply' = [reply EXCEPT ![r] = "resolved"]
        /\ Moves(r, "done")
        /\ Notify(connected)
        /\ UNCHANGED <<approvals, winVars, current, connected, leaving>>
     \/ /\ ~AlreadyConnected(r)
        /\ SaveApproval(r)
        /\ Moves(r, "tabs")
        /\ UNCHANGED <<reply, winVars, current, dappVars>>

-----------------------------------------------------------------------------
(* The notification window. *)

(* openPopup goes on after triggerUi. *)
AfterTrigger(r) == Moves(r, IF call[r].kind = "watch" THEN "waiting" ELSE "done")

(* Without the flag two calls look for a window at the same time. *)
TriggerAnyway(r) ==
  /\ call[r].at = "tabs"
  /\ \/ /\ triggering' = TRUE
        /\ Moves(r, "finding")
     \/ /\ AfterTrigger(r)
        /\ UNCHANGED triggering
  /\ UNCHANGED <<reply, approvals, popupId, win, signing, post, notifOpen,
                 current, dappVars>>

(* triggerUi has the active tabs: it shows nothing while another call is at *)
(* it, the toolbar popup is open or the active tab is the wallet's, and     *)
(* whoever called goes on.  Where else the wallet is open is up to chance.  *)
TriggerUi(r) ==
  /\ call[r].at = "tabs"
  /\ \/ /\ ~triggering
        /\ triggering' = TRUE
        /\ Moves(r, "finding")
     \/ /\ AfterTrigger(r)
        /\ UNCHANGED triggering
  /\ UNCHANGED <<reply, approvals, popupId, win, signing, post, notifOpen,
                 current, dappVars>>

(* _getPopup looks for the window showPopup made last. *)
GetPopup(r) ==
  /\ call[r].at = "finding"
  /\ Moves(r, IF popupId # NoReq /\ Alive(popupId) THEN "updating" ELSE "opening")
  /\ UNCHANGED <<reply, approvals, winVars, current, dappVars>>

(* A call whose window the browser refuses, or finds gone, fails.  Without  *)
(* triggerUi's `finally` it would leave the flag set.  The error goes to    *)
(* the dapp that asked to watch an asset; the promise of an approval is not *)
(* told.                                                                    *)
FailureTold(r) ==
  reply' = IF call[r].kind = "watch" THEN [reply EXCEPT ![r] = "refused"] ELSE reply
FailedBare(r) == UNCHANGED triggering /\ Moves(r, "done") /\ FailureTold(r)
Failed(r) == triggering' = FALSE /\ Moves(r, "done") /\ FailureTold(r)

Page(r) == IF call[r].kind = "watch" THEN NoReq ELSE r

(* The window that is there gets the URL of this call, whatever it showed:  *)
(* only the part after # differs, so the page is not unloaded.  An unlock   *)
(* page goes if the wallet was unlocked in another window meanwhile.        *)
Uncovered(life) == IF life = "covered" /\ current # Locked THEN "loaded" ELSE life

UpdateTab(r) ==
  /\ call[r].at = "updating"
  /\ \/ /\ Alive(popupId)
        /\ win' = [win EXCEPT ![popupId] =
                    [life |-> Uncovered(@.life), shows |-> Page(r)]]
        /\ triggering' = FALSE
        /\ AfterTrigger(r)
        /\ UNCHANGED reply
     \/ /\ ~Alive(popupId)
        /\ Failed(r)
        /\ UNCHANGED win
  /\ UNCHANGED <<approvals, popupId, signing, post, notifOpen, current, dappVars>>

OpenWindow(r) ==
  /\ call[r].at = "opening"
  /\ \/ /\ win' = [win EXCEPT ![r] = [life |-> "open", shows |-> Page(r)]]
        /\ Moves(r, "placing")
        /\ UNCHANGED <<reply, triggering>>
     \/ Failed(r) /\ UNCHANGED win
  /\ UNCHANGED <<approvals, popupId, signing, post, notifOpen, current, dappVars>>

(* The position of the new window is set, which fails if it is gone, and    *)
(* its id remembered.  Bound: the browser refuses no other position, having *)
(* opened the window at this very one.                                      *)
UpdateWindowPosition(r) ==
  /\ call[r].at = "placing"
  /\ \/ /\ popupId' = r
        /\ triggering' = FALSE
        /\ AfterTrigger(r)
        /\ UNCHANGED reply
     \/ /\ ~Alive(r)
        /\ Failed(r)
        /\ UNCHANGED popupId
  /\ UNCHANGED <<approvals, win, signing, post, notifOpen, current, dappVars>>

(* requestWatchAsset answers once openPopup has seen no window. *)
OpenPopup(r) ==
  /\ call[r].at = "waiting" /\ ~notifOpen
  /\ Moves(r, "done")
  /\ \E a \in {"resolved", "refused"} : reply' = [reply EXCEPT ![r] = a]
  /\ UNCHANGED <<approvals, winVars, current, dappVars>>

-----------------------------------------------------------------------------
(* The page in the window. *)

(* A page is mounted, the approval or the unlock page, and its port         *)
(* connected (connectRemote).                                               *)
Mounted == IF current = Locked THEN "covered" ELSE "loaded"

ConnectRemote(w) ==
  /\ win[w].life = "open"
  /\ win' = [win EXCEPT ![w].life = Mounted]
  /\ notifOpen' = TRUE
  /\ UNCHANGED <<call, reply, approvals, triggering, popupId, signing, post,
                 current, dappVars>>

Shown(w, r) == win[w].life = "loaded" /\ win[w].shows = r

(* The wallet is locked, by the user or after a while: in every window the  *)
(* unlock page takes the place of what was mounted.                         *)
LockWallet ==
  /\ current # Locked
  /\ current' = Locked
  /\ win' = [w \in Reqs |->
              IF win[w].life = "loaded" THEN [win[w] EXCEPT !.life = "covered"] ELSE win[w]]
  /\ UNCHANGED <<call, reply, approvals, triggering, popupId, signing, post,
                 notifOpen, dappVars>>

(* The password is given in this window, which goes back to what it showed. *)
(* An unlock elsewhere leaves it on the unlock page.                        *)
Unlock(w) ==
  /\ win[w].life = "covered"
  /\ win' = [win EXCEPT ![w].life = "loaded"]
  /\ current' \in IF current = Locked THEN Accts \cup {Nobody} ELSE {current}
  /\ UNCHANGED <<call, reply, approvals, triggering, popupId, signing, post,
                 notifOpen, dappVars>>

(* The page asks to choose the chain or an account first. *)
PageReady == current \in Accts

Posts(w, r, what) ==
  post' = [post EXCEPT ![w] = Append(@, [what |-> what, key |-> r, acct |-> current])]

(* Bound: nobody clicks again before the first click is handled.           *)
NotPosted(w, r) == \A i \in 1..Len(post[w]) : post[w][i].key # r

ApproveConnection(w, r) ==
  /\ Shown(w, r) /\ PageReady /\ call[r].kind = "connect"
  /\ NotPosted(w, r)
  /\ Posts(w, r, "resolve")
  /\ UNCHANGED <<call, reply, approvals, triggering, popupId, win, signing,
                 notifOpen, current, dappVars>>

(* The page signs and sends the transaction it shows, and answers for the   *)
(* one it showed when the button was pressed, even behind the unlock page.  *)
ApproveTransaction(w, r) ==
  /\ call[r].kind = "send" /\ win[w].life \in {"loaded", "covered"}
  /\ \/ /\ Shown(w, r) /\ PageReady /\ r \notin signing[w]
        /\ NotPosted(w, r)
        /\ signing' = [signing EXCEPT ![w] = @ \cup {r}]
        /\ UNCHANGED post
     \/ /\ r \in signing[w]
        /\ signing' = [signing EXCEPT ![w] = @ \ {r}]
        /\ Posts(w, r, "resolve") \/ UNCHANGED post
  /\ UNCHANGED <<call, reply, approvals, triggering, popupId, win, notifOpen,
                 current, dappVars>>

(* What useBeforeUnload posts: the approval the page shows now is refused. *)
RefuseNothing(w) == <<>>
RefuseShown(w) ==
  IF win[w].shows # NoReq
  THEN <<[what |-> "reject", key |-> win[w].shows, acct |-> Nobody]>>
  ELSE <<>>

(* The window closes: by the user, by the page once it has its answer, or   *)
(* by a page of the wallet.  The approval is refused by its page, so by     *)
(* none that was not mounted yet or is behind the unlock page.              *)
CloseWindow(w) ==
  /\ Alive(w)
  /\ \/ /\ win[w].life = "loaded"
        /\ win' = [win EXCEPT ![w].life = "closed"]
        /\ post' = [post EXCEPT ![w] = @ \o RefuseShown(w) \o <<[what |-> "end"]>>]
     \/ /\ win[w].life = "covered"
        /\ win' = [win EXCEPT ![w].life = "died"]
        /\ post' = [post EXCEPT ![w] = Append(@, [what |-> "end"])]
     \/ /\ win[w].life = "open"
        /\ win' = [win EXCEPT ![w].life = "died"]
        /\ UNCHANGED post
  /\ signing' = [signing EXCEPT ![w] = {}]
  /\ UNCHANGED <<call, reply, approvals, triggering, popupId, notifOpen,
                 current, dappVars>>

-----------------------------------------------------------------------------
(* The background page gets the next message of a window. *)

NextMail(w, what) == post[w] # <<>> /\ Head(post[w]).what = what
Taken(w) == post' = [post EXCEPT ![w] = Tail(@)]

(* resolve settles an approval that still is in approvalMaps; an answer to  *)
(* cfx_requestAccounts is saved as a connection at once.                    *)
Resolve(w) ==
  LET mail == Head(post[w])
      r    == mail.key
      o    == OriginOf[r]
      new  == [connected EXCEPT ![o] = @ \cup {mail.acct}]
  IN  /\ NextMail(w, "resolve")
      /\ Taken(w)
      /\ RemoveApproval(r)
      /\ \/ /\ r \in approvals /\ call[r].kind = "connect"
            /\ reply' = [reply EXCEPT ![r] = "resolved"]
            /\ connected' = new
            /\ Notify(new)
         \/ /\ r \in approvals /\ call[r].kind = "send"
            /\ reply' = [reply EXCEPT ![r] = "resolved"]
            /\ UNCHANGED <<connected, told>>
         \/ r \notin approvals /\ UNCHANGED <<reply, connected, told>>
      /\ UNCHANGED <<call, triggering, popupId, win, signing, notifOpen,
                     current, leaving>>

Reject(w) ==
  LET r == Head(post[w]).key
  IN  /\ NextMail(w, "reject")
      /\ Taken(w)
      /\ RemoveApproval(r)
      /\ reply' = IF r \in approvals THEN [reply EXCEPT ![r] = "refused"] ELSE reply
      /\ UNCHANGED <<call, triggering, popupId, win, signing, notifOpen,
                     current, dappVars>>

NotificationClosed == notifOpen' = FALSE

EndOfStream(w) ==
  /\ NextMail(w, "end")
  /\ Taken(w)
  /\ NotificationClosed
  /\ UNCHANGED <<call, reply, approvals, triggering, popupId, win, signing,
                 current, dappVars>>

-----------------------------------------------------------------------------
(* The settings page forgets one account of a dapp, or all; the pages are   *)
(* told half a second later.  A second click waits for no one: two removals *)
(* then share what is left of the time.                                     *)
ForgetQuietly == UNCHANGED leaving
ForgetLater == leaving' = TRUE

RemoveAccountsConnection(o, gone) ==
  /\ connected[o] # {}
  /\ gone = Accts \/ \E a \in Accts : gone = {a}
  /\ connected' = [connected EXCEPT ![o] = @ \ gone]
  /\ ForgetLater
  /\ UNCHANGED <<call, reply, approvals, winVars, current, told>>

(* onAccountsChanged: the half second is over, a page of the wallet saw the *)
(* account, the chain, the home page or the lock change, or a dapp asked    *)
(* for its accounts.                                                        *)
OnAccountsChanged ==
  /\ Notify(connected)
  /\ leaving' = FALSE
  /\ UNCHANGED <<call, reply, approvals, winVars, current, connected>>

(* The user selects an account, changes the home page, or unlocks the       *)
(* wallet in another window.                                                *)
SetCurrentAccount ==
  /\ current' \in (Accts \cup {Nobody}) \ {current}
  /\ UNCHANGED <<call, reply, approvals, winVars, dappVars>>

Background(r) ==
  \/ RequestAccounts(r)
  \/ TriggerUi(r)
  \/ GetPopup(r)
  \/ UpdateTab(r)
  \/ OpenWindow(r)
  \/ UpdateWindowPosition(r)
  \/ OpenPopup(r)

Receive(w) == Resolve(w) \/ Reject(w) \/ EndOfStream(w)

ApNext ==
  \/ \E r \in Reqs : HandleDappMethods(r) \/ Background(r)
  \/ \E w \in Reqs : ConnectRemote(w) \/ Unlock(w) \/ CloseWindow(w) \/ Receive(w)
  \/ \E w \in Reqs, r \in Reqs : ApproveConnection(w, r) \/ ApproveTransaction(w, r)
  \/ \E o \in Dapps, gone \in SUBSET Accts : RemoveAccountsConnection(o, gone)
  \/ OnAccountsChanged
  \/ SetCurrentAccount
  \/ LockWallet

ApSpec == ApInit /\ [][ApNext]_apVars

(* The browser answers, ports deliver, timers fire.  Nobody has to click.   *)
ApFairness ==
  /\ \A r \in Reqs : WF_apVars(Background(r))
  /\ \A w \in Reqs : WF_apVars(Receive(w))
  /\ WF_apVars(leaving /\ OnAccountsChanged)

-----------------------------------------------------------------------------
(* Properties *)

(* At most one notification window is open, whatever calls race for it.     *)
OneWindow == \A v, w \in Reqs : Alive(v) /\ Alive(w) => v = w

(* What a dapp has heard by its promise.                                    *)
Reported(p) ==
  CASE p = "none" -> "none"
    [] p = "pending" -> "waiting"
    [] p = "resolved" -> "yes"
    [] p = "refused" -> "no"

ApAnswers == INSTANCE RequestAnswers WITH
  Requests <- Reqs,
  answer <- [r \in Reqs |-> Reported(reply[r])],
  served <- {r \in Reqs :
               \/ call[r].at = "waiting"
               \/ call[r].at = "reading" /\ AlreadyConnected(r)
               \/ \E w \in Reqs : \E i \in 1..Len(post[w]) :
                    post[w][i].what = "resolve" /\ post[w][i].key = r}

(* A dapp gets one answer, and a yes only from a page that showed its very  *)
(* request, or because it is connected to the current account already.      *)
ApprovalsImplementAnswers == ApAnswers!AskSpec

(* A window that is closed on the page of an approval settles it: the dapp  *)
(* does not wait for ever for an answer that the user can no longer give.   *)
(* (useBeforeUnload; it does wait if the window was closed on the unlock    *)
(* page, which refuses nothing.)                                            *)
ClosedIsSettled ==
  []<>(\A w, r \in Reqs : win[w].life = "closed" /\ win[w].shows = r => reply[r] # "pending")

(* One opening that fails does not keep all later ones from the screen, and *)
(* wallet_watchAsset waits for no window but one that is there.             *)
TriggerEnds ==
  /\ []<>~triggering
  /\ []<>(\A r \in Reqs : call[r].at = "waiting" => \E w \in Reqs : Alive(w))

(* A page that was told an account hears of it when the connection is       *)
(* removed.                                                                 *)
RemovedIsTold == []<>(\A o \in Dapps : told[o] \subseteq connected[o])
=============================================================================
