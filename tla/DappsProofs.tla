----------------------------- MODULE DappsProofs -----------------------------
(***************************************************************************)
(* What dapps wait for and what is shown for their accounts.               *)
(*                                                                         *)
(* Approvals: for any calls and accounts there is one notification window  *)
(* at a time, and one answer to a dapp, a yes only out of an approval; an  *)
(* answer carries the account the user approved with.                      *)
(* Messages: what is signed is in the list, typed data waits on its own    *)
(* chain only, and a dapp is answered once.                                *)
(* Solana: for any requests, sites and ids, a site is in connectedWallets  *)
(* only if the user connected it, and a dapp is answered once.             *)
(*                                                                         *)
(* Put side by side in MCDapps, with the tables of balances and the prices *)
(* of tokens, each keeps its types and its promise.                        *)
(***************************************************************************)
EXTENDS MCDapps, FiniteSetTheorems, SequenceTheorems, TLAPS

-----------------------------------------------------------------------------
(* Approvals and the notification window. *)

(* The stages between taking and clearing uiIsTriggering. *)
Seeking == {"finding", "updating", "opening", "placing"}

CallsTyped ==
  /\ call \in [Reqs -> [kind : CallKinds, at : Stages]]
  /\ triggering \in BOOLEAN
  /\ popupId \in Reqs \cup {NoReq}
  /\ win \in [Reqs -> [life : Lives, shows : Reqs \cup {NoReq}]]

(* One call at a time looks for the window. *)
OneSeeks ==
  /\ \A r \in Reqs : call[r].at \in Seeking => triggering
  /\ \A r, s \in Reqs : call[r].at \in Seeking /\ call[s].at \in Seeking => r = s

(* A window that is there is the one remembered, or the one being placed.  *)
WindowIsKnown ==
  /\ \A w \in Reqs : Alive(w) => popupId = w \/ call[w].at = "placing"
  /\ \A r \in Reqs :
       /\ call[r].at = "opening" => \A w \in Reqs : ~Alive(w)
       /\ call[r].at = "placing" => \A w \in Reqs : Alive(w) => w = r

WinInv == CallsTyped /\ OneSeeks /\ WindowIsKnown

LEMMA WinInitInv == ApInit => WinInv
<1> SUFFICES ASSUME ApInit PROVE WinInv
  OBVIOUS
<1>1. [kind : CallKinds, at : {"unborn"}] \subseteq [kind : CallKinds, at : Stages]
  BY DEF Stages
<1>2. CallsTyped
  BY <1>1 DEF ApInit, CallsTyped, Lives
<1>3. \A r \in Reqs : call[r].at = "unborn" /\ ~Alive(r)
  BY DEF ApInit, Alive
<1> QED BY <1>2, <1>3 DEF WinInv, OneSeeks, WindowIsKnown, Seeking

(* A step that brings no window to life and leaves no call seeking.        *)
LEMMA NothingOpens ==
  ASSUME WinInv, CallsTyped', UNCHANGED <<triggering, popupId>>,
         \A r \in Reqs : \/ call'[r].at = call[r].at
                         \/ call[r].at \notin Seeking /\ call'[r].at \notin Seeking,
         \A w \in Reqs : Alive(w)' => Alive(w)
  PROVE  WinInv'
<1>1. OneSeeks'
  BY DEF WinInv, OneSeeks, Seeking
<1>2. WindowIsKnown'
  BY DEF WinInv, WindowIsKnown, Seeking
<1> QED BY <1>1, <1>2 DEF WinInv

LEMMA TriggerUiInv ==
  ASSUME WinInv, NEW r \in Reqs, TriggerUi(r) PROVE WinInv'
<1> USE DEF WinInv, CallsTyped
<1>1. call[r].at = "tabs" /\ UNCHANGED <<popupId, win>>
  BY DEF TriggerUi
<1>2. CASE ~triggering /\ triggering' = TRUE /\ Moves(r, "finding")
  <2>1. CallsTyped'
    BY <1>1, <1>2 DEF Moves, Stages
  <2>2. OneSeeks'
    BY <1>2 DEF OneSeeks, Moves, Seeking
  <2>3. WindowIsKnown'
    BY <1>1, <1>2 DEF WindowIsKnown, Moves, Alive
  <2> QED BY <2>1, <2>2, <2>3
<1>3. CASE AfterTrigger(r) /\ UNCHANGED triggering
  <2>1. CallsTyped'
    BY <1>1, <1>3 DEF AfterTrigger, Moves, Stages
  <2>2. \A s \in Reqs : \/ call'[s].at = call[s].at
                        \/ call[s].at \notin Seeking /\ call'[s].at \notin Seeking
    BY <1>1, <1>3 DEF AfterTrigger, Moves, Seeking
  <2> QED BY <1>1, <1>3, <2>1, <2>2, NothingOpens DEF Alive
<1> QED BY <1>2, <1>3 DEF TriggerUi

LEMMA GetPopupInv ==
  ASSUME WinInv, NEW r \in Reqs, GetPopup(r) PROVE WinInv'
<1> USE DEF WinInv, CallsTyped
<1>1. call[r].at = "finding" /\ UNCHANGED <<triggering, popupId, win>>
  BY DEF GetPopup, winVars
<1>2. CallsTyped'
  BY <1>1 DEF GetPopup, Moves, Stages
<1>3. OneSeeks'
  BY <1>1 DEF GetPopup, OneSeeks, Moves, Seeking
<1>4. \A s \in Reqs : call[s].at # "placing"
  BY <1>1 DEF OneSeeks, Seeking
<1>5. WindowIsKnown'
  <2>1. CASE popupId # NoReq /\ Alive(popupId)
    BY <1>1, <1>4, <2>1 DEF GetPopup, WindowIsKnown, Moves, Alive
  <2>2. CASE ~(popupId # NoReq /\ Alive(popupId))
    <3>1. \A w \in Reqs : ~Alive(w)
      BY <1>4, <2>2, ReqsAssumption DEF WindowIsKnown
    <3> QED BY <1>1, <1>4, <2>2, <3>1 DEF GetPopup, WindowIsKnown, Moves, Alive
  <2> QED BY <2>1, <2>2
<1> QED BY <1>2, <1>3, <1>5

(* A window that shows another page is there as before.                    *)
LEMMA UpdatingKeeps ==
  ASSUME win \in [Reqs -> [life : Lives, shows : Reqs \cup {NoReq}]],
         NEW r \in Reqs, UpdateTab(r)
  PROVE  /\ win' \in [Reqs -> [life : Lives, shows : Reqs \cup {NoReq}]]
         /\ \A w \in Reqs : /\ Alive(w)' <=> Alive(w)
                           /\ win'[w].shows \in {win[w].shows, r, NoReq}
<1> DEFINE new == [life |-> Uncovered(win[popupId].life), shows |-> Page(r)]
<1>1. CASE UNCHANGED win
  BY <1>1 DEF Alive
<1>2. CASE Alive(popupId) /\ win' = [win EXCEPT ![popupId] = new]
  <2>1. Page(r) \in {r, NoReq}
    BY DEF Page
  <2>2. CASE popupId \in Reqs
    <3>1. /\ Uncovered(win[popupId].life) \in {"open", "loaded", "covered"}
          /\ win[popupId].life \in {"open", "loaded", "covered"}
      BY <1>2 DEF Uncovered, Alive
    <3>2. new \in [life : Lives, shows : Reqs \cup {NoReq}]
      BY <2>1, <3>1 DEF Lives
    <3> HIDE DEF new
    <3>3. \A w \in Reqs : win'[w] = IF w = popupId THEN new ELSE win[w]
      BY <1>2
    <3>4. new.life \in {"open", "loaded", "covered"} /\ new.shows \in {r, NoReq}
      BY <2>1, <3>1 DEF new
    <3>5. win' \in [Reqs -> [life : Lives, shows : Reqs \cup {NoReq}]]
      BY <1>2, <3>2
    <3> QED BY <3>1, <3>3, <3>4, <3>5 DEF Alive
  <2>3. CASE popupId \notin Reqs
    <3>1. win' = win
      BY <1>2, <2>3
    <3> QED BY <3>1 DEF Alive
  <2> QED BY <2>2, <2>3
<1> QED BY <1>1, <1>2 DEF UpdateTab

LEMMA UpdateTabInv ==
  ASSUME WinInv, NEW r \in Reqs, UpdateTab(r) PROVE WinInv'
<1> USE DEF WinInv, CallsTyped
<1>1. /\ call[r].at = "updating" /\ triggering' = FALSE /\ UNCHANGED popupId
      /\ \E stage \in {"waiting", "done"} : Moves(r, stage)
  BY DEF UpdateTab, AfterTrigger, Failed
<1>2. /\ win' \in [Reqs -> [life : Lives, shows : Reqs \cup {NoReq}]]
      /\ \A w \in Reqs : Alive(w)' <=> Alive(w)
  BY UpdatingKeeps
<1>3. CallsTyped'
  BY <1>1, <1>2 DEF Moves, Stages
<1>4. OneSeeks'
  BY <1>1 DEF OneSeeks, Moves, Seeking
<1>5. WindowIsKnown'
  BY <1>1, <1>2 DEF WindowIsKnown, Moves
<1> QED BY <1>3, <1>4, <1>5

LEMMA OpenWindowInv ==
  ASSUME WinInv, NEW r \in Reqs, OpenWindow(r) PROVE WinInv'
<1> USE DEF WinInv, CallsTyped
<1>1. call[r].at = "opening" /\ UNCHANGED popupId
  BY DEF OpenWindow
<1>2. CASE /\ win' = [win EXCEPT ![r] = [life |-> "open", shows |-> Page(r)]]
           /\ call' = [call EXCEPT ![r].at = "placing"] /\ UNCHANGED triggering
  <2>1. CallsTyped'
    BY <1>1, <1>2 DEF Stages, Lives, Page
  <2>2. OneSeeks'
    BY <1>1, <1>2 DEF OneSeeks, Seeking
  <2>3. \A w \in Reqs : Alive(w)' => w = r
    BY <1>1, <1>2 DEF WindowIsKnown, Alive
  <2>4. \A s \in Reqs : call'[s].at \in {"opening", "placing"} => s = r
    BY <1>1, <1>2 DEF OneSeeks, Seeking
  <2>5. WindowIsKnown'
    BY <1>1, <1>2, <2>3, <2>4 DEF WindowIsKnown
  <2> QED BY <2>1, <2>2, <2>5
<1>3. CASE Failed(r) /\ UNCHANGED win
  <2>1. CallsTyped'
    BY <1>1, <1>3 DEF Failed, Moves, Stages
  <2>2. OneSeeks' /\ \A s \in Reqs : call'[s].at \notin Seeking
    BY <1>1, <1>3 DEF OneSeeks, Failed, Moves, Seeking
  <2>3. WindowIsKnown'
    BY <1>1, <1>3, <2>2 DEF WindowIsKnown, Alive, Seeking
  <2> QED BY <2>1, <2>2, <2>3
<1> QED BY <1>2, <1>3 DEF OpenWindow, Moves

LEMMA UpdateWindowPositionInv ==
  ASSUME WinInv, NEW r \in Reqs, UpdateWindowPosition(r) PROVE WinInv'
<1> USE DEF WinInv, CallsTyped
<1>1. /\ call[r].at = "placing" /\ triggering' = FALSE /\ UNCHANGED win
      /\ \E stage \in {"waiting", "done"} : Moves(r, stage)
      /\ popupId' \in {popupId, r}
      /\ popupId' # r => ~Alive(r)
  BY DEF UpdateWindowPosition, AfterTrigger, Failed
<1>2. CallsTyped'
  BY <1>1 DEF Moves, Stages
<1>3. OneSeeks' /\ \A s \in Reqs : call'[s].at \notin Seeking
  BY <1>1 DEF OneSeeks, Moves, Seeking
<1>4. \A w \in Reqs : Alive(w) => w = r
  BY <1>1 DEF WindowIsKnown
<1>5. WindowIsKnown'
  BY <1>1, <1>3, <1>4 DEF WindowIsKnown, Alive, Seeking
<1> QED BY <1>2, <1>3, <1>5

(* Dapps, pages and the user leave the windows as they are, or close one. *)
LEMMA OthersInv ==
  ASSUME WinInv,
         \/ \E r \in Reqs : HandleDappMethods(r) \/ RequestAccounts(r) \/ OpenPopup(r)
         \/ \E w \in Reqs : ConnectRemote(w) \/ Unlock(w) \/ CloseWindow(w) \/ Receive(w)
         \/ \E w, r \in Reqs : ApproveConnection(w, r) \/ ApproveTransaction(w, r)
         \/ \E o \in Dapps, gone \in SUBSET Accts : RemoveAccountsConnection(o, gone)
         \/ OnAccountsChanged \/ SetCurrentAccount \/ LockWallet
  PROVE  WinInv'
<1> USE DEF WinInv, CallsTyped
<1>1. ASSUME NEW r \in Reqs, NEW stage \in Stages, Moves(r, stage),
             call[r].at \notin Seeking, stage \notin Seeking,
             UNCHANGED <<triggering, popupId, win>>
      PROVE  WinInv'
  BY <1>1, NothingOpens DEF Moves, Alive
<1>2. ASSUME NEW w \in Reqs, NEW life \in Lives, Alive(w),
             win' = [win EXCEPT ![w].life = life], UNCHANGED <<call, triggering, popupId>>
      PROVE  WinInv'
  BY <1>2, NothingOpens DEF Alive
<1>3. ASSUME UNCHANGED <<call, triggering, popupId, win>> PROVE WinInv'
  BY <1>3, NothingOpens DEF Alive
<1>4. ASSUME NEW r \in Reqs, HandleDappMethods(r) \/ RequestAccounts(r) \/ OpenPopup(r)
      PROVE  WinInv'
  BY <1>1, <1>4 DEF HandleDappMethods, RequestAccounts, OpenPopup, winVars, Seeking, Stages
<1>5. ASSUME NEW w \in Reqs, ConnectRemote(w) \/ Unlock(w) \/ CloseWindow(w) PROVE WinInv'
  BY <1>2, <1>5 DEF ConnectRemote, Mounted, Unlock, CloseWindow, Alive, Lives
<1>6. ASSUME NEW w \in Reqs, Receive(w) PROVE WinInv'
  BY <1>3, <1>6 DEF Receive, Resolve, Reject, EndOfStream
<1>7. ASSUME NEW w \in Reqs, NEW r \in Reqs, ApproveConnection(w, r) \/ ApproveTransaction(w, r)
      PROVE  WinInv'
  BY <1>3, <1>7 DEF ApproveConnection, ApproveTransaction
<1>8. ASSUME \/ \E o \in Dapps, gone \in SUBSET Accts : RemoveAccountsConnection(o, gone)
             \/ OnAccountsChanged \/ SetCurrentAccount
      PROVE  WinInv'
  BY <1>3, <1>8 DEF RemoveAccountsConnection, OnAccountsChanged, SetCurrentAccount, winVars
<1>9. CASE LockWallet
  <2>1. CallsTyped'
    BY <1>9 DEF LockWallet, Lives
  <2>2. \A w \in Reqs : Alive(w)' => Alive(w)
    BY <1>9 DEF LockWallet, Alive
  <2> QED BY <1>9, <2>1, <2>2, NothingOpens DEF LockWallet
<1> QED BY <1>4, <1>5, <1>6, <1>7, <1>8, <1>9

LEMMA ApNextWin == WinInv /\ [ApNext]_apVars => WinInv'
<1> SUFFICES ASSUME WinInv, [ApNext]_apVars PROVE WinInv'
  OBVIOUS
<1>1. CASE UNCHANGED apVars
  BY <1>1 DEF apVars, winVars, WinInv, CallsTyped, OneSeeks, WindowIsKnown, Alive
<1>2. ASSUME NEW r \in Reqs, Background(r) PROVE WinInv'
  BY <1>2, TriggerUiInv, GetPopupInv, UpdateTabInv, OpenWindowInv, UpdateWindowPositionInv,
     OthersInv DEF Background
<1> QED BY <1>1, <1>2, OthersInv DEF ApNext

(* Calls, pages, the user and the browser keep the invariant of windows.   *)
THEOREM WindowInvariant == ApSpec => []WinInv
BY WinInitInv, ApNextWin, PTL DEF ApSpec

(* However many calls race for a window, and if the browser refuses it or  *)
(* it is closed while it is shown, at most one is open (background.js triggerUi and                 *)
(* notification-manager.js showPopup).                                     *)
THEOREM OneWindowAtATime == ApSpec => []OneWindow
<1>1. WinInv => OneWindow
  BY DEF WinInv, CallsTyped, WindowIsKnown, OneWindow
<1> QED BY <1>1, WindowInvariant, PTL

-----------------------------------------------------------------------------
(* Answers *)

HandlersTyped ==
  /\ call \in [Reqs -> [kind : CallKinds, at : Stages]]
  /\ reply \in [Reqs -> {"none", "pending", "resolved", "refused"}]
  /\ approvals \subseteq Reqs

PagesTyped ==
  /\ popupId \in Reqs \cup {NoReq}
  /\ win \in [Reqs -> [life : Lives, shows : Reqs \cup {NoReq}]]
  /\ signing \in [Reqs -> SUBSET Reqs]
  /\ post \in [Reqs -> Seq(Mail)]
  /\ current \in Currents

(* What the promise of a call is by the stage of its handler. *)
PromiseFits ==
  \A r \in Reqs :
    /\ call[r].at = "unborn" <=> reply[r] = "none"
    /\ call[r].at = "reading" => reply[r] = "pending" /\ call[r].kind = "connect"
    /\ call[r].kind = "watch" /\ call[r].at \notin {"unborn", "done"} => reply[r] = "pending"
    /\ call[r].at = "waiting" => call[r].kind = "watch"

(* An approval that can be settled is that of a promise that waits. *)
ApprovalsWait ==
  \A r \in approvals :
    reply[r] = "pending" /\ call[r].kind # "watch" /\ call[r].at # "reading"

(* Pages show, sign and answer calls that were made. *)
Made(r) == reply[r] # "none"
PagesKnowCalls ==
  \A w \in Reqs :
    /\ win[w].shows # NoReq => Made(win[w].shows)
    /\ \A r \in signing[w] : Made(r)
    /\ \A i \in 1..Len(post[w]) : post[w][i].what = "resolve" => Made(post[w][i].key)

ApInv == HandlersTyped /\ PagesTyped /\ PromiseFits /\ ApprovalsWait /\ PagesKnowCalls

LEMMA ApInitInv == ApInit => ApInv
<1> SUFFICES ASSUME ApInit PROVE ApInv
  OBVIOUS
<1>1. [kind : CallKinds, at : {"unborn"}] \subseteq [kind : CallKinds, at : Stages]
  BY DEF Stages
<1>2. <<>> \in Seq(Mail)
  OBVIOUS
<1>3. HandlersTyped /\ PagesTyped
  BY <1>1, <1>2 DEF ApInit, HandlersTyped, PagesTyped, Lives
<1>4. PromiseFits /\ ApprovalsWait
  BY DEF ApInit, PromiseFits, ApprovalsWait
<1>5. PagesKnowCalls
  BY DEF ApInit, PagesKnowCalls
<1> QED BY <1>3, <1>4, <1>5 DEF ApInv

(* The promise of one call changes at most, and nothing that was made is   *)
(* unmade.                                                                 *)
LEMMA HandleDappMethodsInv ==
  ASSUME ApInv, NEW r \in Reqs, HandleDappMethods(r) PROVE ApInv'
<1> USE DEF ApInv
<1>1. /\ call[r].at = "unborn" /\ reply[r] = "none"
      /\ reply' = [reply EXCEPT ![r] = "pending"]
      /\ UNCHANGED <<triggering, popupId, win, signing, post, notifOpen, current,
                     connected, leaving, told>>
  BY DEF HandleDappMethods, winVars, dappVars, PromiseFits
<1>2. \/ /\ call[r].kind = "connect" /\ call' = [call EXCEPT ![r].at = "reading"]
         /\ approvals' = approvals
      \/ /\ call[r].kind = "send" /\ call' = [call EXCEPT ![r].at = "tabs"]
         /\ approvals' = approvals \cup {r}
      \/ /\ call[r].kind = "watch" /\ call' = [call EXCEPT ![r].at = "tabs"]
         /\ approvals' = approvals
  BY DEF HandleDappMethods, Moves, SaveApproval
<1>3. HandlersTyped' /\ PagesTyped'
  <2>1. \E stage \in Stages : call' = [call EXCEPT ![r].at = stage]
    BY <1>2 DEF Stages
  <2>2. call' \in [Reqs -> [kind : CallKinds, at : Stages]]
    BY <2>1 DEF HandlersTyped
  <2>3. approvals' \subseteq Reqs
    BY <1>2 DEF HandlersTyped
  <2>4. reply' \in [Reqs -> {"none", "pending", "resolved", "refused"}]
    BY <1>1 DEF HandlersTyped
  <2> QED BY <1>1, <2>2, <2>3, <2>4 DEF HandlersTyped, PagesTyped
<1>4. PromiseFits'
  BY <1>1, <1>2 DEF PromiseFits, HandlersTyped
<1>5. r \notin approvals
  BY <1>1 DEF ApprovalsWait
<1>6. ApprovalsWait'
  BY <1>1, <1>2, <1>5 DEF ApprovalsWait, HandlersTyped
<1>7. PagesKnowCalls'
  BY <1>1 DEF PagesKnowCalls, Made, HandlersTyped
<1> QED BY <1>3, <1>4, <1>6, <1>7

LEMMA RequestAccountsInv ==
  ASSUME ApInv, NEW r \in Reqs, RequestAccounts(r) PROVE ApInv'
<1> USE DEF ApInv
<1>1. /\ call[r].at = "reading" /\ reply[r] = "pending" /\ call[r].kind = "connect"
      /\ r \notin approvals
      /\ UNCHANGED <<triggering, popupId, win, signing, post, notifOpen, current,
                     connected, leaving>>
  BY DEF RequestAccounts, winVars, dappVars, PromiseFits, ApprovalsWait
<1>3. \/ /\ reply' = [reply EXCEPT ![r] = "resolved"]
         /\ call' = [call EXCEPT ![r].at = "done"]
         /\ UNCHANGED approvals
      \/ /\ UNCHANGED reply
         /\ call' = [call EXCEPT ![r].at = "tabs"]
         /\ approvals' = approvals \cup {r}
  BY DEF RequestAccounts, Moves, SaveApproval
<1>4. HandlersTyped' /\ PagesTyped'
  <2>1. \E stage \in Stages : call' = [call EXCEPT ![r].at = stage]
    BY <1>3 DEF Stages
  <2>2. call' \in [Reqs -> [kind : CallKinds, at : Stages]]
    BY <2>1 DEF HandlersTyped
  <2>3. approvals' \subseteq Reqs
    BY <1>3 DEF HandlersTyped
  <2>4. reply' \in [Reqs -> {"none", "pending", "resolved", "refused"}]
    BY <1>3 DEF HandlersTyped
  <2> QED BY <1>1, <2>2, <2>3, <2>4 DEF HandlersTyped, PagesTyped
<1>5. PromiseFits' /\ ApprovalsWait'
  BY <1>1, <1>3 DEF PromiseFits, ApprovalsWait, HandlersTyped
<1>6. PagesKnowCalls'
  <2>1. CASE UNCHANGED reply
    BY <1>1, <2>1 DEF PagesKnowCalls, Made
  <2>2. CASE reply' = [reply EXCEPT ![r] = "resolved"]
    BY <1>1, <2>2 DEF PagesKnowCalls, Made, HandlersTyped
  <2> QED BY <1>3, <2>1, <2>2
<1> QED BY <1>4, <1>5, <1>6

LEMMA KeysAreCalls ==
  ASSUME PagesTyped, NEW w \in Reqs, NEW i \in 1..Len(post[w]), post[w][i].what = "resolve"
  PROVE  post[w][i].key \in Reqs
<1>1. post[w][i] \in Mail
  <2>1. post[w] \in Seq(Mail)
    BY DEF PagesTyped
  <2> QED BY <2>1, ElementOfSeq
<1> QED BY <1>1 DEF Mail

(* A handler moves on to a stage its kind may reach, its promise as it was, *)
(* or refused if it fails.                                                  *)
LEMMA MovingInv ==
  ASSUME ApInv, NEW r \in Reqs,
         call[r].at \notin {"unborn", "done"},
         NEW stage \in Stages \ {"unborn", "reading"},
         stage = "waiting" => call[r].kind = "watch",
         call' = [call EXCEPT ![r].at = stage],
         popupId' \in Reqs \cup {NoReq},
         win' \in [Reqs -> [life : Lives, shows : Reqs \cup {NoReq}]],
         \A w \in Reqs : win'[w].shows \in {win[w].shows, r, NoReq},
         \/ UNCHANGED reply
         \/ /\ call[r].kind = "watch" /\ stage = "done"
            /\ reply' = [reply EXCEPT ![r] = "refused"],
         UNCHANGED <<approvals, signing, post, current>>
  PROVE  ApInv'
<1> USE DEF ApInv
<1>1. HandlersTyped' /\ PagesTyped'
  <2>1. reply' \in [Reqs -> {"none", "pending", "resolved", "refused"}]
    <3>1. CASE UNCHANGED reply
      BY <3>1 DEF HandlersTyped
    <3>2. CASE reply' = [reply EXCEPT ![r] = "refused"]
      BY <3>2 DEF HandlersTyped
    <3> QED BY <3>1, <3>2
  <2>2. call' \in [Reqs -> [kind : CallKinds, at : Stages]]
    BY DEF HandlersTyped
  <2>3. PagesTyped'
    BY DEF PagesTyped
  <2> QED BY <2>1, <2>2, <2>3 DEF HandlersTyped
<1>2. reply[r] # "none"
  BY DEF PromiseFits
<1>3. PromiseFits' /\ ApprovalsWait'
  <2>1. \A s \in Reqs : /\ call'[s].kind = call[s].kind
                        /\ call'[s].at = IF s = r THEN stage ELSE call[s].at
    BY DEF HandlersTyped
  <2>2. CASE UNCHANGED reply
    <3>1. PromiseFits'
      BY <1>2, <2>1, <2>2 DEF PromiseFits
    <3>2. ApprovalsWait'
      BY <2>1, <2>2 DEF ApprovalsWait, HandlersTyped
    <3> QED BY <3>1, <3>2
  <2>3. CASE /\ call[r].kind = "watch" /\ stage = "done"
             /\ reply' = [reply EXCEPT ![r] = "refused"]
    <3>1. r \notin approvals
      BY <2>3 DEF ApprovalsWait
    <3>2. \A s \in Reqs : s # r => reply'[s] = reply[s]
      BY <2>3 DEF HandlersTyped
    <3>3. reply'[r] = "refused"
      BY <2>3 DEF HandlersTyped
    <3>4. PromiseFits'
      BY <1>2, <2>1, <2>3, <3>2, <3>3 DEF PromiseFits
    <3>5. ApprovalsWait'
      BY <2>1, <3>1, <3>2 DEF ApprovalsWait, HandlersTyped
    <3> QED BY <3>4, <3>5
  <2> QED BY <2>2, <2>3
<1>4. \A s \in Reqs : Made(s) => Made(s)'
  BY <1>2 DEF Made, HandlersTyped
<1>5. PagesKnowCalls'
  <2> SUFFICES ASSUME NEW w \in Reqs
               PROVE  /\ win'[w].shows # NoReq => Made(win[w].shows)'
                      /\ \A s \in signing[w] : Made(s)'
                      /\ \A i \in 1..Len(post[w]) :
                           post[w][i].what = "resolve" => Made(post[w][i].key)'
    BY DEF PagesKnowCalls, Made
  <2>1. Made(r)'
    BY <1>2, <1>4 DEF Made
  <2>2. win[w].shows \in Reqs \cup {NoReq} /\ signing[w] \subseteq Reqs
    BY DEF PagesTyped
  <2>3. \A i \in 1..Len(post[w]) :
          post[w][i].what = "resolve" => post[w][i].key \in Reqs /\ Made(post[w][i].key)
    BY KeysAreCalls DEF PagesKnowCalls
  <2> QED BY <1>4, <2>1, <2>2, <2>3 DEF PagesKnowCalls
<1> QED BY <1>1, <1>3, <1>5

(* Only the dapp of an asset to watch is told of a failure.                *)
LEMMA FailedMoves ==
  ASSUME NEW r \in Reqs, Failed(r)
  PROVE  /\ call' = [call EXCEPT ![r].at = "done"]
         /\ \/ UNCHANGED reply
            \/ call[r].kind = "watch" /\ reply' = [reply EXCEPT ![r] = "refused"]
BY DEF Failed, FailureTold, Moves

LEMMA AfterTriggerMoves ==
  ASSUME NEW r \in Reqs, AfterTrigger(r)
  PROVE  \E stage \in {"waiting", "done"} :
           /\ stage = "waiting" => call[r].kind = "watch"
           /\ call' = [call EXCEPT ![r].at = stage]
BY DEF AfterTrigger, Moves

LEMMA ShowingInv ==
  ASSUME ApInv, NEW r \in Reqs,
         TriggerUi(r) \/ GetPopup(r) \/ UpdateTab(r) \/ OpenWindow(r)
           \/ UpdateWindowPosition(r)
  PROVE  ApInv'
<1> USE DEF ApInv, HandlersTyped, PagesTyped
<1>1. CASE TriggerUi(r)
  BY <1>1, AfterTriggerMoves, MovingInv DEF TriggerUi, Moves, Stages
<1>2. CASE GetPopup(r)
  BY <1>2, MovingInv DEF GetPopup, Moves, Stages, winVars
<1> DEFINE Finishes == \E stage \in {"waiting", "done"} :
                    /\ stage = "waiting" => call[r].kind = "watch"
                    /\ call' = [call EXCEPT ![r].at = stage]
                    /\ \/ UNCHANGED reply
                       \/ /\ call[r].kind = "watch" /\ stage = "done"
                          /\ reply' = [reply EXCEPT ![r] = "refused"]
<1>3. CASE UpdateTab(r)
  <2>1. /\ call[r].at = "updating" /\ Finishes
        /\ UNCHANGED <<popupId, approvals, signing, post, current>>
    BY <1>3, AfterTriggerMoves, FailedMoves DEF UpdateTab
  <2>2. /\ win' \in [Reqs -> [life : Lives, shows : Reqs \cup {NoReq}]]
        /\ \A w \in Reqs : win'[w].shows \in {win[w].shows, r, NoReq}
    BY <1>3, UpdatingKeeps
  <2> QED BY <2>1, <2>2, MovingInv DEF Stages
<1>4. CASE OpenWindow(r)
  <2>1. CASE /\ win' = [win EXCEPT ![r] = [life |-> "open", shows |-> Page(r)]]
             /\ Moves(r, "placing") /\ UNCHANGED reply
    BY <1>4, <2>1, MovingInv DEF OpenWindow, Moves, Stages, Page, Lives
  <2>2. CASE Failed(r) /\ UNCHANGED win
    BY <1>4, <2>2, FailedMoves, MovingInv DEF OpenWindow, Stages
  <2> QED BY <1>4, <2>1, <2>2 DEF OpenWindow
<1>5. CASE UpdateWindowPosition(r)
  <2>1. /\ call[r].at = "placing" /\ Finishes
        /\ popupId' \in Reqs \cup {NoReq}
        /\ UNCHANGED <<win, approvals, signing, post, current>>
    BY <1>5, AfterTriggerMoves, FailedMoves DEF UpdateWindowPosition
  <2> QED BY <2>1, MovingInv DEF Stages
<1> QED BY <1>1, <1>2, <1>3, <1>4, <1>5

LEMMA OpenPopupInv ==
  ASSUME ApInv, NEW r \in Reqs, OpenPopup(r) PROVE ApInv'
<1> USE DEF ApInv
<1>1. /\ call[r].at = "waiting" /\ call[r].kind = "watch" /\ r \notin approvals
      /\ call' = [call EXCEPT ![r].at = "done"]
      /\ \E a \in {"resolved", "refused"} : reply' = [reply EXCEPT ![r] = a]
      /\ UNCHANGED <<approvals, triggering, popupId, win, signing, post, notifOpen, current,
                     connected, leaving, told>>
  BY DEF OpenPopup, Moves, winVars, dappVars, PromiseFits, ApprovalsWait
<1>2. HandlersTyped' /\ PagesTyped'
  BY <1>1 DEF HandlersTyped, PagesTyped, Stages
<1>3. PromiseFits' /\ ApprovalsWait'
  BY <1>1 DEF PromiseFits, ApprovalsWait, HandlersTyped
<1>4. PagesKnowCalls'
  BY <1>1 DEF PagesKnowCalls, Made, HandlersTyped
<1> QED BY <1>2, <1>3, <1>4

(* What a queue of messages lets the background page settle. *)
Settling(q) == {q[i].key : i \in {j \in 1..Len(q) : q[j].what = "resolve"}}

LEMMA AppendSettles ==
  ASSUME NEW q \in Seq(Mail), NEW r, NEW mail \in Mail, mail.what = "resolve" => mail.key = r
  PROVE  /\ Append(q, mail) \in Seq(Mail)
         /\ \A k \in Settling(Append(q, mail)) : k \in Settling(q) \/ (mail.what = "resolve" /\ k = r)
<1> DEFINE p == Append(q, mail)
<1>1. /\ p \in Seq(Mail) /\ Len(p) = Len(q) + 1 /\ p[Len(q) + 1] = mail
      /\ \A i \in 1..Len(q) : p[i] = q[i]
  BY AppendProperties
<1>2. Len(q) \in Nat
  BY LenProperties
<1> HIDE DEF p
<1>3. \A k \in Settling(p) : k \in Settling(q) \/ (mail.what = "resolve" /\ k = r)
  <2> SUFFICES ASSUME NEW i \in 1..Len(p), p[i].what = "resolve"
               PROVE  p[i].key \in Settling(q) \/ (mail.what = "resolve" /\ p[i].key = r)
    BY DEF Settling
  <2>1. CASE i \in 1..Len(q)
    BY <1>1, <2>1 DEF Settling
  <2>2. CASE i = Len(q) + 1
    BY <1>1, <2>2
  <2> QED BY <1>1, <1>2, <2>1, <2>2
<1> QED BY <1>1, <1>3 DEF p

LEMMA TailSettles ==
  ASSUME NEW q \in Seq(Mail), q # <<>>
  PROVE  /\ Tail(q) \in Seq(Mail) /\ Head(q) \in Mail
         /\ Settling(Tail(q)) \subseteq Settling(q)
         /\ Head(q).what = "resolve" => Head(q).key \in Settling(q)
<1>1. /\ Tail(q) \in Seq(Mail) /\ Head(q) \in Mail /\ Head(q) = q[1]
      /\ Len(q) \in Nat /\ Len(q) > 0
      /\ Len(Tail(q)) = Len(q) - 1
      /\ \A i \in 1..Len(Tail(q)) : Tail(q)[i] = q[i + 1]
  BY HeadTailProperties, LenProperties
<1>2. \A i \in 1..Len(Tail(q)) : i + 1 \in 1..Len(q)
  BY <1>1
<1>3. Settling(Tail(q)) \subseteq Settling(q)
  BY <1>1, <1>2 DEF Settling
<1>4. Head(q).what = "resolve" => Head(q).key \in Settling(q)
  BY <1>1 DEF Settling
<1> QED BY <1>1, <1>3, <1>4

(* PagesKnowCalls in terms of it. *)
LEMMA PostsOfMade ==
  PagesKnowCalls <=>
    \A w \in Reqs :
      /\ win[w].shows # NoReq => Made(win[w].shows)
      /\ \A r \in signing[w] : Made(r)
      /\ \A r \in Settling(post[w]) : Made(r)
BY DEF PagesKnowCalls, Settling

(* A step of a page, or of nobody: the promises stay as they are. *)
LEMMA PageInv ==
  ASSUME ApInv, UNCHANGED <<call, reply, approvals, popupId>>, current' \in Currents,
         win' \in [Reqs -> [life : Lives, shows : Reqs \cup {NoReq}]],
         signing' \in [Reqs -> SUBSET Reqs], post' \in [Reqs -> Seq(Mail)],
         \A w \in Reqs :
           /\ win'[w].shows = win[w].shows
           /\ \A r \in signing'[w] : Made(r)
           /\ \A r \in Settling(post'[w]) : Made(r)
  PROVE  ApInv'
<1> USE DEF ApInv
<1>1. HandlersTyped' /\ PagesTyped'
  BY DEF HandlersTyped, PagesTyped
<1>2. PromiseFits' /\ ApprovalsWait'
  BY DEF PromiseFits, ApprovalsWait
<1>3. PagesKnowCalls'
  BY PostsOfMade DEF PagesKnowCalls, Settling, Made
<1> QED BY <1>1, <1>2, <1>3

LEMMA MailIsMade == ASSUME ApInv PROVE \A w \in Reqs : \A r \in Settling(post[w]) : Made(r)
BY PostsOfMade DEF ApInv

(* What a page that knows a call posts keeps the mail as it should be. *)
LEMMA PostingKeepsMail ==
  ASSUME ApInv, NEW w \in Reqs, NEW mail \in Mail, mail.what = "resolve" => Made(mail.key),
         post' = [post EXCEPT ![w] = Append(post[w], mail)]
  PROVE  /\ post' \in [Reqs -> Seq(Mail)]
         /\ \A v \in Reqs : \A k \in Settling(post'[v]) : Made(k)
<1> USE DEF ApInv, PagesTyped
<1> DEFINE longer == Append(post[w], mail)
<1>1. /\ longer \in Seq(Mail)
      /\ \A k \in Settling(longer) :
           k \in Settling(post[w]) \/ (mail.what = "resolve" /\ k = mail.key)
  BY AppendSettles
<1> HIDE DEF longer
<1>2. post' = [post EXCEPT ![w] = longer]
  BY DEF longer
<1>3. \A k \in Settling(longer) : Made(k)
  BY <1>1, MailIsMade
<1>4. \A v \in Reqs : post'[v] = longer \/ post'[v] = post[v]
  BY <1>2
<1>5. post' \in [Reqs -> Seq(Mail)]
  BY <1>1, <1>2
<1> QED BY <1>3, <1>4, <1>5, MailIsMade

LEMMA ApproveConnectionInv ==
  ASSUME ApInv, NEW w \in Reqs, NEW r \in Reqs, ApproveConnection(w, r) PROVE ApInv'
<1> USE DEF ApInv, PagesTyped
<1> DEFINE mail == [what |-> "resolve", key |-> r, acct |-> current]
<1>1. /\ post' = [post EXCEPT ![w] = Append(post[w], mail)]
      /\ UNCHANGED <<call, reply, approvals, popupId, win, signing, current>>
  BY DEF ApproveConnection, Posts
<1>2. mail \in Mail /\ mail.key = r
  BY DEF Mail, Currents
<1>3. Made(r)
  BY ReqsAssumption DEF ApproveConnection, Shown, PagesKnowCalls
<1> HIDE DEF mail
<1>4. /\ post' \in [Reqs -> Seq(Mail)]
      /\ \A v \in Reqs : \A k \in Settling(post'[v]) : Made(k)
  BY <1>1, <1>2, <1>3, PostingKeepsMail
<1> QED BY <1>1, <1>4, PageInv DEF PagesKnowCalls

LEMMA ApproveTransactionInv ==
  ASSUME ApInv, NEW w \in Reqs, NEW r \in Reqs, ApproveTransaction(w, r) PROVE ApInv'
<1> USE DEF ApInv, PagesTyped
<1> DEFINE mail == [what |-> "resolve", key |-> r, acct |-> current]
<1>1. UNCHANGED <<call, reply, approvals, popupId, win, current>>
  BY DEF ApproveTransaction
<1>2. mail \in Mail /\ mail.key = r
  BY DEF Mail, Currents
<1>3. Made(r)
  BY ReqsAssumption DEF ApproveTransaction, Shown, PagesKnowCalls
<1>4. post' = [post EXCEPT ![w] = Append(post[w], mail)] \/ UNCHANGED post
  BY DEF ApproveTransaction, Posts
<1> HIDE DEF mail
<1>5. /\ post' \in [Reqs -> Seq(Mail)]
      /\ \A v \in Reqs : \A k \in Settling(post'[v]) : Made(k)
  <2>1. CASE UNCHANGED post
    BY <2>1, MailIsMade
  <2> QED BY <1>2, <1>3, <1>4, <2>1, PostingKeepsMail
<1>6. \E rest \in {signing[w] \cup {r}, signing[w] \ {r}} :
        signing' = [signing EXCEPT ![w] = rest]
  BY DEF ApproveTransaction
<1>7. /\ signing' \in [Reqs -> SUBSET Reqs]
      /\ \A v \in Reqs : \A k \in signing'[v] : k \in signing[v] \/ k = r
  BY <1>6
<1>8. \A v \in Reqs : \A k \in signing'[v] : Made(k)
  BY <1>3, <1>7 DEF PagesKnowCalls
<1> QED BY <1>1, <1>5, <1>7, <1>8, PageInv

(* A window that closes adds nothing to settle but refusals. *)
LEMMA ClosingKeepsMail ==
  ASSUME ApInv, NEW w \in Reqs
  PROVE  LET all == post[w] \o RefuseShown(w) \o <<[what |-> "end"]>>
             last == Append(post[w], [what |-> "end"])
         IN  /\ all \in Seq(Mail) /\ Settling(all) \subseteq Settling(post[w])
             /\ last \in Seq(Mail) /\ Settling(last) \subseteq Settling(post[w])
<1> USE DEF ApInv, PagesTyped
<1> DEFINE no == [what |-> "reject", key |-> win[w].shows, acct |-> Nobody]
           end == [what |-> "end"]
           q == post[w]
<1>1. q \in Seq(Mail) /\ end \in Mail /\ end.what # "resolve"
  BY DEF Mail, Currents
<1>2. win[w].shows # NoReq => no \in Mail /\ no.what # "resolve"
  BY DEF Mail, Currents
<1> HIDE DEF no, end, q
<1>3. ASSUME NEW s \in Seq(Mail), NEW mail \in Mail, mail.what # "resolve"
      PROVE  /\ Append(s, mail) \in Seq(Mail) /\ Settling(Append(s, mail)) \subseteq Settling(s)
             /\ s \o <<mail>> = Append(s, mail)
  BY <1>3, AppendSettles, AppendIsConcat
<1>4. q \o RefuseShown(w) = IF win[w].shows = NoReq THEN q ELSE Append(q, no)
  <2>1. CASE win[w].shows = NoReq
    BY <2>1, <1>1, ConcatEmptySeq DEF RefuseShown
  <2>2. CASE win[w].shows # NoReq
    BY <2>2, <1>1, <1>2, <1>3 DEF RefuseShown, no
  <2> QED BY <2>1, <2>2
<1> DEFINE s == q \o RefuseShown(w)
<1>5. s \in Seq(Mail) /\ Settling(s) \subseteq Settling(q)
  BY <1>1, <1>2, <1>3, <1>4
<1> HIDE DEF s
<1>6. s \o <<end>> \in Seq(Mail) /\ Settling(s \o <<end>>) \subseteq Settling(s)
  BY <1>1, <1>3, <1>5
<1>7. Append(q, end) \in Seq(Mail) /\ Settling(Append(q, end)) \subseteq Settling(q)
  BY <1>1, <1>3
<1> QED BY <1>5, <1>6, <1>7 DEF s, q, end

LEMMA CloseWindowInv ==
  ASSUME ApInv, NEW w \in Reqs, CloseWindow(w) PROVE ApInv'
<1> USE DEF ApInv, PagesTyped
<1>1. /\ UNCHANGED <<call, reply, approvals, popupId, current>>
      /\ signing' = [signing EXCEPT ![w] = {}]
      /\ \E life \in {"closed", "died"} : win' = [win EXCEPT ![w].life = life]
  BY DEF CloseWindow
<1>2. /\ win' \in [Reqs -> [life : Lives, shows : Reqs \cup {NoReq}]]
      /\ \A v \in Reqs : win'[v].shows = win[v].shows
  <2>1. PICK life \in {"closed", "died"} : win' = [win EXCEPT ![w].life = life]
    BY <1>1
  <2>2. life \in Lives
    BY DEF Lives
  <2> QED BY <2>1, <2>2
<1>3. /\ signing' \in [Reqs -> SUBSET Reqs]
      /\ \A v \in Reqs : \A k \in signing'[v] : Made(k)
  BY <1>1 DEF PagesKnowCalls
<1> DEFINE all == post[w] \o RefuseShown(w) \o <<[what |-> "end"]>>
           last == Append(post[w], [what |-> "end"])
<1>4. /\ all \in Seq(Mail) /\ Settling(all) \subseteq Settling(post[w])
      /\ last \in Seq(Mail) /\ Settling(last) \subseteq Settling(post[w])
  BY ClosingKeepsMail
<1>5. UNCHANGED post \/ \E q \in {all, last} : post' = [post EXCEPT ![w] = q]
  BY DEF CloseWindow
<1> HIDE DEF all, last
<1>6. post' \in [Reqs -> Seq(Mail)]
  BY <1>4, <1>5
<1>7. \A v \in Reqs : (post'[v] \in {all, last} /\ v = w) \/ post'[v] = post[v]
  BY <1>5
<1>8. \A v \in Reqs : \A k \in Settling(post'[v]) : Made(k)
  BY <1>4, <1>7, MailIsMade
<1> QED BY <1>1, <1>2, <1>3, <1>6, <1>8, PageInv

(* The background page takes a message and may settle the approval it      *)
(* names.                                                                  *)
LEMMA SettlingInv ==
  ASSUME ApInv, NEW w \in Reqs, post[w] # <<>>, Taken(w), NEW r,
         NEW said \in {"resolved", "refused"},
         \/ UNCHANGED <<approvals, reply>>
         \/ /\ approvals' = approvals \ {r}
            /\ reply' = IF r \in approvals THEN [reply EXCEPT ![r] = said] ELSE reply,
         UNCHANGED <<call, popupId, win, signing, current>>
  PROVE  ApInv'
<1> USE DEF ApInv
<1>1. /\ Tail(post[w]) \in Seq(Mail)
      /\ Settling(Tail(post[w])) \subseteq Settling(post[w])
  BY TailSettles DEF PagesTyped
<1>2. post' = [post EXCEPT ![w] = Tail(post[w])]
  BY DEF Taken
<1>3. PagesTyped'
  BY <1>1, <1>2 DEF PagesTyped
<1>4. r \in approvals => /\ r \in Reqs /\ reply[r] = "pending" /\ call[r].kind # "watch"
                         /\ call[r].at \notin {"unborn", "reading", "waiting"}
  BY DEF HandlersTyped, ApprovalsWait, PromiseFits
<1>5. HandlersTyped'
  BY <1>4 DEF HandlersTyped
<1>6. PromiseFits' /\ ApprovalsWait'
  BY <1>4 DEF HandlersTyped, PromiseFits, ApprovalsWait
<1>7. \A v \in Reqs : Settling(post'[v]) \subseteq Settling(post[v])
  BY <1>1, <1>2 DEF PagesTyped
<1>8. \A k \in Reqs : Made(k) => Made(k)'
  <2>1. CASE r \in approvals
    BY <1>4, <2>1 DEF HandlersTyped, Made
  <2>2. CASE r \notin approvals
    BY <2>2 DEF Made
  <2> QED BY <2>1, <2>2
<1>9. \A v \in Reqs : /\ win[v].shows # NoReq => Made(win[v].shows)'
                      /\ \A k \in signing[v] : Made(k)'
                      /\ \A k \in Settling(post'[v]) : Made(k)'
  <2> SUFFICES ASSUME NEW v \in Reqs
               PROVE  /\ win[v].shows # NoReq => Made(win[v].shows)'
                      /\ \A k \in signing[v] : Made(k)'
                      /\ \A k \in Settling(post'[v]) : Made(k)'
    OBVIOUS
  <2>1. /\ win[v].shows # NoReq => win[v].shows \in Reqs
        /\ signing[v] \subseteq Reqs
        /\ post[v] \in Seq(Mail)
    BY DEF PagesTyped
  <2>2. Settling(post[v]) \subseteq Reqs
    <3>1. \A i \in 1..Len(post[v]) : post[v][i] \in Mail
      BY <2>1, ElementOfSeq
    <3> QED BY <3>1 DEF Settling, Mail
  <2> QED BY <1>7, <1>8, <2>1, <2>2, MailIsMade DEF PagesKnowCalls
<1>10. PagesKnowCalls'
  BY <1>9, PostsOfMade DEF PagesKnowCalls, Settling
<1> QED BY <1>3, <1>5, <1>6, <1>10

LEMMA ReceiveInv ==
  ASSUME ApInv, NEW w \in Reqs, Receive(w) PROVE ApInv'
<1> USE DEF ApInv
<1>1. /\ post[w] # <<>> /\ Taken(w)
      /\ UNCHANGED <<call, popupId, win, signing, current>>
  BY DEF Receive, Resolve, Reject, EndOfStream, NextMail
<1> DEFINE r == Head(post[w]).key
<1>2. CASE Resolve(w)
  <2>1. /\ approvals' = approvals \ {r}
        /\ reply' = IF r \in approvals THEN [reply EXCEPT ![r] = "resolved"] ELSE reply
    BY <1>2 DEF Resolve, RemoveApproval
  <2> QED BY <1>1, <2>1, SettlingInv
<1>3. CASE Reject(w)
  <2>1. /\ approvals' = approvals \ {r}
        /\ reply' = IF r \in approvals THEN [reply EXCEPT ![r] = "refused"] ELSE reply
    BY <1>3 DEF Reject, RemoveApproval
  <2> QED BY <1>1, <2>1, SettlingInv
<1>4. CASE EndOfStream(w)
  BY <1>1, <1>4, SettlingInv DEF EndOfStream
<1> QED BY <1>2, <1>3, <1>4 DEF Receive

LEMMA PagesOnlyInv ==
  ASSUME ApInv,
         \/ \E w \in Reqs : ConnectRemote(w) \/ Unlock(w)
         \/ \E o \in Dapps, gone \in SUBSET Accts : RemoveAccountsConnection(o, gone)
         \/ OnAccountsChanged \/ SetCurrentAccount \/ LockWallet
  PROVE  ApInv'
<1> USE DEF ApInv, PagesTyped
<1>1. UNCHANGED <<call, reply, approvals, popupId, signing, post>>
  BY DEF ConnectRemote, Unlock, RemoveAccountsConnection, OnAccountsChanged,
     SetCurrentAccount, LockWallet, winVars, dappVars
<1>2. current' \in Currents
  BY DEF ConnectRemote, Unlock, RemoveAccountsConnection, OnAccountsChanged,
     SetCurrentAccount, LockWallet, Currents
<1>3. \/ UNCHANGED win
      \/ \E w \in Reqs, life \in Lives : win' = [win EXCEPT ![w].life = life]
      \/ LockWallet
  BY DEF ConnectRemote, Mounted, Unlock, RemoveAccountsConnection, OnAccountsChanged,
     SetCurrentAccount, winVars, Lives
<1>4. /\ win' \in [Reqs -> [life : Lives, shows : Reqs \cup {NoReq}]]
      /\ \A w \in Reqs : win'[w].shows = win[w].shows
  <2>1. CASE UNCHANGED win
    BY <2>1
  <2>2. ASSUME NEW w \in Reqs, NEW life \in Lives, win' = [win EXCEPT ![w].life = life]
        PROVE  /\ win' \in [Reqs -> [life : Lives, shows : Reqs \cup {NoReq}]]
               /\ \A v \in Reqs : win'[v].shows = win[v].shows
    BY <2>2
  <2>3. CASE LockWallet
    BY <2>3 DEF LockWallet, Lives
  <2> QED BY <1>3, <2>1, <2>2, <2>3
<1> QED BY <1>1, <1>2, <1>4, PageInv, MailIsMade DEF PagesKnowCalls

LEMMA ApNextInv == ApInv /\ [ApNext]_apVars => ApInv'
<1> SUFFICES ASSUME ApInv, [ApNext]_apVars PROVE ApInv'
  OBVIOUS
<1>1. CASE UNCHANGED apVars
  <2>1. UNCHANGED <<call, reply, approvals, popupId, win, signing, post, current>>
    BY <1>1 DEF apVars, winVars
  <2> QED BY <2>1 DEF ApInv, HandlersTyped, PagesTyped, PromiseFits, ApprovalsWait,
             PagesKnowCalls, Made
<1>2. ASSUME NEW r \in Reqs, HandleDappMethods(r) \/ Background(r) PROVE ApInv'
  BY <1>2, HandleDappMethodsInv, RequestAccountsInv, ShowingInv, OpenPopupInv DEF Background
<1>3. ASSUME NEW w \in Reqs, CloseWindow(w) \/ Receive(w) PROVE ApInv'
  BY <1>3, CloseWindowInv, ReceiveInv
<1>4. ASSUME NEW w \in Reqs, NEW r \in Reqs, ApproveConnection(w, r) \/ ApproveTransaction(w, r)
      PROVE  ApInv'
  BY <1>4, ApproveConnectionInv, ApproveTransactionInv
<1> QED BY <1>1, <1>2, <1>3, <1>4, PagesOnlyInv DEF ApNext

(* Handlers, pages and mail keep the invariant of the answers.             *)
THEOREM AnswerInvariant == ApSpec => []ApInv
BY ApInitInv, ApNextInv, PTL DEF ApSpec

-----------------------------------------------------------------------------
(* Types of the approvals. *)

(* The page answers cfx_requestAccounts only with an account selected       *)
(* (PageReady), so what Resolve saves as a connection is an account.        *)
Mails(q) == {q[i] : i \in 1..Len(q)}
AnswersCarry ==
  \A w \in Reqs : \A k \in Mails(post[w]) :
    k.what = "resolve" /\ call[k.key].kind = "connect" => k.acct \in Accts
TellsTyped ==
  /\ notifOpen \in BOOLEAN /\ leaving \in BOOLEAN
  /\ connected \in [Dapps -> SUBSET Accts]
  /\ told \in [Dapps -> SUBSET Accts]

CarryInv == AnswersCarry /\ TellsTyped

LEMMA MailsOf ==
  ASSUME NEW q \in Seq(Mail)
  PROVE  /\ Mails(q) \subseteq Mail
         /\ \A mail \in Mail : /\ Mails(Append(q, mail)) = Mails(q) \cup {mail}
                               /\ Append(q, mail) \in Seq(Mail)
         /\ q # <<>> => Mails(Tail(q)) \subseteq Mails(q) /\ Head(q) \in Mails(q)
<1>1. Mails(q) \subseteq Mail
  <2>1. \A i \in 1..Len(q) : q[i] \in Mail
    BY ElementOfSeq
  <2> QED BY <2>1 DEF Mails
<1>2. ASSUME NEW mail \in Mail
      PROVE  /\ Mails(Append(q, mail)) = Mails(q) \cup {mail}
             /\ Append(q, mail) \in Seq(Mail)
  <2> DEFINE p == Append(q, mail)
  <2>1. /\ p \in Seq(Mail) /\ Len(p) = Len(q) + 1 /\ p[Len(q) + 1] = mail
        /\ \A i \in 1..Len(q) : p[i] = q[i]
    BY AppendProperties
  <2>2. Len(q) \in Nat
    BY LenProperties
  <2> HIDE DEF p
  <2>3. 1..Len(p) = 1..Len(q) \cup {Len(q) + 1}
    BY <2>1, <2>2
  <2>4. Mails(p) = Mails(q) \cup {mail}
    BY <2>1, <2>3 DEF Mails
  <2> QED BY <2>1, <2>4 DEF p
<1>3. ASSUME q # <<>> PROVE Mails(Tail(q)) \subseteq Mails(q) /\ Head(q) \in Mails(q)
  <2>1. /\ Head(q) = q[1] /\ Len(q) \in Nat /\ Len(q) > 0
        /\ Len(Tail(q)) = Len(q) - 1
        /\ \A i \in 1..Len(Tail(q)) : Tail(q)[i] = q[i + 1]
    BY <1>3, HeadTailProperties, LenProperties
  <2>2. \A i \in 1..Len(Tail(q)) : i + 1 \in 1..Len(q)
    BY <2>1
  <2> QED BY <2>1, <2>2 DEF Mails
<1> QED BY <1>1, <1>2, <1>3

(* A window that closes posts a refusal at most, and the end.               *)
LEMMA ClosingPosts ==
  ASSUME ApInv, NEW w \in Reqs, CloseWindow(w)
  PROVE  \A v \in Reqs : \A k \in Mails(post'[v]) :
           k \in Mails(post[v]) \/ k.what \in {"reject", "end"}
<1> USE DEF ApInv, PagesTyped
<1> DEFINE no == [what |-> "reject", key |-> win[w].shows, acct |-> Nobody]
           end == [what |-> "end"]
           q == post[w]
           s == IF win[w].shows = NoReq THEN q ELSE Append(q, no)
           all == Append(s, end)
           last == Append(q, end)
<1>1. q \in Seq(Mail) /\ end \in Mail /\ end.what = "end"
  BY DEF Mail, Currents
<1>2. win[w].shows # NoReq => no \in Mail /\ no.what = "reject"
  BY DEF Mail, Currents
<1>3. \/ UNCHANGED post
      \/ post' = [post EXCEPT ![w] = q \o RefuseShown(w) \o <<end>>]
      \/ post' = [post EXCEPT ![w] = Append(q, end)]
  BY DEF CloseWindow
<1> HIDE DEF no, end, q
<1>4. /\ s \in Seq(Mail)
      /\ \A k \in Mails(s) : k \in Mails(q) \/ k.what \in {"reject", "end"}
  BY <1>1, <1>2, MailsOf
<1>5. q \o RefuseShown(w) = s
  <2>1. CASE win[w].shows = NoReq
    BY <2>1, <1>1, ConcatEmptySeq DEF RefuseShown
  <2>2. CASE win[w].shows # NoReq
    BY <2>2, <1>1, <1>2, AppendIsConcat DEF RefuseShown, no
  <2> QED BY <2>1, <2>2
<1> HIDE DEF s
<1>6. s \o <<end>> = all
  BY <1>1, <1>4, AppendIsConcat
<1>7. \A k \in Mails(all) \cup Mails(last) : k \in Mails(q) \/ k.what \in {"reject", "end"}
  BY <1>1, <1>4, MailsOf
<1>8. UNCHANGED post \/ \E p \in {all, last} : post' = [post EXCEPT ![w] = p]
  BY <1>3, <1>5, <1>6
<1> HIDE DEF all, last
<1>9. ASSUME NEW v \in Reqs
      PROVE  post'[v] = post[v] \/ (v = w /\ post'[v] \in {all, last})
  BY <1>8
<1> QED BY <1>7, <1>9 DEF q

(* A page posts the account that is selected.                               *)
LEMMA AnswerPosts ==
  ASSUME ApInv, NEW w \in Reqs, NEW r \in Reqs, Posts(w, r, "resolve")
  PROVE  \A v \in Reqs : \A k \in Mails(post'[v]) :
           k \in Mails(post[v]) \/ (k.key = r /\ k.acct = current)
<1> USE DEF ApInv, PagesTyped
<1> DEFINE mail == [what |-> "resolve", key |-> r, acct |-> current]
           longer == Append(post[w], mail)
<1>1. mail \in Mail /\ mail.key = r /\ mail.acct = current
  BY DEF Mail, Currents
<1>2. post' = [post EXCEPT ![w] = longer]
  BY DEF Posts
<1> HIDE DEF mail
<1>3. Mails(longer) = Mails(post[w]) \cup {mail}
  BY <1>1, MailsOf
<1> HIDE DEF longer
<1> SUFFICES ASSUME NEW v \in Reqs, NEW k \in Mails(post'[v])
             PROVE  k \in Mails(post[v]) \/ (k.key = r /\ k.acct = current)
  OBVIOUS
<1>4. CASE v = w
  <2>1. post'[v] = longer
    BY <1>2, <1>4
  <2>2. k \in Mails(post[w]) \/ k = mail
    BY <1>3, <2>1
  <2> QED BY <1>1, <1>4, <2>2
<1>5. CASE v # w
  <2>1. post'[v] = post[v]
    BY <1>2, <1>5
  <2> QED BY <2>1
<1> QED BY <1>4, <1>5

LEMMA TakingPosts ==
  ASSUME ApInv, NEW w \in Reqs, post[w] # <<>>, Taken(w)
  PROVE  \A v \in Reqs : Mails(post'[v]) \subseteq Mails(post[v])
<1> USE DEF ApInv, PagesTyped
<1> DEFINE rest == Tail(post[w])
<1>1. Mails(rest) \subseteq Mails(post[w])
  BY MailsOf
<1>2. post' = [post EXCEPT ![w] = rest]
  BY DEF Taken
<1> HIDE DEF rest
<1> SUFFICES ASSUME NEW v \in Reqs PROVE Mails(post'[v]) \subseteq Mails(post[v])
  OBVIOUS
<1>3. CASE v = w
  <2>1. post'[v] = rest
    BY <1>2, <1>3
  <2> QED BY <1>1, <1>3, <2>1
<1>4. CASE v # w
  <2>1. post'[v] = post[v]
    BY <1>2, <1>4
  <2> QED BY <2>1
<1> QED BY <1>3, <1>4

LEMMA CarryInitInv == ApInit => CarryInv
<1> SUFFICES ASSUME ApInit PROVE CarryInv
  OBVIOUS
<1>1. Mails(<<>>) = {}
  BY DEF Mails
<1>2. AnswersCarry
  BY <1>1 DEF ApInit, AnswersCarry
<1> QED BY <1>2 DEF ApInit, CarryInv, TellsTyped

(* No mail that carries something else comes to be.                         *)
LEMMA StillCarry ==
  ASSUME AnswersCarry, ApInv,
         \A r \in Reqs : call'[r].kind = call[r].kind,
         \A w \in Reqs : \A k \in Mails(post'[w]) :
           \/ k \in Mails(post[w])
           \/ k.what \in {"reject", "end"}
           \/ k.key \in Reqs /\ (call[k.key].kind = "connect" => k.acct \in Accts)
  PROVE  AnswersCarry'
<1>1. \A w \in Reqs : \A k \in Mails(post[w]) : k \in Mail
  BY MailsOf DEF ApInv, PagesTyped
<1>2. \A k \in Mail : k.what = "resolve" => k.key \in Reqs
  BY DEF Mail, Currents
<1> SUFFICES ASSUME NEW w \in Reqs, NEW k \in Mails(post'[w]),
                    k.what = "resolve", call'[k.key].kind = "connect"
             PROVE  k.acct \in Accts
  BY DEF AnswersCarry, Mails
<1>3. k.key \in Reqs
  BY <1>1, <1>2
<1> QED BY <1>3 DEF AnswersCarry

LEMMA KindsStay ==
  ASSUME ApInv, NEW r \in Reqs, NEW stage, Moves(r, stage)
  PROVE  \A s \in Reqs : call'[s].kind = call[s].kind
BY DEF Moves, ApInv, HandlersTyped

LEMMA NotifyTyped ==
  ASSUME ApInv, NEW conns \in [Dapps -> SUBSET Accts], Notify(conns)
  PROVE  told' \in [Dapps -> SUBSET Accts]
BY DEF Notify, Visible

LEMMA CarryBackground ==
  ASSUME ApInv, CarryInv, NEW r \in Reqs, HandleDappMethods(r) \/ Background(r)
  PROVE  CarryInv'
<1> USE DEF CarryInv
<1>1. UNCHANGED <<post, notifOpen, connected, leaving>>
  BY DEF HandleDappMethods, Background, RequestAccounts, TriggerUi, GetPopup, UpdateTab,
     OpenWindow, UpdateWindowPosition, OpenPopup, winVars, dappVars
<1>2. UNCHANGED told \/ Notify(connected)
  BY DEF HandleDappMethods, Background, RequestAccounts, TriggerUi, GetPopup, UpdateTab,
     OpenWindow, UpdateWindowPosition, OpenPopup, winVars, dappVars
<1>3. \E stage : Moves(r, stage)
  BY DEF HandleDappMethods, Background, RequestAccounts, TriggerUi, GetPopup, UpdateTab,
     OpenWindow, UpdateWindowPosition, OpenPopup, AfterTrigger, Failed
<1>4. AnswersCarry'
  BY <1>1, <1>3, KindsStay, StillCarry
<1>5. TellsTyped'
  BY <1>1, <1>2, NotifyTyped DEF TellsTyped
<1> QED BY <1>4, <1>5

LEMMA CarryReceive ==
  ASSUME ApInv, CarryInv, NEW w \in Reqs, Receive(w)
  PROVE  CarryInv'
<1> USE DEF CarryInv
<1>1. post[w] # <<>> /\ Taken(w) /\ UNCHANGED <<call, leaving, current>>
  BY DEF Receive, Resolve, Reject, EndOfStream, NextMail, dappVars
<1>2. AnswersCarry'
  BY <1>1, TakingPosts, StillCarry
<1>3. notifOpen' \in BOOLEAN
  BY DEF Receive, Resolve, Reject, EndOfStream, NotificationClosed, TellsTyped
<1> DEFINE mail == Head(post[w])
           new == [connected EXCEPT ![OriginOf[mail.key]] = @ \cup {mail.acct}]
<1>4. \/ UNCHANGED <<connected, told>>
      \/ /\ mail.what = "resolve" /\ call[mail.key].kind = "connect"
         /\ connected' = new /\ Notify(new)
  BY DEF Receive, Resolve, Reject, EndOfStream, dappVars, NextMail
<1>5. mail \in Mails(post[w]) /\ mail \in Mail
  BY <1>1, MailsOf DEF ApInv, PagesTyped
<1>6. ASSUME mail.what = "resolve", call[mail.key].kind = "connect"
      PROVE  new \in [Dapps -> SUBSET Accts]
  <2>1. mail.acct \in Accts
    BY <1>5, <1>6 DEF AnswersCarry
  <2> HIDE DEF mail
  <2> QED BY <2>1 DEF TellsTyped
<1> HIDE DEF new, mail
<1>7. connected' \in [Dapps -> SUBSET Accts] /\ told' \in [Dapps -> SUBSET Accts]
  BY <1>4, <1>6, NotifyTyped DEF TellsTyped
<1> QED BY <1>1, <1>2, <1>3, <1>7 DEF TellsTyped

LEMMA CarryNextInv == ApInv /\ CarryInv /\ [ApNext]_apVars => CarryInv'
<1> SUFFICES ASSUME ApInv, CarryInv, [ApNext]_apVars PROVE CarryInv'
  OBVIOUS
<1> USE DEF CarryInv
<1>1. CASE UNCHANGED apVars
  BY <1>1 DEF apVars, winVars, dappVars, AnswersCarry, Mails, TellsTyped
<1>2. ASSUME \/ \E w \in Reqs : ConnectRemote(w) \/ Unlock(w)
             \/ LockWallet
      PROVE  CarryInv'
  <2>1. UNCHANGED <<call, post, connected, leaving, told>> /\ notifOpen' \in BOOLEAN
    BY <1>2 DEF ConnectRemote, Unlock, LockWallet, TellsTyped, dappVars
  <2>2. AnswersCarry'
    BY <2>1, StillCarry
  <2> QED BY <2>1, <2>2 DEF TellsTyped
<1>3. ASSUME NEW w \in Reqs, CloseWindow(w) PROVE CarryInv'
  <2>1. UNCHANGED <<call, notifOpen, connected, leaving, told>>
    BY <1>3 DEF CloseWindow, dappVars
  <2>2. AnswersCarry'
    BY <1>3, <2>1, ClosingPosts, StillCarry
  <2> QED BY <2>1, <2>2 DEF TellsTyped
<1>4. ASSUME NEW w \in Reqs, NEW r \in Reqs,
             ApproveConnection(w, r) \/ ApproveTransaction(w, r)
      PROVE  CarryInv'
  <2>1. UNCHANGED <<call, notifOpen, connected, leaving, told>>
    BY <1>4 DEF ApproveConnection, ApproveTransaction, dappVars
  <2>2. \/ UNCHANGED post
        \/ /\ Posts(w, r, "resolve")
           /\ call[r].kind = "connect" => current \in Accts
    BY <1>4 DEF ApproveConnection, ApproveTransaction, PageReady, ApInv, PagesTyped
  <2>3. CASE UNCHANGED post
    BY <2>1, <2>3, StillCarry DEF TellsTyped
  <2>4. CASE Posts(w, r, "resolve") /\ (call[r].kind = "connect" => current \in Accts)
    <3>1. AnswersCarry'
      BY <2>1, <2>4, AnswerPosts, StillCarry
    <3> QED BY <2>1, <3>1 DEF TellsTyped
  <2> QED BY <2>2, <2>3, <2>4
<1>5. ASSUME NEW o \in Dapps, NEW gone \in SUBSET Accts, RemoveAccountsConnection(o, gone)
      PROVE  CarryInv'
  <2>1. UNCHANGED <<call, post, notifOpen, told>>
    BY <1>5 DEF RemoveAccountsConnection, winVars
  <2>2. connected' \in [Dapps -> SUBSET Accts] /\ leaving' = TRUE
    BY <1>5 DEF RemoveAccountsConnection, TellsTyped, ForgetLater
  <2>3. AnswersCarry'
    BY <2>1, StillCarry
  <2> QED BY <2>1, <2>2, <2>3 DEF TellsTyped
<1>6. CASE OnAccountsChanged
  <2>1. UNCHANGED <<call, post, notifOpen, connected>> /\ leaving' = FALSE /\ Notify(connected)
    BY <1>6 DEF OnAccountsChanged, winVars
  <2>2. AnswersCarry'
    BY <2>1, StillCarry
  <2> QED BY <2>1, <2>2, NotifyTyped DEF TellsTyped
<1>7. CASE SetCurrentAccount
  <2>1. UNCHANGED <<call, post, notifOpen, connected, leaving, told>>
    BY <1>7 DEF SetCurrentAccount, winVars, dappVars
  <2>2. AnswersCarry'
    BY <2>1, StillCarry
  <2> QED BY <2>1, <2>2 DEF TellsTyped
<1> QED BY <1>1, <1>2, <1>3, <1>4, <1>5, <1>6, <1>7, CarryBackground, CarryReceive DEF ApNext

LEMMA ApTypesOf == WinInv /\ ApInv /\ CarryInv => ApTypeOK
BY DEF WinInv, CallsTyped, ApInv, HandlersTyped, PagesTyped, CarryInv, TellsTyped, ApTypeOK

(* A dapp is connected to accounts only, and told of accounts only: never   *)
(* of what stands for an account while the wallet is locked or shows its    *)
(* old home page.                                                           *)
THEOREM ApTypeCorrect == ApSpec => []ApTypeOK
BY WindowInvariant, AnswerInvariant, CarryInitInv, CarryNextInv, ApTypesOf, PTL DEF ApSpec

-----------------------------------------------------------------------------
(* Every step of the approvals is a step of what a dapp may rely on. *)

LEMMA ServedWereMade ==
  ASSUME ApInv' PROVE ApAnswers!ServesAsked
<1>1. PromiseFits' /\ PagesKnowCalls' /\ HandlersTyped'
  BY DEF ApInv
<1>2. \A r \in Reqs :
        \/ call'[r].at \in {"waiting", "reading"}
        \/ \E w \in Reqs : \E i \in 1..Len(post'[w]) :
             post'[w][i].what = "resolve" /\ post'[w][i].key = r
        => reply'[r] # "none"
  BY <1>1 DEF PromiseFits, PagesKnowCalls, Made
<1>3. \A r \in Reqs : reply'[r] # "none" => Reported(reply'[r]) # "none"
  BY <1>1 DEF HandlersTyped, Reported
<1> QED BY <1>2, <1>3 DEF ApAnswers!ServesAsked

(* What becomes of the promise decides what becomes of the answer. *)
LEMMA PromisesFollow ==
  ASSUME ApInv, ApInv', NEW r \in Reqs,
         \/ UNCHANGED reply
         \/ reply[r] = "none" /\ reply' = [reply EXCEPT ![r] = "pending"]
         \/ reply[r] = "pending" /\ reply' = [reply EXCEPT ![r] = "refused"]
         \/ /\ reply[r] = "pending" /\ reply' = [reply EXCEPT ![r] = "resolved"]
            /\ \/ call[r].at = "waiting"
               \/ call[r].at = "reading" /\ AlreadyConnected(r)
               \/ \E w \in Reqs : \E i \in 1..Len(post[w]) :
                    post[w][i].what = "resolve" /\ post[w][i].key = r
  PROVE  ApAnswers!AskNext
<1> USE DEF ApInv, HandlersTyped
<1> DEFINE heard == [q \in Reqs |-> Reported(reply[q])]
<1>1. /\ Reported("none") = "none" /\ Reported("pending") = "waiting"
      /\ Reported("refused") = "no" /\ Reported("resolved") = "yes"
  BY DEF Reported
<1>2. heard[r] = Reported(reply[r])
  OBVIOUS
<1>3. /\ reply' = [reply EXCEPT ![r] = "pending"] => heard' = [heard EXCEPT ![r] = "waiting"]
      /\ reply' = [reply EXCEPT ![r] = "refused"] => heard' = [heard EXCEPT ![r] = "no"]
      /\ reply' = [reply EXCEPT ![r] = "resolved"] => heard' = [heard EXCEPT ![r] = "yes"]
  BY <1>1
<1> HIDE DEF heard
<1>4. CASE UNCHANGED reply
  BY <1>4, ServedWereMade DEF ApAnswers!AskNext
<1>5. CASE reply[r] = "none" /\ reply' = [reply EXCEPT ![r] = "pending"]
  <2>1. heard[r] = "none" /\ heard' = [heard EXCEPT ![r] = "waiting"]
    <3>1. heard[r] = "none"
      BY <1>1, <1>2, <1>5
    <3>2. heard' = [heard EXCEPT ![r] = "waiting"]
      BY <1>5, <1>3
    <3> QED BY <3>1, <3>2
  <2>2. ApAnswers!Ask(r)
    BY <2>1 DEF ApAnswers!Ask, heard
  <2> QED BY <2>2, ServedWereMade DEF ApAnswers!AskNext
<1>6. CASE reply[r] = "pending" /\ reply' = [reply EXCEPT ![r] = "refused"]
  <2>1. heard[r] = "waiting" /\ heard' = [heard EXCEPT ![r] = "no"]
    BY <1>1, <1>2, <1>6, <1>3
  <2>2. ApAnswers!Refuse(r)
    BY <2>1 DEF ApAnswers!Refuse, heard
  <2> QED BY <2>2, ServedWereMade DEF ApAnswers!AskNext
<1>7. CASE /\ reply[r] = "pending" /\ reply' = [reply EXCEPT ![r] = "resolved"]
           /\ \/ call[r].at = "waiting"
              \/ call[r].at = "reading" /\ AlreadyConnected(r)
              \/ \E w \in Reqs : \E i \in 1..Len(post[w]) :
                   post[w][i].what = "resolve" /\ post[w][i].key = r
  <2>1. heard[r] = "waiting" /\ heard' = [heard EXCEPT ![r] = "yes"]
    <3>1. heard[r] = "waiting"
      BY <1>1, <1>2, <1>7
    <3>2. heard' = [heard EXCEPT ![r] = "yes"]
      BY <1>7, <1>3
    <3> QED BY <3>1, <3>2
  <2>2. ApAnswers!Grant(r)
    BY <2>1, <1>7 DEF ApAnswers!Grant, heard
  <2> QED BY <2>2, ServedWereMade DEF ApAnswers!AskNext
<1> QED BY <1>4, <1>5, <1>6, <1>7

LEMMA CallStepAnswers ==
  ASSUME ApInv, ApInv', NEW r \in Reqs, HandleDappMethods(r) \/ Background(r)
  PROVE  ApAnswers!AskNext
<1> USE DEF ApInv
<1>1. CASE HandleDappMethods(r)
  BY <1>1, PromisesFollow DEF HandleDappMethods, PromiseFits
<1>2. CASE RequestAccounts(r)
  <2>1. call[r].at = "reading" /\ reply[r] = "pending"
    BY <1>2 DEF RequestAccounts, PromiseFits
  <2>2. UNCHANGED reply \/ (AlreadyConnected(r) /\ reply' = [reply EXCEPT ![r] = "resolved"])
    BY <1>2 DEF RequestAccounts
  <2> QED BY <2>1, <2>2, PromisesFollow
<1>3. CASE OpenPopup(r)
  BY <1>3, PromisesFollow DEF OpenPopup, PromiseFits
<1>4. CASE TriggerUi(r) \/ GetPopup(r) \/ UpdateTab(r) \/ OpenWindow(r)
             \/ UpdateWindowPosition(r)
  <2>1. \/ UNCHANGED reply
        \/ Failed(r) /\ call[r].at \in {"updating", "opening", "placing"}
    BY <1>4 DEF TriggerUi, GetPopup, UpdateTab, OpenWindow, UpdateWindowPosition
  <2>2. \/ UNCHANGED reply
        \/ reply[r] = "pending" /\ reply' = [reply EXCEPT ![r] = "refused"]
    BY <2>1, FailedMoves DEF PromiseFits
  <2> QED BY <2>2, PromisesFollow
<1> QED BY <1>1, <1>2, <1>3, <1>4 DEF Background

LEMMA ReceiveAnswers ==
  ASSUME ApInv, ApInv', NEW w \in Reqs, Receive(w) PROVE ApAnswers!AskNext
<1> USE DEF ApInv
<1> DEFINE r == Head(post[w]).key
<1>1. post[w] \in Seq(Mail) /\ post[w] # <<>>
  BY DEF PagesTyped, Receive, Resolve, Reject, EndOfStream, NextMail
<1>2. 1 \in 1..Len(post[w]) /\ Head(post[w]) = post[w][1]
  BY <1>1, HeadTailProperties, LenProperties
<1>3. r \in approvals => r \in Reqs /\ reply[r] = "pending"
  BY DEF HandlersTyped, ApprovalsWait
<1>4. CASE UNCHANGED reply
  BY <1>4, PromisesFollow
<1>5. CASE Resolve(w) /\ r \in approvals
  <2>1. Head(post[w]).what = "resolve" /\ reply' = [reply EXCEPT ![r] = "resolved"]
    BY <1>3, <1>5 DEF Resolve, NextMail, ApprovalsWait
  <2>2. \E v \in Reqs : \E i \in 1..Len(post[v]) :
          post[v][i].what = "resolve" /\ post[v][i].key = r
    BY <1>2, <2>1
  <2> HIDE DEF r
  <2> QED BY <1>3, <1>5, <2>1, <2>2, PromisesFollow
<1>6. CASE Reject(w) /\ r \in approvals
  <2>1. reply' = [reply EXCEPT ![r] = "refused"]
    BY <1>6 DEF Reject
  <2> HIDE DEF r
  <2> QED BY <1>3, <1>6, <2>1, PromisesFollow
<1>7. UNCHANGED reply \/ (r \in approvals /\ (Resolve(w) \/ Reject(w)))
  BY DEF Receive, Resolve, Reject, EndOfStream
<1> QED BY <1>4, <1>5, <1>6, <1>7

LEMMA ApStepAnswers ==
  ASSUME ApInv, ApInv', [ApNext]_apVars PROVE [ApAnswers!AskNext]_ApAnswers!asks
<1>1. CASE UNCHANGED apVars
  BY <1>1 DEF apVars, winVars, dappVars, ApAnswers!asks, AlreadyConnected, Visible
<1>2. ASSUME UNCHANGED reply PROVE ApAnswers!AskNext
  <2>1. UNCHANGED [r \in Reqs |-> Reported(reply[r])]
    BY <1>2
  <2> QED BY <2>1, ServedWereMade DEF ApAnswers!AskNext
<1>3. ASSUME \/ \E w \in Reqs : ConnectRemote(w) \/ Unlock(w) \/ CloseWindow(w)
             \/ \E w, r \in Reqs : ApproveConnection(w, r) \/ ApproveTransaction(w, r)
             \/ \E o \in Dapps, gone \in SUBSET Accts : RemoveAccountsConnection(o, gone)
             \/ OnAccountsChanged \/ SetCurrentAccount \/ LockWallet
      PROVE  UNCHANGED reply
  BY <1>3 DEF ConnectRemote, Unlock, CloseWindow, ApproveConnection, ApproveTransaction,
     RemoveAccountsConnection, OnAccountsChanged, SetCurrentAccount, LockWallet
<1> QED BY <1>1, <1>2, <1>3, CallStepAnswers, ReceiveAnswers DEF ApNext

(* A dapp of the new application gets one answer, and a yes only from a    *)
(* page that showed its request, the end of its window, or because it is   *)
(* connected already.                                                      *)
THEOREM ApprovalsAnswerOnce == ApSpec => ApprovalsImplementAnswers
<1>1. ApInit => ApAnswers!AskInit
  BY DEF ApInit, ApAnswers!AskInit, Reported
<1> QED BY <1>1, AnswerInvariant, ApStepAnswers, PTL
    DEF ApSpec, ApprovalsImplementAnswers, ApAnswers!AskSpec

-----------------------------------------------------------------------------
(* Messages to sign. *)

Decided == {"approved", "signed", "rejected", "errored"}

(* A message that ever was in the list has a promise, and one a window is  *)
(* signing was decided on, which no change of the network undoes.          *)
Promised == \A m \in MsgIds : msg[m].status # "unborn" => promise[m] # "none"
SigningDecided ==
  \A m \in MsgIds, w \in Windows : job[m][w] = "signing" => msg[m].status \in Decided
WaitsOnItsChain ==
  \A m \in MsgIds : msg[m].status = "unapproved" => ValidTypedData(msg[m].chain)

(* A rejection is heard at once, whatever goes on elsewhere. *)
RejectedHear ==
  \A m \in MsgIds : msg[m].status = "rejected" => promise[m] # "pending"

SigInv == MsgTypeOK /\ Promised /\ SigningDecided /\ WaitsOnItsChain /\ RejectedHear

AnswerIs(m, answer) == promise' = [promise EXCEPT ![m] = answer]

LEMMA SigInitInv == MsgInit => SigInv
BY NetworksAssumption, MsgBoundsAssumption
DEF MsgInit, SigInv, MsgTypeOK, Message, Kinds, MsgStatus, Promises, Jobs, Promised,
    SigningDecided, WaitsOnItsChain, RejectedHear

LEMMA RejectionEnds == \A kind \in Kinds : "rejected" \in Ends(kind)
BY DEF Kinds, Ends, EthSignEnds, PersonalSignEnds, TypedEnds, DecryptEnds, PublicKeyEnds

(* What becomes of a message is decided on once it is in the list. *)
LEMMA StatusIsSet ==
  ASSUME SigInv, NEW m \in MsgIds, NEW status \in Decided, SetMsgStatus(m, status)
  PROVE  /\ msg' \in [MsgIds -> Message]
         /\ promise' \in [MsgIds -> Promises]
         /\ \A n \in MsgIds : promise[n] # "none" => promise'[n] # "none"
         /\ \A n \in MsgIds : \/ msg'[n] = msg[n]
                              \/ msg'[n].status \in Decided /\ promise'[n] # "none"
         /\ InList(m) => msg'[m].status = status
         /\ RejectedHear'
<1> USE DEF SigInv, MsgTypeOK
<1>1. CASE ~InList(m)
  BY <1>1 DEF SetMsgStatus, RejectedHear
<1>2. CASE InList(m)
  <2> DEFINE settled == IF status = "signed" THEN "resolved" ELSE "refused"
             p == IF promise[m] = "pending" /\ status \in Ends(msg[m].kind)
                  THEN settled ELSE promise[m]
  <2>1. msg' = [msg EXCEPT ![m].status = status] /\ promise' = [promise EXCEPT ![m] = p]
    BY <1>2 DEF SetMsgStatus
  <2>2. p \in Promises /\ promise[m] # "none" /\ p # "none"
    BY <1>2 DEF Promised, InList, Promises
  <2>3. msg' \in [MsgIds -> Message] /\ promise' \in [MsgIds -> Promises]
    BY <2>1, <2>2 DEF Message, MsgStatus, Decided
  <2>4. msg[m].kind \in Kinds
    BY DEF Message
  <2>5. status = "rejected" => p # "pending"
    BY <2>4, RejectionEnds
  <2>6. RejectedHear'
    BY <2>1, <2>3, <2>5 DEF RejectedHear, Message
  <2> QED BY <2>1, <2>2, <2>3, <2>6 DEF Message
<1> QED BY <1>1, <1>2

LEMMA AskForMessageInv ==
  ASSUME SigInv, NEW m \in MsgIds, AskForMessage(m) PROVE SigInv'
<1> USE DEF SigInv, MsgTypeOK
<1>1. ASSUME NEW kind \in Kinds, NEW chain \in Networks \cup {NoNetwork},
             ValidTypedData(chain), msg[m].status = "unborn", AddUnapproved(m, kind, chain),
             UNCHANGED <<job, clicks, network, moves>>
      PROVE  SigInv'
  <2>1. MsgTypeOK'
    BY <1>1 DEF AddUnapproved, Message, MsgStatus, Promises
  <2>2. Promised'
    BY <1>1 DEF AddUnapproved, Promised
  <2>3. SigningDecided'
    BY <1>1 DEF AddUnapproved, SigningDecided, Decided
  <2>4. WaitsOnItsChain'
    BY <1>1 DEF AddUnapproved, WaitsOnItsChain, ValidTypedData
  <2>5. RejectedHear'
    BY <1>1 DEF AddUnapproved, RejectedHear
  <2> QED BY <2>1, <2>2, <2>3, <2>4, <2>5
<1>2. ASSUME AnswerIs(m, "refused"), UNCHANGED <<msg, job, clicks, network, moves>>
      PROVE  SigInv'
  BY <1>2 DEF AnswerIs, Promises, Promised, SigningDecided, WaitsOnItsChain, ValidTypedData,
     RejectedHear
<1>3. CASE NewUnsignedMessage(m) \/ NewUnsignedPersonalMessage(m) \/ NewRequestDecryptMessage(m)
  BY <1>1, <1>3 DEF NewUnsignedMessage, NewUnsignedPersonalMessage,
     NewRequestDecryptMessage, Asked, IsNew, Kinds, ValidTypedData
<1>4. ASSUME NEW chain \in Networks \cup {NoNetwork}, NewUnsignedTypedMessage(m, chain)
      PROVE  SigInv'
  BY <1>1, <1>2, <1>4 DEF NewUnsignedTypedMessage, Asked, IsNew, Kinds, AnswerIs
<1>5. CASE NewRequestEncryptionPublicKey(m)
  <2>1. CASE /\ IsNew(m)
             /\ msg' = [msg EXCEPT ![m].kind = "publicKey"]
             /\ promise' = [promise EXCEPT ![m] = "pending"]
             /\ UNCHANGED <<job, clicks, network, moves>>
    <3>1. MsgTypeOK'
      BY <2>1 DEF Message, Kinds, Promises
    <3> QED BY <3>1, <2>1 DEF IsNew, Promised, SigningDecided, Decided, WaitsOnItsChain,
               ValidTypedData, Message, RejectedHear
  <2>2. CASE /\ msg[m].kind = "publicKey" /\ msg[m].status = "unborn"
             /\ promise[m] = "pending"
             /\ \/ AddUnapproved(m, "publicKey", NoNetwork)
                \/ promise' = [promise EXCEPT ![m] = "refused"] /\ UNCHANGED msg
             /\ UNCHANGED <<job, clicks, network, moves>>
    BY <1>1, <1>2, <2>2 DEF Kinds, ValidTypedData, AnswerIs
  <2> QED BY <1>5, <2>1, <2>2 DEF NewRequestEncryptionPublicKey
<1> QED BY <1>3, <1>4, <1>5 DEF AskForMessage

LEMMA ClickMessageInv ==
  ASSUME SigInv, NEW m \in MsgIds, NEW w \in Windows,
         NEW what \in {"sign", "reject", "look"}, ClickMessage(m, w, what)
  PROVE  SigInv'
<1> USE DEF SigInv, MsgTypeOK
<1>1. MsgTypeOK'
  BY MsgBoundsAssumption DEF ClickMessage, Jobs
<1>2. SigningDecided'
  BY DEF ClickMessage, SigningDecided
<1> QED BY <1>1, <1>2 DEF ClickMessage, Promised, WaitsOnItsChain, ValidTypedData, RejectedHear

(* A handler that sets the status of a message it may go on signing. *)
LEMMA DecidingInv ==
  ASSUME SigInv, NEW m \in MsgIds, NEW w \in Windows, NEW status \in Decided,
         SetMsgStatus(m, status), NEW j \in Jobs, j = "signing" => InList(m),
         job' = [job EXCEPT ![m][w] = j], UNCHANGED <<clicks, network, moves>>
  PROVE  SigInv'
<1> USE DEF SigInv, MsgTypeOK
<1>1. /\ msg' \in [MsgIds -> Message]
      /\ promise' \in [MsgIds -> Promises]
      /\ \A n \in MsgIds : promise[n] # "none" => promise'[n] # "none"
      /\ \A n \in MsgIds : \/ msg'[n] = msg[n]
                           \/ msg'[n].status \in Decided /\ promise'[n] # "none"
      /\ InList(m) => msg'[m].status = status
      /\ RejectedHear'
  BY StatusIsSet
<1>2. MsgTypeOK'
  BY <1>1 DEF Jobs
<1>3. SigningDecided'
  BY <1>1 DEF SigningDecided
<1>4. Promised' /\ WaitsOnItsChain'
  BY <1>1 DEF Promised, WaitsOnItsChain, ValidTypedData, Decided
<1> QED BY <1>1, <1>2, <1>3, <1>4

(* A handler that changes nothing but what its window does. *)
LEMMA WaitingInv ==
  ASSUME SigInv, NEW m \in MsgIds, NEW w \in Windows, NEW j \in Jobs, j # "signing",
         job' = [job EXCEPT ![m][w] = j], UNCHANGED <<msg, promise, clicks, network, moves>>
  PROVE  SigInv'
<1> USE DEF SigInv, MsgTypeOK
<1>1. MsgTypeOK'
  BY DEF Jobs
<1>2. SigningDecided'
  BY DEF SigningDecided
<1> QED BY <1>1, <1>2 DEF Promised, WaitsOnItsChain, ValidTypedData, RejectedHear

LEMMA ServeSteps ==
  ASSUME NEW m, NEW w, Serve(m, w)
  PROVE  \/ Approve(m, w) \/ Signed(m, w) \/ Warned(m, w) \/ ErrorMessage(m, w)
         \/ CancelMessage(m, w) \/ StartLooking(m, w) \/ Looked(m, w)
BY DEF Serve, SignMessage, SignPersonalMessage, SignTypedMessage, DecryptMessage,
   EncryptionPublicKey, DecryptMessageInline

LEMMA ServeInv ==
  ASSUME SigInv, NEW m \in MsgIds, NEW w \in Windows, Serve(m, w) PROVE SigInv'
<1>1. CASE Approve(m, w)
  BY <1>1, DecidingInv DEF Approve, Decided, Jobs
<1>2. CASE Signed(m, w) \/ ErrorMessage(m, w) \/ CancelMessage(m, w)
  BY <1>2, DecidingInv DEF Signed, ErrorMessage, CancelMessage, Done, Decided, Jobs
<1>3. CASE Warned(m, w) \/ StartLooking(m, w) \/ Looked(m, w)
  BY <1>3, WaitingInv DEF Warned, StartLooking, Looked, UpdateMsg, Done, Jobs
<1> QED BY <1>1, <1>2, <1>3, ServeSteps

LEMMA NetworkWillChangeInv ==
  ASSUME SigInv, NEW n \in Networks, NetworkWillChange(n) PROVE SigInv'
<1> USE DEF SigInv, MsgTypeOK
<1>1. /\ msg' \in [MsgIds -> Message]
      /\ \A m \in MsgIds : /\ msg'[m].status # "unapproved"
                           /\ \/ msg'[m] = msg[m]
                              \/ msg[m].status = "unapproved" /\ msg'[m].status = "cleared"
  BY DEF NetworkWillChange, ClearUnapproved, Message, MsgStatus
<1>2. MsgTypeOK'
  BY <1>1, MsgBoundsAssumption DEF NetworkWillChange
<1>3. SigningDecided'
  BY <1>1 DEF NetworkWillChange, SigningDecided, Decided
<1>4. Promised' /\ WaitsOnItsChain' /\ RejectedHear'
  BY <1>1 DEF NetworkWillChange, Promised, WaitsOnItsChain, RejectedHear
<1> QED BY <1>2, <1>3, <1>4

LEMMA MsgNextInv == SigInv /\ [MsgNext]_msgVars => SigInv'
<1> SUFFICES ASSUME SigInv, [MsgNext]_msgVars PROVE SigInv'
  OBVIOUS
<1>1. CASE UNCHANGED msgVars
  BY <1>1 DEF msgVars, SigInv, MsgTypeOK, Promised, SigningDecided, WaitsOnItsChain,
     ValidTypedData, RejectedHear
<1> QED BY <1>1, AskForMessageInv, ClickMessageInv, ServeInv, NetworkWillChangeInv DEF MsgNext

(* The five managers, their handlers and the network keep SigInv. *)
THEOREM SigningInvariant == MsgSpec => []SigInv
BY SigInitInv, MsgNextInv, PTL DEF MsgSpec

(* Typed data waits for the user on its own chain only, and what a keyring *)
(* signs is in the list when it answers.                                   *)
THEOREM ClearingIsRight == MsgSpec => []ClearingIsExact
<1>1. SigInv => ClearingIsExact
  BY DEF SigInv, SigningDecided, WaitsOnItsChain, ClearingIsExact, InList, Decided
<1> QED BY <1>1, SigningInvariant, PTL

-----------------------------------------------------------------------------
(* Every step of the messages is a step of what a dapp may rely on. *)

LEMMA ServedWereAsked ==
  ASSUME SigInv' PROVE Answers!ServesAsked
BY DEF Heard, Answers!ServesAsked, SigInv, MsgTypeOK, Promised, SigningDecided, Decided, Promises

(* What becomes of a promise decides what becomes of the answer. *)
LEMMA AnswersFollow ==
  ASSUME SigInv, SigInv', NEW m \in MsgIds,
         \/ UNCHANGED promise
         \/ promise[m] = "none" /\ AnswerIs(m, "pending")
         \/ promise[m] \in {"none", "pending"} /\ AnswerIs(m, "refused")
         \/ /\ promise[m] = "pending" /\ AnswerIs(m, "resolved")
            /\ msg[m].status # "rejected" /\ \E w \in Windows : job[m][w] = "signing"
  PROVE  Answers!AskNext
<1> USE DEF SigInv, MsgTypeOK
<1> DEFINE heard == [n \in MsgIds |-> Heard(promise[n])]
<1>1. ASSUME NEW what, AnswerIs(m, what)
      PROVE  heard' = [heard EXCEPT ![m] = Heard(what)]
  BY <1>1 DEF AnswerIs
<1>2. /\ Heard("none") = "none" /\ Heard("pending") = "waiting"
      /\ Heard("refused") = "no" /\ Heard("resolved") = "yes"
  BY DEF Heard
<1>3. heard[m] = Heard(promise[m])
  OBVIOUS
<1> HIDE DEF heard
<1>4. CASE UNCHANGED promise
  BY <1>4, ServedWereAsked DEF Answers!AskNext
<1>5. CASE promise[m] = "none" /\ AnswerIs(m, "pending")
  <2>1. heard[m] = "none" /\ heard' = [heard EXCEPT ![m] = "waiting"]
    BY <1>1, <1>2, <1>3, <1>5
  <2>2. Answers!Ask(m)
    BY <2>1 DEF Answers!Ask, heard
  <2> QED BY <2>2, ServedWereAsked DEF Answers!AskNext
<1>6. CASE promise[m] \in {"none", "pending"} /\ AnswerIs(m, "refused")
  <2>1. heard[m] \in {"none", "waiting"} /\ heard' = [heard EXCEPT ![m] = "no"]
    BY <1>1, <1>2, <1>3, <1>6
  <2>2. Answers!Refuse(m)
    BY <2>1 DEF Answers!Refuse, heard
  <2> QED BY <2>2, ServedWereAsked DEF Answers!AskNext
<1>7. CASE /\ promise[m] = "pending" /\ AnswerIs(m, "resolved")
           /\ msg[m].status # "rejected" /\ \E w \in Windows : job[m][w] = "signing"
  <2>1. heard[m] = "waiting" /\ heard' = [heard EXCEPT ![m] = "yes"]
    BY <1>1, <1>2, <1>3, <1>7
  <2>2. Answers!Grant(m)
    BY <2>1, <1>7 DEF Answers!Grant, heard
  <2> QED BY <2>2, ServedWereAsked DEF Answers!AskNext
<1> QED BY <1>4, <1>5, <1>6, <1>7

LEMMA ApprovingSettlesNothing == \A kind \in Kinds : "approved" \notin Ends(kind)
BY DEF Kinds, Ends, EthSignEnds, PersonalSignEnds, TypedEnds, DecryptEnds, PublicKeyEnds

LEMMA AskIsAnswered ==
  ASSUME SigInv, SigInv', NEW m \in MsgIds, AskForMessage(m) PROVE Answers!AskNext
<1>1. \/ UNCHANGED promise
      \/ promise[m] = "none" /\ AnswerIs(m, "pending")
      \/ promise[m] \in {"none", "pending"} /\ AnswerIs(m, "refused")
  BY DEF AskForMessage, NewUnsignedMessage, NewUnsignedPersonalMessage,
     NewRequestDecryptMessage, NewUnsignedTypedMessage, NewRequestEncryptionPublicKey,
     Asked, IsNew, AddUnapproved, AnswerIs, SigInv, MsgTypeOK
<1> QED BY <1>1, AnswersFollow

LEMMA ServeIsAnswered ==
  ASSUME SigInv, SigInv', NEW m \in MsgIds, NEW w \in Windows, Serve(m, w)
  PROVE  Answers!AskNext
<1> USE DEF SigInv, MsgTypeOK
<1>1. CASE Approve(m, w)
  <2>1. UNCHANGED promise
    BY <1>1, ApprovingSettlesNothing DEF Approve, SetMsgStatus, Message
  <2> QED BY <2>1, AnswersFollow
<1>2. CASE Signed(m, w)
  <2>1. UNCHANGED promise \/ (promise[m] = "pending" /\ AnswerIs(m, "resolved"))
    BY <1>2 DEF Signed, SetMsgStatus, AnswerIs
  <2>2. job[m][w] = "signing" /\ (promise[m] = "pending" => msg[m].status # "rejected")
    BY <1>2 DEF Signed, RejectedHear
  <2> QED BY <2>1, <2>2, AnswersFollow
<1>3. CASE ErrorMessage(m, w) \/ CancelMessage(m, w)
  <2>1. SetMsgStatus(m, "errored") \/ SetMsgStatus(m, "rejected")
    BY <1>3 DEF ErrorMessage, CancelMessage
  <2>2. UNCHANGED promise \/ (promise[m] = "pending" /\ AnswerIs(m, "refused"))
    BY <2>1 DEF SetMsgStatus, AnswerIs
  <2> QED BY <2>2, AnswersFollow
<1>4. CASE Warned(m, w) \/ StartLooking(m, w) \/ Looked(m, w)
  <2>1. UNCHANGED promise
    BY <1>4 DEF Warned, StartLooking, Looked
  <2> QED BY <2>1, AnswersFollow
<1> QED BY <1>1, <1>2, <1>3, <1>4, ServeSteps

LEMMA MsgStepIsAnswered ==
  ASSUME SigInv, SigInv', [MsgNext]_msgVars PROVE [Answers!AskNext]_Answers!asks
<1>1. CASE UNCHANGED msgVars
  BY <1>1 DEF msgVars, Answers!asks
<1>2. ASSUME NEW m \in MsgIds, UNCHANGED promise PROVE Answers!AskNext
  BY <1>2, AnswersFollow
<1>3. CASE \E n \in Networks : NetworkWillChange(n)
  BY <1>3, ServedWereAsked DEF NetworkWillChange, Answers!AskNext
<1> QED BY <1>1, <1>2, <1>3, AskIsAnswered, ServeIsAnswered DEF MsgNext, ClickMessage

(* The messages implement the abstract answers: one answer to a request,   *)
(* and a signature only out of a signing the user agreed to.               *)
THEOREM MessagesAreAnswers == MsgSpec => ImplementsAnswers
<1>1. MsgInit => Answers!AskInit
  BY DEF MsgInit, Answers!AskInit, Heard
<1> QED BY <1>1, SigningInvariant, MsgStepIsAnswered, PTL
    DEF MsgSpec, ImplementsAnswers, Answers!AskSpec

-----------------------------------------------------------------------------
(* Requests of Solana sites. *)

(* Only a popup for a connection is ever left connected. *)
ConnectedByConnect ==
  \A q \in Asks : popup[q] = "connected" => ask[q].kind = "connect"

(* A request that is worked at was made, and not answered yet. *)
WorkedAtWaits ==
  \A q \in Asks :
    /\ popup[q] # "none" \/ storage[q] # "idle" => ask[q].reply # "none"
    /\ popup[q] = "none" /\ storage[q] # "idle" => ask[q].reply = "waiting"

(* A handler is that of a request under its own id which still waits. *)
HandlersWait ==
  \A i \in Ids : handlers[i] # NoAsk =>
    /\ IdOf[handlers[i]] = i
    /\ ask[handlers[i]].reply = "waiting"
    /\ popup[handlers[i]] # "none"

(* Only a popup for a signature waits for the wallet. *)
SignsInPopup ==
  \A q \in signatures : ask[q].kind = "sign" /\ popup[q] \notin {"none", "connected"}

SolInv ==
  /\ SolTypeOK /\ ConnectedByConnect /\ SignsInPopup /\ WorkedAtWaits /\ HandlersWait
  /\ SitesWereApproved

LEMMA IdsHaveThem == \A q \in Asks : IdOf[q] \in Ids /\ SiteOf[q] \in Sites
BY DEF Ids, Sites

LEMMA SolInitInv == SolInit => SolInv
<1> SUFFICES ASSUME SolInit PROVE SolInv
  OBVIOUS
<1>1. SolTypeOK
  <2>1. ask \in [Asks -> [kind : SolKinds, reply : Replies]]
    <3>1. [kind : SolKinds, reply : {"none"}] \subseteq [kind : SolKinds, reply : Replies]
      BY DEF Replies
    <3> QED BY <3>1 DEF SolInit
  <2>2. answers \in [Asks -> Seq({"yes", "no"})]
    <3>1. <<>> \in Seq({"yes", "no"})
      OBVIOUS
    <3> QED BY <3>1 DEF SolInit
  <2>3. stored \in Stores /\ held \in [Asks -> Stores]
    BY DEF SolInit, Stores
  <2>4. /\ handlers \in [Ids -> Asks \cup {NoAsk}]
        /\ popup \in [Asks -> Popups]
        /\ signatures \subseteq Asks
        /\ storage \in [Asks -> {"idle", "asked", "got"}]
    BY DEF SolInit, Popups
  <2> QED BY <2>1, <2>2, <2>3, <2>4 DEF SolTypeOK
<1>2. ConnectedByConnect /\ SignsInPopup /\ WorkedAtWaits /\ HandlersWait /\ SitesWereApproved
  BY NoAskAssumption
  DEF SolInit, ConnectedByConnect, SignsInPopup, WorkedAtWaits, HandlersWait, SitesWereApproved, SitesOf
<1> QED BY <1>1, <1>2 DEF SolInv

(* What is kept when no popup is left behind: the kind of a request, and   *)
(* that its popup was connected.                                           *)
LEMMA ApprovedStays ==
  ASSUME SolInv,
         \A q \in Asks : /\ ask'[q].kind = ask[q].kind
                         /\ popup[q] = "connected" => popup'[q] = "connected",
         \A value \in {stored'} \cup {held'[q] : q \in Asks} :
           \A s \in SitesOf(value) :
             \/ \E v \in {stored} \cup {held[q] : q \in Asks} : s \in SitesOf(v)
             \/ \E q \in Asks : SiteOf[q] = s /\ ask[q].kind = "connect" /\ popup[q] = "connected"
  PROVE  SitesWereApproved'
BY DEF SolInv, SitesWereApproved, SitesOf

LEMMA SolRequestInv ==
  ASSUME SolInv, NEW q \in Asks, SolRequest(q) PROVE SolInv'
<1> USE DEF SolInv, SolTypeOK
<1>1. ask' \in [Asks -> [kind : SolKinds, reply : Replies]]
      /\ ask' = [ask EXCEPT ![q].reply = "waiting"]
      /\ UNCHANGED <<signatures, answers, held, stored>>
  BY DEF SolRequest, Reply, Replies
<1>2. CASE ask[q].kind = "sign" /\ LaunchPopup(q) /\ UNCHANGED storage
  <2>1. SolTypeOK'
    BY <1>1, <1>2, IdsHaveThem DEF SolRequest, LaunchPopup, Popups
  <2>2. ConnectedByConnect' /\ SignsInPopup' /\ WorkedAtWaits'
    BY <1>1, <1>2 DEF LaunchPopup, ConnectedByConnect, SignsInPopup, WorkedAtWaits
  <2>3. HandlersWait'
    BY <1>1, <1>2, IdsHaveThem, NoAskAssumption DEF SolRequest, LaunchPopup, HandlersWait
  <2>4. popup[q] = "none"
    BY DEF SolRequest, WorkedAtWaits
  <2>5. SitesWereApproved'
    BY <1>1, <1>2, <2>4, ApprovedStays DEF SolRequest, LaunchPopup, SitesOf
  <2> QED BY <2>1, <2>2, <2>3, <2>5
<1>3. CASE ask[q].kind # "sign" /\ StorageAt(q, "asked") /\ UNCHANGED <<popup, handlers>>
  <2>1. SolTypeOK'
    BY <1>1, <1>3 DEF SolRequest, StorageAt
  <2>2. ConnectedByConnect' /\ SignsInPopup' /\ WorkedAtWaits'
    BY <1>1, <1>3 DEF StorageAt, ConnectedByConnect, SignsInPopup, WorkedAtWaits
  <2>3. HandlersWait'
    BY <1>1, <1>3 DEF HandlersWait
  <2>4. SitesWereApproved'
    BY <1>1, <1>3, ApprovedStays DEF SolRequest, SitesOf
  <2> QED BY <2>1, <2>2, <2>3, <2>4
<1> QED BY <1>2, <1>3 DEF SolRequest

LEMMA StorageGetInv ==
  ASSUME SolInv, NEW q \in Asks, StorageGet(q) PROVE SolInv'
<1> USE DEF SolInv, SolTypeOK
<1>1. SolTypeOK'
  BY DEF StorageGet, StorageAt
<1>2. ConnectedByConnect' /\ SignsInPopup' /\ WorkedAtWaits' /\ HandlersWait'
  BY DEF StorageGet, StorageAt, ConnectedByConnect, SignsInPopup, WorkedAtWaits, HandlersWait
<1>3. SitesWereApproved'
  BY ApprovedStays DEF StorageGet
<1> QED BY <1>1, <1>2, <1>3

LEMMA HandleConnectInv ==
  ASSUME SolInv, NEW q \in Asks, HandleConnect(q) PROVE SolInv'
<1> USE DEF SolInv, SolTypeOK
<1>1. /\ ask[q].kind = "connect" /\ storage[q] = "got" /\ popup[q] = "none"
      /\ ask[q].reply = "waiting"
      /\ storage' = [storage EXCEPT ![q] = "idle"]
      /\ UNCHANGED <<signatures, answers, held, stored>>
  BY DEF HandleConnect, Handles, StorageAt, WorkedAtWaits
<1>2. CASE LaunchPopup(q) /\ UNCHANGED ask
  <2>1. SolTypeOK'
    BY <1>1, <1>2, IdsHaveThem DEF LaunchPopup, Popups
  <2>2. ConnectedByConnect' /\ SignsInPopup' /\ WorkedAtWaits'
    BY <1>1, <1>2 DEF LaunchPopup, ConnectedByConnect, SignsInPopup, WorkedAtWaits
  <2>3. HandlersWait'
    BY <1>1, <1>2, IdsHaveThem DEF LaunchPopup, HandlersWait
  <2>4. SitesWereApproved'
    BY <1>1, <1>2, ApprovedStays DEF LaunchPopup
  <2> QED BY <2>1, <2>2, <2>3, <2>4
<1>3. CASE Reply(q, "yes") /\ UNCHANGED <<popup, handlers>>
  <2>1. SolTypeOK'
    BY <1>1, <1>3 DEF Reply, Replies
  <2>2. ConnectedByConnect' /\ SignsInPopup' /\ WorkedAtWaits'
    BY <1>1, <1>3 DEF Reply, ConnectedByConnect, SignsInPopup, WorkedAtWaits
  <2>3. HandlersWait'
    BY <1>1, <1>3 DEF Reply, HandlersWait
  <2>4. SitesWereApproved'
    BY <1>1, <1>3, ApprovedStays DEF Reply
  <2> QED BY <2>1, <2>2, <2>3, <2>4
<1> QED BY <1>2, <1>3 DEF HandleConnect

LEMMA HandleDisconnectInv ==
  ASSUME SolInv, NEW q \in Asks, HandleDisconnect(q) PROVE SolInv'
<1> USE DEF SolInv, SolTypeOK
<1>1. /\ storage[q] = "got" /\ popup[q] = "none" /\ ask[q].reply = "waiting"
      /\ storage' = [storage EXCEPT ![q] = "idle"]
      /\ UNCHANGED <<handlers, popup, signatures, answers, held>>
  BY DEF HandleDisconnect, Handles, StorageAt, WorkedAtWaits
<1>2. CASE UNCHANGED <<ask, stored>>
  <2>1. SolTypeOK'
    BY <1>1, <1>2
  <2>2. ConnectedByConnect' /\ SignsInPopup' /\ WorkedAtWaits' /\ HandlersWait'
    BY <1>1, <1>2 DEF ConnectedByConnect, SignsInPopup, WorkedAtWaits, HandlersWait
  <2>3. SitesWereApproved'
    BY <1>1, <1>2, ApprovedStays
  <2> QED BY <2>1, <2>2, <2>3
<1>3. CASE /\ held[q] # NoStore
           /\ stored' = held[q] \ {SiteOf[q]}
           /\ Reply(q, "yes")
  <2>1. SolTypeOK'
    BY <1>1, <1>3 DEF Reply, Replies, Stores
  <2>2. ConnectedByConnect' /\ SignsInPopup' /\ WorkedAtWaits'
    BY <1>1, <1>3 DEF Reply, ConnectedByConnect, SignsInPopup, WorkedAtWaits
  <2>3. HandlersWait'
    BY <1>1, <1>3 DEF Reply, HandlersWait
  <2>4. \A s \in SitesOf(stored') : s \in SitesOf(held[q])
    BY <1>3 DEF SitesOf
  <2>5. SitesWereApproved'
    BY <1>1, <1>3, <2>4, ApprovedStays DEF Reply
  <2> QED BY <2>1, <2>2, <2>3, <2>5
<1> QED BY <1>1, <1>2, <1>3 DEF HandleDisconnect

LEMMA AnswerHandlerInv ==
  ASSUME SolInv, NEW q \in Asks, AnswerHandler(q) PROVE SolInv'
<1> USE DEF SolInv, SolTypeOK
<1> DEFINE h == handlers[IdOf[q]]
           said == Head(answers[q])
<1>1. /\ answers[q] \in Seq({"yes", "no"}) /\ answers[q] # <<>>
      /\ handlers' = [handlers EXCEPT ![IdOf[q]] = NoAsk]
      /\ answers' = [answers EXCEPT ![q] = Tail(@)]
      /\ UNCHANGED <<popup, signatures, storage, held, stored>>
  BY DEF AnswerHandler
<1>2. said \in {"yes", "no"} /\ Tail(answers[q]) \in Seq({"yes", "no"})
  BY <1>1, HeadTailProperties
<1>3. answers' \in [Asks -> Seq({"yes", "no"})] /\ handlers' \in [Ids -> Asks \cup {NoAsk}]
  BY <1>1, <1>2
<1> HIDE DEF said
<1>4. CASE UNCHANGED ask
  <2>1. SolTypeOK'
    BY <1>1, <1>3, <1>4
  <2>2. ConnectedByConnect' /\ SignsInPopup' /\ WorkedAtWaits' /\ HandlersWait'
    BY <1>1, <1>4, IdsHaveThem DEF ConnectedByConnect, SignsInPopup, WorkedAtWaits, HandlersWait
  <2>3. SitesWereApproved'
    BY <1>1, <1>4, ApprovedStays
  <2> QED BY <2>1, <2>2, <2>3
<1>5. CASE h # NoAsk /\ ask' = [ask EXCEPT ![h].reply = said]
  <2>1. h \in Asks /\ IdOf[h] = IdOf[q] /\ popup[h] # "none"
    BY <1>5, IdsHaveThem DEF HandlersWait
  <2>2. SolTypeOK'
    BY <1>1, <1>2, <1>3, <1>5, <2>1 DEF Replies
  <2>3. ConnectedByConnect' /\ SignsInPopup' /\ WorkedAtWaits'
    BY <1>1, <1>2, <1>5, <2>1 DEF ConnectedByConnect, SignsInPopup, WorkedAtWaits
  <2>4. HandlersWait'
    BY <1>1, <1>5, <2>1, IdsHaveThem DEF HandlersWait
  <2>5. SitesWereApproved'
    BY <1>1, <1>5, <2>1, ApprovedStays
  <2> QED BY <2>2, <2>3, <2>4, <2>5
<1> QED BY <1>4, <1>5 DEF AnswerHandler, Reply, said

(* A popup that goes on: the sites are what they were. *)
LEMMA PopupInv ==
  ASSUME SolInv, NEW q \in Asks,
         PopupOpens(q) \/ OnConnect(q) \/ OnApprove(q) \/ OnSigned(q) \/ OnReject(q)
           \/ PopupCloses(q)
  PROVE  SolInv'
<1> USE DEF SolInv, SolTypeOK
<1>1. /\ UNCHANGED <<ask, handlers, held, stored>>
      /\ signatures' \subseteq Asks
  BY DEF PopupOpens, OnConnect, OnApprove, OnSigned, OnReject, PopupCloses
<1>2. ask[q].reply # "none" /\ popup[q] # "none"
  BY DEF PopupOpens, OnConnect, OnApprove, OnSigned, OnReject, PopupCloses, WorkedAtWaits,
     SignsInPopup
<1>3. \/ UNCHANGED popup
      \/ \E left \in Popups \ {"none"} :
           /\ popup' = [popup EXCEPT ![q] = left]
           /\ popup[q] = "connected" => left = "connected"
           /\ left = "connected" => popup[q] = "connected" \/ ask[q].kind = "connect"
  BY DEF PopupOpens, OnConnect, OnApprove, OnSigned, OnReject, PopupCloses, Sends, Popups,
     SignsInPopup
<1>4. /\ popup' \in [Asks -> Popups]
      /\ \A p \in Asks : /\ popup[p] # "none" <=> popup'[p] # "none"
                         /\ popup[p] = "connected" => popup'[p] = "connected"
                         /\ popup'[p] = "connected" => ask[p].kind = "connect"
  BY <1>2, <1>3 DEF ConnectedByConnect, Popups
<1>5. answers' \in [Asks -> Seq({"yes", "no"})]
  <2>1. \A what \in {"yes", "no"} : Append(answers[q], what) \in Seq({"yes", "no"})
    BY AppendProperties
  <2>2. \/ UNCHANGED answers
        \/ \E what \in {"yes", "no"} :
             answers' = [answers EXCEPT ![q] = Append(answers[q], what)]
    BY DEF PopupOpens, OnConnect, OnApprove, OnSigned, OnReject, PopupCloses, Sends
  <2> QED BY <2>1, <2>2
<1>6. /\ storage' \in [Asks -> {"idle", "asked", "got"}]
      /\ \A p \in Asks : p # q => storage'[p] = storage[p]
  BY DEF PopupOpens, OnConnect, OnApprove, OnSigned, OnReject, PopupCloses, StorageAt
<1>7. SolTypeOK'
  BY <1>1, <1>4, <1>5, <1>6
<1>8. ConnectedByConnect' /\ HandlersWait'
  BY <1>1, <1>4 DEF ConnectedByConnect, HandlersWait
<1>9. WorkedAtWaits'
  BY <1>1, <1>2, <1>4, <1>6 DEF WorkedAtWaits
<1>10. SignsInPopup'
  <2>1. CASE OnApprove(q)
    BY <2>1 DEF OnApprove, SignsInPopup
  <2>2. CASE ~OnApprove(q)
    BY <1>1, <1>4, <2>2 DEF PopupOpens, OnConnect, OnSigned, OnReject, PopupCloses, SignsInPopup
  <2> QED BY <2>1, <2>2
<1>11. SitesWereApproved'
  BY <1>1, <1>4, ApprovedStays
<1> QED BY <1>7, <1>8, <1>9, <1>10, <1>11

LEMMA SaveConnectionInv ==
  ASSUME SolInv, NEW q \in Asks, SaveConnection(q) PROVE SolInv'
<1> USE DEF SolInv, SolTypeOK
<1>1. /\ popup[q] = "connected" /\ ask[q].kind = "connect"
      /\ stored' = SitesOf(held[q]) \cup {SiteOf[q]}
      /\ storage' = [storage EXCEPT ![q] = "idle"]
      /\ UNCHANGED <<ask, handlers, popup, signatures, answers, held>>
  BY DEF SaveConnection, StorageAt, ConnectedByConnect
<1>2. SolTypeOK'
  BY <1>1, IdsHaveThem DEF Stores, SitesOf
<1>3. ConnectedByConnect' /\ SignsInPopup' /\ WorkedAtWaits' /\ HandlersWait'
  BY <1>1 DEF ConnectedByConnect, SignsInPopup, WorkedAtWaits, HandlersWait
<1>4. \A s \in SitesOf(stored') : s = SiteOf[q] \/ s \in SitesOf(held[q])
  BY <1>1 DEF SitesOf
<1>5. SitesWereApproved'
  BY <1>1, <1>4, ApprovedStays
<1> QED BY <1>2, <1>3, <1>5

LEMMA SolNextInv == SolInv /\ [SolNext]_solVars => SolInv'
<1> SUFFICES ASSUME SolInv, [SolNext]_solVars PROVE SolInv'
  OBVIOUS
<1>1. CASE UNCHANGED solVars
  BY <1>1 DEF solVars, SolInv, SolTypeOK, ConnectedByConnect, SignsInPopup, WorkedAtWaits,
     HandlersWait, SitesWereApproved
<1>2. ASSUME NEW q \in Asks, SolBackground(q) PROVE SolInv'
  BY <1>2, StorageGetInv, HandleConnectInv, HandleDisconnectInv, AnswerHandlerInv
  DEF SolBackground
<1>3. ASSUME NEW q \in Asks, SolPopup(q) PROVE SolInv'
  BY <1>3, PopupInv, SaveConnectionInv DEF SolPopup
<1> QED BY <1>1, <1>2, <1>3, SolRequestInv DEF SolNext

(* The background page, the storage and the popups of Solana keep SolInv.  *)
THEOREM SolInvariant == SolSpec => []SolInv
BY SolInitInv, SolNextInv, PTL DEF SolSpec

(* However reads and writes of connectedWallets overlap, no site is in it, *)
(* or read from it, whose connection the user never approved.              *)
THEOREM OnlyApprovedSites == SolSpec => []SitesWereApproved
<1>1. SolInv => SitesWereApproved
  BY DEF SolInv
<1> QED BY <1>1, SolInvariant, PTL

-----------------------------------------------------------------------------
(* Every step of the requests is a step of what a dapp may rely on. *)

LEMMA AskedIsServed ==
  ASSUME SolInv' PROVE SolAnswers!ServesAsked
<1>1. SolTypeOK' /\ WorkedAtWaits' /\ HandlersWait'
  BY DEF SolInv
<1>2. \A q \in Asks : \/ handlers'[IdOf[q]] = q
                      \/ storage'[q] = "got"
                      => ask'[q].reply # "none"
  BY <1>1, IdsHaveThem, NoAskAssumption DEF SolTypeOK, WorkedAtWaits, HandlersWait
<1> QED BY <1>2 DEF SolAnswers!ServesAsked

(* What becomes of the reply decides what becomes of the answer. *)
LEMMA RepliesFollow ==
  ASSUME SolInv, SolInv', NEW q \in Asks,
         \/ \A p \in Asks : ask'[p].reply = ask[p].reply
         \/ /\ ask[q].reply = "none"
            /\ ask' = [ask EXCEPT ![q].reply = "waiting"]
         \/ /\ ask[q].reply = "waiting"
            /\ ask' = [ask EXCEPT ![q].reply = "no"]
         \/ /\ ask[q].reply = "waiting"
            /\ ask' = [ask EXCEPT ![q].reply = "yes"]
            /\ \/ /\ handlers[IdOf[q]] = q
                  /\ \E p \in Asks : IdOf[p] = IdOf[q] /\ IsAgreed(p)
               \/ /\ ask[q].kind = "connect" /\ storage[q] = "got"
                  /\ SiteOf[q] \in SitesOf(held[q])
               \/ ask[q].kind = "disconnect" /\ storage[q] = "got"
  PROVE  SolAnswers!AskNext
<1> USE DEF SolInv, SolTypeOK
<1> DEFINE heard == [p \in Asks |-> ask[p].reply]
<1>1. ASSUME NEW what, ask' = [ask EXCEPT ![q].reply = what]
      PROVE  heard' = [heard EXCEPT ![q] = what]
  <2>1. ask[q] \in [kind : SolKinds, reply : Replies]
    OBVIOUS
  <2>2. ask'[q].reply = what /\ \A p \in Asks : p # q => ask'[p] = ask[p]
    BY <1>1, <2>1
  <2> QED BY <2>2
<1>2. heard[q] = ask[q].reply
  OBVIOUS
<1>3. CASE \A p \in Asks : ask'[p].reply = ask[p].reply
  <2>1. heard' = heard
    BY <1>3
  <2> QED BY <2>1, AskedIsServed DEF SolAnswers!AskNext
<1> HIDE DEF heard
<1>4. CASE /\ ask[q].reply = "none"
           /\ ask' = [ask EXCEPT ![q].reply = "waiting"]
  <2>1. heard[q] = "none" /\ heard' = [heard EXCEPT ![q] = "waiting"]
    BY <1>1, <1>2, <1>4
  <2>2. SolAnswers!Ask(q)
    BY <2>1 DEF SolAnswers!Ask, heard
  <2> QED BY <2>2, AskedIsServed DEF SolAnswers!AskNext
<1>5. CASE /\ ask[q].reply = "waiting"
           /\ ask' = [ask EXCEPT ![q].reply = "no"]
  <2>1. heard[q] = "waiting" /\ heard' = [heard EXCEPT ![q] = "no"]
    BY <1>1, <1>2, <1>5
  <2>2. SolAnswers!Refuse(q)
    BY <2>1 DEF SolAnswers!Refuse, heard
  <2> QED BY <2>2, AskedIsServed DEF SolAnswers!AskNext
<1>6. CASE /\ ask[q].reply = "waiting"
           /\ ask' = [ask EXCEPT ![q].reply = "yes"]
           /\ \/ /\ handlers[IdOf[q]] = q
                 /\ \E p \in Asks : IdOf[p] = IdOf[q] /\ IsAgreed(p)
              \/ /\ ask[q].kind = "connect" /\ storage[q] = "got"
                 /\ SiteOf[q] \in SitesOf(held[q])
              \/ ask[q].kind = "disconnect" /\ storage[q] = "got"
  <2>1. heard[q] = "waiting" /\ heard' = [heard EXCEPT ![q] = "yes"]
    BY <1>1, <1>2, <1>6
  <2>2. SolAnswers!Grant(q)
    BY <2>1, <1>6 DEF SolAnswers!Grant, heard
  <2> QED BY <2>2, AskedIsServed DEF SolAnswers!AskNext
<1> QED BY <1>3, <1>4, <1>5, <1>6

LEMMA AnswerHandlerAnswers ==
  ASSUME SolInv, SolInv', NEW q \in Asks, AnswerHandler(q) PROVE SolAnswers!AskNext
<1> USE DEF SolInv, SolTypeOK
<1> DEFINE h == handlers[IdOf[q]]
           said == Head(answers[q])
<1>1. CASE UNCHANGED ask
  BY <1>1, RepliesFollow
<1>2. CASE h # NoAsk /\ ask' = [ask EXCEPT ![h].reply = said]
  <2>1. /\ h \in Asks /\ IdOf[h] = IdOf[q] /\ ask[h].reply = "waiting"
        /\ handlers[IdOf[h]] = h
    BY <1>2, IdsHaveThem DEF HandlersWait
  <2>2. answers[q] \in Seq({"yes", "no"}) /\ answers[q] # <<>>
    BY DEF AnswerHandler
  <2>3. said \in {"yes", "no"} /\ 1 \in 1..Len(answers[q]) /\ said = answers[q][1]
    BY <2>2, HeadTailProperties
  <2>4. said = "yes" => IsAgreed(q)
    BY <2>3 DEF IsAgreed
  <2> HIDE DEF h, said
  <2>5. CASE said = "yes"
    BY <1>2, <2>1, <2>4, <2>5, RepliesFollow
  <2>6. CASE said = "no"
    BY <1>2, <2>1, <2>6, RepliesFollow
  <2> QED BY <2>3, <2>5, <2>6
<1> QED BY <1>1, <1>2 DEF AnswerHandler, Reply

LEMMA HandlingAnswers ==
  ASSUME SolInv, SolInv', NEW q \in Asks,
         SolRequest(q) \/ HandleConnect(q) \/ HandleDisconnect(q)
  PROVE  SolAnswers!AskNext
<1> USE DEF SolInv, SolTypeOK
<1>1. CASE SolRequest(q)
  BY <1>1, RepliesFollow DEF SolRequest, Reply
<1>2. CASE HandleConnect(q)
  <2>1. ask[q].kind = "connect" /\ storage[q] = "got" /\ ask[q].reply = "waiting"
    BY <1>2 DEF HandleConnect, Handles, WorkedAtWaits
  <2> QED BY <1>2, <2>1, RepliesFollow DEF HandleConnect, Reply
<1>3. CASE HandleDisconnect(q)
  <2>1. ask[q].kind = "disconnect" /\ storage[q] = "got" /\ ask[q].reply = "waiting"
    BY <1>3 DEF HandleDisconnect, Handles, WorkedAtWaits
  <2> QED BY <1>3, <2>1, RepliesFollow DEF HandleDisconnect, Reply
<1> QED BY <1>1, <1>2, <1>3

LEMMA SolStepAnswers ==
  ASSUME SolInv, SolInv', [SolNext]_solVars
  PROVE  [SolAnswers!AskNext]_SolAnswers!asks
<1>1. CASE UNCHANGED solVars
  BY <1>1 DEF solVars, SolAnswers!asks, IsAgreed
<1>2. ASSUME NEW q \in Asks, UNCHANGED ask PROVE SolAnswers!AskNext
  BY <1>2, RepliesFollow
<1>3. ASSUME NEW q \in Asks, SolPopup(q) \/ StorageGet(q) PROVE UNCHANGED ask
  BY <1>3 DEF SolPopup, PopupOpens, OnConnect, SaveConnection, OnApprove, OnSigned,
     OnReject, PopupCloses, StorageGet
<1> QED BY <1>1, <1>2, <1>3, HandlingAnswers, AnswerHandlerAnswers DEF SolNext, SolBackground

(* A Solana dapp gets one answer, however often popups send one, and a yes *)
(* only where a popup under its id agreed or storage was read for it.      *)
THEOREM SolanaIsAnswered == SolSpec => SolImplementsAnswers
<1>1. SolInit /\ SolInv => SolAnswers!AskInit
  BY NoAskAssumption, IdsHaveThem DEF SolInit, SolAnswers!AskInit
<1> QED BY <1>1, SolInitInv, SolInvariant, SolStepAnswers, PTL
    DEF SolSpec, SolImplementsAnswers, SolAnswers!AskSpec


-----------------------------------------------------------------------------
(* Prices *)

RatesFinite == RateTypeOK /\ IsFiniteSet(asking)

LEMMA AskingEnds ==
  ASSUME RatesFinite, NEW q \in asking
  PROVE  IsFiniteSet(asking \ {q}) /\ Cardinality(asking \ {q}) <= MaxAsking
<1>1. IsFiniteSet(asking \ {q}) /\ Cardinality(asking \ {q}) = Cardinality(asking) - 1
  BY FS_RemoveElement DEF RatesFinite
<1>2. Cardinality(asking) \in Nat /\ Cardinality(asking) <= MaxAsking
  BY FS_CardinalityType DEF RatesFinite, RateTypeOK
<1> QED BY <1>1, <1>2, MaxAskingAssumption

LEMMA RatesUpdated ==
  ASSUME RatesFinite, NEW listed \in SUBSET RatedTokens, NEW c \in Chains,
         UpdateExchangeRates(listed, c)
  PROVE  /\ contractExchangeRates' \in [RatedTokens -> Chains \cup {NoRate, Zero}]
         /\ asking' \subseteq [tokens : SUBSET RatedTokens, chain : Chains]
         /\ Cardinality(asking') <= MaxAsking /\ IsFiniteSet(asking')
<1> USE DEF RatesFinite, RateTypeOK
<1>1. CASE UNCHANGED asking /\ contractExchangeRates' = NoRates
  BY <1>1 DEF NoRates
<1>2. CASE /\ asking' = asking \cup {[tokens |-> listed, chain |-> c]}
           /\ Cardinality(asking') <= MaxAsking /\ UNCHANGED contractExchangeRates
  <2> DEFINE new == [tokens |-> listed, chain |-> c]
  <2>1. new \in [tokens : SUBSET RatedTokens, chain : Chains]
    OBVIOUS
  <2>2. asking' = asking \cup {new}
    BY <1>2
  <2> HIDE DEF new
  <2>3. IsFiniteSet(asking')
    BY <2>2, FS_AddElement
  <2> QED BY <1>2, <2>1, <2>2, <2>3
<1> QED BY <1>1, <1>2 DEF UpdateExchangeRates

LEMMA RateInitTypes == RateInit => RatesFinite
<1> SUFFICES ASSUME RateInit PROVE RatesFinite
  OBVIOUS
<1>1. IsFiniteSet({}) /\ Cardinality({}) = 0
  BY FS_EmptySet
<1>2. 0 <= MaxAsking
  BY MaxAskingAssumption
<1>3. asking = {} /\ IsFiniteSet(asking) /\ Cardinality(asking) <= MaxAsking
  BY <1>1, <1>2 DEF RateInit
<1>4. contractExchangeRates \in [RatedTokens -> Chains \cup {NoRate, Zero}]
  BY DEF RateInit, NoRates
<1> QED BY <1>3, <1>4 DEF RateInit, RatesFinite, RateTypeOK

LEMMA RateNextTypes == RatesFinite /\ [RateNext]_rateVars => RatesFinite'
<1> SUFFICES ASSUME RatesFinite, [RateNext]_rateVars PROVE RatesFinite'
  OBVIOUS
<1> USE DEF RatesFinite, RateTypeOK
<1>1. ASSUME NEW listed \in SUBSET RatedTokens, NEW c \in Chains, SetTokens(listed, c)
      PROVE  RatesFinite'
  BY <1>1, RatesUpdated DEF SetTokens
<1>2. CASE StartRates \/ Poll
  <2>1. /\ UpdateExchangeRates(wanted, provider) /\ UNCHANGED <<provider, wanted>>
        /\ polling' \in BOOLEAN
    BY <1>2 DEF StartRates, Poll, sessionVars
  <2> QED BY <2>1, RatesUpdated
<1>3. CASE StopRates
  BY <1>3 DEF StopRates, sessionVars
<1>4. ASSUME NEW q \in asking, RatesArrive(q) \/ RatesFail(q) PROVE RatesFinite'
  <2>1. asking' = asking \ {q} /\ UNCHANGED <<provider, wanted, polling>>
    BY <1>4 DEF RatesArrive, RatesFail, sessionVars
  <2>2. q.chain \in Chains
    OBVIOUS
  <2>3. contractExchangeRates' \in [RatedTokens -> Chains \cup {NoRate, Zero}]
    BY <1>4, <2>2 DEF RatesArrive, RatesFail, RatesFrom, NoRates
  <2> QED BY <2>1, <2>3, AskingEnds
<1>5. CASE UNCHANGED rateVars
  BY <1>5 DEF rateVars, sessionVars
<1> QED BY <1>1, <1>2, <1>3, <1>4, <1>5 DEF RateNext

-----------------------------------------------------------------------------
(* Balances *)

QueriesFinite == BalTypeOK /\ IsFiniteSet(inFlight)

(* Accounts are put in a table one by one.                                  *)
TableOK(accts) == accts \in [Addrs -> Entries]

LEMMA StoredTypes ==
  ASSUME QueriesFinite, NEW i \in 0..MaxClears, NEW accts, TableOK(accts),
         StoreAccounts(i, accts)
  PROVE  /\ tables' \in [0..MaxClears -> [Addrs -> Entries]]
         /\ table' \in 0..MaxClears
         /\ cachedBalances' \in [Chains -> [Addrs -> Chains \cup {Untracked}]]
<1> USE DEF QueriesFinite, BalTypeOK, TableOK
<1>1. Empty \in [Addrs -> Entries]
  BY DEF Empty, Entries
<1>2. tables' \in [0..MaxClears -> [Addrs -> Entries]] /\ table' \in 0..MaxClears
  BY <1>1 DEF StoreAccounts
<1>3. UpdateCachedBalances(accts)
  BY DEF StoreAccounts
<1>4. cachedBalances' \in [Chains -> [Addrs -> Chains \cup {Untracked}]]
  BY <1>3 DEF UpdateCachedBalances
<1> QED BY <1>2, <1>4

LEMMA QueriesAre ==
  ASSUME IsFiniteSet(Addrs), NEW i \in 0..MaxClears, NEW accts, NEW c \in Chains,
         NEW who \in SUBSET Addrs
  PROVE  /\ Wanted(i, accts, c) \subseteq Query /\ IsFiniteSet(Wanted(i, accts, c))
         /\ Singles(who, c) \subseteq Query /\ IsFiniteSet(Singles(who, c))
<1> DEFINE single(a) == [kind |-> "single", who |-> {a}, table |-> 0, chain |-> c]
<1>1. ASSUME NEW w \in SUBSET Addrs
      PROVE  Singles(w, c) \subseteq Query /\ IsFiniteSet(Singles(w, c))
  <2>1. Singles(w, c) \subseteq Query
    <3>1. 0 \in 0..MaxClears
      BY BalanceBoundsAssumption
    <3> QED BY <3>1 DEF Singles, Query
  <2>2. IsFiniteSet(w)
    BY FS_Subset
  <2> DEFINE f == [a \in w |-> single(a)]
  <2>3. f \in Surjection(w, Singles(w, c))
    <3>1. \A a \in w : f[a] = single(a) /\ f[a] \in Singles(w, c)
      BY DEF Singles
    <3>2. \A q \in Singles(w, c) : \E a \in w : f[a] = q
      BY DEF Singles
    <3> HIDE DEF f
    <3> QED BY <3>1, <3>2 DEF Surjection, f
  <2> QED BY <2>1, <2>2, <2>3, FS_Surjection
<1>2. TrackedIn(accts) \subseteq Addrs
  BY DEF TrackedIn
<1> DEFINE one == [kind |-> "checker", who |-> TrackedIn(accts), table |-> i, chain |-> c]
<1>3. one \in Query
  BY <1>2 DEF Query
<1>4. Wanted(i, accts, c) = {one} \/ Wanted(i, accts, c) = Singles(TrackedIn(accts), c)
  BY DEF Wanted
<1> HIDE DEF one
<1>5. IsFiniteSet({one})
  BY FS_Singleton
<1> QED BY <1>1, <1>2, <1>3, <1>4, <1>5

LEMMA AskedTypes ==
  ASSUME QueriesFinite, NEW more, more \subseteq Query, IsFiniteSet(more),
         NEW rest \in SUBSET inFlight, InFlight(rest \cup more)
  PROVE  /\ inFlight' \subseteq Query /\ Cardinality(inFlight') <= MaxInFlight
         /\ IsFiniteSet(inFlight')
<1>1. IsFiniteSet(rest)
  BY FS_Subset DEF QueriesFinite
<1>2. IsFiniteSet(rest \cup more)
  BY <1>1, FS_Union
<1> QED BY <1>2 DEF InFlight, QueriesFinite, BalTypeOK

LEMMA QueryEnds ==
  ASSUME QueriesFinite, NEW q \in inFlight
  PROVE  /\ inFlight \ {q} \subseteq Query /\ IsFiniteSet(inFlight \ {q})
         /\ Cardinality(inFlight \ {q}) <= MaxInFlight
<1>1. IsFiniteSet(inFlight \ {q}) /\ Cardinality(inFlight \ {q}) = Cardinality(inFlight) - 1
  BY FS_RemoveElement DEF QueriesFinite
<1>2. Cardinality(inFlight) \in Nat /\ Cardinality(inFlight) <= MaxInFlight
  BY FS_CardinalityType DEF QueriesFinite, BalTypeOK
<1> QED BY <1>1, <1>2, BalanceBoundsAssumption DEF QueriesFinite, BalTypeOK

LEMMA BalInitTypes == BalInit => QueriesFinite
<1> SUFFICES ASSUME BalInit PROVE QueriesFinite
  OBVIOUS
<1>1. IsFiniteSet({}) /\ Cardinality({}) = 0
  BY FS_EmptySet
<1>2. 0 <= MaxInFlight /\ 0 \in 0..MaxClears
  BY BalanceBoundsAssumption
<1>3. inFlight = {} /\ IsFiniteSet(inFlight) /\ Cardinality(inFlight) <= MaxInFlight
  BY <1>1, <1>2 DEF BalInit
<1>4. /\ tables \in [0..MaxClears -> [Addrs -> Entries]] /\ table \in 0..MaxClears
      /\ cachedBalances \in [Chains -> [Addrs -> Chains \cup {Untracked}]]
  BY <1>2 DEF BalInit, Entries
<1> QED BY <1>3, <1>4 DEF BalInit, QueriesFinite, BalTypeOK

LEMMA BalNextTypes ==
  ASSUME IsFiniteSet(Addrs), QueriesFinite, [BalNext]_balVars PROVE QueriesFinite'
<1>t. /\ provider \in Chains /\ table \in 0..MaxClears /\ inFlight \subseteq Query
      /\ tables \in [0..MaxClears -> [Addrs -> Entries]] /\ accounts \in [Addrs -> Entries]
      /\ cachedBalances \in [Chains -> [Addrs -> Chains \cup {Untracked}]]
      /\ ready \in BOOLEAN /\ listening \in BOOLEAN
      /\ Cardinality(inFlight) <= MaxInFlight /\ IsFiniteSet(inFlight)
  BY DEF QueriesFinite, BalTypeOK, accounts
<1>n. inFlight \in SUBSET inFlight
  OBVIOUS
<1> DEFINE
  Same == UNCHANGED <<tables, table, cachedBalances>>
  Stored == /\ tables' \in [0..MaxClears -> [Addrs -> Entries]]
            /\ table' \in 0..MaxClears
            /\ cachedBalances' \in [Chains -> [Addrs -> Chains \cup {Untracked}]]
  Queried == /\ inFlight' \subseteq Query /\ Cardinality(inFlight') <= MaxInFlight
           /\ IsFiniteSet(inFlight')
<1>q. ASSUME provider' \in Chains, Stored, Queried, ready' \in BOOLEAN, listening' \in BOOLEAN
      PROVE  QueriesFinite'
  BY <1>q DEF QueriesFinite, BalTypeOK
<1>s. Same => Stored
  BY <1>t
<1>a. UNCHANGED inFlight => Queried
  BY <1>t
<1> HIDE DEF Stored, Queried
<1>1. CASE Start
  <2>1. Queried
    BY <1>1, <1>n, <1>t, QueriesAre, AskedTypes DEF Start, UpdateAccounts, Queried
  <2> QED BY <1>1, <1>t, <1>s, <1>q, <2>1 DEF Start, sessionVars
<1>2. CASE Stop \/ FirstBlock
  BY <1>2, <1>t, <1>s, <1>a, <1>q DEF Stop, FirstBlock, sessionVars
<1>3. CASE UpdateForBlock
  <2>1. Queried
    BY <1>3, <1>n, <1>t, QueriesAre, AskedTypes DEF UpdateForBlock, UpdateAccounts, Queried
  <2>2. Stored
    BY <1>3, <1>t DEF UpdateForBlock, UpdateCachedBalances, Stored
  <2> QED BY <1>3, <1>t, <1>q, <2>1, <2>2 DEF UpdateForBlock, sessionVars
<1>4. ASSUME NEW addresses \in SUBSET Addrs, SyncWithAddresses(addresses) PROVE QueriesFinite'
  <2> DEFINE synced == [a \in Addrs |->
                   IF a \notin addresses THEN Untracked
                   ELSE IF accounts[a] = Untracked THEN NoBalance ELSE accounts[a]]
  <2>1. TableOK(synced)
    BY <1>t DEF TableOK, Entries
  <2>2. /\ \/ InFlight(inFlight \cup Wanted(table, synced, provider))
           \/ UNCHANGED inFlight
        /\ StoreAccounts(table, synced)
        /\ UNCHANGED <<provider, ready, listening>>
    BY <1>4 DEF SyncWithAddresses, sessionVars
  <2> HIDE DEF synced
  <2>3. Stored
    BY <1>t, <2>1, <2>2, StoredTypes DEF Stored
  <2>4. Queried
    <3>1. CASE UNCHANGED inFlight
      BY <3>1, <1>a
    <3>2. CASE InFlight(inFlight \cup Wanted(table, synced, provider))
      BY <3>2, <1>n, <1>t, QueriesAre, AskedTypes DEF Queried
    <3> QED BY <2>2, <3>1, <3>2
  <2> QED BY <1>t, <1>q, <2>2, <2>3, <2>4
<1>5. ASSUME NEW a \in Addrs, RemoveTracked(a) PROVE QueriesFinite'
  <2>1. TableOK([accounts EXCEPT ![a] = Untracked])
    BY <1>t DEF TableOK, Entries
  <2>2. Stored
    BY <1>5, <1>t, <2>1, StoredTypes DEF RemoveTracked, Stored
  <2> QED BY <1>5, <1>t, <1>a, <1>q, <2>2 DEF RemoveTracked, sessionVars
<1>6. CASE ClearAccounts
  <2>1. TableOK(Empty)
    BY DEF TableOK, Empty, Entries
  <2>2. Stored
    BY <1>6, <2>1, StoredTypes DEF ClearAccounts, Stored
  <2> QED BY <1>6, <1>t, <1>a, <1>q, <2>2 DEF ClearAccounts, sessionVars
<1>7. ASSUME NEW c \in Chains, NetworkDidChange(c) PROVE QueriesFinite'
  <2>1. Queried
    BY <1>7, <1>n, <1>t, QueriesAre, AskedTypes DEF NetworkDidChange, Queried
  <2> QED BY <1>7, <1>t, <1>s, <1>q, <2>1 DEF NetworkDidChange
<1>8. ASSUME NEW q \in inFlight, Settles(q) PROVE QueriesFinite'
  <2>1. /\ q.who \subseteq Addrs /\ q.chain \in Chains /\ q.table \in 0..MaxClears
        /\ UNCHANGED <<provider, ready, listening>>
    BY <1>8, <1>t DEF Query, Settles, UpdateAccount, NoAnswer, CheckerAnswers,
       CheckerUseless, CheckerFails, sessionVars
  <2>2. inFlight' = inFlight \ {q} => Queried
    BY QueryEnds DEF Queried
  <2>3. CASE UpdateAccount(q)
    <3>1. inFlight' = inFlight \ {q}
      BY <2>3 DEF UpdateAccount
    <3>2. ASSUME NEW a \in q.who, StoreAccounts(table, [accounts EXCEPT ![a] = q.chain])
          PROVE  Stored
      <4>1. TableOK([accounts EXCEPT ![a] = q.chain])
        BY <1>t, <2>1 DEF TableOK, Entries
      <4> QED BY <1>t, <3>2, <4>1, StoredTypes DEF Stored
    <3>3. Stored
      BY <2>3, <3>2, <1>s DEF UpdateAccount
    <3> QED BY <1>t, <1>q, <2>1, <2>2, <3>1, <3>3
  <2>4. CASE NoAnswer(q)
    BY <1>t, <1>s, <1>q, <2>1, <2>2, <2>4 DEF NoAnswer
  <2>5. CASE CheckerAnswers(q)
    <3> DEFINE read == [a \in Addrs |-> IF a \in q.who THEN q.chain ELSE tables[q.table][a]]
    <3>1. TableOK(read)
      BY <1>t, <2>1 DEF TableOK, Entries
    <3>2. StoreAccounts(q.table, read) /\ inFlight' = inFlight \ {q}
      BY <2>5 DEF CheckerAnswers
    <3> HIDE DEF read
    <3>3. Stored
      BY <2>1, <3>1, <3>2, StoredTypes DEF Stored
    <3> QED BY <1>t, <1>q, <2>1, <2>2, <3>2, <3>3
  <2>6. CASE CheckerFails(q)
    <3>1. InFlight((inFlight \ {q}) \cup Singles(q.who, provider)) /\ Same
      BY <2>6 DEF CheckerFails
    <3>2. inFlight \ {q} \in SUBSET inFlight
      OBVIOUS
    <3>3. Singles(q.who, provider) \subseteq Query /\ IsFiniteSet(Singles(q.who, provider))
      BY <1>t, <2>1, QueriesAre
    <3>4. Queried
      BY <3>1, <3>2, <3>3, AskedTypes DEF Queried
    <3> QED BY <1>t, <1>s, <1>q, <2>1, <3>1, <3>4
  <2>7. CASE CheckerUseless(q)
    <3>1. TableOK(tables[q.table])
      BY <1>t, <2>1 DEF TableOK
    <3>2. StoreAccounts(q.table, tables[q.table]) /\ inFlight' = inFlight \ {q}
      BY <2>7 DEF CheckerUseless
    <3>3. Stored
      BY <2>1, <3>1, <3>2, StoredTypes DEF Stored
    <3> QED BY <1>t, <1>q, <2>1, <2>2, <3>2, <3>3
  <2> QED BY <1>8, <2>3, <2>4, <2>5, <2>6, <2>7 DEF Settles
<1>9. CASE UNCHANGED balVars
  BY <1>9, <1>t, <1>s, <1>a, <1>q DEF balVars, sessionVars
<1> QED BY <1>1, <1>2, <1>3, <1>4, <1>5, <1>6, <1>7, <1>8, <1>9 DEF BalNext, Tracks

-----------------------------------------------------------------------------
(* All of them.  A behaviour of MCDapps is one of each component: what      *)
(* another one does leaves it alone, but for the network two of them ask    *)
(* about.                                                                   *)

PolledInv == QueriesFinite /\ RatesFinite

LEMMA EachItsOwn ==
  [DappsNext]_dappsVars => [MsgNext]_msgVars /\ [ApNext]_apVars /\ [SolNext]_solVars
BY DEF DappsNext, dappsVars, msgVars, apVars, solVars, winVars, dappVars

LEMMA PolledTogether ==
  ASSUME IsFiniteSet(Addrs), PolledInv, [DappsNext]_dappsVars
  PROVE  PolledInv'
<1> USE DEF PolledInv
<1>1. CASE BalNext /\ UNCHANGED <<wanted, contractExchangeRates, polling, asking>>
  <2>1. QueriesFinite'
    BY <1>1, BalNextTypes
  <2> QED BY <1>1, <2>1 DEF RatesFinite, RateTypeOK, QueriesFinite, BalTypeOK
<1>2. CASE RateNext /\ UNCHANGED <<tables, table, cachedBalances, ready, listening, inFlight>>
  <2>1. RatesFinite'
    BY <1>2, RateNextTypes
  <2> QED BY <1>2, <2>1 DEF RatesFinite, RateTypeOK, QueriesFinite, BalTypeOK
<1>3. CASE UNCHANGED polledVars
  BY <1>3 DEF polledVars, sessionVars, RatesFinite, RateTypeOK, QueriesFinite, BalTypeOK
<1> QED BY <1>1, <1>2, <1>3 DEF DappsNext, dappsVars

(* The windows of the new application and the popups of Solana dapps, side  *)
(* by side, give each request the one answer RequestAnswers promises, a yes *)
(* only to one the user approved.                                           *)
THEOREM WindowsAnswerOnce == DappsSpec => WindowsImplementAnswers
<1>1. DappsSpec => ApSpec /\ SolSpec
  BY EachItsOwn, PTL DEF DappsSpec, DappsInit, ApSpec, SolSpec
<1> QED BY <1>1, ApprovalsAnswerOnce, SolanaIsAnswered, PTL DEF WindowsImplementAnswers

(* Every variable of what dapps ask for, and of what is polled while a      *)
(* window is open, keeps its type; a dapp is connected to accounts only.    *)
THEOREM DappsTypeCorrect ==
  ASSUME IsFiniteSet(Addrs) PROVE DappsSpec => []DappsTypes
<1>1. DappsSpec => MsgSpec /\ ApSpec /\ SolSpec
  BY EachItsOwn, PTL DEF DappsSpec, DappsInit, ApSpec, SolSpec, MsgSpec
<1>2. DappsInit => PolledInv
  BY BalInitTypes, RateInitTypes DEF DappsInit, PolledInv
<1>3. PolledInv /\ [DappsNext]_dappsVars => PolledInv'
  BY PolledTogether
<1>4. DappsSpec => []PolledInv
  BY <1>2, <1>3, PTL DEF DappsSpec
<1>5. SigInv /\ ApTypeOK /\ SolInv /\ PolledInv => DappsTypes
  BY DEF SigInv, SolInv, PolledInv, QueriesFinite, RatesFinite, DappsTypes
<1> QED BY <1>1, <1>4, <1>5, SigningInvariant, ApTypeCorrect, SolInvariant, PTL

=============================================================================
