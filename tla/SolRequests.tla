----------------------------- MODULE SolRequests -----------------------------
(***************************************************************************)
(* Requests of Solana dapps: the background script of                      *)
(* src/wallets/providers/SOL/dapp and the popup the user answers on        *)
(* (PageApprovePopupSOL).  Every request that needs the user gets a popup  *)
(* of its own; its answer finds the dapp by the id of the request alone,   *)
(* and every page counts its ids from one.                                 *)
(*                                                                         *)
(* connectedWallets is kept in the browser's storage, read and written by  *)
(* the background page and by the popups, each with a get and a later set. *)
(* storage[q] is where the access made for q is:                           *)
(*   asked   the value was asked for                                       *)
(*   got     it was read (held[q]); its callback has not run               *)
(***************************************************************************)
EXTENDS Naturals, Sequences

CONSTANTS
  Asks,      \* the requests of a run
  SiteOf,    \* the site each is from
  IdOf,      \* its message id
  NoAsk,     \* no request
  NoStore    \* connectedWallets was never written

ASSUME NoAskAssumption == NoAsk \notin Asks

VARIABLES
  ask,       \* per request: its kind, and what the dapp heard
  handlers,  \* responseHandlers: per id, the request that is answered
  popup,     \* per request, its popup
  signatures,  \* requests whose popup waits for the wallet to sign
  answers,   \* per popup, what it sent to the background page
  storage, held,  \* see above
  stored     \* connectedWallets: the sites in it

solVars == <<ask, handlers, popup, signatures, answers, storage, held, stored>>

SolKinds == {"connect", "disconnect", "sign"}
Replies == {"none", "waiting", "yes", "no"}
Popups == {"none", "asked", "open", "connected", "answered", "closed"}
Sites == {SiteOf[q] : q \in Asks}
Ids == {IdOf[q] : q \in Asks}
Stores == (SUBSET Sites) \cup {NoStore}

SolTypeOK ==
  /\ ask \in [Asks -> [kind : SolKinds, reply : Replies]]
  /\ handlers \in [Ids -> Asks \cup {NoAsk}]
  /\ popup \in [Asks -> Popups]
  /\ signatures \subseteq Asks
  /\ answers \in [Asks -> Seq({"yes", "no"})]
  /\ storage \in [Asks -> {"idle", "asked", "got"}]
  /\ held \in [Asks -> Stores]
  /\ stored \in Stores

SolInit ==
  /\ ask \in [Asks -> [kind : SolKinds, reply : {"none"}]]
  /\ handlers = [i \in Ids |-> NoAsk]
  /\ popup = [q \in Asks |-> "none"]
  /\ signatures = {}
  /\ answers = [q \in Asks |-> <<>>]
  /\ storage = [q \in Asks |-> "idle"]
  /\ held = [q \in Asks |-> NoStore]
  /\ stored = NoStore

(* What `connectedWallets || {}` has. *)
SitesOf(value) == IF value = NoStore THEN {} ELSE value

Reply(q, what) == ask' = [ask EXCEPT ![q].reply = what]
StorageAt(q, stage) == storage' = [storage EXCEPT ![q] = stage]

-----------------------------------------------------------------------------
(* The background page. *)

(* The popup is created once the last focused window is known. *)
LaunchPopup(q) ==
  /\ popup' = [popup EXCEPT ![q] = "asked"]
  /\ handlers' = [handlers EXCEPT ![IdOf[q]] = q]

(* connect and disconnect read connectedWallets first. *)
SolRequest(q) ==
  /\ ask[q].reply = "none"
  /\ Reply(q, "waiting")
  /\ \/ /\ ask[q].kind = "sign"
        /\ LaunchPopup(q)
        /\ UNCHANGED storage
     \/ /\ ask[q].kind \in {"connect", "disconnect"}
        /\ StorageAt(q, "asked")
        /\ UNCHANGED <<popup, handlers>>
  /\ UNCHANGED <<signatures, answers, held, stored>>

StorageGet(q) ==
  /\ storage[q] = "asked"
  /\ StorageAt(q, "got")
  /\ held' = [held EXCEPT ![q] = stored]
  /\ UNCHANGED <<ask, handlers, popup, signatures, answers, stored>>

(* The callback of the background page's read. *)
Handles(q, kind) ==
  /\ ask[q].kind = kind /\ storage[q] = "got" /\ popup[q] = "none"
  /\ StorageAt(q, "idle")

HandleConnect(q) ==
  /\ Handles(q, "connect")
  /\ \/ /\ SiteOf[q] \notin SitesOf(held[q])
        /\ LaunchPopup(q)
        /\ UNCHANGED ask
     \/ /\ SiteOf[q] \in SitesOf(held[q])
        /\ Reply(q, "yes")
        /\ UNCHANGED <<popup, handlers>>
  /\ UNCHANGED <<signatures, answers, held, stored>>

(* The answer is sent only for a site that was connected. *)
DisconnectKnown(q) ==
  /\ Handles(q, "disconnect")
  /\ \/ /\ SiteOf[q] \notin SitesOf(held[q])
        /\ UNCHANGED <<ask, stored>>
     \/ /\ SiteOf[q] \in SitesOf(held[q])
        /\ stored' = held[q] \ {SiteOf[q]}
        /\ Reply(q, "yes")
  /\ UNCHANGED <<handlers, popup, signatures, answers, held>>

(* Where connectedWallets was never written the callback throws. *)
HandleDisconnect(q) ==
  /\ Handles(q, "disconnect")
  /\ \/ /\ held[q] = NoStore
        /\ UNCHANGED <<ask, stored>>
     \/ /\ held[q] # NoStore
        /\ stored' = held[q] \ {SiteOf[q]}
        /\ Reply(q, "yes")
  /\ UNCHANGED <<handlers, popup, signatures, answers, held>>

(* A message of q's popup: it answers the request that is registered under  *)
(* q's id now.  There may be none, and calling it throws.                   *)
AnswerKept(q) ==
  /\ answers[q] # <<>>
  /\ answers' = [answers EXCEPT ![q] = Tail(@)]
  /\ handlers[IdOf[q]] # NoAsk
  /\ Reply(handlers[IdOf[q]], Head(answers[q]))
  /\ UNCHANGED <<handlers, popup, signatures, storage, held, stored>>

AnswerHandler(q) ==
  /\ answers[q] # <<>>
  /\ answers' = [answers EXCEPT ![q] = Tail(@)]
  /\ handlers' = [handlers EXCEPT ![IdOf[q]] = NoAsk]
  /\ \/ /\ handlers[IdOf[q]] = NoAsk
        /\ UNCHANGED ask
     \/ /\ handlers[IdOf[q]] # NoAsk
        /\ Reply(handlers[IdOf[q]], Head(answers[q]))
  /\ UNCHANGED <<popup, signatures, storage, held, stored>>

-----------------------------------------------------------------------------
(* The popup. *)

PopupOpens(q) ==
  /\ popup[q] = "asked"
  /\ popup' = [popup EXCEPT ![q] = "open"]
  /\ UNCHANGED <<ask, handlers, signatures, answers, storage, held, stored>>

(* sendMessageToBg and popRequest: the page is left with no request and     *)
(* closes itself.                                                           *)
Sends(q, what, left) ==
  /\ answers' = [answers EXCEPT ![q] = Append(@, what)]
  /\ popup' = [popup EXCEPT ![q] = left]

(* A site that had something signed would be remembered as well. *)
OnConnectAny(q) ==
  /\ popup[q] = "open"
  /\ Sends(q, "yes", "connected")
  /\ StorageAt(q, "asked")
  /\ UNCHANGED <<ask, handlers, signatures, held, stored>>

(* The page answers before connectedWallets is read and written. *)
OnConnect(q) ==
  /\ popup[q] = "open" /\ ask[q].kind = "connect"
  /\ Sends(q, "yes", "connected")
  /\ StorageAt(q, "asked")
  /\ UNCHANGED <<ask, handlers, signatures, held, stored>>

SaveConnection(q) ==
  /\ popup[q] = "connected" /\ storage[q] = "got"
  /\ StorageAt(q, "idle")
  /\ stored' = SitesOf(held[q]) \cup {SiteOf[q]}
  /\ UNCHANGED <<ask, handlers, popup, signatures, answers, held>>

(* Bound: a request is signed once at a time (of a text the button can be   *)
(* pressed again meanwhile).                                                *)
OnApprove(q) ==
  /\ popup[q] = "open" /\ ask[q].kind = "sign" /\ q \notin signatures
  /\ signatures' = signatures \cup {q}
  /\ UNCHANGED <<ask, handlers, popup, answers, storage, held, stored>>

(* The wallet has signed.  Where the user rejected meanwhile the page may   *)
(* still be there to send it.                                               *)
OnSigned(q) ==
  /\ q \in signatures
  /\ signatures' = signatures \ {q}
  /\ Sends(q, "yes", "answered") \/ UNCHANGED <<answers, popup>>
  /\ UNCHANGED <<ask, handlers, storage, held, stored>>

(* The page for a connection closes its window instead. *)
OnReject(q) ==
  /\ popup[q] = "open" /\ ask[q].kind = "sign"
  /\ Sends(q, "no", "answered")
  /\ UNCHANGED <<ask, handlers, signatures, storage, held, stored>>

(* Nobody tells the background page (the page has a TODO to do so).  What   *)
(* the page has under way is lost.                                          *)
PopupCloses(q) ==
  /\ popup[q] \in {"open", "connected", "answered"}
  /\ popup' = [popup EXCEPT ![q] = IF @ = "open" THEN "closed" ELSE @]
  /\ signatures' = signatures \ {q}
  /\ StorageAt(q, "idle")
  /\ UNCHANGED <<ask, handlers, answers, held, stored>>

SolBackground(q) ==
  \/ StorageGet(q)
  \/ HandleConnect(q)
  \/ HandleDisconnect(q)
  \/ AnswerHandler(q)

SolPopup(q) ==
  \/ PopupOpens(q)
  \/ OnConnect(q)
  \/ SaveConnection(q)
  \/ OnApprove(q)
  \/ OnSigned(q)
  \/ OnReject(q)
  \/ PopupCloses(q)

SolNext == \E q \in Asks : SolRequest(q) \/ SolBackground(q) \/ SolPopup(q)

SolSpec == SolInit /\ [][SolNext]_solVars

(* The storage answers and messages arrive.                                 *)
SolFairness == \A q \in Asks : WF_solVars(SolBackground(q))

-----------------------------------------------------------------------------
(* Properties *)

IsAgreed(q) == \E i \in 1..Len(answers[q]) : answers[q][i] = "yes"

SolAnswers == INSTANCE RequestAnswers WITH
  Requests <- Asks,
  answer <- [q \in Asks |-> ask[q].reply],
  served <- {q \in Asks :
               \/ handlers[IdOf[q]] = q
                  /\ \E p \in Asks : IdOf[p] = IdOf[q] /\ IsAgreed(p)
               \/ ask[q].kind = "connect" /\ storage[q] = "got"
                  /\ SiteOf[q] \in SitesOf(held[q])
               \/ ask[q].kind = "disconnect" /\ storage[q] = "got"}

(* A Solana dapp gets one answer, however often a popup sends one, and a    *)
(* yes only of a popup that was opened under its id.  (Pages number their   *)
(* requests alike, so it may be the popup of another site.)                 *)
SolImplementsAnswers == SolAnswers!AskSpec

(* Writes of connectedWallets that overlap may lose a site, or bring one    *)
(* back that disconnected, but put none there whose connection the user     *)
(* never approved: connect is answered unasked for no other.                *)
SitesWereApproved ==
  \A value \in {stored} \cup {held[q] : q \in Asks} : \A s \in SitesOf(value) :
    \E q \in Asks : SiteOf[q] = s /\ ask[q].kind = "connect" /\ popup[q] = "connected"

(* A site that disconnects is answered, connected or not, once any site     *)
(* was ever connected.                                                      *)
DisconnectAnswered ==
  []<>(\A q \in Asks : ask[q].kind = "disconnect" /\ ask[q].reply = "waiting"
         => storage[q] = "idle" /\ held[q] = NoStore)
=============================================================================
