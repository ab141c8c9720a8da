------------------------------- MODULE MCDapps -------------------------------
(* Small instances of what dapps ask the user for besides transactions of   *)
(* the old pages: signatures (SigningMessages), the approvals of the new    *)
(* application and their window (Approvals), and the requests of Solana     *)
(* dapps (SolRequests); and of what is polled while a window is open, the   *)
(* balances (Balances) and the prices (TokenRates).  They share no state    *)
(* but the chosen network; a behaviour exercises the one its focus names.   *)
EXTENDS SigningMessages, Approvals, SolRequests, Balances, TokenRates, TLC

CONSTANTS r1, r2, o1, q1, q2, q3, s1, s2, i1, i2

(* Two calls of one dapp. *)
CallOrigins == [r \in {r1, r2} |-> o1]

(* Two sites whose first requests have the same id. *)
AskSites == q1 :> s1 @@ q2 :> s2 @@ q3 :> s1
AskIds == q1 :> i1 @@ q2 :> i1 @@ q3 :> i2

VARIABLE focus

polledVars == <<sessionVars, tables, table, cachedBalances, ready, listening,
                inFlight, wanted, contractExchangeRates, polling, asking>>
dappsVars == <<focus, msgVars, apVars, solVars, polledVars>>

(* What the focus leaves alone starts in one way only.  Of two calls it     *)
(* makes no difference which is of which kind.  Bounds: the first request   *)
(* of s1 is to connect, its second does or undoes it again; s2 asks to      *)
(* connect, or for a signature if the second of s1 is no disconnect.        *)
DappsInit ==
  /\ MsgInit /\ ApInit /\ SolInit /\ BalInit /\ RateInit
  /\ focus \in {"messages", "approvals", "solana", "balances", "rates"}
  /\ chosen = (CHOOSE a \in Addrs : TRUE)
  /\ focus \notin {"balances", "rates"} => provider = (CHOOSE c \in Chains : TRUE)
  /\ focus # "messages" => network = CHOOSE n \in Networks : TRUE
  /\ call[r2].kind = "connect" => call[r1].kind = "connect"
  /\ call[r1].kind = "watch" => call[r2].kind = "watch"
  /\ focus # "approvals" =>
       current = Nobody /\ \A r \in Reqs : call[r].kind = "send"
  /\ ask[q1].kind = "connect" /\ ask[q2].kind # "disconnect" /\ ask[q3].kind # "sign"
  /\ ask[q2].kind = "sign" => ask[q3].kind = "connect"
  /\ focus # "solana" => ask[q2].kind = "sign" /\ ask[q3].kind = "connect"

DappsNext ==
  \/ focus = "messages" /\ MsgNext /\ UNCHANGED <<apVars, solVars, polledVars, focus>>
  \/ focus = "approvals" /\ ApNext /\ UNCHANGED <<msgVars, solVars, polledVars, focus>>
  \/ focus = "solana" /\ SolNext /\ UNCHANGED <<msgVars, apVars, polledVars, focus>>
  \/ /\ focus = "balances" /\ BalNext
     /\ UNCHANGED <<msgVars, apVars, solVars, wanted, contractExchangeRates, polling,
                    asking, focus>>
  \/ /\ focus = "rates" /\ RateNext
     /\ UNCHANGED <<msgVars, apVars, solVars, tables, table, cachedBalances, ready,
                    listening, inFlight, focus>>

(* Every variable keeps its type.                                           *)
DappsTypes == MsgTypeOK /\ ApTypeOK /\ SolTypeOK /\ BalTypeOK /\ RateTypeOK

DappsSpec ==
  /\ DappsInit /\ [][DappsNext]_dappsVars
  /\ MsgFairness /\ ApFairness /\ SolFairness /\ BalFairness /\ RateFairness

-----------------------------------------------------------------------------
(* Properties of several components *)

(* The windows of the new application and the popups of Solana dapps keep   *)
(* the contract of requests and answers, each its own way.                  *)
WindowsImplementAnswers == ApprovalsImplementAnswers /\ SolImplementsAnswers

(* What was decided is told: a message that was approved, a Solana site     *)
(* that disconnects.                                                        *)
DecidedIsTold == ApprovedIsAnswered /\ DisconnectAnswered

(* Balances and prices do not stay those of another chain, or of an older   *)
(* request, once things calm down.                                          *)
PolledCatchesUp == BalancesCatchUp /\ RatesCatchUp
=============================================================================
