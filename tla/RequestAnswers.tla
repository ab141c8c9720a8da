--------------------------- MODULE RequestAnswers ---------------------------
(***************************************************************************)
(* What a dapp may rely on when it asks the user for something: it hears   *)
(* "yes" only while its request is being served, that is, somebody agreed  *)
(* and the result is on its way, and an answer is never taken back.  A     *)
(* request may also go unanswered.                                         *)
(***************************************************************************)
CONSTANT Requests

VARIABLES
  answer,  \* per request: none (not made), waiting, yes, no
  served   \* requests the user agreed to and whose result is being made

asks == <<answer, served>>

AskInit ==
  /\ answer = [r \in Requests |-> "none"]
  /\ served = {}

(* Only what was asked for is served.  The user may agree at any time, also *)
(* to a request that was answered meanwhile; a result may not come about.   *)
ServesAsked == \A r \in served' : answer'[r] # "none"

Ask(r) ==
  /\ answer[r] = "none"
  /\ answer' = [answer EXCEPT ![r] = "waiting"]

Refuse(r) ==
  /\ answer[r] \in {"none", "waiting"}
  /\ answer' = [answer EXCEPT ![r] = "no"]

Grant(r) ==
  /\ answer[r] = "waiting"
  /\ r \in served
  /\ answer' = [answer EXCEPT ![r] = "yes"]

AskNext ==
  /\ ServesAsked
  /\ \/ \E r \in Requests : Ask(r) \/ Refuse(r) \/ Grant(r)
     \/ UNCHANGED answer

AskSpec == AskInit /\ [][AskNext]_asks
=============================================================================
