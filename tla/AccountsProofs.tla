--------------------------- MODULE AccountsProofs ---------------------------
(***************************************************************************)
(* Proofs about accounts, and who waits for or sees them.                  *)
(*                                                                         *)
(* A page's flag "processing" is true exactly while a request of that page *)
(* waits for the unlock.  What makes this inductive is the queue: a        *)
(* request waits once, and a page that waits asks for nothing else.        *)
(*                                                                         *)
(* What a page was told is nothing, or what it would get now.  Every       *)
(* change of the permissions of a dapp or of the order of the accounts     *)
(* notifies the pages it makes a difference to; and a dapp whose approval  *)
(* is asked for is permitted nothing, so the one page that is answered is  *)
(* the only one that knows an account.                                     *)
(*                                                                         *)
(* The home page shows one account.  Everything that changes the chosen    *)
(* account ends in Show, which brings chain, wallet and tokens in line     *)
(* with it; the answers to requests for tokens pass the guard of           *)
(* setCurrentTokens.                                                       *)
(*                                                                         *)
(* The list of the home page loses no account.  The loop that puts         *)
(* addresses right has dealt with a prefix of the list, what it writes     *)
(* there names the account it replaces, and the rest is as it was; what    *)
(* others add meanwhile comes after.                                       *)
(*                                                                         *)
(* The name of a site with permissions is not forgotten; and put side by   *)
(* side in MCAccounts, all of these keep their types.                      *)
(***************************************************************************)
EXTENDS MCAccounts, SessionProofs, VaultProofs, SequenceTheorems

-----------------------------------------------------------------------------
(* Requests for accounts: permissionsMethodMiddleware.js and the queue of the *)
(* unlock.                                                                  *)

CallsOK ==
  /\ call \in [Calls -> [tab : Tabs \cup {None}, at : CallStates]]
  /\ \A k \in Calls : call[k].at # "unborn" => call[k].tab \in Tabs
  /\ processing \in [Tabs -> BOOLEAN]
  /\ approval \in [Origins -> Calls \cup {Interface, None}]

(* The queue of the unlock holds the requests that wait for it, each once. *)
QueueWaits ==
  /\ waiting \in Seq(Calls)
  /\ \A k \in Calls : call[k].at = "unlock" <=> \E i \in 1..Len(waiting) : waiting[i] = k
  /\ \A i, j \in 1..Len(waiting) : waiting[i] = waiting[j] => i = j

(* A page waits for the unlock with one request, and its flag says so. *)
WaitsOnce ==
  \A j, k \in Calls :
    call[j].at = "unlock" /\ call[k].at = "unlock" /\ call[j].tab = call[k].tab => j = k
FlagFits ==
  \A t \in Tabs : processing[t] <=> \E k \in Calls : call[k].tab = t /\ call[k].at = "unlock"

ApprovalFits ==
  \A k \in Calls, o \in Origins :
    approval[o] = k <=> call[k].at \in Asking /\ OriginOf[call[k].tab] = o

CallInv == CallsOK /\ QueueWaits /\ WaitsOnce /\ FlagFits /\ ApprovalFits

LEMMA CallInitInv == PermInit => CallInv
BY ApprovalNamesAssumption
DEF PermInit, CallInv, CallsOK, CallStates, QueueWaits, WaitsOnce, FlagFits, ApprovalFits,
    Asking

LEMMA CallsUntouched ==
  ASSUME CallInv, UNCHANGED <<waiting, call, processing, approval>>
  PROVE  CallInv'
BY DEF CallInv, CallsOK, QueueWaits, WaitsOnce, FlagFits, ApprovalFits

(* A request that goes on without waiting for the unlock, before or after.  *)
LEMMA OthersWait ==
  ASSUME CallInv, NEW k \in Calls, NEW t \in Tabs, NEW r \in CallStates,
         r \notin {"unlock", "unborn"}, call[k].at # "unlock",
         call' = [call EXCEPT ![k] = [tab |-> t, at |-> r]],
         approval' \in [Origins -> Calls \cup {Interface, None}],
         UNCHANGED <<waiting, processing>>
  PROVE  CallsOK' /\ QueueWaits' /\ WaitsOnce' /\ FlagFits'
<1> USE DEF CallInv, CallsOK
<1>1. /\ call'[k] = [tab |-> t, at |-> r]
      /\ \A j \in Calls : j # k => call'[j] = call[j]
  OBVIOUS
<1>2. call' \in [Calls -> [tab : Tabs \cup {None}, at : CallStates]]
  OBVIOUS
<1>3. \A j \in Calls : call'[j].at = "unlock" <=> j # k /\ call[j].at = "unlock"
  BY <1>1
<1>4. CallsOK'
  BY <1>1, <1>2
<1>5. QueueWaits'
  BY <1>1 DEF QueueWaits
<1>6. WaitsOnce' /\ FlagFits'
  BY <1>1 DEF WaitsOnce, FlagFits
<1> QED BY <1>4, <1>5, <1>6

(* A request asks for an approval only if its origin has none.              *)
LEMMA TryFits ==
  ASSUME CallInv, NEW k \in Calls, NEW t \in Tabs, call[k].at \notin Asking,
         TryAccounts(k, t)
  PROVE  /\ approval' \in [Origins -> Calls \cup {Interface, None}]
         /\ ApprovalFits'
         /\ \E r \in {"accounts", "approval", "refused"} :
              call' = [call EXCEPT ![k] = [tab |-> t, at |-> r]]
<1> DEFINE o == OriginOf[t]
<1> USE DEF CallInv, CallsOK
<1>1. o \in Origins
  BY OriginOfAssumption
<1>2. \A d \in Origins : approval[d] # k
  BY DEF ApprovalFits
<1>3. ASSUME NEW r \in {"accounts", "refused"}, UNCHANGED approval,
             call' = [call EXCEPT ![k] = [tab |-> t, at |-> r]]
      PROVE  ApprovalFits'
  <2>1. call'[k].at = r /\ \A j \in Calls : j # k => call'[j] = call[j]
    BY <1>3
  <2> QED BY <2>1, <1>2, <1>3 DEF ApprovalFits, Asking
<1>4. ASSUME approval[o] = None, approval' = [approval EXCEPT ![o] = k],
             call' = [call EXCEPT ![k] = [tab |-> t, at |-> "approval"]]
      PROVE  ApprovalFits'
  <2>1. call'[k] = [tab |-> t, at |-> "approval"] /\ \A j \in Calls : j # k => call'[j] = call[j]
    BY <1>4
  <2>2. approval'[o] = k /\ \A d \in Origins : d # o => approval'[d] = approval[d]
    BY <1>4, <1>1
  <2>3. \A d \in Origins : approval'[d] = k <=> d = o
    BY <2>2, <1>2
  <2>4. \A j \in Calls : ~(call[j].at \in Asking /\ OriginOf[call[j].tab] = o)
    BY <1>4, <1>1, ApprovalNamesAssumption DEF ApprovalFits
  <2> QED BY <2>1, <2>2, <2>3, <2>4 DEF ApprovalFits, Asking
<1> QED BY <1>1, <1>3, <1>4 DEF TryAccounts, Answer, MayAsk

LEMMA AnsweredAtOnce ==
  ASSUME CallInv, NEW k \in Calls, NEW t \in Tabs,
         NEW r \in {"busy", "none", "refused"},
         call[k].at = "unborn", call' = [call EXCEPT ![k] = [tab |-> t, at |-> r]],
         UNCHANGED <<waiting, processing, approval>>
  PROVE  CallInv'
<1>1. CallsOK' /\ QueueWaits' /\ WaitsOnce' /\ FlagFits'
  BY OthersWait DEF CallStates, CallInv, CallsOK
<1>2. ApprovalFits'
  BY DEF CallInv, CallsOK, ApprovalFits, Asking
<1> QED BY <1>1, <1>2 DEF CallInv

LEMMA RequestAccountsInv ==
  ASSUME CallInv, NEW k \in Calls, NEW t \in Tabs, RequestAccounts(k, t) PROVE CallInv'
<1> USE DEF CallInv
<1>1. call[k].at = "unborn"
  BY DEF RequestAccounts
<1>2. CASE Answer(k, t, "busy", {}) /\ UNCHANGED <<waiting, processing, approval>>
  BY <1>1, <1>2, AnsweredAtOnce DEF Answer
<1>3. CASE /\ ~processing[t] /\ processing' = [processing EXCEPT ![t] = TRUE]
           /\ waiting' = Append(waiting, k)
           /\ Answer(k, t, "unlock", {}) /\ UNCHANGED approval
  <2> USE DEF CallsOK
  <2>1. call'[k] = [tab |-> t, at |-> "unlock"] /\ \A j \in Calls : j # k => call'[j] = call[j]
    BY <1>3 DEF Answer
  <2>2. \A j \in Calls : call[j].at = "unlock" => call[j].tab # t
    BY <1>3 DEF FlagFits
  <2>3. CallsOK'
    BY <1>3, <2>1 DEF Answer, CallStates
  <2>4. QueueWaits'
    <3> DEFINE n == Len(waiting)
    <3>1. n \in Nat /\ waiting \in Seq(Calls)
      BY DEF QueueWaits
    <3>2. /\ waiting' \in Seq(Calls) /\ Len(waiting') = n + 1 /\ waiting'[n + 1] = k
          /\ \A i \in 1..n : waiting'[i] = waiting[i]
      BY <1>3, <3>1
    <3>3. \A i \in 1..n : waiting[i] # k
      BY <1>1 DEF QueueWaits
    <3>4. \A j \in Calls : j # k =>
            (call'[j].at = "unlock" <=> \E i \in 1..Len(waiting') : waiting'[i] = j)
      <4> SUFFICES ASSUME NEW j \in Calls, j # k
                   PROVE  call[j].at = "unlock" <=> \E i \in 1..(n + 1) : waiting'[i] = j
        BY <2>1, <3>2
      <4>1. call[j].at = "unlock" <=> \E i \in 1..n : waiting[i] = j
        BY DEF QueueWaits
      <4>2. \A i \in 1..(n + 1) : i \in 1..n \/ i = n + 1
        BY <3>1
      <4>3. 1..n \subseteq 1..(n + 1)
        BY <3>1
      <4> QED BY <3>2, <4>1, <4>2, <4>3
    <3>5. call'[k].at = "unlock" /\ \E i \in 1..Len(waiting') : waiting'[i] = k
      BY <2>1, <3>1, <3>2
    <3>6. \A i, j \in 1..Len(waiting') : waiting'[i] = waiting'[j] => i = j
      BY <3>1, <3>2, <3>3 DEF QueueWaits
    <3> QED BY <3>2, <3>4, <3>5, <3>6 DEF QueueWaits
  <2>5. WaitsOnce'
    BY <2>1, <2>2 DEF WaitsOnce
  <2>6. FlagFits'
    <3> SUFFICES ASSUME NEW u \in Tabs
                 PROVE  processing'[u]
                          <=> \E j \in Calls : call'[j].tab = u /\ call'[j].at = "unlock"
      BY DEF FlagFits
    <3>1. processing[u] <=> \E j \in Calls : call[j].tab = u /\ call[j].at = "unlock"
      BY DEF FlagFits
    <3>2. CASE u = t
      BY <1>3, <2>1, <3>2
    <3>3. CASE u # t
      <4>1. processing'[u] = processing[u]
        BY <1>3, <3>3
      <4> QED BY <1>1, <2>1, <3>1, <3>3, <4>1
    <3> QED BY <3>2, <3>3
  <2>7. ApprovalFits'
    BY <1>1, <1>3, <2>1 DEF ApprovalFits, Asking
  <2> QED BY <2>3, <2>4, <2>5, <2>6, <2>7
<1>4. CASE TryAccounts(k, t) /\ UNCHANGED <<waiting, processing>>
  <2>1. PICK r \in {"accounts", "approval", "refused"} :
          call' = [call EXCEPT ![k] = [tab |-> t, at |-> r]]
    BY <1>1, <1>4, TryFits DEF Asking
  <2>2. ApprovalFits' /\ approval' \in [Origins -> Calls \cup {Interface, None}]
    BY <1>1, <1>4, TryFits DEF Asking
  <2>3. CallsOK' /\ QueueWaits' /\ WaitsOnce' /\ FlagFits'
    BY <1>1, <1>4, <2>1, <2>2, OthersWait DEF CallStates, Asking
  <2> QED BY <2>2, <2>3
<1> QED BY <1>2, <1>3, <1>4 DEF RequestAccounts

LEMMA RequestPermissionsInv ==
  ASSUME CallInv, NEW k \in Calls, NEW t \in Tabs, RequestPermissions(k, t) PROVE CallInv'
<1> DEFINE o == OriginOf[t]
<1> USE DEF CallInv, CallsOK
<1>1. call[k].at = "unborn" /\ o \in Origins
  BY OriginOfAssumption DEF RequestPermissions
<1>2. CASE approval[o] # None
  <2>1. approval' = approval
    BY <1>1, <1>2 DEF RequestPermissions, MayAsk
  <2> QED BY <1>1, <1>2, <2>1, AnsweredAtOnce DEF RequestPermissions, MayAsk, Answer
<1>3. CASE approval[o] = None
  <2>1. /\ approval' = [approval EXCEPT ![o] = k]
        /\ call' = [call EXCEPT ![k] = [tab |-> t, at |-> "permission"]]
        /\ UNCHANGED <<waiting, processing>>
    BY <1>1, <1>3 DEF RequestPermissions, MayAsk, Answer
  <2>2. CallsOK' /\ QueueWaits' /\ WaitsOnce' /\ FlagFits'
    <3>1. "permission" \in CallStates /\ approval' \in [Origins -> Calls \cup {Interface, None}]
      BY <1>1, <2>1 DEF CallStates, Asking
    <3>2. "permission" \notin {"unlock", "unborn"} /\ call[k].at # "unlock"
      BY <1>1
    <3> HIDE DEF CallInv, CallsOK
    <3> QED BY <2>1, <3>1, <3>2, OthersWait
  <2>3. call'[k] = [tab |-> t, at |-> "permission"] /\ \A j \in Calls : j # k => call'[j] = call[j]
    BY <2>1
  <2>4. \A d \in Origins : approval'[d] = k <=> d = o
    BY <1>1, <2>1 DEF ApprovalFits, Asking
  <2>5. \A j \in Calls : ~(call[j].at \in Asking /\ OriginOf[call[j].tab] = o)
    BY <1>1, <1>3, ApprovalNamesAssumption DEF ApprovalFits
  <2>6. ApprovalFits'
    BY <1>1, <2>1, <2>3, <2>4, <2>5 DEF ApprovalFits, Asking
  <2> QED BY <2>2, <2>6
<1> QED BY <1>2, <1>3

LEMMA RequestInInterfaceInv ==
  ASSUME CallInv, NEW o \in Origins, RequestInInterface(o) PROVE CallInv'
<1> USE DEF CallInv, CallsOK
<1>1. \A j \in Calls : ~(call[j].at \in Asking /\ OriginOf[call[j].tab] = o)
  BY ApprovalNamesAssumption DEF RequestInInterface, MayAsk, ApprovalFits
<1>2. ApprovalFits'
  BY <1>1, ApprovalNamesAssumption DEF RequestInInterface, ApprovalFits
<1> QED BY <1>2 DEF RequestInInterface, QueueWaits, WaitsOnce, FlagFits

LEMMA ResumeInv ==
  ASSUME CallInv, Resume PROVE CallInv'
<1> DEFINE k == Head(waiting)
           t == call[k].tab
           n == Len(waiting)
<1> USE DEF CallInv, CallsOK
<1>1. /\ waiting \in Seq(Calls) /\ n \in Nat \ {0}
      /\ k = waiting[1] /\ k \in Calls /\ Len(waiting') = n - 1
      /\ waiting' \in Seq(Calls) /\ \A i \in 1..(n - 1) : waiting'[i] = waiting[i + 1]
  BY DEF Resume, QueueWaits
<1>2. call[k].at = "unlock" /\ t \in Tabs
  BY <1>1 DEF QueueWaits
<1>3. PICK r \in {"accounts", "approval", "refused"} :
        call' = [call EXCEPT ![k] = [tab |-> t, at |-> r]]
  BY <1>1, <1>2, TryFits DEF Asking, Resume
<1>4. ApprovalFits' /\ approval' \in [Origins -> Calls \cup {Interface, None}]
  BY <1>1, <1>2, TryFits DEF Asking, Resume
<1>5. call'[k] = [tab |-> t, at |-> r] /\ \A j \in Calls : j # k => call'[j] = call[j]
  BY <1>1, <1>3
<1>6. processing' = [processing EXCEPT ![t] = FALSE]
  BY DEF Resume, ClearFlag
<1>7. CallsOK'
  BY <1>1, <1>2, <1>3, <1>4, <1>5, <1>6 DEF CallStates, Asking
<1>8. QueueWaits'
  <2>1. \A j \in Calls : call'[j].at = "unlock" <=> j # k /\ call[j].at = "unlock"
    BY <1>5
  <2>2. \A j \in Calls : (j # k /\ \E i \in 1..n : waiting[i] = j)
                           <=> \E i \in 1..(n - 1) : waiting'[i] = j
    <3> SUFFICES ASSUME NEW j \in Calls
                 PROVE  (j # k /\ \E i \in 1..n : waiting[i] = j)
                           <=> \E i \in 1..(n - 1) : waiting'[i] = j
      OBVIOUS
    <3>1. ASSUME NEW i \in 1..n, j # k, waiting[i] = j
          PROVE  \E h \in 1..(n - 1) : waiting'[h] = j
      <4>1. i # 1 /\ i - 1 \in 1..(n - 1) /\ (i - 1) + 1 = i
        BY <1>1, <3>1
      <4> QED BY <1>1, <3>1, <4>1
    <3>2. ASSUME NEW i \in 1..(n - 1), waiting'[i] = j
          PROVE  j # k /\ \E h \in 1..n : waiting[h] = j
      <4>1. i + 1 \in 1..n /\ 1 \in 1..n /\ i + 1 # 1 /\ waiting[i + 1] = j
        BY <1>1, <3>2
      <4>2. waiting[i + 1] # waiting[1]
        BY <4>1 DEF QueueWaits
      <4> QED BY <1>1, <4>1, <4>2
    <3> QED BY <3>1, <3>2
  <2>3. \A i, j \in 1..(n - 1) : waiting'[i] = waiting'[j] => i = j
    BY <1>1 DEF QueueWaits
  <2> QED BY <1>1, <2>1, <2>2, <2>3 DEF QueueWaits
<1>9. WaitsOnce'
  BY <1>5 DEF WaitsOnce
<1>10. FlagFits'
  <2> SUFFICES ASSUME NEW u \in Tabs
               PROVE  processing'[u]
                        <=> \E j \in Calls : call'[j].tab = u /\ call'[j].at = "unlock"
    BY DEF FlagFits
  <2>1. processing[u] <=> \E j \in Calls : call[j].tab = u /\ call[j].at = "unlock"
    BY DEF FlagFits
  <2>2. CASE u = t
    <3>1. ~processing'[u]
      BY <1>6, <2>2
    <3>2. \A j \in Calls : call[j].tab = t /\ call[j].at = "unlock" => j = k
      BY <1>1, <1>2 DEF WaitsOnce
    <3> QED BY <1>5, <2>2, <3>1, <3>2
  <2>3. CASE u # t
    <3>1. processing'[u] = processing[u]
      BY <1>6, <2>3
    <3> QED BY <1>1, <1>5, <2>1, <2>3, <3>1
  <2> QED BY <2>2, <2>3
<1> QED BY <1>4, <1>7, <1>8, <1>9, <1>10

(* The user answers an approval, which ends, and so does its request.       *)
LEMMA ApprovalIsOver ==
  ASSUME CallInv, NEW o \in Origins, approval[o] # None,
         approval' = [approval EXCEPT ![o] = None],
         call' \in [Calls -> [tab : Tabs \cup {None}, at : CallStates]],
         \A j \in Calls : call'[j].tab = call[j].tab,
         \A j \in Calls : j # approval[o] => call'[j] = call[j],
         approval[o] \in Calls =>
           call'[approval[o]].at \in {"accounts", "unavailable", "refused"},
         UNCHANGED <<waiting, processing>>
  PROVE  CallInv'
<1> USE DEF CallInv, CallsOK
<1>1. \A j \in Calls : j = approval[o] =>
        call[j].at \in Asking /\ call'[j].at \notin Asking \cup {"unborn", "unlock"}
  BY DEF ApprovalFits, Asking
<1>2. \A j \in Calls : call'[j].at = "unlock" <=> call[j].at = "unlock"
  BY <1>1 DEF Asking
<1>3. CallsOK'
  BY <1>1, ApprovalNamesAssumption DEF Asking
<1>4. QueueWaits' /\ WaitsOnce' /\ FlagFits'
  BY <1>2 DEF QueueWaits, WaitsOnce, FlagFits
<1>5. ApprovalFits'
  <2> SUFFICES ASSUME NEW j \in Calls, NEW d \in Origins
               PROVE  approval'[d] = j <=> call'[j].at \in Asking /\ OriginOf[call'[j].tab] = d
    BY DEF ApprovalFits
  <2>1. approval[d] = j <=> call[j].at \in Asking /\ OriginOf[call[j].tab] = d
    BY DEF ApprovalFits
  <2>2. CASE j = approval[o]
    <3>1. \A e \in Origins : approval[e] = j => e = o
      BY <2>2 DEF ApprovalFits
    <3> QED BY <1>1, <2>2, <3>1, ApprovalNamesAssumption
  <2>3. CASE j # approval[o]
    BY <2>1, <2>3, ApprovalNamesAssumption
  <2> QED BY <2>2, <2>3
<1> QED BY <1>3, <1>4, <1>5

LEMMA ApprovePermissionsRequestInv ==
  ASSUME CallInv, NEW o \in Origins, NEW picked, ApprovePermissionsRequest(o, picked)
  PROVE  CallInv'
<1> DEFINE k == approval[o]
<1> USE DEF CallInv, CallsOK
<1>1. /\ k # None /\ approval' = [approval EXCEPT ![o] = None]
      /\ UNCHANGED <<waiting, processing>> /\ k \in Calls \cup {Interface}
  BY DEF ApprovePermissionsRequest
<1>2. CASE UNCHANGED call /\ k = Interface
  BY <1>1, <1>2, ApprovalIsOver, ApprovalNamesAssumption
<1>3. CASE call' = [call EXCEPT ![k].at = "accounts"] /\ k # Interface
  BY <1>1, <1>3, ApprovalIsOver DEF CallStates
<1>4. ASSUME NEW r \in {"accounts", "unavailable"}, k # Interface,
             call' = [call EXCEPT ![k] = [tab |-> call[k].tab, at |-> r]]
      PROVE  CallInv'
  BY <1>1, <1>4, ApprovalIsOver DEF CallStates
<1>5. CASE call' = [j \in Calls |-> IF j = k THEN [call[j] EXCEPT !.at = "refused"] ELSE call[j]]
  BY <1>1, <1>5, ApprovalIsOver DEF CallStates
<1> QED BY <1>2, <1>3, <1>4, <1>5 DEF ApprovePermissionsRequest, Answer

LEMMA RejectPermissionsRequestInv ==
  ASSUME CallInv, NEW o \in Origins, RejectPermissionsRequest(o) PROVE CallInv'
BY ApprovalIsOver DEF RejectPermissionsRequest, CallInv, CallsOK, CallStates

LEMMA CallNextInv == CallInv /\ [PermNext]_permVars => CallInv'
<1> SUFFICES ASSUME CallInv, [PermNext]_permVars PROVE CallInv'
  OBVIOUS
<1>1. ASSUME NEW t \in Tabs, OpenTab(t) \/ CloseTab(t) PROVE CallInv'
  BY <1>1, CallsUntouched DEF OpenTab, CloseTab
<1>2. ASSUME NEW k \in Calls, NEW t \in Tabs, RequestInNewHome(k, t) PROVE CallInv'
  BY <1>2, AnsweredAtOnce DEF RequestInNewHome, Answer
<1>3. ASSUME NEW o \in Origins, NEW a \in Accounts,
             AddPermittedAccount(o, a) \/ RemovePermittedAccount(o, a)
      PROVE  CallInv'
  BY <1>3, CallsUntouched DEF AddPermittedAccount, RemovePermittedAccount
<1>4. CASE SubmitPassword \/ SetLocked \/ ClearPermissions
  BY <1>4, CallsUntouched DEF SubmitPassword, SetLocked, ClearPermissions
<1>5. CASE DisconnectAllDomainAccounts \/ EmitAccountChanged
  BY <1>5, CallsUntouched DEF DisconnectAllDomainAccounts, EmitAccountChanged
<1>6. ASSUME NEW a \in Accounts, SelectAccount(a) PROVE CallInv'
  BY <1>6, CallsUntouched DEF SelectAccount
<1>7. ASSUME NEW a \in Accounts, NEW next \in Accounts, RemoveAccount(a, next) PROVE CallInv'
  BY <1>7, CallsUntouched DEF RemoveAccount
<1>8. CASE UNCHANGED permVars
  BY <1>8, CallsUntouched DEF permVars
<1> QED
  BY <1>1, <1>2, <1>3, <1>4, <1>5, <1>6, <1>7, <1>8, RequestAccountsInv,
     RequestPermissionsInv, RequestInInterfaceInv, ResumeInv,
     ApprovePermissionsRequestInv, RejectPermissionsRequestInv
  DEF PermNext

(* Whatever makes others be refused - the flag of a page, the approval of   *)
(* an origin - is held by a request that waits.                             *)
THEOREM FlagsNeverStick == PermSpec => []FlagMeansWaiting
<1>1. CallInv => FlagMeansWaiting
  <2> SUFFICES ASSUME CallInv PROVE FlagMeansWaiting
    OBVIOUS
  <2>1. waiting = <<>> => \A k \in Calls : call[k].at # "unlock"
    BY DEF CallInv, QueueWaits
  <2> QED BY <2>1 DEF CallInv, FlagFits, ApprovalFits, FlagMeansWaiting, Quiet
<1> QED BY <1>1, CallInitInv, CallNextInv, PTL DEF PermSpec

-----------------------------------------------------------------------------
(* What the pages of a dapp know. *)

(* Of the accounts in the order of their last selection. *)
LEMMA ExposedOf ==
  ASSUME NEW order \in Seq(Accounts), NEW allowed
  PROVE  /\ Exposed(allowed, order) \subseteq allowed
         /\ Exposed(allowed, order) \subseteq Accounts
         /\ Exposed(allowed, order) = {} => allowed \cap ToSet(order) = {}
<1> DEFINE S == {i \in 1..Len(order) : order[i] \in allowed}
<1>1. ASSUME S # {} PROVE Exposed(allowed, order) # {}
  <2>1. PICK n \in S : \A m \in S : n <= m
    <3>1. S \in SUBSET Nat
      OBVIOUS
    <3> HIDE DEF S
    <3> QED BY <1>1, <3>1, LeastNat
  <2>2. \A h \in 1..(n - 1) : order[h] \notin allowed
    <3> SUFFICES ASSUME NEW h \in 1..(n - 1), order[h] \in allowed PROVE FALSE
      OBVIOUS
    <3>1. h \in S /\ h < n
      BY <2>1
    <3> QED BY <2>1, <3>1
  <2> QED BY <2>1, <2>2 DEF Exposed
<1>2. S = {} => allowed \cap ToSet(order) = {}
  BY DEF ToSet
<1>3. \A i \in 1..Len(order) : order[i] \in Accounts
  OBVIOUS
<1>4. Exposed(allowed, order) \subseteq allowed /\ Exposed(allowed, order) \subseteq Accounts
  BY <1>3 DEF Exposed
<1> QED BY <1>1, <1>2, <1>4

LEMMA ExposedFirst ==
  ASSUME NEW order \in Seq(Accounts), NEW allowed, NEW a \in Accounts
  PROVE  /\ <<a>> \o order \in Seq(Accounts)
         /\ Exposed(allowed, <<a>> \o order) =
              IF a \in allowed THEN {a} ELSE Exposed(allowed, order)
<1> DEFINE n == Len(order)
           s == <<a>> \o order
<1>1. /\ n \in Nat /\ s \in Seq(Accounts) /\ Len(s) = n + 1
      /\ s[1] = a /\ \A i \in 1..n : s[i + 1] = order[i]
  OBVIOUS
<1> HIDE DEF s
<1>2. ASSUME a \in allowed PROVE Exposed(allowed, s) = {a}
  <2>1. \A j \in 1..(n + 1) : j # 1 => 1 \in 1..(j - 1)
    BY <1>1
  <2>2. 1 \in 1..(n + 1) /\ 1..(1 - 1) = {}
    BY <1>1
  <2> QED BY <1>1, <1>2, <2>1, <2>2 DEF Exposed
<1>3. ASSUME a \notin allowed PROVE Exposed(allowed, s) = Exposed(allowed, order)
  <2>1. ASSUME NEW i \in 1..n, order[i] \in allowed,
               \A h \in 1..(i - 1) : order[h] \notin allowed
        PROVE  order[i] \in Exposed(allowed, s)
    <3>1. \A h \in 1..((i + 1) - 1) : s[h] \notin allowed
      <4> SUFFICES ASSUME NEW h \in 1..i PROVE s[h] \notin allowed
        BY <1>1
      <4>1. CASE h = 1
        BY <1>1, <1>3, <4>1
      <4>2. CASE h # 1
        <5>1. h - 1 \in 1..(i - 1) /\ h - 1 \in 1..n /\ (h - 1) + 1 = h
          BY <1>1, <4>2
        <5> QED BY <1>1, <2>1, <5>1
      <4> QED BY <4>1, <4>2
    <3>2. i + 1 \in 1..(n + 1) /\ s[i + 1] = order[i]
      BY <1>1
    <3> QED BY <1>1, <2>1, <3>1, <3>2 DEF Exposed
  <2>2. ASSUME NEW j \in 1..(n + 1), s[j] \in allowed,
               \A h \in 1..(j - 1) : s[h] \notin allowed
        PROVE  s[j] \in Exposed(allowed, order)
    <3>1. j # 1
      BY <1>1, <1>3, <2>2
    <3>2. j - 1 \in 1..n /\ (j - 1) + 1 = j
      BY <1>1, <3>1
    <3>3. s[j] = order[j - 1]
      BY <1>1, <3>2
    <3>4. \A h \in 1..((j - 1) - 1) : order[h] \notin allowed
      <4> SUFFICES ASSUME NEW h \in 1..((j - 1) - 1) PROVE order[h] \notin allowed
        OBVIOUS
      <4>1. h \in 1..n /\ h + 1 \in 1..(j - 1)
        BY <1>1, <3>2
      <4> QED BY <1>1, <2>2, <4>1
    <3> QED BY <2>2, <3>2, <3>3, <3>4 DEF Exposed
  <2> QED BY <1>1, <2>1, <2>2 DEF Exposed
<1> QED BY <1>1, <1>2, <1>3 DEF s

LEMMA WithoutIs ==
  ASSUME NEW order \in Seq(Accounts), IsInjective(order), NEW a \in ToSet(order)
  PROVE  \E i \in 1..Len(order) :
           /\ order[i] = a
           /\ Without(order, a) \in Seq(Accounts)
           /\ Len(Without(order, a)) = Len(order) - 1
           /\ \A j \in 1..(Len(order) - 1) :
                Without(order, a)[j] = IF j < i THEN order[j] ELSE order[j + 1]
<1> DEFINE n == Len(order)
           i == CHOOSE h \in 1..n : order[h] = a
<1>1. n \in Nat /\ i \in 1..n /\ order[i] = a
  BY DEF ToSet
<1> DEFINE left == SubSeq(order, 1, i - 1)
           right == SubSeq(order, i + 1, n)
<1>2. Without(order, a) = left \o right
  BY DEF Without, RemoveAt
<1> HIDE DEF i
<1>3. /\ left \in Seq(Accounts) /\ right \in Seq(Accounts)
      /\ Len(left) = i - 1 /\ Len(right) = n - i
      /\ \A j \in 1..(i - 1) : left[j] = order[j]
      /\ \A j \in 1..(n - i) : right[j] = order[i + j]
  BY <1>1
<1> HIDE DEF left, right
<1>4. /\ left \o right \in Seq(Accounts) /\ Len(left \o right) = n - 1
      /\ \A j \in 1..(n - 1) : (left \o right)[j] = IF j < i THEN order[j] ELSE order[j + 1]
  <2>1. left \o right \in Seq(Accounts) /\ Len(left \o right) = n - 1
    <3>1. left \o right \in Seq(Accounts) /\ Len(left \o right) = Len(left) + Len(right)
      BY <1>3, ConcatProperties
    <3>2. (i - 1) + (n - i) = n - 1
      BY <1>1
    <3> QED BY <1>3, <3>1, <3>2
  <2>2. ASSUME NEW j \in 1..(n - 1), j < i PROVE (left \o right)[j] = order[j]
    BY <1>1, <1>3, <2>2
  <2>3. ASSUME NEW j \in 1..(n - 1), ~(j < i) PROVE (left \o right)[j] = order[j + 1]
    <3>1. j - (i - 1) \in 1..(n - i) /\ i + (j - (i - 1)) = j + 1 /\ j > i - 1
      BY <1>1, <2>3
    <3>2. (left \o right)[j] = right[j - (i - 1)]
      BY <1>1, <1>3, <3>1
    <3> QED BY <1>3, <3>1, <3>2
  <2> QED BY <2>1, <2>2, <2>3
<1> QED BY <1>1, <1>2, <1>4

LEMMA WithoutOthers ==
  ASSUME NEW order \in Seq(Accounts), IsInjective(order), NEW a \in ToSet(order)
  PROVE  /\ Without(order, a) \in Seq(Accounts) /\ IsInjective(Without(order, a))
         /\ ToSet(Without(order, a)) = ToSet(order) \ {a}
         /\ \A allowed : a \notin allowed =>
              Exposed(allowed, Without(order, a)) = Exposed(allowed, order)
<1> DEFINE n == Len(order)
           w == Without(order, a)
<1>1. n \in Nat
  OBVIOUS
<1>2. PICK i \in 1..n :
        /\ order[i] = a /\ w \in Seq(Accounts) /\ Len(w) = n - 1
        /\ \A j \in 1..(n - 1) : w[j] = IF j < i THEN order[j] ELSE order[j + 1]
  BY WithoutIs
<1> HIDE DEF w
<1>3. \A j, h \in 1..n : order[j] = order[h] => j = h
  BY DEF IsInjective
<1>4. IsInjective(w)
  <2> SUFFICES ASSUME NEW j \in 1..(n - 1), NEW h \in 1..(n - 1), w[j] = w[h] PROVE j = h
    BY <1>1, <1>2 DEF IsInjective
  <2>1. PICK f \in 1..n : w[j] = order[f] /\ f = IF j < i THEN j ELSE j + 1
    <3>1. j \in 1..n /\ j + 1 \in 1..n
      BY <1>1
    <3> QED BY <1>2, <3>1
  <2>2. PICK g \in 1..n : w[h] = order[g] /\ g = IF h < i THEN h ELSE h + 1
    <3>1. h \in 1..n /\ h + 1 \in 1..n
      BY <1>1
    <3> QED BY <1>2, <3>1
  <2>3. f = g
    BY <1>3, <2>1, <2>2
  <2> QED BY <1>1, <2>1, <2>2, <2>3
<1>5. \A h \in 1..n : h # i => \E j \in 1..(n - 1) : w[j] = order[h]
                                  /\ j = IF h < i THEN h ELSE h - 1
  <2> SUFFICES ASSUME NEW h \in 1..n, h # i
               PROVE  \E j \in 1..(n - 1) : w[j] = order[h] /\ j = IF h < i THEN h ELSE h - 1
    OBVIOUS
  <2>1. CASE h < i
    BY <1>1, <1>2, <2>1
  <2>2. CASE h > i
    <3>1. h - 1 \in 1..(n - 1) /\ ~(h - 1 < i) /\ (h - 1) + 1 = h
      BY <1>1, <2>2
    <3> QED BY <1>2, <2>2, <3>1
  <2> QED BY <1>1, <2>1, <2>2
<1>6. \A j \in 1..(n - 1) : \E h \in 1..n : h # i /\ w[j] = order[h]
                                /\ h = IF j < i THEN j ELSE j + 1
  <2> SUFFICES ASSUME NEW j \in 1..(n - 1)
               PROVE  \E h \in 1..n : h # i /\ w[j] = order[h] /\ h = IF j < i THEN j ELSE j + 1
    OBVIOUS
  <2>1. j \in 1..n /\ j + 1 \in 1..n
    BY <1>1
  <2> QED BY <1>1, <1>2, <2>1
<1>7. ToSet(w) = ToSet(order) \ {a}
  <2>1. ToSet(w) = {w[j] : j \in 1..(n - 1)} /\ ToSet(order) = {order[h] : h \in 1..n}
    <3>1. DOMAIN w = 1..(n - 1) /\ DOMAIN order = 1..n
      BY <1>1, <1>2
    <3> QED BY <3>1 DEF ToSet
  <2>2. ASSUME NEW h \in 1..n, order[h] # a PROVE order[h] \in ToSet(w)
    BY <1>2, <1>5, <2>1, <2>2
  <2>3. ASSUME NEW j \in 1..(n - 1) PROVE w[j] \in ToSet(order) \ {a}
    BY <1>2, <1>3, <1>6, <2>1
  <2> QED BY <2>1, <2>2, <2>3
<1>8. ASSUME NEW allowed, a \notin allowed
      PROVE  Exposed(allowed, w) = Exposed(allowed, order)
  <2>1. ASSUME NEW h \in 1..n, order[h] \in allowed,
               \A g \in 1..(h - 1) : order[g] \notin allowed
        PROVE  order[h] \in Exposed(allowed, w)
    <3>1. h # i
      BY <1>2, <1>8, <2>1
    <3>2. PICK j \in 1..(n - 1) : w[j] = order[h] /\ j = IF h < i THEN h ELSE h - 1
      BY <1>5, <3>1
    <3>3. \A g \in 1..(j - 1) : w[g] \notin allowed
      <4> SUFFICES ASSUME NEW g \in 1..(j - 1) PROVE w[g] \notin allowed
        OBVIOUS
      <4>1. g \in 1..(n - 1)
        BY <1>1, <3>2
      <4>2. PICK f \in 1..n : w[g] = order[f] /\ f = IF g < i THEN g ELSE g + 1
        BY <1>6, <4>1
      <4>3. f \in 1..(h - 1)
        BY <1>1, <3>1, <3>2, <4>2
      <4> QED BY <2>1, <4>2, <4>3
    <3> QED BY <1>2, <2>1, <3>2, <3>3 DEF Exposed
  <2>2. ASSUME NEW j \in 1..(n - 1), w[j] \in allowed,
               \A g \in 1..(j - 1) : w[g] \notin allowed
        PROVE  w[j] \in Exposed(allowed, order)
    <3>1. PICK h \in 1..n : h # i /\ w[j] = order[h] /\ h = IF j < i THEN j ELSE j + 1
      BY <1>6
    <3>2. \A g \in 1..(h - 1) : order[g] \notin allowed
      <4> SUFFICES ASSUME NEW g \in 1..(h - 1), order[g] \in allowed PROVE FALSE
        OBVIOUS
      <4>1. g \in 1..n /\ g # i
        BY <1>1, <1>2, <1>8
      <4>2. PICK f \in 1..(n - 1) : w[f] = order[g] /\ f = IF g < i THEN g ELSE g - 1
        BY <1>5, <4>1
      <4>3. f \in 1..(j - 1)
        BY <1>1, <3>1, <4>1, <4>2
      <4> QED BY <2>2, <4>2, <4>3
    <3> QED BY <2>2, <3>1, <3>2 DEF Exposed
  <2>3. Exposed(allowed, w) \subseteq Exposed(allowed, order)
    BY <1>2, <2>2 DEF Exposed
  <2>4. Exposed(allowed, order) \subseteq Exposed(allowed, w)
    BY <2>1 DEF Exposed
  <2> QED BY <2>3, <2>4
<1> QED BY <1>2, <1>4, <1>7, <1>8 DEF w

LEMMA ConsIs ==
  ASSUME NEW rest \in Seq(Accounts), IsInjective(rest),
         NEW a \in Accounts, a \notin ToSet(rest)
  PROVE  /\ <<a>> \o rest \in Seq(Accounts) /\ <<a>> \o rest # <<>>
         /\ IsInjective(<<a>> \o rest) /\ ToSet(<<a>> \o rest) = ToSet(rest) \cup {a}
<1> DEFINE s == <<a>> \o rest
           n == Len(rest)
<1>1. n \in Nat /\ s \in Seq(Accounts) /\ Len(s) = n + 1 /\ s[1] = a
      /\ \A i \in 1..n : s[i + 1] = rest[i]
  OBVIOUS
<1> HIDE DEF s
<1>2. \A i \in 1..(n + 1) : i # 1 => i - 1 \in 1..n /\ s[i] = rest[i - 1]
  <2> SUFFICES ASSUME NEW i \in 1..(n + 1), i # 1 PROVE i - 1 \in 1..n /\ s[i] = rest[i - 1]
    OBVIOUS
  <2>1. i - 1 \in 1..n /\ (i - 1) + 1 = i
    BY <1>1
  <2> QED BY <1>1, <2>1
<1>3. \A i \in 1..n : rest[i] # a
  BY DEF ToSet
<1>4. IsInjective(s)
  <2> SUFFICES ASSUME NEW i \in 1..(n + 1), NEW j \in 1..(n + 1), s[i] = s[j] PROVE i = j
    BY <1>1 DEF IsInjective
  <2>1. i = 1 <=> j = 1
    BY <1>1, <1>2, <1>3
  <2>2. CASE i # 1 /\ j # 1
    <3>1. i - 1 = j - 1
      BY <1>2, <2>2 DEF IsInjective
    <3> QED BY <1>1, <3>1
  <2> QED BY <2>1, <2>2
<1>5. ToSet(s) = ToSet(rest) \cup {a}
  <2>1. ToSet(s) = {s[i] : i \in 1..(n + 1)} /\ ToSet(rest) = {rest[i] : i \in 1..n}
    <3>1. DOMAIN s = 1..(n + 1) /\ DOMAIN rest = 1..n
      BY <1>1
    <3> QED BY <3>1 DEF ToSet
  <2>2. ASSUME NEW i \in 1..(n + 1) PROVE s[i] \in ToSet(rest) \cup {a}
    BY <1>1, <1>2, <2>1
  <2>3. ASSUME NEW i \in 1..n PROVE rest[i] \in ToSet(s)
    <3>1. i + 1 \in 1..(n + 1)
      BY <1>1
    <3> QED BY <1>1, <2>1, <3>1
  <2>4. a \in ToSet(s)
    <3>1. 1 \in 1..(n + 1)
      BY <1>1
    <3> QED BY <1>1, <2>1, <3>1
  <2> QED BY <2>1, <2>2, <2>3, <2>4
<1>6. s # <<>>
  BY <1>1
<1> QED BY <1>1, <1>4, <1>5, <1>6 DEF s

(* What the pages know: only open ones know accounts, and while a request   *)
(* asks for the approval of its dapp the dapp is permitted nothing yet.     *)
OrderOK == recent \in Seq(Accounts) /\ recent # <<>> /\ IsInjective(recent)
PagesOK ==
  /\ locked \in BOOLEAN /\ newHome \in BOOLEAN
  /\ page \in [Tabs -> {"new", "open", "closed"}]
  /\ told \in [Tabs -> SUBSET Accounts]
  /\ \A t \in Tabs : page[t] # "open" => told[t] = {}
PermittedExist == permitted \in [Origins -> SUBSET ToSet(recent)]
AsksForNothing ==
  \A k \in Calls : call[k].at = "approval" => permitted[OriginOf[call[k].tab]] = {}

ToldInv == OrderOK /\ PagesOK /\ PermittedExist /\ AsksForNothing /\ ToldIsCurrent

LEMMA ToldInitInv == PermInit => ToldInv
<1> SUFFICES ASSUME PermInit PROVE ToldInv
  OBVIOUS
<1> DEFINE n == Cardinality(Accounts)
<1>1. n \in Nat /\ n # 0
  BY AccountsAssumption, FS_CardinalityType, FS_EmptySet
<1>2. recent \in Injection(1..n, Accounts)
  BY DEF PermInit, SetToSeqs, Injection, IsInjective
<1>3. recent \in Surjection(1..n, Accounts)
  <2>1. Cardinality(1..n) = n
    BY <1>1, FS_Interval
  <2> HIDE DEF n
  <2> QED BY <1>2, <2>1, FS_Injection, AccountsAssumption DEF n
<1> HIDE DEF n
<1>4. OrderOK
  BY <1>1, <1>2 DEF OrderOK, Injection, IsInjective
<1>5. ToSet(recent) = Accounts
  BY <1>2, <1>3 DEF ToSet, Injection, Surjection
<1> QED BY <1>4, <1>5 DEF PermInit, ToldInv, PagesOK, PermittedExist, AsksForNothing,
                          ToldIsCurrent

LEMMA GetAccountsOf ==
  ASSUME ToldInv, NEW o \in Origins
  PROVE  /\ GetAccounts(o) \in SUBSET Accounts
         /\ locked => GetAccounts(o) = {}
         /\ permitted[o] = {} => GetAccounts(o) = {}
         /\ ~locked /\ GetAccounts(o) = {} => permitted[o] = {}
<1>1. recent \in Seq(Accounts)
  BY DEF ToldInv, OrderOK
<1>2. permitted[o] \subseteq ToSet(recent)
  BY DEF ToldInv, PermittedExist
<1>3. /\ Exposed(permitted[o], recent) \subseteq permitted[o]
      /\ Exposed(permitted[o], recent) \subseteq Accounts
      /\ Exposed(permitted[o], recent) = {} => permitted[o] \cap ToSet(recent) = {}
  BY <1>1, ExposedOf
<1> QED BY <1>2, <1>3 DEF GetAccounts

(* Pages are notified: those of the origins in the news are told what they  *)
(* would get now, for the others that has not changed.                      *)
LEMMA NotifyTells ==
  ASSUME ToldInv, NEW news, Notify(news), locked' = locked, page' = page,
         \A o \in DOMAIN news : news[o] \in SUBSET Accounts,
         \A o \in Origins : ~locked /\ o \in DOMAIN news => news[o] \in {{}, GetAccounts(o)'},
         \A o \in Origins : ~locked /\ o \notin DOMAIN news =>
            GetAccounts(o)' = GetAccounts(o) \/ GetAccounts(o) = {}
  PROVE  /\ told' \in [Tabs -> SUBSET Accounts]
         /\ \A t \in Tabs : page'[t] # "open" => told'[t] = {}
         /\ ToldIsCurrent'
<1>1. told \in [Tabs -> SUBSET Accounts] /\ \A t \in Tabs : page[t] # "open" => told[t] = {}
  BY DEF ToldInv, PagesOK
<1>2. told' = [t \in Tabs |-> IF OriginOf[t] \in DOMAIN news /\ page[t] = "open" /\ ~locked
                              THEN news[OriginOf[t]] ELSE told[t]]
  BY DEF Notify
<1>3. told' \in [Tabs -> SUBSET Accounts]
  BY <1>1, <1>2
<1>4. ASSUME NEW t \in Tabs PROVE told'[t] \in {{}, GetAccounts(OriginOf[t])'}
  <2>1. OriginOf[t] \in Origins /\ told[t] \in {{}, GetAccounts(OriginOf[t])}
    BY OriginOfAssumption DEF ToldInv, ToldIsCurrent
  <2>2. CASE locked
    <3>1. GetAccounts(OriginOf[t]) = {}
      BY <2>1, <2>2, GetAccountsOf
    <3> QED BY <1>2, <2>1, <2>2, <3>1
  <2>3. CASE ~locked
    BY <1>1, <1>2, <2>1, <2>3
  <2> QED BY <2>2, <2>3
<1>5. ToldIsCurrent'
  BY <1>4 DEF ToldIsCurrent
<1> QED BY <1>1, <1>2, <1>3, <1>5

(* One page is told what it gets, and nothing else changes.                 *)
LEMMA AnswerTells ==
  ASSUME ToldInv, NEW k, NEW t \in Tabs, NEW r, NEW tell \in {{}, GetAccounts(OriginOf[t])},
         Answer(k, t, r, tell), UNCHANGED <<locked, permitted, recent, page>>
  PROVE  /\ told' \in [Tabs -> SUBSET Accounts]
         /\ \A u \in Tabs : page'[u] # "open" => told'[u] = {}
         /\ ToldIsCurrent'
<1>1. told \in [Tabs -> SUBSET Accounts] /\ \A u \in Tabs : page[u] # "open" => told[u] = {}
  BY DEF ToldInv, PagesOK
<1>2. OriginOf[t] \in Origins
  BY OriginOfAssumption
<1>3. tell \in SUBSET Accounts
  BY <1>2, GetAccountsOf
<1>4. \A o \in Origins : GetAccounts(o)' = GetAccounts(o)
  BY DEF GetAccounts
<1>5. \/ told' = told
      \/ page[t] = "open" /\ told' = [told EXCEPT ![t] = tell]
  BY DEF Answer
<1>6. ToldIsCurrent'
  BY <1>1, <1>4, <1>5, OriginOfAssumption DEF ToldInv, ToldIsCurrent
<1> QED BY <1>1, <1>3, <1>5, <1>6

(* A page's request, answered or made to wait.                              *)
LEMMA TryTells ==
  ASSUME CallInv, ToldInv, NEW k \in Calls, NEW t \in Tabs, TryAccounts(k, t),
         ~locked \/ permitted[OriginOf[t]] = {},
         UNCHANGED <<locked, permitted, recent, page, newHome>>
  PROVE  ToldInv'
<1> DEFINE o == OriginOf[t]
<1>1. o \in Origins
  BY OriginOfAssumption
<1>2. GetAccounts(o) = {} => permitted[o] = {}
  BY <1>1, GetAccountsOf
<1>3. PICK r \in {"accounts", "approval", "refused"},
           tell \in {{}, GetAccounts(o)} :
        Answer(k, t, r, tell) /\ (r = "approval" => GetAccounts(o) = {})
  BY DEF TryAccounts
<1>4. /\ told' \in [Tabs -> SUBSET Accounts]
      /\ \A u \in Tabs : page'[u] # "open" => told'[u] = {}
      /\ ToldIsCurrent'
  BY <1>3, AnswerTells
<1>5. AsksForNothing'
  <2>1. call \in [Calls -> [tab : Tabs \cup {None}, at : CallStates]]
    BY DEF CallInv, CallsOK
  <2>2. call' = [call EXCEPT ![k] = [tab |-> t, at |-> r]]
    BY <1>3 DEF Answer
  <2> QED BY <1>2, <1>3, <2>1, <2>2 DEF ToldInv, AsksForNothing
<1> QED BY <1>4, <1>5 DEF ToldInv, OrderOK, PagesOK, PermittedExist

LEMMA AskingTells ==
  ASSUME CallInv, ToldInv, NEW k \in Calls, NEW t \in Tabs,
         RequestAccounts(k, t) \/ RequestInNewHome(k, t) \/ RequestPermissions(k, t)
  PROVE  ToldInv'
<1>0. /\ UNCHANGED <<locked, permitted, recent, page, newHome>>
      /\ call \in [Calls -> [tab : Tabs \cup {None}, at : CallStates]]
  BY DEF RequestAccounts, RequestInNewHome, RequestPermissions, CallInv, CallsOK
<1>1. ASSUME NEW r \in CallStates \ {"approval"}, Answer(k, t, r, {}) PROVE ToldInv'
  <2>1. /\ told' \in [Tabs -> SUBSET Accounts]
        /\ \A u \in Tabs : page'[u] # "open" => told'[u] = {}
        /\ ToldIsCurrent'
    BY <1>0, <1>1, AnswerTells
  <2>2. AsksForNothing'
    BY <1>0, <1>1 DEF Answer, ToldInv, AsksForNothing
  <2> QED BY <1>0, <2>1, <2>2 DEF ToldInv, OrderOK, PagesOK, PermittedExist
<1>2. CASE TryAccounts(k, t) /\ (~locked \/ permitted[OriginOf[t]] = {})
  BY <1>0, <1>2, TryTells
<1>3. {"busy", "unlock", "none", "permission", "refused"} \subseteq CallStates \ {"approval"}
  BY DEF CallStates, Asking
<1> QED BY <1>1, <1>2, <1>3 DEF RequestAccounts, RequestInNewHome, RequestPermissions

LEMMA ResumeTells == ASSUME CallInv, ToldInv, Resume PROVE ToldInv'
<1>1. waiting \in Seq(Calls) /\ waiting # <<>> /\ Head(waiting) \in Calls
  BY DEF CallInv, QueueWaits, Resume
<1>2. call[Head(waiting)].tab \in Tabs
  <2>1. 1 \in 1..Len(waiting) /\ waiting[1] = Head(waiting)
    BY <1>1
  <2> QED BY <1>1, <2>1 DEF CallInv, QueueWaits, CallsOK
<1> QED BY <1>1, <1>2, TryTells DEF Resume

(* The permissions of one dapp change, and its pages are notified.          *)
LEMMA PermittedTells ==
  ASSUME ToldInv, NEW o \in Origins, NEW allowed \in SUBSET ToSet(recent),
         permitted' = [permitted EXCEPT ![o] = allowed],
         Notify([d \in {o} |-> IF locked THEN {} ELSE Exposed(allowed, recent)]),
         UNCHANGED <<locked, recent, page, newHome>>,
         \A k \in Calls : call'[k].at = "approval" =>
            call'[k] = call[k] /\ (OriginOf[call[k].tab] # o \/ allowed = {})
  PROVE  ToldInv'
<1> DEFINE news == [d \in {o} |-> IF locked THEN {} ELSE Exposed(allowed, recent)]
<1>1. recent \in Seq(Accounts)
  BY DEF ToldInv, OrderOK
<1>2. permitted \in [Origins -> SUBSET ToSet(recent)]
  BY DEF ToldInv, PermittedExist
<1>3. Exposed(allowed, recent) \subseteq Accounts
  BY <1>1, ExposedOf
<1>4. \A d \in Origins : GetAccounts(d)' = IF d = o THEN news[o] ELSE GetAccounts(d)
  BY <1>2 DEF GetAccounts
<1>5. DOMAIN news = {o} /\ news[o] \in SUBSET Accounts
  BY <1>3
<1>6. Notify(news)
  OBVIOUS
<1> HIDE DEF news
<1>7. /\ told' \in [Tabs -> SUBSET Accounts]
      /\ \A t \in Tabs : page'[t] # "open" => told'[t] = {}
      /\ ToldIsCurrent'
  BY <1>4, <1>5, <1>6, NotifyTells
<1>8. PermittedExist' /\ AsksForNothing'
  BY <1>2 DEF ToldInv, PermittedExist, AsksForNothing
<1> QED BY <1>7, <1>8 DEF ToldInv, OrderOK, PagesOK

LEMMA ApproveTells ==
  ASSUME CallInv, ToldInv, NEW o \in Origins, NEW picked \in SUBSET Accounts,
         ApprovePermissionsRequest(o, picked)
  PROVE  ToldInv'
<1> DEFINE k == approval[o]
           accounts == IF locked THEN {} ELSE Exposed(picked, recent)
<1>0. /\ UNCHANGED <<locked, recent, page, newHome>>
      /\ call \in [Calls -> [tab : Tabs \cup {None}, at : CallStates]]
      /\ permitted \in [Origins -> SUBSET ToSet(recent)]
  BY DEF ApprovePermissionsRequest, CallInv, CallsOK, ToldInv, PermittedExist
<1>1. \A j \in Calls : j # k => call[j].at # "approval" \/ OriginOf[call[j].tab] # o
  BY DEF CallInv, ApprovalFits, Asking
<1>2. CASE /\ picked \subseteq ToSet(recent)
           /\ permitted' = [permitted EXCEPT ![o] = picked]
           /\ Notify([d \in {o} |-> accounts])
           /\ \/ k = Interface /\ UNCHANGED call
              \/ call' = [call EXCEPT ![k].at = "accounts"]
  <2>1. \A j \in Calls : call'[j].at = "approval" =>
            call'[j] = call[j] /\ OriginOf[call[j].tab] # o
    BY <1>0, <1>1, <1>2, ApprovalNamesAssumption
  <2>2. Notify([d \in {o} |-> IF locked THEN {} ELSE Exposed(picked, recent)])
    BY <1>2
  <2>3. picked \in SUBSET ToSet(recent) /\ permitted' = [permitted EXCEPT ![o] = picked]
    BY <1>2
  <2>4. \A j \in Calls : call'[j].at = "approval" =>
            call'[j] = call[j] /\ (OriginOf[call[j].tab] # o \/ picked = {})
    BY <2>1
  <2>5. UNCHANGED <<locked, recent, page, newHome>>
    BY <1>0
  <2> HIDE DEF accounts, k
  <2> QED BY <2>2, <2>3, <2>4, <2>5, PermittedTells
<1>3. CASE /\ picked \subseteq ToSet(recent)
           /\ permitted' = [permitted EXCEPT ![o] = picked]
           /\ k # Interface /\ call[k].at = "approval"
           /\ Answer(k, call[k].tab, IF accounts = {} THEN "unavailable" ELSE "accounts", accounts)
  <2>1. k \in Calls /\ call[k].tab \in Tabs /\ OriginOf[call[k].tab] = o
    BY <1>3 DEF ApprovePermissionsRequest, CallInv, CallsOK, ApprovalFits
  <2>2. permitted[o] = {} /\ GetAccounts(o) = {}
    <3>1. permitted[o] = {}
      BY <1>3, <2>1 DEF ToldInv, AsksForNothing
    <3> QED BY <3>1, GetAccountsOf
  <2>3. \A d \in Origins : GetAccounts(d)' = IF d = o THEN accounts ELSE GetAccounts(d)
    BY <1>0, <1>3 DEF GetAccounts
  <2>4. told \in [Tabs -> SUBSET Accounts] /\ accounts \in SUBSET Accounts
    <3>1. recent \in Seq(Accounts)
      BY DEF ToldInv, OrderOK
    <3> QED BY <3>1, ExposedOf DEF ToldInv, PagesOK
  <2>5. \/ told' = told
        \/ page[call[k].tab] = "open" /\ told' = [told EXCEPT ![call[k].tab] = accounts]
    BY <1>3 DEF Answer
  <2>6. ToldIsCurrent'
    <3> SUFFICES ASSUME NEW t \in Tabs PROVE told'[t] \in {{}, GetAccounts(OriginOf[t])'}
      BY DEF ToldIsCurrent
    <3>1. OriginOf[t] \in Origins /\ told[t] \in {{}, GetAccounts(OriginOf[t])}
      BY OriginOfAssumption DEF ToldInv, ToldIsCurrent
    <3> HIDE DEF accounts
    <3> QED BY <2>1, <2>2, <2>3, <2>4, <2>5, <3>1
  <2>7. PagesOK'
    <3> HIDE DEF accounts
    <3> QED BY <1>0, <2>4, <2>5 DEF ToldInv, PagesOK
  <2>8. PermittedExist' /\ AsksForNothing'
    <3>1. \A j \in Calls : call'[j].at = "approval" => call'[j] = call[j] /\ j # k
      BY <1>0, <1>3, <2>1 DEF Answer
    <3> QED BY <1>0, <1>1, <1>3, <3>1 DEF ToldInv, PermittedExist, AsksForNothing
  <2> QED BY <1>0, <2>6, <2>7, <2>8 DEF ToldInv, OrderOK
<1>4. CASE /\ call' = [j \in Calls |-> IF j = k THEN [call[j] EXCEPT !.at = "refused"] ELSE call[j]]
           /\ UNCHANGED <<permitted, told>>
  <2>1. AsksForNothing'
    BY <1>0, <1>4 DEF ToldInv, AsksForNothing
  <2> QED BY <1>0, <1>4, <2>1
      DEF ToldInv, OrderOK, PagesOK, PermittedExist, ToldIsCurrent, GetAccounts
<1> QED BY <1>2, <1>3, <1>4 DEF ApprovePermissionsRequest

(* The order of the accounts changes. *)
LEMMA OrderTells ==
  ASSUME ToldInv, CallInv, ~locked, NEW order \in Seq(Accounts), order # <<>>,
         IsInjective(order), recent' = order, NEW gone, ToSet(order) = ToSet(recent) \ gone,
         permitted' = [o \in Origins |-> permitted[o] \ gone],
         NEW news, Notify(news), DOMAIN news \subseteq Origins,
         \A o \in DOMAIN news : news[o] \in {{}, Exposed(permitted[o] \ gone, order)},
         \A o \in Origins \ DOMAIN news :
            Exposed(permitted[o] \ gone, order) = Exposed(permitted[o], recent),
         UNCHANGED <<locked, call, page, newHome>>
  PROVE  ToldInv'
<1>1. permitted \in [Origins -> SUBSET ToSet(recent)]
  BY DEF ToldInv, PermittedExist
<1>2. \A o \in Origins : GetAccounts(o)' = Exposed(permitted[o] \ gone, order)
                         /\ GetAccounts(o) = Exposed(permitted[o], recent)
  BY DEF GetAccounts
<1>3. \A o \in Origins : Exposed(permitted[o] \ gone, order) \subseteq Accounts
  BY ExposedOf
<1>4. /\ told' \in [Tabs -> SUBSET Accounts]
      /\ \A t \in Tabs : page'[t] # "open" => told'[t] = {}
      /\ ToldIsCurrent'
  BY <1>2, <1>3, NotifyTells
<1>5. PermittedExist'
  BY <1>1 DEF PermittedExist
<1>6. AsksForNothing'
  BY OriginOfAssumption DEF ToldInv, AsksForNothing, CallInv, CallsOK
<1> QED BY <1>4, <1>5, <1>6 DEF ToldInv, OrderOK, PagesOK

LEMMA SelectTells ==
  ASSUME ToldInv, CallInv, NEW a \in Accounts, SelectAccount(a)
  PROVE  ToldInv'
<1> DEFINE rest == Without(recent, a)
           news == [o \in {d \in Origins : a \in permitted[d]} |-> {a}]
<1>1. recent \in Seq(Accounts) /\ IsInjective(recent) /\ a \in ToSet(recent)
  BY DEF SelectAccount, ToldInv, OrderOK
<1>2. /\ rest \in Seq(Accounts) /\ IsInjective(rest)
      /\ ToSet(rest) = ToSet(recent) \ {a}
      /\ \A allowed : a \notin allowed => Exposed(allowed, rest) = Exposed(allowed, recent)
  BY <1>1, WithoutOthers
<1> HIDE DEF rest
<1>3. \A allowed : Exposed(allowed, <<a>> \o rest) =
                     IF a \in allowed THEN {a} ELSE Exposed(allowed, rest)
  BY <1>2, ExposedFirst
<1>4. /\ <<a>> \o rest \in Seq(Accounts) /\ <<a>> \o rest # <<>>
      /\ IsInjective(<<a>> \o rest) /\ ToSet(<<a>> \o rest) = ToSet(recent)
  <2>1. a \notin ToSet(rest) /\ ToSet(recent) = ToSet(rest) \cup {a}
    BY <1>1, <1>2
  <2> QED BY <1>2, <2>1, ConsIs
<1>5. /\ recent' = <<a>> \o rest /\ ~locked /\ Notify(news)
      /\ UNCHANGED <<locked, call, permitted, page, newHome>>
  BY DEF SelectAccount, SelectedFirst, rest
<1>6. permitted' = [o \in Origins |-> permitted[o] \ {}]
      /\ ToSet(<<a>> \o rest) = ToSet(recent) \ {}
  BY <1>4, <1>5 DEF ToldInv, PermittedExist
<1>7. /\ DOMAIN news \subseteq Origins
      /\ \A o \in DOMAIN news : news[o] \in {{}, Exposed(permitted[o] \ {}, <<a>> \o rest)}
      /\ \A o \in Origins \ DOMAIN news :
            Exposed(permitted[o] \ {}, <<a>> \o rest) = Exposed(permitted[o], recent)
  <2>1. \A o \in Origins : permitted[o] \ {} = permitted[o]
    OBVIOUS
  <2> QED BY <1>2, <1>3, <2>1
<1> HIDE DEF news
<1> QED BY <1>4, <1>5, <1>6, <1>7, OrderTells

(* An account goes: if it was the selected one, another is selected.        *)
LEMMA RemoveTells ==
  ASSUME ToldInv, CallInv, NEW a \in Accounts, NEW next \in Accounts, RemoveAccount(a, next)
  PROVE  ToldInv'
<1> DEFINE rest == Without(recent, a)
           others == Without(rest, next)
           order == IF a = Selected(recent) THEN <<next>> \o others ELSE rest
           picked == {o \in Origins : a = Selected(recent) /\ next \in permitted[o]}
           touched == {o \in Origins : a \in permitted[o]}
<1>1. /\ recent \in Seq(Accounts) /\ IsInjective(recent)
      /\ a \in ToSet(recent) /\ next \in ToSet(rest)
      /\ recent' = order /\ ~locked
      /\ permitted' = [o \in Origins |-> permitted[o] \ {a}]
      /\ UNCHANGED <<locked, call, page, newHome>>
  BY DEF RemoveAccount, ToldInv, OrderOK
<1>2. PICK missing \in BOOLEAN :
        Notify([o \in touched \cup picked |->
                 IF o \in picked /\ missing THEN {} ELSE Exposed(permitted[o] \ {a}, order)])
  BY DEF RemoveAccount
<1> DEFINE news == [o \in touched \cup picked |->
                 IF o \in picked /\ missing THEN {} ELSE Exposed(permitted[o] \ {a}, order)]
<1>3. /\ rest \in Seq(Accounts) /\ IsInjective(rest)
      /\ ToSet(rest) = ToSet(recent) \ {a}
      /\ \A allowed : a \notin allowed => Exposed(allowed, rest) = Exposed(allowed, recent)
  BY <1>1, WithoutOthers
<1> HIDE DEF rest
<1>4. /\ others \in Seq(Accounts) /\ IsInjective(others)
      /\ ToSet(others) = ToSet(rest) \ {next}
      /\ \A allowed : next \notin allowed => Exposed(allowed, others) = Exposed(allowed, rest)
  BY <1>1, <1>3, WithoutOthers
<1> HIDE DEF others
<1>5. \A allowed : Exposed(allowed, <<next>> \o others) =
                     IF next \in allowed THEN {next} ELSE Exposed(allowed, others)
  BY <1>4, ExposedFirst
<1>6. /\ order \in Seq(Accounts) /\ order # <<>>
      /\ IsInjective(order) /\ ToSet(order) = ToSet(recent) \ {a}
  <2>1. /\ <<next>> \o others \in Seq(Accounts) /\ <<next>> \o others # <<>>
        /\ IsInjective(<<next>> \o others)
        /\ ToSet(<<next>> \o others) = ToSet(others) \cup {next}
    BY <1>4, ConsIs
  <2>2. rest # <<>>
    BY <1>1 DEF ToSet
  <2> QED BY <1>1, <1>3, <1>4, <2>1, <2>2
<1> HIDE DEF order
<1>7. /\ DOMAIN news \subseteq Origins
      /\ \A o \in DOMAIN news : news[o] \in {{}, Exposed(permitted[o] \ {a}, order)}
  OBVIOUS
<1>8. ASSUME NEW o \in Origins \ DOMAIN news
      PROVE  Exposed(permitted[o] \ {a}, order) = Exposed(permitted[o], recent)
  <2>1. a \notin permitted[o] /\ permitted[o] \ {a} = permitted[o]
        /\ (a = Selected(recent) => next \notin permitted[o])
    BY <1>8
  <2> QED BY <1>3, <1>4, <1>5, <2>1 DEF order
<1> HIDE DEF news
<1>9. Notify(news)
  BY <1>2 DEF news
<1> QED BY <1>1, <1>6, <1>7, <1>8, <1>9, OrderTells

LEMMA OtherTells ==
  ASSUME ToldInv, CallInv,
         \/ \E t \in Tabs : OpenTab(t) \/ CloseTab(t)
         \/ \E o \in Origins :
              \/ RequestInInterface(o) \/ RejectPermissionsRequest(o)
              \/ \E a \in Accounts : AddPermittedAccount(o, a) \/ RemovePermittedAccount(o, a)
         \/ SubmitPassword \/ SetLocked \/ ClearPermissions
         \/ DisconnectAllDomainAccounts \/ EmitAccountChanged
         \/ UNCHANGED permVars
  PROVE  ToldInv'
<1> USE DEF ToldInv
<1>c. call \in [Calls -> [tab : Tabs \cup {None}, at : CallStates]]
  BY DEF CallInv, CallsOK
<1>p. permitted \in [Origins -> SUBSET ToSet(recent)] /\ recent \in Seq(Accounts)
  BY DEF PermittedExist, OrderOK
<1>1. ASSUME NEW t \in Tabs, OpenTab(t) \/ CloseTab(t) PROVE ToldInv'
  <2>1. UNCHANGED <<locked, permitted, recent, call, newHome>>
        /\ ((told' = told /\ page[t] = "new") \/ told' = [told EXCEPT ![t] = {}])
        /\ \E p \in {"open", "closed"} :
             page' = [page EXCEPT ![t] = p] /\ (p = "closed" => told'[t] = {})
    BY <1>1 DEF OpenTab, CloseTab, PagesOK
  <2> QED BY <2>1
      DEF OrderOK, PagesOK, PermittedExist, AsksForNothing, ToldIsCurrent, GetAccounts
<1>2. ASSUME NEW o \in Origins, RequestInInterface(o) PROVE ToldInv'
  BY <1>2 DEF RequestInInterface, OrderOK, PagesOK, PermittedExist, AsksForNothing,
              ToldIsCurrent, GetAccounts
<1>3. ASSUME NEW o \in Origins, RejectPermissionsRequest(o) PROVE ToldInv'
  <2>1. AsksForNothing'
    BY <1>3, <1>c DEF RejectPermissionsRequest, AsksForNothing
  <2> QED BY <1>3, <2>1 DEF RejectPermissionsRequest, OrderOK, PagesOK, PermittedExist,
                           ToldIsCurrent, GetAccounts
<1>4. ASSUME NEW o \in Origins, NEW allowed \in SUBSET ToSet(recent),
             permitted' = [permitted EXCEPT ![o] = allowed],
             permitted[o] # {}, Notify([d \in {o} |-> Exposed(allowed, recent)]),
             UNCHANGED <<locked, recent, call, page, newHome>>
      PROVE  ToldInv'
  <2>1. \A k \in Calls : call'[k].at = "approval" =>
          call'[k] = call[k] /\ (OriginOf[call[k].tab] # o \/ allowed = {})
    BY <1>4 DEF AsksForNothing
  <2>2. Notify([d \in {o} |-> IF locked THEN {} ELSE Exposed(allowed, recent)])
    <3>1. CASE locked
      <4>1. told' = [t \in Tabs |-> told[t]]
        BY <1>4, <3>1 DEF Notify
      <4> QED BY <3>1, <4>1 DEF Notify
    <3>2. CASE ~locked
      BY <1>4, <3>2
    <3> QED BY <3>1, <3>2
  <2> HIDE DEF ToldInv
  <2> QED BY <1>4, <2>1, <2>2, PermittedTells
<1>5. ASSUME NEW o \in Origins, NEW a \in Accounts,
             AddPermittedAccount(o, a) \/ RemovePermittedAccount(o, a)
      PROVE  ToldInv'
  <2>1. CASE AddPermittedAccount(o, a)
    BY <1>4, <1>p, <2>1 DEF AddPermittedAccount
  <2>2. CASE RemovePermittedAccount(o, a)
    BY <1>4, <1>p, <2>2 DEF RemovePermittedAccount
  <2> QED BY <1>5, <2>1, <2>2
<1>6. CASE SubmitPassword
  <2>1. \A t \in Tabs : told[t] = {}
    BY <1>6, OriginOfAssumption DEF SubmitPassword, ToldIsCurrent, GetAccounts
  <2> QED BY <1>6, <2>1 DEF SubmitPassword, OrderOK, PagesOK, PermittedExist,
                            AsksForNothing, ToldIsCurrent
<1>7. CASE SetLocked
  BY <1>7 DEF SetLocked, PagesForget, OrderOK, PagesOK, PermittedExist, AsksForNothing,
              ToldIsCurrent
<1>8. CASE ClearPermissions
  <2>1. AsksForNothing'
    BY <1>8, OriginOfAssumption DEF ClearPermissions, AsksForNothing, CallInv, CallsOK
  <2> QED BY <1>8, <2>1 DEF ClearPermissions, PagesForget, OrderOK, PagesOK, PermittedExist,
              ToldIsCurrent
<1>9. CASE DisconnectAllDomainAccounts
  <2> DEFINE news == [o \in {d \in Origins : permitted[d] # {}} |-> {}]
  <2>1. /\ Notify(news) /\ newHome' = TRUE
        /\ UNCHANGED <<locked, call, permitted, recent, page>>
    BY <1>9 DEF DisconnectAllDomainAccounts
  <2>2. \A o \in Origins : GetAccounts(o)' = GetAccounts(o)
    BY <2>1 DEF GetAccounts
  <2>3. DOMAIN news \subseteq Origins /\ \A o \in DOMAIN news : news[o] = {}
    OBVIOUS
  <2> HIDE DEF news, ToldInv
  <2>4. /\ told' \in [Tabs -> SUBSET Accounts]
        /\ \A t \in Tabs : page'[t] # "open" => told'[t] = {}
        /\ ToldIsCurrent'
    BY <2>1, <2>2, <2>3, NotifyTells
  <2> QED BY <2>1, <2>4 DEF ToldInv, OrderOK, PagesOK, PermittedExist, AsksForNothing
<1>10. CASE EmitAccountChanged
  <2> DEFINE news == [o \in {d \in Origins : Selected(recent) \in permitted[d]} |->
                       {Selected(recent)}]
  <2>1. /\ Notify(news) /\ newHome' = FALSE
        /\ UNCHANGED <<locked, call, permitted, recent, page>>
    BY <1>10 DEF EmitAccountChanged
  <2>2. \A o \in Origins : GetAccounts(o)' = GetAccounts(o)
    BY <2>1 DEF GetAccounts
  <2>3. DOMAIN news \subseteq Origins /\ \A o \in DOMAIN news : news[o] \in SUBSET Accounts
    BY <1>p DEF Selected, OrderOK
  <2>4. \A o \in Origins : ~locked /\ o \in DOMAIN news => news[o] = GetAccounts(o)
    <3> SUFFICES ASSUME NEW allowed, Head(recent) \in allowed
                 PROVE  Exposed(allowed, recent) = {Head(recent)}
      BY DEF GetAccounts, Selected
    <3>1. 1 \in 1..Len(recent) /\ recent[1] = Head(recent) /\ 1..(1 - 1) = {}
      BY <1>p DEF OrderOK
    <3>2. \A j \in 1..Len(recent) : j # 1 => 1 \in 1..(j - 1)
      OBVIOUS
    <3> QED BY <3>1, <3>2 DEF Exposed
  <2> HIDE DEF news, ToldInv
  <2>5. /\ told' \in [Tabs -> SUBSET Accounts]
        /\ \A t \in Tabs : page'[t] # "open" => told'[t] = {}
        /\ ToldIsCurrent'
    BY <2>1, <2>2, <2>3, <2>4, NotifyTells
  <2> QED BY <2>1, <2>5 DEF ToldInv, OrderOK, PagesOK, PermittedExist, AsksForNothing
<1>11. CASE UNCHANGED permVars
  BY <1>11 DEF permVars, OrderOK, PagesOK, PermittedExist, AsksForNothing, ToldIsCurrent,
               GetAccounts
<1> QED BY <1>1, <1>2, <1>3, <1>5, <1>6, <1>7, <1>8, <1>9, <1>10, <1>11

LEMMA ToldNextInv == CallInv /\ ToldInv /\ [PermNext]_permVars => ToldInv'
BY AskingTells, ResumeTells, ApproveTells, SelectTells, RemoveTells, OtherTells DEF PermNext

(* The queue, the approvals, the permissions, the order of the accounts and *)
(* what the pages know keep their types; no account is twice in the order   *)
(* (controllers/permissions, app-state.js, preferences.js).                 *)
THEOREM PermTypeCorrect == PermSpec => []PermTypeOK
<1>1. CallInv /\ ToldInv => PermTypeOK
  <2> SUFFICES ASSUME CallInv, ToldInv PROVE PermTypeOK
    OBVIOUS
  <2>1. permitted \in [Origins -> SUBSET Accounts]
    BY DEF ToldInv, OrderOK, PermittedExist, ToSet
  <2> QED BY <2>1 DEF CallInv, CallsOK, QueueWaits, ToldInv, OrderOK, PagesOK, PermTypeOK
<1> QED BY <1>1, CallInitInv, CallNextInv, ToldInitInv, ToldNextInv, PTL DEF PermSpec

(* No page ever keeps an account it would not get now, whatever was         *)
(* approved, revoked, selected, locked or removed since (the notifications  *)
(* of permissions/index.js).                                                *)
THEOREM PagesKnowCurrent == PermSpec => []ToldIsCurrent
<1>1. ToldInv => ToldIsCurrent
  BY DEF ToldInv
<1> QED BY <1>1, CallInitInv, CallNextInv, ToldInitInv, ToldNextInv, PTL DEF PermSpec

-----------------------------------------------------------------------------
(* The stores of the home page. *)

(* A request for tokens asks the node of the chain the account's own tokens *)
(* are kept for, since wallet and account agree when it starts.             *)
OneChain(tag) ==
  tag = [chainKey |-> tag.chainKey, ownerAddress |-> tag.ownerAddress,
         local |-> tag.chainKey]
RequestsOfOneChain == \A f \in tokenRequests : OneChain(f)
StoredOfOneChain == currentTokensRaw.of # NoTag => OneChain(currentTokensRaw.of)

ShownAgrees ==
  /\ currentWallet = [chainKey |-> currentChainKey, account |-> currentAccountRaw]
  /\ currentAccountRaw # Unset => currentAccountRaw.chainKey = currentChainKey
  /\ currentTokensRaw.shown => IsOf(currentTokensRaw.of, currentAccountRaw)

HomeInv == ShownAgrees /\ RequestsOfOneChain /\ StoredOfOneChain

LEMMA FirstIsOfChain ==
  ASSUME NEW key, NEW list, NEW hw, FirstOfChain(key, list, hw) # Unset
  PROVE  FirstOfChain(key, list, hw).chainKey = key
<1>1. PICK i \in DOMAIN list : IsFirst(i, key, list, hw)
  BY DEF FirstOfChain
<1>2. LET j == CHOOSE j \in DOMAIN list : IsFirst(j, key, list, hw)
      IN  IsFirst(j, key, list, hw) /\ FirstOfChain(key, list, hw) = list[j]
  BY <1>1 DEF FirstOfChain
<1> QED BY <1>2 DEF IsFirst, Listed

LEMMA ShowAgrees ==
  ASSUME NEW key, NEW a, NEW stored, Show(key, a, stored),
         a # Unset => a.chainKey = key,
         stored.of # NoTag => OneChain(stored.of), RequestsOfOneChain'
  PROVE  HomeInv'
BY DEF Show, HomeInv, ShownAgrees, StoredOfOneChain, IsOf

LEMMA InitFirstAgrees ==
  ASSUME NEW key, NEW a, NEW list, NEW hw, NEW queue, NEW stored,
         InitFirst(key, a, list, hw, queue, stored),
         stored.of # NoTag => OneChain(stored.of), RequestsOfOneChain'
  PROVE  HomeInv'
<1> DEFINE nextUp == FirstOfChain(key, list, hw)
           mismatch == a = Unset \/ a.chainKey # key
           giveUp == nextUp = Unset \/ mismatch \/ (hw /\ a.type # "hardware")
           shown == IF giveUp THEN nextUp ELSE a
<1>1. Show(key, Unset, stored) \/ Show(key, shown, stored)
  BY DEF InitFirst
<1>2. shown # Unset => shown.chainKey = key
  BY FirstIsOfChain
<1> QED BY <1>1, <1>2, ShowAgrees

LEMMA ReactAgrees ==
  ASSUME HomeInv, NEW a, NEW list, NEW hw, React(a, list, hw), RequestsOfOneChain'
  PROVE  HomeInv'
<1>1. currentTokensRaw.of # NoTag => OneChain(currentTokensRaw.of)
  BY DEF HomeInv, StoredOfOneChain
<1>2. CASE KeyOf(a) # currentChainKey \/ hw # isHardwareOnlyMode
  BY <1>1, <1>2, InitFirstAgrees DEF React
<1>3. CASE ~(KeyOf(a) # currentChainKey \/ hw # isHardwareOnlyMode)
  <2>1. Show(currentChainKey, a, currentTokensRaw)
    BY <1>3 DEF React
  <2>2. a # Unset => a.chainKey = currentChainKey
    BY <1>3 DEF KeyOf
  <2> QED BY <1>1, <2>1, <2>2, ShowAgrees
<1> QED BY <1>2, <1>3

-----------------------------------------------------------------------------
LEMMA InitAgrees == HomeInit => HomeInv
<1> SUFFICES ASSUME HomeInit PROVE HomeInv
  OBVIOUS
<1>1. currentAccountRaw # Unset => currentAccountRaw.chainKey = currentChainKey
  BY FirstIsOfChain DEF HomeInit
<1> QED BY <1>1 DEF HomeInit, HomeInv, ShownAgrees, RequestsOfOneChain, StoredOfOneChain

LEMMA NextAgrees == HomeInv /\ [HomeNext]_homeVars => HomeInv'
<1> SUFFICES ASSUME HomeInv, [HomeNext]_homeVars PROVE HomeInv'
  OBVIOUS
<1>0. ASSUME UNCHANGED tokenRequests PROVE RequestsOfOneChain'
  BY <1>0 DEF HomeInv, RequestsOfOneChain, OneChain
<1>s. ASSUME UNCHANGED <<currentChainKey, currentAccountRaw, currentWallet, currentTokensRaw>>,
             RequestsOfOneChain'
      PROVE  HomeInv'
  BY <1>s DEF HomeInv, ShownAgrees, StoredOfOneChain, OneChain, IsOf
<1>1. ASSUME NEW a \in Account, ChooseAccount(a) PROVE HomeInv'
  BY <1>0, <1>1, ReactAgrees DEF ChooseAccount
<1>2. ASSUME NEW a \in Account, ConfirmImport(a) PROVE HomeInv'
  BY <1>0, <1>2, ReactAgrees DEF ConfirmImport
<1>3. CASE DeleteAccount
  BY <1>0, <1>3, ReactAgrees DEF DeleteAccount
<1>4. CASE SetHardwareOnlyMode
  BY <1>0, <1>4, ReactAgrees DEF SetHardwareOnlyMode
<1>5. CASE Reopen
  <2>1. RequestsOfOneChain'
    BY <1>5 DEF Reopen, RequestsOfOneChain
  <2> DEFINE saved == [of |-> currentTokensRaw.of, shown |-> currentTokensRaw.of # NoTag]
  <2>2. saved.of # NoTag => OneChain(saved.of)
    BY DEF HomeInv, StoredOfOneChain
  <2>3. InitFirst(currentChainKey, currentAccountRaw, allAccountsRaw, isHardwareOnlyMode,
                  [i \in Inits |-> Resting], saved)
    BY <1>5 DEF Reopen
  <2> HIDE DEF saved
  <2> QED BY <2>1, <2>2, <2>3, InitFirstAgrees
<1>6. CASE InitFirstAccount
  <2>1. currentTokensRaw.of # NoTag => OneChain(currentTokensRaw.of)
    BY DEF HomeInv, StoredOfOneChain
  <2> QED BY <1>0, <1>6, <2>1, InitFirstAgrees DEF InitFirstAccount
<1>7. ASSUME NEW i \in Inits, AddressesArrive(i) PROVE HomeInv'
  <2> DEFINE own == FirstOfChain(currentChainKey, allAccountsRaw', isHardwareOnlyMode)
  <2>1. RequestsOfOneChain'
    BY <1>0, <1>7 DEF AddressesArrive
  <2>2. CASE Show(currentChainKey, own, currentTokensRaw)
    <3>1. own # Unset => own.chainKey = currentChainKey
      BY FirstIsOfChain
    <3>2. currentTokensRaw.of # NoTag => OneChain(currentTokensRaw.of)
      BY DEF HomeInv, StoredOfOneChain
    <3> HIDE DEF own
    <3> QED BY <2>1, <2>2, <3>1, <3>2, ShowAgrees
  <2>3. CASE UNCHANGED <<currentChainKey, currentAccountRaw, currentWallet, currentTokensRaw>>
    BY <1>s, <2>1, <2>3
  <2> QED BY <1>7, <2>2, <2>3 DEF AddressesArrive
<1>8. ASSUME NEW i \in Inits, AddressesFail(i) PROVE HomeInv'
  BY <1>0, <1>s, <1>8 DEF AddressesFail
<1>9. CASE AutofixMismatchAddresses
  BY <1>0, <1>s, <1>9 DEF AutofixMismatchAddresses
<1>10. CASE FixCurrent
  <2>1. RequestsOfOneChain'
    BY <1>0, <1>10 DEF FixCurrent
  <2>2. CASE React(RealAccount(fix.account), allAccountsRaw, isHardwareOnlyMode)
    BY <2>1, <2>2, ReactAgrees
  <2>3. CASE UNCHANGED <<currentChainKey, currentAccountRaw, currentWallet, currentTokensRaw>>
    BY <1>s, <2>1, <2>3
  <2> QED BY <1>10, <2>2, <2>3 DEF FixCurrent
<1>11. CASE FixNext
  BY <1>0, <1>s, <1>11 DEF FixNext
<1>12. CASE FixFails
  BY <1>0, <1>s, <1>12 DEF FixFails
<1>13. CASE FetchTokens
  <2>1. RequestsOfOneChain'
    BY <1>13 DEF FetchTokens, HomeInv, RequestsOfOneChain, OneChain, ShownAgrees
  <2> QED BY <1>s, <1>13, <2>1 DEF FetchTokens
<1>14. ASSUME NEW f \in tokenRequests, TokensArrive(f) PROVE HomeInv'
  <2>1. RequestsOfOneChain'
    BY <1>14 DEF TokensArrive, HomeInv, RequestsOfOneChain
  <2>2. CASE IsOf(f, currentAccountRaw)
    <3>1. OneChain(f)
      BY DEF HomeInv, RequestsOfOneChain
    <3> QED BY <1>14, <2>1, <2>2, <3>1
            DEF TokensArrive, HomeInv, ShownAgrees, StoredOfOneChain, IsOf, OneChain
  <2>3. CASE ~IsOf(f, currentAccountRaw)
    BY <1>s, <1>14, <2>1, <2>3 DEF TokensArrive
  <2> QED BY <2>2, <2>3
<1>15. ASSUME NEW f \in tokenRequests, TokensFail(f) PROVE HomeInv'
  <2>1. RequestsOfOneChain'
    BY <1>15 DEF TokensFail, HomeInv, RequestsOfOneChain
  <2> QED BY <1>s, <1>15, <2>1 DEF TokensFail
<1>16. CASE UNCHANGED homeVars
  BY <1>0, <1>s, <1>16 DEF homeVars
<1> QED BY <1>1, <1>2, <1>3, <1>4, <1>5, <1>6, <1>7, <1>8, <1>9, <1>10, <1>11, <1>12,
           <1>13, <1>14, <1>15, <1>16 DEF HomeNext

(* Whatever answers arrive after the account changed, chain, account,       *)
(* wallet and the tokens shown are of one account (the autoruns of          *)
(* storeAccount.js and storeToken.js, the guard of setCurrentTokens).       *)
THEOREM HomeIsOfOneAccount == HomeSpec => []HomeShowsOneAccount
<1>1. HomeInv => HomeShowsOneAccount
  BY DEF HomeInv, ShownAgrees, StoredOfOneChain, OneChain, IsOf, HomeShowsOneAccount
<1> QED BY <1>1, InitAgrees, NextAgrees, PTL DEF HomeSpec

-----------------------------------------------------------------------------
(* Lists of accounts. *)

(* filter keeps what is not gone, and adds nothing.                         *)
LEMMA FilteredIs ==
  ASSUME NEW T, NEW list \in Seq(T), NEW gone
  PROVE  /\ Filtered(list, gone) \in Seq(T)
         /\ \A i \in 1..Len(Filtered(list, gone)) :
              \E j \in 1..Len(list) : Filtered(list, gone)[i] = list[j] /\ list[j] \notin gone
         /\ \A j \in 1..Len(list) : list[j] \notin gone =>
              \E i \in 1..Len(Filtered(list, gone)) : Filtered(list, gone)[i] = list[j]
<1> DEFINE n == Len(list)
           Then(f, i) == IF i = 0 THEN <<>>
                         ELSE IF list[i] \in gone THEN f[i - 1]
                         ELSE Append(f[i - 1], list[i])
           Steps(f, m) == f = [i \in 0..m |-> Then(f, i)]
           Can(m) == \E f : Steps(f, m)
<1>0. n \in Nat
  OBVIOUS
<1>1. \A m \in 0..n : Can(m)
  <2> DEFINE S == {m \in 0..n : ~Can(m)}
  <2> HIDE DEF Can
  <2>1. SUFFICES ASSUME S # {} PROVE FALSE
    OBVIOUS
  <2>2. PICK m \in S : \A k \in S : m <= k
    <3>1. S \in SUBSET Nat
      BY <1>0
    <3> HIDE DEF S
    <3> QED BY <2>1, <3>1, LeastNat
  <2>3. m # 0
    <3> DEFINE g == [i \in 0..0 |-> <<>>]
    <3>1. g = [i \in 0..0 |-> Then(g, i)]
      OBVIOUS
    <3> HIDE DEF g
    <3>2. Steps(g, 0)
      BY <3>1
    <3>3. Can(0)
      <4> HIDE DEF Steps
      <4> QED BY <3>2 DEF Can
    <3> QED BY <2>2, <3>3
  <2>4. m - 1 \in 0..n /\ m - 1 \notin S /\ m \in Nat
    BY <1>0, <2>2, <2>3
  <2>5. PICK f : Steps(f, m - 1)
    <3>1. Can(m - 1)
      BY <2>4
    <3> HIDE DEF Steps
    <3> QED BY <3>1 DEF Can
  <2> DEFINE g == [i \in 0..m |-> Then(f, i)]
  <2>6. \A i \in 0..(m - 1) : f[i] = Then(f, i)
    <3> HIDE DEF Then
    <3> QED BY <2>5
  <2>7. \A i \in 0..m : i # 0 => i - 1 \in 0..(m - 1) /\ i - 1 \in 0..m
    BY <2>4
  <2>8. \A i \in 0..(m - 1) : g[i] = f[i]
    BY <2>4, <2>6
  <2>9. \A i \in 0..m : Then(g, i) = Then(f, i)
    <3> HIDE DEF g
    <3> QED BY <2>7, <2>8
  <2>10. Steps(g, m)
    <3> HIDE DEF Then
    <3> QED BY <2>9
  <2>11. Can(m)
    <3> HIDE DEF Steps, g
    <3> QED BY <2>10 DEF Can
  <2> QED BY <2>2, <2>11
<1> DEFINE left == CHOOSE f : Steps(f, n)
<1>2. Filtered(list, gone) = left[n]
  BY DEF Filtered
<1>3. Steps(left, n)
  <2>1. Can(n)
    <3>1. n \in 0..n
      BY <1>0
    <3> HIDE DEF Can
    <3> QED BY <1>1, <3>1
  <2> HIDE DEF Steps
  <2> QED BY <2>1 DEF Can
<1> HIDE DEF left
<1>4. \A i \in 0..n : left[i] = Then(left, i)
  <2> HIDE DEF Then
  <2> QED BY <1>3
<1> DEFINE IsLeft(s, m) ==
             /\ s \in Seq(T)
             /\ \A i \in 1..Len(s) : \E j \in 1..m : s[i] = list[j] /\ list[j] \notin gone
             /\ \A j \in 1..m : list[j] \notin gone => \E i \in 1..Len(s) : s[i] = list[j]
           Fits(m) == IsLeft(left[m], m)
<1>5. \A m \in 0..n : Fits(m)
  <2> DEFINE S == {m \in 0..n : ~Fits(m)}
  <2> HIDE DEF Fits
  <2>1. SUFFICES ASSUME S # {} PROVE FALSE
    OBVIOUS
  <2>2. PICK m \in S : \A k \in S : m <= k
    <3>1. S \in SUBSET Nat
      BY <1>0
    <3> HIDE DEF S
    <3> QED BY <2>1, <3>1, LeastNat
  <2>3. m # 0
    <3>1. left[0] = <<>>
      BY <1>0, <1>4
    <3>2. Fits(0)
      BY <3>1 DEF Fits
    <3> QED BY <2>2, <3>2
  <2>4. m - 1 \in 0..n /\ m - 1 \notin S /\ m \in 1..n
    BY <1>0, <2>2, <2>3
  <2>5. Fits(m - 1)
    BY <2>4
  <2> DEFINE old == left[m - 1]
  <2>6. left[m] = IF list[m] \in gone THEN old ELSE Append(old, list[m])
    BY <1>4, <2>3, <2>4
  <2>7. \A j \in 1..m : j = m \/ j \in 1..(m - 1)
    BY <2>4
  <2>8. list[m] \in T /\ \A j \in 1..(m - 1) : j \in 1..m
    BY <2>4
  <2>9. CASE list[m] \in gone
    <3>1. left[m] = old
      BY <2>6, <2>9
    <3>2. Fits(m)
      BY <2>5, <2>7, <2>8, <2>9, <3>1 DEF Fits
    <3> QED BY <2>2, <3>2
  <2>10. CASE list[m] \notin gone
    <3> HIDE DEF old
    <3>1. /\ old \in Seq(T)
          /\ \A i \in 1..Len(old) : \E j \in 1..(m - 1) : old[i] = list[j] /\ list[j] \notin gone
          /\ \A j \in 1..(m - 1) : list[j] \notin gone =>
               \E i \in 1..Len(old) : old[i] = list[j]
      BY <2>5 DEF old, Fits
    <3> DEFINE new == Append(old, list[m])
    <3>2. /\ new \in Seq(T) /\ Len(new) = Len(old) + 1 /\ new[Len(old) + 1] = list[m]
          /\ \A i \in 1..Len(old) : new[i] = old[i]
      BY <2>8, <3>1
    <3>3. left[m] = new
      BY <2>6, <2>10
    <3> HIDE DEF new
    <3>4. Len(old) \in Nat
      BY <3>1
    <3>5. \A i \in 1..Len(new) : i = Len(old) + 1 \/ i \in 1..Len(old)
      BY <3>2, <3>4
    <3>6. \A i \in 1..Len(old) : i \in 1..Len(new)
      BY <3>2, <3>4
    <3>7. Len(old) + 1 \in 1..Len(new) /\ m \in 1..m
      BY <2>4, <3>2, <3>4
    <3>8. ASSUME NEW i \in 1..Len(new)
          PROVE  \E j \in 1..m : new[i] = list[j] /\ list[j] \notin gone
      <4>1. CASE i = Len(old) + 1
        BY <2>10, <3>2, <3>7, <4>1
      <4>2. CASE i \in 1..Len(old)
        <5>1. PICK j \in 1..(m - 1) : old[i] = list[j] /\ list[j] \notin gone
          BY <3>1, <4>2
        <5>2. j \in 1..m /\ new[i] = old[i]
          BY <2>8, <3>2, <4>2
        <5> QED BY <5>1, <5>2
      <4> QED BY <3>5, <4>1, <4>2
    <3>9. \A j \in 1..m : list[j] \notin gone => \E i \in 1..Len(new) : new[i] = list[j]
      BY <2>7, <3>1, <3>2, <3>6, <3>7
    <3>10. IsLeft(new, m)
      BY <3>2, <3>8, <3>9
    <3>11. Fits(m)
      <4> HIDE DEF IsLeft
      <4> QED BY <3>3, <3>10 DEF Fits
    <3> QED BY <2>2, <3>11
  <2> QED BY <2>9, <2>10
<1>6. Fits(n)
  <2>1. n \in 0..n
    BY <1>0
  <2> HIDE DEF Fits
  <2> QED BY <1>5, <2>1
<1>7. IsLeft(Filtered(list, gone), n)
  <2> HIDE DEF IsLeft
  <2> QED BY <1>2, <1>6
<1> QED BY <1>7

-----------------------------------------------------------------------------
(* The types of the home page. *)

CurrentOf == currentTokensRaw \in [of : Tag \cup {NoTag}, shown : BOOLEAN]

LEMMA FirstIsListed ==
  ASSUME NEW S, NEW list \in Seq(S), NEW key, NEW hw
  PROVE  FirstOfChain(key, list, hw) \in S \cup {Unset}
<1>1. CASE \E i \in DOMAIN list : IsFirst(i, key, list, hw)
  <2>1. PICK i \in DOMAIN list : FirstOfChain(key, list, hw) = list[i]
    BY <1>1 DEF FirstOfChain
  <2> QED BY <2>1
<1>2. CASE ~\E i \in DOMAIN list : IsFirst(i, key, list, hw)
  BY <1>2 DEF FirstOfChain
<1> QED BY <1>1, <1>2

LEMMA RealIsAccount ==
  ASSUME NEW a \in Account
  PROVE  /\ RealAccount(a) \in Account
         /\ RealAccount(a).chainKey = a.chainKey /\ RealAccount(a).path = a.path
         /\ RealAccount(a).type = a.type
         /\ RealAccount(RealAccount(a)) = RealAccount(a)
         /\ RealAccount(a).address = IF a.type = "wallet" THEN Derived[a.path] ELSE a.address
BY DerivedAssumption DEF RealAccount, Account

LEMMA AddsIs ==
  ASSUME NEW S, NEW list \in Seq(S), NEW a \in S
  PROVE  /\ Adds(list, a) \in Seq(S) /\ Len(list) <= Len(Adds(list, a))
         /\ \A i \in 1..Len(list) : Adds(list, a)[i] = list[i]
BY DEF Adds

LEMMA AddsHas ==
  ASSUME NEW S, NEW list \in Seq(S), NEW a \in S
  PROVE  \E i \in 1..Len(Adds(list, a)) :
           /\ Adds(list, a)[i].chainKey = a.chainKey
           /\ Adds(list, a)[i].address = a.address
<1>1. CASE \E i \in DOMAIN list : list[i].chainKey = a.chainKey /\ list[i].address = a.address
  BY <1>1 DEF Adds
<1>2. CASE ~\E i \in DOMAIN list : list[i].chainKey = a.chainKey /\ list[i].address = a.address
  <2>1. Adds(list, a) = Append(list, a)
    BY <1>2 DEF Adds
  <2>2. /\ Len(Append(list, a)) = Len(list) + 1 /\ Len(list) \in Nat
        /\ Append(list, a)[Len(list) + 1] = a
    OBVIOUS
  <2> QED BY <2>1, <2>2
<1> QED BY <1>1, <1>2

LEMMA ShowTypes ==
  ASSUME NEW key \in HomeChains, NEW a \in Account \cup {Unset},
         NEW stored \in [of : Tag \cup {NoTag}, shown : BOOLEAN], Show(key, a, stored)
  PROVE  /\ currentChainKey' \in HomeChains
         /\ currentAccountRaw' \in Account \cup {Unset}
         /\ currentWallet' \in [chainKey : HomeChains, account : Account \cup {Unset}]
         /\ CurrentOf'
<1>1. IsOf(stored.of, a) \in BOOLEAN
  BY DEF IsOf
<1> QED BY <1>1 DEF Show, CurrentOf

InitsOK(asked) ==
  asked \in [Inits -> [chainKey : HomeChains, mismatch : BOOLEAN] \cup {Resting}]

LEMMA InitFirstTypes ==
  ASSUME NEW key \in HomeChains, NEW a \in Account \cup {Unset},
         NEW list \in Seq(Account), NEW hw, NEW queue, InitsOK(queue),
         NEW stored \in [of : Tag \cup {NoTag}, shown : BOOLEAN],
         InitFirst(key, a, list, hw, queue, stored)
  PROVE  /\ currentChainKey' \in HomeChains
         /\ currentAccountRaw' \in Account \cup {Unset}
         /\ currentWallet' \in [chainKey : HomeChains, account : Account \cup {Unset}]
         /\ CurrentOf' /\ InitsOK(inits')
<1> DEFINE nextUp == FirstOfChain(key, list, hw)
           mismatch == a = Unset \/ a.chainKey # key
           giveUp == nextUp = Unset \/ mismatch \/ (hw /\ a.type # "hardware")
           shown == IF giveUp THEN nextUp ELSE a
           one == [chainKey |-> key, mismatch |-> mismatch]
<1>1. nextUp \in Account \cup {Unset}
  BY FirstIsListed
<1>2. \/ Show(key, Unset, stored) /\ \E i \in Inits : inits' = [queue EXCEPT ![i] = one]
      \/ Show(key, shown, stored) /\ inits' = queue
  <2>1. CASE nextUp = Unset /\ ~hw
    <3>1. PICK i \in Inits : queue[i] = Resting
      BY <2>1 DEF InitFirst
    <3>2. (CHOOSE j \in Inits : queue[j] = Resting) \in Inits
      BY <3>1
    <3>3. Show(key, Unset, stored)
          /\ inits' = [queue EXCEPT ![CHOOSE j \in Inits : queue[j] = Resting] = one]
      BY <2>1 DEF InitFirst
    <3> HIDE DEF one
    <3> QED BY <3>2, <3>3
  <2>2. CASE ~(nextUp = Unset /\ ~hw)
    BY <2>2 DEF InitFirst
  <2> QED BY <2>1, <2>2
<1>3. shown \in Account \cup {Unset} /\ one \in [chainKey : HomeChains, mismatch : BOOLEAN]
  BY <1>1
<1> HIDE DEF shown, one
<1>4. InitsOK(inits')
  BY <1>2, <1>3 DEF InitsOK
<1> QED BY <1>2, <1>3, <1>4, ShowTypes

LEMMA ReactTypes ==
  ASSUME HomeTypeOK, NEW a \in Account \cup {Unset}, NEW list \in Seq(Account), NEW hw,
         React(a, list, hw)
  PROVE  /\ currentChainKey' \in HomeChains
         /\ currentAccountRaw' \in Account \cup {Unset}
         /\ currentWallet' \in [chainKey : HomeChains, account : Account \cup {Unset}]
         /\ CurrentOf' /\ InitsOK(inits')
<1>1. /\ currentChainKey \in HomeChains /\ InitsOK(inits)
      /\ currentTokensRaw \in [of : Tag \cup {NoTag}, shown : BOOLEAN]
  BY DEF HomeTypeOK, InitsOK
<1>2. KeyOf(a) \in HomeChains
  BY <1>1, UnsetAssumption DEF KeyOf, Account
<1>3. CASE KeyOf(a) # currentChainKey \/ hw # isHardwareOnlyMode
  BY <1>1, <1>2, <1>3, InitFirstTypes DEF React
<1>4. CASE ~(KeyOf(a) # currentChainKey \/ hw # isHardwareOnlyMode)
  BY <1>1, <1>4, ShowTypes DEF React
<1> QED BY <1>3, <1>4

(* What the loop of autofixMismatchAddresses leaves to do, or writes.       *)
LEMMA GoThroughIs ==
  ASSUME NEW S \in SUBSET Account, allAccountsRaw \in Seq(S),
         NEW i \in Nat \ {0}, NEW fixed \in Seq(S), NEW updated \in BOOLEAN,
         GoThrough(i, fixed, updated)
  PROVE  \/ /\ fix' = Resting /\ allAccountsRaw' \in Seq(S)
            /\ \/ UNCHANGED allAccountsRaw
               \/ allAccountsRaw' = fixed \o SubSeq(allAccountsRaw, i, Len(allAccountsRaw))
         \/ \E next \in i..Len(allAccountsRaw) :
              /\ fix' = [stage |-> "list", account |-> allAccountsRaw[next], index |-> next,
                         fixed |-> fixed \o SubSeq(allAccountsRaw, i, next - 1),
                         updated |-> updated]
              /\ allAccountsRaw[next] \in S
              /\ fixed \o SubSeq(allAccountsRaw, i, next - 1) \in Seq(S)
              /\ UNCHANGED allAccountsRaw
<1> DEFINE n == Len(allAccountsRaw)
           rest == {j \in i..n : allAccountsRaw[j].type = "wallet"}
<1>1. n \in Nat
  OBVIOUS
<1>2. ASSUME NEW m \in Nat, m <= n PROVE fixed \o SubSeq(allAccountsRaw, i, m) \in Seq(S)
  <2>1. \A j \in i..m : allAccountsRaw[j] \in S
    BY <1>1, <1>2
  <2>2. SubSeq(allAccountsRaw, i, m) \in Seq(S)
    BY <2>1, SubSeqProperties
  <2> QED BY <2>2
<1>3. CASE rest = {}
  <2>1. /\ fix' = Resting
        /\ allAccountsRaw' = IF updated THEN fixed \o SubSeq(allAccountsRaw, i, n)
                             ELSE allAccountsRaw
    BY <1>3 DEF GoThrough, Remaining
  <2>2. fixed \o SubSeq(allAccountsRaw, i, n) \in Seq(S)
    BY <1>1, <1>2
  <2> QED BY <2>1, <2>2
<1>4. CASE rest # {}
  <2>1. PICK j \in rest : \A k \in rest : j <= k
    <3>1. rest \in SUBSET Nat
      BY <1>1
    <3> HIDE DEF rest
    <3> QED BY <1>4, <3>1, LeastNat
  <2> DEFINE next == CHOOSE h \in rest : \A k \in rest : h <= k
  <2>2. next \in rest
    <3> HIDE DEF rest
    <3> QED BY <2>1
  <2>3. /\ fix' = [stage |-> "list", account |-> allAccountsRaw[next], index |-> next,
                   fixed |-> fixed \o SubSeq(allAccountsRaw, i, next - 1),
                   updated |-> updated]
        /\ UNCHANGED allAccountsRaw
    BY <1>4 DEF GoThrough
  <2> HIDE DEF next
  <2>4. next \in i..n /\ next \in 1..n /\ next - 1 \in Nat /\ next - 1 <= n
    BY <1>1, <2>2
  <2>5. allAccountsRaw[next] \in S
    BY <2>4
  <2>6. fixed \o SubSeq(allAccountsRaw, i, next - 1) \in Seq(S)
    BY <1>2, <2>4
  <2> QED BY <2>3, <2>4, <2>5, <2>6
<1> QED BY <1>3, <1>4

LEMMA HomeInitTypes == HomeInit => HomeTypeOK
<1> SUFFICES ASSUME HomeInit PROVE HomeTypeOK
  OBVIOUS
<1>1. allAccountsRaw \in Seq(Account) /\ currentChainKey \in HomeChains
  BY SavedListsAssumption DEF HomeInit
<1>2. currentAccountRaw \in Account \cup {Unset}
  BY <1>1, FirstIsListed DEF HomeInit
<1>3. inits \in [Inits -> [chainKey : HomeChains, mismatch : BOOLEAN] \cup {Resting}]
  BY <1>1 DEF HomeInit
<1>4. added \subseteq Account
  BY <1>1 DEF HomeInit
<1>5. /\ currentWallet \in [chainKey : HomeChains, account : Account \cup {Unset}]
      /\ currentTokensRaw \in [of : Tag \cup {NoTag}, shown : BOOLEAN]
      /\ isHardwareOnlyMode \in BOOLEAN /\ fix \in Fix \cup {Resting} /\ tokenRequests \subseteq Tag
      /\ deletedAmid \in BOOLEAN
  BY <1>1, <1>2 DEF HomeInit
<1> QED BY <1>1, <1>2, <1>3, <1>4, <1>5 DEF HomeTypeOK

(* What is asked of the vault and the node, and what the loop holds.        *)
WaitingOK == fix \in Fix \cup {Resting} /\ tokenRequests \subseteq Tag

LEMMA ReactKeeps ==
  ASSUME HomeTypeOK, NEW a \in Account \cup {Unset}, NEW list \in Seq(Account), NEW hw,
         React(a, list, hw),
         allAccountsRaw' \in Seq(Account), isHardwareOnlyMode' \in BOOLEAN,
         added' \subseteq Account, deletedAmid' \in BOOLEAN, WaitingOK'
  PROVE  HomeTypeOK'
BY ReactTypes DEF HomeTypeOK, CurrentOf, InitsOK, WaitingOK

LEMMA HomeNextTypes == HomeTypeOK /\ [HomeNext]_homeVars => HomeTypeOK'
<1> SUFFICES ASSUME HomeTypeOK, [HomeNext]_homeVars PROVE HomeTypeOK'
  OBVIOUS
<1>t. /\ currentChainKey \in HomeChains /\ currentAccountRaw \in Account \cup {Unset}
      /\ allAccountsRaw \in Seq(Account) /\ isHardwareOnlyMode \in BOOLEAN
      /\ InitsOK(inits) /\ WaitingOK /\ added \subseteq Account /\ deletedAmid \in BOOLEAN
      /\ currentTokensRaw \in [of : Tag \cup {NoTag}, shown : BOOLEAN]
  BY DEF HomeTypeOK, InitsOK, WaitingOK
<1>w. ASSUME UNCHANGED <<fix, tokenRequests>> PROVE WaitingOK'
  BY <1>w, <1>t DEF WaitingOK
<1>1. ASSUME NEW a \in Account, ChooseAccount(a) PROVE HomeTypeOK'
  BY <1>t, <1>w, <1>1, ReactKeeps DEF ChooseAccount
<1>2. ASSUME NEW a \in Account, ConfirmImport(a) PROVE HomeTypeOK'
  <2>1. allAccountsRaw' \in Seq(Account)
    BY <1>t, <1>2, AddsIs DEF ConfirmImport
  <2>2. UNCHANGED <<isHardwareOnlyMode, fix, tokenRequests, deletedAmid>>
        /\ added' \subseteq Account /\ React(a, allAccountsRaw', isHardwareOnlyMode)
    BY <1>t, <1>2 DEF ConfirmImport
  <2> QED BY <1>t, <1>w, <2>1, <2>2, ReactKeeps
<1>3. CASE DeleteAccount
  <2> DEFINE gone == {a \in Account : a.address = currentAccountRaw.address
                                        /\ a.chainKey = currentChainKey}
             remains == Filtered(allAccountsRaw, gone)
             same == FirstOfChain(currentChainKey, remains, FALSE)
             next == IF same # Unset THEN same ELSE FirstOf(remains)
  <2>1. remains \in Seq(Account)
    BY <1>t, FilteredIs
  <2>2. /\ allAccountsRaw' = remains /\ added' \subseteq Account
        /\ React(next, remains, isHardwareOnlyMode)
        /\ deletedAmid' \in BOOLEAN
        /\ UNCHANGED <<isHardwareOnlyMode, fix, tokenRequests>>
    BY <1>t, <1>3 DEF DeleteAccount
  <2> HIDE DEF remains
  <2>3. same \in Account \cup {Unset}
    BY <2>1, FirstIsListed
  <2>4. FirstOf(remains) \in Account \cup {Unset}
    BY <2>1 DEF FirstOf
  <2>5. next \in Account \cup {Unset}
    BY <2>3, <2>4
  <2> HIDE DEF next
  <2> QED BY <1>t, <1>w, <2>1, <2>2, <2>5, ReactKeeps
<1>4. CASE SetHardwareOnlyMode
  BY <1>t, <1>w, <1>4, ReactKeeps DEF SetHardwareOnlyMode
<1>5. ASSUME Reopen \/ InitFirstAccount PROVE HomeTypeOK'
  <2>1. ASSUME NEW queue, InitsOK(queue),
               NEW stored \in [of : Tag \cup {NoTag}, shown : BOOLEAN],
               InitFirst(currentChainKey, currentAccountRaw, allAccountsRaw,
                         isHardwareOnlyMode, queue, stored)
        PROVE  /\ currentChainKey' \in HomeChains
               /\ currentAccountRaw' \in Account \cup {Unset}
               /\ currentWallet' \in [chainKey : HomeChains, account : Account \cup {Unset}]
               /\ CurrentOf' /\ InitsOK(inits')
    BY <1>t, <2>1, InitFirstTypes
  <2>2. /\ UNCHANGED <<allAccountsRaw, isHardwareOnlyMode, added, deletedAmid>>
        /\ WaitingOK'
    BY <1>t, <1>5 DEF Reopen, InitFirstAccount, WaitingOK
  <2>3. CASE Reopen
    <3> DEFINE saved == [of |-> currentTokensRaw.of, shown |-> currentTokensRaw.of # NoTag]
               none == [i \in Inits |-> Resting]
    <3>1. InitsOK(none)
      BY DEF InitsOK
    <3>2. saved \in [of : Tag \cup {NoTag}, shown : BOOLEAN]
      BY <1>t
    <3>3. InitFirst(currentChainKey, currentAccountRaw, allAccountsRaw, isHardwareOnlyMode,
                    none, saved)
      BY <2>3 DEF Reopen
    <3> HIDE DEF saved, none
    <3> QED BY <1>t, <2>1, <2>2, <3>1, <3>2, <3>3
            DEF HomeTypeOK, WaitingOK, CurrentOf, InitsOK
  <2>4. CASE InitFirstAccount
    <3>1. InitFirst(currentChainKey, currentAccountRaw, allAccountsRaw, isHardwareOnlyMode,
                    inits, currentTokensRaw)
      BY <2>4 DEF InitFirstAccount
    <3> QED BY <1>t, <2>1, <2>2, <3>1 DEF HomeTypeOK, WaitingOK, CurrentOf, InitsOK
  <2> QED BY <1>5, <2>3, <2>4
<1>6. ASSUME NEW i \in Inits, AddressesArrive(i) PROVE HomeTypeOK'
  <2> DEFINE one == [chainKey |-> inits[i].chainKey, address |-> Derived[FirstPath],
                     path |-> FirstPath, type |-> "wallet"]
             own == FirstOfChain(currentChainKey, allAccountsRaw', isHardwareOnlyMode)
  <2>1. one \in Account
    BY <1>t, <1>6, DerivedAssumption, FirstPathAssumption
      DEF AddressesArrive, InitsOK, Account
  <2>2. /\ allAccountsRaw' = Adds(allAccountsRaw, one) /\ added' = added \cup {one}
        /\ \/ Show(currentChainKey, own, currentTokensRaw)
           \/ UNCHANGED <<currentChainKey, currentAccountRaw, currentWallet, currentTokensRaw>>
        /\ inits' = [inits EXCEPT ![i] = Resting]
        /\ UNCHANGED <<isHardwareOnlyMode, fix, tokenRequests, deletedAmid>>
    BY <1>6 DEF AddressesArrive
  <2> HIDE DEF one
  <2>3. allAccountsRaw' \in Seq(Account)
    BY <1>t, <2>1, <2>2, AddsIs
  <2>4. own \in Account \cup {Unset}
    BY <2>3, FirstIsListed
  <2> HIDE DEF own
  <2>5. /\ currentChainKey' \in HomeChains
        /\ currentAccountRaw' \in Account \cup {Unset}
        /\ currentWallet' \in [chainKey : HomeChains, account : Account \cup {Unset}]
        /\ CurrentOf'
    <3>1. CASE Show(currentChainKey, own, currentTokensRaw)
      BY <1>t, <2>4, <3>1, ShowTypes
    <3>2. CASE UNCHANGED <<currentChainKey, currentAccountRaw, currentWallet, currentTokensRaw>>
      BY <3>2 DEF HomeTypeOK, CurrentOf
    <3> QED BY <2>2, <3>1, <3>2
  <2>6. InitsOK(inits')
    BY <1>t, <2>2 DEF InitsOK
  <2> QED BY <1>t, <1>w, <2>1, <2>2, <2>3, <2>5, <2>6
          DEF HomeTypeOK, WaitingOK, CurrentOf, InitsOK
<1>7. ASSUME NEW i \in Inits, AddressesFail(i) PROVE HomeTypeOK'
  BY <1>7 DEF AddressesFail, HomeTypeOK
<1>8. ASSUME NEW i \in Nat \ {0}, NEW fixed \in Seq(Account), NEW updated \in BOOLEAN,
             GoThrough(i, fixed, updated)
      PROVE  allAccountsRaw' \in Seq(Account) /\ fix' \in Fix \cup {Resting}
  <2>1. Account \in SUBSET Account
    OBVIOUS
  <2>2. \/ /\ fix' = Resting /\ allAccountsRaw' \in Seq(Account)
           /\ \/ UNCHANGED allAccountsRaw
              \/ allAccountsRaw' = fixed \o SubSeq(allAccountsRaw, i, Len(allAccountsRaw))
        \/ \E next \in i..Len(allAccountsRaw) :
              /\ fix' = [stage |-> "list", account |-> allAccountsRaw[next], index |-> next,
                         fixed |-> fixed \o SubSeq(allAccountsRaw, i, next - 1),
                         updated |-> updated]
              /\ allAccountsRaw[next] \in Account
              /\ fixed \o SubSeq(allAccountsRaw, i, next - 1) \in Seq(Account)
              /\ UNCHANGED allAccountsRaw
    BY <1>t, <1>8, <2>1, GoThroughIs
  <2>3. ASSUME NEW next \in i..Len(allAccountsRaw), NEW done \in Seq(Account),
               allAccountsRaw[next] \in Account
        PROVE  [stage |-> "list", account |-> allAccountsRaw[next], index |-> next,
                fixed |-> done, updated |-> updated] \in Fix
    <3>1. next \in Nat
      OBVIOUS
    <3> QED BY <2>3, <3>1 DEF Fix
  <2>4. CASE fix' = Resting /\ allAccountsRaw' \in Seq(Account)
    BY <2>4
  <2>5. ASSUME NEW next \in i..Len(allAccountsRaw),
               /\ fix' = [stage |-> "list", account |-> allAccountsRaw[next], index |-> next,
                          fixed |-> fixed \o SubSeq(allAccountsRaw, i, next - 1),
                          updated |-> updated]
               /\ allAccountsRaw[next] \in Account
               /\ fixed \o SubSeq(allAccountsRaw, i, next - 1) \in Seq(Account)
               /\ UNCHANGED allAccountsRaw
        PROVE  allAccountsRaw' \in Seq(Account) /\ fix' \in Fix
    BY <1>t, <2>3, <2>5
  <2> QED BY <2>2, <2>4, <2>5
<1>9. /\ 1 \in Nat \ {0} /\ <<>> \in Seq(Account) /\ FALSE \in BOOLEAN
  OBVIOUS
<1>10. CASE AutofixMismatchAddresses
  <2>1. allAccountsRaw' \in Seq(Account) /\ fix' \in Fix \cup {Resting}
    <3>1. CASE currentAccountRaw.type = "wallet"
      <4>1. [stage |-> "current", account |-> currentAccountRaw, index |-> 0,
             fixed |-> <<>>, updated |-> FALSE] \in Fix
        BY <1>t, <1>9, <1>10 DEF AutofixMismatchAddresses, Fix
      <4> QED BY <1>t, <1>10, <3>1, <4>1 DEF AutofixMismatchAddresses
    <3>2. CASE currentAccountRaw.type # "wallet"
      BY <1>8, <1>9, <1>10, <3>2 DEF AutofixMismatchAddresses
    <3> QED BY <3>1, <3>2
  <2> QED BY <1>10, <2>1 DEF AutofixMismatchAddresses, HomeTypeOK
<1>f. fix # Resting => /\ fix.account \in Account /\ fix.index \in Nat
                       /\ fix.fixed \in Seq(Account) /\ fix.updated \in BOOLEAN
  BY <1>t DEF WaitingOK, Fix
<1>11. CASE FixCurrent
  <2>1. allAccountsRaw' \in Seq(Account) /\ fix' \in Fix \cup {Resting}
    BY <1>8, <1>9, <1>11 DEF FixCurrent
  <2>2. WaitingOK'
    BY <1>t, <1>11, <2>1 DEF WaitingOK, FixCurrent
  <2>3. CASE React(RealAccount(fix.account), allAccountsRaw, isHardwareOnlyMode)
    <3>1. RealAccount(fix.account) \in Account
      BY <1>f, <1>11, RealIsAccount DEF FixCurrent
    <3> QED BY <1>t, <1>11, <2>1, <2>2, <2>3, <3>1, ReactKeeps DEF FixCurrent
  <2>4. CASE UNCHANGED <<currentChainKey, currentAccountRaw, currentWallet, currentTokensRaw,
                         inits>>
    BY <1>11, <2>1, <2>4 DEF FixCurrent, HomeTypeOK
  <2> QED BY <1>11, <2>3, <2>4 DEF FixCurrent
<1>12. CASE FixNext
  <2>1. /\ RealAccount(fix.account) \in Account /\ fix.index + 1 \in Nat \ {0}
        /\ Append(fix.fixed, RealAccount(fix.account)) \in Seq(Account)
        /\ (fix.updated \/ RealAccount(fix.account) # fix.account) \in BOOLEAN
    BY <1>f, <1>12, RealIsAccount DEF FixNext
  <2>2. allAccountsRaw' \in Seq(Account) /\ fix' \in Fix \cup {Resting}
    BY <1>8, <1>12, <2>1 DEF FixNext
  <2> QED BY <1>12, <2>2 DEF FixNext, HomeTypeOK
<1>13. CASE FixFails
  BY <1>13 DEF FixFails, HomeTypeOK
<1>14. CASE FetchTokens
  <2>1. [chainKey |-> currentWallet.chainKey, ownerAddress |-> currentAccountRaw.address,
         local |-> currentAccountRaw.chainKey] \in Tag
    BY <1>14 DEF FetchTokens, HomeTypeOK, Tag, Account
  <2> QED BY <1>14, <2>1 DEF FetchTokens, HomeTypeOK
<1>15. ASSUME NEW f \in tokenRequests, TokensArrive(f) \/ TokensFail(f) PROVE HomeTypeOK'
  <2>1. f \in Tag
    BY <1>t DEF WaitingOK
  <2>2. currentTokensRaw' \in [of : Tag \cup {NoTag}, shown : BOOLEAN]
    <3>1. [of |-> f, shown |-> TRUE] \in [of : Tag \cup {NoTag}, shown : BOOLEAN]
      BY <2>1
    <3>2. \/ currentTokensRaw' = currentTokensRaw
          \/ currentTokensRaw' = [of |-> f, shown |-> TRUE]
      BY <1>15 DEF TokensArrive, TokensFail
    <3> QED BY <1>t, <3>1, <3>2
  <2> QED BY <1>15, <2>2 DEF TokensArrive, TokensFail, HomeTypeOK
<1>16. CASE UNCHANGED homeVars
  BY <1>16 DEF homeVars, HomeTypeOK
<1> QED BY <1>1, <1>2, <1>3, <1>4, <1>5, <1>6, <1>7, <1>10, <1>11, <1>12,
           <1>13, <1>14, <1>15, <1>16 DEF HomeNext

-----------------------------------------------------------------------------
(* The accounts a page may come to know: saved, imported, or the first of a *)
(* chain.                                                                   *)
Known ==
  Importable \cup {a \in Account : \E list \in SavedLists : \E i \in DOMAIN list : list[i] = a}
    \cup {[chainKey |-> c, address |-> Derived[FirstPath], path |-> FirstPath,
           type |-> "wallet"] : c \in HomeChains}

(* The addresses an account is found by: its own, and the right one.        *)
Own(a) == {a.address, RealAccount(a).address}

(* An address belongs to one path: an account that has the address of       *)
(* another on the same chain, right or wrong, is put right to an address of *)
(* that one.                                                                *)
OnePathEach ==
  \A a, b \in Known :
    a.chainKey = b.chainKey /\ b.address \in Own(a) => RealAccount(b).address \in Own(a)

Writable == {a \in Account : \E b \in Known : a \in {b, RealAccount(b)}}

IsKept(a, list) ==
  \E i \in 1..Len(list) : list[i].chainKey = a.chainKey /\ list[i].address \in Own(a)

(* The loop has put right a prefix of the list, which has only grown since. *)
InTheList == fix # Resting /\ fix.stage = "list"
LoopFits ==
  InTheList =>
    /\ fix.index \in 1..Len(allAccountsRaw) /\ fix.account = allAccountsRaw[fix.index]
    /\ Len(fix.fixed) = fix.index - 1
    /\ \A j \in 1..(fix.index - 1) :
         fix.fixed[j] \in {allAccountsRaw[j], RealAccount(allAccountsRaw[j])}

HeldInv ==
  /\ allAccountsRaw \in Seq(Writable)
  /\ added \subseteq Known
  /\ InTheList => fix.account \in Writable /\ fix.fixed \in Seq(Writable)
  /\ ~deletedAmid => LoopFits /\ \A a \in added : IsKept(a, allAccountsRaw)

LEMMA KnownIsWritable ==
  /\ Known \subseteq Account /\ Known \subseteq Writable /\ Writable \subseteq Account
  /\ \A b \in Writable : RealAccount(b) \in Writable
<1>1. Known \subseteq Account
  BY ImportableAssumption, DerivedAssumption, FirstPathAssumption DEF Known, Account
<1>2. ASSUME NEW b \in Writable PROVE RealAccount(b) \in Writable
  <2>1. PICK c \in Known : b \in {c, RealAccount(c)}
    BY DEF Writable
  <2>2. RealAccount(b) = RealAccount(c) /\ RealAccount(b) \in Account
    BY <1>1, <2>1, RealIsAccount
  <2> QED BY <2>1, <2>2 DEF Writable
<1> QED BY <1>1, <1>2 DEF Writable

LEMMA PutRight ==
  ASSUME OnePathEach, NEW a \in Known, NEW b \in Writable,
         b.chainKey = a.chainKey, b.address \in Own(a)
  PROVE  RealAccount(b).chainKey = a.chainKey /\ RealAccount(b).address \in Own(a)
<1>1. b \in Account
  BY KnownIsWritable
<1>2. PICK c \in Known : b \in {c, RealAccount(c)}
  BY DEF Writable
<1>3. CASE b = c
  BY <1>1, <1>2, <1>3, RealIsAccount DEF OnePathEach
<1>4. CASE b = RealAccount(c)
  BY <1>1, <1>2, <1>4, RealIsAccount, KnownIsWritable
<1> QED BY <1>2, <1>3, <1>4

(* The list was only added to.                                              *)
LEMMA GrownHolds ==
  ASSUME HeldInv, allAccountsRaw' \in Seq(Writable), Len(allAccountsRaw) <= Len(allAccountsRaw'),
         \A i \in 1..Len(allAccountsRaw) : allAccountsRaw'[i] = allAccountsRaw[i],
         UNCHANGED <<fix, deletedAmid>>, added' \subseteq Known,
         \A a \in added' \ added : IsKept(a, allAccountsRaw')
  PROVE  HeldInv'
<1>1. Len(allAccountsRaw) \in Nat /\ Len(allAccountsRaw') \in Nat
  BY DEF HeldInv
<1>2. \A i \in 1..Len(allAccountsRaw) : i \in 1..Len(allAccountsRaw')
  BY <1>1
<1>3. ASSUME NEW a, IsKept(a, allAccountsRaw) PROVE IsKept(a, allAccountsRaw')
  BY <1>2, <1>3 DEF IsKept
<1>4. ASSUME LoopFits PROVE LoopFits'
  <2>1. ASSUME InTheList'
        PROVE  /\ fix.index \in 1..Len(allAccountsRaw) /\ Len(fix.fixed) = fix.index - 1
               /\ fix.account = allAccountsRaw[fix.index]
               /\ \A j \in 1..(fix.index - 1) : j \in 1..Len(allAccountsRaw) /\
                    fix.fixed[j] \in {allAccountsRaw[j], RealAccount(allAccountsRaw[j])}
    BY <1>1, <1>4, <2>1 DEF LoopFits, InTheList
  <2> QED BY <1>2, <2>1 DEF LoopFits
<1>5. ~deletedAmid' => LoopFits' /\ \A a \in added' : IsKept(a, allAccountsRaw')
  BY <1>3, <1>4 DEF HeldInv
<1> QED BY <1>5 DEF HeldInv, InTheList

LEMMA AddedHolds ==
  ASSUME HeldInv, NEW a \in Known, allAccountsRaw' = Adds(allAccountsRaw, a),
         added' = added \cup {a}, UNCHANGED <<fix, deletedAmid>>
  PROVE  HeldInv'
<1>1. a \in Writable /\ allAccountsRaw \in Seq(Writable)
  BY KnownIsWritable DEF HeldInv
<1>2. /\ allAccountsRaw' \in Seq(Writable) /\ Len(allAccountsRaw) <= Len(allAccountsRaw')
      /\ \A i \in 1..Len(allAccountsRaw) : allAccountsRaw'[i] = allAccountsRaw[i]
      /\ \E i \in 1..Len(allAccountsRaw') : /\ allAccountsRaw'[i].chainKey = a.chainKey
                                            /\ allAccountsRaw'[i].address = a.address
  <2> DEFINE more == Adds(allAccountsRaw, a)
  <2>1. more \in Seq(Writable) /\ Len(allAccountsRaw) <= Len(more)
    BY <1>1, AddsIs
  <2>2. ASSUME NEW i \in 1..Len(allAccountsRaw) PROVE more[i] = allAccountsRaw[i]
    BY <1>1, AddsIs
  <2>3. \E i \in 1..Len(more) : more[i].chainKey = a.chainKey /\ more[i].address = a.address
    BY <1>1, AddsHas
  <2>4. allAccountsRaw' = more
    OBVIOUS
  <2> HIDE DEF more
  <2> QED BY <2>1, <2>2, <2>3, <2>4
<1>3. IsKept(a, allAccountsRaw')
  BY <1>2 DEF IsKept, Own
<1>4. added' \subseteq Known /\ \A b \in added' \ added : b = a
  BY DEF HeldInv
<1> QED BY <1>2, <1>3, <1>4, GrownHolds

(* The list is written back, with addresses put right.                      *)
LEMMA RewrittenHolds ==
  ASSUME OnePathEach, HeldInv, NEW list \in Seq(Writable), Len(list) = Len(allAccountsRaw),
         \A j \in 1..Len(list) : list[j] \in {allAccountsRaw[j], RealAccount(allAccountsRaw[j])},
         NEW a \in added, IsKept(a, allAccountsRaw)
  PROVE  IsKept(a, list)
<1>1. PICK j \in 1..Len(allAccountsRaw) :
        allAccountsRaw[j].chainKey = a.chainKey /\ allAccountsRaw[j].address \in Own(a)
  BY DEF IsKept
<1>2. allAccountsRaw[j] \in Writable /\ a \in Known
  BY DEF HeldInv
<1>3. RealAccount(allAccountsRaw[j]).chainKey = a.chainKey
      /\ RealAccount(allAccountsRaw[j]).address \in Own(a)
  BY <1>1, <1>2, PutRight
<1>4. list[j].chainKey = a.chainKey /\ list[j].address \in Own(a)
  BY <1>1, <1>3
<1> QED BY <1>1, <1>4 DEF IsKept

LEMMA GoThroughHolds ==
  ASSUME OnePathEach, HeldInv, NEW i \in Nat \ {0}, NEW fixed \in Seq(Writable),
         NEW updated \in BOOLEAN, GoThrough(i, fixed, updated),
         ~deletedAmid =>
           /\ i - 1 <= Len(allAccountsRaw) /\ Len(fixed) = i - 1
           /\ \A j \in 1..(i - 1) :
                fixed[j] \in {allAccountsRaw[j], RealAccount(allAccountsRaw[j])},
         UNCHANGED <<added, deletedAmid>>
  PROVE  HeldInv'
<1> DEFINE n == Len(allAccountsRaw)
           tail(m) == SubSeq(allAccountsRaw, i, m)
<1>1. n \in Nat /\ allAccountsRaw \in Seq(Writable) /\ added \subseteq Known
  BY DEF HeldInv
<1>t. ASSUME NEW m \in Nat, m <= n, i - 1 <= m
      PROVE  /\ tail(m) \in Seq(Writable) /\ Len(tail(m)) = m - (i - 1)
             /\ \A j \in 1..(m - (i - 1)) : tail(m)[j] = allAccountsRaw[j + (i - 1)]
  <2>1. \A j \in i..m : allAccountsRaw[j] \in Writable
    BY <1>1, <1>t
  <2>2. m - i + 1 = m - (i - 1) /\ \A j \in Nat : i + j - 1 = j + (i - 1)
    BY <1>t
  <2>3. /\ tail(m) \in Seq(Writable) /\ Len(tail(m)) = (IF i <= m THEN m - i + 1 ELSE 0)
        /\ \A j \in 1..(m - i + 1) : tail(m)[j] = allAccountsRaw[i + j - 1]
    BY <2>1, SubSeqProperties
  <2>4. (IF i <= m THEN m - i + 1 ELSE 0) = m - (i - 1)
    BY <1>t
  <2> HIDE DEF tail
  <2>5. ASSUME NEW j \in 1..(m - (i - 1)) PROVE tail(m)[j] = allAccountsRaw[j + (i - 1)]
    <3>1. j \in 1..(m - i + 1) /\ i + j - 1 = j + (i - 1)
      BY <1>t, <2>2
    <3> QED BY <2>3, <3>1
  <2> QED BY <2>3, <2>4, <2>5
<1>2. ASSUME ~deletedAmid, NEW m \in Nat, m <= n, i - 1 <= m
      PROVE  /\ fixed \o tail(m) \in Seq(Writable) /\ Len(fixed \o tail(m)) = m
             /\ \A j \in 1..m : (fixed \o tail(m))[j] \in
                                  {allAccountsRaw[j], RealAccount(allAccountsRaw[j])}
  <2> HIDE DEF tail, n
  <2>1. /\ tail(m) \in Seq(Writable) /\ Len(tail(m)) = m - (i - 1)
        /\ \A j \in 1..(m - (i - 1)) : tail(m)[j] = allAccountsRaw[j + (i - 1)]
    BY <1>2, <1>t
  <2>2. /\ Len(fixed) = i - 1
        /\ \A j \in 1..(i - 1) : fixed[j] \in {allAccountsRaw[j], RealAccount(allAccountsRaw[j])}
    BY <1>2
  <2>3. /\ fixed \o tail(m) \in Seq(Writable) /\ Len(fixed \o tail(m)) = Len(fixed) + Len(tail(m))
        /\ \A j \in 1..Len(fixed) + Len(tail(m)) :
             (fixed \o tail(m))[j] = IF j <= Len(fixed) THEN fixed[j]
                                     ELSE tail(m)[j - Len(fixed)]
    BY <2>1, ConcatProperties
  <2>4. Len(fixed) + Len(tail(m)) = m
    BY <2>1, <2>2
  <2>5. ASSUME NEW j \in 1..m
        PROVE  (fixed \o tail(m))[j] \in {allAccountsRaw[j], RealAccount(allAccountsRaw[j])}
    <3>1. CASE j <= i - 1
      BY <2>2, <2>3, <2>4, <3>1
    <3>2. CASE ~(j <= i - 1)
      <4>1. j - (i - 1) \in 1..(m - (i - 1)) /\ (j - (i - 1)) + (i - 1) = j
        BY <1>2, <3>2
      <4>2. tail(m)[j - (i - 1)] = allAccountsRaw[j]
        BY <2>1, <4>1
      <4> QED BY <2>2, <2>3, <2>4, <3>2, <4>2
    <3> QED BY <3>1, <3>2
  <2> QED BY <2>3, <2>4, <2>5
<1>3. Writable \in SUBSET Account
  BY KnownIsWritable
<1>4. \/ /\ fix' = Resting /\ allAccountsRaw' \in Seq(Writable)
         /\ \/ UNCHANGED allAccountsRaw
            \/ allAccountsRaw' = fixed \o tail(n)
      \/ \E next \in i..n :
           /\ fix' = [stage |-> "list", account |-> allAccountsRaw[next], index |-> next,
                      fixed |-> fixed \o tail(next - 1), updated |-> updated]
           /\ allAccountsRaw[next] \in Writable
           /\ fixed \o tail(next - 1) \in Seq(Writable)
           /\ UNCHANGED allAccountsRaw
  BY <1>1, <1>3, GoThroughIs
<1> HIDE DEF tail
<1>5. ASSUME fix' = Resting, UNCHANGED allAccountsRaw PROVE HeldInv'
  BY <1>5 DEF HeldInv, LoopFits, InTheList
<1>6. ASSUME fix' = Resting, allAccountsRaw' \in Seq(Writable),
             allAccountsRaw' = fixed \o tail(n)
      PROVE  HeldInv'
  <2>1. ASSUME ~deletedAmid, NEW a \in added PROVE IsKept(a, allAccountsRaw')
    <3>1. i - 1 <= n /\ n <= n /\ IsKept(a, allAccountsRaw)
      BY <1>1, <2>1 DEF HeldInv
    <3>2. /\ Len(allAccountsRaw') = n
          /\ \A j \in 1..n : allAccountsRaw'[j] \in
                               {allAccountsRaw[j], RealAccount(allAccountsRaw[j])}
      BY <1>1, <1>2, <1>6, <2>1, <3>1
    <3> QED BY <1>6, <3>1, <3>2, RewrittenHolds
  <2> QED BY <1>1, <1>6, <2>1 DEF HeldInv, LoopFits, InTheList
<1>7. ASSUME NEW next \in i..n,
             fix' = [stage |-> "list", account |-> allAccountsRaw[next], index |-> next,
                     fixed |-> fixed \o tail(next - 1), updated |-> updated],
             allAccountsRaw[next] \in Writable, fixed \o tail(next - 1) \in Seq(Writable),
             UNCHANGED allAccountsRaw
      PROVE  HeldInv'
  <2>1. next \in 1..n /\ next - 1 \in Nat /\ next - 1 <= n /\ i - 1 <= next - 1
    BY <1>1
  <2>2. ASSUME ~deletedAmid
        PROVE  /\ Len(fixed \o tail(next - 1)) = next - 1
               /\ \A j \in 1..(next - 1) : (fixed \o tail(next - 1))[j] \in
                                  {allAccountsRaw[j], RealAccount(allAccountsRaw[j])}
    BY <1>2, <2>1, <2>2
  <2>3. /\ fix'.index = next /\ fix'.account = allAccountsRaw[next]
        /\ fix'.fixed = fixed \o tail(next - 1)
    BY <1>7
  <2>4. ~deletedAmid' => LoopFits'
    BY <1>7, <2>1, <2>2, <2>3 DEF LoopFits
  <2>5. ~deletedAmid' => \A a \in added' : IsKept(a, allAccountsRaw')
    BY <1>7 DEF HeldInv
  <2> QED BY <1>1, <1>7, <2>3, <2>4, <2>5 DEF HeldInv
<1> QED BY <1>4, <1>5, <1>6, <1>7

LEMMA HeldInit == HomeInit => HeldInv
<1> SUFFICES ASSUME HomeInit PROVE HeldInv
  OBVIOUS
<1>1. allAccountsRaw \in Seq(Account)
  BY SavedListsAssumption DEF HomeInit
<1>2. \A i \in 1..Len(allAccountsRaw) : allAccountsRaw[i] \in Known
  BY <1>1 DEF HomeInit, Known
<1>3. allAccountsRaw \in Seq(Writable)
  BY <1>1, <1>2, KnownIsWritable
<1>4. added = {allAccountsRaw[i] : i \in 1..Len(allAccountsRaw)}
  BY <1>1 DEF HomeInit
<1>5. \A a \in added : IsKept(a, allAccountsRaw)
  BY <1>4 DEF IsKept, Own
<1>6. added \subseteq Known
  BY <1>2, <1>4
<1> QED BY <1>3, <1>5, <1>6 DEF HomeInit, HeldInv, LoopFits, InTheList

LEMMA HeldNext ==
  OnePathEach /\ HomeTypeOK /\ HeldInv /\ [HomeNext]_homeVars => HeldInv'
<1> SUFFICES ASSUME OnePathEach, HomeTypeOK, HeldInv, [HomeNext]_homeVars PROVE HeldInv'
  OBVIOUS
<1>t. /\ inits \in [Inits -> [chainKey : HomeChains, mismatch : BOOLEAN] \cup {Resting}]
      /\ fix # Resting => fix.index \in Nat /\ fix.updated \in BOOLEAN
  BY DEF HomeTypeOK, Fix
<1>u. ASSUME UNCHANGED <<allAccountsRaw, fix, added, deletedAmid>> PROVE HeldInv'
  BY <1>u DEF HeldInv, LoopFits, InTheList, IsKept, Own
<1>r. ASSUME fix' = Resting, UNCHANGED <<allAccountsRaw, added, deletedAmid>> PROVE HeldInv'
  BY <1>r DEF HeldInv, LoopFits, InTheList, IsKept, Own
<1>1. ASSUME NEW a \in Account, ChooseAccount(a) PROVE HeldInv'
  BY <1>u, <1>1 DEF ChooseAccount
<1>2. ASSUME NEW a \in Account, ConfirmImport(a) PROVE HeldInv'
  <2>1. a \in Known
    BY <1>2 DEF ConfirmImport, Known
  <2> QED BY <1>2, <2>1, AddedHolds DEF ConfirmImport
<1>3. CASE DeleteAccount
  <2> DEFINE gone == {a \in Account : a.address = currentAccountRaw.address
                                        /\ a.chainKey = currentChainKey}
             remains == Filtered(allAccountsRaw, gone)
  <2>1. /\ allAccountsRaw' = remains /\ UNCHANGED fix
        /\ added' = {a \in added : a \notin gone /\ RealAccount(a) \notin gone}
        /\ deletedAmid' = (deletedAmid \/ InTheList)
    BY <1>3 DEF DeleteAccount, InTheList
  <2> HIDE DEF remains
  <2>2. /\ remains \in Seq(Writable)
        /\ \A j \in 1..Len(allAccountsRaw) : allAccountsRaw[j] \notin gone =>
             \E i \in 1..Len(remains) : remains[i] = allAccountsRaw[j]
    <3>1. allAccountsRaw \in Seq(Writable)
      BY DEF HeldInv
    <3> HIDE DEF gone
    <3> QED BY <3>1, FilteredIs DEF remains
  <2>3. ASSUME ~deletedAmid', NEW a \in added' PROVE IsKept(a, remains)
    <3>1. a \in added /\ a \notin gone /\ RealAccount(a) \notin gone /\ IsKept(a, allAccountsRaw)
      BY <2>1, <2>3 DEF HeldInv
    <3>2. PICK j \in 1..Len(allAccountsRaw) :
            allAccountsRaw[j].chainKey = a.chainKey /\ allAccountsRaw[j].address \in Own(a)
      BY <3>1 DEF IsKept
    <3>3. a \in Account /\ RealAccount(a) \in Account /\ RealAccount(a).chainKey = a.chainKey
      BY <3>1, KnownIsWritable, RealIsAccount DEF HeldInv
    <3>4. allAccountsRaw[j] \notin gone
      BY <3>1, <3>2, <3>3 DEF Own
    <3>5. PICK i \in 1..Len(remains) : remains[i] = allAccountsRaw[j]
      BY <2>2, <3>4
    <3> QED BY <3>2, <3>5 DEF IsKept
  <2>4. ~deletedAmid' => ~InTheList'
    BY <2>1 DEF InTheList
  <2>5. InTheList' => InTheList
    BY <2>1 DEF InTheList
  <2>6. added' \subseteq Known
    BY <2>1 DEF HeldInv
  <2> QED BY <2>1, <2>2, <2>3, <2>4, <2>5, <2>6 DEF HeldInv, LoopFits
<1>4. CASE SetHardwareOnlyMode
  BY <1>u, <1>4 DEF SetHardwareOnlyMode
<1>5. CASE Reopen
  BY <1>r, <1>5 DEF Reopen
<1>6. CASE InitFirstAccount
  BY <1>u, <1>6 DEF InitFirstAccount
<1>7. ASSUME NEW i \in Inits, AddressesArrive(i) PROVE HeldInv'
  <2> DEFINE one == [chainKey |-> inits[i].chainKey, address |-> Derived[FirstPath],
                     path |-> FirstPath, type |-> "wallet"]
  <2>1. inits[i].chainKey \in HomeChains
    BY <1>t, <1>7 DEF AddressesArrive
  <2>2. one \in Known
    BY <2>1 DEF Known
  <2>3. /\ allAccountsRaw' = Adds(allAccountsRaw, one) /\ added' = added \cup {one}
        /\ UNCHANGED <<fix, deletedAmid>>
    BY <1>7 DEF AddressesArrive
  <2> HIDE DEF one
  <2> QED BY <2>2, <2>3, AddedHolds
<1>8. ASSUME NEW i \in Inits, AddressesFail(i) PROVE HeldInv'
  BY <1>u, <1>8 DEF AddressesFail
<1>9. ASSUME GoThrough(1, <<>>, FALSE), UNCHANGED <<added, deletedAmid>> PROVE HeldInv'
  <2>1. /\ 1 \in Nat \ {0} /\ <<>> \in Seq(Writable) /\ FALSE \in BOOLEAN
        /\ Len(<<>>) = 1 - 1 /\ 1..(1 - 1) = {} /\ 1 - 1 <= Len(allAccountsRaw)
    BY DEF HeldInv
  <2> QED BY <1>9, <2>1, GoThroughHolds
<1>10. CASE AutofixMismatchAddresses
  <2>1. CASE currentAccountRaw.type = "wallet"
    <3>1. fix'.stage = "current" /\ UNCHANGED <<allAccountsRaw, added, deletedAmid>>
      BY <1>10, <2>1 DEF AutofixMismatchAddresses
    <3> QED BY <3>1 DEF HeldInv, LoopFits, InTheList
  <2>2. CASE currentAccountRaw.type # "wallet"
    BY <1>9, <1>10, <2>2 DEF AutofixMismatchAddresses
  <2> QED BY <2>1, <2>2
<1>11. CASE FixCurrent
  BY <1>9, <1>11 DEF FixCurrent
<1>12. CASE FixNext
  <2> DEFINE right == RealAccount(fix.account)
             done == Append(fix.fixed, right)
  <2>1. /\ InTheList /\ GoThrough(fix.index + 1, done, fix.updated \/ right # fix.account)
        /\ UNCHANGED <<added, deletedAmid>>
    BY <1>12 DEF FixNext, InTheList
  <2>2. /\ fix.index + 1 \in Nat \ {0}
        /\ (fix.updated \/ right # fix.account) \in BOOLEAN
    BY <1>t, <2>1 DEF InTheList
  <2>3. fix.account \in Writable /\ right \in Writable /\ fix.fixed \in Seq(Writable)
    BY <2>1, KnownIsWritable DEF HeldInv
  <2>4. /\ done \in Seq(Writable) /\ Len(done) = Len(fix.fixed) + 1
        /\ done[Len(fix.fixed) + 1] = right
        /\ \A j \in 1..Len(fix.fixed) : done[j] = fix.fixed[j]
    BY <2>3, AppendProperties
  <2> HIDE DEF done
  <2>5. ASSUME ~deletedAmid
        PROVE  /\ (fix.index + 1) - 1 <= Len(allAccountsRaw) /\ Len(done) = (fix.index + 1) - 1
               /\ \A j \in 1..((fix.index + 1) - 1) :
                    done[j] \in {allAccountsRaw[j], RealAccount(allAccountsRaw[j])}
    <3>1. /\ fix.index \in 1..Len(allAccountsRaw) /\ fix.account = allAccountsRaw[fix.index]
          /\ Len(fix.fixed) = fix.index - 1 /\ Len(allAccountsRaw) \in Nat
          /\ \A j \in 1..(fix.index - 1) :
               fix.fixed[j] \in {allAccountsRaw[j], RealAccount(allAccountsRaw[j])}
      BY <2>1, <2>5 DEF HeldInv, LoopFits
    <3>2. (fix.index + 1) - 1 = fix.index /\ Len(done) = fix.index
      BY <2>4, <3>1
    <3>3. ASSUME NEW j \in 1..fix.index
          PROVE  done[j] \in {allAccountsRaw[j], RealAccount(allAccountsRaw[j])}
      <4>1. CASE j = fix.index
        BY <2>4, <3>1, <4>1
      <4>2. CASE j # fix.index
        <5>1. j \in 1..(fix.index - 1)
          BY <3>1, <4>2
        <5> QED BY <2>4, <3>1, <5>1
      <4> QED BY <4>1, <4>2
    <3> QED BY <3>1, <3>2, <3>3
  <2> QED BY <2>1, <2>2, <2>4, <2>5, GoThroughHolds
<1>13. CASE FixFails
  BY <1>r, <1>13 DEF FixFails
<1>14. CASE FetchTokens
  BY <1>u, <1>14 DEF FetchTokens
<1>15. ASSUME NEW f \in tokenRequests, TokensArrive(f) \/ TokensFail(f) PROVE HeldInv'
  BY <1>u, <1>15 DEF TokensArrive, TokensFail
<1>16. CASE UNCHANGED homeVars
  BY <1>u, <1>16 DEF homeVars
<1> QED BY <1>1, <1>2, <1>3, <1>4, <1>5, <1>6, <1>7, <1>8, <1>10, <1>11, <1>12,
           <1>13, <1>14, <1>15, <1>16 DEF HomeNext

(* What the home page keeps, waits with and shows has its types.            *)
THEOREM HomeTypeCorrect == HomeSpec => []HomeTypeOK
<1> QED BY HomeInitTypes, HomeNextTypes, PTL DEF HomeSpec

(* Where an address belongs to one path, an account stays listed until it is *)
(* deleted, itself or put right, although initFirstAccount and              *)
(* autofixMismatchAddresses write the list after requests, the latter as a  *)
(* whole (storeAccount.js); only a deletion while the loop is in the list   *)
(* is excepted.                                                             *)
THEOREM NoAccountIsLost ==
  ASSUME OnePathEach
  PROVE  HomeSpec => []AccountsKept
<1>1. HeldInv => AccountsKept
  BY DEF HeldInv, IsKept, Own, AccountsKept
<1>2. HomeInit => HomeTypeOK /\ HeldInv
  BY HomeInitTypes, HeldInit
<1>3. HomeTypeOK /\ HeldInv /\ [HomeNext]_homeVars => (HomeTypeOK /\ HeldInv)'
  BY HomeNextTypes, HeldNext
<1> QED BY <1>1, <1>2, <1>3, PTL DEF HomeSpec

-----------------------------------------------------------------------------
(* What is remembered of the sites. *)

LEMMA QueuedIs ==
  ASSUME NEW queue \in Seq(Sites), IsInjective(queue), NEW o \in Sites
  PROVE  /\ Queued(queue, o) \in Seq(Sites) /\ IsInjective(Queued(queue, o))
         /\ Len(Queued(queue, o)) <= Len(queue) + 1
         /\ ToSet(Queued(queue, o)) = ToSet(queue) \cup {o}
<1>1. CASE o \in ToSet(queue)
  BY <1>1 DEF Queued
<1>2. CASE o \notin ToSet(queue)
  <2> DEFINE more == Append(queue, o)
             n == Len(queue)
  <2>1. /\ more \in Seq(Sites) /\ n \in Nat /\ Len(more) = n + 1 /\ more[n + 1] = o
        /\ \A i \in 1..n : more[i] = queue[i]
    OBVIOUS
  <2>2. Queued(queue, o) = more
    BY <1>2 DEF Queued
  <2> HIDE DEF more
  <2>3. /\ DOMAIN more = 1..(n + 1) /\ DOMAIN queue = 1..n
        /\ \A i \in 1..(n + 1) : i = n + 1 \/ i \in 1..n
        /\ \A i \in 1..n : i \in 1..(n + 1)
        /\ n + 1 \in 1..(n + 1)
    BY <2>1
  <2>4. \A i \in 1..n : queue[i] # o
    BY <1>2, <2>3 DEF ToSet
  <2>5. IsInjective(more)
    <3> SUFFICES ASSUME NEW i \in 1..(n + 1), NEW j \in 1..(n + 1), more[i] = more[j]
                 PROVE  i = j
      BY <2>3 DEF IsInjective
    <3>1. CASE i \in 1..n /\ j \in 1..n
      BY <2>1, <2>3, <3>1 DEF IsInjective
    <3>2. CASE i = n + 1 \/ j = n + 1
      BY <2>1, <2>3, <2>4, <3>2
    <3> QED BY <2>3, <3>1, <3>2
  <2>6. ToSet(more) = ToSet(queue) \cup {o}
    <3>1. ToSet(more) = {more[i] : i \in 1..(n + 1)} /\ ToSet(queue) = {queue[i] : i \in 1..n}
      BY <2>3 DEF ToSet
    <3>2. ASSUME NEW i \in 1..(n + 1) PROVE more[i] \in ToSet(queue) \cup {o}
      BY <2>1, <2>3, <3>1
    <3>3. ASSUME NEW i \in 1..n PROVE queue[i] \in ToSet(more)
      BY <2>1, <2>3, <3>1
    <3>4. o \in ToSet(more)
      BY <2>1, <2>3, <3>1
    <3> QED BY <3>1, <3>2, <3>3, <3>4
  <2> QED BY <2>1, <2>2, <2>5, <2>6
<1> QED BY <1>1, <1>2

LEMMA TailIs ==
  ASSUME NEW queue \in Seq(Sites), IsInjective(queue), queue # <<>>
  PROVE  /\ Tail(queue) \in Seq(Sites) /\ IsInjective(Tail(queue))
         /\ Len(Tail(queue)) = Len(queue) - 1
         /\ ToSet(queue) = ToSet(Tail(queue)) \cup {Head(queue)}
<1> DEFINE n == Len(queue)
           rest == Tail(queue)
<1>1. /\ n \in Nat \ {0} /\ rest \in Seq(Sites) /\ Len(rest) = n - 1
      /\ \A i \in 1..(n - 1) : rest[i] = queue[i + 1]
      /\ Head(queue) = queue[1]
  OBVIOUS
<1> HIDE DEF rest
<1>2. /\ DOMAIN rest = 1..(n - 1) /\ DOMAIN queue = 1..n
      /\ \A i \in 1..(n - 1) : i + 1 \in 1..n
      /\ \A i \in 1..n : i = 1 \/ (i - 1 \in 1..(n - 1) /\ (i - 1) + 1 = i)
      /\ 1 \in 1..n
  BY <1>1
<1>3. IsInjective(rest)
  <2> SUFFICES ASSUME NEW i \in 1..(n - 1), NEW j \in 1..(n - 1), rest[i] = rest[j]
               PROVE  i = j
    BY <1>2 DEF IsInjective
  <2>1. i + 1 = j + 1
    BY <1>1, <1>2 DEF IsInjective
  <2> QED BY <2>1
<1>4. ToSet(queue) = ToSet(rest) \cup {Head(queue)}
  <2>1. ToSet(rest) = {rest[i] : i \in 1..(n - 1)} /\ ToSet(queue) = {queue[i] : i \in 1..n}
    BY <1>2 DEF ToSet
  <2>2. ASSUME NEW i \in 1..(n - 1) PROVE rest[i] \in ToSet(queue)
    BY <1>1, <1>2, <2>1
  <2>3. ASSUME NEW i \in 1..n PROVE queue[i] \in ToSet(rest) \cup {Head(queue)}
    BY <1>1, <1>2, <2>1
  <2>4. Head(queue) \in ToSet(queue)
    BY <1>1, <1>2, <2>1
  <2> QED BY <2>1, <2>2, <2>3, <2>4
<1> QED BY <1>1, <1>3, <1>4 DEF rest

LEMMA MetaNextTypes == MetaTypeOK /\ [MetaNext]_metaVars => MetaTypeOK'
<1> SUFFICES ASSUME MetaTypeOK, [MetaNext]_metaVars PROVE MetaTypeOK'
  OBVIOUS
<1>1. ASSUME NEW o \in Sites, AddDomainMetadata(o) PROVE MetaTypeOK'
  <2> DEFINE oldest == IF Full THEN {Head(pending)} ELSE {}
             rest == IF Full THEN Tail(pending) ELSE pending
  <2>1. /\ metadata' = (metadata \ {p \in oldest : Forgettable(p)}) \cup {o}
        /\ pending' = Queued(rest, o)
        /\ UNCHANGED <<domains, parted>>
    BY <1>1 DEF AddDomainMetadata
  <2>2. /\ rest \in Seq(Sites) /\ IsInjective(rest) /\ Len(rest) + 1 <= CacheMax
        /\ ToSet(pending) = ToSet(rest) \cup oldest
    <3>1. /\ pending \in Seq(Sites) /\ IsInjective(pending) /\ Len(pending) <= CacheMax
          /\ CacheMax \in Nat \ {0}
      BY CacheMaxAssumption DEF MetaTypeOK
    <3>2. CASE Full
      <4>1. pending # <<>> /\ Len(pending) = CacheMax
        BY <3>1, <3>2 DEF Full
      <4> QED BY <3>1, <3>2, <4>1, TailIs
    <3>3. CASE ~Full
      BY <3>1, <3>3 DEF Full
    <3> QED BY <3>2, <3>3
  <2> HIDE DEF rest, oldest
  <2>3. /\ pending' \in Seq(Sites) /\ IsInjective(pending') /\ Len(pending') <= Len(rest) + 1
        /\ ToSet(pending') = ToSet(rest) \cup {o}
    BY <2>1, <2>2, QueuedIs
  <2>4. Len(pending') <= CacheMax
    BY <2>2, <2>3, CacheMaxAssumption
  <2>5. metadata' \ (domains' \cup parted') \subseteq ToSet(pending')
    <3>1. ToSet(pending)' = ToSet(rest) \cup {o}
      BY <2>3
    <3>2. metadata \ (domains \cup parted) \subseteq ToSet(rest) \cup oldest
      BY <2>2 DEF MetaTypeOK
    <3> QED BY <2>1, <3>1, <3>2 DEF Forgettable
  <2> QED BY <2>1, <2>3, <2>4, <2>5 DEF MetaTypeOK
<1>2. ASSUME NEW o \in Sites, Connect(o) PROVE MetaTypeOK'
  BY <1>2 DEF Connect, MetaTypeOK
<1>3. ASSUME NEW o \in Sites, Disconnect(o) PROVE MetaTypeOK'
  BY <1>3 DEF Disconnect, MetaTypeOK
<1>4. CASE Reboot
  <2>1. <<>> \in Seq(Sites) /\ IsInjective(<<>>) /\ Len(<<>>) <= CacheMax
    BY CacheMaxAssumption DEF IsInjective
  <2> QED BY <1>4, <2>1 DEF Reboot, MetaTypeOK
<1>5. CASE UNCHANGED metaVars
  BY <1>5 DEF metaVars, MetaTypeOK
<1> QED BY <1>1, <1>2, <1>3, <1>4, <1>5 DEF MetaNext

(* The queue of the sites without permissions stays within its limit, names *)
(* no site twice, and misses no metadata that has to go at some time        *)
(* (addDomainMetadata and _trimDomainMetadata, permissions/index.js).       *)
THEOREM MetaTypeCorrect == MetaSpec => []MetaTypeOK
<1>1. MetaInit => MetaTypeOK
  BY CacheMaxAssumption DEF MetaInit, MetaTypeOK, IsInjective
<1> QED BY <1>1, MetaNextTypes, PTL DEF MetaSpec

(* The metadata of a site with permissions is never deleted, however many   *)
(* sites pass through the queue (permissions/index.js).                     *)
THEOREM ConnectedAreRemembered == MetaSpec => ConnectedRemembered
<1>1. [MetaNext]_metaVars => [\A o \in metadata \cap domains : o \in metadata']_metaVars
  <2> SUFFICES ASSUME MetaNext PROVE \A o \in metadata \cap domains : o \in metadata'
    OBVIOUS
  <2>1. ASSUME NEW o \in Sites, AddDomainMetadata(o)
        PROVE  \A p \in metadata \cap domains : p \in metadata'
    BY <2>1 DEF AddDomainMetadata, Forgettable
  <2>2. ASSUME NEW o \in Sites, Connect(o) \/ Disconnect(o)
        PROVE  \A p \in metadata \cap domains : p \in metadata'
    BY <2>2 DEF Connect, Disconnect
  <2>3. CASE Reboot
    BY <2>3 DEF Reboot
  <2> QED BY <2>1, <2>2, <2>3 DEF MetaNext
<1> QED BY <1>1, PTL DEF MetaSpec, ConnectedRemembered

-----------------------------------------------------------------------------
(* All of them.  A behaviour of MCAccounts is one of each component that has *)
(* its state for itself; tokens and incoming transactions share what is     *)
(* chosen, and each keeps its types whatever the other chooses.             *)

LEMMA OwnSteps ==
  [AccountsNext]_accountsVars =>
    [PermNext]_permVars /\ [VaultNext]_vaultVars /\ [MetaNext]_metaVars /\ [HomeNext]_homeVars
BY DEF AccountsNext, accountsVars

ChosenInv ==
  /\ TokTypeOK /\ InTypeInv
  /\ focus # "incoming" => TokInv

LEMMA ChosenInit == AccountsInit => ChosenInv
BY TokInitInv, InitInTypes DEF AccountsInit, ChosenInv, TokInv

LEMMA ChosenNext == ChosenInv /\ [AccountsNext]_accountsVars => ChosenInv'
<1> SUFFICES ASSUME ChosenInv, [AccountsNext]_accountsVars PROVE ChosenInv'
  OBVIOUS
<1>f. UNCHANGED focus
  BY DEF AccountsNext, accountsVars
<1>1. CASE focus = "tokens" /\ TokNext /\ UNCHANGED receivedVars
  <2>1. TokInv'
    BY <1>1, TokNextInv DEF ChosenInv
  <2>2. provider' \in Chains /\ chosen' \in Addrs /\ TokTypeOK'
    BY <2>1 DEF TokInv, TokTypeOK
  <2>3. InTypeInv'
    BY <1>1, <2>2 DEF ChosenInv, InTypeInv, InTypeOK, IncomingInv, receivedVars, Happened,
       InBlock, FetchOK
  <2> QED BY <2>1, <2>2, <2>3 DEF ChosenInv
<1>2. CASE focus = "incoming" /\ InNext /\ UNCHANGED listVars
  <2>1. InTypeInv'
    BY <1>2, NextInTypes DEF ChosenInv
  <2>2. TokTypeOK'
    BY <1>2, <2>1 DEF ChosenInv, TokTypeOK, listVars, InTypeInv, InTypeOK
  <2> QED BY <1>2, <1>f, <2>1, <2>2 DEF ChosenInv
<1>3. CASE UNCHANGED chosenVars
  <2>1. UNCHANGED tokenVars /\ UNCHANGED inVars
    BY <1>3 DEF chosenVars, listVars, receivedVars, tokenVars, inVars
  <2>2. InTypeInv' /\ (TokInv => TokInv')
    BY <2>1, NextInTypes, TokNextInv DEF ChosenInv
  <2>3. TokTypeOK'
    BY <2>1 DEF ChosenInv, TokTypeOK, tokenVars, sessionVars
  <2> QED BY <1>f, <2>2, <2>3 DEF ChosenInv
<1> QED BY <1>1, <1>2, <1>3 DEF AccountsNext, accountsVars

(* Every variable of what belongs to accounts keeps its type, and the queue *)
(* of sites its bound, for any accounts, sites, networks and paths.         *)
THEOREM AccountsTypeCorrect == AccountsSpec => []AccountsTypes
<1>1. AccountsInit => PermInit /\ VaultInit /\ MetaInit /\ HomeInit
  BY DEF AccountsInit
<1>2. AccountsSpec => PermSpec /\ VaultSpec /\ MetaSpec /\ HomeSpec
  BY <1>1, OwnSteps, PTL DEF AccountsSpec, PermSpec, VaultSpec, MetaSpec, HomeSpec
<1>3. AccountsSpec => []ChosenInv
  BY ChosenInit, ChosenNext, PTL DEF AccountsSpec
<1>4. /\ PermTypeOK /\ VaultTypeOK /\ MetaTypeOK /\ HomeTypeOK
      /\ ChosenInv
      => AccountsTypes
  BY DEF ChosenInv, InTypeInv, AccountsTypes
<1> QED BY <1>2, <1>3, <1>4, PermTypeCorrect, VaultTypeCorrect, MetaTypeCorrect,
           HomeTypeCorrect, PTL
=============================================================================
