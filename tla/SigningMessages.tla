--------------------------- MODULE SigningMessages ---------------------------
(***************************************************************************)
(* The five managers of app/scripts/lib for messages a dapp wants signed,  *)
(* decrypted or a public key for, and the handlers of MetamaskController   *)
(* around them.  The managers are copies of each other but for the         *)
(* statuses that settle the dapp's promise; a signature, a decrypted text  *)
(* and a public key received are all "signed" here.                        *)
(*                                                                         *)
(* A window posts what the user clicked to the background page, where it   *)
(* is handled later; job[m][w] is what window w has under way for m:       *)
(*   sign, reject, look     posted (look: decryptMessageInline)            *)
(*   signing, looking       waiting for the keyring                        *)
(***************************************************************************)
EXTENDS Naturals, FiniteSets

CONSTANTS
  MsgIds,      \* the messages of a run
  Windows,     \* the windows of the extension a message may be shown in
  Networks,    \* the networks the user may choose
  NoNetwork,   \* a message that names no chain
  MaxClicks,   \* bound: clicks on a message in one window
  MaxMoves     \* bound: changes of the network

ASSUME NoNetworkAssumption == NoNetwork \notin Networks
ASSUME NetworksAssumption == Networks # {}
ASSUME MsgBoundsAssumption == MaxClicks \in Nat /\ MaxMoves \in Nat

VARIABLES
  msg,      \* per id: kind, status and the chain its typed data names
  promise,  \* the dapp's promise
  job,      \* per id and window, see above
  clicks,   \* per id and window, the clicks so far
  network,  \* the network the provider is configured for
  moves     \* changes of the network so far

msgVars == <<msg, promise, job, clicks, network, moves>>

Kinds == {"eth_sign", "personal_sign", "typed", "decrypt", "publicKey"}
MsgStatus == {"unborn", "unapproved", "approved", "signed", "rejected",
              "errored", "cleared"}
Promises == {"none", "pending", "resolved", "refused"}
Jobs == {"idle", "sign", "reject", "look", "signing", "looking"}
Message == [kind : Kinds, status : MsgStatus, chain : Networks \cup {NoNetwork}]

MsgTypeOK ==
  /\ msg \in [MsgIds -> Message]
  /\ promise \in [MsgIds -> Promises]
  /\ job \in [MsgIds -> [Windows -> Jobs]]
  /\ clicks \in [MsgIds -> [Windows -> 0..MaxClicks]]
  /\ network \in Networks
  /\ moves \in 0..MaxMoves

MsgInit ==
  /\ msg = [m \in MsgIds |-> [kind |-> "eth_sign", status |-> "unborn",
                              chain |-> NoNetwork]]
  /\ promise = [m \in MsgIds |-> "none"]
  /\ job = [m \in MsgIds |-> [w \in Windows |-> "idle"]]
  /\ clicks = [m \in MsgIds |-> [w \in Windows |-> 0]]
  /\ network \in Networks
  /\ moves = 0

-----------------------------------------------------------------------------
(* The managers. *)

(* Statuses at which a manager emits `finished`. *)
EthSignEnds == {"rejected", "signed"}
PersonalSignEnds == {"rejected", "signed"}
TypedEndsGood == {"rejected", "signed"}    \* would say nothing of errors
TypedEndsBad == {"signed", "errored"}      \* nothing of a rejection
TypedEnds == {"rejected", "signed", "errored"}
DecryptEnds == {"rejected", "signed", "errored"}
PublicKeyEnds == {"rejected", "signed"}

Ends(kind) ==
  CASE kind = "eth_sign" -> EthSignEnds
    [] kind = "personal_sign" -> PersonalSignEnds
    [] kind = "typed" -> TypedEnds
    [] kind = "decrypt" -> DecryptEnds
    [] kind = "publicKey" -> PublicKeyEnds

(* getMsg finds it. *)
InList(m) == msg[m].status \notin {"unborn", "cleared"}

(* addUnapprovedMessageAsync: the message is listed, its listener attached. *)
AddUnapproved(m, kind, chain) ==
  /\ msg' = [msg EXCEPT ![m] = [kind |-> kind, status |-> "unapproved",
                                chain |-> chain]]
  /\ promise' = [promise EXCEPT ![m] = "pending"]

(* _setMsgStatus throws for a message that is not in the list, and looks at *)
(* nothing else; the listener of `finished` is attached with `once`.        *)
SetMsgStatus(m, status) ==
  LET settled == IF status = "signed" THEN "resolved" ELSE "refused"
  IN  IF InList(m)
      THEN /\ msg' = [msg EXCEPT ![m].status = status]
           /\ promise' = [promise EXCEPT ![m] =
                IF @ = "pending" /\ status \in Ends(msg[m].kind) THEN settled ELSE @]
      ELSE UNCHANGED <<msg, promise>>

ClearUnsigned ==
  msg' = [m \in MsgIds |-> IF msg[m].status \in {"unapproved", "approved"}
                           THEN [msg[m] EXCEPT !.status = "cleared"]
                           ELSE msg[m]]
ClearUnapproved ==
  msg' = [m \in MsgIds |-> IF msg[m].status = "unapproved"
                           THEN [msg[m] EXCEPT !.status = "cleared"]
                           ELSE msg[m]]

-----------------------------------------------------------------------------
(* Requests of dapps. *)

IsNew(m) == msg[m].status = "unborn" /\ promise[m] = "none"

Asked(m, kind, chain) ==
  /\ IsNew(m)
  /\ AddUnapproved(m, kind, chain)
  /\ UNCHANGED <<job, clicks, network, moves>>

NewUnsignedMessage(m) == Asked(m, "eth_sign", NoNetwork)
NewUnsignedPersonalMessage(m) == Asked(m, "personal_sign", NoNetwork)
NewRequestDecryptMessage(m) == Asked(m, "decrypt", NoNetwork)

(* validateParams throws for typed data of another chain, inside the        *)
(* promise's executor.                                                      *)
ValidTypedData(chain) == chain \in {network, NoNetwork}

NewUnsignedTypedMessage(m, chain) ==
  \/ ValidTypedData(chain) /\ Asked(m, "typed", chain)
  \/ /\ ~ValidTypedData(chain)
     /\ IsNew(m)
     /\ promise' = [promise EXCEPT ![m] = "refused"]
     /\ UNCHANGED <<msg, job, clicks, network, moves>>

(* The keyring of the account is looked up first; Ledger and Trezor cannot. *)
NewRequestEncryptionPublicKey(m) ==
  \/ /\ IsNew(m)
     /\ msg' = [msg EXCEPT ![m].kind = "publicKey"]
     /\ promise' = [promise EXCEPT ![m] = "pending"]
     /\ UNCHANGED <<job, clicks, network, moves>>
  \/ /\ msg[m].kind = "publicKey" /\ msg[m].status = "unborn"
     /\ promise[m] = "pending"
     /\ \/ AddUnapproved(m, "publicKey", NoNetwork)
        \/ promise' = [promise EXCEPT ![m] = "refused"] /\ UNCHANGED msg
     /\ UNCHANGED <<job, clicks, network, moves>>

-----------------------------------------------------------------------------
(* The user. *)

(* A button of the page of a message that is shown.  What a window shows is *)
(* as old as the last state it was sent: it was unapproved then.            *)
ClickMessage(m, w, what) ==
  /\ msg[m].status = "unapproved"
  /\ job[m][w] = "idle" /\ clicks[m][w] < MaxClicks
  /\ what = "look" => msg[m].kind = "decrypt"
  /\ job' = [job EXCEPT ![m][w] = what]
  /\ clicks' = [clicks EXCEPT ![m][w] = @ + 1]
  /\ UNCHANGED <<msg, promise, network, moves>>

Done(m, w) == job' = [job EXCEPT ![m][w] = "idle"]

(* approveMessage: a message that is not in the list any more is an error.  *)
Approve(m, w) ==
  /\ job[m][w] = "sign"
  /\ SetMsgStatus(m, "approved")
  /\ job' = [job EXCEPT ![m][w] = IF InList(m) THEN "signing" ELSE "idle"]
  /\ UNCHANGED <<clicks, network, moves>>

(* The keyring answers: setMsgStatusSigned and its like. *)
Signed(m, w) ==
  /\ job[m][w] = "signing"
  /\ Done(m, w)
  /\ SetMsgStatus(m, "signed")
  /\ UNCHANGED <<clicks, network, moves>>

(* The keyring fails and the handler shows a warning. *)
Warned(m, w) ==
  /\ job[m][w] = "signing"
  /\ Done(m, w)
  /\ UNCHANGED <<msg, promise, clicks, network, moves>>

(* The keyring fails and the handler calls errorMessage. *)
ErrorMessage(m, w) ==
  /\ job[m][w] = "signing"
  /\ Done(m, w)
  /\ SetMsgStatus(m, "errored")
  /\ UNCHANGED <<clicks, network, moves>>

SignMessage(m, w) ==
  /\ msg[m].kind = "eth_sign"
  /\ Approve(m, w) \/ Signed(m, w) \/ Warned(m, w)

SignPersonalMessage(m, w) ==
  /\ msg[m].kind = "personal_sign"
  /\ Approve(m, w) \/ Signed(m, w) \/ Warned(m, w)

SignTypedMessage(m, w) ==
  /\ msg[m].kind = "typed"
  /\ Approve(m, w) \/ Signed(m, w) \/ ErrorMessage(m, w)

DecryptMessage(m, w) ==
  /\ msg[m].kind = "decrypt"
  /\ Approve(m, w) \/ Signed(m, w) \/ ErrorMessage(m, w)

EncryptionPublicKey(m, w) ==
  /\ msg[m].kind = "publicKey"
  /\ Approve(m, w) \/ Signed(m, w) \/ ErrorMessage(m, w)

(* cancelMessage and its like. *)
CancelMessage(m, w) ==
  /\ job[m][w] = "reject"
  /\ Done(m, w)
  /\ SetMsgStatus(m, "rejected")
  /\ UNCHANGED <<clicks, network, moves>>

(* decryptMessageInline gets the message, waits for the keyring and writes  *)
(* the message back with _updateMsg, which puts it where its id is listed.  *)
StartLooking(m, w) ==
  /\ job[m][w] = "look"
  /\ job' = [job EXCEPT ![m][w] = IF InList(m) THEN "looking" ELSE "idle"]
  /\ UNCHANGED <<msg, promise, clicks, network, moves>>

UpdateMsg(m) == UNCHANGED msg

Looked(m, w) ==
  /\ job[m][w] = "looking"
  /\ Done(m, w)
  /\ UpdateMsg(m)
  /\ UNCHANGED <<promise, clicks, network, moves>>

DecryptMessageInline(m, w) == StartLooking(m, w) \/ Looked(m, w)

-----------------------------------------------------------------------------
(* The network changes: NETWORK_WILL_CHANGE clears all five managers.  The  *)
(* user may also choose the same network again.                             *)
NetworkWillChange(n) ==
  /\ moves < MaxMoves
  /\ moves' = moves + 1
  /\ ClearUnapproved
  /\ network' = n
  /\ UNCHANGED <<promise, job, clicks>>

AskForMessage(m) ==
  \/ NewUnsignedMessage(m)
  \/ NewUnsignedPersonalMessage(m)
  \/ NewRequestDecryptMessage(m)
  \/ NewRequestEncryptionPublicKey(m)
  \/ \E chain \in Networks \cup {NoNetwork} : NewUnsignedTypedMessage(m, chain)

Serve(m, w) ==
  \/ SignMessage(m, w)
  \/ SignPersonalMessage(m, w)
  \/ SignTypedMessage(m, w)
  \/ DecryptMessage(m, w)
  \/ EncryptionPublicKey(m, w)
  \/ CancelMessage(m, w)
  \/ DecryptMessageInline(m, w)

MsgNext ==
  \/ \E m \in MsgIds : AskForMessage(m)
  \/ \E m \in MsgIds, w \in Windows, what \in {"sign", "reject", "look"} :
       ClickMessage(m, w, what)
  \/ \E m \in MsgIds, w \in Windows : Serve(m, w)
  \/ \E n \in Networks : NetworkWillChange(n)

MsgSpec == MsgInit /\ [][MsgNext]_msgVars

(* Posted clicks are handled and the keyring answers, one way or the other. *)
MsgFairness == \A m \in MsgIds, w \in Windows : WF_msgVars(Serve(m, w))

-----------------------------------------------------------------------------
(* Properties *)

(* What a dapp has heard by its promise.                                    *)
Heard(p) ==
  CASE p = "none" -> "none"
    [] p = "pending" -> "waiting"
    [] p = "resolved" -> "yes"
    [] p = "refused" -> "no"

Answers == INSTANCE RequestAnswers WITH
  Requests <- MsgIds,
  answer <- [m \in MsgIds |-> Heard(promise[m])],
  served <- {m \in MsgIds : /\ msg[m].status # "rejected"
                            /\ \E w \in Windows : job[m][w] = "signing"}

(* However the windows, the keyring and the network interleave, a dapp gets *)
(* one answer, and a signature only out of a signing the user agreed to and *)
(* that no other window rejected while the keyring was at it.               *)
ImplementsAnswers == Answers!AskSpec

(* A change of the network clears what it has to and no more.  Typed data   *)
(* that names a chain waits for the user only while that chain's network is *)
(* configured: what validateParams found stays true.  And the message is    *)
(* still in the list when the keyring answers, so that setMsgStatusSigned   *)
(* and errorMessage, which use what getMsg returns unchecked, do not throw  *)
(* and lose the signature.                                                  *)
ClearingIsExact ==
  \A m \in MsgIds :
    /\ msg[m].status = "unapproved" => ValidTypedData(msg[m].chain)
    /\ (\E w \in Windows : job[m][w] = "signing") => InList(m)

(* Once the user has decided on typed data or a decryption the dapp hears   *)
(* of it, also if the keyring fails.  (eth_sign, personal_sign and the      *)
(* public key leave the promise pending then: their managers emit no        *)
(* `finished`.)                                                             *)
ApprovedIsAnswered ==
  []<>(\A m \in MsgIds :
         /\ msg[m].kind \in {"typed", "decrypt"}
         /\ msg[m].status \in {"approved", "signed", "rejected", "errored"}
         => promise[m] \in {"resolved", "refused"})
=============================================================================
