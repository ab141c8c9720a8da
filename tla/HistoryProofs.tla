---------------------------- MODULE HistoryProofs ----------------------------
(***************************************************************************)
(* The life of one transaction, and what follows from it: which nonce and  *)
(* which chain it is broadcast with, what ends it, and what a confirmed    *)
(* one leaves behind.  Every step but a restart is described once, by what *)
(* it does to a transaction u (Life); the invariants are then preserved by *)
(* each kind of life step, whatever action of the code it comes from.      *)
(***************************************************************************)
EXTENDS NonceProofs, FiniteSetTheorems

(* The fields of a transaction that its nonce and its signature are made of. *)
SameTx(m, m2) ==
  /\ m2.chain = m.chain /\ m2.nonce = m.nonce /\ m2.custom = m.custom
  /\ m2.fixed = m.fixed /\ m2.raw = m.raw /\ m2.hash = m.hash

-----------------------------------------------------------------------------
(* Why a transaction that no approval is working on changes its status.     *)

LeavesList(u) ==
  \/ store[u].status = "generated"
  \/ u \in Evicted /\ \E t \in TxIds : ~Listed(t)
  \/ "reject" \in inbox[u] /\ Listed(u)
  \/ switches' # switches

GivenUp(u) ==
  \/ store[u].status = "approved"
  \/ u \in regas /\ Visible(u)
  \/ store[u].status = "submitted" /\ store[u].hash = None

(* The same call of _checkPendingTx, whoever awaits it. *)
SameCheck(c, d) == c.tx = d.tx /\ c.stage = d.stage /\ c.on = d.on

(* A check of t ends with a receipt. *)
Confirms(t) ==
  \E c \in checks : c \notin checks' /\ c.tx = t /\ c.stage = "receipt" /\ ReceiptExists(c)

(* Another transaction of the current chain, confirmed with this step or    *)
(* before, has a nonce as high; or the node counts past its nonce.          *)
Overtaken(u, v) ==
  /\ v # u /\ Visible(v) /\ store'[v].status = "confirmed" /\ SameTx(store[v], store'[v])
  /\ \/ /\ store[u].status = "submitted" /\ ~glob
        /\ store[v].status = "confirmed" /\ store[v].nonce >= store[u].nonce
     \/ Confirms(v) /\ store[v].nonce = store[u].nonce

CountedOut(u) ==
  \E c \in checks :
    /\ c \notin checks' /\ c.tx = u /\ c.stage = "count"
    /\ \E n \in 0..MaxNonce : store[u].nonce < n /\ n <= Len(mined[c.on])

StatusRests(u) ==
  LET was == store[u].status
      is  == store'[u].status IN
  \/ is = was
  \/ was = "generated" /\ is = "unapproved"
  \/ is = "removed" /\ LeavesList(u)
  \/ is = "failed" /\ GivenUp(u)
  \/ is = "dropped" /\ Visible(u) /\ (CountedOut(u) \/ \E v \in TxIds : Overtaken(u, v))
  \/ is = "confirmed" /\ Visible(u) /\ Confirms(u)

(* What a step does to the checks of u. *)
CheckMoves(u) ==
  \A c \in checks' : c.tx = u =>
    \/ \E d \in checks : SameCheck(c, d)
    \/ /\ Visible(u) /\ store[u].status = "submitted" /\ store'[u].status = "submitted"
       /\ store[u].hash # None /\ c.stage = "receipt" /\ c.on = cur
    \/ /\ c.stage = "count" /\ c.on = cur /\ store'[u].status = store[u].status
       /\ \E d \in checks : d.tx = u /\ d.stage = "receipt"

(* No approval moves u: it rests, ends, or is looked at by the tracker.     *)
Rests(u) ==
  /\ SameTx(store[u], store'[u]) /\ StatusRests(u) /\ CheckMoves(u)
  /\ pc'[u] = pc[u] /\ sig'[u] = sig[u]
  /\ "approve" \in inbox'[u] => "approve" \in inbox[u] \/ store'[u].status = "unapproved"

-----------------------------------------------------------------------------
(* The steps of u's own life; the tracker's check of u stays as it is.      *)

Born(u) ==
  /\ store[u].status = "unborn" /\ pc[u] = "idle" /\ ~loading
  /\ store'[u].chain = cur /\ store'[u].raw = None /\ store'[u].hash = None
  /\ \/ /\ store'[u].status = "generated" /\ pc'[u] = "idle"
        /\ store'[u].nonce = None /\ ~store'[u].fixed
     \/ /\ store'[u].status = "approved" /\ pc'[u] = "gate" /\ store'[u].custom = None
        /\ \E orig \in TxIds : /\ store[orig].status \in {"submitted", "confirmed", "dropped"}
                               /\ store'[u].nonce = store[orig].nonce
  /\ sig'[u] = sig[u] /\ inbox'[u] = inbox[u] /\ checks' = checks

(* The user's approval puts the UI's copy in its place. *)
Answered(u) ==
  /\ "approve" \in inbox[u] /\ "approve" \notin inbox'[u] /\ Listed(u) /\ pc[u] = "idle"
  /\ store'[u].chain = store[u].chain /\ store'[u].fixed = store[u].fixed
  /\ store'[u].nonce = None /\ store'[u].raw = None /\ store'[u].hash = None
  /\ \/ store'[u].status = "unapproved" /\ pc'[u] = "idle"
     \/ store'[u].status = "approved" /\ pc'[u] = "gate"
  /\ sig'[u] = sig[u] /\ checks' = checks

Resumed(u) ==
  /\ ~BeforeApproval(u) /\ pc[u] = "idle" /\ Visible(u) /\ store[u].raw = None
  /\ SameTx(store[u], store'[u]) /\ store'[u].status = "approved" /\ pc'[u] = "gate"
  /\ sig'[u] = sig[u] /\ inbox'[u] = inbox[u] /\ checks' = checks

(* The approval waits on, or goes to the next await. *)
Advances(u) ==
  /\ <<pc[u], pc'[u]>> \in {<<"gate", "lock">>, <<"lock", "nonce">>, <<"nonce", "gate">>,
                            <<"balance", "send">>}
  /\ SameTx(store[u], store'[u]) /\ store'[u].status = store[u].status
  /\ sig'[u] = sig[u] /\ inbox'[u] = inbox[u] /\ checks' = checks

(* The approval fails; what is not visible keeps its status. *)
Fails(u) ==
  /\ pc[u] \in HoldsLock /\ pc'[u] = "idle"
  /\ SameTx(store[u], store'[u])
  /\ store'[u].status = IF Visible(u) THEN "failed" ELSE store[u].status
  /\ sig'[u] = sig[u] /\ inbox'[u] = inbox[u] /\ checks' = checks

Numbered(u) ==
  /\ pc[u] = "nonce" /\ Listed(u)
  /\ store'[u].status = store[u].status /\ store'[u].chain = store[u].chain
  /\ store'[u].custom = store[u].custom /\ store'[u].fixed = store[u].fixed
  /\ store'[u].raw = store[u].raw /\ store'[u].hash = store[u].hash
  /\ \E next \in Nonces, n \in 0..MaxNonce :
       /\ IsNextNonce(next, n)
       /\ store'[u].nonce = IF store[u].custom # None THEN store[u].custom
                            ELSE IF store[u].fixed THEN store[u].nonce ELSE next
  /\ \/ Visible(u) /\ pc'[u] = "sign" /\ sig'[u] \in {None, cur}
     \/ ~Visible(u) /\ pc'[u] = "idle" /\ sig'[u] = sig[u]
  /\ inbox'[u] = inbox[u] /\ checks' = checks

Signed(u) ==
  /\ pc[u] = "sign" /\ pc'[u] \in {"balance", "send"} /\ Visible(u)
  /\ store'[u].status = "signed" /\ store'[u].raw = store[u].nonce
  /\ store'[u].chain = store[u].chain /\ store'[u].nonce = store[u].nonce
  /\ store'[u].custom = store[u].custom /\ store'[u].fixed = store[u].fixed
  /\ store'[u].hash = store[u].hash
  /\ sig'[u] = sig[u] /\ inbox'[u] = inbox[u] /\ checks' = checks

Published(u) ==
  /\ pc[u] = "send" /\ pc'[u] = "idle" /\ Visible(u)
  /\ store'[u].status = "submitted" /\ store'[u].hash = store[u].raw
  /\ store'[u].chain = store[u].chain /\ store'[u].nonce = store[u].nonce
  /\ store'[u].custom = store[u].custom /\ store'[u].fixed = store[u].fixed
  /\ store'[u].raw = store[u].raw
  /\ sig'[u] = sig[u] /\ inbox'[u] = inbox[u] /\ checks' = checks

Life(u) ==
  \/ Rests(u) \/ Born(u) \/ Answered(u) \/ Resumed(u) \/ Advances(u) \/ Fails(u)
  \/ Numbered(u) \/ Signed(u) \/ Published(u)

-----------------------------------------------------------------------------
(* What the same steps do to the chains and to the disk.                    *)

(* A signed transaction reaches a node of the configured chain only.        *)
PoolGrows ==
  \/ pool' = pool
  \/ \E u \in TxIds :
       /\ sig[u] \in {cur, None} /\ sig'[u] = sig[u]
       /\ pool' = pool \cup {<<cur, u, store'[u].raw>>}
       /\ \/ pc[u] = "sign" /\ store'[u].raw = store[u].nonce
          \/ /\ store'[u].raw = store[u].raw
             /\ store[u].raw # None \/ pc[u] = "balance"

MinedGrows ==
  \A c \in Chains : /\ Len(mined[c]) <= Len(mined'[c])
                    /\ \A i \in 1..Len(mined[c]) : mined'[c][i] = mined[c][i]

DiskKept == disk' = disk \/ (disk' = store /\ store' = store)

LifeStep == (\A u \in TxIds : Life(u)) /\ PoolGrows /\ MinedGrows /\ DiskKept

-----------------------------------------------------------------------------
(* The invariants.                                                          *)

(* What one copy of a transaction, in memory or on the disk, shows.         *)
MetaOK(m) ==
  /\ m.raw \in {None, m.nonce} /\ m.hash \in {None, m.raw}
  /\ m.status \in {"unborn", "generated", "unapproved"} =>
       m.nonce = None /\ m.raw = None /\ ~m.fixed
  /\ m.status = "approved" => m.raw = None
  /\ m.fixed \/ m.status \in {"submitted", "confirmed", "dropped"} => m.nonce # None
  /\ m.status \in {"submitted", "confirmed"} => m.hash # None
  /\ m.status \in ListedStatus \cup {"generated"} => m.chain # None

(* The chain has mined t with the nonce its hash stands for. *)
MinedAs(t, m) ==
  m.status = "confirmed" =>
    m.hash < Len(mined[m.chain]) /\ mined[m.chain][m.hash + 1] = t

(* How far the approval of t is tells what t has.                           *)
StageOK(t) ==
  /\ "approve" \in inbox[t] => store[t].raw = None /\ ~store[t].fixed
  /\ pc[t] \in {"gate", "lock", "nonce", "sign"} => store[t].raw = None
  /\ pc[t] = "sign" => store[t].nonce # None
  /\ pc[t] \in {"balance", "send"} => store[t].raw # None
  /\ pc[t] # "idle" => store[t].hash = None

(* Only a transaction with a hash is being checked, on its chain.           *)
CheckOK(t) ==
  \A c \in checks : c.tx = t =>
    store[t].hash # None /\ (c.stage = "receipt" => c.on = store[t].chain)

TxOK(t) ==
  /\ MetaOK(store[t]) /\ MetaOK(disk[t])
  /\ MinedAs(t, store[t]) /\ MinedAs(t, disk[t])
  /\ StageOK(t) /\ CheckOK(t)

LifeInv == \A t \in TxIds : TxOK(t)

(* Until the page dies: what nodes were sent is what the list shows.        *)
PoolOK ==
  /\ \A x \in pool : /\ x[3] = store[x[2]].raw /\ x[3] # None
                     /\ sig[x[2]] = None \/ x[1] = store[x[2]].chain
  /\ \A t \in TxIds : /\ sig[t] \in {None, store[t].chain}
                      /\ store[t].status = "unborn" => sig[t] = None

PoolInv == crashes = 0 => PoolOK

(* The program has stayed on one network. *)
OneNetwork == MaxSwitches = 0 \/ \A c, d \in Chains : c = d
Here ==
  OneNetwork => /\ \A t \in TxIds : /\ store[t].chain \in {None, cur}
                                    /\ disk[t].chain \in {None, cur}
                /\ \A c \in checks : c.on = cur

(* ... and neither changed it, reset the account nor died.                  *)
Quiet == MaxSwitches = 0 /\ MaxCrashes = 0
NothingRegassed == Quiet => regas = {} /\ (loading => \A t \in TxIds : store[t].status = "unborn")

(* Who rejects a transaction once has not approved it. *)
RejectedOnce ==
  MaxClicks <= 1 /\ Quiet =>
    \A t \in TxIds :
      /\ inbox[t] \subseteq sent[t] /\ (sent[t] = {} \/ \E a \in Answers : sent[t] = {a})
      /\ "reject" \in inbox[t] => store[t].status \in {"unapproved", "removed"}

(* A transaction whose checks end with their round has one check at most,   *)
(* which holds the global mutex. *)
CheckedOnce ==
  \A c \in checks : c.tx \notin LateTxs =>
    c.awaited /\ glob /\ \A d \in checks : d.tx = c.tx => d = c

(* The chain has mined another transaction with the nonce of u. *)
UsedByOther(u) ==
  /\ store[u].hash < Len(mined[store[u].chain])
  /\ mined[store[u].chain][store[u].hash + 1] # u

(* ... so when it does not wait any more while it is being checked, its     *)
(* nonce was used by another one, or it has left the list.                  *)
CheckedOvertaken ==
  \A c \in checks :
    c.tx \notin LateTxs =>
      \/ store[c.tx].status \in {"submitted", "removed"}
      \/ store[c.tx].chain # None /\ UsedByOther(c.tx)

ClaimFree ==
  \A t \in TxIds, u \in TxIds \ LateTxs :
    /\ pc[t] \in HasNonce \/ store[t].status = "submitted"
    /\ store[u].status = "confirmed"
    => ~Compete(store, t, u)

ClaimInv == Quiet => CheckedOvertaken /\ ClaimFree

-----------------------------------------------------------------------------
(* What updates of the list leave of a transaction.                         *)

LEMMA SameTxTransitive ==
  /\ \A m : SameTx(m, m)
  /\ \A m, m2, m3 : SameTx(m, m2) /\ SameTx(m2, m3) => SameTx(m, m3)
BY DEF SameTx

LEMMA StatusSetAt ==
  ASSUME NEW s \in [TxIds -> TxMeta], NEW S, NEW st, NEW u \in TxIds
  PROVE  /\ SameTx(s[u], WithStatusSet(s, S, st)[u])
         /\ u \in S => WithStatusSet(s, S, st)[u].status = st
         /\ u \notin S => WithStatusSet(s, S, st)[u] = s[u]
BY DEF WithStatusSet, SameTx, TxMeta

LEMMA StatusAt ==
  ASSUME NEW s \in [TxIds -> TxMeta], NEW t \in TxIds, NEW n, NEW u \in TxIds
  PROVE  /\ SameTx(s[u], [s EXCEPT ![t].status = n][u])
         /\ [s EXCEPT ![t].status = n][u].status = IF u = t THEN n ELSE s[u].status
         /\ u # t => [s EXCEPT ![t].status = n][u] = s[u]
BY DEF SameTx, TxMeta

LEMMA ReadyAt ==
  ASSUME NEW s \in [TxIds -> TxMeta], NEW t \in TxIds, NEW u \in TxIds
  PROVE  /\ SameTx(s[u], [s EXCEPT ![t].ready = TRUE][u])
         /\ [s EXCEPT ![t].ready = TRUE][u].status = s[u].status
BY DEF SameTx, TxMeta

(* The step does not look at u. *)
Alone(u) ==
  /\ SameTx(store[u], store'[u]) /\ store'[u].status = store[u].status
  /\ pc'[u] = pc[u] /\ sig'[u] = sig[u] /\ inbox'[u] = inbox[u] /\ checks' = checks

LEMMA AloneLives == \A u \in TxIds : Alone(u) => Life(u)
BY DEF Alone, Life, Rests, StatusRests, CheckMoves, SameCheck

(* The fields of approvals that no step of another transaction touches.     *)
Frame(u) ==
  /\ pc'[u] = pc[u] /\ sig'[u] = sig[u] /\ inbox'[u] = inbox[u] /\ checks' = checks

LEMMA FrameAlone ==
  \A u \in TxIds : Frame(u) /\ store'[u] = store[u] => Alone(u)
BY SameTxTransitive DEF Frame, Alone

(* addTx: others than the new transaction stay, or make room. *)
LEMMA AddedLife ==
  ASSUME TypeOK, NEW t \in TxIds, NEW m \in TxMeta, ~Listed(t),
         NEW u \in TxIds \ {t}, Frame(u), store'[u] = WithTxAdded(t, m)[u]
  PROVE  Life(u)
<1>ty. store \in [TxIds -> TxMeta]
  BY DEF TypeOK
<1> DEFINE s == WithStatusSet(store, Evicted, "removed")
<1>1. store'[u] = s[u]
  BY DEF WithTxAdded, WithStatusSet
<1>2. /\ SameTx(store[u], s[u])
      /\ u \in Evicted => s[u].status = "removed"
      /\ u \notin Evicted => s[u] = store[u]
  BY <1>ty, StatusSetAt
<1> HIDE DEF s
<1>3. CASE u \in Evicted
  BY <1>1, <1>2, <1>3 DEF Life, Rests, StatusRests, LeavesList, CheckMoves, SameCheck, Frame
<1>4. CASE u \notin Evicted
  BY <1>1, <1>2, <1>4, FrameAlone, AloneLives
<1> QED BY <1>3, <1>4

(* FailApproval: the one whose approval fails, and nobody else.             *)
LEMMA FailLife ==
  ASSUME TypeOK, NEW t \in TxIds, pc[t] \in HoldsLock, FailApproval(t, store),
         UNCHANGED <<sig, inbox, checks>>, NEW u \in TxIds
  PROVE  Life(u)
<1>ty. store \in [TxIds -> TxMeta] /\ pc \in [TxIds -> InPipeline \cup {"idle"}]
  BY DEF TypeOK
<1>1. pc'[u] = IF u = t THEN "idle" ELSE pc[u]
  BY <1>ty DEF FailApproval
<1>2. CASE Visible(t)
  <2>1. store' = WithStatusSet(store, {t}, "failed")
    BY <1>2 DEF FailApproval, MarkFailed, SetTxStatus
  <2>2. /\ SameTx(store[u], store'[u])
        /\ u = t => store'[u].status = "failed"
        /\ u # t => store'[u] = store[u]
    BY <2>1, <1>ty, StatusSetAt
  <2>3. CASE u = t
    BY <1>1, <1>2, <2>2, <2>3 DEF Life, Fails
  <2>4. CASE u # t
    BY <1>1, <2>2, <2>4, FrameAlone, AloneLives DEF Frame
  <2> QED BY <2>3, <2>4
<1>3. CASE ~Visible(t)
  <2>1. store' = store
    BY <1>3 DEF FailApproval, MarkFailed
  <2>3. CASE u = t
    BY <1>1, <1>3, <2>1, <2>3, SameTxTransitive DEF Life, Fails
  <2>4. CASE u # t
    BY <1>1, <2>1, <2>4, FrameAlone, AloneLives DEF Frame
  <2> QED BY <2>3, <2>4
<1> QED BY <1>2, <1>3

-----------------------------------------------------------------------------
(* The steps of the controller. *)

LEMMA BirthLife ==
  ASSUME IInv, NEW t \in TxIds, UNCHANGED checks,
         \/ GenerateTx(t)
         \/ \E orig \in TxIds : CreateReplacement(orig, t)
  PROVE  \A u \in TxIds : Life(u)
<1> USE DEF storeVars, pipeVars, uiVars
<1>ty. /\ TypeOK /\ store \in [TxIds -> TxMeta] /\ pc \in [TxIds -> InPipeline \cup {"idle"}]
       /\ cur \in Chains
  BY DEF IInv, TypeOK
<1>id. store[t].status = "unborn" => pc[t] = "idle"
  BY DEF IInv, NonceProtocol, UntouchedBeforeApproval, BeforeApproval
<1>1. ASSUME GenerateTx(t), NEW u \in TxIds PROVE Life(u)
  <2>1. /\ store[t].status = "unborn" /\ ~loading /\ store' = [store EXCEPT ![t] = GeneratedTx]
        /\ UNCHANGED <<pc, sig, inbox>>
    BY <1>1 DEF GenerateTx, Fresh
  <2>2. CASE u = t
    BY <2>1, <2>2, <1>ty, <1>id DEF Life, Born, GeneratedTx, Blank
  <2>3. CASE u # t
    BY <2>1, <2>3, <1>ty, FrameAlone, AloneLives DEF Frame
  <2> QED BY <2>2, <2>3
<1>2. ASSUME NEW orig \in TxIds, CreateReplacement(orig, t), NEW u \in TxIds PROVE Life(u)
  <2> DEFINE m == [GeneratedTx EXCEPT !.nonce = store[orig].nonce, !.fixed = TRUE, !.ready = TRUE]
  <2>1. /\ store[t].status = "unborn" /\ ~loading
        /\ store[orig].status \in {"submitted", "confirmed", "dropped"}
        /\ store' = WithStatusSet(WithTxAdded(t, m), {t}, "approved")
        /\ pc' = [pc EXCEPT ![t] = "gate"]
        /\ UNCHANGED <<sig, inbox>>
    BY <1>2 DEF CreateReplacement, Fresh, SetTxStatus
  <2>2. m \in TxMeta
    BY <1>ty DEF GeneratedTx, Blank, TxMeta, Status
  <2>3. WithTxAdded(t, m) \in [TxIds -> TxMeta] /\ WithTxAdded(t, m)[t] = m
    BY <2>2, <1>ty, AddedTyped, EvictedOthers
  <2>4. /\ SameTx(WithTxAdded(t, m)[u], store'[u])
        /\ u = t => store'[u].status = "approved"
        /\ u # t => store'[u] = WithTxAdded(t, m)[u]
    BY <2>1, <2>3, StatusSetAt
  <2>5. CASE u = t
    <3>1. /\ store'[t].chain = cur /\ store'[t].raw = None /\ store'[t].hash = None
          /\ store'[t].custom = None /\ store'[t].nonce = store[orig].nonce
      BY <2>3, <2>4, <2>5 DEF SameTx, GeneratedTx, Blank
    <3> HIDE DEF m
    <3> QED BY <2>1, <2>4, <2>5, <3>1, <1>ty, <1>id DEF Life, Born
  <2>6. CASE u # t
    <3>1. ~Listed(t) /\ Frame(u)
      BY <2>1, <2>6, <1>2, <1>ty DEF Listed, ListedStatus, Frame
    <3> HIDE DEF m
    <3> QED BY <2>2, <2>4, <2>6, <3>1, <1>ty, AddedLife
  <2> QED BY <2>5, <2>6
<1> QED BY <1>1, <1>2

LEMMA ChecksStay == ASSUME checks' = checks, NEW u PROVE CheckMoves(u)
BY DEF CheckMoves, SameCheck

LEMMA RequestLife ==
  ASSUME IInv, NEW t \in TxIds, UNCHANGED checks,
         \/ AddUnapprovedTransaction(t)
         \/ RefuseTransaction(t)
         \/ \E ok \in BOOLEAN : AddTxGasDefaults(t, ok)
         \/ \E answer \in Answers : Click(t, answer)
         \/ CancelTransaction(t)
         \/ \E ok \in BOOLEAN : BootGasDefaults(t, ok)
  PROVE  \A u \in TxIds : Life(u)
<1> USE DEF storeVars, pipeVars, uiVars
<1>ty. /\ TypeOK /\ store \in [TxIds -> TxMeta] /\ store[t] \in TxMeta
       /\ inbox \in [TxIds -> SUBSET Answers]
  BY DEF IInv, TypeOK
<1>ge. req[t] = "checking" => store[t].status = "generated"
  BY DEF IInv, NonceProtocol, UntouchedBeforeApproval
<1>1. ASSUME AddUnapprovedTransaction(t), NEW u \in TxIds PROVE Life(u)
  <2> DEFINE m == [store[t] EXCEPT !.status = "unapproved"]
  <2>1. /\ store[t].status = "generated" /\ store' = WithTxAdded(t, m)
        /\ UNCHANGED <<pc, sig, inbox>>
    BY <1>1, <1>ge DEF AddUnapprovedTransaction
  <2>2. m \in TxMeta /\ SameTx(store[t], m) /\ m.status = "unapproved"
    BY <1>ty DEF TxMeta, Status, ListedStatus, SameTx
  <2> HIDE DEF m
  <2>3. store'[t] = m
    BY <2>1, <1>ty, EvictedOthers
  <2>4. CASE u = t
    BY ChecksStay, <2>1, <2>2, <2>3, <2>4 DEF Life, Rests, StatusRests
  <2>5. CASE u # t
    <3>1. ~Listed(t) /\ Frame(u)
      BY <2>1 DEF Listed, ListedStatus, Frame
    <3> QED BY <2>1, <2>2, <2>5, <3>1, <1>ty, AddedLife
  <2> QED BY <2>4, <2>5
<1>2. ASSUME RefuseTransaction(t), NEW u \in TxIds PROVE Life(u)
  <2>1. /\ store[t].status = "generated" /\ store' = [store EXCEPT ![t].status = "removed"]
        /\ Frame(u)
    BY <1>2, <1>ge DEF RefuseTransaction, Frame
  <2>2. CASE u = t
    BY ChecksStay, <2>1, <2>2, <1>ty, StatusAt DEF Life, Rests, StatusRests, LeavesList, Frame
  <2>3. CASE u # t
    BY <2>1, <2>3, <1>ty, StatusAt, FrameAlone, AloneLives
  <2> QED BY <2>2, <2>3
<1>3. ASSUME NEW ok \in BOOLEAN, AddTxGasDefaults(t, ok), NEW u \in TxIds PROVE Life(u)
  <2>1. /\ store' = [store EXCEPT ![t].ready = TRUE] \/ store' = store
        /\ Frame(u)
    BY <1>3 DEF AddTxGasDefaults, Frame
  <2>2. SameTx(store[u], store'[u]) /\ store'[u].status = store[u].status
    <3> DEFINE s == [store EXCEPT ![t].ready = TRUE]
    <3>1. SameTx(store[u], s[u]) /\ s[u].status = store[u].status
      BY <1>ty, ReadyAt
    <3>2. store' = s \/ store' = store
      BY <2>1
    <3> HIDE DEF s
    <3> QED BY <3>1, <3>2, SameTxTransitive
  <2> QED BY <2>1, <2>2, AloneLives DEF Alone, Frame
<1>4. ASSUME NEW answer \in Answers, Click(t, answer), NEW u \in TxIds PROVE Life(u)
  <2>1. /\ UNCHANGED <<store, pc, sig>> /\ store[t].status = "unapproved"
        /\ inbox' = [inbox EXCEPT ![t] = @ \cup {answer}]
    BY <1>4 DEF Click
  <2> QED BY ChecksStay, <2>1, <1>ty, SameTxTransitive DEF Life, Rests, StatusRests
<1>5. ASSUME CancelTransaction(t), NEW u \in TxIds PROVE Life(u)
  <2>1. /\ store' = (IF Listed(t) THEN [store EXCEPT ![t].status = "removed"] ELSE store)
        /\ "reject" \in inbox[t] /\ inbox' = [inbox EXCEPT ![t] = @ \ {"reject"}]
        /\ UNCHANGED <<pc, sig>>
    BY <1>5 DEF CancelTransaction, SetTxStatusRejected
  <2>2. /\ SameTx(store[u], store'[u])
        /\ \/ store'[u].status = store[u].status
           \/ u = t /\ store'[u].status = "removed" /\ Listed(t)
    <3> DEFINE s == [store EXCEPT ![t].status = "removed"]
    <3>1. SameTx(store[u], s[u]) /\ s[u].status = IF u = t THEN "removed" ELSE store[u].status
      BY <1>ty, StatusAt
    <3>2. (store' = s /\ Listed(t)) \/ store' = store
      BY <2>1
    <3> HIDE DEF s
    <3> QED BY <3>1, <3>2, SameTxTransitive
  <2>3. "approve" \in inbox'[u] => "approve" \in inbox[u]
    BY <2>1, <1>ty
  <2> QED BY ChecksStay, <2>1, <2>2, <2>3 DEF Life, Rests, StatusRests, LeavesList
<1>6. ASSUME NEW ok \in BOOLEAN, BootGasDefaults(t, ok), NEW u \in TxIds PROVE Life(u)
  <2> DEFINE s == IF Visible(t) THEN [store EXCEPT ![t].ready = TRUE] ELSE store
  <2>1. /\ t \in regas /\ Frame(u)
        /\ store' = s \/ (Visible(t) /\ store' = WithStatusSet(s, {t}, "failed"))
    BY <1>6 DEF BootGasDefaults, SetTxStatus, Frame
  <2>2. /\ s \in [TxIds -> TxMeta]
        /\ SameTx(store[u], s[u]) /\ s[u].status = store[u].status
    BY <1>ty, FieldTyped, ReadyAt, SameTxTransitive
  <2> HIDE DEF s
  <2>3. /\ SameTx(store[u], store'[u])
        /\ \/ store'[u].status = store[u].status
           \/ u = t /\ store'[u].status = "failed" /\ Visible(t)
    BY <2>1, <2>2, StatusSetAt, SameTxTransitive
  <2> QED BY ChecksStay, <2>1, <2>3 DEF Life, Rests, StatusRests, GivenUp, Frame
<1> QED BY <1>1, <1>2, <1>3, <1>4, <1>5, <1>6

LEMMA AnswerLife ==
  ASSUME IInv, NEW t \in TxIds, UNCHANGED checks, NEW custom \in CustomNonces \cup {None},
         UpdateAndApproveTransaction(t, custom), NEW u \in TxIds
  PROVE  Life(u)
<1>ty. /\ store \in [TxIds -> TxMeta] /\ store[t] \in TxMeta /\ store[u] \in TxMeta
       /\ pc \in [TxIds -> InPipeline \cup {"idle"}] /\ inbox \in [TxIds -> SUBSET Answers]
  BY DEF IInv, TypeOK
<1> DEFINE m == UiCopy(t, custom)
           s == IF Listed(t) THEN [store EXCEPT ![t] = m] ELSE store
<1>1. /\ "approve" \in inbox[t] /\ inbox' = [inbox EXCEPT ![t] = @ \ {"approve"}]
      /\ StartApproval(t, s) /\ sig' = sig
  BY DEF UpdateAndApproveTransaction
<1>2. pc[t] = "idle"
  BY <1>1 DEF IInv, NonceProtocol, UntouchedBeforeApproval, BeforeApproval
<1>3. /\ m \in TxMeta /\ m.status = "unapproved"
      /\ m.chain = store[t].chain /\ m.fixed = store[t].fixed
      /\ m.nonce = None /\ m.raw = None /\ m.hash = None
  BY <1>ty, CustomNoncesAssumption DEF UiCopy, TxMeta, Status, ListedStatus
<1> HIDE DEF m
<1>4. s \in [TxIds -> TxMeta] /\ (u # t => s[u] = store[u])
      /\ s[t] = (IF Listed(t) THEN m ELSE store[t])
  BY <1>3, <1>ty
<1> HIDE DEF s
<1>5. \/ /\ s[t].status \in ListedStatus
         /\ store' = WithStatusSet(s, {t}, "approved") /\ pc' = [pc EXCEPT ![t] = "gate"]
      \/ store' = s /\ pc' = pc
  BY <1>1 DEF StartApproval, SetTxStatus
<1>6. "approve" \notin inbox'[t] /\ (u # t => inbox'[u] = inbox[u])
  BY <1>1, <1>ty
<1>7. CASE u # t
  <2>1. store'[u] = store[u] /\ pc'[u] = pc[u]
    BY <1>4, <1>5, <1>7, <1>ty, StatusSetAt
  <2> QED BY <2>1, <1>1, <1>6, <1>7, FrameAlone, AloneLives DEF Frame
<1>8. CASE u = t /\ Listed(t)
  <2>1. /\ SameTx(m, store'[t])
        /\ \/ store'[t].status = "approved" /\ pc'[t] = "gate"
           \/ store'[t].status = "unapproved" /\ pc'[t] = "idle"
    BY <1>2, <1>3, <1>4, <1>5, <1>8, <1>ty, StatusSetAt, SameTxTransitive
  <2> QED BY <2>1, <1>1, <1>2, <1>3, <1>6, <1>8 DEF Life, Answered, SameTx
<1>9. CASE u = t /\ ~Listed(t)
  <2>1. store' = s /\ pc' = pc
    BY <1>4, <1>5, <1>9 DEF Listed
  <2>2. store'[u] = store[u]
    BY <2>1, <1>4, <1>9
  <2> QED BY ChecksStay, <2>1, <2>2, <1>1, <1>6, <1>9, SameTxTransitive
          DEF Life, Rests, StatusRests
<1> QED BY <1>7, <1>8, <1>9

LEMMA WaitLife ==
  ASSUME IInv, NEW t \in TxIds, UNCHANGED checks, NEW u \in TxIds,
         \/ PassGlobalMutex(t) \/ TakeNonceLock(t) \/ NonceFails(t) \/ SwapBalance(t)
  PROVE  Life(u)
<1> USE DEF storeVars, pipeVars, uiVars, envVars
<1>ty. TypeOK /\ pc \in [TxIds -> InPipeline \cup {"idle"}]
  BY DEF IInv, TypeOK
<1>1. CASE NonceFails(t) /\ FailApproval(t, store)
  <2>1. pc[t] \in HoldsLock /\ UNCHANGED <<sig, inbox, checks>>
    BY <1>1 DEF NonceFails, HoldsLock
  <2> QED BY <2>1, <1>1, <1>ty, FailLife
<1>2. CASE ~FailApproval(t, store)
  <2>1. PICK p : /\ pc' = [pc EXCEPT ![t] = p]
                 /\ <<pc[t], p>> \in {<<"gate", "lock">>, <<"lock", "nonce">>,
                                      <<"nonce", "gate">>, <<"balance", "send">>}
    BY <1>2 DEF PassGlobalMutex, TakeNonceLock, NonceFails, SwapBalance
  <2>2. UNCHANGED <<store, sig, inbox>>
    BY <1>2 DEF PassGlobalMutex, TakeNonceLock, NonceFails, SwapBalance
  <2>3. CASE u = t
    BY <2>1, <2>2, <2>3, <1>ty, SameTxTransitive DEF Life, Advances
  <2>4. CASE u # t
    BY <2>1, <2>2, <2>4, <1>ty, FrameAlone, AloneLives DEF Frame
  <2> QED BY <2>3, <2>4
<1>3. CASE ~NonceFails(t) /\ FailApproval(t, store)
  BY <1>3, <1>ty DEF PassGlobalMutex, TakeNonceLock, SwapBalance, FailApproval, InPipeline
<1> QED BY <1>1, <1>2, <1>3

LEMMA NumberLife ==
  ASSUME IInv, NEW t \in TxIds, UNCHANGED checks, NEW u \in TxIds,
         NEW n \in 0..MaxNonce, NonceArrives(t, n)
  PROVE  Life(u)
<1> USE DEF uiVars, envVars
<1>ty. /\ TypeOK /\ store \in [TxIds -> TxMeta] /\ store[t] \in TxMeta
       /\ pc \in [TxIds -> InPipeline \cup {"idle"}] /\ sig \in [TxIds -> Chains \cup {None}]
  BY DEF IInv, TypeOK
<1>pc. pc[t] = "nonce" /\ pc[t] \in HoldsLock /\ inbox' = inbox
  BY DEF NonceArrives, HoldsLock
<1>1. PICK next \in Nonces :
        /\ IsNextNonce(next, n)
        /\ LET own   == IF store[t].fixed THEN store[t].nonce ELSE next
               nonce == IF store[t].custom # None THEN store[t].custom ELSE own
               s     == IF Listed(t) THEN [store EXCEPT ![t].nonce = nonce] ELSE store
           IN IF Visible(t)
              THEN /\ store' = s
                   /\ pc' = [pc EXCEPT ![t] = "sign"]
                   /\ sig' = [sig EXCEPT ![t] = IF loading THEN None ELSE cur]
                   /\ UNCHANGED <<listening, req, lock, tries>>
              ELSE FailApproval(t, s) /\ UNCHANGED sig
  BY DEF NonceArrives
<1> DEFINE own   == IF store[t].fixed THEN store[t].nonce ELSE next
           nonce == IF store[t].custom # None THEN store[t].custom ELSE own
<1>2. CASE ~Listed(t)
  <2>1. FailApproval(t, store) /\ UNCHANGED <<sig, inbox, checks>>
    BY <1>1, <1>2, <1>pc DEF Visible
  <2> QED BY <2>1, <1>ty, <1>pc, FailLife
<1>3. CASE Listed(t)
  <2>1. /\ store' = [store EXCEPT ![t].nonce = nonce]
        /\ \/ Visible(t) /\ pc' = [pc EXCEPT ![t] = "sign"]
              /\ sig' = [sig EXCEPT ![t] = IF loading THEN None ELSE cur]
           \/ ~Visible(t) /\ pc' = [pc EXCEPT ![t] = "idle"] /\ UNCHANGED sig
    BY <1>1, <1>3 DEF FailApproval, MarkFailed
  <2>2. CASE u = t
    <3> HIDE DEF nonce
    <3>1. /\ store'[t].nonce = nonce
          /\ store'[t].status = store[t].status /\ store'[t].chain = store[t].chain
          /\ store'[t].custom = store[t].custom /\ store'[t].fixed = store[t].fixed
          /\ store'[t].raw = store[t].raw /\ store'[t].hash = store[t].hash
      BY <2>1, <1>ty DEF TxMeta
    <3>2. /\ \/ Visible(t) /\ pc'[t] = "sign" /\ sig'[t] \in {None, cur}
             \/ ~Visible(t) /\ pc'[t] = "idle" /\ sig'[t] = sig[t]
          /\ inbox'[t] = inbox[t] /\ checks' = checks
      BY <2>1, <1>ty, <1>pc
    <3>3. \E nx \in Nonces, nn \in 0..MaxNonce :
            /\ IsNextNonce(nx, nn)
            /\ store'[t].nonce = IF store[t].custom # None THEN store[t].custom
                                 ELSE IF store[t].fixed THEN store[t].nonce ELSE nx
      BY <1>1, <3>1 DEF nonce
    <3> QED BY <2>2, <3>1, <3>2, <3>3, <1>3, <1>pc DEF Life, Numbered
  <2>3. CASE u # t
    <3> HIDE DEF nonce
    <3>1. store'[u] = store[u] /\ pc'[u] = pc[u] /\ sig'[u] = sig[u]
      BY <2>1, <2>3, <1>ty
    <3> QED BY <3>1, <1>pc, FrameAlone, AloneLives DEF Frame
  <2> QED BY <2>2, <2>3
<1> QED BY <1>2, <1>3

LEMMA SignLife ==
  ASSUME IInv, NEW t \in TxIds, UNCHANGED checks, NEW u \in TxIds,
         \/ SignFails(t) \/ SignTransaction(t) \/ SwapBalanceFails(t)
         \/ PublishTransaction(t) \/ PublishFails(t)
  PROVE  Life(u)
<1> USE DEF uiVars, envVars
<1>ty. /\ TypeOK /\ store \in [TxIds -> TxMeta] /\ store[t] \in TxMeta
       /\ pc \in [TxIds -> InPipeline \cup {"idle"}]
  BY DEF IInv, TypeOK
<1>0. UNCHANGED <<sig, inbox, checks>>
  BY DEF SignFails, SignTransaction, SwapBalanceFails, PublishTransaction, PublishFails
<1>1. CASE FailApproval(t, store) /\ pc[t] \in HoldsLock
  BY <1>0, <1>1, <1>ty, FailLife
<1>2. CASE SignTransaction(t) /\ Visible(t)
  <2> DEFINE s == [store EXCEPT ![t].raw = store[t].nonce]
  <2>1. /\ pc[t] = "sign" /\ store' = WithStatusSet(s, {t}, "signed")
        /\ \E p \in {"balance", "send"} : pc' = [pc EXCEPT ![t] = p]
    BY <1>2 DEF SignTransaction, SetTxStatus
  <2>2. /\ s \in [TxIds -> TxMeta] /\ (u # t => s[u] = store[u])
        /\ s[t].raw = store[t].nonce
        /\ s[t].chain = store[t].chain /\ s[t].nonce = store[t].nonce
        /\ s[t].custom = store[t].custom /\ s[t].fixed = store[t].fixed
        /\ s[t].hash = store[t].hash
    <3>1. store[t].nonce \in Nonces \cup {None}
      BY <1>ty DEF TxMeta
    <3>2. s \in [TxIds -> TxMeta]
      BY <3>1, <1>ty, FieldTyped
    <3> QED BY <3>2, <1>ty DEF TxMeta
  <2> HIDE DEF s
  <2>3. /\ SameTx(s[u], store'[u])
        /\ u = t => store'[u].status = "signed"
        /\ u # t => store'[u] = store[u]
    BY <2>1, <2>2, StatusSetAt
  <2>4. CASE u = t
    BY <2>1, <2>2, <2>3, <2>4, <1>0, <1>2, <1>ty DEF Life, Signed, SameTx
  <2>5. CASE u # t
    BY <2>1, <2>3, <2>5, <1>0, <1>ty, FrameAlone, AloneLives DEF Frame
  <2> QED BY <2>4, <2>5
<1>3. CASE PublishTransaction(t) /\ Visible(t)
  <2> DEFINE s == [store EXCEPT ![t].hash = store[t].raw]
  <2>1. /\ pc[t] = "send" /\ store' = WithStatusSet(s, {t}, "submitted")
        /\ pc' = [pc EXCEPT ![t] = "idle"]
    BY <1>3 DEF PublishTransaction, SetTxStatus
  <2>2. /\ s \in [TxIds -> TxMeta] /\ (u # t => s[u] = store[u])
        /\ s[t].hash = store[t].raw
        /\ s[t].chain = store[t].chain /\ s[t].nonce = store[t].nonce
        /\ s[t].custom = store[t].custom /\ s[t].fixed = store[t].fixed
        /\ s[t].raw = store[t].raw
    <3>1. store[t].raw \in Nonces \cup {None}
      BY <1>ty DEF TxMeta
    <3>2. s \in [TxIds -> TxMeta]
      BY <3>1, <1>ty, FieldTyped
    <3> QED BY <3>2, <1>ty DEF TxMeta
  <2> HIDE DEF s
  <2>3. /\ SameTx(s[u], store'[u])
        /\ u = t => store'[u].status = "submitted"
        /\ u # t => store'[u] = store[u]
    BY <2>1, <2>2, StatusSetAt
  <2>4. CASE u = t
    BY <2>1, <2>2, <2>3, <2>4, <1>0, <1>3, <1>ty DEF Life, Published, SameTx
  <2>5. CASE u # t
    BY <2>1, <2>3, <2>5, <1>0, <1>ty, FrameAlone, AloneLives DEF Frame
  <2> QED BY <2>4, <2>5
<1> QED BY <1>1, <1>2, <1>3 DEF SignFails, SignTransaction, SwapBalanceFails,
                                PublishTransaction, PublishFails, HoldsLock

LEMMA ControllerLife ==
  ASSUME IInv, NEW t \in TxIds, ControllerStep(t)
  PROVE  \A u \in TxIds : Life(u)
<1>1. UNCHANGED checks
  BY DEF ControllerStep, trackVars
<1> QED BY <1>1, BirthLife, RequestLife, AnswerLife, WaitLife, NumberLife, SignLife
        DEF ControllerStep

-----------------------------------------------------------------------------
(* The steps of the tracker, of the resubmission loop and of the host.      *)

(* The tracker never touches the approvals. *)
LEMMA TrackerFrame ==
  ASSUME TrackerStep
  PROVE  UNCHANGED <<pc, sig, inbox>>
BY DEF TrackerStep, UpdatePendingTxs, ConfirmTransaction, ReceiptMissing, ReceiptFails,
       NonceCount, NonceCountFails, ResubmitReturns, GetOld, checkFrame, resubFrame,
       pipeVars, uiVars

LEMMA BlockLife ==
  ASSUME IInv, UpdatePendingTxs, UNCHANGED <<pc, sig, inbox>>, NEW u \in TxIds
  PROVE  Life(u)
<1>ty. store \in [TxIds -> TxMeta]
  BY DEF IInv, TypeOK
<1> DEFINE tooOld == WithStatus("approved") \cap old
           noHash == {t \in WithStatus("submitted") : store[t].hash = None}
           failed == tooOld \cup noHash
           taken  == {t \in WithStatus("submitted") \ noHash : NonceIsTaken(t)}
           asks   == WithStatus("submitted") \ (noHash \cup taken)
           s      == WithStatusSet(store, failed, "failed")
<1>1. /\ store' = WithStatusSet(s, taken, "dropped")
      /\ checks' = checks \cup
           {[tx |-> t, stage |-> "receipt", on |-> cur, awaited |-> TRUE] : t \in asks}
      /\ ~glob
  BY DEF UpdatePendingTxs
<1>2. /\ u \in failed => /\ store[u].status = "approved"
                            \/ (store[u].status = "submitted" /\ store[u].hash = None)
                         /\ u \notin taken /\ u \notin asks
      /\ u \in taken => /\ Visible(u) /\ store[u].status = "submitted" /\ u \notin asks
                        /\ NonceIsTaken(u)
      /\ u \in asks => Visible(u) /\ store[u].status = "submitted" /\ store[u].hash # None
      /\ \A v \in WithStatus("confirmed") : v \notin failed /\ v \notin taken
  BY DEF WithStatus
<1> HIDE DEF failed, taken, asks
<1>3. s \in [TxIds -> TxMeta]
  BY <1>ty, StatusSetTyped DEF Status, ListedStatus
<1>4. \A v \in TxIds :
        /\ SameTx(store[v], s[v])
        /\ v \in failed => s[v].status = "failed"
        /\ v \notin failed => s[v] = store[v]
  BY <1>ty, StatusSetAt
<1> HIDE DEF s
<1>5. \A v \in TxIds :
        /\ SameTx(s[v], store'[v])
        /\ v \in taken => store'[v].status = "dropped"
        /\ v \notin taken => store'[v] = s[v]
  BY <1>1, <1>3, StatusSetAt
<1>6. \A v \in TxIds : SameTx(store[v], store'[v])
  BY <1>4, <1>5, SameTxTransitive
<1>7. StatusRests(u)
  <2>1. CASE u \in failed
    BY <1>2, <1>4, <1>5, <2>1 DEF StatusRests, GivenUp
  <2>2. CASE u \in taken
    <3>1. PICK v \in WithStatus("confirmed") : v # u /\ store[v].nonce >= store[u].nonce
      BY <1>2, <2>2 DEF NonceIsTaken
    <3>2. v \in TxIds /\ Visible(v) /\ store[v].status = "confirmed"
      BY DEF WithStatus
    <3>3. store'[v].status = "confirmed"
      BY <1>2, <1>4, <1>5, <3>2
    <3>4. Overtaken(u, v)
      BY <1>1, <1>2, <1>6, <2>2, <3>1, <3>2, <3>3 DEF Overtaken
    <3> QED BY <1>2, <1>5, <2>2, <3>2, <3>4 DEF StatusRests
  <2>3. CASE u \notin failed /\ u \notin taken
    BY <1>4, <1>5, <2>3 DEF StatusRests
  <2> QED BY <2>1, <2>2, <2>3
<1>8. CheckMoves(u)
  <2> SUFFICES ASSUME NEW c \in checks', c.tx = u, c \notin checks
               PROVE  /\ Visible(u) /\ store[u].status = "submitted"
                      /\ store'[u].status = "submitted"
                      /\ store[u].hash # None /\ c.stage = "receipt" /\ c.on = cur
    BY DEF CheckMoves, SameCheck
  <2>1. u \in asks /\ c.stage = "receipt" /\ c.on = cur
    BY <1>1
  <2>2. store'[u] = store[u]
    BY <1>2, <1>4, <1>5, <2>1
  <2> QED BY <1>2, <2>1, <2>2
<1> QED BY <1>6, <1>7, <1>8 DEF Life, Rests

LEMMA ConfirmLife ==
  ASSUME IInv, NEW c \in checks, ConfirmTransaction(c), UNCHANGED <<pc, sig, inbox>>,
         NEW u \in TxIds
  PROVE  Life(u)
<1> DEFINE t == c.tx
<1>ty. store \in [TxIds -> TxMeta] /\ t \in TxIds
  BY DEF IInv, TypeOK, Check
<1> DEFINE s == WithStatusSet(store, NonceDuplicates(t), "dropped")
<1>1. /\ checks' = checks \ {c}
      /\ \/ Visible(t) /\ store' = WithStatusSet(s, {t}, "confirmed")
         \/ store' = store
  BY DEF ConfirmTransaction, CheckDone, SetTxStatus, storeVars
<1>2. Confirms(t) /\ CheckMoves(u)
  BY <1>1 DEF ConfirmTransaction, Confirms, CheckMoves, SameCheck
<1> HIDE DEF t
<1>3. CASE store' = store
  BY <1>2, <1>3, SameTxTransitive DEF Life, Rests, StatusRests
<1>4. CASE Visible(t) /\ store' = WithStatusSet(s, {t}, "confirmed")
  <2>1. \A v \in TxIds :
          /\ SameTx(store[v], s[v])
          /\ v \in NonceDuplicates(t) => s[v].status = "dropped"
          /\ v \notin NonceDuplicates(t) => s[v] = store[v]
    BY <1>ty, StatusSetAt
  <2>2. s \in [TxIds -> TxMeta]
    BY <1>ty, StatusSetTyped DEF Status, ListedStatus
  <2> HIDE DEF s
  <2>3. \A v \in TxIds :
          /\ SameTx(s[v], store'[v])
          /\ v = t => store'[v].status = "confirmed"
          /\ v # t => store'[v] = s[v]
    BY <1>4, <2>2, StatusSetAt
  <2>4. \A v \in TxIds : SameTx(store[v], store'[v])
    BY <2>1, <2>3, SameTxTransitive
  <2>5. CASE u = t
    <3>1. Visible(u) /\ Confirms(u) /\ store'[u].status = "confirmed"
      BY <1>2, <1>4, <2>3, <2>5
    <3> QED BY <1>2, <2>4, <3>1 DEF Life, Rests, StatusRests
  <2>6. CASE u \in NonceDuplicates(t)
    <3>1. u # t /\ Visible(u) /\ store[u].nonce = store[t].nonce
      BY <2>6 DEF NonceDuplicates
    <3>2. Overtaken(u, t)
      BY <1>ty, <1>2, <1>4, <2>3, <2>4, <3>1 DEF Overtaken
    <3>3. Visible(u) /\ store'[u].status = "dropped" /\ t \in TxIds
      BY <1>ty, <2>1, <2>3, <2>6, <3>1
    <3> QED BY <1>2, <2>4, <3>2, <3>3 DEF Life, Rests, StatusRests
  <2>7. CASE u # t /\ u \notin NonceDuplicates(t)
    BY <1>2, <2>1, <2>3, <2>4, <2>7 DEF Life, Rests, StatusRests
  <2> QED BY <2>5, <2>6, <2>7
<1> QED BY <1>1, <1>3, <1>4

LEMMA CountLife ==
  ASSUME IInv, NEW c \in checks, NEW n \in 0..MaxNonce, NonceCount(c, n),
         UNCHANGED <<pc, sig, inbox>>, NEW u \in TxIds
  PROVE  Life(u)
<1> DEFINE t == c.tx
<1>ty. store \in [TxIds -> TxMeta] /\ t \in TxIds
  BY DEF IInv, TypeOK, Check
<1>1. /\ c.stage = "count" /\ checks' = checks \ {c}
      /\ n <= Len(mined[c.on])
      /\ \/ /\ Visible(t) /\ store' = WithStatusSet(store, {t}, "dropped")
            /\ store[t].nonce < n
         \/ store' = store
  BY DEF NonceCount, CheckDone, SetTxStatus, storeVars
<1>2. CheckMoves(u)
  BY <1>1 DEF CheckMoves, SameCheck
<1>3. CASE store' = store
  BY <1>2, <1>3, SameTxTransitive DEF Life, Rests, StatusRests
<1>4. CASE /\ Visible(t) /\ store' = WithStatusSet(store, {t}, "dropped")
           /\ store[t].nonce < n
  <2>1. /\ SameTx(store[u], store'[u])
        /\ u = t => store'[u].status = "dropped"
        /\ u # t => store'[u] = store[u]
    BY <1>4, <1>ty, StatusSetAt
  <2>2. CASE u = t
    <3>1. CountedOut(u)
      BY <1>1, <1>2, <1>4, <2>2 DEF CountedOut
    <3> QED BY <1>2, <1>4, <2>1, <2>2, <3>1 DEF Life, Rests, StatusRests
  <2>3. CASE u # t
    BY <1>2, <2>1, <2>3 DEF Life, Rests, StatusRests
  <2> QED BY <2>2, <2>3
<1> QED BY <1>1, <1>3, <1>4

LEMMA TrackerLife ==
  ASSUME IInv, TrackerStep, NEW u \in TxIds
  PROVE  Life(u)
<1>0. UNCHANGED <<pc, sig, inbox>>
  BY TrackerFrame
<1>1. ASSUME NEW c \in checks, ReceiptMissing(c) PROVE Life(u)
  <2>1. /\ c.stage = "receipt" /\ store' = store
        /\ checks' = (checks \ {c}) \cup {[c EXCEPT !.stage = "count", !.on = cur]}
    BY <1>1 DEF ReceiptMissing, storeVars
  <2>2. c \in Check
    BY DEF IInv, TypeOK
  <2>3. \A d \in checks' : d \in checks \/ (d.tx = c.tx /\ d.stage = "count" /\ d.on = cur)
    BY <2>1, <2>2 DEF Check
  <2>4. CheckMoves(u)
    BY <2>1, <2>3 DEF CheckMoves, SameCheck
  <2> QED BY <1>0, <2>1, <2>4, SameTxTransitive DEF Life, Rests, StatusRests
<1>2. ASSUME NEW c \in checks, ReceiptFails(c) \/ NonceCountFails(c) PROVE Life(u)
  <2>1. /\ store' = store
        /\ \/ checks' = checks \ {c}
           \/ checks' = {[d EXCEPT !.awaited = FALSE] : d \in checks \ {c}}
    BY <1>2 DEF ReceiptFails, NonceCountFails, CheckDone, storeVars
  <2>2. \A e \in checks' : \E d \in checks : e = d \/ e = [d EXCEPT !.awaited = FALSE]
    BY <2>1
  <2>3. \A d \in checks : d \in Check /\ SameCheck([d EXCEPT !.awaited = FALSE], d)
    BY DEF IInv, TypeOK, Check, SameCheck
  <2>4. CheckMoves(u)
    BY <2>2, <2>3 DEF CheckMoves, SameCheck
  <2> QED BY <1>0, <2>1, <2>4, SameTxTransitive DEF Life, Rests, StatusRests
<1>3. ASSUME \/ \E stop \in BOOLEAN : ResubmitReturns(stop)
             \/ \E t \in TxIds : GetOld(t)
      PROVE  Life(u)
  <2>1. store' = store /\ checks' = checks
    BY <1>3 DEF ResubmitReturns, GetOld, resubFrame, storeVars
  <2> QED BY <1>0, <2>1, FrameAlone, AloneLives DEF Frame
<1> QED BY <1>0, <1>1, <1>2, <1>3, BlockLife, ConfirmLife, CountLife DEF TrackerStep

LEMMA ResubmitLife ==
  ASSUME IInv, ResubmitStep, NEW u \in TxIds
  PROVE  Life(u)
<1> USE DEF storeVars, pipeVars, uiVars, resubFrame
<1>ty. /\ store \in [TxIds -> TxMeta] /\ pc \in [TxIds -> InPipeline \cup {"idle"}]
       /\ todo \in SUBSET ({0, 1} \X TxIds)
  BY DEF IInv, TypeOK
<1>0. UNCHANGED <<sig, inbox, checks>>
  BY DEF ResubmitStep, ResubmitLater, ResubmitApprove, ResubmitPublish
<1>1. CASE store' = store /\ pc' = pc
  BY <1>0, <1>1, FrameAlone, AloneLives DEF Frame
<1>2. ASSUME NEW x \in todo, ResubmitApprove(x), ~(store' = store /\ pc' = pc)
      PROVE  Life(u)
  <2> DEFINE t == x[2]
  <2>1. /\ t \in TxIds /\ store[t].raw = None /\ pc[t] = "idle" /\ Visible(t)
        /\ store' = WithStatusSet(store, {t}, "approved")
        /\ pc' = [pc EXCEPT ![t] = "gate"]
    BY <1>2, <1>ty DEF ResubmitApprove, HasRawTx, StartApproval, SetTxStatus, Visible, Listed,
                       InProcessOfSigning
  <2>2. ~BeforeApproval(t)
    BY <2>1 DEF IInv, NonceProtocol, UntouchedBeforeApproval
  <2> HIDE DEF t
  <2>3. /\ SameTx(store[u], store'[u])
        /\ u = t => store'[u].status = "approved"
        /\ u # t => store'[u] = store[u]
    BY <2>1, <1>ty, StatusSetAt
  <2>4. CASE u = t
    BY <1>0, <1>ty, <2>1, <2>2, <2>3, <2>4 DEF Life, Resumed
  <2>5. CASE u # t
    BY <1>0, <1>ty, <2>1, <2>3, <2>5, FrameAlone, AloneLives DEF Frame
  <2> QED BY <2>4, <2>5
<1>3. ASSUME NEW x \in todo, ResubmitLater(x) \/ ResubmitPublish(x) PROVE store' = store /\ pc' = pc
  BY <1>3 DEF ResubmitLater, ResubmitPublish
<1> QED BY <1>1, <1>2, <1>3 DEF ResubmitStep

(* _onBootCleanUp on a list s in which some of the list may have left.      *)
LEMMA BootLife ==
  ASSUME IInv, NEW c, NEW s \in [TxIds -> TxMeta], OnBootCleanUp(s, c),
         UNCHANGED <<pc, sig, inbox, checks>>, NEW u \in TxIds,
         SameTx(store[u], s[u]),
         \/ s[u].status = store[u].status
         \/ s[u].status = "removed" /\ switches' # switches
  PROVE  Life(u)
<1>1. store' = WithStatusSet(s, StuckApproved(s, c), "failed")
  BY DEF OnBootCleanUp, SetTxStatus
<1>2. /\ SameTx(s[u], store'[u])
      /\ u \in StuckApproved(s, c) => store'[u].status = "failed"
      /\ u \notin StuckApproved(s, c) => store'[u] = s[u]
  BY <1>1, StatusSetAt
<1>3. SameTx(store[u], store'[u])
  BY <1>2, SameTxTransitive
<1>4. u \in StuckApproved(s, c) => s[u].status = "approved"
  BY DEF StuckApproved
<1> QED BY ChecksStay, <1>2, <1>3, <1>4 DEF Life, Rests, StatusRests, LeavesList, GivenUp

LEMMA SwitchLife ==
  ASSUME IInv, NEW c, NEW s \in [TxIds -> TxMeta], SwitchTo(c, s), NEW u \in TxIds,
         SameTx(store[u], s[u]),
         s[u].status = store[u].status \/ s[u].status = "removed"
  PROVE  Life(u)
<1>1. /\ OnBootCleanUp(WithoutUnapproved(s), c) /\ switches' # switches
      /\ UNCHANGED <<pc, sig, inbox, checks>>
  BY DEF SwitchTo, pipeVars, uiVars, trackVars, IInv, TypeOK
<1>2. WithoutUnapproved(s) \in [TxIds -> TxMeta]
  BY StatusSetTyped DEF WithoutUnapproved, Status
<1>3. /\ SameTx(s[u], WithoutUnapproved(s)[u])
      /\ WithoutUnapproved(s)[u].status \in {s[u].status, "removed"}
  BY StatusSetAt DEF WithoutUnapproved
<1> HIDE DEF WithoutUnapproved
<1>4. SameTx(store[u], WithoutUnapproved(s)[u])
  BY <1>3, SameTxTransitive
<1> QED BY <1>1, <1>2, <1>3, <1>4, BootLife

LEMMA HostLife ==
  ASSUME IInv, HostStep, ~Restart, NEW u \in TxIds
  PROVE  Life(u)
<1>ty. store \in [TxIds -> TxMeta]
  BY DEF IInv, TypeOK
<1>1. ASSUME NEW c \in Chains, SetProviderConfig(c) PROVE Life(u)
  BY <1>1, <1>ty, SameTxTransitive, SwitchLife DEF SetProviderConfig
<1>2. ASSUME ResetAccount PROVE Life(u)
  <2>1. /\ WithoutCurrentChain \in [TxIds -> TxMeta]
        /\ SameTx(store[u], WithoutCurrentChain[u])
        /\ WithoutCurrentChain[u].status \in {store[u].status, "removed"}
    BY <1>ty, StatusSetTyped, StatusSetAt DEF WithoutCurrentChain, Status
  <2> QED BY <1>2, <2>1, SwitchLife DEF ResetAccount
<1>3. ASSUME NEW ok \in BOOLEAN, LookupNetwork(ok) PROVE Life(u)
  <2>1. OnBootCleanUp(store, cur) /\ UNCHANGED <<pc, sig, inbox, checks>>
    BY <1>3 DEF LookupNetwork, pipeVars, uiVars, trackVars
  <2> QED BY <2>1, <1>ty, SameTxTransitive, BootLife
<1>4. ASSUME PersistData PROVE Life(u)
  <2>1. UNCHANGED <<store, pc, sig, inbox, checks>>
    BY <1>4 DEF PersistData, storeVars, pipeVars, uiVars, trackVars
  <2> QED BY <2>1, FrameAlone, AloneLives DEF Frame
<1> QED BY <1>1, <1>2, <1>3, <1>4 DEF HostStep

-----------------------------------------------------------------------------
(* The chains and the disk. *)

LEMMA MinedLonger ==
  ASSUME IInv, NEW c \in Chains, Mine(c)
  PROVE  MinedGrows
<1>1. PICK x \in TxIds \cup {Other} : mined' = [mined EXCEPT ![c] = Append(@, x)]
  BY DEF Mine
<1>2. mined \in [Chains -> Seq(TxIds \cup {Other})]
  BY DEF IInv, TypeOK
<1> SUFFICES ASSUME NEW d \in Chains
             PROVE  /\ Len(mined[d]) <= Len(mined'[d])
                    /\ \A i \in 1..Len(mined[d]) : mined'[d][i] = mined[d][i]
  BY DEF MinedGrows
<1>3. mined[d] \in Seq(TxIds \cup {Other}) /\ Len(mined[d]) \in Nat
  BY <1>2
<1>4. mined'[d] = mined[d] \/ mined'[d] = Append(mined[d], x)
  BY <1>1, <1>2
<1> QED BY <1>3, <1>4

LEMMA MinedStays == IInv /\ mined' = mined => MinedGrows
<1> SUFFICES ASSUME IInv, mined' = mined, NEW c \in Chains PROVE Len(mined[c]) <= Len(mined[c])
  BY DEF MinedGrows
<1>1. Len(mined[c]) \in Nat
  BY DEF IInv, TypeOK
<1> QED BY <1>1

LEMMA ControllerSends ==
  ASSUME IInv, NEW t \in TxIds, ControllerStep(t)
  PROVE  mined' = mined /\ PoolGrows
<1> USE DEF chainVars, pipeVars
<1>ty. store \in [TxIds -> TxMeta] /\ store[t] \in TxMeta
  BY DEF IInv, TypeOK
<1>1. CASE pool' = pool
  BY <1>1 DEF ControllerStep, GenerateTx, AddUnapprovedTransaction, RefuseTransaction,
     AddTxGasDefaults, Click, UpdateAndApproveTransaction, CancelTransaction, CreateReplacement,
     PassGlobalMutex, TakeNonceLock, NonceFails, NonceArrives, SignFails, SignTransaction,
     SwapBalance, SwapBalanceFails, PublishTransaction, PublishFails, BootGasDefaults, PoolGrows
<1>2. CASE SignTransaction(t) /\ pool' # pool
  <2> DEFINE s == [store EXCEPT ![t].raw = store[t].nonce]
  <2>1. /\ pc[t] = "sign" /\ sig' = sig /\ mined' = mined
        /\ sig[t] \in {cur, None} /\ pool' = pool \cup {<<cur, t, store[t].nonce>>}
        /\ store' = WithStatusSet(s, {t}, "signed")
    BY <1>2 DEF SignTransaction, Broadcast, Accepts, SetTxStatus
  <2>2. store'[t].raw = store[t].nonce
    <3>1. s[t] = [store[t] EXCEPT !.raw = store[t].nonce]
      BY <1>ty
    <3>2. store'[t] = [s[t] EXCEPT !.status = "signed"]
      BY <2>1 DEF WithStatusSet
    <3> QED BY <3>1, <3>2, <1>ty DEF TxMeta
  <2> QED BY <2>1, <2>2 DEF PoolGrows
<1>3. CASE SwapBalance(t) /\ pool' # pool
  <2>1. /\ pc[t] = "balance" /\ sig' = sig /\ mined' = mined /\ store' = store
        /\ sig[t] \in {cur, None} /\ pool' = pool \cup {<<cur, t, store[t].raw>>}
    BY <1>3 DEF SwapBalance, Broadcast, Accepts, storeVars
  <2> QED BY <2>1 DEF PoolGrows
<1>4. CASE ~SignTransaction(t) /\ ~SwapBalance(t)
  <2>1. UNCHANGED chainVars
    BY <1>4 DEF ControllerStep, GenerateTx, AddUnapprovedTransaction, RefuseTransaction,
       AddTxGasDefaults, Click, UpdateAndApproveTransaction, CancelTransaction, CreateReplacement,
       PassGlobalMutex, TakeNonceLock, NonceFails, NonceArrives, SignFails,
       SwapBalanceFails, PublishTransaction, PublishFails, BootGasDefaults
  <2> QED BY <2>1 DEF PoolGrows
<1>5. mined' = mined
  BY <1>4, <1>2, <1>3 DEF ControllerStep, GenerateTx, AddUnapprovedTransaction, RefuseTransaction,
     AddTxGasDefaults, Click, UpdateAndApproveTransaction, CancelTransaction, CreateReplacement,
     PassGlobalMutex, TakeNonceLock, NonceFails, NonceArrives, SignFails, SignTransaction,
     SwapBalance, SwapBalanceFails, PublishTransaction, PublishFails, BootGasDefaults
<1> QED BY <1>1, <1>2, <1>3, <1>4, <1>5

LEMMA ResubmitSends ==
  ASSUME IInv, ResubmitStep
  PROVE  mined' = mined /\ PoolGrows
<1> USE DEF chainVars, storeVars, pipeVars
<1>1. ASSUME NEW x \in todo, ResubmitPublish(x) PROVE mined' = mined /\ PoolGrows
  <2> DEFINE t == x[2]
  <2>1. t \in TxIds
    BY DEF IInv, TypeOK
  <2>2. /\ store[t].raw # None /\ Broadcast(t, store[t].raw)
        /\ UNCHANGED <<store, sig, mined>>
    BY <1>1 DEF ResubmitPublish, HasRawTx
  <2> HIDE DEF t
  <2> QED BY <2>1, <2>2 DEF Broadcast, Accepts, PoolGrows
<1>2. ASSUME NEW x \in todo, ResubmitLater(x) \/ ResubmitApprove(x) PROVE mined' = mined /\ PoolGrows
  BY <1>2 DEF ResubmitLater, ResubmitApprove, PoolGrows
<1> QED BY <1>1, <1>2 DEF ResubmitStep

LEMMA OthersSend ==
  ASSUME TrackerStep \/ HostStep
  PROVE  UNCHANGED <<mined, pool>>
BY DEF TrackerStep, UpdatePendingTxs, ConfirmTransaction, ReceiptMissing, ReceiptFails,
       NonceCount, NonceCountFails, ResubmitReturns, GetOld, checkFrame, chainVars,
       HostStep, SetProviderConfig, ResetAccount, SwitchTo, LookupNetwork, PersistData, Restart

(* Every step but the death of the page, for every transaction.             *)
LEMMA NextLife ==
  ASSUME IInv, [Next]_vars, ~Restart
  PROVE  LifeStep
<1>1. CASE UNCHANGED vars
  <2>1. UNCHANGED <<store, pc, sig, inbox, checks, pool, mined, disk>>
    BY <1>1 DEF vars, storeVars, pipeVars, uiVars, trackVars, chainVars, hostVars
  <2> QED BY <2>1, FrameAlone, AloneLives, MinedStays DEF Frame, LifeStep, PoolGrows, DiskKept
<1>2. ASSUME NEW c \in Chains, Mine(c) PROVE LifeStep
  <2>1. UNCHANGED <<store, pc, sig, inbox, checks, pool, disk>>
    BY <1>2 DEF Mine, storeVars, pipeVars, uiVars, trackVars, hostVars
  <2> QED BY <2>1, <1>2, FrameAlone, AloneLives, MinedLonger DEF Frame, LifeStep, PoolGrows, DiskKept
<1>3. ASSUME NEW t \in TxIds, ControllerStep(t) PROVE LifeStep
  <2>1. disk' = disk
    BY <1>3 DEF ControllerStep, hostVars
  <2> QED BY <2>1, <1>3, ControllerLife, ControllerSends, MinedStays DEF LifeStep, DiskKept
<1>4. CASE TrackerStep
  <2>1. disk' = disk
    BY <1>4 DEF TrackerStep, hostVars
  <2> QED BY <2>1, <1>4, TrackerLife, OthersSend, MinedStays DEF LifeStep, DiskKept, PoolGrows
<1>5. CASE ResubmitStep
  <2>1. disk' = disk
    BY <1>5 DEF ResubmitStep, hostVars
  <2> QED BY <2>1, <1>5, ResubmitLife, ResubmitSends, MinedStays DEF LifeStep, DiskKept
<1>6. CASE HostStep
  <2>1. DiskKept
    BY <1>6 DEF HostStep, SetProviderConfig, ResetAccount, SwitchTo, LookupNetwork, PersistData,
                hostVars, storeVars, DiskKept
  <2> QED BY <2>1, <1>6, HostLife, OthersSend, MinedStays DEF LifeStep, PoolGrows
<1> QED BY <1>1, <1>2, <1>3, <1>4, <1>5, <1>6 DEF Next

-----------------------------------------------------------------------------
(* What one transaction shows stays in order, whatever happens to it.       *)

LEMMA TxFacts ==
  ASSUME IInv, LifeInv, NEW t \in TxIds
  PROVE  /\ store[t] \in TxMeta /\ store[t].chain \in Chains \cup {None}
         /\ MetaOK(store[t]) /\ MetaOK(disk[t])
         /\ MinedAs(t, store[t]) /\ MinedAs(t, disk[t]) /\ StageOK(t) /\ CheckOK(t)
         /\ pc[t] # "idle" =>
              /\ store[t].status \notin {"unborn", "generated", "unapproved", "submitted"}
              /\ "approve" \notin inbox[t]
         /\ "approve" \in inbox[t] =>
              store[t].status \notin {"unborn", "approved", "submitted"} /\ pc[t] = "idle"
         /\ cur # None
<1>1. store[t] \in TxMeta /\ cur # None
  BY ConstantsTyped DEF IInv, TypeOK
<1>2. pc[t] # "idle" =>
        /\ store[t].status \notin {"unborn", "generated", "unapproved", "submitted"}
        /\ "approve" \notin inbox[t]
  BY InProcess
<1>3. "approve" \in inbox[t] =>
        store[t].status \notin {"unborn", "approved", "submitted"} /\ pc[t] = "idle"
  BY DEF IInv, NonceProtocol, UntouchedBeforeApproval, BeforeApproval
<1>4. store[t].chain \in Chains \cup {None}
  BY <1>1 DEF TxMeta
<1> QED BY <1>1, <1>2, <1>3, <1>4 DEF LifeInv, TxOK

(* A transaction that is dropped has a nonce. *)
LEMMA DroppedHasNonce ==
  ASSUME IInv, LifeInv, NEW t \in TxIds,
         CountedOut(t) \/ \E v \in TxIds : Overtaken(t, v)
  PROVE  store[t].nonce # None
<1>1. CASE CountedOut(t)
  BY <1>1, TxFacts DEF CountedOut, CheckOK, MetaOK
<1>2. ASSUME NEW v \in TxIds, Overtaken(t, v) PROVE store[t].nonce # None
  <2>1. store[t].status = "submitted" \/ (Confirms(v) /\ store[v].nonce = store[t].nonce)
    BY <1>2 DEF Overtaken
  <2>2. Confirms(v) => store[v].nonce # None
    BY TxFacts DEF Confirms, CheckOK, MetaOK
  <2> QED BY <2>1, <2>2, TxFacts DEF MetaOK
<1> QED BY <1>1, <1>2

LEMMA MetaLife ==
  ASSUME IInv, TypeOK', LifeInv, NEW t \in TxIds, Life(t)
  PROVE  MetaOK(store'[t])
<1>fa. /\ MetaOK(store[t]) /\ StageOK(t) /\ CheckOK(t) /\ cur # None
       /\ pc[t] # "idle" =>
            store[t].status \notin {"unborn", "generated", "unapproved", "submitted"}
  BY TxFacts
<1>st. store'[t].status \in Status /\ "removed" \notin ListedStatus
  BY DEF TypeOK, TxMeta, ListedStatus
<1>1. CASE Rests(t)
  <2>1. SameTx(store[t], store'[t]) /\ StatusRests(t)
    BY <1>1 DEF Rests
  <2>2. CASE store'[t].status = store[t].status
    BY <2>1, <2>2, <1>fa DEF SameTx, MetaOK
  <2>3. CASE store[t].status = "generated" /\ store'[t].status = "unapproved"
    BY <2>1, <2>3, <1>fa DEF SameTx, MetaOK
  <2>4. CASE store'[t].status = "removed"
    BY <2>1, <2>4, <1>fa, <1>st DEF SameTx, MetaOK
  <2>5. CASE store'[t].status = "failed" /\ GivenUp(t)
    <3>1. store[t].chain # None
      BY <2>5, <1>fa DEF GivenUp, Visible, Listed, MetaOK, ListedStatus
    <3> QED BY <2>1, <2>5, <3>1, <1>fa DEF SameTx, MetaOK
  <2>6. CASE /\ store'[t].status = "dropped" /\ Visible(t)
             /\ CountedOut(t) \/ \E v \in TxIds : Overtaken(t, v)
    <3>1. store[t].nonce # None /\ store[t].chain # None
      BY <2>6, DroppedHasNonce, <1>fa DEF Visible
    <3> QED BY <2>1, <2>6, <3>1, <1>fa DEF SameTx, MetaOK
  <2>7. CASE store'[t].status = "confirmed" /\ Visible(t) /\ Confirms(t)
    BY <2>1, <2>7, <1>fa DEF SameTx, MetaOK, CheckOK, Confirms, Visible
  <2> QED BY <2>1, <2>2, <2>3, <2>4, <2>5, <2>6, <2>7 DEF StatusRests
<1>2. CASE Born(t)
  <2>1. \A orig \in TxIds : store[orig].status \in {"submitted", "confirmed", "dropped"} =>
                              store[orig].nonce # None
    BY TxFacts DEF MetaOK
  <2> QED BY <1>2, <2>1, <1>fa DEF Born, MetaOK
<1>3. CASE Answered(t)
  BY <1>3, <1>fa, TxFacts DEF Answered, MetaOK, StageOK, Listed, ListedStatus
<1>4. CASE Resumed(t)
  BY <1>4, <1>fa DEF Resumed, MetaOK, SameTx, Visible
<1>5. CASE Advances(t)
  BY <1>5, <1>fa DEF Advances, MetaOK, SameTx
<1>6. CASE Fails(t)
  <2>1. store'[t].status = store[t].status \/ (store'[t].status = "failed" /\ store[t].chain # None)
    BY <1>6, <1>fa DEF Fails, Visible
  <2> QED BY <1>6, <2>1, <1>fa DEF Fails, MetaOK, SameTx
<1>7. CASE Numbered(t)
  <2>1. store[t].raw = None /\ store[t].hash = None /\ pc[t] # "idle"
    BY <1>7, <1>fa DEF Numbered, StageOK
  <2>2. store'[t].nonce # None
    BY <1>7, <1>fa, ConstantsTyped DEF Numbered, MetaOK
  <2> QED BY <1>7, <2>1, <2>2, <1>fa DEF Numbered, MetaOK
<1>8. CASE Signed(t)
  BY <1>8, <1>fa DEF Signed, MetaOK, StageOK, Visible
<1>9. CASE Published(t)
  BY <1>9, <1>fa DEF Published, MetaOK, StageOK, Visible
<1> QED BY <1>1, <1>2, <1>3, <1>4, <1>5, <1>6, <1>7, <1>8, <1>9 DEF Life

LEMMA StageLife ==
  ASSUME IInv, TypeOK', LifeInv, NEW t \in TxIds, Life(t), MetaOK(store'[t])
  PROVE  StageOK(t)'
<1>fa. /\ MetaOK(store[t]) /\ StageOK(t) /\ CheckOK(t)
       /\ pc[t] # "idle" => "approve" \notin inbox[t]
       /\ "approve" \in inbox[t] => store[t].status # "unborn" /\ pc[t] = "idle"
  BY TxFacts
<1> SUFFICES /\ "approve" \in inbox'[t] => store'[t].raw = None /\ ~store'[t].fixed
             /\ pc'[t] \in {"gate", "lock", "nonce", "sign"} => store'[t].raw = None
             /\ pc'[t] = "sign" => store'[t].nonce # None
             /\ pc'[t] \in {"balance", "send"} => store'[t].raw # None
             /\ pc'[t] # "idle" => store'[t].hash = None
  BY DEF StageOK
<1>1. CASE Rests(t)
  BY <1>1, <1>fa DEF Rests, SameTx, StageOK, MetaOK
<1>2. CASE Born(t)
  BY <1>2, <1>fa DEF Born, StageOK
<1>3. CASE Answered(t)
  BY <1>3 DEF Answered
<1>4. CASE Resumed(t)
  BY <1>4, <1>fa DEF Resumed, SameTx, StageOK, MetaOK, BeforeApproval
<1>5. CASE Advances(t)
  BY <1>5, <1>fa DEF Advances, SameTx, StageOK
<1>6. CASE Fails(t)
  BY <1>6, <1>fa DEF Fails, SameTx, StageOK
<1>7. CASE Numbered(t)
  <2>1. store'[t].nonce # None
    BY <1>7, <1>fa, ConstantsTyped DEF Numbered, MetaOK
  <2> QED BY <1>7, <2>1, <1>fa DEF Numbered, StageOK
<1>8. CASE Signed(t)
  BY <1>8, <1>fa DEF Signed, StageOK
<1>9. CASE Published(t)
  BY <1>9, <1>fa DEF Published, StageOK
<1> QED BY <1>1, <1>2, <1>3, <1>4, <1>5, <1>6, <1>7, <1>8, <1>9 DEF Life

LEMMA CheckLife ==
  ASSUME IInv, TypeOK', LifeInv, NEW t \in TxIds, Life(t)
  PROVE  CheckOK(t)'
<1>fa. MetaOK(store[t]) /\ StageOK(t) /\ CheckOK(t) /\ cur # None
  BY TxFacts
<1> SUFFICES ASSUME NEW c \in checks', c.tx = t
             PROVE  /\ store'[t].hash # None
                    /\ c.stage = "receipt" => c.on = store'[t].chain
  BY DEF CheckOK
<1>1. CASE Rests(t)
  <2>1. SameTx(store[t], store'[t]) /\ CheckMoves(t)
    BY <1>1 DEF Rests
  <2> QED BY <2>1, <1>fa DEF SameTx, CheckOK, CheckMoves, SameCheck, Visible
<1>2. CASE Born(t) \/ Answered(t)
  BY <1>2, <1>fa DEF Born, Answered, MetaOK, StageOK, CheckOK
<1>3. CASE Resumed(t) \/ Advances(t)
  BY <1>3, <1>fa DEF Resumed, Advances, SameTx, CheckOK
<1>4. CASE Fails(t)
  BY <1>4, <1>fa DEF Fails, SameTx, CheckOK
<1>5. CASE Numbered(t) \/ Signed(t) \/ Published(t)
  BY <1>5, <1>fa DEF Numbered, Signed, Published, StageOK, CheckOK
<1> QED BY <1>1, <1>2, <1>3, <1>4, <1>5 DEF Life

(* What a chain has mined stays mined. *)
LEMMA MinedKept ==
  ASSUME IInv, TypeOK', MinedGrows, NEW t \in TxIds, NEW m \in TxMeta, MetaOK(m),
         MinedAs(t, m), m.status = "confirmed"
  PROVE  m.hash < Len(mined'[m.chain]) /\ mined'[m.chain][m.hash + 1] = t
<1>1. m.chain \in Chains /\ m.hash \in Nat
  BY ConstantsTyped DEF MetaOK, TxMeta, ListedStatus
<1>2. m.hash < Len(mined[m.chain]) /\ mined[m.chain][m.hash + 1] = t
  BY DEF MinedAs
<1>3. Len(mined[m.chain]) \in Nat /\ Len(mined'[m.chain]) \in Nat
  <2>1. /\ mined \in [Chains -> Seq(TxIds \cup {Other})]
        /\ mined' \in [Chains -> Seq(TxIds \cup {Other})]
    BY DEF IInv, TypeOK
  <2>2. mined[m.chain] \in Seq(TxIds \cup {Other}) /\ mined'[m.chain] \in Seq(TxIds \cup {Other})
    BY <1>1, <2>1
  <2> QED BY <2>2
<1>4. m.hash + 1 \in 1..Len(mined[m.chain])
  BY <1>1, <1>2, <1>3
<1>5. /\ Len(mined[m.chain]) <= Len(mined'[m.chain])
      /\ mined'[m.chain][m.hash + 1] = mined[m.chain][m.hash + 1]
  BY <1>1, <1>4 DEF MinedGrows
<1> QED BY <1>1, <1>2, <1>3, <1>5

LEMMA MinedLife ==
  ASSUME IInv, TypeOK', LifeInv, NEW t \in TxIds, Life(t), MinedGrows, MetaOK(store'[t])
  PROVE  MinedAs(t, store[t])'
<1>fa. /\ MetaOK(store[t]) /\ StageOK(t) /\ CheckOK(t) /\ MinedAs(t, store[t])
  BY TxFacts
<1>ty. store[t] \in TxMeta /\ store'[t] \in TxMeta
  BY DEF IInv, TypeOK
<1> SUFFICES ASSUME store'[t].status = "confirmed"
             PROVE  /\ store'[t].hash < Len(mined'[store'[t].chain])
                    /\ mined'[store'[t].chain][store'[t].hash + 1] = t
  BY DEF MinedAs
<1>1. SameTx(store[t], store'[t]) /\ (store[t].status = "confirmed" \/ Confirms(t))
  <2>1. CASE Rests(t)
    BY <2>1 DEF Rests, StatusRests
  <2>2. CASE ~Rests(t)
    BY <2>2, <1>fa DEF Life, Born, Answered, Resumed, Advances, Fails, Numbered, Signed, Published,
                       StageOK, MetaOK
  <2> QED BY <2>1, <2>2
<1>2. MinedAs(t, store'[t])
  BY <1>1, <1>fa DEF MinedAs, SameTx, Confirms, ReceiptExists, CheckOK
<1> QED BY <1>2, <1>ty, MinedKept

LEMMA LifeKept ==
  ASSUME IInv, TypeOK', LifeInv, LifeStep
  PROVE  LifeInv'
<1> SUFFICES ASSUME NEW t \in TxIds
             PROVE  /\ MetaOK(store'[t]) /\ MetaOK(disk'[t])
                    /\ MinedAs(t, store[t])' /\ MinedAs(t, disk[t])'
                    /\ StageOK(t)' /\ CheckOK(t)'
  BY DEF LifeInv, TxOK, MetaOK
<1>1. MetaOK(store'[t]) /\ Life(t)
  BY MetaLife DEF LifeStep
<1>2. MinedAs(t, store[t])' /\ StageOK(t)' /\ CheckOK(t)'
  BY <1>1, MinedLife, StageLife, CheckLife DEF LifeStep
<1>3. CASE disk' = disk
  <2>1. disk[t] \in TxMeta /\ MetaOK(disk[t]) /\ MinedAs(t, disk[t])
    BY TxFacts DEF IInv, TypeOK
  <2>2. MinedAs(t, disk[t])'
    BY <1>3, <2>1, MinedKept DEF MinedAs, LifeStep
  <2> QED BY <1>1, <1>2, <1>3, <2>1, <2>2
<1>4. CASE disk' = store /\ store' = store
  BY <1>1, <1>2, <1>4 DEF MinedAs
<1> QED BY <1>3, <1>4 DEF LifeStep, DiskKept

LEMMA RestartKept ==
  ASSUME IInv, LifeInv, Restart
  PROVE  LifeInv'
<1>ty. disk \in [TxIds -> TxMeta] /\ FromDisk \in [TxIds -> TxMeta]
  BY FromDiskTyped DEF IInv, TypeOK
<1>1. /\ pc' = [t \in TxIds |-> "idle"] /\ disk' = disk /\ mined' = mined
      /\ inbox' = [t \in TxIds |-> {}] /\ checks' = {}
      /\ store' = WithStatusSet(FromDisk, StuckApproved(FromDisk, cur), "failed")
  BY DEF Restart, chainVars
<1> SUFFICES ASSUME NEW t \in TxIds
             PROVE  /\ MetaOK(store'[t]) /\ MetaOK(disk'[t])
                    /\ MinedAs(t, store[t])' /\ MinedAs(t, disk[t])'
                    /\ StageOK(t)' /\ CheckOK(t)'
  BY DEF LifeInv, TxOK, MetaOK
<1>2. MetaOK(disk[t]) /\ MinedAs(t, disk[t]) /\ disk[t] \in TxMeta
  BY <1>ty, TxFacts
<1>3. /\ SameTx(disk[t], FromDisk[t])
      /\ FromDisk[t].status = disk[t].status \/ FromDisk[t].status = "removed"
  BY <1>2 DEF FromDisk, SameTx, TxMeta
<1>4. /\ SameTx(FromDisk[t], store'[t])
      /\ \/ store'[t].status = FromDisk[t].status
         \/ store'[t].status = "failed" /\ FromDisk[t].status = "approved"
  BY <1>1, <1>ty, StatusSetAt DEF StuckApproved
<1>5. /\ SameTx(disk[t], store'[t])
      /\ \/ store'[t].status = disk[t].status
         \/ store'[t].status = "removed"
         \/ store'[t].status = "failed" /\ disk[t].status = "approved"
  BY <1>3, <1>4, SameTxTransitive
<1>6. MetaOK(store'[t])
  BY <1>2, <1>5 DEF MetaOK, SameTx, ListedStatus
<1>7. MinedAs(t, store[t])' /\ MinedAs(t, disk[t])'
  BY <1>1, <1>2, <1>5 DEF MinedAs, SameTx
<1>8. StageOK(t)' /\ CheckOK(t)'
  BY <1>1 DEF StageOK, CheckOK
<1> QED BY <1>1, <1>2, <1>6, <1>7, <1>8

LEMMA InitLife == Init => LifeInv
BY DEF Init, LifeInv, TxOK, MetaOK, MinedAs, StageOK, CheckOK, Blank, ListedStatus

HInv == IInv /\ LifeInv

LEMMA NextHistory == HInv /\ [Next]_vars => HInv'
<1> SUFFICES ASSUME HInv, [Next]_vars PROVE HInv'
  OBVIOUS
<1>1. IInv /\ LifeInv /\ IInv' /\ TypeOK'
  BY NextTyped, NextNonces DEF HInv, IInv
<1>2. CASE Restart
  BY <1>1, <1>2, RestartKept DEF HInv
<1>3. CASE ~Restart
  BY <1>1, <1>3, NextLife, LifeKept DEF HInv
<1> QED BY <1>2, <1>3

LEMMA InitHistory == Init => HInv
BY InitTyped, InitNonces, InitLife DEF HInv, IInv

-----------------------------------------------------------------------------
(* The network, as long as nobody switches it or resets the account.        *)

LEMMA SameNetwork ==
  ASSUME TypeOK, [Next]_vars, MaxSwitches = 0
  PROVE  cur' = cur /\ switches' = switches
<1> USE DEF storeVars, pipeVars, uiVars, trackVars, chainVars, hostVars, envVars
<1>1. CASE UNCHANGED vars
  BY <1>1 DEF vars
<1>2. ASSUME NEW c \in Chains, Mine(c) PROVE cur' = cur /\ switches' = switches
  BY <1>2 DEF Mine
<1>3. ASSUME NEW t \in TxIds, ControllerStep(t) PROVE cur' = cur /\ switches' = switches
  BY <1>3 DEF ControllerStep, GenerateTx, AddUnapprovedTransaction, RefuseTransaction,
     AddTxGasDefaults, Click, UpdateAndApproveTransaction, CancelTransaction, CreateReplacement,
     PassGlobalMutex, TakeNonceLock, NonceFails, NonceArrives, SignFails, SignTransaction,
     SwapBalance, SwapBalanceFails, PublishTransaction, PublishFails, BootGasDefaults
<1>4. CASE TrackerStep
  BY <1>4 DEF TrackerStep, UpdatePendingTxs, ConfirmTransaction, ReceiptMissing, ReceiptFails,
     NonceCount, NonceCountFails, ResubmitReturns, GetOld, checkFrame, resubFrame
<1>5. CASE ResubmitStep
  BY <1>5 DEF ResubmitStep, ResubmitLater, ResubmitApprove, ResubmitPublish, resubFrame
<1>6. CASE HostStep
  <2>1. switches = 0 /\ ~(switches < MaxSwitches)
    BY DEF TypeOK
  <2> QED BY <1>6, <2>1 DEF HostStep, SetProviderConfig, ResetAccount, SwitchTo, LookupNetwork,
                            PersistData, Restart
<1> QED BY <1>1, <1>2, <1>3, <1>4, <1>5, <1>6 DEF Next

(* No page dies when none may. *)
LEMMA NeverDies ==
  ASSUME TypeOK, MaxCrashes = 0
  PROVE  crashes = 0 /\ ~Restart
BY DEF TypeOK, Restart

(* The gas estimations of _onBootCleanUp start when the network answers.    *)
LEMMA QuietFrame ==
  ASSUME TypeOK, [Next]_vars, Quiet
  PROVE  /\ cur' = cur /\ switches' = switches /\ ~Restart
         /\ loading' => loading
         /\ \A t \in regas' : t \in regas \/ (loading /\ store[t].status = "unapproved")
<1> USE DEF storeVars, pipeVars, uiVars, trackVars, chainVars, hostVars, envVars, Quiet
<1>1. cur' = cur /\ switches' = switches /\ ~Restart
  BY SameNetwork, NeverDies
<1> SUFFICES /\ loading' => loading
             /\ \A t \in regas' : t \in regas \/ (loading /\ store[t].status = "unapproved")
  BY <1>1
<1>2. CASE UNCHANGED vars
  BY <1>2 DEF vars
<1>3. ASSUME NEW c \in Chains, Mine(c) PROVE loading' = loading /\ regas' = regas
  BY <1>3 DEF Mine
<1>4. ASSUME NEW t \in TxIds, ControllerStep(t) PROVE loading' = loading /\ regas' \subseteq regas
  BY <1>4 DEF ControllerStep, GenerateTx, AddUnapprovedTransaction, RefuseTransaction,
     AddTxGasDefaults, Click, UpdateAndApproveTransaction, CancelTransaction, CreateReplacement,
     PassGlobalMutex, TakeNonceLock, NonceFails, NonceArrives, SignFails, SignTransaction,
     SwapBalance, SwapBalanceFails, PublishTransaction, PublishFails, BootGasDefaults
<1>5. ASSUME TrackerStep PROVE loading' = loading /\ regas' = regas
  BY <1>5 DEF TrackerStep, UpdatePendingTxs, ConfirmTransaction, ReceiptMissing, ReceiptFails,
     NonceCount, NonceCountFails, ResubmitReturns, GetOld, checkFrame, resubFrame
<1>6. ASSUME ResubmitStep PROVE loading' = loading /\ regas' = regas
  BY <1>6 DEF ResubmitStep, ResubmitLater, ResubmitApprove, ResubmitPublish, resubFrame
<1>7. CASE HostStep
  <2>1. ~(switches < MaxSwitches)
    BY DEF TypeOK
  <2>2. PersistData \/ \E ok \in BOOLEAN : LookupNetwork(ok)
    BY <1>1, <1>7, <2>1 DEF HostStep, SetProviderConfig, ResetAccount, SwitchTo
  <2>3. CASE PersistData
    BY <2>3 DEF PersistData
  <2>4. ASSUME NEW ok \in BOOLEAN, LookupNetwork(ok)
        PROVE  loading /\ regas' = regas \cup NeedGas(store, cur)
    BY <2>4 DEF LookupNetwork, OnBootCleanUp
  <2> QED BY <2>2, <2>3, <2>4 DEF NeedGas
<1> QED BY <1>2, <1>3, <1>4, <1>5, <1>6, <1>7 DEF Next

(* A step begins a transaction only while the network is not 'loading'.     *)
LEMMA StaysUnborn ==
  ASSUME IInv, LifeInv, NEW t \in TxIds, Life(t), store[t].status = "unborn",
         loading, t \notin regas, switches' = switches
  PROVE  store'[t].status = "unborn"
<1>1. ~Listed(t) /\ ~Visible(t) /\ pc[t] = "idle"
  BY TxFacts DEF Listed, Visible, ListedStatus
<1>2. t \notin Evicted
  BY <1>1 DEF Evicted
<1>3. CASE Rests(t)
  BY <1>1, <1>2, <1>3 DEF Rests, StatusRests, LeavesList, GivenUp
<1> QED BY <1>1, <1>3 DEF Life, Born, Answered, Resumed, Advances, Fails, Numbered, Signed,
                          Published, HoldsLock

LEMMA NextNothingRegassed ==
  ASSUME HInv, [Next]_vars, NothingRegassed
  PROVE  NothingRegassed'
<1> SUFFICES ASSUME Quiet
             PROVE  regas' = {} /\ (loading' => \A t \in TxIds : store'[t].status = "unborn")
  BY DEF NothingRegassed
<1>1. /\ ~Restart /\ switches' = switches /\ (loading' => loading)
      /\ \A t \in regas' : t \in regas \/ (loading /\ store[t].status = "unapproved")
  BY QuietFrame DEF HInv, IInv
<1>2. regas = {} /\ (loading => \A t \in TxIds : store[t].status = "unborn")
  BY DEF NothingRegassed
<1>3. regas' \subseteq TxIds
  BY NextTyped DEF HInv, IInv, TypeOK
<1>4. regas' = {}
  BY <1>1, <1>2, <1>3
<1>5. ASSUME NEW t \in TxIds, loading' PROVE store'[t].status = "unborn"
  <2>1. Life(t)
    BY <1>1, NextLife DEF HInv, LifeStep
  <2> QED BY <1>1, <1>2, <1>5, <2>1, StaysUnborn DEF HInv
<1> QED BY <1>4, <1>5

LEMMA InitNothingRegassed == Init => NothingRegassed
BY DEF Init, NothingRegassed, Blank

-----------------------------------------------------------------------------
(* A confirmed transaction stays confirmed. *)

LEMMA OneMined ==
  ASSUME IInv, LifeInv, NEW t \in TxIds, NEW v \in TxIds \ {t},
         Visible(t), store[t].status = "confirmed",
         Visible(v), Confirms(v)
  PROVE  store[v].nonce # store[t].nonce
<1>0. PICK c \in checks : c.tx = v /\ c.stage = "receipt" /\ ReceiptExists(c)
  BY DEF Confirms
<1>1. c.on = cur /\ store[v].hash = store[v].nonce /\ store[v].hash # None
  BY <1>0, TxFacts DEF CheckOK, MetaOK, Visible
<1>2. mined[cur][store[v].hash + 1] = v
  BY <1>0, <1>1 DEF ReceiptExists
<1>3. store[t].hash = store[t].nonce /\ mined[cur][store[t].hash + 1] = t
  BY TxFacts DEF MetaOK, MinedAs, Visible
<1> QED BY <1>1, <1>2, <1>3

LEMMA ConfirmedStep ==
  ASSUME IInv, LifeInv, NEW t \in TxIds, Life(t), store[t].status = "confirmed", t \notin regas
  PROVE  store'[t].status \in {"confirmed", "removed"} \/ LateDrop(t)
<1>1. /\ store[t].raw # None /\ store[t].hash # None /\ pc[t] = "idle"
      /\ "approve" \notin inbox[t]
  BY TxFacts DEF MetaOK, StageOK
<1>2. CASE Rests(t)
  <2>1. /\ ~GivenUp(t)
        /\ store'[t].status = "dropped" /\ CountedOut(t) => LateDrop(t)
    BY <1>1 DEF GivenUp, CountedOut, LateDrop
  <2>2. ASSUME NEW v \in TxIds, Overtaken(t, v), Visible(t) PROVE FALSE
    BY <2>2, OneMined DEF Overtaken
  <2> QED BY <1>2, <2>1, <2>2 DEF Rests, StatusRests
<1> QED BY <1>1, <1>2 DEF Life, Born, Answered, Resumed, Advances, Fails, Numbered, Signed,
                          Published, HoldsLock

(* In all its life a transaction's history is in order: what is signed and  *)
(* published carries its nonce, and what is confirmed was mined with it.    *)
THEOREM HistoryHolds == Spec => []HInv
BY InitHistory, NextHistory, PTL DEF Spec

(* Only three things can take a confirmed transaction's status away: a      *)
(* check of it that was under way when it was confirmed (_checkPendingTx),  *)
(* a gas estimate started for it at a boot (_onBootCleanUp), and a restart  *)
(* from an older write.                                                     *)
THEOREM ConfirmedEnds ==
  Spec => [][\A t \in TxIds :
               store[t].status = "confirmed" /\ t \notin regas /\ crashes' = crashes =>
                 store'[t].status \in {"confirmed", "removed"} \/ LateDrop(t)]_vars
<1>1. HInv /\ [Next]_vars =>
        [\A t \in TxIds :
           store[t].status = "confirmed" /\ t \notin regas /\ crashes' = crashes =>
             store'[t].status \in {"confirmed", "removed"} \/ LateDrop(t)]_vars
  <2> SUFFICES ASSUME HInv, [Next]_vars, NEW t \in TxIds,
                      store[t].status = "confirmed", t \notin regas, crashes' = crashes
               PROVE  store'[t].status \in {"confirmed", "removed"} \/ LateDrop(t)
    OBVIOUS
  <2>1. ~Restart
    BY DEF HInv, IInv, TypeOK, Restart
  <2> QED BY <2>1, NextLife, ConfirmedStep DEF HInv, LifeStep
<1> QED BY <1>1, HistoryHolds, PTL DEF Spec

(* Without switches and deaths a confirmed transaction stays confirmed      *)
(* until it leaves the history, unless a check of it was left under way by  *)
(* a round that failed.                                                     *)
THEOREM ConfirmedForGood ==
  ASSUME MaxSwitches = 0, MaxCrashes = 0
  PROVE  Spec => ConfirmedIsFinal
<1>1. Init => HInv /\ NothingRegassed
  BY InitHistory, InitNothingRegassed
<1>2. HInv /\ NothingRegassed /\ [Next]_vars => (HInv /\ NothingRegassed)'
  BY NextHistory, NextNothingRegassed
<1>3. HInv /\ NothingRegassed /\ [Next]_vars =>
        [\A t \in TxIds :
           store[t].status = "confirmed" =>
             store'[t].status \in {"confirmed", "removed"} \/ LateDrop(t)]_vars
  <2> SUFFICES ASSUME HInv, NothingRegassed, [Next]_vars, NEW t \in TxIds,
                      store[t].status = "confirmed"
               PROVE  store'[t].status \in {"confirmed", "removed"} \/ LateDrop(t)
    OBVIOUS
  <2>1. ~Restart /\ t \notin regas
    BY NeverDies DEF HInv, IInv, NothingRegassed, Quiet
  <2> QED BY <2>1, NextLife, ConfirmedStep DEF HInv, LifeStep
<1> QED BY <1>1, <1>2, <1>3, PTL DEF Spec, ConfirmedIsFinal

-----------------------------------------------------------------------------
(* On one network the chain a transaction is on is the one looked at.       *)

LEMMA RestartHere ==
  ASSUME TypeOK, MaxSwitches = 0, Here, Restart
  PROVE  Here'
<1>1. /\ disk \in [TxIds -> TxMeta] /\ FromDisk \in [TxIds -> TxMeta]
      /\ disk' = disk /\ cur' = cur /\ checks' = {}
      /\ store' = WithStatusSet(FromDisk, StuckApproved(FromDisk, cur), "failed")
  BY FromDiskTyped DEF TypeOK, Restart
<1> SUFFICES ASSUME NEW t \in TxIds
             PROVE  store'[t].chain \in {None, cur} /\ disk'[t].chain \in {None, cur}
  BY <1>1 DEF Here, OneNetwork
<1>2. disk[t] \in TxMeta /\ disk[t].chain \in {None, cur}
  BY <1>1 DEF Here, OneNetwork
<1>3. SameTx(disk[t], FromDisk[t])
  BY <1>2 DEF FromDisk, SameTx, TxMeta
<1>4. SameTx(FromDisk[t], store'[t])
  BY <1>1, StatusSetAt
<1> QED BY <1>1, <1>2, <1>3, <1>4 DEF SameTx

LEMMA NextHere ==
  ASSUME HInv, [Next]_vars, Here
  PROVE  Here'
<1>ty. TypeOK /\ TypeOK'
  BY NextTyped DEF HInv, IInv
<1>1. CASE \A c, d \in Chains : c = d
  <2>1. cur' \in Chains /\ \A c \in checks' : c.on \in Chains
    BY <1>ty DEF TypeOK, Check
  <2>2. \A t \in TxIds : store'[t].chain \in Chains \cup {None}
                         /\ disk'[t].chain \in Chains \cup {None}
    BY <1>ty DEF TypeOK, TxMeta
  <2> QED BY <1>1, <2>1, <2>2 DEF Here
<1>2. CASE MaxSwitches = 0 /\ ~Restart
  <2>0. cur' = cur
    BY <1>ty, <1>2, SameNetwork
  <2>1. LifeStep /\ OneNetwork
    BY <1>2, NextLife DEF HInv, OneNetwork
  <2>2. ASSUME NEW t \in TxIds
        PROVE  store'[t].chain \in {None, cur} /\ disk'[t].chain \in {None, cur}
    <3>1. store[t].chain \in {None, cur} /\ disk[t].chain \in {None, cur}
      BY <2>1 DEF Here
    <3>2. store'[t].chain \in {store[t].chain, cur}
      BY <2>1 DEF LifeStep, Life, Rests, SameTx, Born, Answered, Resumed, Advances, Fails,
                  Numbered, Signed, Published
    <3> QED BY <2>1, <3>1, <3>2 DEF LifeStep, DiskKept
  <2>3. ASSUME NEW c \in checks' PROVE c.on = cur
    <3>1. c.tx \in TxIds /\ Life(c.tx) /\ \A d \in checks : d.on = cur
      BY <2>1, <1>ty DEF LifeStep, TypeOK, Check, Here
    <3>2. CASE Rests(c.tx)
      BY <3>1, <3>2 DEF Rests, CheckMoves, SameCheck
    <3>3. CASE checks' = checks
      BY <3>1, <3>3
    <3> QED BY <3>1, <3>2, <3>3 DEF Life, Born, Answered, Resumed, Advances, Fails, Numbered, Signed,
                                    Published
  <2> QED BY <2>0, <2>2, <2>3 DEF Here
<1>3. CASE MaxSwitches = 0 /\ Restart
  BY <1>ty, <1>3, RestartHere
<1> QED BY <1>1, <1>2, <1>3 DEF Here, OneNetwork

LEMMA InitHere == Init => Here
BY DEF Init, Here, Blank

(* Who is called dropped: the current chain has used its nonce.             *)
LEMMA DroppedStep ==
  ASSUME IInv, LifeInv, Here, OneNetwork, NEW t \in TxIds, Life(t),
         store[t].status # "dropped", store'[t].status = "dropped"
  PROVE  store[t].nonce # None /\ store[t].nonce < Len(mined[store[t].chain])
<1>1. Visible(t) /\ (CountedOut(t) \/ \E v \in TxIds : Overtaken(t, v))
  BY DEF Life, Rests, StatusRests, Born, Answered, Resumed, Advances, Fails, Numbered, Signed,
         Published
<1>2. store[t].nonce # None /\ store[t].chain = cur
  BY <1>1, DroppedHasNonce DEF Visible
<1>3. store[t].nonce \in Nat /\ Len(mined[cur]) \in Nat
  <2>1. store[t] \in TxMeta /\ mined[cur] \in Seq(TxIds \cup {Other})
    BY DEF IInv, TypeOK
  <2>2. store[t].nonce \in Nonces
    BY <1>2, <2>1 DEF TxMeta
  <2>3. store[t].nonce \in Nat
    BY <2>2, ConstantsTyped
  <2>4. Len(mined[cur]) \in Nat
    BY <2>1
  <2> QED BY <2>3, <2>4
<1>4. CASE CountedOut(t)
  <2>1. PICK c \in checks, n \in 0..MaxNonce : store[t].nonce < n /\ n <= Len(mined[c.on])
    BY <1>4 DEF CountedOut
  <2>2. c.on = cur
    BY DEF Here
  <2> QED BY <1>2, <1>3, <2>1, <2>2, ConstantsTyped
<1>5. ASSUME NEW v \in TxIds, Overtaken(t, v) PROVE store[t].nonce < Len(mined[cur])
  <2>1. store[v].chain = cur /\ store[v] \in TxMeta
    BY <1>5 DEF Overtaken, Visible, IInv, TypeOK
  <2>2. CASE store[v].status = "confirmed" /\ store[v].nonce >= store[t].nonce
    <3>1. store[v].hash = store[v].nonce /\ store[v].hash # None /\ store[v].hash < Len(mined[cur])
      BY <2>1, <2>2, TxFacts DEF MetaOK, MinedAs
    <3>2. store[v].nonce \in Nat
      BY <3>1, <2>1, ConstantsTyped DEF TxMeta
    <3> QED BY <1>3, <2>2, <3>1, <3>2
  <2>3. CASE Confirms(v) /\ store[v].nonce = store[t].nonce
    <3>1. PICK c \in checks : c.tx = v /\ c.stage = "receipt" /\ ReceiptExists(c)
      BY <2>3 DEF Confirms
    <3>2. store[v].hash = store[v].nonce /\ c.on = cur
      BY <2>1, <2>3, <3>1, TxFacts DEF MetaOK, CheckOK
    <3> QED BY <2>3, <3>1, <3>2 DEF ReceiptExists
  <2> QED BY <1>5, <2>2, <2>3 DEF Overtaken
<1> QED BY <1>1, <1>2, <1>4, <1>5

(* An approval with a nonce gives the lock up with its transaction decided. *)
LEMMA ReleaseStep ==
  ASSUME IInv, LifeInv, Here, OneNetwork, LockDiscipline', NEW t \in TxIds, Life(t),
         pc[t] \in HasNonce, lock' # t
  PROVE  store'[t].status \notin {"approved", "signed"}
<1>1. pc'[t] \notin HoldsLock /\ pc[t] \in HoldsLock /\ pc[t] # "nonce"
  BY DEF LockDiscipline, HasNonce, HoldsLock
<1>2. store[t].status \in {"approved", "signed"} => Visible(t)
  BY TxFacts DEF MetaOK, Here, Visible, Listed, ListedStatus
<1>3. CASE Fails(t)
  BY <1>2, <1>3 DEF Fails
<1>4. CASE Advances(t)
  BY <1>1, <1>4 DEF Advances, HoldsLock
<1>5. CASE Signed(t) \/ Published(t)
  BY <1>1, <1>5 DEF Signed, Published, HoldsLock
<1>6. pc[t] # "idle"
  BY DEF HasNonce
<1> QED BY <1>1, <1>3, <1>4, <1>5, <1>6 DEF Life, Rests, Born, Answered, Resumed, Numbered

(* Until the page dies and as long as it stays on one network, a            *)
(* transaction is only called dropped once its chain has used its nonce.    *)
THEOREM DroppedAfterUse ==
  ASSUME OneNetwork, MaxCrashes = 0
  PROVE  Spec => DroppedNonceIsUsed
<1>1. Init => HInv /\ Here
  BY InitHistory, InitHere
<1>2. HInv /\ Here /\ [Next]_vars => (HInv /\ Here)'
  BY NextHistory, NextHere
<1>3. HInv /\ Here /\ [Next]_vars =>
        [\A t \in TxIds :
           store[t].status # "dropped" /\ store'[t].status = "dropped" =>
             /\ store[t].nonce # None
             /\ store[t].nonce < Len(mined[store[t].chain])]_vars
  <2> SUFFICES ASSUME HInv, Here, [Next]_vars, NEW t \in TxIds,
                      store[t].status # "dropped", store'[t].status = "dropped"
               PROVE  store[t].nonce # None /\ store[t].nonce < Len(mined[store[t].chain])
    OBVIOUS
  <2>1. ~Restart
    BY NeverDies DEF HInv, IInv
  <2> QED BY <2>1, NextLife, DroppedStep DEF HInv, LifeStep
<1> QED BY <1>1, <1>2, <1>3, PTL DEF Spec, DroppedNonceIsUsed

(* "must set transaction to submitted/failed before releasing lock": so it  *)
(* is as long as the program stays on one network (approveTransaction).     *)
THEOREM DecidedOnRelease ==
  ASSUME OneNetwork
  PROVE  Spec => DecidedBeforeRelease
<1>1. Init => HInv /\ Here
  BY InitHistory, InitHere
<1>2. HInv /\ Here /\ [Next]_vars => (HInv /\ Here)'
  BY NextHistory, NextHere
<1>3. HInv /\ Here /\ [Next]_vars =>
        [\A t \in TxIds :
           lock = t /\ lock' # t /\ pc[t] \in HasNonce /\ crashes' = crashes =>
             store'[t].status \notin {"approved", "signed"}]_vars
  <2> SUFFICES ASSUME HInv, Here, [Next]_vars, NEW t \in TxIds,
                      lock' # t, pc[t] \in HasNonce, crashes' = crashes
               PROVE  store'[t].status \notin {"approved", "signed"}
    OBVIOUS
  <2>1. ~Restart
    BY DEF HInv, IInv, TypeOK, Restart
  <2>2. Life(t) /\ LockDiscipline'
    BY <2>1, NextLife, NextHistory DEF HInv, IInv, NonceProtocol, LifeStep
  <2> QED BY <2>2, ReleaseStep DEF HInv
<1> QED BY <1>1, <1>2, <1>3, PTL DEF Spec, DecidedBeforeRelease

-----------------------------------------------------------------------------
(* What the nodes were sent. *)

(* A signature is final until the page dies. *)
LEMMA RawStays ==
  ASSUME IInv, LifeInv, NEW t \in TxIds, Life(t), store[t].raw # None
  PROVE  store'[t].raw = store[t].raw /\ store'[t].chain = store[t].chain /\ sig'[t] = sig[t]
<1>1. /\ store[t].status # "unborn" /\ pc[t] \notin {"gate", "lock", "nonce", "sign"}
      /\ "approve" \notin inbox[t]
  BY TxFacts DEF MetaOK, StageOK
<1> QED BY <1>1 DEF Life, Rests, SameTx, Born, Answered, Resumed, Advances, Fails, Numbered,
                    Signed, Published

LEMMA SigLife ==
  ASSUME IInv, LifeInv, NEW t \in TxIds, Life(t), sig[t] \in {None, store[t].chain},
         store[t].status = "unborn" => sig[t] = None
  PROVE  /\ sig'[t] \in {None, store'[t].chain}
         /\ store'[t].status = "unborn" => sig'[t] = None
<1>1. pc[t] # "idle" => store[t].status # "unborn"
  BY TxFacts
<1>2. CASE Rests(t)
  BY <1>2 DEF Rests, StatusRests, SameTx
<1>3. CASE Numbered(t)
  BY <1>1, <1>3 DEF Numbered, Visible
<1>4. CASE Born(t)
  BY <1>4 DEF Born
<1>5. CASE Answered(t) \/ Resumed(t) \/ Signed(t) \/ Published(t)
  BY <1>5 DEF Answered, Resumed, Signed, Published, SameTx
<1>6. CASE Advances(t) \/ Fails(t)
  BY <1>1, <1>6 DEF Advances, Fails, SameTx, HoldsLock
<1> QED BY <1>2, <1>3, <1>4, <1>5, <1>6 DEF Life

LEMMA PoolLife ==
  ASSUME IInv, LifeInv, PoolOK, LifeStep, TypeOK'
  PROVE  PoolOK'
<1> SUFFICES /\ \A x \in pool' : /\ x[3] = store'[x[2]].raw /\ x[3] # None
                                 /\ sig'[x[2]] = None \/ x[1] = store'[x[2]].chain
             /\ \A t \in TxIds : /\ sig'[t] \in {None, store'[t].chain}
                                 /\ store'[t].status = "unborn" => sig'[t] = None
  BY DEF PoolOK
<1>1. \A t \in TxIds : Life(t)
  BY DEF LifeStep
<1>2. \A t \in TxIds : /\ sig'[t] \in {None, store'[t].chain}
                       /\ store'[t].status = "unborn" => sig'[t] = None
  BY <1>1, SigLife DEF PoolOK
<1>3. ASSUME NEW x \in pool
      PROVE  /\ x[3] = store'[x[2]].raw /\ x[3] # None
             /\ sig'[x[2]] = None \/ x[1] = store'[x[2]].chain
  <2> DEFINE t == x[2]
  <2>1. t \in TxIds
    BY DEF IInv, TypeOK
  <2>2. x[3] = store[t].raw /\ x[3] # None /\ (sig[t] = None \/ x[1] = store[t].chain)
    BY DEF PoolOK
  <2>3. store'[t].raw = store[t].raw /\ store'[t].chain = store[t].chain /\ sig'[t] = sig[t]
    BY <2>1, <2>2, <1>1, RawStays
  <2> QED BY <2>2, <2>3
<1>4. ASSUME NEW u \in TxIds, sig[u] \in {cur, None}, sig'[u] = sig[u],
             \/ pc[u] = "sign" /\ store'[u].raw = store[u].nonce
             \/ /\ store'[u].raw = store[u].raw
                /\ store[u].raw # None \/ pc[u] = "balance"
      PROVE  store'[u].raw # None /\ (sig'[u] = None \/ cur = store'[u].chain)
  BY <1>2, <1>4, TxFacts DEF StageOK
<1> QED BY <1>2, <1>3, <1>4 DEF LifeStep, PoolGrows

LEMMA NextPool ==
  ASSUME HInv, [Next]_vars, PoolInv
  PROVE  PoolInv'
<1> SUFFICES ASSUME crashes' = 0 PROVE PoolOK'
  BY DEF PoolInv
<1>1. TypeOK /\ TypeOK'
  BY NextTyped DEF HInv, IInv
<1>2. ~Restart
  BY <1>1 DEF TypeOK, Restart
<1>3. crashes = 0
  <2>1. UNCHANGED vars \/ (Next /\ ~Restart)
    BY <1>2
  <2>2. CASE UNCHANGED vars
    BY <2>2 DEF vars, hostVars
  <2>3. CASE Next
    BY <1>2, <2>3 DEF Next, Mine, ControllerStep, TrackerStep, ResubmitStep, HostStep,
       SetProviderConfig, ResetAccount, SwitchTo, LookupNetwork, PersistData, hostVars
  <2> QED BY <2>2, <2>3
<1> QED BY <1>1, <1>2, <1>3, NextLife, PoolLife DEF HInv, LifeStep, PoolInv

LEMMA InitPool == Init => PoolInv
BY DEF Init, PoolInv, PoolOK

(* Until the page dies, what the nodes were sent is what the list shows.    *)
THEOREM PoolHolds == Spec => []PoolInv
<1>1. Init => HInv /\ PoolInv
  BY InitHistory, InitPool
<1>2. HInv /\ PoolInv /\ [Next]_vars => (HInv /\ PoolInv)'
  BY NextHistory, NextPool
<1> QED BY <1>1, <1>2, PTL DEF Spec

(* One approval pays once: until the page dies no transaction is accepted   *)
(* by nodes with two different nonces, whatever is resent, retried, failed  *)
(* or approved again.  Only memory, not the disk, tells what was sent.      *)
THEOREM PaidOnce == Spec => [](crashes = 0 => OneNoncePerTx)
<1>1. PoolInv => (crashes = 0 => OneNoncePerTx)
  BY DEF PoolInv, PoolOK, OneNoncePerTx
<1> QED BY <1>1, PoolHolds, PTL

(* And it reaches another chain than its own only if it was signed without  *)
(* one, while the network was loading (getChainId).                         *)
THEOREM SentToItsChain == Spec => [](crashes = 0 => StaysOnItsChain)
<1>1. PoolInv => (crashes = 0 => StaysOnItsChain)
  BY DEF PoolInv, PoolOK, StaysOnItsChain
<1> QED BY <1>1, PoolHolds, PTL

-----------------------------------------------------------------------------
(* The user's answers. *)

LEMMA AnswersFrame ==
  ASSUME TypeOK, [Next]_vars, ~Restart
  PROVE  \/ \A t \in TxIds : sent'[t] = sent[t] /\ inbox'[t] \subseteq inbox[t]
         \/ \E t \in TxIds, answer \in Answers : Click(t, answer)
<1> USE DEF storeVars, pipeVars, uiVars, trackVars, chainVars, hostVars, envVars
<1> DEFINE Heard == \A t \in TxIds : sent'[t] = sent[t] /\ inbox'[t] \subseteq inbox[t]
<1>1. CASE UNCHANGED vars
  BY <1>1 DEF vars
<1>2. ASSUME NEW c \in Chains, Mine(c) PROVE Heard
  BY <1>2 DEF Mine
<1>3. ASSUME NEW t \in TxIds, ControllerStep(t)
      PROVE  Heard \/ \E answer \in Answers : Click(t, answer)
  <2>1. CASE UNCHANGED uiVars
    BY <2>1
  <2>2. ASSUME NEW answer \in Answers, sent' = sent,
               inbox' = [inbox EXCEPT ![t] = @ \ {answer}]
        PROVE  Heard
    BY <2>2 DEF TypeOK
  <2>3. ASSUME NEW custom \in CustomNonces \cup {None}, UpdateAndApproveTransaction(t, custom)
        PROVE  Heard
    BY <2>2, <2>3 DEF UpdateAndApproveTransaction, Answers
  <2>4. CASE CancelTransaction(t)
    BY <2>2, <2>4 DEF CancelTransaction, Answers
  <2>5. \/ UNCHANGED uiVars
        \/ \E answer \in Answers : Click(t, answer)
        \/ \E custom \in CustomNonces \cup {None} : UpdateAndApproveTransaction(t, custom)
        \/ CancelTransaction(t)
    BY <1>3 DEF ControllerStep, GenerateTx, AddUnapprovedTransaction, RefuseTransaction,
       AddTxGasDefaults, CreateReplacement, PassGlobalMutex, TakeNonceLock, NonceFails,
       NonceArrives, SignFails, SignTransaction, SwapBalance, SwapBalanceFails,
       PublishTransaction, PublishFails, BootGasDefaults
  <2> QED BY <2>1, <2>3, <2>4, <2>5
<1>4. ASSUME TrackerStep PROVE Heard
  BY <1>4 DEF TrackerStep, UpdatePendingTxs, ConfirmTransaction, ReceiptMissing, ReceiptFails,
     NonceCount, NonceCountFails, ResubmitReturns, GetOld, checkFrame, resubFrame
<1>5. ASSUME ResubmitStep PROVE Heard
  BY <1>5 DEF ResubmitStep, ResubmitLater, ResubmitApprove, ResubmitPublish, resubFrame
<1>6. ASSUME HostStep PROVE Heard
  BY <1>6 DEF HostStep, SetProviderConfig, ResetAccount, SwitchTo, LookupNetwork, PersistData
<1> QED BY <1>1, <1>2, <1>3, <1>4, <1>5, <1>6 DEF Next

(* A transaction whose rejection is on its way is not approved meanwhile.   *)
LEMMA RejectedRests ==
  ASSUME HInv, NothingRegassed, Quiet, NEW t \in TxIds, Life(t), "approve" \notin inbox[t],
         store[t].status \in {"unapproved", "removed"}
  PROVE  store'[t].status \in {"unapproved", "removed"}
<1> USE DEF HInv
<1>1. /\ store[t].status = "unapproved" => store[t].nonce = None /\ store[t].hash = None
      /\ pc[t] # "idle" => store[t].status # "unapproved"
  BY TxFacts DEF MetaOK
<1>2. Visible(t) => store[t].status = "unapproved"
  BY DEF Visible, Listed, ListedStatus
<1>3. CASE Rests(t)
  <2>1. ~GivenUp(t)
    BY DEF GivenUp, NothingRegassed
  <2>2. Visible(t) => ~(CountedOut(t) \/ \E v \in TxIds : Overtaken(t, v))
    BY <1>1, <1>2, DroppedHasNonce
  <2>3. Visible(t) => ~Confirms(t)
    BY <1>1, <1>2, TxFacts DEF CheckOK, Confirms
  <2> QED BY <1>3, <2>1, <2>2, <2>3 DEF Rests, StatusRests
<1>4. CASE Resumed(t)
  BY <1>2, <1>4 DEF Resumed, BeforeApproval
<1>5. CASE Born(t) \/ Answered(t)
  BY <1>5 DEF Born, Answered
<1>6. CASE Advances(t) \/ Fails(t)
  BY <1>1, <1>2, <1>6 DEF Advances, Fails, HoldsLock
<1>7. CASE Numbered(t) \/ Signed(t) \/ Published(t)
  BY <1>1, <1>2, <1>7 DEF Numbered, Signed, Published
<1> QED BY <1>3, <1>4, <1>5, <1>6, <1>7 DEF Life

LEMMA ClickOnce ==
  ASSUME TypeOK, MaxClicks <= 1, NEW t \in TxIds, NEW answer \in Answers, Click(t, answer)
  PROVE  sent[t] = {}
<1>1. sent[t] \in SUBSET Answers /\ IsFiniteSet(Answers)
  <2>1. IsFiniteSet({"approve"}) /\ Answers = {"approve"} \cup {"reject"}
    BY FS_Singleton DEF Answers
  <2>2. IsFiniteSet({"approve"} \cup {"reject"})
    BY <2>1, FS_AddElement
  <2> QED BY <2>1, <2>2 DEF TypeOK
<1>2. IsFiniteSet(sent[t]) /\ Cardinality(sent[t]) \in Nat
  BY <1>1, FS_Subset, FS_CardinalityType
<1>3. Cardinality(sent[t]) < MaxClicks
  BY DEF Click
<1>4. Cardinality(sent[t]) = 0
  BY <1>2, <1>3, MaxClicksAssumption
<1> QED BY <1>2, <1>4, FS_EmptySet

LEMMA NextRejected ==
  ASSUME HInv, [Next]_vars, NothingRegassed, RejectedOnce
  PROVE  RejectedOnce'
<1> SUFFICES ASSUME MaxClicks <= 1, Quiet, NEW t \in TxIds
             PROVE  /\ inbox'[t] \subseteq sent'[t]
                    /\ sent'[t] = {} \/ \E a \in Answers : sent'[t] = {a}
                    /\ "reject" \in inbox'[t] => store'[t].status \in {"unapproved", "removed"}
  BY DEF RejectedOnce
<1>1. TypeOK /\ ~Restart
  BY QuietFrame DEF HInv, IInv
<1>2. Life(t)
  BY <1>1, NextLife DEF HInv, LifeStep
<1>3. /\ inbox[t] \subseteq sent[t] /\ (sent[t] = {} \/ \E a \in Answers : sent[t] = {a})
      /\ "reject" \in inbox[t] => store[t].status \in {"unapproved", "removed"}
  BY DEF RejectedOnce
<1>4. CASE \A u \in TxIds : sent'[u] = sent[u] /\ inbox'[u] \subseteq inbox[u]
  <2>1. sent'[t] = sent[t] /\ inbox'[t] \subseteq inbox[t]
    BY <1>4
  <2>2. "reject" \in inbox'[t] => "reject" \in inbox[t] /\ "approve" \notin inbox[t]
    BY <1>3, <2>1
  <2> QED BY <1>2, <1>3, <2>1, <2>2, RejectedRests
<1>5. ASSUME NEW u \in TxIds, NEW answer \in Answers, Click(u, answer)
      PROVE  /\ inbox'[t] \subseteq sent'[t]
             /\ sent'[t] = {} \/ \E a \in Answers : sent'[t] = {a}
             /\ "reject" \in inbox'[t] => store'[t].status \in {"unapproved", "removed"}
  <2>1. /\ sent' = [sent EXCEPT ![u] = @ \cup {answer}]
        /\ inbox' = [inbox EXCEPT ![u] = @ \cup {answer}]
        /\ store' = store /\ store[u].status = "unapproved"
    BY <1>5 DEF Click, storeVars
  <2>2. CASE u = t
    <3>1. sent[t] = {}
      BY <1>1, <1>5, <2>2, ClickOnce
    <3>2. sent'[t] = {answer} /\ inbox'[t] = {answer}
      BY <1>1, <1>3, <2>1, <2>2, <3>1 DEF TypeOK
    <3> QED BY <2>1, <2>2, <3>2
  <2>3. CASE u # t
    <3>1. sent'[t] = sent[t] /\ inbox'[t] = inbox[t]
      BY <1>1, <2>1, <2>3 DEF TypeOK
    <3> QED BY <1>3, <2>1, <3>1
  <2> QED BY <2>2, <2>3
<1> QED BY <1>1, <1>4, <1>5, AnswersFrame

LEMMA InitRejected == Init => RejectedOnce
BY DEF Init, RejectedOnce

LEMMA PendingStep ==
  ASSUME IInv, LifeInv, NEW t \in TxIds, Life(t), switches' = switches,
         "reject" \in inbox[t] => store[t].status \in {"unapproved", "removed"},
         store[t].status \in {"approved", "signed", "submitted"}
  PROVE  store'[t].status \in ListedStatus
<1>1. t \notin Evicted
  BY DEF Evicted, FinalStates
<1>2. CASE Rests(t)
  BY <1>1, <1>2 DEF Rests, StatusRests, LeavesList, ListedStatus
<1> QED BY <1>2 DEF Life, Born, Answered, Resumed, Advances, Fails, Numbered, Signed, Published,
                    ListedStatus

(* What is executable stays in the list, if the user answers once and       *)
(* neither switches the network nor resets the account nor the page dies.   *)
THEOREM PendingKept ==
  ASSUME MaxSwitches = 0, MaxCrashes = 0, MaxClicks <= 1
  PROVE  Spec => PendingNotForgotten
<1> DEFINE Inv == HInv /\ NothingRegassed /\ RejectedOnce
<1>1. Init => Inv
  BY InitHistory, InitNothingRegassed, InitRejected
<1>2. Inv /\ [Next]_vars => Inv'
  BY NextHistory, NextNothingRegassed, NextRejected
<1>3. Inv /\ [Next]_vars =>
        [\A t \in TxIds : store[t].status \in {"approved", "signed", "submitted"} =>
                            store'[t].status \in ListedStatus]_vars
  <2> SUFFICES ASSUME Inv, [Next]_vars, NEW t \in TxIds,
                      store[t].status \in {"approved", "signed", "submitted"}
               PROVE  store'[t].status \in ListedStatus
    OBVIOUS
  <2>1. ~Restart /\ switches' = switches
    BY QuietFrame DEF HInv, IInv, Quiet
  <2>2. "reject" \in inbox[t] => store[t].status \in {"unapproved", "removed"}
    BY DEF RejectedOnce, Quiet
  <2> QED BY <2>1, <2>2, NextLife, PendingStep DEF HInv, LifeStep
<1> QED BY <1>1, <1>2, <1>3, PTL DEF Spec, PendingNotForgotten

-----------------------------------------------------------------------------
(* What is confirmed keeps its nonce, unless a check of it may come late.   *)

(* No approval works on a transaction that has a hash. *)
LEMMA HashRests ==
  ASSUME IInv, LifeInv, NEW t \in TxIds, Life(t), store[t].hash # None
  PROVE  Rests(t)
<1>1. /\ store[t].raw # None /\ pc[t] = "idle" /\ store[t].status # "unborn"
      /\ "approve" \notin inbox[t]
  BY TxFacts DEF MetaOK, StageOK
<1> QED BY <1>1 DEF Life, Born, Answered, Resumed, Advances, Fails, Numbered, Signed,
                    Published, HoldsLock

(* Every step but the tracker's leaves the checks and the mutex alone.      *)
LEMMA ChecksFrame ==
  ASSUME [Next]_vars, ~Restart, ~TrackerStep
  PROVE  checks' = checks /\ glob' = glob
<1> USE DEF storeVars, pipeVars, uiVars, trackVars, chainVars, hostVars
<1>1. CASE UNCHANGED vars
  BY <1>1 DEF vars
<1>2. ASSUME NEW c \in Chains, Mine(c) PROVE checks' = checks /\ glob' = glob
  BY <1>2 DEF Mine
<1>3. ASSUME NEW t \in TxIds, ControllerStep(t) PROVE checks' = checks /\ glob' = glob
  BY <1>3 DEF ControllerStep, GenerateTx, AddUnapprovedTransaction, RefuseTransaction,
     AddTxGasDefaults, Click, UpdateAndApproveTransaction, CancelTransaction, CreateReplacement,
     PassGlobalMutex, TakeNonceLock, NonceFails, NonceArrives, SignFails, SignTransaction,
     SwapBalance, SwapBalanceFails, PublishTransaction, PublishFails, BootGasDefaults, envVars
<1>4. CASE ResubmitStep
  BY <1>4 DEF ResubmitStep, ResubmitLater, ResubmitApprove, ResubmitPublish, resubFrame
<1>5. CASE HostStep
  BY <1>5 DEF HostStep, SetProviderConfig, ResetAccount, SwitchTo, LookupNetwork, PersistData
<1> QED BY <1>1, <1>2, <1>3, <1>4, <1>5 DEF Next

LEMMA TrackerCheckedOnce ==
  ASSUME TypeOK, TrackerStep, CheckedOnce
  PROVE  CheckedOnce'
<1> USE DEF checkFrame, resubFrame
<1>ty. \A c \in checks : c \in Check
  BY DEF TypeOK
<1>1. ASSUME UpdatePendingTxs PROVE CheckedOnce'
  <2> DEFINE noHash == {t \in WithStatus("submitted") : store[t].hash = None}
             taken  == {t \in WithStatus("submitted") \ noHash : NonceIsTaken(t)}
             asks   == WithStatus("submitted") \ (noHash \cup taken)
  <2>1. /\ ~glob
        /\ checks' = checks \cup
             {[tx |-> t, stage |-> "receipt", on |-> cur, awaited |-> TRUE] : t \in asks}
        /\ asks # {} => glob' = TRUE
    BY <1>1 DEF UpdatePendingTxs
  <2> HIDE DEF asks
  <2>2. ASSUME NEW c \in checks', c.tx \notin LateTxs
        PROVE  /\ c = [tx |-> c.tx, stage |-> "receipt", on |-> cur, awaited |-> TRUE]
               /\ asks # {}
    <3>1. c \notin checks
      BY <2>1, <2>2 DEF CheckedOnce
    <3>2. PICK t \in asks :
            c = [tx |-> t, stage |-> "receipt", on |-> cur, awaited |-> TRUE]
      BY <2>1, <3>1
    <3> QED BY <3>2
  <2>3. ASSUME NEW c \in checks', c.tx \notin LateTxs PROVE c.awaited /\ glob'
    BY <2>1, <2>2, <2>3
  <2>4. ASSUME NEW c \in checks', NEW d \in checks', c.tx \notin LateTxs, d.tx = c.tx
        PROVE  d = c
    BY <2>2, <2>4
  <2> QED BY <2>3, <2>4 DEF CheckedOnce
<1>2. ASSUME NEW c \in checks, NEW s, CheckDone(c, s) PROVE CheckedOnce'
  <2>1. checks' = checks \ {c} /\ (glob' = glob \/ \A d \in checks : d.awaited => d = c)
    BY <1>2 DEF CheckDone, Awaited
  <2> QED BY <2>1 DEF CheckedOnce
<1>3. ASSUME NEW c \in checks, ReceiptMissing(c) PROVE CheckedOnce'
  <2> DEFINE e == [c EXCEPT !.stage = "count", !.on = cur]
  <2>1. checks' = (checks \ {c}) \cup {e} /\ glob' = glob
    BY <1>3 DEF ReceiptMissing
  <2>2. e.tx = c.tx /\ e.awaited = c.awaited
    BY <1>ty DEF Check
  <2> HIDE DEF e
  <2> QED BY <2>1, <2>2 DEF CheckedOnce
<1>4. ASSUME NEW c \in checks, NonceCountFails(c) PROVE CheckedOnce'
  <2>1. CASE c.awaited
    <3>1. /\ checks' = {[d EXCEPT !.awaited = FALSE] : d \in checks \ {c}}
          /\ \A d \in checks \ {c} : d.tx \in LateTxs
      BY <1>4, <2>1 DEF NonceCountFails
    <3>2. \A d \in checks : [d EXCEPT !.awaited = FALSE].tx = d.tx
      BY <1>ty DEF Check
    <3>3. ASSUME NEW e \in checks' PROVE e.tx \in LateTxs
      <4>1. PICK d \in checks \ {c} : e = [d EXCEPT !.awaited = FALSE]
        BY <3>1
      <4> QED BY <3>1, <3>2, <4>1
    <3> QED BY <3>3 DEF CheckedOnce
  <2>2. CASE ~c.awaited
    <3>1. checks' = checks \ {c} /\ glob' = glob
      BY <1>4, <2>2 DEF NonceCountFails
    <3> QED BY <3>1 DEF CheckedOnce
  <2> QED BY <2>1, <2>2
<1>5. ASSUME checks' = checks, glob' = glob PROVE CheckedOnce'
  BY <1>5 DEF CheckedOnce
<1>6. ASSUME \/ \E stop \in BOOLEAN : ResubmitReturns(stop)
             \/ \E t \in TxIds : GetOld(t)
      PROVE  CheckedOnce'
  BY <1>5, <1>6 DEF ResubmitReturns, GetOld
<1> QED BY <1>1, <1>2, <1>3, <1>4, <1>6 DEF TrackerStep, ConfirmTransaction, ReceiptFails, NonceCount

LEMMA NextCheckedOnce ==
  ASSUME TypeOK, [Next]_vars, CheckedOnce
  PROVE  CheckedOnce'
<1>1. CASE Restart
  BY <1>1 DEF Restart, CheckedOnce
<1>2. CASE ~Restart /\ ~TrackerStep
  BY <1>2, ChecksFrame DEF CheckedOnce
<1> QED BY <1>1, <1>2, TrackerCheckedOnce

Numbering == HInv /\ Here /\ NothingRegassed /\ Quiet /\ CheckedOnce

(* A check that goes on while its transaction changes its status is no      *)
(* check that ends with this step.                                          *)
LEMMA CheckGoesOn ==
  ASSUME TypeOK, TypeOK', CheckedOnce, CheckedOnce', NEW e \in checks', e.tx \notin LateTxs,
         CheckMoves(e.tx), store'[e.tx].status # store[e.tx].status,
         store'[e.tx].status # "submitted"
  PROVE  e \in checks /\ glob /\ \A c \in checks : c.tx = e.tx => c = e
<1>1. PICK d \in checks : SameCheck(e, d)
  BY DEF CheckMoves
<1>2. d \in Check /\ e \in Check
  BY DEF TypeOK
<1>3. d.awaited = TRUE /\ e.awaited = TRUE
  BY <1>1, <1>2 DEF CheckedOnce, SameCheck, Check
<1>4. d = e
  BY <1>1, <1>2, <1>3 DEF SameCheck, Check
<1> QED BY <1>1, <1>4 DEF CheckedOnce, SameCheck

(* What a transaction's nonce was used for stays so. *)
LEMMA UsedStays ==
  ASSUME IInv, TypeOK', MinedGrows, NEW u \in TxIds, SameTx(store[u], store'[u]),
         store[u].hash # None, store[u].chain \in Chains, UsedByOther(u)
  PROVE  UsedByOther(u)'
<1>1. store[u].hash \in Nat
  <2>1. store[u] \in TxMeta
    BY DEF IInv, TypeOK
  <2> QED BY <2>1, ConstantsTyped DEF TxMeta
<1>2. Len(mined[store[u].chain]) \in Nat /\ Len(mined'[store[u].chain]) \in Nat
  <2>1. /\ mined \in [Chains -> Seq(TxIds \cup {Other})]
        /\ mined' \in [Chains -> Seq(TxIds \cup {Other})]
    BY DEF IInv, TypeOK
  <2>2. /\ mined[store[u].chain] \in Seq(TxIds \cup {Other})
        /\ mined'[store[u].chain] \in Seq(TxIds \cup {Other})
    BY <2>1
  <2> QED BY <2>2
<1>3. store[u].hash + 1 \in 1..Len(mined[store[u].chain])
  BY <1>1, <1>2 DEF UsedByOther
<1>4. /\ Len(mined[store[u].chain]) <= Len(mined'[store[u].chain])
      /\ mined'[store[u].chain][store[u].hash + 1] = mined[store[u].chain][store[u].hash + 1]
  BY <1>3 DEF MinedGrows
<1> QED BY <1>1, <1>2, <1>4 DEF UsedByOther, SameTx

LEMMA NextOvertaken ==
  ASSUME Numbering, CheckedOvertaken, CheckedOnce', TypeOK', LifeStep
  PROVE  CheckedOvertaken'
<1> SUFFICES ASSUME NEW e \in checks', e.tx \notin LateTxs,
                    store'[e.tx].status \notin {"submitted", "removed"}
             PROVE  store'[e.tx].chain # None /\ UsedByOther(e.tx)'
  BY DEF CheckedOvertaken
<1> DEFINE u == e.tx
<1>0. /\ IInv /\ LifeInv /\ TypeOK /\ u \in TxIds /\ u \notin regas /\ Life(u) /\ MinedGrows
      /\ None \notin Chains
  BY ConstantsTyped DEF Numbering, HInv, IInv, NothingRegassed, LifeStep, TypeOK, Check
<1> HIDE DEF u
<1>1. store[u].hash # None /\ \E d \in checks : d.tx = u
  <2>3. CheckOK(u)
    BY <1>0, TxFacts
  <2>4. Rests(u) \/ checks' = checks
    BY <1>0 DEF Life, Born, Answered, Resumed, Advances, Fails, Numbered, Signed, Published
  <2>5. \E d \in checks : d.tx = u
    <3>1. CASE Rests(u)
      BY <3>1 DEF Rests, CheckMoves, SameCheck, u
    <3>2. CASE checks' = checks
      BY <3>2 DEF u
    <3> QED BY <2>4, <3>1, <3>2
  <2> QED BY <2>3, <2>5 DEF CheckOK
<1>2. /\ Rests(u) /\ SameTx(store[u], store'[u]) /\ StatusRests(u) /\ CheckMoves(u)
  BY <1>0, <1>1, HashRests DEF Rests
<1>3. CASE store[u].status # "submitted" /\ store[u].status # "removed"
  <2>1. store[u].chain # None /\ UsedByOther(u)
    BY <1>1, <1>3 DEF CheckedOvertaken, u
  <2> QED BY <1>0, <1>1, <1>2, <2>1, UsedStays, TxFacts DEF SameTx, u
<1>4. CASE store[u].status \in {"submitted", "removed"}
  <2>1. store'[u].status # store[u].status /\ store'[u].status \notin {"submitted", "removed"}
    BY <1>4 DEF u
  <2>2. store[u].status = "submitted" /\ ~GivenUp(u)
    BY <1>0, <1>1, <1>2, <1>4, <2>1 DEF StatusRests, GivenUp, Visible, Listed, ListedStatus
  <2>3. e \in checks /\ glob /\ \A c \in checks : c.tx = u => c = e
    BY <1>0, <1>2, <2>1, CheckGoesOn DEF Numbering, u
  <2>4. ~CountedOut(u) /\ ~Confirms(u)
    BY <2>3 DEF CountedOut, Confirms
  <2>5. PICK v \in TxIds : Visible(u) /\ Overtaken(u, v)
    BY <1>2, <2>1, <2>2, <2>4 DEF StatusRests
  <2>6. PICK c \in checks : /\ c.tx = v /\ c.stage = "receipt" /\ ReceiptExists(c)
                            /\ store[v].nonce = store[u].nonce /\ v # u /\ Visible(v)
    BY <2>3, <2>5 DEF Overtaken, Confirms
  <2>7. /\ store[v].hash = store[v].nonce /\ c.on = cur /\ store[u].hash = store[u].nonce
    BY <1>0, <1>1, <2>6, TxFacts DEF MetaOK, CheckOK, Visible
  <2>8. store[u].chain = cur /\ store[u].chain \in Chains /\ UsedByOther(u)
    BY <1>0, <2>5, <2>6, <2>7 DEF UsedByOther, ReceiptExists, Visible, TypeOK
  <2> QED BY <1>0, <1>1, <1>2, <2>8, UsedStays DEF SameTx, u
<1> QED BY <1>3, <1>4

(* A transaction begins to claim its nonce when the tracker chooses it. *)
LEMMA ClaimBegins ==
  ASSUME IInv, LifeInv, NEW t \in TxIds, Life(t),
         pc'[t] \in HasNonce \/ store'[t].status = "submitted"
  PROVE  \/ /\ pc[t] \in HasNonce \/ store[t].status = "submitted"
            /\ store'[t].chain = store[t].chain /\ store'[t].nonce = store[t].nonce
            /\ store'[t].custom = store[t].custom /\ store'[t].fixed = store[t].fixed
         \/ Numbered(t) /\ Visible(t)
<1>1. pc[t] # "idle" => store[t].status # "submitted"
  BY TxFacts
<1>2. CASE Rests(t) \/ Advances(t)
  BY <1>1, <1>2 DEF Rests, StatusRests, SameTx, Advances, HasNonce
<1>3. CASE Born(t) \/ Answered(t) \/ Resumed(t)
  BY <1>3 DEF Born, Answered, Resumed, HasNonce
<1>4. CASE Fails(t)
  BY <1>1, <1>4 DEF Fails, HasNonce, HoldsLock
<1>5. CASE Numbered(t)
  BY <1>1, <1>5 DEF Numbered, HasNonce
<1>6. CASE Signed(t) \/ Published(t)
  BY <1>6 DEF Signed, Published, HasNonce
<1> QED BY <1>2, <1>3, <1>4, <1>5, <1>6 DEF Life

(* What is confirmed was so before, or waits in the network.                *)
LEMMA ConfirmBegins ==
  ASSUME Numbering, CheckedOvertaken, NEW u \in TxIds \ LateTxs, Life(u),
         store'[u].status = "confirmed"
  PROVE  SameTx(store[u], store'[u]) /\ store[u].status \in {"confirmed", "submitted"}
<1>0. IInv /\ LifeInv
  BY DEF Numbering, HInv
<1>f. store[u].status = "confirmed" => pc[u] = "idle"
  BY <1>0, TxFacts DEF MetaOK, StageOK
<1>1. Rests(u)
  BY <1>f DEF Life, Born, Answered, Resumed, Advances, Fails, Numbered, Signed, Published,
             HoldsLock
<1>2. CASE Visible(u) /\ Confirms(u)
  <2>1. PICK c \in checks : c.tx = u /\ c.stage = "receipt" /\ ReceiptExists(c)
    BY <1>2 DEF Confirms
  <2>2. c.on = store[u].chain
    BY <1>0, <2>1, TxFacts DEF CheckOK
  <2>3. ~UsedByOther(u)
    BY <2>1, <2>2 DEF UsedByOther, ReceiptExists
  <2>4. store[u].status # "removed"
    BY <1>2 DEF Visible, Listed, ListedStatus
  <2> QED BY <1>1, <2>1, <2>3, <2>4 DEF CheckedOvertaken, Rests
<1>3. CASE ~(Visible(u) /\ Confirms(u))
  BY <1>1, <1>3 DEF Rests, StatusRests
<1> QED BY <1>2, <1>3

(* getNonceLock: past every confirmed nonce, and none that is waited with.  *)
LEMMA ChosenFree ==
  ASSUME HInv, NEW next \in Nonces, NEW n \in 0..MaxNonce,
         IsNextNonce(next, n), NEW u \in TxIds, store[u].chain = cur,
         store[u].status \in {"confirmed", "submitted"}
  PROVE  store[u].nonce # next
<1>1. PICK start \in 0..next : /\ \A c \in ConfirmedNonces : c < start
                               /\ next \notin PendingNonces
  BY DEF IsNextNonce
<1>2. next \in Nat /\ start \in Nat /\ start <= next
  BY <1>1, ConstantsTyped
<1>3. CASE store[u].status = "confirmed"
  <2>1. store[u].nonce # None /\ store[u] \in TxMeta
    BY <1>3, TxFacts DEF HInv, MetaOK
  <2>2. store[u].nonce \in ConfirmedNonces
    BY <1>3 DEF ConfirmedNonces, WithStatus, Visible, Listed, ListedStatus
  <2>3. store[u].nonce \in Nat /\ store[u].nonce < start
    BY <1>1, <2>1, <2>2, ConstantsTyped DEF TxMeta
  <2> QED BY <1>2, <2>3
<1>4. CASE store[u].status = "submitted"
  <2>1. store[u].nonce \in PendingNonces
    BY <1>4 DEF PendingNonces, WithStatus, Visible, Listed, ListedStatus
  <2> QED BY <1>1, <2>1
<1> QED BY <1>3, <1>4

LEMMA NextClaimFree ==
  ASSUME Numbering, CheckedOvertaken, ClaimFree, \A v \in TxIds : Life(v)
  PROVE  ClaimFree'
<1> SUFFICES ASSUME NEW t \in TxIds, NEW u \in TxIds \ LateTxs,
                    pc'[t] \in HasNonce \/ store'[t].status = "submitted",
                    store'[u].status = "confirmed",
                    Compete(store', t, u)
             PROVE  FALSE
  BY DEF ClaimFree, Compete, AutoNonce
<1>0. HInv /\ IInv /\ LifeInv /\ HolderApart /\ SubmittedApart(store)
  BY DEF Numbering, HInv, IInv, NonceProtocol
<1>1. SameTx(store[u], store'[u]) /\ store[u].status \in {"confirmed", "submitted"}
  BY <1>0, ConfirmBegins
<1>2. CASE /\ pc[t] \in HasNonce \/ store[t].status = "submitted"
           /\ store'[t].chain = store[t].chain /\ store'[t].nonce = store[t].nonce
           /\ store'[t].custom = store[t].custom /\ store'[t].fixed = store[t].fixed
  <2>1. Compete(store, t, u)
    BY <1>1, <1>2 DEF Compete, AutoNonce, SameTx
  <2> QED BY <1>0, <1>1, <1>2, <2>1 DEF ClaimFree, HolderApart, SubmittedApart
<1>3. CASE Numbered(t) /\ Visible(t)
  <2>1. PICK next \in Nonces, n \in 0..MaxNonce :
          /\ IsNextNonce(next, n)
          /\ store'[t].nonce = IF store[t].custom # None THEN store[t].custom
                               ELSE IF store[t].fixed THEN store[t].nonce ELSE next
    BY <1>3 DEF Numbered
  <2>2. store[t].custom = None /\ ~store[t].fixed
    BY <1>3 DEF Numbered, Compete, AutoNonce
  <2>3. store[u].chain = cur /\ store[u].nonce = next
    BY <1>1, <1>3, <2>1, <2>2 DEF Numbered, Visible, Compete, SameTx
  <2> QED BY <1>0, <1>1, <2>1, <2>3, ChosenFree
<1> QED BY <1>0, <1>2, <1>3, ClaimBegins

LEMMA NextClaim ==
  ASSUME HInv, Here, NothingRegassed, CheckedOnce, [Next]_vars, ClaimInv
  PROVE  ClaimInv'
<1> SUFFICES ASSUME Quiet PROVE CheckedOvertaken' /\ ClaimFree'
  BY DEF ClaimInv
<1>1. Numbering /\ CheckedOvertaken /\ ClaimFree
  BY DEF Numbering, ClaimInv
<1>2. ~Restart /\ TypeOK' /\ CheckedOnce'
  BY QuietFrame, NextTyped, NextCheckedOnce DEF HInv, IInv
<1>3. LifeStep
  BY <1>2, NextLife DEF HInv
<1> QED BY <1>1, <1>2, <1>3, NextOvertaken, NextClaimFree DEF LifeStep

LEMMA InitClaim == Init => ClaimInv /\ CheckedOnce
BY DEF Init, ClaimInv, CheckedOvertaken, ClaimFree, CheckedOnce, Blank

(* While the page neither dies nor changes the network, no transaction that *)
(* is signed, sent or waits has the nonce the tracker chose for a confirmed *)
(* one, unless a check of that one outlived its round.                      *)
THEOREM ConfirmedNoncesFree ==
  ASSUME MaxSwitches = 0, MaxCrashes = 0
  PROVE  Spec => []ConfirmedNonceNotReused
<1> DEFINE Inv == HInv /\ Here /\ NothingRegassed /\ CheckedOnce /\ ClaimInv
<1>1. Init => Inv
  BY InitHistory, InitHere, InitNothingRegassed, InitClaim
<1>2. Inv /\ [Next]_vars => Inv'
  BY NextHistory, NextHere, NextNothingRegassed, NextCheckedOnce, NextClaim DEF HInv, IInv
<1>3. Inv => ConfirmedNonceNotReused
  BY DEF ClaimInv, Quiet, ClaimFree, ConfirmedNonceNotReused
<1> QED BY <1>1, <1>2, <1>3, PTL DEF Spec

-----------------------------------------------------------------------------
(* The block listener. *)

Polled == {"submitted", "approved"}

(* From s to s2 no transaction begins to need the listener. *)
NoMorePolled(s, s2) ==
  \A t \in TxIds : s2[t].status \in Polled => s2[t].status = s[t].status /\ s2[t].chain = s[t].chain

(* _setupBlockTrackerListener was called, or had no reason to be.           *)
ListenerSet ==
  \/ PollingNeeded(store', cur) => listening'
  \/ listening' = listening /\ NoMorePolled(store, store')

LEMMA SetListens ==
  ASSUME NEW s \in [TxIds -> TxMeta], NEW S, NEW st, SetTxStatus(s, S, st, cur),
         NoMorePolled(store, s)
  PROVE  ListenerSet
<1>1. CASE S = {}
  <2>1. listening' = listening /\ \A t \in TxIds : store'[t] = s[t]
    BY <1>1 DEF SetTxStatus, WithStatusSet
  <2> QED BY <2>1 DEF NoMorePolled, ListenerSet
<1>2. CASE S # {}
  BY <1>2 DEF SetTxStatus, ListenerSet
<1> QED BY <1>1, <1>2

LEMMA NoMoreSet ==
  ASSUME NEW s \in [TxIds -> TxMeta], NEW S, NEW st, st \notin Polled
  PROVE  NoMorePolled(s, WithStatusSet(s, S, st))
<1> SUFFICES ASSUME NEW t \in TxIds, WithStatusSet(s, S, st)[t].status \in Polled
             PROVE  WithStatusSet(s, S, st)[t] = s[t]
  BY DEF NoMorePolled
<1> QED BY StatusSetAt

LEMMA NoMoreAdded ==
  ASSUME TypeOK, NEW t \in TxIds, NEW m \in TxMeta, m.status \notin Polled
  PROVE  NoMorePolled(store, WithTxAdded(t, m))
<1> DEFINE s == WithStatusSet(store, Evicted, "removed")
<1>1. store \in [TxIds -> TxMeta] /\ "removed" \notin Polled
  BY DEF TypeOK, Polled
<1>2. NoMorePolled(store, s) /\ DOMAIN s = TxIds
  BY <1>1, NoMoreSet DEF WithStatusSet
<1>3. WithTxAdded(t, m) = [s EXCEPT ![t] = m]
  BY DEF WithTxAdded
<1> HIDE DEF s
<1> QED BY <1>2, <1>3 DEF NoMorePolled

LEMMA FieldsKeep ==
  ASSUME TypeOK, NEW t \in TxIds
  PROVE  /\ NoMorePolled(store, store)
         /\ \A n : /\ NoMorePolled(store, [store EXCEPT ![t].nonce = n])
                   /\ NoMorePolled(store, [store EXCEPT ![t].raw = n])
                   /\ NoMorePolled(store, [store EXCEPT ![t].hash = n])
                   /\ NoMorePolled(store, [store EXCEPT ![t].ready = n])
         /\ NoMorePolled(store, [store EXCEPT ![t].status = "removed"])
<1>1. store[t] \in TxMeta /\ store \in [TxIds -> TxMeta] /\ "removed" \notin Polled
  BY DEF TypeOK, Polled
<1>2. \A n : /\ [store[t] EXCEPT !.nonce = n].status = store[t].status
             /\ [store[t] EXCEPT !.nonce = n].chain = store[t].chain
             /\ [store[t] EXCEPT !.raw = n].status = store[t].status
             /\ [store[t] EXCEPT !.raw = n].chain = store[t].chain
             /\ [store[t] EXCEPT !.hash = n].status = store[t].status
             /\ [store[t] EXCEPT !.hash = n].chain = store[t].chain
             /\ [store[t] EXCEPT !.ready = n].status = store[t].status
             /\ [store[t] EXCEPT !.ready = n].chain = store[t].chain
  BY <1>1 DEF TxMeta
<1>3. [store[t] EXCEPT !.status = "removed"].status = "removed"
  BY <1>1 DEF TxMeta
<1> QED BY <1>1, <1>2, <1>3 DEF NoMorePolled

LEMMA FailListens ==
  ASSUME TypeOK, NEW t \in TxIds, NEW s \in [TxIds -> TxMeta], NoMorePolled(store, s),
         FailApproval(t, s)
  PROVE  ListenerSet
<1>1. CASE Visible(t)
  BY <1>1, SetListens DEF FailApproval, MarkFailed
<1>2. CASE ~Visible(t)
  BY <1>2 DEF FailApproval, MarkFailed, ListenerSet
<1> QED BY <1>1, <1>2

LEMMA StartListens ==
  ASSUME TypeOK, NEW t \in TxIds, NEW s \in [TxIds -> TxMeta], NoMorePolled(store, s),
         StartApproval(t, s)
  PROVE  ListenerSet
<1>1. CASE SetTxStatus(s, {t}, "approved", cur)
  BY <1>1, SetListens
<1>2. CASE store' = s /\ listening' = listening
  BY <1>2 DEF ListenerSet
<1> QED BY <1>1, <1>2 DEF StartApproval

LEMMA RequestListens ==
  ASSUME TypeOK, NEW t \in TxIds,
         \/ GenerateTx(t) \/ AddUnapprovedTransaction(t) \/ RefuseTransaction(t)
         \/ \E ok \in BOOLEAN : AddTxGasDefaults(t, ok)
         \/ \E orig \in TxIds : CreateReplacement(orig, t)
         \/ \E answer \in Answers : Click(t, answer)
         \/ \E ok \in BOOLEAN : BootGasDefaults(t, ok)
  PROVE  ListenerSet
<1> USE DEF storeVars
<1>ty. store \in [TxIds -> TxMeta] /\ store[t] \in TxMeta
  BY DEF TypeOK
<1>1. CASE GenerateTx(t)
  <2>1. listening' = listening /\ store' = [store EXCEPT ![t] = GeneratedTx]
    BY <1>1 DEF GenerateTx
  <2>2. GeneratedTx.status \notin Polled
    BY DEF GeneratedTx, Blank, Polled
  <2> QED BY <1>ty, <2>1, <2>2 DEF NoMorePolled, ListenerSet
<1>2. CASE AddUnapprovedTransaction(t)
  <2> DEFINE m == [store[t] EXCEPT !.status = "unapproved"]
  <2>1. listening' = listening /\ store' = WithTxAdded(t, m)
    BY <1>2 DEF AddUnapprovedTransaction
  <2>2. m \in TxMeta /\ m.status \notin Polled
    BY <1>ty DEF TxMeta, Status, ListedStatus, Polled
  <2> HIDE DEF m
  <2> QED BY <2>1, <2>2, NoMoreAdded DEF ListenerSet
<1>3. CASE RefuseTransaction(t)
  BY <1>3, FieldsKeep DEF RefuseTransaction, ListenerSet
<1>4. ASSUME NEW ok \in BOOLEAN, AddTxGasDefaults(t, ok) PROVE ListenerSet
  BY <1>4, FieldsKeep DEF AddTxGasDefaults, ListenerSet
<1>5. ASSUME NEW orig \in TxIds, CreateReplacement(orig, t) PROVE ListenerSet
  BY <1>5 DEF CreateReplacement, SetTxStatus, ListenerSet
<1>6. ASSUME NEW answer \in Answers, Click(t, answer) PROVE ListenerSet
  BY <1>6, FieldsKeep DEF Click, ListenerSet
<1>7. ASSUME NEW ok \in BOOLEAN, BootGasDefaults(t, ok) PROVE ListenerSet
  BY <1>7, FieldsKeep DEF BootGasDefaults, SetTxStatus, ListenerSet
<1> QED BY <1>1, <1>2, <1>3, <1>4, <1>5, <1>6, <1>7

LEMMA AnswerListens ==
  ASSUME TypeOK, NEW t \in TxIds,
         \/ \E custom \in CustomNonces \cup {None} : UpdateAndApproveTransaction(t, custom)
         \/ CancelTransaction(t)
  PROVE  ListenerSet
<1>ty. store \in [TxIds -> TxMeta] /\ store[t] \in TxMeta
  BY DEF TypeOK
<1>1. ASSUME NEW custom \in CustomNonces \cup {None}, UpdateAndApproveTransaction(t, custom)
      PROVE  ListenerSet
  <2> DEFINE s == IF Listed(t) THEN [store EXCEPT ![t] = UiCopy(t, custom)] ELSE store
  <2>1. StartApproval(t, s)
    BY <1>1 DEF UpdateAndApproveTransaction
  <2>2. UiCopy(t, custom) \in TxMeta /\ UiCopy(t, custom).status = "unapproved"
    BY <1>ty, CustomNoncesAssumption DEF UiCopy, TxMeta, Status, ListedStatus
  <2>3. s \in [TxIds -> TxMeta] /\ NoMorePolled(store, s)
    BY <1>ty, <2>2 DEF NoMorePolled, Polled
  <2> HIDE DEF s
  <2> QED BY <2>1, <2>3, StartListens
<1>2. CASE CancelTransaction(t)
  <2>1. SetTxStatusRejected(t)
    BY <1>2 DEF CancelTransaction
  <2>2. CASE Visible(t)
    <3>1. /\ store' = [store EXCEPT ![t].status = "removed"]
          /\ listening' = PollingNeeded(WithStatusSet(store, {t}, "removed"), cur)
      BY <2>1, <2>2 DEF SetTxStatusRejected, Visible
    <3>2. WithStatusSet(store, {t}, "removed") = [store EXCEPT ![t].status = "removed"]
      BY <1>ty DEF WithStatusSet
    <3> QED BY <3>1, <3>2 DEF ListenerSet
  <2>3. CASE ~Visible(t)
    BY <2>1, <2>3, FieldsKeep DEF SetTxStatusRejected, ListenerSet
  <2> QED BY <2>2, <2>3
<1> QED BY <1>1, <1>2

LEMMA PipelineListens ==
  ASSUME TypeOK, NEW t \in TxIds,
         \/ PassGlobalMutex(t) \/ TakeNonceLock(t) \/ NonceFails(t)
         \/ \E n \in 0..MaxNonce : NonceArrives(t, n)
         \/ SignFails(t) \/ SignTransaction(t) \/ SwapBalance(t) \/ SwapBalanceFails(t)
         \/ PublishTransaction(t) \/ PublishFails(t)
  PROVE  ListenerSet
<1> USE DEF storeVars
<1>ty. store \in [TxIds -> TxMeta] /\ store[t] \in TxMeta
  BY DEF TypeOK
<1>1. CASE PassGlobalMutex(t) \/ TakeNonceLock(t) \/ SwapBalance(t)
  BY <1>1, FieldsKeep DEF PassGlobalMutex, TakeNonceLock, SwapBalance, ListenerSet
<1>2. CASE FailApproval(t, store)
  BY <1>ty, <1>2, FieldsKeep, FailListens
<1>3. CASE NonceFails(t)
  BY <1>2, <1>3, FieldsKeep DEF NonceFails, ListenerSet
<1>4. ASSUME NEW n \in 0..MaxNonce, NonceArrives(t, n) PROVE ListenerSet
  <2>1. PICK nonce \in Nonces \cup {None} :
          LET s == IF Listed(t) THEN [store EXCEPT ![t].nonce = nonce] ELSE store
          IN IF Visible(t) THEN store' = s /\ listening' = listening ELSE FailApproval(t, s)
    BY <1>4, <1>ty DEF NonceArrives, TxMeta
  <2> DEFINE s == IF Listed(t) THEN [store EXCEPT ![t].nonce = nonce] ELSE store
  <2>2. s \in [TxIds -> TxMeta] /\ NoMorePolled(store, s)
    BY <1>ty, FieldsKeep, FieldTyped
  <2>3. IF Visible(t) THEN store' = s /\ listening' = listening ELSE FailApproval(t, s)
    BY <2>1
  <2> HIDE DEF s
  <2> QED BY <2>2, <2>3, FailListens DEF ListenerSet
<1>5. CASE SignTransaction(t) \/ PublishTransaction(t)
  BY <1>2, <1>5 DEF SignTransaction, PublishTransaction, SetTxStatus, ListenerSet
<1>6. CASE SignFails(t) \/ SwapBalanceFails(t) \/ PublishFails(t)
  BY <1>2, <1>6 DEF SignFails, SwapBalanceFails, PublishFails
<1> QED BY <1>1, <1>3, <1>4, <1>5, <1>6

LEMMA TrackerListens ==
  ASSUME TypeOK, TrackerStep
  PROVE  ListenerSet
<1> USE DEF storeVars, checkFrame
<1>ty. store \in [TxIds -> TxMeta]
  BY DEF TypeOK
<1>0. TxIds # {}
  BY NumTxsAssumption DEF TxIds
<1>1. CASE listening' = listening /\ store' = store
  BY <1>0, <1>1, FieldsKeep DEF ListenerSet
<1>2. CASE UpdatePendingTxs
  <2> DEFINE tooOld == WithStatus("approved") \cap old
             noHash == {t \in WithStatus("submitted") : store[t].hash = None}
             failed == tooOld \cup noHash
             taken  == {t \in WithStatus("submitted") \ noHash : NonceIsTaken(t)}
  <2>1. /\ store' = WithStatusSet(WithStatusSet(store, failed, "failed"), taken, "dropped")
        /\ listening' = IF failed \cup taken = {} THEN listening ELSE PollingNeeded(store', cur)
    BY <1>2 DEF UpdatePendingTxs
  <2> HIDE DEF failed, taken
  <2>2. CASE failed \cup taken = {}
    <3>1. store' = store
      BY <1>ty, <2>1, <2>2 DEF WithStatusSet
    <3> QED BY <1>1, <2>1, <2>2, <3>1
  <2>3. CASE failed \cup taken # {}
    BY <2>1, <2>3 DEF ListenerSet
  <2> QED BY <2>2, <2>3
<1>3. ASSUME NEW c \in checks, ConfirmTransaction(c) PROVE ListenerSet
  BY <1>1, <1>3 DEF ConfirmTransaction, SetTxStatus, ListenerSet
<1>4. ASSUME NEW c \in checks, NEW n \in 0..MaxNonce, NonceCount(c, n) PROVE ListenerSet
  BY <1>1, <1>4 DEF NonceCount, SetTxStatus, ListenerSet
<1>5. ASSUME \/ \E c \in checks : ReceiptMissing(c) \/ ReceiptFails(c) \/ NonceCountFails(c)
             \/ \E t \in TxIds : GetOld(t)
      PROVE  ListenerSet
  BY <1>1, <1>5 DEF ReceiptMissing, ReceiptFails, NonceCountFails, GetOld
<1>6. ASSUME NEW stop \in BOOLEAN, ResubmitReturns(stop) PROVE ListenerSet
  BY <1>1, <1>6 DEF ResubmitReturns
<1> QED BY <1>2, <1>3, <1>4, <1>5, <1>6 DEF TrackerStep

LEMMA ResubmitListens ==
  ASSUME TypeOK, ResubmitStep
  PROVE  ListenerSet
<1> USE DEF storeVars
<1>ty. store \in [TxIds -> TxMeta] /\ \A x \in todo : x[2] \in TxIds
  BY DEF TypeOK
<1>1. ASSUME NEW x \in todo, ResubmitLater(x) \/ ResubmitPublish(x) PROVE ListenerSet
  BY <1>ty, <1>1, FieldsKeep DEF ResubmitLater, ResubmitPublish, ListenerSet
<1>2. ASSUME NEW x \in todo, ResubmitApprove(x) PROVE ListenerSet
  <2>1. StartApproval(x[2], store)
    BY <1>2 DEF ResubmitApprove
  <2> QED BY <1>ty, <2>1, FieldsKeep, StartListens
<1> QED BY <1>1, <1>2 DEF ResubmitStep

LEMMA HostListens ==
  ASSUME TypeOK, HostStep, cur' = cur
  PROVE  ListenerSet
<1> USE DEF storeVars
<1>ty. store \in [TxIds -> TxMeta] /\ "removed" \notin Polled
  BY DEF TypeOK, Polled
<1>st. "removed" \in Status
  BY DEF Status
<1>1. ASSUME NEW s \in [TxIds -> TxMeta], OnBootCleanUp(s, cur), NoMorePolled(store, s)
      PROVE  ListenerSet
  BY <1>1, SetListens DEF OnBootCleanUp
<1>2. ASSUME NEW s \in [TxIds -> TxMeta], SwitchTo(cur, s), NoMorePolled(store, s)
      PROVE  ListenerSet
  <2> DEFINE s2 == WithoutUnapproved(s)
  <2>1. OnBootCleanUp(s2, cur)
    BY <1>2 DEF SwitchTo
  <2>2. s2 \in [TxIds -> TxMeta] /\ NoMorePolled(s, s2)
    BY <1>ty, <1>st, StatusSetTyped, NoMoreSet DEF WithoutUnapproved
  <2>3. NoMorePolled(store, s2)
    BY <1>2, <2>2 DEF NoMorePolled
  <2> HIDE DEF s2
  <2> QED BY <1>1, <2>1, <2>2, <2>3
<1>3. TxIds # {} /\ NoMorePolled(store, store)
  BY NumTxsAssumption DEF TxIds, NoMorePolled
<1>4. ASSUME NEW c \in Chains, SetProviderConfig(c) PROVE ListenerSet
  <2>1. SwitchTo(cur, store)
    BY <1>4 DEF SetProviderConfig, SwitchTo
  <2> QED BY <1>ty, <1>2, <1>3, <2>1
<1>5. CASE ResetAccount
  <2>1. WithoutCurrentChain \in [TxIds -> TxMeta] /\ NoMorePolled(store, WithoutCurrentChain)
    BY <1>ty, <1>st, StatusSetTyped, NoMoreSet DEF WithoutCurrentChain
  <2> QED BY <1>2, <1>5, <2>1 DEF ResetAccount
<1>6. ASSUME NEW ok \in BOOLEAN, LookupNetwork(ok) PROVE ListenerSet
  BY <1>ty, <1>1, <1>3, <1>6 DEF LookupNetwork
<1>7. CASE PersistData
  BY <1>3, <1>7 DEF PersistData, ListenerSet
<1>8. CASE Restart
  BY <1>8 DEF Restart, ListenerSet
<1> QED BY <1>4, <1>5, <1>6, <1>7, <1>8 DEF HostStep

(* Whatever brings a transaction into the network or its approval on its    *)
(* way attaches the listener, deaths included, as long as the chain stays.  *)
LEMMA NextListens ==
  ASSUME TypeOK, [Next]_vars, cur' = cur
  PROVE  ListenerSet
<1>1. TxIds # {} /\ NoMorePolled(store, store)
  BY NumTxsAssumption DEF TxIds, NoMorePolled
<1>2. CASE UNCHANGED <<store, listening>>
  BY <1>1, <1>2 DEF ListenerSet
<1>3. CASE UNCHANGED vars
  BY <1>2, <1>3 DEF vars, storeVars
<1>4. ASSUME NEW c \in Chains, Mine(c) PROVE ListenerSet
  BY <1>2, <1>4 DEF Mine, storeVars
<1>5. ASSUME NEW t \in TxIds, ControllerStep(t) PROVE ListenerSet
  BY <1>5, RequestListens, AnswerListens, PipelineListens DEF ControllerStep
<1> QED BY <1>3, <1>4, <1>5, TrackerListens, ResubmitListens, HostListens DEF Next

LEMMA NextPolled ==
  ASSUME TypeOK, TypeOK', OneNetwork, [Next]_vars, PolledWhilePending
  PROVE  PolledWhilePending'
<1>1. cur' = cur
  <2>1. CASE MaxSwitches = 0
    BY <2>1, SameNetwork
  <2>2. CASE \A c, d \in Chains : c = d
    BY <2>2 DEF TypeOK
  <2> QED BY <2>1, <2>2 DEF OneNetwork
<1> SUFFICES ASSUME NEW t \in TxIds, store'[t].status \in Polled, store'[t].chain = cur
             PROVE  listening'
  BY <1>1 DEF PolledWhilePending, WithStatus, Visible, Listed, Polled
<1>2. PollingNeeded(store', cur)
  BY DEF PollingNeeded, Polled
<1>3. CASE listening' = listening /\ NoMorePolled(store, store')
  <2>1. store[t].status \in Polled /\ store[t].chain = cur
    BY <1>3 DEF NoMorePolled
  <2>2. t \in WithStatus("submitted") \cup WithStatus("approved")
    BY <2>1 DEF WithStatus, Visible, Listed, ListedStatus, Polled
  <2> QED BY <1>3, <2>2 DEF PolledWhilePending
<1> QED BY <1>1, <1>2, <1>3, NextListens DEF ListenerSet

(* As long as the program stays on one network, through every failure and   *)
(* restart, the block listener is attached while a transaction of it is     *)
(* submitted or approved (_setupBlockTrackerListener).                      *)
THEOREM PolledOnOneNetwork ==
  ASSUME OneNetwork
  PROVE  Spec => []PolledWhilePending
<1>1. Init => TypeOK /\ PolledWhilePending
  BY InitTyped DEF Init, PolledWhilePending, WithStatus, Visible, Listed, Blank, ListedStatus
<1>2. TypeOK /\ PolledWhilePending /\ [Next]_vars => (TypeOK /\ PolledWhilePending)'
  BY NextTyped, NextPolled
<1> QED BY <1>1, <1>2, PTL DEF Spec
=============================================================================
