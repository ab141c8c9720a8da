------------------------- MODULE TransactionsProofs -------------------------
(***************************************************************************)
(* Type correctness of the transaction subsystem, with lemmas on what the  *)
(* updates of the store return.  TypeOK is inductive on its own.           *)
(***************************************************************************)
EXTENDS Transactions, TLAPS

-----------------------------------------------------------------------------
(* What the updates of the store return. *)

LEMMA ConstantsTyped ==
  /\ None \notin TxIds /\ None \notin Nonces /\ None \notin Chains
  /\ TxIds \subseteq Nat /\ Nonces \subseteq Nat
BY NumTxsAssumption, MaxNonceAssumption, NoneAssumption DEF TxIds, Nonces

LEMMA StatusSetTyped ==
  ASSUME NEW s \in [TxIds -> TxMeta], NEW S, NEW st \in Status
  PROVE  WithStatusSet(s, S, st) \in [TxIds -> TxMeta]
BY DEF WithStatusSet, TxMeta

LEMMA MetaFieldTyped ==
  ASSUME NEW m \in TxMeta
  PROVE  /\ \A st \in Status : [m EXCEPT !.status = st] \in TxMeta
         /\ [m EXCEPT !.ready = TRUE] \in TxMeta
         /\ \A n \in Nonces \cup {None} :
              /\ [m EXCEPT !.nonce = n] \in TxMeta
              /\ [m EXCEPT !.raw = n] \in TxMeta
              /\ [m EXCEPT !.hash = n] \in TxMeta
         /\ m.nonce \in Nonces \cup {None}
         /\ m.raw \in Nonces \cup {None}
BY DEF TxMeta

LEMMA FieldTyped ==
  ASSUME NEW s \in [TxIds -> TxMeta], NEW t \in TxIds
  PROVE  /\ \A st \in Status : [s EXCEPT ![t].status = st] \in [TxIds -> TxMeta]
         /\ [s EXCEPT ![t].ready = TRUE] \in [TxIds -> TxMeta]
         /\ \A n \in Nonces \cup {None} :
              /\ [s EXCEPT ![t].nonce = n] \in [TxIds -> TxMeta]
              /\ [s EXCEPT ![t].raw = n] \in [TxIds -> TxMeta]
              /\ [s EXCEPT ![t].hash = n] \in [TxIds -> TxMeta]
<1>1. s[t] \in TxMeta
  OBVIOUS
<1> QED BY <1>1, MetaFieldTyped

LEMMA SetTxStatusTyped ==
  ASSUME TypeOK, NEW s \in [TxIds -> TxMeta], NEW S, NEW st \in Status, NEW c,
         SetTxStatus(s, S, st, c)
  PROVE  /\ store' \in [TxIds -> TxMeta]
         /\ listening' \in BOOLEAN
         /\ req' \in [TxIds -> Requests]
<1>1. store' \in [TxIds -> TxMeta]
  BY StatusSetTyped DEF SetTxStatus
<1>2. listening' \in BOOLEAN
  BY DEF SetTxStatus, PollingNeeded, TypeOK
<1>3. req' \in [TxIds -> Requests]
  BY DEF SetTxStatus, Settle, Requests, FinishedStates, TypeOK
<1> QED BY <1>1, <1>2, <1>3

LEMMA AddedTyped ==
  ASSUME TypeOK, NEW t \in TxIds, NEW m \in TxMeta
  PROVE  WithTxAdded(t, m) \in [TxIds -> TxMeta]
BY StatusSetTyped DEF WithTxAdded, Status, TypeOK

LEMMA FailApprovalTyped ==
  ASSUME TypeOK, NEW t \in TxIds, NEW s \in [TxIds -> TxMeta], FailApproval(t, s)
  PROVE  /\ store' \in [TxIds -> TxMeta]
         /\ listening' \in BOOLEAN
         /\ req' \in [TxIds -> Requests]
         /\ pc' \in [TxIds -> InPipeline \cup {"idle"}]
         /\ lock' \in TxIds \cup {None}
         /\ tries' \in [TxIds -> 0..NonceTries]
<1>1. store' \in [TxIds -> TxMeta] /\ listening' \in BOOLEAN /\ req' \in [TxIds -> Requests]
  <2>1. CASE Visible(t)
    <3>1. "failed" \in Status
      BY DEF Status, ListedStatus
    <3> QED BY <2>1, <3>1, SetTxStatusTyped DEF FailApproval, MarkFailed
  <2>2. CASE ~Visible(t)
    BY <2>2 DEF FailApproval, MarkFailed, TypeOK
  <2> QED BY <2>1, <2>2
<1>2. tries' \in [TxIds -> 0..NonceTries]
  BY NonceTriesAssumption DEF FailApproval, TypeOK
<1> QED BY <1>1, <1>2 DEF FailApproval, ReleaseLock, TypeOK

LEMMA StartApprovalTyped ==
  ASSUME TypeOK, NEW t \in TxIds, NEW s \in [TxIds -> TxMeta], StartApproval(t, s)
  PROVE  /\ store' \in [TxIds -> TxMeta]
         /\ listening' \in BOOLEAN
         /\ req' \in [TxIds -> Requests]
         /\ pc' \in [TxIds -> InPipeline \cup {"idle"}]
<1>1. CASE ~InProcessOfSigning(t) /\ s[t].status \in ListedStatus /\ s[t].chain = cur
  <2>1. "approved" \in Status
    BY DEF Status, ListedStatus
  <2>2. SetTxStatus(s, {t}, "approved", cur) /\ pc' = [pc EXCEPT ![t] = "gate"]
    BY <1>1 DEF StartApproval
  <2> QED BY <2>1, <2>2, SetTxStatusTyped DEF InPipeline, TypeOK
<1>2. CASE ~(~InProcessOfSigning(t) /\ s[t].status \in ListedStatus /\ s[t].chain = cur)
  BY <1>2 DEF StartApproval, TypeOK
<1> QED BY <1>1, <1>2

-----------------------------------------------------------------------------
(* Type correctness, action by action. *)

LEMMA ControllerTyped ==
  ASSUME TypeOK, NEW t \in TxIds, ControllerStep(t)
  PROVE  TypeOK'
<1> USE DEF storeVars, pipeVars, uiVars, chainVars, trackVars, hostVars, envVars
<1>0. UNCHANGED <<trackVars, hostVars>>
  BY DEF ControllerStep
<1>ty. store \in [TxIds -> TxMeta] /\ cur \in Chains
  BY DEF TypeOK
<1>st. /\ {"unborn", "generated", "unapproved", "approved", "signed", "submitted",
           "confirmed", "failed", "dropped", "removed"} \subseteq Status
       /\ {"checking", "gas", "waiting", "submitted", "rejected", "error"} \subseteq Requests
  BY DEF Status, ListedStatus, Requests
<1>1. ASSUME GenerateTx(t) PROVE TypeOK'
  <2>1. GeneratedTx \in TxMeta
    BY <1>st, <1>ty DEF GeneratedTx, Blank, TxMeta
  <2>2. store' \in [TxIds -> TxMeta]
    BY <1>1, <1>ty, <2>1 DEF GenerateTx
  <2> QED BY <1>0, <1>1, <1>st, <2>2 DEF GenerateTx, TypeOK
<1>2. ASSUME AddUnapprovedTransaction(t) PROVE TypeOK'
  <2>1. [store[t] EXCEPT !.status = "unapproved"] \in TxMeta
    BY <1>st, <1>ty, MetaFieldTyped
  <2>2. store' \in [TxIds -> TxMeta]
    BY <1>2, <2>1, AddedTyped DEF AddUnapprovedTransaction
  <2> QED BY <1>0, <1>2, <1>st, <2>2 DEF AddUnapprovedTransaction, TypeOK
<1>3. ASSUME RefuseTransaction(t) PROVE TypeOK'
  <2>1. store' \in [TxIds -> TxMeta]
    BY <1>3, <1>st, <1>ty, FieldTyped DEF RefuseTransaction
  <2> QED BY <1>0, <1>3, <1>st, <2>1 DEF RefuseTransaction, TypeOK
<1>4. ASSUME NEW ok \in BOOLEAN, AddTxGasDefaults(t, ok) PROVE TypeOK'
  <2>1. store' \in [TxIds -> TxMeta]
    BY <1>4, <1>ty, FieldTyped DEF AddTxGasDefaults
  <2>2. req' \in [TxIds -> Requests]
    BY <1>4, <1>st DEF AddTxGasDefaults, TypeOK
  <2> QED BY <1>0, <1>4, <2>1, <2>2 DEF AddTxGasDefaults, TypeOK
<1>5. ASSUME NEW answer \in Answers, Click(t, answer) PROVE TypeOK'
  BY <1>0, <1>5 DEF Click, TypeOK
<1>6. ASSUME NEW custom \in CustomNonces \cup {None}, UpdateAndApproveTransaction(t, custom)
      PROVE TypeOK'
  <2>1. UiCopy(t, custom) \in TxMeta
    BY <1>st, <1>ty, CustomNoncesAssumption DEF UiCopy, TxMeta
  <2>2. PICK s \in [TxIds -> TxMeta] : StartApproval(t, s)
    BY <1>6, <1>ty, <2>1 DEF UpdateAndApproveTransaction
  <2>3. inbox' \in [TxIds -> SUBSET Answers]
    BY <1>6 DEF UpdateAndApproveTransaction, TypeOK
  <2>4. /\ store' \in [TxIds -> TxMeta] /\ listening' \in BOOLEAN
        /\ req' \in [TxIds -> Requests] /\ pc' \in [TxIds -> InPipeline \cup {"idle"}]
    BY <2>2, StartApprovalTyped
  <2>5. UNCHANGED <<lock, tries, asked, sig, sent, cur, loading, regas, glob, chainVars>>
    BY <1>6 DEF UpdateAndApproveTransaction
  <2> QED BY <1>0, <2>3, <2>4, <2>5 DEF TypeOK
<1>7. ASSUME CancelTransaction(t) PROVE TypeOK'
  <2>1. store' \in [TxIds -> TxMeta]
    BY <1>7, <1>st, <1>ty, FieldTyped DEF CancelTransaction, SetTxStatusRejected
  <2>2. listening' \in BOOLEAN /\ req' \in [TxIds -> Requests]
    BY <1>7, <1>st DEF CancelTransaction, SetTxStatusRejected, Settle, PollingNeeded, TypeOK
  <2>3. inbox' \in [TxIds -> SUBSET Answers]
    BY <1>7 DEF CancelTransaction, TypeOK
  <2>4. UNCHANGED <<sent, cur, loading, regas, glob, pipeVars, chainVars>>
    BY <1>7 DEF CancelTransaction
  <2> QED BY <1>0, <2>1, <2>2, <2>3, <2>4 DEF TypeOK
<1>8. ASSUME NEW orig \in TxIds, CreateReplacement(orig, t) PROVE TypeOK'
  <2> DEFINE m == [GeneratedTx EXCEPT !.nonce = store[orig].nonce, !.fixed = TRUE,
                                      !.ready = TRUE]
  <2>0. store[orig].nonce \in Nonces \cup {None}
    BY <1>ty, MetaFieldTyped
  <2>1. m \in TxMeta
    BY <1>st, <1>ty, <2>0 DEF GeneratedTx, Blank, TxMeta
  <2>2. WithTxAdded(t, m) \in [TxIds -> TxMeta]
    BY <2>1, AddedTyped
  <2>3. SetTxStatus(WithTxAdded(t, m), {t}, "approved", cur)
    BY <1>8 DEF CreateReplacement
  <2> HIDE DEF m
  <2>4. /\ store' \in [TxIds -> TxMeta] /\ listening' \in BOOLEAN
        /\ req' \in [TxIds -> Requests]
    BY <1>st, <2>2, <2>3, SetTxStatusTyped
  <2>5. /\ pc' = [pc EXCEPT ![t] = "gate"]
        /\ UNCHANGED <<lock, tries, asked, sig, uiVars, cur, loading, regas, glob, chainVars>>
    BY <1>8 DEF CreateReplacement
  <2> QED BY <1>0, <2>4, <2>5 DEF TypeOK, InPipeline
<1>9. ASSUME PassGlobalMutex(t) PROVE TypeOK'
  BY <1>0, <1>9 DEF PassGlobalMutex, InPipeline, TypeOK
<1>10. ASSUME TakeNonceLock(t) PROVE TypeOK'
  BY <1>0, <1>10 DEF TakeNonceLock, InPipeline, TypeOK
<1>f. ASSUME NEW s \in [TxIds -> TxMeta], FailApproval(t, s),
             UNCHANGED <<asked, sig, envVars, chainVars>>
      PROVE TypeOK'
  BY <1>0, <1>f, FailApprovalTyped DEF TypeOK
<1>11. ASSUME NonceFails(t) PROVE TypeOK'
  <2>1. CASE tries[t] + 1 < NonceTries
    <3>1. tries' \in [TxIds -> 0..NonceTries]
      <4>1. tries \in [TxIds -> 0..NonceTries]
        BY DEF TypeOK
      <4>2. tries' = [tries EXCEPT ![t] = tries[t] + 1]
        BY <1>11, <2>1 DEF NonceFails
      <4>3. tries[t] + 1 \in 0..NonceTries
        BY <2>1, <4>1, NonceTriesAssumption
      <4> QED BY <4>1, <4>2, <4>3
    <3> QED BY <1>0, <1>11, <2>1, <3>1 DEF NonceFails, ReleaseLock, InPipeline, TypeOK
  <2>2. CASE ~(tries[t] + 1 < NonceTries)
    BY <1>f, <1>ty, <1>11, <2>2 DEF NonceFails
  <2> QED BY <2>1, <2>2
<1>12. ASSUME NEW n \in 0..MaxNonce, NonceArrives(t, n) PROVE TypeOK'
  <2>1. PICK next \in Nonces :
          LET own   == IF store[t].fixed THEN store[t].nonce ELSE next
              nonce == IF store[t].custom # None THEN store[t].custom ELSE own
              s     == IF Listed(t) THEN [store EXCEPT ![t].nonce = nonce] ELSE store
          IN IF Visible(t)
             THEN /\ store' = s
                  /\ pc' = [pc EXCEPT ![t] = "sign"]
                  /\ sig' = [sig EXCEPT ![t] = IF loading THEN None ELSE cur]
                  /\ UNCHANGED <<listening, req, lock, tries>>
             ELSE FailApproval(t, s) /\ UNCHANGED sig
    BY <1>12 DEF NonceArrives
  <2> DEFINE own   == IF store[t].fixed THEN store[t].nonce ELSE next
             nonce == IF store[t].custom # None THEN store[t].custom ELSE own
             s     == IF Listed(t) THEN [store EXCEPT ![t].nonce = nonce] ELSE store
  <2>2. nonce \in Nonces \cup {None}
    BY <1>ty DEF TxMeta
  <2>3. s \in [TxIds -> TxMeta]
    <3> HIDE DEF nonce
    <3> QED BY <1>ty, <2>2, FieldTyped
  <2>4. UNCHANGED <<asked, envVars, chainVars>>
    BY <1>12 DEF NonceArrives
  <2>5. IF Visible(t)
        THEN /\ store' = s
             /\ pc' = [pc EXCEPT ![t] = "sign"]
             /\ sig' = [sig EXCEPT ![t] = IF loading THEN None ELSE cur]
             /\ UNCHANGED <<listening, req, lock, tries>>
        ELSE FailApproval(t, s) /\ UNCHANGED sig
    BY <2>1
  <2> HIDE DEF s
  <2>6. CASE Visible(t)
    <3>1. store' \in [TxIds -> TxMeta] /\ UNCHANGED <<listening, req, lock, tries>>
      BY <2>3, <2>5, <2>6
    <3>2. pc' \in [TxIds -> InPipeline \cup {"idle"}]
      BY <2>5, <2>6 DEF InPipeline, TypeOK
    <3>3. sig' \in [TxIds -> Chains \cup {None}]
      <4>1. sig \in [TxIds -> Chains \cup {None}] /\ cur \in Chains
        BY DEF TypeOK
      <4>2. sig' = [sig EXCEPT ![t] = IF loading THEN None ELSE cur]
        BY <2>5, <2>6
      <4> QED BY <4>1, <4>2
    <3> QED BY <1>0, <2>4, <3>1, <3>2, <3>3 DEF TypeOK
  <2>7. CASE ~Visible(t)
    BY <1>f, <2>3, <2>4, <2>5, <2>7
  <2> QED BY <2>6, <2>7
<1>13. ASSUME SignFails(t) PROVE TypeOK'
  BY <1>f, <1>ty, <1>13 DEF SignFails
<1>b. ASSUME NEW n \in Nonces \cup {None}, Broadcast(t, n)
      PROVE pool' \in SUBSET (Chains \X TxIds \X (Nonces \cup {None}))
  BY <1>b DEF Broadcast, TypeOK
<1>14. ASSUME SignTransaction(t) PROVE TypeOK'
  <2>1. CASE Visible(t)
    <3> DEFINE s == [store EXCEPT ![t].raw = store[t].nonce]
    <3>1. s \in [TxIds -> TxMeta]
      BY <1>ty, MetaFieldTyped, FieldTyped
    <3>2. SetTxStatus(s, {t}, "signed", cur)
      BY <1>14, <2>1 DEF SignTransaction
    <3>3. pc' \in [TxIds -> InPipeline \cup {"idle"}]
      BY <1>14, <2>1 DEF SignTransaction, InPipeline, TypeOK
    <3>4. pool' \in SUBSET (Chains \X TxIds \X (Nonces \cup {None}))
      <4>1. Broadcast(t, store[t].nonce) \/ pool' = pool
        BY <1>14, <2>1 DEF SignTransaction
      <4>2. store[t].nonce \in Nonces \cup {None}
        BY <1>ty, MetaFieldTyped
      <4> QED BY <1>b, <4>1, <4>2 DEF TypeOK
    <3>5. UNCHANGED <<lock, tries, asked, sig, envVars, mined>>
      BY <1>14, <2>1 DEF SignTransaction
    <3> HIDE DEF s
    <3>6. /\ store' \in [TxIds -> TxMeta] /\ listening' \in BOOLEAN
          /\ req' \in [TxIds -> Requests]
      BY <1>st, <3>1, <3>2, SetTxStatusTyped
    <3> QED BY <1>0, <3>3, <3>4, <3>5, <3>6 DEF TypeOK
  <2>2. CASE ~Visible(t)
    BY <1>f, <1>ty, <1>14, <2>2 DEF SignTransaction
  <2> QED BY <2>1, <2>2
<1>15. ASSUME SwapBalance(t) PROVE TypeOK'
  <2>1. pool' \in SUBSET (Chains \X TxIds \X (Nonces \cup {None}))
    BY <1>15, <1>b, <1>ty, MetaFieldTyped DEF SwapBalance
  <2> QED BY <1>0, <1>15, <2>1 DEF SwapBalance, InPipeline, TypeOK
<1>16. ASSUME SwapBalanceFails(t) PROVE TypeOK'
  BY <1>f, <1>ty, <1>16 DEF SwapBalanceFails
<1>17. ASSUME PublishTransaction(t) PROVE TypeOK'
  <2>1. CASE Visible(t)
    <3> DEFINE s == [store EXCEPT ![t].hash = store[t].raw]
    <3>1. s \in [TxIds -> TxMeta]
      BY <1>ty, MetaFieldTyped, FieldTyped
    <3>2. SetTxStatus(s, {t}, "submitted", cur)
      BY <1>17, <2>1 DEF PublishTransaction
    <3>3. tries' \in [TxIds -> 0..NonceTries]
      <4>1. tries' = [tries EXCEPT ![t] = 0]
        BY <1>17, <2>1 DEF PublishTransaction
      <4> QED BY <4>1, NonceTriesAssumption DEF TypeOK
    <3> HIDE DEF s
    <3>4. /\ store' \in [TxIds -> TxMeta] /\ listening' \in BOOLEAN
          /\ req' \in [TxIds -> Requests]
      BY <1>st, <3>1, <3>2, SetTxStatusTyped
    <3>5. /\ lock' = None /\ pc' = [pc EXCEPT ![t] = "idle"]
          /\ UNCHANGED <<asked, sig, envVars, chainVars>>
      BY <1>17, <2>1 DEF PublishTransaction, ReleaseLock
    <3> QED BY <1>0, <3>3, <3>4, <3>5 DEF TypeOK
  <2>2. CASE ~Visible(t)
    BY <1>f, <1>ty, <1>17, <2>2 DEF PublishTransaction
  <2> QED BY <2>1, <2>2
<1>18. ASSUME PublishFails(t) PROVE TypeOK'
  BY <1>f, <1>ty, <1>18 DEF PublishFails
<1>19. ASSUME NEW ok \in BOOLEAN, BootGasDefaults(t, ok) PROVE TypeOK'
  <2> DEFINE s == IF Visible(t) THEN [store EXCEPT ![t].ready = TRUE] ELSE store
  <2>1. s \in [TxIds -> TxMeta]
    BY <1>ty, FieldTyped
  <2>2. (store' = s /\ UNCHANGED <<listening, req>>) \/ SetTxStatus(s, {t}, "failed", cur)
    BY <1>19 DEF BootGasDefaults
  <2>3. regas' = regas \ {t} /\ UNCHANGED <<pipeVars, uiVars, cur, loading, glob, chainVars>>
    BY <1>19 DEF BootGasDefaults
  <2> HIDE DEF s
  <2>4. /\ store' \in [TxIds -> TxMeta] /\ listening' \in BOOLEAN
        /\ req' \in [TxIds -> Requests]
    BY <1>st, <2>1, <2>2, SetTxStatusTyped DEF TypeOK
  <2> QED BY <1>0, <2>3, <2>4 DEF TypeOK
<1> QED
  BY <1>1, <1>2, <1>3, <1>4, <1>5, <1>6, <1>7, <1>8, <1>9, <1>10, <1>11, <1>12, <1>13,
     <1>14, <1>15, <1>16, <1>17, <1>18, <1>19 DEF ControllerStep

LEMMA TrackerTyped ==
  ASSUME TypeOK, TrackerStep
  PROVE  TypeOK'
<1> USE DEF storeVars, pipeVars, uiVars, chainVars, trackVars, hostVars, checkFrame, resubFrame
<1>0. UNCHANGED hostVars
  BY DEF TrackerStep
<1>st. {"confirmed", "failed", "dropped"} \subseteq Status /\ "failed" \in Requests
  BY DEF Status, ListedStatus, Requests
<1>ty. store \in [TxIds -> TxMeta] /\ cur \in Chains /\ checks \subseteq Check
  BY DEF TypeOK
<1>ck. \A c \in Check :
         /\ c.tx \in TxIds /\ [c EXCEPT !.awaited = FALSE] \in Check
         /\ [c EXCEPT !.stage = "count", !.on = cur] \in Check
  BY <1>ty DEF Check
<1>pl. ASSUME NEW s PROVE PendingList(s) \subseteq {0, 1} \X TxIds
  BY DEF PendingList
<1>er. ASSUME NEW s, EndRound(s) PROVE glob' \in BOOLEAN /\ todo' \subseteq {0, 1} \X TxIds
  BY <1>er, <1>pl DEF EndRound, TypeOK
<1>cd. ASSUME NEW c, NEW s, CheckDone(c, s)
       PROVE  /\ checks' \subseteq Check /\ glob' \in BOOLEAN
              /\ todo' \subseteq {0, 1} \X TxIds
  BY <1>cd, <1>ty, <1>er DEF CheckDone, TypeOK
<1>1. ASSUME UpdatePendingTxs PROVE TypeOK'
  <2>1. store' \in [TxIds -> TxMeta]
    BY <1>1, <1>st, <1>ty, StatusSetTyped DEF UpdatePendingTxs
  <2>2. listening' \in BOOLEAN /\ req' \in [TxIds -> Requests]
    BY <1>1, <1>st DEF UpdatePendingTxs, PollingNeeded, Settle, TypeOK
  <2>3. checks' \subseteq Check
    <3> DEFINE New(t) == [tx |-> t, stage |-> "receipt", on |-> cur, awaited |-> TRUE]
    <3>1. \A t \in TxIds : New(t) \in Check
      BY <1>ty DEF Check
    <3>2. PICK S \in SUBSET TxIds : checks' = checks \cup {New(t) : t \in S}
      BY <1>1 DEF UpdatePendingTxs, WithStatus
    <3> QED BY <1>ty, <3>1, <3>2
  <2>4. EndRound(store') \/ (glob' = TRUE /\ UNCHANGED todo)
    BY <1>1 DEF UpdatePendingTxs
  <2>5. UNCHANGED <<buf, resub, old, regas, cur, loading, pipeVars, uiVars, chainVars>>
    BY <1>1 DEF UpdatePendingTxs
  <2>6. glob' \in BOOLEAN /\ todo' \subseteq {0, 1} \X TxIds
    BY <1>er, <2>4 DEF TypeOK
  <2> QED BY <1>0, <2>1, <2>2, <2>3, <2>5, <2>6 DEF TypeOK
<1>2. ASSUME NEW c \in checks, ConfirmTransaction(c) PROVE TypeOK'
  <2> DEFINE s == WithStatusSet(store, NonceDuplicates(c.tx), "dropped")
  <2>1. s \in [TxIds -> TxMeta]
    BY <1>st, <1>ty, StatusSetTyped
  <2>2. SetTxStatus(s, {c.tx}, "confirmed", cur) \/ UNCHANGED storeVars
    BY <1>2 DEF ConfirmTransaction
  <2>3. CheckDone(c, store') /\ UNCHANGED <<buf, checkFrame>>
    BY <1>2 DEF ConfirmTransaction
  <2> HIDE DEF s
  <2>4. /\ store' \in [TxIds -> TxMeta] /\ listening' \in BOOLEAN
        /\ req' \in [TxIds -> Requests]
    BY <1>st, <2>1, <2>2, SetTxStatusTyped DEF TypeOK
  <2> QED BY <1>0, <1>cd, <2>3, <2>4 DEF TypeOK
<1>3. ASSUME NEW c \in checks, ReceiptMissing(c) PROVE TypeOK'
  <2>1. checks' \subseteq Check
    BY <1>3, <1>ck, <1>ty DEF ReceiptMissing
  <2> QED BY <1>0, <1>3, <2>1 DEF ReceiptMissing, TypeOK
<1>4. ASSUME NEW c \in checks, ReceiptFails(c) PROVE TypeOK'
  BY <1>0, <1>4, <1>cd DEF ReceiptFails, TypeOK
<1>5. ASSUME NEW c \in checks, NEW n \in 0..MaxNonce, NonceCount(c, n) PROVE TypeOK'
  <2>0. c.tx \in TxIds
    BY <1>ck, <1>ty
  <2>1. SetTxStatus(store, {c.tx}, "dropped", cur) \/ UNCHANGED storeVars
    BY <1>5 DEF NonceCount
  <2>2. buf' \in [TxIds -> 0..DropBuffer]
    <3>1. buf[c.tx] \in 0..DropBuffer /\ BufferAfter(buf[c.tx]) \in 0..DropBuffer
      BY <2>0, DropBufferAssumption DEF BufferAfter, TypeOK
    <3> QED BY <1>5, <3>1 DEF NonceCount, TypeOK
  <2>3. CheckDone(c, store') /\ UNCHANGED checkFrame
    BY <1>5 DEF NonceCount
  <2>4. /\ store' \in [TxIds -> TxMeta] /\ listening' \in BOOLEAN
        /\ req' \in [TxIds -> Requests]
    BY <1>st, <1>ty, <2>1, SetTxStatusTyped DEF TypeOK
  <2> QED BY <1>0, <1>cd, <2>2, <2>3, <2>4 DEF TypeOK
<1>6. ASSUME NEW c \in checks, NonceCountFails(c) PROVE TypeOK'
  <2>1. glob' \in BOOLEAN /\ todo' \subseteq {0, 1} \X TxIds
    BY <1>6, <1>er DEF NonceCountFails, TypeOK
  <2>2. checks' \subseteq Check
    <3>1. \/ checks' = {[d EXCEPT !.awaited = FALSE] : d \in checks \ {c}}
          \/ checks' = checks \ {c}
      BY <1>6 DEF NonceCountFails
    <3>2. \A e \in checks' : \E d \in checks : e = d \/ e = [d EXCEPT !.awaited = FALSE]
      BY <3>1
    <3> QED BY <3>2, <1>ck, <1>ty
  <2>3. UNCHANGED <<storeVars, buf, checkFrame>>
    BY <1>6 DEF NonceCountFails
  <2> QED BY <1>0, <2>1, <2>2, <2>3 DEF TypeOK
<1>7. ASSUME NEW stop \in BOOLEAN, ResubmitReturns(stop) PROVE TypeOK'
  BY <1>0, <1>7 DEF ResubmitReturns, TypeOK
<1>8. ASSUME NEW t \in TxIds, GetOld(t) PROVE TypeOK'
  BY <1>0, <1>8 DEF GetOld, TypeOK
<1> QED
  BY <1>1, <1>2, <1>3, <1>4, <1>5, <1>6, <1>7, <1>8 DEF TrackerStep

LEMMA ResubmitTyped ==
  ASSUME TypeOK, ResubmitStep
  PROVE  TypeOK'
<1> USE DEF storeVars, pipeVars, uiVars, chainVars, hostVars, resubFrame, NextTodo
<1>0. UNCHANGED hostVars
  BY DEF ResubmitStep
<1>ty. store \in [TxIds -> TxMeta] /\ \A x \in todo : x[2] \in TxIds /\ x = <<x[1], x[2]>>
  BY DEF TypeOK
<1>1. ASSUME NEW x \in todo, ResubmitLater(x) PROVE TypeOK'
  BY <1>0, <1>1 DEF ResubmitLater, TypeOK
<1>2. ASSUME NEW x \in todo, ResubmitApprove(x) PROVE TypeOK'
  <2>1. StartApproval(x[2], store)
    BY <1>2 DEF ResubmitApprove
  <2>2. /\ store' \in [TxIds -> TxMeta] /\ listening' \in BOOLEAN
        /\ req' \in [TxIds -> Requests] /\ pc' \in [TxIds -> InPipeline \cup {"idle"}]
    BY <1>ty, <2>1, StartApprovalTyped
  <2>3. resub' \in ({"publish", "approve"} \X TxIds) \cup {None} /\ todo' \subseteq todo
    BY <1>2, <1>ty DEF ResubmitApprove
  <2>4. UNCHANGED <<lock, tries, asked, sig, resubFrame, chainVars>>
    BY <1>2 DEF ResubmitApprove
  <2> QED BY <1>0, <2>2, <2>3, <2>4 DEF TypeOK
<1>3. ASSUME NEW x \in todo, ResubmitPublish(x) PROVE TypeOK'
  <2>1. store[x[2]].raw \in Nonces \cup {None}
    BY <1>ty, MetaFieldTyped
  <2>2. pool' \in SUBSET (Chains \X TxIds \X (Nonces \cup {None}))
    BY <1>3, <1>ty, <2>1 DEF ResubmitPublish, Broadcast, TypeOK
  <2>3. resub' \in ({"publish", "approve"} \X TxIds) \cup {None} /\ todo' \subseteq todo
    BY <1>3, <1>ty DEF ResubmitPublish
  <2> QED BY <1>0, <1>3, <2>2, <2>3 DEF ResubmitPublish, TypeOK
<1> QED BY <1>1, <1>2, <1>3 DEF ResubmitStep

LEMMA BootTyped ==
  ASSUME TypeOK, NEW s \in [TxIds -> TxMeta], NEW c, OnBootCleanUp(s, c)
  PROVE  /\ store' \in [TxIds -> TxMeta] /\ listening' \in BOOLEAN
         /\ req' \in [TxIds -> Requests] /\ regas' \subseteq TxIds
<1>1. "failed" \in Status
  BY DEF Status, ListedStatus
<1>2. SetTxStatus(s, StuckApproved(s, c), "failed", c)
  BY DEF OnBootCleanUp
<1>3. regas' \subseteq TxIds
  BY DEF OnBootCleanUp, NeedGas, TypeOK
<1> QED BY <1>1, <1>2, <1>3, SetTxStatusTyped

LEMMA FromDiskTyped == ASSUME TypeOK PROVE FromDisk \in [TxIds -> TxMeta]
<1>1. "removed" \in Status /\ disk \in [TxIds -> TxMeta]
  BY DEF Status, TypeOK
<1>2. \A t \in TxIds : disk[t] \in TxMeta /\ [disk[t] EXCEPT !.status = "removed"] \in TxMeta
  BY <1>1, MetaFieldTyped
<1> QED BY <1>2 DEF FromDisk

LEMMA HostTyped ==
  ASSUME TypeOK, HostStep
  PROVE  TypeOK'
<1> USE DEF storeVars, pipeVars, uiVars, chainVars, trackVars, hostVars
<1>st. "removed" \in Status /\ "failed" \in Status
  BY DEF Status, ListedStatus
<1>ty. store \in [TxIds -> TxMeta] /\ cur \in Chains
  BY DEF TypeOK
<1>sw. ASSUME NEW c \in Chains, NEW s \in [TxIds -> TxMeta], SwitchTo(c, s) PROVE TypeOK'
  <2>1. WithoutUnapproved(s) \in [TxIds -> TxMeta]
    BY <1>st, StatusSetTyped DEF WithoutUnapproved
  <2>2. OnBootCleanUp(WithoutUnapproved(s), c)
    BY <1>sw DEF SwitchTo
  <2>3. /\ store' \in [TxIds -> TxMeta] /\ listening' \in BOOLEAN
        /\ req' \in [TxIds -> Requests] /\ regas' \subseteq TxIds
    BY <2>1, <2>2, BootTyped
  <2>4. switches' \in 0..MaxSwitches
    BY <1>sw, MaxSwitchesAssumption DEF SwitchTo, TypeOK
  <2>5. /\ cur' = c /\ loading' = TRUE
        /\ UNCHANGED <<pipeVars, uiVars, glob, chainVars, trackVars, disk, writes, crashes>>
    BY <1>sw DEF SwitchTo
  <2> QED BY <2>3, <2>4, <2>5 DEF TypeOK
<1>1. ASSUME NEW c \in Chains, SetProviderConfig(c) PROVE TypeOK'
  BY <1>1, <1>sw, <1>ty DEF SetProviderConfig
<1>2. ASSUME ResetAccount PROVE TypeOK'
  <2>1. WithoutCurrentChain \in [TxIds -> TxMeta]
    BY <1>st, <1>ty, StatusSetTyped DEF WithoutCurrentChain
  <2> QED BY <1>2, <1>sw, <1>ty, <2>1 DEF ResetAccount
<1>3. ASSUME NEW ok \in BOOLEAN, LookupNetwork(ok) PROVE TypeOK'
  <2>1. /\ store' \in [TxIds -> TxMeta] /\ listening' \in BOOLEAN
        /\ req' \in [TxIds -> Requests] /\ regas' \subseteq TxIds
    BY <1>3, <1>ty, BootTyped DEF LookupNetwork
  <2> QED BY <1>3, <2>1 DEF LookupNetwork, TypeOK
<1>4. ASSUME PersistData PROVE TypeOK'
  <2>1. writes' \in 0..MaxCrashes
    BY <1>4, MaxCrashesAssumption DEF PersistData, TypeOK
  <2> QED BY <1>4, <2>1 DEF PersistData, TypeOK
<1>5. ASSUME Restart PROVE TypeOK'
  <2> DEFINE s == WithStatusSet(FromDisk, StuckApproved(FromDisk, cur), "failed")
  <2>1. s \in [TxIds -> TxMeta]
    BY <1>st, FromDiskTyped, StatusSetTyped
  <2>2. /\ store' = s /\ listening' = PollingNeeded(s, cur) /\ regas' = NeedGas(s, cur)
    BY <1>5 DEF Restart
  <2> HIDE DEF s
  <2>3. listening' \in BOOLEAN /\ regas' \subseteq TxIds
    BY <2>2 DEF PollingNeeded, NeedGas
  <2>4. req' \in [TxIds -> Requests]
    BY <1>5 DEF Restart, Requests, TypeOK
  <2>5. crashes' \in 0..MaxCrashes
    BY <1>5, MaxCrashesAssumption DEF Restart, TypeOK
  <2>6. /\ tries' \in [TxIds -> 0..NonceTries] /\ buf' \in [TxIds -> 0..DropBuffer]
        /\ checks' \subseteq Check
    BY <1>5, NonceTriesAssumption, DropBufferAssumption DEF Restart
  <2>7. /\ pc' \in [TxIds -> InPipeline \cup {"idle"}] /\ lock' = None
        /\ loading' = TRUE /\ glob' = FALSE /\ todo' = {} /\ resub' = None
        /\ sent' \in [TxIds -> SUBSET Answers] /\ inbox' \in [TxIds -> SUBSET Answers]
    BY <1>5 DEF Restart
  <2>8. UNCHANGED <<cur, asked, sig, chainVars, old, disk, writes, switches>>
    BY <1>5 DEF Restart
  <2> QED BY <2>1, <2>2, <2>3, <2>4, <2>5, <2>6, <2>7, <2>8 DEF TypeOK
<1> QED BY <1>1, <1>2, <1>3, <1>4, <1>5 DEF HostStep

LEMMA MineTyped ==
  ASSUME TypeOK, NEW c \in Chains, Mine(c)
  PROVE  TypeOK'
<1>1. PICK x \in TxIds \cup {Other} : mined' = [mined EXCEPT ![c] = Append(@, x)]
  BY DEF Mine
<1>2. mined \in [Chains -> Seq(TxIds \cup {Other})]
  BY DEF TypeOK
<1>3. Append(mined[c], x) \in Seq(TxIds \cup {Other})
  BY <1>2
<1>4. mined' \in [Chains -> Seq(TxIds \cup {Other})]
  BY <1>1, <1>2, <1>3
<1> QED
  BY <1>4 DEF Mine, TypeOK, storeVars, pipeVars, uiVars, chainVars, trackVars, hostVars

LEMMA InitTyped == Init => TypeOK
<1> SUFFICES ASSUME Init PROVE TypeOK
  OBVIOUS
<1>1. Blank \in TxMeta
  BY DEF Blank, TxMeta, Status
<1>2. /\ 0 \in 0..NonceTries /\ 0 \in 0..DropBuffer /\ 0 \in 0..MaxCrashes
      /\ 0 \in 0..MaxSwitches
  BY NonceTriesAssumption, DropBufferAssumption, MaxCrashesAssumption, MaxSwitchesAssumption
<1>3. "none" \in Requests
  BY DEF Requests
<1>4. mined \in [Chains -> Seq(TxIds \cup {Other})]
  <2>1. <<>> \in Seq(TxIds \cup {Other})
    OBVIOUS
  <2> QED BY <2>1 DEF Init
<1>5. store \in [TxIds -> TxMeta] /\ disk \in [TxIds -> TxMeta]
  BY <1>1 DEF Init
<1> QED BY <1>2, <1>3, <1>4, <1>5 DEF Init, TypeOK

LEMMA NextTyped == TypeOK /\ [Next]_vars => TypeOK'
<1> SUFFICES ASSUME TypeOK, [Next]_vars PROVE TypeOK'
  OBVIOUS
<1>1. CASE UNCHANGED vars
  BY <1>1 DEF vars, TypeOK, storeVars, pipeVars, uiVars, chainVars, trackVars, hostVars
<1>2. CASE Next
  BY <1>2, ControllerTyped, TrackerTyped, ResubmitTyped, HostTyped, MineTyped DEF Next
<1> QED BY <1>1, <1>2

(* Every variable keeps its type: statuses, nonces below the bound, checks, *)
(* buffers that never pass DropBuffer.                                      *)
THEOREM TypeCorrect == Spec => []TypeOK
BY InitTyped, NextTyped, PTL DEF Spec
=============================================================================
