---------------------------- MODULE NonceProofs ----------------------------
(***************************************************************************)
(* The nonce protocol.  Most steps are of one of two kinds: they only end  *)
(* transactions (QuietStep), or take up one whose approval has not begun   *)
(* (StartStep); both preserve the invariant whatever else they do.  Three  *)
(* are looked at on their own: the nonce arrives, the transaction is       *)
(* published, and the page restarts.  The refinement of the nonce ledger   *)
(* follows from what the same lemmas say of the lock.                      *)
(***************************************************************************)
EXTENDS TransactionsProofs

IInv == TypeOK /\ NonceProtocol

(* Statuses that end or follow an approval without a claim to a nonce. *)
Later == {"signed", "confirmed", "failed", "dropped", "removed"}

(* From m to m2 a transaction keeps what it competes with, and changes its  *)
(* status to a later one only. *)
EndsAt(m, m2) ==
  /\ m2.chain = m.chain /\ m2.nonce = m.nonce
  /\ m2.custom = m.custom /\ m2.fixed = m.fixed
  /\ m2.status = m.status \/ (m.status # "generated" /\ m2.status \in Later)

OnlyEnds(s, s2) == \A t \in TxIds : EndsAt(s[t], s2[t])

(* A step in which no transaction gets a nonce, a claim or an approval. *)
QuietStep ==
  /\ OnlyEnds(store, store')
  /\ \A t \in TxIds : /\ pc'[t] # "idle" => pc[t] # "idle"
                      /\ pc'[t] \in HasNonce => pc[t] \in HasNonce
                      /\ "approve" \in inbox'[t] => "approve" \in inbox[t]
                      /\ req'[t] = "checking" => req[t] = "checking"
  /\ \A x \in todo' : x \in todo \/ store'[x[2]].status \in {"approved", "submitted"}
  /\ LockDiscipline'
  /\ disk' \in {disk, store}

(* A step that takes up t, which has no approval under way. *)
StartStep(t) ==
  /\ pc[t] = "idle" /\ pc'[t] \in {"idle", "gate"}
  /\ lock' = lock /\ disk' = disk /\ todo' \subseteq todo
  /\ \A u \in TxIds \ {t} :
       /\ EndsAt(store[u], store'[u])
       /\ pc'[u] = pc[u]
       /\ "approve" \in inbox'[u] => "approve" \in inbox[u]
       /\ req'[u] = "checking" => req[u] = "checking"
  /\ store'[t].status # "submitted"
  /\ BeforeApproval(t)' => pc'[t] = "idle" /\ \A x \in todo' : x[2] # t
  /\ "approve" \in inbox'[t] => store'[t].status \notin {"unborn", "approved", "submitted"}
  /\ req'[t] = "checking" => store'[t].status = "generated"

LEMMA EndsTransitive ==
  ASSUME NEW s, NEW s2, NEW s3, OnlyEnds(s, s2), OnlyEnds(s2, s3)
  PROVE  OnlyEnds(s, s3)
BY DEF OnlyEnds, EndsAt, Later

LEMMA EndsStatusSet ==
  ASSUME NEW s \in [TxIds -> TxMeta], NEW S, NEW st \in Later,
         \A t \in S \cap TxIds : s[t].status # "generated"
  PROVE  OnlyEnds(s, WithStatusSet(s, S, st))
BY DEF OnlyEnds, EndsAt, WithStatusSet, TxMeta

LEMMA EndsCompete ==
  ASSUME NEW s, NEW s2, NEW t \in TxIds, NEW u \in TxIds,
         EndsAt(s[t], s2[t]), EndsAt(s[u], s2[u])
  PROVE  /\ Compete(s2, t, u) => Compete(s, t, u)
         /\ s2[u].status = "submitted" => s[u].status = "submitted"
BY DEF EndsAt, AutoNonce, Compete, Later

LEMMA SetQuiet ==
  ASSUME TypeOK, NEW s \in [TxIds -> TxMeta], OnlyEnds(store, s),
         NEW S, \A t \in S \cap TxIds : s[t].status # "generated",
         NEW st \in Later, NEW c, SetTxStatus(s, S, st, c)
  PROVE  /\ OnlyEnds(store, store')
         /\ \A t \in TxIds : req'[t] = "checking" => req[t] = "checking"
<1>1. OnlyEnds(store, store')
  BY EndsStatusSet, EndsTransitive DEF SetTxStatus
<1>2. \A t \in TxIds : req'[t] = "checking" => req[t] = "checking"
  BY DEF SetTxStatus, Settle, FinishedStates
<1> QED BY <1>1, <1>2

LEMMA QuietPreserves == IInv /\ QuietStep => NonceProtocol'
<1> SUFFICES ASSUME IInv, QuietStep PROVE NonceProtocol'
  OBVIOUS
<1> USE DEF QuietStep
<1>1. LockDiscipline'
  OBVIOUS
<1>2. HolderApart'
  BY EndsCompete DEF OnlyEnds, IInv, NonceProtocol, HolderApart
<1>3. SubmittedApart(store)'
  BY EndsCompete DEF OnlyEnds, IInv, NonceProtocol, SubmittedApart
<1>4. SubmittedApart(disk)'
  <2>1. SubmittedApart(store) /\ SubmittedApart(disk)
    BY DEF IInv, NonceProtocol
  <2>2. CASE disk' = disk
    BY <2>1, <2>2 DEF SubmittedApart, Compete, AutoNonce
  <2>3. CASE disk' = store
    BY <2>1, <2>3 DEF SubmittedApart, Compete, AutoNonce
  <2> QED BY <2>2, <2>3
<1>5. UntouchedBeforeApproval'
  <2> SUFFICES ASSUME NEW t \in TxIds
               PROVE  /\ BeforeApproval(t)' => pc'[t] = "idle" /\ \A x \in todo' : x[2] # t
                      /\ "approve" \in inbox'[t] =>
                           store'[t].status \notin {"unborn", "approved", "submitted"}
                      /\ req'[t] = "checking" => store'[t].status = "generated"
    BY DEF UntouchedBeforeApproval
  <2>1. /\ BeforeApproval(t) => pc[t] = "idle" /\ \A x \in todo : x[2] # t
        /\ "approve" \in inbox[t] => store[t].status \notin {"unborn", "approved", "submitted"}
        /\ req[t] = "checking" => store[t].status = "generated"
    BY DEF IInv, NonceProtocol, UntouchedBeforeApproval
  <2>2. /\ store'[t].status = store[t].status
           \/ (store[t].status # "generated" /\ store'[t].status \in Later)
        /\ "approve" \in inbox'[t] => "approve" \in inbox[t]
        /\ req'[t] = "checking" => req[t] = "checking"
        /\ pc'[t] # "idle" => pc[t] # "idle"
    BY DEF OnlyEnds, EndsAt
  <2>3. BeforeApproval(t)' => BeforeApproval(t)
    BY <2>2 DEF BeforeApproval, Later
  <2>4. BeforeApproval(t)' => \A x \in todo' : x[2] # t
    BY <2>1, <2>2, <2>3 DEF BeforeApproval, Later
  <2> QED BY <2>1, <2>2, <2>3, <2>4 DEF Later
<1>6. InProcessNotSubmitted'
  BY DEF IInv, NonceProtocol, InProcessNotSubmitted, InProcessOfSigning, OnlyEnds, EndsAt, Later
<1> QED BY <1>1, <1>2, <1>3, <1>4, <1>5, <1>6 DEF NonceProtocol

LEMMA StartPreserves ==
  ASSUME IInv, NEW t \in TxIds, StartStep(t)
  PROVE  NonceProtocol'
<1>pc. pc[t] = "idle" /\ pc'[t] \in {"idle", "gate"} /\ store'[t].status # "submitted"
  BY DEF StartStep
<1>fr. lock' = lock /\ disk' = disk /\ todo' \subseteq todo
  BY DEF StartStep
<1>un. ASSUME NEW u \in TxIds, u # t
       PROVE  EndsAt(store[u], store'[u]) /\ pc'[u] = pc[u]
  BY <1>un DEF StartStep
<1>1. LockDiscipline'
  <2> SUFFICES ASSUME NEW u \in TxIds PROVE lock' = u <=> pc'[u] \in HoldsLock
    BY DEF LockDiscipline
  <2>1. lock = u <=> pc[u] \in HoldsLock
    BY DEF IInv, NonceProtocol, LockDiscipline
  <2>2. CASE u = t
    BY <2>1, <2>2, <1>pc, <1>fr DEF HoldsLock
  <2>3. CASE u # t
    BY <2>1, <2>3, <1>un, <1>fr
  <2> QED BY <2>2, <2>3
<1>2. HolderApart'
  <2> SUFFICES ASSUME NEW x \in TxIds, NEW u \in TxIds, pc'[x] \in HasNonce,
                      store'[u].status = "submitted"
               PROVE  ~Compete(store', x, u)
    BY DEF HolderApart
  <2>1. x # t /\ u # t
    BY <1>pc DEF HasNonce
  <2>2. pc[x] \in HasNonce
    BY <2>1, <1>un
  <2>3. EndsAt(store[x], store'[x]) /\ EndsAt(store[u], store'[u])
    BY <2>1, <1>un
  <2>4. store[u].status = "submitted" => ~Compete(store, x, u)
    BY <2>2 DEF IInv, NonceProtocol, HolderApart
  <2> QED BY <2>3, <2>4, EndsCompete
<1>3. SubmittedApart(store)'
  <2> SUFFICES ASSUME NEW x \in TxIds, NEW u \in TxIds,
                      store'[x].status = "submitted", store'[u].status = "submitted"
               PROVE  ~Compete(store', x, u)
    BY DEF SubmittedApart, Compete, AutoNonce
  <2>1. x # t /\ u # t
    BY <1>pc
  <2>3. EndsAt(store[x], store'[x]) /\ EndsAt(store[u], store'[u])
    BY <2>1, <1>un
  <2>4. store[x].status = "submitted" /\ store[u].status = "submitted" => ~Compete(store, x, u)
    BY DEF IInv, NonceProtocol, SubmittedApart
  <2> QED BY <2>3, <2>4, EndsCompete
<1>4. SubmittedApart(disk)'
  BY <1>fr DEF IInv, NonceProtocol, SubmittedApart, Compete, AutoNonce
<1>5. UntouchedBeforeApproval'
  <2> SUFFICES ASSUME NEW u \in TxIds
               PROVE  /\ BeforeApproval(u)' => pc'[u] = "idle" /\ \A x \in todo' : x[2] # u
                      /\ "approve" \in inbox'[u] =>
                           store'[u].status \notin {"unborn", "approved", "submitted"}
                      /\ req'[u] = "checking" => store'[u].status = "generated"
    BY DEF UntouchedBeforeApproval
  <2>1. CASE u = t
    BY <2>1 DEF StartStep
  <2>2. CASE u # t
    <3>1. /\ BeforeApproval(u) => pc[u] = "idle" /\ \A x \in todo : x[2] # u
          /\ "approve" \in inbox[u] => store[u].status \notin {"unborn", "approved", "submitted"}
          /\ req[u] = "checking" => store[u].status = "generated"
      BY DEF IInv, NonceProtocol, UntouchedBeforeApproval
    <3>2. /\ EndsAt(store[u], store'[u])
          /\ pc'[u] = pc[u]
          /\ "approve" \in inbox'[u] => "approve" \in inbox[u]
          /\ req'[u] = "checking" => req[u] = "checking"
      BY <2>2 DEF StartStep
    <3>3. store'[u].status = store[u].status
             \/ (store[u].status # "generated" /\ store'[u].status \in Later)
      BY <3>2 DEF EndsAt
    <3>4. BeforeApproval(u)' => BeforeApproval(u)
      BY <3>2, <3>3 DEF BeforeApproval, Later
    <3> QED BY <3>1, <3>2, <3>3, <3>4, <1>fr DEF Later
  <2> QED BY <2>1, <2>2
<1>6. InProcessNotSubmitted'
  <2> SUFFICES ASSUME NEW u \in TxIds, pc'[u] # "idle" PROVE store'[u].status # "submitted"
    BY DEF InProcessNotSubmitted, InProcessOfSigning
  <2>1. CASE u = t
    BY <2>1, <1>pc
  <2>2. CASE u # t
    <3>1. pc[u] # "idle" => store[u].status # "submitted"
      BY DEF IInv, NonceProtocol, InProcessNotSubmitted, InProcessOfSigning
    <3> QED BY <2>2, <3>1, <1>un DEF EndsAt, Later
  <2> QED BY <2>1, <2>2
<1> QED BY <1>1, <1>2, <1>3, <1>4, <1>5, <1>6 DEF NonceProtocol

-----------------------------------------------------------------------------
(* The approval of t moves on. *)

LEMMA LockMoves ==
  ASSUME IInv, NEW t \in TxIds, NEW p, pc' = [pc EXCEPT ![t] = p],
         \/ lock' = lock /\ (pc[t] \in HoldsLock <=> p \in HoldsLock)
         \/ lock' = None /\ pc[t] \in HoldsLock /\ p \notin HoldsLock
         \/ lock' = t /\ lock = None /\ p \in HoldsLock
  PROVE  LockDiscipline'
<1> SUFFICES ASSUME NEW u \in TxIds PROVE lock' = u <=> pc'[u] \in HoldsLock
  BY DEF LockDiscipline
<1>1. /\ lock = u <=> pc[u] \in HoldsLock
      /\ lock = t <=> pc[t] \in HoldsLock
      /\ u # None
  BY ConstantsTyped DEF IInv, NonceProtocol, LockDiscipline
<1>2. pc'[u] = IF u = t THEN p ELSE pc[u]
  BY DEF IInv, TypeOK
<1> QED BY <1>1, <1>2

LEMMA PcQuiet ==
  ASSUME TypeOK, NEW t \in TxIds, NEW p, pc' = [pc EXCEPT ![t] = p],
         pc[t] # "idle", p \in HasNonce => pc[t] \in HasNonce
  PROVE  \A u \in TxIds : /\ pc'[u] # "idle" => pc[u] # "idle"
                          /\ pc'[u] \in HasNonce => pc[u] \in HasNonce
BY DEF TypeOK

LEMMA OnlyEndsSame == \A s : OnlyEnds(s, s)
BY DEF OnlyEnds, EndsAt

(* What is known of a transaction whose approval is under way. *)
LEMMA InProcess ==
  ASSUME IInv, NEW t \in TxIds, pc[t] # "idle"
  PROVE  /\ store[t].status \notin {"unborn", "generated", "unapproved", "submitted"}
         /\ "approve" \notin inbox[t]
         /\ req[t] # "checking"
BY DEF IInv, NonceProtocol, UntouchedBeforeApproval, BeforeApproval,
       InProcessNotSubmitted, InProcessOfSigning

LEMMA HolderAlone ==
  ASSUME IInv, NEW t \in TxIds, pc[t] \in HoldsLock
  PROVE  lock = t /\ \A u \in TxIds \ {t} : pc[u] \notin HoldsLock
BY DEF IInv, NonceProtocol, LockDiscipline

(* A failed approval only ends transactions. *)
LEMMA FailQuiet ==
  ASSUME IInv, NEW t \in TxIds, pc[t] \in HoldsLock, FailApproval(t, store),
         inbox' = inbox, todo' = todo, disk' = disk
  PROVE  QuietStep
<1>1. pc[t] # "idle" /\ "idle" \notin HoldsLock /\ "idle" \notin HasNonce
  BY DEF HoldsLock, HasNonce
<1>2. LockDiscipline'
  BY <1>1, LockMoves DEF FailApproval, ReleaseLock
<1>3. \A u \in TxIds : /\ pc'[u] # "idle" => pc[u] # "idle"
                       /\ pc'[u] \in HasNonce => pc[u] \in HasNonce
  BY <1>1, PcQuiet DEF FailApproval, IInv
<1>4. OnlyEnds(store, store') /\ \A u \in TxIds : req'[u] = "checking" => req[u] = "checking"
  <2>1. CASE Visible(t)
    <3>1. SetTxStatus(store, {t}, "failed", cur)
      BY <2>1 DEF FailApproval, MarkFailed
    <3>2. \A u \in {t} \cap TxIds : store[u].status # "generated"
      BY <1>1, InProcess
    <3>3. TypeOK /\ store \in [TxIds -> TxMeta] /\ "failed" \in Later /\ OnlyEnds(store, store)
      BY OnlyEndsSame DEF IInv, TypeOK, Later
    <3> QED BY <3>1, <3>2, <3>3, SetQuiet
  <2>2. CASE ~Visible(t)
    BY <2>2, OnlyEndsSame DEF FailApproval, MarkFailed
  <2> QED BY <2>1, <2>2
<1> QED BY <1>2, <1>3, <1>4 DEF QuietStep

(* NonceArrives: past everything that waits in the network on this chain. *)
LEMMA NonceArrivesSafe ==
  ASSUME IInv, NEW t \in TxIds, NEW n, NonceArrives(t, n),
         inbox' = inbox, todo' = todo, disk' = disk
  PROVE  NonceProtocol'
<1>ty. store \in [TxIds -> TxMeta] /\ pc \in [TxIds -> InPipeline \cup {"idle"}]
  BY DEF IInv, TypeOK
<1>pc. pc[t] = "nonce" /\ pc[t] \in HoldsLock /\ pc[t] # "idle"
  BY DEF NonceArrives, HoldsLock
<1>al. lock = t /\ \A u \in TxIds \ {t} : pc[u] \notin HoldsLock
  BY <1>pc, HolderAlone
<1>st. /\ store[t].status \notin {"unborn", "generated", "unapproved", "submitted"}
       /\ "approve" \notin inbox[t]
       /\ req[t] # "checking"
  BY <1>pc, InProcess
<1>1. PICK next \in Nonces :
        /\ IsNextNonce(next, n)
        /\ LET own   == IF store[t].fixed THEN store[t].nonce ELSE next
               nonce == IF store[t].custom # None THEN store[t].custom ELSE own
               s     == IF Listed(t) THEN [store EXCEPT ![t].nonce = nonce] ELSE store
           IN IF Visible(t)
              THEN /\ store' = s
                   /\ pc' = [pc EXCEPT ![t] = "sign"]
                   /\ sig' = [sig EXCEPT ![t] = IF loading THEN None ELSE cur]
                   /\ UNCHANGED <<listening, req, lock, tries>>
              ELSE FailApproval(t, s) /\ UNCHANGED sig
  BY DEF NonceArrives
<1> DEFINE own == IF store[t].fixed THEN store[t].nonce ELSE next
           nonce == IF store[t].custom # None THEN store[t].custom ELSE own
<1>fr. /\ req' = req
       /\ store' = (IF Listed(t) THEN [store EXCEPT ![t].nonce = nonce] ELSE store)
       /\ \/ Visible(t) /\ pc' = [pc EXCEPT ![t] = "sign"] /\ lock' = lock
          \/ ~Visible(t) /\ pc' = [pc EXCEPT ![t] = "idle"] /\ lock' = None
  BY <1>1 DEF FailApproval, MarkFailed, ReleaseLock
<1>me. /\ \A u \in TxIds \ {t} : store'[u] = store[u]
       /\ store'[t] = store[t] \/ store'[t] = [store[t] EXCEPT !.nonce = nonce]
       /\ Visible(t) => store'[t] = [store[t] EXCEPT !.nonce = nonce]
  BY <1>fr, <1>ty DEF Visible
<1>ke. /\ store'[t].status = store[t].status /\ store'[t].chain = store[t].chain
       /\ store'[t].custom = store[t].custom /\ store'[t].fixed = store[t].fixed
  <2>1. store[t] \in TxMeta
    BY <1>ty
  <2> QED BY <2>1, <1>me DEF TxMeta
<1>nn. Visible(t) => store'[t].nonce = nonce
  <2>1. store[t] \in TxMeta
    BY <1>ty
  <2> QED BY <2>1, <1>me DEF TxMeta
<1> HIDE DEF nonce, own
<1>2. LockDiscipline'
  BY <1>fr, <1>pc, LockMoves DEF HoldsLock
<1>3. HolderApart'
  <2> SUFFICES ASSUME NEW x \in TxIds, NEW u \in TxIds, pc'[x] \in HasNonce,
                      store'[u].status = "submitted", Compete(store', x, u)
               PROVE  FALSE
    BY DEF HolderApart
  <2>1. x = t
    BY <1>fr, <1>ty, <1>al DEF HasNonce, HoldsLock
  <2>2. Visible(t)
    BY <2>1, <1>fr, <1>ty DEF HasNonce
  <2>3. u # t
    BY <2>1 DEF Compete
  <2>4. store'[u] = store[u]
    BY <2>3, <1>me
  <2>5. store[t].chain = cur /\ store[u].chain = cur /\ store[u].status = "submitted"
    BY <2>1, <2>2, <2>4, <1>ke DEF Compete, Visible
  <2>6. store[u].nonce \in PendingNonces
    BY <2>5 DEF PendingNonces, WithStatus, Visible, Listed, ListedStatus
  <2>7. ~store[t].fixed /\ store[t].custom = None
    BY <2>1, <1>ke DEF Compete, AutoNonce
  <2>8. nonce = next
    BY <2>7 DEF nonce, own
  <2>9. store[u].nonce = next
    BY <2>1, <2>2, <2>4, <2>8, <1>nn DEF Compete
  <2> QED BY <2>6, <2>9, <1>1 DEF IsNextNonce
<1>4. SubmittedApart(store)'
  <2> SUFFICES ASSUME NEW x \in TxIds, NEW u \in TxIds,
                      store'[x].status = "submitted", store'[u].status = "submitted"
               PROVE  ~Compete(store', x, u)
    BY DEF SubmittedApart, Compete, AutoNonce
  <2>1. store'[x] = store[x] /\ store'[u] = store[u]
    BY <1>ke, <1>st, <1>me
  <2>2. ~Compete(store, x, u)
    BY <2>1 DEF IInv, NonceProtocol, SubmittedApart
  <2> QED BY <2>1, <2>2 DEF Compete, AutoNonce
<1>5. SubmittedApart(disk)'
  BY DEF IInv, NonceProtocol, SubmittedApart, Compete, AutoNonce
<1>6. UntouchedBeforeApproval'
  <2> SUFFICES ASSUME NEW u \in TxIds
               PROVE  /\ BeforeApproval(u)' => pc'[u] = "idle" /\ \A x \in todo' : x[2] # u
                      /\ "approve" \in inbox'[u] =>
                           store'[u].status \notin {"unborn", "approved", "submitted"}
                      /\ req'[u] = "checking" => store'[u].status = "generated"
    BY DEF UntouchedBeforeApproval
  <2>1. store'[u].status = store[u].status
    BY <1>ke, <1>me
  <2>2. /\ BeforeApproval(u) => pc[u] = "idle" /\ \A x \in todo : x[2] # u
        /\ "approve" \in inbox[u] => store[u].status \notin {"unborn", "approved", "submitted"}
        /\ req[u] = "checking" => store[u].status = "generated"
    BY DEF IInv, NonceProtocol, UntouchedBeforeApproval
  <2>3. BeforeApproval(u)' => BeforeApproval(u)
    BY <2>1 DEF BeforeApproval
  <2>4. pc[u] = "idle" => pc'[u] = "idle"
    BY <1>fr, <1>ty, <1>pc
  <2> QED BY <2>1, <2>2, <2>3, <2>4, <1>fr
<1>7. InProcessNotSubmitted'
  <2> SUFFICES ASSUME NEW u \in TxIds, pc'[u] # "idle" PROVE store'[u].status # "submitted"
    BY DEF InProcessNotSubmitted, InProcessOfSigning
  <2>1. pc[u] # "idle"
    BY <1>fr, <1>ty, <1>pc
  <2> QED BY <2>1, <1>ke, <1>me, InProcess
<1> QED BY <1>2, <1>3, <1>4, <1>5, <1>6, <1>7 DEF NonceProtocol

(* PublishTransaction: the nonce of the holder becomes a claim. *)
LEMMA PublishSafe ==
  ASSUME IInv, NEW t \in TxIds, PublishTransaction(t), Visible(t),
         inbox' = inbox, todo' = todo, disk' = disk
  PROVE  NonceProtocol'
<1>ty. store \in [TxIds -> TxMeta] /\ pc \in [TxIds -> InPipeline \cup {"idle"}]
  BY DEF IInv, TypeOK
<1>pc. pc[t] = "send" /\ pc[t] \in HoldsLock /\ pc[t] # "idle" /\ pc[t] \in HasNonce
  BY DEF PublishTransaction, HoldsLock, HasNonce
<1>al. lock = t /\ \A u \in TxIds \ {t} : pc[u] \notin HoldsLock
  BY <1>pc, HolderAlone
<1>st. /\ store[t].status \notin {"unborn", "generated", "unapproved", "submitted"}
       /\ "approve" \notin inbox[t]
       /\ req[t] # "checking"
  BY <1>pc, InProcess
<1>fr. /\ SetTxStatus([store EXCEPT ![t].hash = store[t].raw], {t}, "submitted", cur)
       /\ lock' = None
       /\ pc' = [pc EXCEPT ![t] = "idle"]
  BY DEF PublishTransaction, ReleaseLock
<1>me. /\ \A u \in TxIds \ {t} : store'[u] = store[u]
       /\ store'[t] = [store[t] EXCEPT !.hash = store[t].raw, !.status = "submitted"]
  BY <1>fr, <1>ty DEF SetTxStatus, WithStatusSet
<1>ke. /\ store'[t].nonce = store[t].nonce /\ store'[t].chain = store[t].chain
       /\ store'[t].custom = store[t].custom /\ store'[t].fixed = store[t].fixed
       /\ store'[t].status = "submitted"
  <2>1. store[t] \in TxMeta
    BY <1>ty
  <2> QED BY <2>1, <1>me DEF TxMeta
<1>rq. \A u \in TxIds : req'[u] = "checking" => req[u] = "checking"
  <2>1. req' = Settle({t}, "submitted")
    BY <1>fr DEF SetTxStatus, FinishedStates
  <2> QED BY <2>1 DEF Settle
<1>co. \A x, u \in TxIds : Compete(store', x, u) => Compete(store, x, u)
  <2>1. \A u \in TxIds : /\ store'[u].nonce = store[u].nonce
                        /\ store'[u].chain = store[u].chain
                        /\ store'[u].custom = store[u].custom
                        /\ store'[u].fixed = store[u].fixed
    BY <1>me, <1>ke
  <2> QED BY <2>1 DEF Compete, AutoNonce
<1>id. \A u \in TxIds : pc'[u] = IF u = t THEN "idle" ELSE pc[u]
  BY <1>fr, <1>ty
<1>2. LockDiscipline'
  BY <1>fr, <1>pc, LockMoves DEF HoldsLock
<1>3. HolderApart'
  <2> SUFFICES ASSUME NEW x \in TxIds, pc'[x] \in HasNonce PROVE FALSE
    BY DEF HolderApart
  <2> QED BY <1>id, <1>al DEF HasNonce, HoldsLock
<1>4. SubmittedApart(store)'
  <2> SUFFICES ASSUME NEW x \in TxIds, NEW u \in TxIds,
                      store'[x].status = "submitted", store'[u].status = "submitted",
                      Compete(store', x, u)
               PROVE  FALSE
    BY DEF SubmittedApart, Compete, AutoNonce
  <2>1. Compete(store, x, u) /\ x # u
    BY <1>co DEF Compete
  <2>2. CASE x = t
    <3>1. store[u].status = "submitted"
      BY <2>1, <2>2, <1>me
    <3> QED BY <3>1, <2>1, <2>2, <1>pc DEF IInv, NonceProtocol, HolderApart
  <2>3. CASE u = t
    <3>1. store[x].status = "submitted"
      BY <2>1, <2>3, <1>me
    <3>2. Compete(store, t, x)
      BY <2>1, <2>3 DEF Compete
    <3> QED BY <3>1, <3>2, <1>pc DEF IInv, NonceProtocol, HolderApart
  <2>4. CASE x # t /\ u # t
    <3>1. store[x].status = "submitted" /\ store[u].status = "submitted"
      BY <2>4, <1>me
    <3> QED BY <3>1, <2>1 DEF IInv, NonceProtocol, SubmittedApart
  <2> QED BY <2>2, <2>3, <2>4
<1>5. SubmittedApart(disk)'
  BY DEF IInv, NonceProtocol, SubmittedApart, Compete, AutoNonce
<1>6. UntouchedBeforeApproval'
  <2> SUFFICES ASSUME NEW u \in TxIds
               PROVE  /\ BeforeApproval(u)' => pc'[u] = "idle" /\ \A x \in todo' : x[2] # u
                      /\ "approve" \in inbox'[u] =>
                           store'[u].status \notin {"unborn", "approved", "submitted"}
                      /\ req'[u] = "checking" => store'[u].status = "generated"
    BY DEF UntouchedBeforeApproval
  <2>1. CASE u = t
    BY <2>1, <1>ke, <1>st, <1>rq DEF BeforeApproval
  <2>2. CASE u # t
    <3>1. store'[u] = store[u] /\ pc'[u] = pc[u]
      BY <2>2, <1>me, <1>id
    <3>2. BeforeApproval(u)' => BeforeApproval(u)
      BY <3>1 DEF BeforeApproval
    <3>3. /\ BeforeApproval(u) => pc[u] = "idle" /\ \A x \in todo : x[2] # u
          /\ "approve" \in inbox[u] => store[u].status \notin {"unborn", "approved", "submitted"}
          /\ req[u] = "checking" => store[u].status = "generated"
      BY DEF IInv, NonceProtocol, UntouchedBeforeApproval
    <3> QED BY <3>1, <3>2, <3>3, <1>rq
  <2> QED BY <2>1, <2>2
<1>7. InProcessNotSubmitted'
  <2> SUFFICES ASSUME NEW u \in TxIds, pc'[u] # "idle" PROVE store'[u].status # "submitted"
    BY DEF InProcessNotSubmitted, InProcessOfSigning
  <2>1. u # t /\ pc[u] # "idle"
    BY <1>id
  <2> QED BY <2>1, <1>me, InProcess
<1> QED BY <1>2, <1>3, <1>4, <1>5, <1>6, <1>7 DEF NonceProtocol

-----------------------------------------------------------------------------
(* The steps of the controller. *)

LEMMA EvictedOthers ==
  ASSUME TypeOK, NEW t \in TxIds, NEW m
  PROVE  /\ \A u \in TxIds \ {t} : EndsAt(store[u], WithTxAdded(t, m)[u])
         /\ WithTxAdded(t, m)[t] = m
<1>1. store \in [TxIds -> TxMeta]
  BY DEF TypeOK
<1>2. OnlyEnds(store, WithStatusSet(store, Evicted, "removed"))
  <2>1. \A u \in Evicted \cap TxIds : store[u].status # "generated"
    BY DEF Evicted, FinalStates
  <2>2. "removed" \in Later
    BY DEF Later
  <2> QED BY <1>1, <2>1, <2>2, EndsStatusSet
<1>3. DOMAIN WithStatusSet(store, Evicted, "removed") = TxIds
  BY DEF WithStatusSet
<1> QED BY <1>2, <1>3 DEF WithTxAdded, OnlyEnds, WithStatusSet

LEMMA StartActions ==
  ASSUME IInv, NEW t \in TxIds, todo' = todo, disk' = disk,
         \/ GenerateTx(t)
         \/ AddUnapprovedTransaction(t)
         \/ RefuseTransaction(t)
         \/ \E answer \in Answers : Click(t, answer)
         \/ \E custom \in CustomNonces \cup {None} : UpdateAndApproveTransaction(t, custom)
         \/ \E orig \in TxIds : CreateReplacement(orig, t)
  PROVE  StartStep(t)
<1> USE DEF storeVars, pipeVars, uiVars
<1>ty. /\ store \in [TxIds -> TxMeta] /\ store[t] \in TxMeta
       /\ pc \in [TxIds -> InPipeline \cup {"idle"}]
       /\ req \in [TxIds -> Requests] /\ inbox \in [TxIds -> SUBSET Answers]
       /\ TypeOK
  BY DEF IInv, TypeOK
<1>be. /\ BeforeApproval(t) => pc[t] = "idle" /\ \A x \in todo : x[2] # t
       /\ "approve" \in inbox[t] => store[t].status \notin {"unborn", "approved", "submitted"}
       /\ req[t] = "checking" => store[t].status = "generated"
  BY DEF IInv, NonceProtocol, UntouchedBeforeApproval
<1>sa. \A m : EndsAt(m, m)
  BY DEF EndsAt
<1>1. ASSUME GenerateTx(t) PROVE StartStep(t)
  <2>1. store[t].status = "unborn" /\ BeforeApproval(t)
    BY <1>1 DEF GenerateTx, Fresh, BeforeApproval
  <2>2. store'[t].status = "generated" /\ \A u \in TxIds \ {t} : store'[u] = store[u]
    BY <1>1, <1>ty DEF GenerateTx, GeneratedTx, Blank
  <2>3. UNCHANGED <<pc, lock, inbox>> /\ req' = [req EXCEPT ![t] = "checking"]
    BY <1>1 DEF GenerateTx
  <2> QED BY <2>1, <2>2, <2>3, <1>ty, <1>be, <1>sa DEF StartStep
<1>2. ASSUME AddUnapprovedTransaction(t) PROVE StartStep(t)
  <2>1. store[t].status = "generated" /\ BeforeApproval(t)
    BY <1>2, <1>be DEF AddUnapprovedTransaction, BeforeApproval
  <2>2. /\ store'[t] = [store[t] EXCEPT !.status = "unapproved"]
        /\ \A u \in TxIds \ {t} : EndsAt(store[u], store'[u])
    BY <1>2, <1>ty, EvictedOthers DEF AddUnapprovedTransaction
  <2>3. store'[t].status = "unapproved"
    BY <2>2, <1>ty DEF TxMeta
  <2>4. UNCHANGED <<pc, lock, inbox>> /\ req' = [req EXCEPT ![t] = "gas"]
    BY <1>2 DEF AddUnapprovedTransaction
  <2> QED BY <2>1, <2>2, <2>3, <2>4, <1>ty, <1>be DEF StartStep
<1>3. ASSUME RefuseTransaction(t) PROVE StartStep(t)
  <2>1. store[t].status = "generated" /\ BeforeApproval(t)
    BY <1>3, <1>be DEF RefuseTransaction, BeforeApproval
  <2>2. /\ store'[t] = [store[t] EXCEPT !.status = "removed"]
        /\ \A u \in TxIds \ {t} : store'[u] = store[u]
    BY <1>3, <1>ty DEF RefuseTransaction
  <2>3. store'[t].status = "removed"
    BY <2>2, <1>ty DEF TxMeta
  <2>4. UNCHANGED <<pc, lock, inbox>> /\ req' = [req EXCEPT ![t] = "error"]
    BY <1>3 DEF RefuseTransaction
  <2> QED BY <2>1, <2>2, <2>3, <2>4, <1>ty, <1>be, <1>sa DEF StartStep
<1>4. ASSUME NEW answer \in Answers, Click(t, answer) PROVE StartStep(t)
  <2>1. store[t].status = "unapproved" /\ BeforeApproval(t)
    BY <1>4 DEF Click, BeforeApproval
  <2>2. /\ UNCHANGED <<store, pc, lock, req>>
        /\ \A u \in TxIds \ {t} : inbox'[u] = inbox[u]
    BY <1>4, <1>ty DEF Click
  <2> QED BY <2>1, <2>2, <1>ty, <1>be, <1>sa DEF StartStep
<1>5. ASSUME NEW custom \in CustomNonces \cup {None}, UpdateAndApproveTransaction(t, custom)
      PROVE StartStep(t)
  <2> DEFINE s == IF Listed(t) THEN [store EXCEPT ![t] = UiCopy(t, custom)] ELSE store
  <2>1. BeforeApproval(t) /\ store[t].status \notin {"unborn", "approved", "submitted"}
    BY <1>5, <1>be DEF UpdateAndApproveTransaction, BeforeApproval
  <2>2. "approve" \notin inbox'[t] /\ \A u \in TxIds \ {t} : inbox'[u] = inbox[u]
    BY <1>5, <1>ty DEF UpdateAndApproveTransaction
  <2>3. StartApproval(t, s) /\ lock' = lock
    BY <1>5 DEF UpdateAndApproveTransaction
  <2>4. s \in [TxIds -> TxMeta] /\ \A u \in TxIds \ {t} : s[u] = store[u]
    <3>1. UiCopy(t, custom) \in TxMeta
      BY <1>ty, CustomNoncesAssumption DEF UiCopy, TxMeta, Status, ListedStatus
    <3> QED BY <3>1, <1>ty
  <2>5. \/ s[t].status = "unapproved" /\ store[t].status \in ListedStatus
        \/ s[t].status = store[t].status /\ store[t].status \notin ListedStatus
    BY <1>ty DEF UiCopy, Listed, TxMeta
  <2> HIDE DEF s
  <2>6. req' = req
    BY <2>3 DEF StartApproval, SetTxStatus, FinishedStates
  <2>7. CASE pc' = [pc EXCEPT ![t] = "gate"] /\ SetTxStatus(s, {t}, "approved", cur)
                /\ s[t].status \in ListedStatus
    <3>1. \A u \in TxIds : store'[u] = IF u = t THEN [s[u] EXCEPT !.status = "approved"]
                                       ELSE s[u]
      BY <2>7 DEF SetTxStatus, WithStatusSet
    <3>2. store'[t].status = "approved" /\ \A u \in TxIds \ {t} : store'[u] = store[u]
      BY <3>1, <2>4 DEF TxMeta
    <3>3. store[t].status # "generated"
      BY <2>5, <2>7 DEF ListedStatus
    <3> QED BY <2>1, <2>2, <2>3, <2>6, <2>7, <3>2, <3>3, <1>ty, <1>be, <1>sa
            DEF StartStep, BeforeApproval
  <2>8. CASE store' = s /\ pc' = pc
    <3>1. store'[t].status # "submitted" /\ \A u \in TxIds \ {t} : store'[u] = store[u]
      BY <2>1, <2>4, <2>5, <2>8
    <3>2. req[t] = "checking" => store'[t].status = "generated"
      BY <2>5, <2>8, <1>be DEF ListedStatus
    <3> QED BY <2>1, <2>2, <2>3, <2>6, <2>8, <3>1, <3>2, <1>ty, <1>be, <1>sa DEF StartStep
  <2> QED BY <2>3, <2>7, <2>8 DEF StartApproval
<1>6. ASSUME NEW orig \in TxIds, CreateReplacement(orig, t) PROVE StartStep(t)
  <2>1. store[t].status = "unborn" /\ BeforeApproval(t)
    BY <1>6 DEF CreateReplacement, Fresh, BeforeApproval
  <2>2. PICK m : SetTxStatus(WithTxAdded(t, m), {t}, "approved", cur) /\ m \in TxMeta
    <3>1. [GeneratedTx EXCEPT !.nonce = store[orig].nonce, !.fixed = TRUE, !.ready = TRUE]
            \in TxMeta
      BY <1>ty DEF GeneratedTx, Blank, TxMeta, Status, IInv, TypeOK
    <3> QED BY <1>6, <3>1 DEF CreateReplacement
  <2>3. /\ \A u \in TxIds \ {t} : EndsAt(store[u], store'[u])
        /\ store'[t] = [m EXCEPT !.status = "approved"]
    BY <2>2, <1>ty, EvictedOthers DEF SetTxStatus, WithStatusSet
  <2>4. store'[t].status = "approved"
    BY <2>2, <2>3 DEF TxMeta
  <2>5. UNCHANGED <<lock, inbox, req>> /\ pc' = [pc EXCEPT ![t] = "gate"]
    BY <1>6, <2>2 DEF CreateReplacement, SetTxStatus, FinishedStates
  <2> QED BY <2>1, <2>3, <2>4, <2>5, <1>ty, <1>be DEF StartStep, BeforeApproval
<1> QED BY <1>1, <1>2, <1>3, <1>4, <1>5, <1>6

(* A field that nobody competes with is written. *)
LEMMA FieldEnds ==
  ASSUME NEW s \in [TxIds -> TxMeta], NEW t \in TxIds
  PROVE  /\ OnlyEnds(s, [s EXCEPT ![t].ready = TRUE])
         /\ \A n : OnlyEnds(s, [s EXCEPT ![t].raw = n])
         /\ [s EXCEPT ![t].ready = TRUE][t].status = s[t].status
         /\ \A n : [s EXCEPT ![t].raw = n][t].status = s[t].status
BY DEF OnlyEnds, EndsAt, TxMeta

LEMMA LockSame ==
  ASSUME IInv, pc' = pc, lock' = lock
  PROVE  LockDiscipline'
BY DEF IInv, NonceProtocol, LockDiscipline

LEMMA QuietActions ==
  ASSUME IInv, NEW t \in TxIds, todo' = todo, disk' = disk,
         \/ \E ok \in BOOLEAN : AddTxGasDefaults(t, ok)
         \/ CancelTransaction(t)
         \/ PassGlobalMutex(t)
         \/ TakeNonceLock(t)
         \/ NonceFails(t)
         \/ SignFails(t)
         \/ SignTransaction(t)
         \/ SwapBalance(t)
         \/ SwapBalanceFails(t)
         \/ PublishTransaction(t) /\ ~Visible(t)
         \/ PublishFails(t)
         \/ \E ok \in BOOLEAN : BootGasDefaults(t, ok)
  PROVE  QuietStep
<1> USE DEF storeVars, pipeVars, uiVars, envVars, chainVars
<1>ty. /\ store \in [TxIds -> TxMeta] /\ store[t] \in TxMeta
       /\ pc \in [TxIds -> InPipeline \cup {"idle"}]
       /\ req \in [TxIds -> Requests] /\ inbox \in [TxIds -> SUBSET Answers]
       /\ TypeOK
  BY DEF IInv, TypeOK
<1>1. ASSUME NEW ok \in BOOLEAN, AddTxGasDefaults(t, ok) PROVE QuietStep
  <2>1. OnlyEnds(store, store')
    BY <1>1, <1>ty, FieldEnds, OnlyEndsSame DEF AddTxGasDefaults
  <2>2. \A u \in TxIds : req'[u] = "checking" => req[u] = "checking"
    BY <1>1, <1>ty DEF AddTxGasDefaults
  <2>3. UNCHANGED <<pc, lock, inbox>>
    BY <1>1 DEF AddTxGasDefaults
  <2> QED BY <2>1, <2>2, <2>3, LockSame DEF QuietStep
<1>2. ASSUME CancelTransaction(t) PROVE QuietStep
  <2>1. OnlyEnds(store, store')
    <3>1. [store EXCEPT ![t].status = "removed"] = WithStatusSet(store, {t}, "removed")
      BY <1>ty DEF WithStatusSet
    <3>2. Listed(t) => OnlyEnds(store, WithStatusSet(store, {t}, "removed"))
      BY <1>ty, EndsStatusSet DEF Listed, ListedStatus, Later
    <3> QED BY <1>2, <3>1, <3>2, OnlyEndsSame DEF CancelTransaction, SetTxStatusRejected
  <2>2. \A u \in TxIds : req'[u] = "checking" => req[u] = "checking"
    BY <1>2, <1>ty DEF CancelTransaction, SetTxStatusRejected, Settle
  <2>3. UNCHANGED <<pc, lock>> /\ \A u \in TxIds : "approve" \in inbox'[u] => "approve" \in inbox[u]
    BY <1>2, <1>ty DEF CancelTransaction
  <2> QED BY <2>1, <2>2, <2>3, LockSame DEF QuietStep
<1>3. ASSUME PassGlobalMutex(t) PROVE QuietStep
  <2>1. pc[t] = "gate" /\ pc' = [pc EXCEPT ![t] = "lock"] /\ UNCHANGED <<storeVars, lock, inbox>>
    BY <1>3 DEF PassGlobalMutex
  <2>2. LockDiscipline'
    BY <2>1, LockMoves DEF HoldsLock
  <2>3. \A u \in TxIds : /\ pc'[u] # "idle" => pc[u] # "idle"
                         /\ pc'[u] \in HasNonce => pc[u] \in HasNonce
    BY <2>1, <1>ty, PcQuiet DEF HasNonce
  <2> QED BY <2>1, <2>2, <2>3, OnlyEndsSame DEF QuietStep
<1>4. ASSUME TakeNonceLock(t) PROVE QuietStep
  <2>1. /\ pc[t] = "lock" /\ lock = None /\ lock' = t /\ pc' = [pc EXCEPT ![t] = "nonce"]
        /\ UNCHANGED <<storeVars, inbox>>
    BY <1>4 DEF TakeNonceLock
  <2>2. LockDiscipline'
    BY <2>1, LockMoves DEF HoldsLock
  <2>3. \A u \in TxIds : /\ pc'[u] # "idle" => pc[u] # "idle"
                         /\ pc'[u] \in HasNonce => pc[u] \in HasNonce
    BY <2>1, <1>ty, PcQuiet DEF HasNonce
  <2> QED BY <2>1, <2>2, <2>3, OnlyEndsSame DEF QuietStep
<1>5. ASSUME NonceFails(t) PROVE QuietStep
  <2>1. pc[t] = "nonce" /\ pc[t] \in HoldsLock /\ inbox' = inbox
    BY <1>5 DEF NonceFails, HoldsLock
  <2>2. CASE FailApproval(t, store)
    BY <2>1, <2>2, FailQuiet
  <2>3. CASE pc' = [pc EXCEPT ![t] = "gate"] /\ ReleaseLock /\ UNCHANGED storeVars
    <3>1. LockDiscipline'
      BY <2>1, <2>3, LockMoves DEF HoldsLock, ReleaseLock
    <3>2. \A u \in TxIds : /\ pc'[u] # "idle" => pc[u] # "idle"
                           /\ pc'[u] \in HasNonce => pc[u] \in HasNonce
      BY <2>1, <2>3, <1>ty, PcQuiet DEF HasNonce
    <3> QED BY <2>1, <2>3, <3>1, <3>2, OnlyEndsSame DEF QuietStep
  <2> QED BY <1>5, <2>2, <2>3 DEF NonceFails
<1>6. ASSUME SignFails(t) PROVE QuietStep
  BY <1>6, FailQuiet DEF SignFails, HoldsLock
<1>7. ASSUME SignTransaction(t) PROVE QuietStep
  <2>1. pc[t] = "sign" /\ pc[t] \in HoldsLock /\ pc[t] # "idle" /\ inbox' = inbox
    BY <1>7 DEF SignTransaction, HoldsLock
  <2>2. CASE ~Visible(t)
    BY <1>7, <2>1, <2>2, FailQuiet DEF SignTransaction
  <2>3. CASE Visible(t)
    <3> DEFINE s == [store EXCEPT ![t].raw = store[t].nonce]
    <3>1. PICK p \in {"balance", "send"} : pc' = [pc EXCEPT ![t] = p]
      BY <1>7, <2>3 DEF SignTransaction
    <3>2. SetTxStatus(s, {t}, "signed", cur) /\ lock' = lock
      BY <1>7, <2>3 DEF SignTransaction
    <3>3. LockDiscipline'
      BY <2>1, <3>1, <3>2, LockMoves DEF HoldsLock
    <3>4. \A u \in TxIds : /\ pc'[u] # "idle" => pc[u] # "idle"
                           /\ pc'[u] \in HasNonce => pc[u] \in HasNonce
      BY <2>1, <3>1, <1>ty, PcQuiet DEF HasNonce
    <3>5. /\ s \in [TxIds -> TxMeta] /\ OnlyEnds(store, s)
          /\ \A u \in {t} \cap TxIds : s[u].status # "generated"
      <4>1. store[t].nonce \in Nonces \cup {None} /\ store[t].status # "generated"
        BY <1>ty, <2>1, InProcess, MetaFieldTyped
      <4>2. s \in [TxIds -> TxMeta]
        BY <4>1, <1>ty, FieldTyped
      <4>3. OnlyEnds(store, s) /\ s[t].status = store[t].status
        BY <1>ty, FieldEnds
      <4> QED BY <4>1, <4>2, <4>3
    <3> HIDE DEF s
    <3>6. "signed" \in Later
      BY DEF Later
    <3>7. OnlyEnds(store, store') /\ \A u \in TxIds : req'[u] = "checking" => req[u] = "checking"
      BY <1>ty, <3>2, <3>5, <3>6, SetQuiet
    <3> QED BY <2>1, <3>3, <3>4, <3>7 DEF QuietStep
  <2> QED BY <2>2, <2>3
<1>8. ASSUME SwapBalance(t) PROVE QuietStep
  <2>1. pc[t] = "balance" /\ pc' = [pc EXCEPT ![t] = "send"] /\ UNCHANGED <<storeVars, lock, inbox>>
    BY <1>8 DEF SwapBalance
  <2>2. LockDiscipline'
    BY <2>1, LockMoves DEF HoldsLock
  <2>3. \A u \in TxIds : /\ pc'[u] # "idle" => pc[u] # "idle"
                         /\ pc'[u] \in HasNonce => pc[u] \in HasNonce
    BY <2>1, <1>ty, PcQuiet DEF HasNonce
  <2> QED BY <2>1, <2>2, <2>3, OnlyEndsSame DEF QuietStep
<1>9. ASSUME SwapBalanceFails(t) PROVE QuietStep
  BY <1>9, FailQuiet DEF SwapBalanceFails, HoldsLock
<1>10. ASSUME PublishTransaction(t), ~Visible(t) PROVE QuietStep
  <2>1. pc[t] \in HoldsLock /\ FailApproval(t, store) /\ inbox' = inbox
    BY <1>10 DEF PublishTransaction, HoldsLock
  <2> QED BY <2>1, FailQuiet
<1>11. ASSUME PublishFails(t) PROVE QuietStep
  BY <1>11, FailQuiet DEF PublishFails, HoldsLock
<1>12. ASSUME NEW ok \in BOOLEAN, BootGasDefaults(t, ok) PROVE QuietStep
  <2> DEFINE s == IF Visible(t) THEN [store EXCEPT ![t].ready = TRUE] ELSE store
  <2>1. UNCHANGED <<pc, lock, inbox>>
    BY <1>12 DEF BootGasDefaults
  <2>2. /\ s \in [TxIds -> TxMeta] /\ OnlyEnds(store, s)
        /\ s[t].status = store[t].status
    BY <1>ty, FieldTyped, FieldEnds, OnlyEndsSame
  <2>3. \/ store' = s /\ req' = req
        \/ Visible(t) /\ SetTxStatus(s, {t}, "failed", cur)
    BY <1>12 DEF BootGasDefaults
  <2> HIDE DEF s
  <2>4. Visible(t) => \A u \in {t} \cap TxIds : s[u].status # "generated"
    BY <2>2 DEF Visible, Listed, ListedStatus
  <2>5. OnlyEnds(store, store') /\ \A u \in TxIds : req'[u] = "checking" => req[u] = "checking"
    <3>1. "failed" \in Later
      BY DEF Later
    <3>2. CASE store' = s /\ req' = req
      BY <2>2, <3>2
    <3>3. CASE Visible(t) /\ SetTxStatus(s, {t}, "failed", cur)
      BY <1>ty, <2>2, <2>4, <3>1, <3>3, SetQuiet
    <3> QED BY <2>3, <3>2, <3>3
  <2> QED BY <2>1, <2>5, LockSame DEF QuietStep
<1> QED BY <1>1, <1>2, <1>3, <1>4, <1>5, <1>6, <1>7, <1>8, <1>9, <1>10, <1>11, <1>12

LEMMA ControllerNonces ==
  ASSUME IInv, NEW t \in TxIds, ControllerStep(t)
  PROVE  NonceProtocol'
<1>1. todo' = todo /\ disk' = disk
  BY DEF ControllerStep, trackVars, hostVars
<1>2. ASSUME NEW n \in 0..MaxNonce, NonceArrives(t, n) PROVE NonceProtocol'
  <2>1. inbox' = inbox
    BY <1>2 DEF NonceArrives, envVars, uiVars
  <2> QED BY <1>1, <1>2, <2>1, NonceArrivesSafe
<1>3. ASSUME PublishTransaction(t), Visible(t) PROVE NonceProtocol'
  <2>1. inbox' = inbox
    BY <1>3 DEF PublishTransaction, envVars, uiVars
  <2> QED BY <1>1, <1>3, <2>1, PublishSafe
<1>4. CASE QuietStep
  BY <1>4, QuietPreserves
<1>5. CASE StartStep(t)
  BY <1>5, StartPreserves
<1> QED BY <1>1, <1>2, <1>3, <1>4, <1>5, QuietActions, StartActions DEF ControllerStep

-----------------------------------------------------------------------------
(* The steps of the tracker, of the resubmission loop and of the host. *)

LEMMA EndRoundTodo ==
  ASSUME \/ EndRound(store')
         \/ todo' = todo
  PROVE  \A x \in todo' : x \in todo \/ store'[x[2]].status \in {"approved", "submitted"}
BY DEF EndRound, PendingList

(* A step that leaves the approvals and the inbox alone. *)
LEMMA FrameQuiet ==
  ASSUME IInv, OnlyEnds(store, store'), UNCHANGED <<pc, lock, inbox>>,
         \A u \in TxIds : req'[u] = "checking" => req[u] = "checking",
         \A x \in todo' : x \in todo \/ store'[x[2]].status \in {"approved", "submitted"},
         disk' \in {disk, store}
  PROVE  QuietStep
BY LockSame DEF QuietStep

LEMMA TrackerQuiet ==
  ASSUME IInv, TrackerStep
  PROVE  QuietStep
<1> USE DEF storeVars, pipeVars, uiVars, checkFrame, resubFrame
<1>ty. store \in [TxIds -> TxMeta] /\ req \in [TxIds -> Requests] /\ TypeOK
  BY DEF IInv, TypeOK
<1>0. disk' = disk
  BY DEF TrackerStep, hostVars
<1>la. "failed" \in Later /\ "dropped" \in Later /\ "confirmed" \in Later
  BY DEF Later
<1>1. ASSUME UpdatePendingTxs PROVE QuietStep
  <2> DEFINE tooOld == WithStatus("approved") \cap old
             noHash == {t \in WithStatus("submitted") : store[t].hash = None}
             failed == tooOld \cup noHash
             taken  == {t \in WithStatus("submitted") \ noHash : NonceIsTaken(t)}
             asks   == WithStatus("submitted") \ (noHash \cup taken)
             s      == WithStatusSet(store, failed, "failed")
  <2>1. /\ store' = WithStatusSet(s, taken, "dropped")
        /\ req' = Settle(failed, "failed")
        /\ IF asks = {} THEN EndRound(store') ELSE glob' = TRUE /\ UNCHANGED todo
        /\ UNCHANGED <<pc, lock, inbox>>
    BY <1>1 DEF UpdatePendingTxs
  <2>2. /\ \A t \in failed \cap TxIds : store[t].status # "generated"
        /\ \A t \in taken \cap TxIds : store[t].status = "submitted"
    BY DEF WithStatus
  <2> HIDE DEF failed, taken, asks
  <2>3. OnlyEnds(store, s)
    BY <2>2, <1>ty, <1>la, EndsStatusSet
  <2>4. s \in [TxIds -> TxMeta]
    BY <1>ty, StatusSetTyped DEF Status, ListedStatus
  <2>5. \A t \in taken \cap TxIds : s[t].status # "generated"
    BY <2>2, <1>ty DEF WithStatusSet, TxMeta
  <2> HIDE DEF s
  <2>6. OnlyEnds(store, store')
    BY <2>1, <2>3, <2>4, <2>5, <1>la, EndsStatusSet, EndsTransitive
  <2>7. \A u \in TxIds : req'[u] = "checking" => req[u] = "checking"
    BY <2>1, <1>ty DEF Settle
  <2>8. \A x \in todo' : x \in todo \/ store'[x[2]].status \in {"approved", "submitted"}
    BY <2>1, EndRoundTodo
  <2> QED BY <2>1, <2>6, <2>7, <2>8, <1>0, FrameQuiet
<1>2. ASSUME NEW c \in checks, ConfirmTransaction(c) PROVE QuietStep
  <2> DEFINE t == c.tx
  <2> DEFINE s == WithStatusSet(store, NonceDuplicates(t), "dropped")
  <2>1. /\ CheckDone(c, store') /\ UNCHANGED <<pc, lock, inbox>>
        /\ \/ Visible(t) /\ SetTxStatus(s, {t}, "confirmed", cur)
           \/ UNCHANGED storeVars
    BY <1>2 DEF ConfirmTransaction
  <2>2. \A u \in NonceDuplicates(t) \cap TxIds : store[u].status # "generated"
    BY DEF NonceDuplicates, Visible, Listed, ListedStatus
  <2>3. OnlyEnds(store, s)
    BY <2>2, <1>ty, <1>la, EndsStatusSet
  <2>4. s \in [TxIds -> TxMeta]
    BY <1>ty, StatusSetTyped DEF Status, ListedStatus
  <2>5. Visible(t) => \A u \in {t} \cap TxIds : s[u].status # "generated"
    BY <1>ty DEF WithStatusSet, Visible, Listed, ListedStatus, TxMeta
  <2> HIDE DEF s
  <2>6. OnlyEnds(store, store') /\ \A u \in TxIds : req'[u] = "checking" => req[u] = "checking"
    <3>1. CASE Visible(t) /\ SetTxStatus(s, {t}, "confirmed", cur)
      BY <3>1, <2>3, <2>4, <2>5, <1>ty, <1>la, SetQuiet
    <3>2. CASE UNCHANGED storeVars
      BY <3>2, OnlyEndsSame
    <3> QED BY <2>1, <3>1, <3>2
  <2>7. \A x \in todo' : x \in todo \/ store'[x[2]].status \in {"approved", "submitted"}
    BY <2>1, EndRoundTodo DEF CheckDone
  <2> QED BY <2>1, <2>6, <2>7, <1>0, FrameQuiet
<1>3. ASSUME NEW c \in checks, ReceiptMissing(c) PROVE QuietStep
  <2>1. UNCHANGED <<storeVars, todo, pc, lock, inbox>>
    BY <1>3 DEF ReceiptMissing
  <2> QED BY <2>1, <1>0, OnlyEndsSame, FrameQuiet
<1>4. ASSUME NEW c \in checks, ReceiptFails(c) PROVE QuietStep
  <2>1. UNCHANGED <<storeVars, pc, lock, inbox>> /\ CheckDone(c, store')
    BY <1>4 DEF ReceiptFails
  <2>2. \A x \in todo' : x \in todo \/ store'[x[2]].status \in {"approved", "submitted"}
    BY <2>1, EndRoundTodo DEF CheckDone
  <2> QED BY <2>1, <2>2, <1>0, OnlyEndsSame, FrameQuiet
<1>5. ASSUME NEW c \in checks, NEW n \in 0..MaxNonce, NonceCount(c, n) PROVE QuietStep
  <2> DEFINE t == c.tx
  <2>1. /\ CheckDone(c, store') /\ UNCHANGED <<pc, lock, inbox>>
        /\ \/ Visible(t) /\ SetTxStatus(store, {t}, "dropped", cur)
           \/ UNCHANGED storeVars
    BY <1>5 DEF NonceCount
  <2>2. Visible(t) => \A u \in {t} \cap TxIds : store[u].status # "generated"
    BY DEF Visible, Listed, ListedStatus
  <2>3. OnlyEnds(store, store') /\ \A u \in TxIds : req'[u] = "checking" => req[u] = "checking"
    <3>1. CASE Visible(t) /\ SetTxStatus(store, {t}, "dropped", cur)
      BY <3>1, <2>2, <1>ty, <1>la, OnlyEndsSame, SetQuiet
    <3>2. CASE UNCHANGED storeVars
      BY <3>2, OnlyEndsSame
    <3> QED BY <2>1, <3>1, <3>2
  <2>4. \A x \in todo' : x \in todo \/ store'[x[2]].status \in {"approved", "submitted"}
    BY <2>1, EndRoundTodo DEF CheckDone
  <2> QED BY <2>1, <2>3, <2>4, <1>0, FrameQuiet
<1>6. ASSUME NEW c \in checks, NonceCountFails(c) PROVE QuietStep
  <2>1. UNCHANGED <<storeVars, pc, lock, inbox>>
    BY <1>6 DEF NonceCountFails
  <2>2. \A x \in todo' : x \in todo \/ store'[x[2]].status \in {"approved", "submitted"}
    BY <1>6, <2>1, EndRoundTodo DEF NonceCountFails
  <2> QED BY <2>1, <2>2, <1>0, OnlyEndsSame, FrameQuiet
<1>7. ASSUME NEW stop \in BOOLEAN, ResubmitReturns(stop) PROVE QuietStep
  <2>1. UNCHANGED <<storeVars, pc, lock, inbox>> /\ todo' \subseteq todo
    BY <1>7 DEF ResubmitReturns
  <2> QED BY <2>1, <1>0, OnlyEndsSame, FrameQuiet
<1>8. ASSUME NEW t \in TxIds, GetOld(t) PROVE QuietStep
  <2>1. UNCHANGED <<storeVars, pc, lock, inbox, todo>>
    BY <1>8 DEF GetOld
  <2> QED BY <2>1, <1>0, OnlyEndsSame, FrameQuiet
<1> QED BY <1>1, <1>2, <1>3, <1>4, <1>5, <1>6, <1>7, <1>8 DEF TrackerStep

LEMMA ResubmitNonces ==
  ASSUME IInv, ResubmitStep
  PROVE  NonceProtocol'
<1> USE DEF storeVars, pipeVars, uiVars, resubFrame
<1>ty. /\ store \in [TxIds -> TxMeta] /\ pc \in [TxIds -> InPipeline \cup {"idle"}]
       /\ todo \in SUBSET ({0, 1} \X TxIds)
  BY DEF IInv, TypeOK
<1>0. disk' = disk
  BY DEF ResubmitStep, hostVars
<1>1. ASSUME NEW x \in todo, ResubmitLater(x) PROVE NonceProtocol'
  <2>1. UNCHANGED <<storeVars, pc, lock, inbox>> /\ todo' \subseteq todo
    BY <1>1 DEF ResubmitLater, NextTodo
  <2> QED BY <2>1, <1>0, OnlyEndsSame, FrameQuiet, QuietPreserves
<1>2. ASSUME NEW x \in todo, ResubmitPublish(x) PROVE NonceProtocol'
  <2>1. UNCHANGED <<storeVars, pc, lock, inbox>> /\ todo' \subseteq todo
    BY <1>2 DEF ResubmitPublish, NextTodo
  <2> QED BY <2>1, <1>0, OnlyEndsSame, FrameQuiet, QuietPreserves
<1>3. ASSUME NEW x \in todo, ResubmitApprove(x) PROVE NonceProtocol'
  <2> DEFINE t == x[2]
  <2>1. /\ StartApproval(t, store) /\ todo' \subseteq todo
        /\ UNCHANGED <<lock, inbox>>
    BY <1>3 DEF ResubmitApprove, NextTodo
  <2>2. t \in TxIds
    BY <1>ty
  <2>3. ~BeforeApproval(t) /\ (req[t] = "checking" => store[t].status = "generated")
    BY <2>2 DEF IInv, NonceProtocol, UntouchedBeforeApproval
  <2> HIDE DEF t
  <2>4. CASE /\ ~InProcessOfSigning(t)
             /\ SetTxStatus(store, {t}, "approved", cur)
             /\ pc' = [pc EXCEPT ![t] = "gate"]
    <3>1. pc[t] = "idle"
      BY <2>4 DEF InProcessOfSigning
    <3>2. \A u \in TxIds : store'[u] = IF u = t THEN [store[u] EXCEPT !.status = "approved"]
                                       ELSE store[u]
      BY <2>4 DEF SetTxStatus, WithStatusSet
    <3>3. store'[t].status = "approved" /\ \A u \in TxIds \ {t} : store'[u] = store[u]
      BY <3>2, <2>2, <1>ty DEF TxMeta
    <3>4. req' = req
      BY <2>4 DEF SetTxStatus, FinishedStates
    <3>5. "approve" \notin inbox[t] /\ req[t] # "checking"
      BY <2>3 DEF BeforeApproval
    <3>6. \A m : EndsAt(m, m)
      BY DEF EndsAt
    <3>7. StartStep(t)
      BY <2>1, <2>2, <2>4, <3>1, <3>3, <3>4, <3>5, <3>6, <1>0, <1>ty
         DEF StartStep, BeforeApproval
    <3> QED BY <2>2, <3>7, StartPreserves
  <2>5. CASE UNCHANGED <<store, req, pc>>
    BY <2>1, <2>5, <1>0, OnlyEndsSame, FrameQuiet, QuietPreserves
  <2> QED BY <2>1, <2>4, <2>5 DEF StartApproval
<1> QED BY <1>1, <1>2, <1>3 DEF ResubmitStep

(* _onBootCleanUp only ends transactions, whichever chain it is run for. *)
LEMMA BootQuiet ==
  ASSUME IInv, NEW s \in [TxIds -> TxMeta], OnlyEnds(store, s), NEW c, OnBootCleanUp(s, c),
         UNCHANGED <<pc, lock, inbox, todo, disk>>
  PROVE  QuietStep
<1>1. SetTxStatus(s, StuckApproved(s, c), "failed", c)
  BY DEF OnBootCleanUp
<1>2. \A t \in StuckApproved(s, c) \cap TxIds : s[t].status # "generated"
  BY DEF StuckApproved
<1>3. TypeOK /\ "failed" \in Later
  BY DEF IInv, Later
<1>4. OnlyEnds(store, store') /\ \A u \in TxIds : req'[u] = "checking" => req[u] = "checking"
  BY <1>1, <1>2, <1>3, SetQuiet
<1> QED BY <1>4, FrameQuiet

LEMMA SwitchQuiet ==
  ASSUME IInv, NEW c, NEW s \in [TxIds -> TxMeta], OnlyEnds(store, s), SwitchTo(c, s)
  PROVE  QuietStep
<1>1. OnBootCleanUp(WithoutUnapproved(s), c) /\ UNCHANGED <<pc, lock, inbox, todo, disk>>
  BY DEF SwitchTo, pipeVars, uiVars, trackVars
<1>2. WithoutUnapproved(s) \in [TxIds -> TxMeta]
  BY StatusSetTyped DEF WithoutUnapproved, Status
<1>3. OnlyEnds(s, WithoutUnapproved(s))
  <2>1. \A t \in {u \in TxIds : s[u].status = "unapproved"} \cap TxIds : s[t].status # "generated"
    OBVIOUS
  <2>2. "removed" \in Later
    BY DEF Later
  <2> QED BY <2>1, <2>2, EndsStatusSet DEF WithoutUnapproved
<1> QED BY <1>1, <1>2, <1>3, EndsTransitive, BootQuiet

LEMMA RestartSafe ==
  ASSUME IInv, Restart
  PROVE  NonceProtocol'
<1>ty. disk \in [TxIds -> TxMeta] /\ req \in [TxIds -> Requests]
  BY DEF IInv, TypeOK
<1>1. /\ pc' = [t \in TxIds |-> "idle"] /\ lock' = None /\ disk' = disk /\ todo' = {}
      /\ inbox' = [t \in TxIds |-> {}]
      /\ req' = [t \in TxIds |-> IF req[t] \in {"checking", "gas", "waiting"}
                                 THEN "lost" ELSE req[t]]
      /\ store' = WithStatusSet(FromDisk, StuckApproved(FromDisk, cur), "failed")
  BY DEF Restart
<1>2. \A t \in TxIds : /\ store'[t].nonce = disk[t].nonce /\ store'[t].chain = disk[t].chain
                       /\ store'[t].custom = disk[t].custom /\ store'[t].fixed = disk[t].fixed
                       /\ store'[t].status = "submitted" => disk[t].status = "submitted"
  <2> SUFFICES ASSUME NEW t \in TxIds
               PROVE  /\ store'[t].nonce = disk[t].nonce /\ store'[t].chain = disk[t].chain
                      /\ store'[t].custom = disk[t].custom /\ store'[t].fixed = disk[t].fixed
                      /\ store'[t].status = "submitted" => disk[t].status = "submitted"
    OBVIOUS
  <2> DEFINE m == FromDisk[t]
  <2>0. disk[t] \in TxMeta
    BY <1>ty
  <2>1. m = disk[t] \/ m = [disk[t] EXCEPT !.status = "removed"]
    BY DEF FromDisk
  <2>2. store'[t] = m \/ store'[t] = [m EXCEPT !.status = "failed"]
    BY <1>1 DEF WithStatusSet
  <2> HIDE DEF m
  <2>3. m \in TxMeta
    <3>1. "removed" \in Status
      BY DEF Status
    <3>2. [disk[t] EXCEPT !.status = "removed"] \in TxMeta
      BY <2>0, <3>1, MetaFieldTyped
    <3> QED BY <2>0, <2>1, <3>2
  <2>4. /\ m.nonce = disk[t].nonce /\ m.chain = disk[t].chain
        /\ m.custom = disk[t].custom /\ m.fixed = disk[t].fixed
        /\ m.status = "submitted" => disk[t].status = "submitted"
    BY <2>0, <2>1 DEF TxMeta
  <2>5. /\ store'[t].nonce = m.nonce /\ store'[t].chain = m.chain
        /\ store'[t].custom = m.custom /\ store'[t].fixed = m.fixed
        /\ store'[t].status = "submitted" => m.status = "submitted"
    BY <2>2, <2>3 DEF TxMeta
  <2> QED BY <2>4, <2>5
<1>3. LockDiscipline'
  BY <1>1, ConstantsTyped DEF LockDiscipline, HoldsLock
<1>4. HolderApart'
  BY <1>1 DEF HolderApart, HasNonce
<1>5. SubmittedApart(store)'
  <2> SUFFICES ASSUME NEW x \in TxIds, NEW u \in TxIds,
                      store'[x].status = "submitted", store'[u].status = "submitted",
                      Compete(store', x, u)
               PROVE  FALSE
    BY DEF SubmittedApart, Compete, AutoNonce
  <2>1. Compete(disk, x, u)
    BY <1>2 DEF Compete, AutoNonce
  <2> QED BY <2>1, <1>2 DEF IInv, NonceProtocol, SubmittedApart
<1>6. SubmittedApart(disk)'
  BY <1>1 DEF IInv, NonceProtocol, SubmittedApart, Compete, AutoNonce
<1>7. UntouchedBeforeApproval'
  BY <1>1 DEF UntouchedBeforeApproval
<1>8. InProcessNotSubmitted'
  BY <1>1 DEF InProcessNotSubmitted, InProcessOfSigning
<1> QED BY <1>3, <1>4, <1>5, <1>6, <1>7, <1>8 DEF NonceProtocol

LEMMA ResetEnds ==
  ASSUME IInv
  PROVE  WithoutCurrentChain \in [TxIds -> TxMeta] /\ OnlyEnds(store, WithoutCurrentChain)
<1>ty. store \in [TxIds -> TxMeta]
  BY DEF IInv, TypeOK
<1>1. WithoutCurrentChain \in [TxIds -> TxMeta]
  BY <1>ty, StatusSetTyped DEF WithoutCurrentChain, Status
<1>2. \A t \in {u \in TxIds : Visible(u)} \cap TxIds : store[t].status # "generated"
  BY DEF Visible, Listed, ListedStatus
<1>3. "removed" \in Later
  BY DEF Later
<1> QED BY <1>1, <1>2, <1>3, <1>ty, EndsStatusSet DEF WithoutCurrentChain

LEMMA HostNonces ==
  ASSUME IInv, HostStep
  PROVE  NonceProtocol'
<1>ty. store \in [TxIds -> TxMeta]
  BY DEF IInv, TypeOK
<1>1. ASSUME NEW c \in Chains, SetProviderConfig(c) PROVE NonceProtocol'
  BY <1>1, <1>ty, OnlyEndsSame, SwitchQuiet, QuietPreserves DEF SetProviderConfig
<1>2. ASSUME ResetAccount PROVE NonceProtocol'
  BY <1>2, ResetEnds, SwitchQuiet, QuietPreserves DEF ResetAccount
<1>3. ASSUME NEW ok \in BOOLEAN, LookupNetwork(ok) PROVE NonceProtocol'
  <2>1. OnBootCleanUp(store, cur) /\ UNCHANGED <<pc, lock, inbox, todo, disk>>
    BY <1>3 DEF LookupNetwork, pipeVars, uiVars, trackVars, hostVars
  <2> QED BY <2>1, <1>ty, OnlyEndsSame, BootQuiet, QuietPreserves
<1>4. ASSUME PersistData PROVE NonceProtocol'
  <2>1. disk' = store /\ UNCHANGED <<storeVars, pc, lock, inbox, todo>>
    BY <1>4 DEF PersistData, pipeVars, uiVars, trackVars
  <2> QED BY <2>1, OnlyEndsSame, FrameQuiet, QuietPreserves DEF storeVars
<1>5. ASSUME Restart PROVE NonceProtocol'
  BY <1>5, RestartSafe
<1> QED BY <1>1, <1>2, <1>3, <1>4, <1>5 DEF HostStep

-----------------------------------------------------------------------------
(* The invariant and what follows from it. *)

LEMMA InitNonces == Init => NonceProtocol
<1> SUFFICES ASSUME Init PROVE NonceProtocol
  OBVIOUS
<1> USE DEF Init
<1>1. LockDiscipline /\ HolderApart
  BY ConstantsTyped DEF LockDiscipline, HolderApart, HoldsLock, HasNonce
<1>2. SubmittedApart(store) /\ SubmittedApart(disk)
  BY DEF SubmittedApart, Blank
<1>3. UntouchedBeforeApproval /\ InProcessNotSubmitted
  BY DEF UntouchedBeforeApproval, InProcessNotSubmitted, InProcessOfSigning
<1> QED BY <1>1, <1>2, <1>3 DEF NonceProtocol

LEMMA NextNonces == IInv /\ [Next]_vars => NonceProtocol'
<1> SUFFICES ASSUME IInv, [Next]_vars PROVE NonceProtocol'
  OBVIOUS
<1>1. CASE UNCHANGED vars
  <2>1. UNCHANGED <<store, req, pc, lock, inbox, todo, disk>>
    BY <1>1 DEF vars, storeVars, pipeVars, uiVars, trackVars, hostVars
  <2> QED BY <2>1, OnlyEndsSame, FrameQuiet, QuietPreserves
<1>2. ASSUME NEW c \in Chains, Mine(c) PROVE NonceProtocol'
  <2>1. UNCHANGED <<store, req, pc, lock, inbox, todo, disk>>
    BY <1>2 DEF Mine, storeVars, pipeVars, uiVars, trackVars, hostVars
  <2> QED BY <2>1, OnlyEndsSame, FrameQuiet, QuietPreserves
<1>3. CASE TrackerStep
  BY <1>3, TrackerQuiet, QuietPreserves
<1> QED BY <1>1, <1>2, <1>3, ControllerNonces, ResubmitNonces, HostNonces DEF Next

(* The nonce lock protects a nonce from its computation until the           *)
(* transaction counts as submitted, through failures, retries, network      *)
(* switches, resets and restarts.                                           *)
THEOREM NonceProtocolHolds == Spec => []NonceProtocol
<1>1. Init => IInv
  BY InitTyped, InitNonces DEF IInv
<1>2. IInv /\ [Next]_vars => IInv'
  BY NextTyped, NextNonces DEF IInv
<1>3. IInv => NonceProtocol
  BY DEF IInv
<1> QED BY <1>1, <1>2, <1>3, PTL DEF Spec

(* Two transactions of a chain waiting in the network never share a nonce   *)
(* the tracker chose (approveTransaction).                                  *)
THEOREM NoncesNeverShared == Spec => []NoSharedNonce
<1>1. NonceProtocol => NoSharedNonce
  BY DEF NonceProtocol, NoSharedNonce
<1> QED BY <1>1, NonceProtocolHolds, PTL

(* The nonce mutex is held exactly while an approval is between the nonce's *)
(* computation and its last step: no error path leaks it.                   *)
THEOREM LockNeverLeaked == Spec => []LockDiscipline
<1>1. NonceProtocol => LockDiscipline
  BY DEF NonceProtocol
<1> QED BY <1>1, NonceProtocolHolds, PTL

-----------------------------------------------------------------------------
(* The transaction subsystem implements the nonce ledger: every step of it  *)
(* is a step of NonceLedger on the claims of the submitted transactions.    *)

Slots == (Chains \cup {None}) \X (Nonces \cup {None})

LEMMA ClaimsTyped ==
  ASSUME NEW s \in [TxIds -> TxMeta]
  PROVE  ClaimsOf(s) \in [TxIds -> Slots \cup {None}]
BY DEF ClaimsOf, TxMeta, Slots

(* A transaction that does not wait, or keeps what it competes with. *)
LEMMA ClaimEnds ==
  ASSUME NEW s, NEW s2, NEW t \in TxIds,
         EndsAt(s[t], s2[t]) \/ s2[t].status # "submitted"
  PROVE  ClaimsOf(s2)[t] \in {ClaimsOf(s)[t], None}
BY DEF ClaimsOf, EndsAt, AutoNonce, Later

LEMMA ClaimSame ==
  ASSUME NEW s, NEW s2,
         \A t \in TxIds : \/ s2[t] = s[t]
                          \/ s2[t].status # "submitted" /\ s[t].status # "submitted"
  PROVE  ClaimsOf(s2) = ClaimsOf(s)
BY DEF ClaimsOf, AutoNonce

(* The lock stays with whoever has it: some claims end, none begins. *)
LEMMA Resolving ==
  ASSUME TypeOK', lock' = lock, disk' = disk,
         \A t \in TxIds : EndsAt(store[t], store'[t]) \/ store'[t].status # "submitted"
  PROVE  Ledger!LedgerNext
<1>1. \A t \in TxIds : ClaimsOf(store')[t] \in {ClaimsOf(store)[t], None}
  BY ClaimEnds
<1>2. ClaimsOf(store') \in [TxIds -> Slots \cup {None}]
  BY ClaimsTyped DEF TypeOK
<1>3. ClaimsOf(store)' = ClaimsOf(store') /\ ClaimsOf(disk)' = ClaimsOf(disk)
  BY DEF ClaimsOf, AutoNonce
<1>4. Ledger!Resolve
  BY <1>1, <1>2, <1>3 DEF Ledger!Resolve, Slots
<1> QED BY <1>4 DEF Ledger!LedgerNext

(* The lock is given back and nobody starts or stops to wait. *)
LEMMA Releasing ==
  ASSUME lock' = None, disk' = disk,
         \A t \in TxIds : \/ store'[t] = store[t]
                          \/ store'[t].status # "submitted" /\ store[t].status # "submitted"
  PROVE  Ledger!LedgerNext
<1>1. ClaimsOf(store') = ClaimsOf(store)
  BY ClaimSame
<1>2. ClaimsOf(store)' = ClaimsOf(store') /\ ClaimsOf(disk)' = ClaimsOf(disk)
  BY DEF ClaimsOf, AutoNonce
<1>3. Ledger!Release
  BY <1>1, <1>2 DEF Ledger!Release
<1> QED BY <1>3 DEF Ledger!LedgerNext

LEMMA FailReleases ==
  ASSUME IInv, NEW t \in TxIds, pc[t] \in HoldsLock, NEW s \in [TxIds -> TxMeta],
         FailApproval(t, s), disk' = disk, s[t].status = store[t].status,
         \A u \in TxIds \ {t} : s[u] = store[u]
  PROVE  Ledger!LedgerNext
<1>1. store[t].status # "submitted" /\ lock' = None
  <2>1. pc[t] # "idle"
    BY DEF HoldsLock
  <2> QED BY <2>1, InProcess DEF FailApproval, ReleaseLock
<1>2. \A u \in TxIds : store'[u] = s[u] \/ (u = t /\ store'[u] = [s[u] EXCEPT !.status = "failed"])
  <2>1. store' = s \/ store' = WithStatusSet(s, {t}, "failed")
    BY DEF FailApproval, MarkFailed, SetTxStatus
  <2>2. \A u \in TxIds : WithStatusSet(s, {t}, "failed")[u] =
                            IF u = t THEN [s[u] EXCEPT !.status = "failed"] ELSE s[u]
    BY DEF WithStatusSet
  <2> HIDE DEF WithStatusSet
  <2> QED BY <2>1, <2>2
<1>3. store'[t].status # "submitted"
  <2>1. s[t] \in TxMeta
    OBVIOUS
  <2> QED BY <1>1, <1>2, <2>1 DEF TxMeta
<1>4. \A u \in TxIds \ {t} : store'[u] = store[u]
  BY <1>2
<1>5. \A u \in TxIds : \/ store'[u] = store[u]
                       \/ store'[u].status # "submitted" /\ store[u].status # "submitted"
  BY <1>1, <1>3, <1>4
<1> QED BY <1>1, <1>5, Releasing

LEMMA QuietResolves ==
  ASSUME TypeOK', OnlyEnds(store, store'), lock' = lock, disk' = disk
  PROVE  Ledger!LedgerNext
BY Resolving DEF OnlyEnds

LEMMA StartResolves ==
  ASSUME TypeOK', NEW t \in TxIds, StartStep(t)
  PROVE  Ledger!LedgerNext
BY Resolving DEF StartStep

LEMMA NonceArrivesLedger ==
  ASSUME IInv, TypeOK', NEW t \in TxIds, NEW n, NonceArrives(t, n), disk' = disk
  PROVE  Ledger!LedgerNext
<1>ty. store \in [TxIds -> TxMeta] /\ store[t] \in TxMeta
  BY DEF IInv, TypeOK
<1>pc. pc[t] = "nonce" /\ pc[t] \in HoldsLock /\ pc[t] # "idle"
  BY DEF NonceArrives, HoldsLock
<1>st. store[t].status # "submitted"
  BY <1>pc, InProcess
<1>1. PICK next \in Nonces :
        LET own   == IF store[t].fixed THEN store[t].nonce ELSE next
            nonce == IF store[t].custom # None THEN store[t].custom ELSE own
            s     == IF Listed(t) THEN [store EXCEPT ![t].nonce = nonce] ELSE store
        IN IF Visible(t)
           THEN /\ store' = s
                /\ UNCHANGED <<listening, req, lock, tries>>
           ELSE FailApproval(t, s)
  BY DEF NonceArrives
<1> DEFINE own   == IF store[t].fixed THEN store[t].nonce ELSE next
           nonce == IF store[t].custom # None THEN store[t].custom ELSE own
           s     == IF Listed(t) THEN [store EXCEPT ![t].nonce = nonce] ELSE store
<1>2. \/ store' = s /\ lock' = lock
      \/ FailApproval(t, s)
  BY <1>1
<1>3. s \in [TxIds -> TxMeta]
  <2>1. nonce \in Nonces \cup {None}
    BY <1>ty DEF TxMeta
  <2> HIDE DEF nonce
  <2> QED BY <2>1, <1>ty, FieldTyped
<1>4. s[t].status = store[t].status /\ \A u \in TxIds \ {t} : s[u] = store[u]
  <2> HIDE DEF nonce
  <2> QED BY <1>ty DEF TxMeta
<1> HIDE DEF s, nonce, own
<1>5. CASE store' = s /\ lock' = lock
  <2>1. \A u \in TxIds : EndsAt(store[u], store'[u]) \/ store'[u].status # "submitted"
    BY <1>4, <1>5, <1>st DEF EndsAt
  <2> QED BY <2>1, <1>5, Resolving
<1>6. CASE FailApproval(t, s)
  BY <1>3, <1>4, <1>6, <1>pc, FailReleases
<1> QED BY <1>2, <1>5, <1>6

(* The holder's nonce becomes its claim. *)
LEMMA PublishLedger ==
  ASSUME IInv, TypeOK', NEW t \in TxIds, PublishTransaction(t), Visible(t), disk' = disk
  PROVE  Ledger!LedgerNext
<1>ty. store \in [TxIds -> TxMeta] /\ store[t] \in TxMeta
  BY DEF IInv, TypeOK
<1>pc. pc[t] \in HoldsLock /\ pc[t] # "idle" /\ pc[t] \in HasNonce
  BY DEF PublishTransaction, HoldsLock, HasNonce
<1>al. lock = t /\ store[t].status # "submitted"
  BY <1>pc, HolderAlone, InProcess
<1>fr. /\ SetTxStatus([store EXCEPT ![t].hash = store[t].raw], {t}, "submitted", cur)
       /\ lock' = None
  BY DEF PublishTransaction, ReleaseLock
<1>me. /\ \A u \in TxIds \ {t} : store'[u] = store[u]
       /\ store'[t] = [store[t] EXCEPT !.hash = store[t].raw, !.status = "submitted"]
  BY <1>fr, <1>ty DEF SetTxStatus, WithStatusSet
<1>ke. /\ store'[t].nonce = store[t].nonce /\ store'[t].chain = store[t].chain
       /\ store'[t].custom = store[t].custom /\ store'[t].fixed = store[t].fixed
       /\ store'[t].status = "submitted"
  BY <1>me, <1>ty DEF TxMeta
<1>cl. ClaimsOf(store)' = ClaimsOf(store') /\ ClaimsOf(disk)' = ClaimsOf(disk)
  BY DEF ClaimsOf, AutoNonce
<1> DEFINE slot == <<store[t].chain, store[t].nonce>>
<1>1. CASE AutoNonce(store, t)
  <2>1. slot \in Slots /\ slot # None
    BY <1>ty, NoneIsNoSlot DEF TxMeta, Slots
  <2>2. \A u \in TxIds \ {t} : ClaimsOf(store)[u] # slot
    <3> SUFFICES ASSUME NEW u \in TxIds \ {t}, ClaimsOf(store)[u] = slot PROVE FALSE
      OBVIOUS
    <3>1. /\ store[u].status = "submitted" /\ AutoNonce(store, u)
          /\ <<store[u].chain, store[u].nonce>> = slot
      BY <2>1 DEF ClaimsOf
    <3>2. Compete(store, t, u)
      BY <1>1, <3>1 DEF Compete
    <3> QED BY <1>pc, <3>1, <3>2 DEF IInv, NonceProtocol, HolderApart
  <2>3. ClaimsOf(store') = [ClaimsOf(store) EXCEPT ![t] = slot]
    <3>1. ClaimsOf(store')[t] = slot
      BY <1>1, <1>ke DEF ClaimsOf, AutoNonce
    <3>2. \A u \in TxIds \ {t} : ClaimsOf(store')[u] = ClaimsOf(store)[u]
      BY <1>me DEF ClaimsOf, AutoNonce
    <3>3. ClaimsOf(store) \in [TxIds -> Slots \cup {None}] /\ ClaimsOf(store') \in [TxIds -> Slots \cup {None}]
      BY <1>ty, ClaimsTyped DEF TypeOK
    <3> HIDE DEF slot
    <3> QED BY <3>1, <3>2, <3>3
  <2> HIDE DEF slot
  <2>4. Ledger!Claim(t, slot)
    BY <1>al, <1>fr, <1>cl, <2>2, <2>3 DEF Ledger!Claim
  <2> QED BY <2>1, <2>4 DEF Ledger!LedgerNext, Slots
<1>2. CASE ~AutoNonce(store, t)
  <2>1. \A u \in TxIds : ClaimsOf(store')[u] = ClaimsOf(store)[u]
    BY <1>2, <1>me, <1>ke DEF ClaimsOf, AutoNonce
  <2>2. ClaimsOf(store') = ClaimsOf(store)
    BY <2>1 DEF ClaimsOf
  <2>3. Ledger!Release
    BY <1>fr, <1>cl, <2>2 DEF Ledger!Release
  <2> QED BY <2>3 DEF Ledger!LedgerNext
<1> QED BY <1>1, <1>2

(* TakeNonceLock takes the ledger's lock; nobody's claim changes. *)
LEMMA TakeLedger ==
  ASSUME NEW t \in TxIds, TakeNonceLock(t), disk' = disk
  PROVE  Ledger!LedgerNext
<1>1. lock = None /\ lock' = t /\ store' = store
  BY DEF TakeNonceLock, storeVars
<1>2. ClaimsOf(store)' = ClaimsOf(store) /\ ClaimsOf(disk)' = ClaimsOf(disk)
  BY <1>1 DEF ClaimsOf, AutoNonce
<1>3. Ledger!Acquire(t)
  BY <1>1, <1>2 DEF Ledger!Acquire
<1> QED BY <1>3 DEF Ledger!LedgerNext

LEMMA FailedApprovals ==
  ASSUME IInv, NEW t \in TxIds, disk' = disk,
         \/ NonceFails(t)
         \/ SignFails(t)
         \/ SignTransaction(t) /\ ~Visible(t)
         \/ SwapBalanceFails(t)
         \/ PublishTransaction(t) /\ ~Visible(t)
         \/ PublishFails(t)
  PROVE  Ledger!LedgerNext
<1>1. store \in [TxIds -> TxMeta]
  BY DEF IInv, TypeOK
<1>2. \/ FailApproval(t, store) /\ pc[t] \in HoldsLock
      \/ lock' = None /\ store' = store
  BY DEF NonceFails, SignFails, SignTransaction, SwapBalanceFails, PublishTransaction,
         PublishFails, HoldsLock, ReleaseLock, storeVars
<1>3. CASE FailApproval(t, store) /\ pc[t] \in HoldsLock
  BY <1>1, <1>3, FailReleases
<1>4. CASE lock' = None /\ store' = store
  BY <1>4, Releasing
<1> QED BY <1>2, <1>3, <1>4

LEMMA ControllerLedger ==
  ASSUME IInv, TypeOK', NEW t \in TxIds, ControllerStep(t)
  PROVE  Ledger!LedgerNext
<1>0. todo' = todo /\ disk' = disk
  BY DEF ControllerStep, trackVars, hostVars
<1>1. ASSUME \/ GenerateTx(t)
             \/ AddUnapprovedTransaction(t)
             \/ RefuseTransaction(t)
             \/ \E answer \in Answers : Click(t, answer)
             \/ \E custom \in CustomNonces \cup {None} : UpdateAndApproveTransaction(t, custom)
             \/ \E orig \in TxIds : CreateReplacement(orig, t)
      PROVE  Ledger!LedgerNext
  BY <1>0, <1>1, StartActions, StartResolves
<1>2. ASSUME \/ \E ok \in BOOLEAN : AddTxGasDefaults(t, ok)
             \/ CancelTransaction(t)
             \/ PassGlobalMutex(t)
             \/ SignTransaction(t) /\ Visible(t)
             \/ SwapBalance(t)
             \/ \E ok \in BOOLEAN : BootGasDefaults(t, ok)
      PROVE  Ledger!LedgerNext
  <2>1. QuietStep
    BY <1>0, <1>2, QuietActions
  <2>2. lock' = lock
    BY <1>2 DEF AddTxGasDefaults, CancelTransaction, PassGlobalMutex, SignTransaction,
                SwapBalance, BootGasDefaults, pipeVars
  <2> QED BY <1>0, <2>1, <2>2, QuietResolves DEF QuietStep
<1>3. ASSUME TakeNonceLock(t) PROVE Ledger!LedgerNext
  BY <1>0, <1>3, TakeLedger
<1>4. ASSUME NEW n \in 0..MaxNonce, NonceArrives(t, n) PROVE Ledger!LedgerNext
  BY <1>0, <1>4, NonceArrivesLedger
<1>5. ASSUME PublishTransaction(t), Visible(t) PROVE Ledger!LedgerNext
  BY <1>0, <1>5, PublishLedger
<1> QED BY <1>0, <1>1, <1>2, <1>3, <1>4, <1>5, FailedApprovals DEF ControllerStep

LEMMA ResubmitLedger ==
  ASSUME IInv, TypeOK', ResubmitStep
  PROVE  Ledger!LedgerNext
<1>1. lock' = lock /\ disk' = disk
  BY DEF ResubmitStep, ResubmitLater, ResubmitApprove, ResubmitPublish, hostVars, pipeVars
<1>2. \A u \in TxIds : EndsAt(store[u], store'[u]) \/ store'[u].status # "submitted"
  <2>1. store' = store \/ \E t \in TxIds : store' = WithStatusSet(store, {t}, "approved")
    <3>1. \A x \in todo : x[2] \in TxIds
      BY DEF IInv, TypeOK
    <3> QED BY <3>1 DEF ResubmitStep, ResubmitLater, ResubmitApprove, ResubmitPublish,
                        StartApproval, SetTxStatus, storeVars
  <2>2. \A m : EndsAt(m, m)
    BY DEF EndsAt
  <2>3. ASSUME NEW t \in TxIds, store' = WithStatusSet(store, {t}, "approved"), NEW u \in TxIds
        PROVE  store'[u] = store[u] \/ store'[u].status = "approved"
    <3>1. store[u] \in TxMeta
      BY DEF IInv, TypeOK
    <3>2. store'[u] = store[u] \/ store'[u] = [store[u] EXCEPT !.status = "approved"]
      BY <2>3 DEF WithStatusSet
    <3> QED BY <3>1, <3>2 DEF TxMeta
  <2> QED BY <2>1, <2>2, <2>3
<1> QED BY <1>1, <1>2, Resolving

LEMMA BootLedger ==
  ASSUME IInv, TypeOK', NEW s \in [TxIds -> TxMeta], OnlyEnds(store, s), NEW c,
         OnBootCleanUp(s, c), UNCHANGED <<pc, lock, inbox, todo, disk>>
  PROVE  Ledger!LedgerNext
<1>1. OnlyEnds(store, store')
  BY BootQuiet DEF QuietStep
<1> QED BY <1>1, QuietResolves

LEMMA SwitchLedger ==
  ASSUME IInv, TypeOK', NEW c, NEW s \in [TxIds -> TxMeta], OnlyEnds(store, s), SwitchTo(c, s)
  PROVE  Ledger!LedgerNext
<1>1. OnlyEnds(store, store')
  BY SwitchQuiet DEF QuietStep
<1>2. lock' = lock /\ disk' = disk
  BY DEF SwitchTo, pipeVars
<1> QED BY <1>1, <1>2, QuietResolves

(* Reboot: nothing that waited on the disk is forgotten or made up. *)
LEMMA RestartLedger ==
  ASSUME IInv, Restart
  PROVE  Ledger!LedgerNext
<1>1. /\ lock' = None /\ disk' = disk
      /\ store' = WithStatusSet(FromDisk, StuckApproved(FromDisk, cur), "failed")
  BY DEF Restart
<1>2. ASSUME NEW t \in TxIds
      PROVE  \/ store'[t] = disk[t]
             \/ store'[t].status # "submitted" /\ disk[t].status # "submitted"
  <2> DEFINE m == FromDisk[t]
  <2>0. disk[t] \in TxMeta
    BY DEF IInv, TypeOK
  <2>1. m = disk[t] \/ (m = [disk[t] EXCEPT !.status = "removed"] /\ disk[t].status # "submitted")
    BY DEF FromDisk
  <2>2. store'[t] = m \/ (store'[t] = [m EXCEPT !.status = "failed"] /\ m.status = "approved")
    BY <1>1 DEF WithStatusSet, StuckApproved
  <2> HIDE DEF m
  <2>3. m = disk[t] \/ (m \in TxMeta /\ m.status = "removed" /\ disk[t].status # "submitted")
    <3>1. "removed" \in Status
      BY DEF Status
    <3> QED BY <2>0, <2>1, <3>1, MetaFieldTyped DEF TxMeta
  <2> QED BY <2>0, <2>2, <2>3 DEF TxMeta
<1>3. ClaimsOf(store') = ClaimsOf(disk)
  BY <1>2, ClaimSame
<1>4. ClaimsOf(store)' = ClaimsOf(store') /\ ClaimsOf(disk)' = ClaimsOf(disk)
  BY <1>1 DEF ClaimsOf, AutoNonce
<1>5. Ledger!Reboot
  BY <1>1, <1>3, <1>4 DEF Ledger!Reboot
<1> QED BY <1>5 DEF Ledger!LedgerNext

LEMMA HostLedger ==
  ASSUME IInv, TypeOK', HostStep
  PROVE  Ledger!LedgerNext
<1>ty. store \in [TxIds -> TxMeta]
  BY DEF IInv, TypeOK
<1>1. ASSUME NEW c \in Chains, SetProviderConfig(c) PROVE Ledger!LedgerNext
  BY <1>1, <1>ty, OnlyEndsSame, SwitchLedger DEF SetProviderConfig
<1>2. ASSUME ResetAccount PROVE Ledger!LedgerNext
  BY <1>2, <1>ty, ResetEnds, SwitchLedger DEF ResetAccount
<1>3. ASSUME NEW ok \in BOOLEAN, LookupNetwork(ok) PROVE Ledger!LedgerNext
  <2>1. OnBootCleanUp(store, cur) /\ UNCHANGED <<pc, lock, inbox, todo, disk>>
    BY <1>3 DEF LookupNetwork, pipeVars, uiVars, trackVars, hostVars
  <2> QED BY <2>1, <1>ty, OnlyEndsSame, BootLedger
<1>4. ASSUME PersistData PROVE Ledger!LedgerNext
  <2>1. disk' = store /\ store' = store /\ lock' = lock
    BY <1>4 DEF PersistData, storeVars, pipeVars
  <2>2. ClaimsOf(store)' = ClaimsOf(store) /\ ClaimsOf(disk)' = ClaimsOf(store)
    BY <2>1 DEF ClaimsOf, AutoNonce
  <2>3. Ledger!Save
    BY <2>1, <2>2 DEF Ledger!Save
  <2> QED BY <2>3 DEF Ledger!LedgerNext
<1>5. ASSUME Restart PROVE Ledger!LedgerNext
  BY <1>5, RestartLedger
<1> QED BY <1>1, <1>2, <1>3, <1>4, <1>5 DEF HostStep

LEMMA InitLedger == Init => Ledger!LedgerInit
BY DEF Init, Ledger!LedgerInit, ClaimsOf, Blank

LEMMA NextLedger ==
  ASSUME IInv, TypeOK', [Next]_vars
  PROVE  [Ledger!LedgerNext]_(Ledger!ledger)
<1>1. ASSUME UNCHANGED <<store, lock, disk>> PROVE UNCHANGED Ledger!ledger
  BY <1>1 DEF Ledger!ledger, ClaimsOf, AutoNonce
<1>2. ASSUME UNCHANGED vars PROVE UNCHANGED Ledger!ledger
  BY <1>1, <1>2 DEF vars, storeVars, pipeVars, hostVars
<1>3. ASSUME NEW c \in Chains, Mine(c) PROVE UNCHANGED Ledger!ledger
  BY <1>1, <1>3 DEF Mine, storeVars, pipeVars, hostVars
<1>4. ASSUME TrackerStep PROVE Ledger!LedgerNext
  <2>1. OnlyEnds(store, store')
    BY <1>4, TrackerQuiet DEF QuietStep
  <2>2. lock' = lock /\ disk' = disk
    BY <1>4 DEF TrackerStep, hostVars, UpdatePendingTxs, ConfirmTransaction, ReceiptMissing,
                ReceiptFails, NonceCount, NonceCountFails, ResubmitReturns, GetOld,
                checkFrame, pipeVars
  <2> QED BY <2>1, <2>2, QuietResolves
<1> QED BY <1>2, <1>3, <1>4, ControllerLedger, ResubmitLedger, HostLedger DEF Next

(* The detailed subsystem implements the ledger: only the holder of the     *)
(* nonce lock starts to wait, with a nonce nobody else waits on, and a      *)
(* restart goes back to what was persisted (NonceLedger.tla).               *)
THEOREM LedgerImplemented == Spec => ImplementsLedger
<1>1. Init => IInv
  BY InitTyped, InitNonces DEF IInv
<1>2. IInv /\ [Next]_vars => IInv'
  BY NextTyped, NextNonces DEF IInv
<1>3. IInv /\ [Next]_vars => [Ledger!LedgerNext]_(Ledger!ledger)
  BY NextTyped, NextLedger DEF IInv
<1> QED BY <1>1, <1>2, <1>3, InitLedger, PTL DEF Spec, ImplementsLedger, Ledger!LedgerSpec
=============================================================================
