----------------------------- MODULE VaultProofs -----------------------------
(***************************************************************************)
(* The accounts of the vault and the identities of the preferences follow  *)
(* each other, for any seed phrases, imports and windows: every handler    *)
(* that changes the first ends by putting the second right, and            *)
(* createVaultMutex lets one vault be made at a time.                      *)
(***************************************************************************)
EXTENDS Vault, TLAPS

(* Only who holds createVaultMutex makes a vault.                           *)
OneMaker ==
  \A v, w \in VaultWindows : op[v].at \in Making /\ op[w].at \in Making => v = w

(* A vault that is there has an account of a seed phrase, and an open       *)
(* wallet has a vault, unless one is being restored, out of nothing.        *)
HdStays ==
  /\ vault # {} => vault \cap Hd # {}
  /\ ~sealed /\ (\A w \in VaultWindows : op[w].at # "making") => vault # {}
  /\ \A w \in VaultWindows : op[w].at = "making" => vault = {}

(* Handlers after which the identities are put right.                       *)
Unsettled == {"adding", "imported", "watching", "hardware", "removing", "creating",
              "making", "growing"}
IdentitiesRight ==
  ~sealed /\ (\A w \in VaultWindows : op[w].at \notin Unsettled) =>
    /\ Difference(identities, vault) \subseteq unsynced
    /\ unsynced = {} => selected \in identities

(* What is imported is an import. *)
Importing == {"parsing", "imported", "watching", "device", "hardware"}
OfImports == \A w \in VaultWindows : op[w].at \in Importing => op[w].account \in Imports

KeysInv ==
  /\ VaultTypeOK /\ OfImports /\ OneMaker
  /\ HdStays /\ IdentitiesRight

(* While the first-time flow waits for its new vault nobody has locked one  *)
(* made meanwhile, so none is overwritten.                                  *)
NewIsFirst ==
  \A w \in VaultWindows :
    /\ op[w].at = "wantsNew" /\ vault # {} => ~sealed
    /\ op[w].at = "creating" => vault = {}
KnownExist == identities \ vault \subseteq unsynced

ExposedInv == KeysInv /\ NewIsFirst /\ KnownExist

LEMMA VaultInitInv == VaultInit => ExposedInv
<1> SUFFICES ASSUME VaultInit PROVE ExposedInv
  OBVIOUS
<1>1. Idle \in Operation /\ Idle.at = "idle"
  BY SeedsAssumption DEF Idle, Operation, OpKinds
<1>2. \A w \in VaultWindows : op[w] = Idle
  BY DEF VaultInit
<1>3. VaultTypeOK
  <2>1. ~ \E w \in VaultWindows : op[w].at \in Making
    BY <1>1, <1>2 DEF Making
  <2>2. vaults \in 0..MaxVaults /\ locks \in 0..MaxLocks
    BY VaultBoundsAssumption DEF VaultInit
  <2>3. op \in [VaultWindows -> Operation]
    BY <1>1 DEF VaultInit
  <2> QED BY <2>1, <2>2, <2>3 DEF VaultInit, VaultTypeOK
<1>4. \A w \in VaultWindows : op[w].at = "idle"
  BY <1>1, <1>2
<1> QED BY <1>3, <1>4
    DEF VaultInit, ExposedInv, KeysInv, OneMaker, HdStays, IdentitiesRight,
        NewIsFirst, KnownExist, Making, OfImports, Importing

(* A handler moves on: who holds the mutex is the one maker.                *)
LEMMA HandlerMoves ==
  ASSUME KeysInv, NEW w \in VaultWindows, NEW r \in Operation,
         op' = [op EXCEPT ![w] = r],
         \/ r.at \in Making /\ mutex' = TRUE /\ (op[w].at \in Making \/ ~mutex)
         \/ r.at \notin Making /\ mutex' = FALSE /\ op[w].at \in Making
         \/ r.at \notin Making /\ mutex' = mutex /\ op[w].at \notin Making,
         r.at \in Importing => r.account \in Imports
  PROVE  /\ op' \in [VaultWindows -> Operation]
         /\ op'[w] = r /\ \A v \in VaultWindows : v # w => op'[v] = op[v]
         /\ mutex' \in BOOLEAN /\ (mutex' <=> \E v \in VaultWindows : op'[v].at \in Making)
         /\ OneMaker' /\ OfImports'
<1>1. op \in [VaultWindows -> Operation] /\ mutex \in BOOLEAN
      /\ (mutex <=> \E v \in VaultWindows : op[v].at \in Making)
  BY DEF KeysInv, VaultTypeOK
<1>2. op'[w] = r /\ \A v \in VaultWindows : v # w => op'[v] = op[v]
  BY <1>1
<1>3. OneMaker
  BY DEF KeysInv
<1>4. OneMaker'
  BY <1>1, <1>2, <1>3 DEF OneMaker
<1>5. mutex' <=> \E v \in VaultWindows : op'[v].at \in Making
  BY <1>1, <1>2, <1>3 DEF OneMaker
<1>6. OfImports'
  BY <1>1, <1>2 DEF KeysInv, OfImports
<1> QED BY <1>1, <1>2, <1>4, <1>5, <1>6

LEMMA KeysOfVault ==
  ASSUME KeysInv
  PROVE  /\ Keys \subseteq vault /\ vault \subseteq Addresses
         /\ ~sealed => Keys = vault
         /\ identities \subseteq Addresses /\ unsynced \subseteq Addresses
         /\ selected \in Addresses \cup {NoAccount}
BY DEF KeysInv, VaultTypeOK, Keys

LEMMA OperationTyped ==
  ASSUME KeysInv, NEW w \in VaultWindows
  PROVE  /\ Idle \in Operation /\ Idle.at = "idle"
         /\ op[w] \in Operation
         /\ \A at \in OpKinds : [op[w] EXCEPT !.at = at] \in Operation
         /\ \A at \in OpKinds, a \in Addresses \cup {NoAccount}, s \in Seeds,
               F \in SUBSET Addresses :
              [at |-> at, account |-> a, seed |-> s, found |-> F] \in Operation
         /\ \A at \in OpKinds, F \in SUBSET Addresses :
              [op[w] EXCEPT !.at = at, !.found = F] \in Operation
BY SeedsAssumption DEF KeysInv, VaultTypeOK, Idle, Operation, OpKinds

(* The identities are those of the keyrings again. *)
LEMMA SetTyped ==
  ASSUME KeysInv, NEW A \in SUBSET Addresses, NEW new,
         SetAddresses(A, new) \/ OnKeyringControllerUpdate(A)
  PROVE  /\ identities' \in SUBSET Addresses
         /\ selected' \in Addresses \cup {NoAccount}
         /\ unsynced' \in SUBSET Addresses
         /\ A # {} => identities' = A /\ unsynced' = {} /\ selected' \in A
         /\ identities' \subseteq identities \cup A
BY KeysOfVault DEF SetAddresses, OnKeyringControllerUpdate, Synced, SelectAmong

(* A step of w outside the making of a vault, by which accounts V enter it. *)
LEMMA AddingKeeps ==
  ASSUME KeysInv, NEW w \in VaultWindows, NEW r \in Operation, NEW V \in SUBSET Addresses,
         op' = [op EXCEPT ![w] = r], op[w].at \notin Making \cup Unsettled, r.at \notin Making,
         r.at \in Importing => r.account \in Imports,
         vault' = vault \cup V, unsaved' \in {unsaved, {}},
         V # {} => Calm /\ ~sealed /\ r.at \in Unsettled,
         UNCHANGED <<sealed, identities, selected, exposed, mutex, locks, unsynced>>,
         vaults' \in 0..MaxVaults
  PROVE  KeysInv'
<1>1. /\ op' \in [VaultWindows -> Operation]
      /\ op'[w] = r /\ \A v \in VaultWindows : v # w => op'[v] = op[v]
      /\ mutex' \in BOOLEAN /\ (mutex' <=> \E v \in VaultWindows : op'[v].at \in Making)
      /\ OneMaker' /\ OfImports'
  BY HandlerMoves
<1>2. VaultTypeOK'
  BY <1>1 DEF KeysInv, VaultTypeOK
<1>3. HdStays'
  <2>1. V # {} => vault \cap Hd # {}
    <3>1. HdStays
      BY DEF KeysInv
    <3> QED BY <3>1 DEF HdStays, Calm
  <2>2. V # {} => \A v \in VaultWindows : op[v].at # "making"
    BY DEF Calm
  <2> QED BY <1>1, <2>1, <2>2 DEF KeysInv, HdStays, Making
<1>4. IdentitiesRight'
  <2> SUFFICES ASSUME ~sealed, \A v \in VaultWindows : op'[v].at \notin Unsettled
               PROVE  /\ Difference(identities, vault') \subseteq unsynced
                      /\ unsynced = {} => selected \in identities
    BY DEF IdentitiesRight
  <2>1. V = {} /\ \A v \in VaultWindows : op[v].at \notin Unsettled
    BY <1>1
  <2> QED BY <2>1 DEF KeysInv, IdentitiesRight
<1> QED BY <1>1, <1>2, <1>3, <1>4 DEF KeysInv

(* A handler ends by putting the identities right. *)
LEMMA EndingKeeps ==
  ASSUME KeysInv, NEW w \in VaultWindows, Ends(w), op[w].at \notin Making,
         NEW new, SetAddresses(Keys, new) \/ OnKeyringControllerUpdate(Keys),
         UNCHANGED <<vault, unsaved, sealed, exposed, mutex, vaults, locks>>
  PROVE  KeysInv'
<1>1. /\ op' \in [VaultWindows -> Operation]
      /\ op'[w] = Idle /\ \A v \in VaultWindows : v # w => op'[v] = op[v]
      /\ mutex' \in BOOLEAN /\ (mutex' <=> \E v \in VaultWindows : op'[v].at \in Making)
      /\ OneMaker' /\ OfImports' /\ Idle.at = "idle"
  BY HandlerMoves, OperationTyped DEF Ends, Making, Importing
<1>s. /\ identities' \in SUBSET Addresses
      /\ selected' \in Addresses \cup {NoAccount}
      /\ unsynced' \in SUBSET Addresses
      /\ Keys # {} => identities' = Keys /\ unsynced' = {} /\ selected' \in Keys
  <2>1. Keys \in SUBSET Addresses
    BY KeysOfVault
  <2> HIDE DEF Keys, KeysInv, SetAddresses, OnKeyringControllerUpdate
  <2> QED BY <2>1, SetTyped
<1>2. VaultTypeOK'
  BY <1>1, <1>s DEF KeysInv, VaultTypeOK
<1>3. HdStays'
  BY <1>1 DEF KeysInv, HdStays, Making
<1>4. IdentitiesRight'
  <2> SUFFICES ASSUME ~sealed, \A v \in VaultWindows : op'[v].at \notin Unsettled
               PROVE  /\ Difference(identities', vault) \subseteq unsynced'
                      /\ unsynced' = {} => selected' \in identities'
    BY DEF IdentitiesRight
  <2>1. \A v \in VaultWindows : op[v].at # "making"
    BY <1>1 DEF Making, Unsettled
  <2>2. Keys # {} /\ Keys = vault
    BY <2>1, KeysOfVault DEF KeysInv, HdStays
  <2> QED BY <2>2, <1>s DEF Difference
<1> QED BY <1>1, <1>2, <1>3, <1>4 DEF KeysInv

LEMMA WindowKeeps ==
  ASSUME KeysInv, NEW w \in VaultWindows, WindowStep(w)
  PROVE  KeysInv'
<1> USE DEF Free, InUi, Stores
<1>op. /\ op \in [VaultWindows -> Operation] /\ op[w] \in Operation
       /\ Idle \in Operation /\ Idle.at = "idle" /\ vaults \in 0..MaxVaults
       /\ Idle.seed \in Seeds /\ vault \in SUBSET Addresses
  BY OperationTyped DEF KeysInv, VaultTypeOK, Operation
<1>k. \A at \in OpKinds, a \in Addresses \cup {NoAccount}, s \in Seeds, F \in SUBSET Addresses :
        [at |-> at, account |-> a, seed |-> s, found |-> F] \in Operation
  BY OperationTyped
<1>i. \A a \in Imports : a \in Addresses /\ {a} \in SUBSET Addresses
  BY DEF Addresses
<1>1. ASSUME AddNewAccount(w) PROVE KeysInv'
  <2>1. PICK s \in {h[1] : h \in HdKeys(vault)} :
          /\ NextHd(s) \in Hd
          /\ vault' = vault \cup {NextHd(s)}
          /\ Goes(w, "adding", NextHd(s), s, vault)
    BY <1>1 DEF AddNewAccount
  <2>2. s \in Seeds /\ NextHd(s) \in Addresses
    BY <2>1 DEF HdKeys, Hd, Addresses
  <2>3. PICK r \in Operation : r.at = "adding" /\ op' = [op EXCEPT ![w] = r]
    <3>1. [at |-> "adding", account |-> NextHd(s), seed |-> s, found |-> vault] \in Operation
      BY <1>op, <1>k, <2>2 DEF OpKinds
    <3> QED BY <2>1, <3>1 DEF Goes
  <2>4. /\ op[w].at = "idle" /\ Calm /\ ~sealed /\ unsaved' = {}
        /\ UNCHANGED <<sealed, identities, selected, exposed, mutex, vaults, locks, unsynced>>
    BY <1>1 DEF AddNewAccount
  <2>5. /\ op[w].at \notin Making \cup Unsettled /\ r.at \notin Making
        /\ r.at \notin Importing /\ r.at \in Unsettled
    BY <2>3, <2>4 DEF Making, Unsettled, Importing
  <2>6. /\ {NextHd(s)} \in SUBSET Addresses /\ vault' = vault \cup {NextHd(s)}
        /\ unsaved' \in {unsaved, {}} /\ vaults' \in 0..MaxVaults
    BY <1>op, <2>1, <2>2, <2>4
  <2> HIDE DEF KeysInv, Calm, Making, Unsettled, Importing
  <2> QED BY <2>3, <2>4, <2>5, <2>6, AddingKeeps
<1>2. ASSUME NEW a \in Imports, ImportAccount(w, a) PROVE KeysInv'
  <2>1. PICK r \in Operation : r.at = "parsing" /\ r.account = a /\ op' = [op EXCEPT ![w] = r]
    <3>1. [at |-> "parsing", account |-> a, seed |-> Idle.seed, found |-> {}] \in Operation
      BY <1>op, <1>k, <1>i DEF OpKinds
    <3> QED BY <1>2, <3>1 DEF Goes, ImportAccount
  <2>2. vault' = vault \cup {} /\ {} \in SUBSET Addresses /\ op[w].at = "idle"
        /\ unsaved' = unsaved
        /\ UNCHANGED <<sealed, identities, selected, exposed, mutex, vaults, locks, unsynced>>
    BY <1>2 DEF ImportAccount
  <2> QED BY <1>op, <2>1, <2>2, AddingKeeps DEF Making, Unsettled
<1>3. ASSUME NEW a \in Imports, ImportWatchAccount(w, a) PROVE KeysInv'
  <2>1. PICK r \in Operation : r.at = "watching" /\ r.account = a /\ op' = [op EXCEPT ![w] = r]
    <3>1. [at |-> "watching", account |-> a, seed |-> Idle.seed, found |-> vault] \in Operation
      BY <1>op, <1>k, <1>i DEF OpKinds
    <3> QED BY <1>3, <3>1 DEF Goes, ImportWatchAccount
  <2> QED BY <1>3, <1>op, <1>i, <2>1, AddingKeeps DEF ImportWatchAccount, Making, Unsettled
<1>4. ASSUME NEW a \in Device, AskDevice(w, a) PROVE KeysInv'
  <2>1. PICK r \in Operation : r.at = "device" /\ r.account = a /\ op' = [op EXCEPT ![w] = r]
    <3>1. [at |-> "device", account |-> a, seed |-> Idle.seed, found |-> vault] \in Operation
      BY <1>op, <1>k, <1>i, DeviceAssumption DEF OpKinds
    <3> QED BY <1>4, <3>1 DEF Goes, AskDevice
  <2>2. vault' = vault \cup {} /\ {} \in SUBSET Addresses /\ op[w].at = "idle"
        /\ unsaved' = unsaved
        /\ UNCHANGED <<sealed, identities, selected, exposed, mutex, vaults, locks, unsynced>>
    BY <1>4 DEF AskDevice
  <2> QED BY <1>op, <2>1, <2>2, AddingKeeps, DeviceAssumption DEF Making, Unsettled
<1>5. ASSUME AddNewKeyring(w) \/ DeviceAnswers(w) PROVE KeysInv'
  <2>0. /\ op[w].account \in Imports /\ op[w].at \notin Making \cup Unsettled
        /\ UNCHANGED <<sealed, identities, selected, exposed, mutex, vaults, locks, unsynced>>
    BY <1>5 DEF AddNewKeyring, DeviceAnswers, KeysInv, OfImports, Importing, Making, Unsettled
  <2>1. CASE Ends(w) /\ UNCHANGED <<vault, unsaved>>
    <3>1. /\ vault' = vault \cup {} /\ {} \in SUBSET Addresses /\ unsaved' = unsaved
          /\ op' = [op EXCEPT ![w] = Idle]
      BY <2>1 DEF Ends
    <3> QED BY <1>op, <2>0, <3>1, AddingKeeps DEF Making, Importing
  <2>2. CASE /\ Calm /\ ~sealed
             /\ Stores(vault \cup {op[w].account})
             /\ \E at \in {"imported", "hardware"} : op' = [op EXCEPT ![w].at = at]
    <3>1. PICK at \in {"imported", "hardware"} : op' = [op EXCEPT ![w].at = at]
      BY <2>2
    <3>2. [op[w] EXCEPT !.at = at] \in Operation /\ [op[w] EXCEPT !.at = at].at = at
          /\ [op[w] EXCEPT !.at = at].account = op[w].account
      <4>1. at \in OpKinds
        BY DEF OpKinds
      <4> QED BY <1>op, <4>1, OperationTyped DEF Operation
    <3>3. op' = [op EXCEPT ![w] = [op[w] EXCEPT !.at = at]]
      BY <1>op, <3>1
    <3> HIDE DEF Calm
    <3> QED BY <1>i, <2>0, <2>2, <3>2, <3>3, <1>op, AddingKeeps DEF Making, Unsettled
  <2> QED BY <1>5, <2>1, <2>2 DEF AddNewKeyring, DeviceAnswers
<1>6. ASSUME \/ AddNewAccountEnds(w) \/ ImportAccountEnds(w) \/ ImportWatchAccountEnds(w)
             \/ UnlockHardwareEnds(w) \/ RemoveAccountEnds(w)
      PROVE KeysInv'
  <2>1. /\ op[w].at \notin Making /\ Ends(w)
        /\ UNCHANGED <<vault, unsaved, sealed, exposed, mutex, vaults, locks>>
        /\ \E new : SetAddresses(Keys, new) \/ OnKeyringControllerUpdate(Keys)
    BY <1>6 DEF AddNewAccountEnds, ImportAccountEnds, ImportWatchAccountEnds,
                UnlockHardwareEnds, RemoveAccountEnds, Making
  <2> QED BY <2>1, EndingKeeps
<1>7. ASSUME NEW a \in Imports, RemoveAccountOf(w, a) PROVE KeysInv'
  <2>1. PICK r \in Operation : /\ op' = [op EXCEPT ![w] = r]
                              /\ \/ r.at = "removing"
                                 \/ r.at = "idle" /\ a \notin vault
    <3>1. [at |-> "removing", account |-> a, seed |-> Idle.seed, found |-> {}] \in Operation
      BY <1>op, <1>k, <1>i DEF OpKinds
    <3>2. CASE a \in vault
      BY <1>7, <3>1, <3>2 DEF Goes, RemoveAccountOf
    <3>3. CASE a \notin vault
      <4>1. op' = [op EXCEPT ![w] = op[w]] /\ op[w].at = "idle"
        BY <1>7, <1>op, <3>3 DEF RemoveAccountOf
      <4> QED BY <1>op, <3>3, <4>1
    <3> QED BY <3>2, <3>3
  <2>v. vault' = vault \ {a} /\ unsaved' \in {unsaved, {}} /\ sealed' = sealed /\ ~sealed
        /\ Calm /\ unsynced' = unsynced /\ op[w].at = "idle" /\ mutex' = mutex
    <3>1. a \notin vault => vault \ {a} = vault
      OBVIOUS
    <3>2. CASE a \in vault
      BY <1>7, <3>2 DEF RemoveAccountOf
    <3>3. CASE a \notin vault
      BY <1>7, <3>1, <3>3 DEF RemoveAccountOf
    <3> QED BY <3>2, <3>3
  <2>2. op[w].at \notin Making /\ r.at \notin Making \cup Importing /\ mutex' = mutex
    BY <2>1, <2>v DEF Making, Importing
  <2>3. /\ op' \in [VaultWindows -> Operation]
        /\ op'[w] = r /\ \A v \in VaultWindows : v # w => op'[v] = op[v]
        /\ mutex' \in BOOLEAN /\ (mutex' <=> \E v \in VaultWindows : op'[v].at \in Making)
        /\ OneMaker' /\ OfImports'
    BY <2>1, <2>2, HandlerMoves
  <2>4. VaultTypeOK'
    <3>1. /\ identities' \in SUBSET Addresses /\ exposed' \in SUBSET Addresses
          /\ selected' \in Addresses \cup {NoAccount}
          /\ UNCHANGED <<vaults, locks>>
      BY <1>7 DEF RemoveAccountOf, Withdraw, RemoveAddress, SelectOneOf, KeysInv, VaultTypeOK
    <3> QED BY <2>3, <2>v, <3>1 DEF KeysInv, VaultTypeOK
  <2>5. vault \cap Hd # {} /\ a \notin Hd
    BY <2>v, SeedsAssumption DEF Calm, KeysInv, HdStays
  <2>6. HdStays'
    <3>1. vault' \cap Hd # {}
      BY <2>v, <2>5
    <3>2. \A v \in VaultWindows : op'[v].at # "making"
      BY <2>1, <2>3, <2>v DEF Calm
    <3> QED BY <3>1, <3>2 DEF HdStays
  <2>7. IdentitiesRight'
    <3> SUFFICES ASSUME \A v \in VaultWindows : op'[v].at \notin Unsettled
                 PROVE  /\ Difference(identities', vault') \subseteq unsynced
                        /\ unsynced = {} => selected' \in identities'
      BY <2>v DEF IdentitiesRight
    <3>1. a \notin vault /\ \A v \in VaultWindows : op[v].at \notin Unsettled
      BY <2>1, <2>3, <2>v DEF Unsettled
    <3>2. /\ Difference(identities, vault) \subseteq unsynced
          /\ unsynced = {} => selected \in identities
      BY <2>v, <3>1 DEF KeysInv, IdentitiesRight
    <3>3. a \in identities /\ identities' = identities \ {a}
      BY <1>7 DEF RemoveAccountOf, RemoveAddress
    <3> QED BY <2>v, <3>1, <3>2, <3>3 DEF Difference
  <2> QED BY <2>3, <2>4, <2>6, <2>7 DEF KeysInv
<1>8. ASSUME NEW s \in Seeds, WantNewVault(w, s) \/ WantRestore(w, s) PROVE KeysInv'
  <2>1. PICK r \in Operation : r.at \in {"wantsNew", "wantsOld"} /\ op' = [op EXCEPT ![w] = r]
    <3>1. \A at \in {"wantsNew", "wantsOld"} :
            [at |-> at, account |-> NoAccount, seed |-> s, found |-> {}] \in Operation
      BY <1>op, <1>k DEF OpKinds
    <3> QED BY <1>8, <3>1 DEF Goes, WantNewVault, WantRestore
  <2>2. /\ vault' = vault \cup {} /\ {} \in SUBSET Addresses /\ op[w].at = "idle"
        /\ unsaved' = unsaved
        /\ UNCHANGED <<sealed, identities, selected, exposed, mutex, locks, unsynced>>
        /\ vaults' \in 0..MaxVaults
    BY <1>8, <1>op, VaultBoundsAssumption DEF WantNewVault, WantRestore
  <2> QED BY <1>op, <2>1, <2>2, AddingKeeps DEF Making, Unsettled, Importing
<1>9. ASSUME CreateNewVaultEnds(w) PROVE KeysInv'
  <2> DEFINE first == {<<op[w].seed, 1>>}
  <2>1. /\ op[w].at = "creating" /\ op' = [op EXCEPT ![w] = Idle] /\ mutex' = FALSE
        /\ vault' = first /\ identities' = first /\ selected' \in first /\ unsynced' = {}
        /\ sealed' = FALSE /\ unsaved' = {} /\ UNCHANGED <<exposed, vaults, locks>>
    BY <1>9 DEF CreateNewVaultEnds, SetAddresses, ReleaseMutex, Ends
  <2>2. /\ op' \in [VaultWindows -> Operation]
        /\ op'[w] = Idle /\ \A v \in VaultWindows : v # w => op'[v] = op[v]
        /\ mutex' \in BOOLEAN /\ (mutex' <=> \E v \in VaultWindows : op'[v].at \in Making)
        /\ OneMaker' /\ OfImports'
    BY <1>op, <2>1, HandlerMoves DEF Making, Importing
  <2>3. first \subseteq Hd /\ first # {} /\ first \subseteq Addresses
    BY <1>op, VaultBoundsAssumption DEF Hd, Addresses, Operation
  <2>4. VaultTypeOK'
    BY <2>1, <2>2, <2>3 DEF KeysInv, VaultTypeOK
  <2>5. \A v \in VaultWindows : op'[v].at \notin Making
    BY <2>1, <2>2
  <2> QED BY <2>1, <2>2, <2>3, <2>4, <2>5
        DEF KeysInv, HdStays, IdentitiesRight, Making, Difference
<1>10. ASSUME RestoreMade(w) PROVE KeysInv'
  <2> DEFINE accounts == Keys \cup {<<op[w].seed, 1>>}
             r == [op[w] EXCEPT !.at = "balance", !.found = accounts]
  <2>1. <<op[w].seed, 1>> \in Hd /\ accounts \in SUBSET Addresses /\ accounts # {}
    BY <1>op, KeysOfVault, VaultBoundsAssumption DEF Hd, Addresses, Operation
  <2>2. r \in Operation /\ r.at = "balance" /\ r.found = accounts
    <3>1. r \in Operation
      BY <2>1, OperationTyped DEF OpKinds
    <3> QED BY <3>1, <1>op DEF Operation
  <2>3. /\ op[w].at = "making" /\ op' = [op EXCEPT ![w] = r]
        /\ vault' = accounts /\ unsaved' = {} /\ sealed' = FALSE
        /\ OnKeyringControllerUpdate(accounts)
        /\ UNCHANGED <<exposed, mutex, vaults, locks>>
    BY <1>10, <1>op DEF RestoreMade
  <2>4. mutex' = TRUE
    BY <2>3 DEF KeysInv, VaultTypeOK, Making
  <2> HIDE DEF r, accounts
  <2>5. /\ op' \in [VaultWindows -> Operation]
        /\ op'[w] = r /\ \A v \in VaultWindows : v # w => op'[v] = op[v]
        /\ mutex' \in BOOLEAN /\ (mutex' <=> \E v \in VaultWindows : op'[v].at \in Making)
        /\ OneMaker' /\ OfImports'
    <3>1. r.at \in Making /\ r.at \notin Importing /\ op[w].at \in Making
      BY <2>2, <2>3 DEF Making, Importing
    <3> QED BY <2>2, <2>3, <2>4, <3>1, HandlerMoves
  <2>6. identities' = accounts /\ unsynced' = {} /\ selected' \in accounts
    BY <2>1, <2>3 DEF OnKeyringControllerUpdate, Synced, SelectAmong
  <2>7. VaultTypeOK'
    BY <2>1, <2>3, <2>5, <2>6 DEF KeysInv, VaultTypeOK
  <2>8. \A v \in VaultWindows : v # w => op'[v].at \notin Making
    BY <2>2, <2>5 DEF OneMaker, Making
  <2>9. accounts \cap Hd # {}
    BY <2>1 DEF accounts
  <2> QED BY <2>1, <2>2, <2>3, <2>5, <2>6, <2>7, <2>8, <2>9
        DEF KeysInv, HdStays, IdentitiesRight, Making, Difference
<1>11. ASSUME BalanceFound(w) PROVE KeysInv'
  <2> DEFINE r == [op[w] EXCEPT !.at = "growing"]
  <2>2. r \in Operation /\ r.at = "growing"
    <3>1. r \in Operation
      BY OperationTyped DEF OpKinds
    <3> QED BY <3>1, <1>op DEF Operation
  <2>3. /\ op[w].at = "balance" /\ ~sealed /\ op' = [op EXCEPT ![w] = r]
        /\ \E h \in Hd : vault' = vault \cup {h}
        /\ unsaved' = {}
        /\ UNCHANGED <<sealed, identities, selected, exposed, mutex, vaults, locks, unsynced>>
    BY <1>11, <1>op DEF BalanceFound
  <2>4. mutex' = TRUE
    BY <2>3 DEF KeysInv, VaultTypeOK, Making
  <2> HIDE DEF r
  <2>5. /\ op' \in [VaultWindows -> Operation]
        /\ op'[w] = r /\ \A v \in VaultWindows : v # w => op'[v] = op[v]
        /\ mutex' \in BOOLEAN /\ (mutex' <=> \E v \in VaultWindows : op'[v].at \in Making)
        /\ OneMaker' /\ OfImports'
    <3>1. r.at \in Making /\ r.at \notin Importing /\ op[w].at \in Making
      BY <2>2, <2>3 DEF Making, Importing
    <3> QED BY <2>2, <2>3, <2>4, <3>1, HandlerMoves
  <2>6. VaultTypeOK'
    BY <2>3, <2>5 DEF KeysInv, VaultTypeOK, Addresses
  <2>7. \A v \in VaultWindows : v # w => op'[v].at \notin Making
    BY <2>2, <2>5 DEF OneMaker, Making
  <2> QED BY <2>2, <2>3, <2>5, <2>6, <2>7
        DEF KeysInv, HdStays, IdentitiesRight, Making, Unsettled
<1>12. ASSUME GrowEnds(w) PROVE KeysInv'
  <2> DEFINE r == [op[w] EXCEPT !.at = "balance", !.found = Keys]
  <2>1. Keys \in SUBSET Addresses /\ Keys \subseteq vault /\ (~sealed => Keys = vault)
    BY KeysOfVault
  <2>2. r \in Operation /\ r.at = "balance" /\ r.found = Keys
    <3>1. r \in Operation
      BY <2>1, OperationTyped DEF OpKinds
    <3> QED BY <3>1, <1>op DEF Operation
  <2>3. /\ op[w].at = "growing" /\ op' = [op EXCEPT ![w] = r]
        /\ OnKeyringControllerUpdate(Keys)
        /\ UNCHANGED <<vault, unsaved, sealed, exposed, mutex, vaults, locks>>
    BY <1>12, <1>op DEF GrowEnds
  <2>4. mutex' = TRUE
    BY <2>3 DEF KeysInv, VaultTypeOK, Making
  <2> HIDE DEF r
  <2>5. /\ op' \in [VaultWindows -> Operation]
        /\ op'[w] = r /\ \A v \in VaultWindows : v # w => op'[v] = op[v]
        /\ mutex' \in BOOLEAN /\ (mutex' <=> \E v \in VaultWindows : op'[v].at \in Making)
        /\ OneMaker' /\ OfImports'
    <3>1. r.at \in Making /\ r.at \notin Importing /\ op[w].at \in Making
      BY <2>2, <2>3 DEF Making, Importing
    <3> QED BY <2>2, <2>3, <2>4, <3>1, HandlerMoves
  <2>6. \A v \in VaultWindows : v # w => op'[v].at \notin Making /\ op[v].at \notin Making
    BY <2>2, <2>3, <2>5 DEF OneMaker, Making
  <2>7. /\ identities' \in SUBSET Addresses
        /\ selected' \in Addresses \cup {NoAccount}
        /\ unsynced' \in SUBSET Addresses
        /\ Keys # {} => identities' = Keys /\ unsynced' = {} /\ selected' \in Keys
    BY <2>1, <2>3, KeysOfVault DEF OnKeyringControllerUpdate, Synced, SelectAmong
  <2>8. VaultTypeOK'
    BY <2>3, <2>5, <2>7 DEF KeysInv, VaultTypeOK
  <2>9. ~sealed => Keys # {}
    <3>1. \A v \in VaultWindows : op[v].at # "making"
      BY <2>3, <2>6 DEF Making
    <3> QED BY <2>1, <3>1 DEF KeysInv, HdStays
  <2>10. HdStays'
    BY <2>1, <2>2, <2>3, <2>5, <2>6, <2>9 DEF KeysInv, HdStays, Making
  <2> QED BY <2>1, <2>2, <2>3, <2>5, <2>6, <2>7, <2>8, <2>9, <2>10
        DEF KeysInv, IdentitiesRight, Making, Difference
<1>13. ASSUME BalanceIsZero(w) \/ RestoreFails(w) PROVE KeysInv'
  <2>1. /\ op[w].at = "balance" /\ op' = [op EXCEPT ![w] = Idle] /\ mutex' = FALSE
        /\ UNCHANGED <<vault, unsaved, sealed, exposed, vaults, locks>>
        /\ \/ UNCHANGED <<identities, selected, unsynced>>
           \/ /\ identities' = op[w].found /\ unsynced' = Difference(vault, op[w].found)
              /\ IF op[w].found = {} THEN UNCHANGED selected ELSE selected' \in op[w].found
    BY <1>13 DEF BalanceIsZero, RestoreFails, ReleaseMutex, Ends, SelectOneOf
  <2>2. /\ op' \in [VaultWindows -> Operation]
        /\ op'[w] = Idle /\ \A v \in VaultWindows : v # w => op'[v] = op[v]
        /\ mutex' \in BOOLEAN /\ (mutex' <=> \E v \in VaultWindows : op'[v].at \in Making)
        /\ OneMaker' /\ OfImports'
    BY <1>op, <2>1, HandlerMoves DEF Making, Importing
  <2>3. \A v \in VaultWindows : op'[v].at \notin Making /\ op[v].at # "making"
    BY <2>1, <2>2 DEF Making
  <2>4. op[w].found \in SUBSET Addresses
    BY <1>op DEF Operation
  <2>5. VaultTypeOK'
    BY <1>op, <2>1, <2>2, <2>4 DEF KeysInv, VaultTypeOK, Difference
  <2>6. HdStays'
    BY <2>1, <2>3 DEF KeysInv, HdStays, Making
  <2>7. IdentitiesRight'
    <3>1. \A v \in VaultWindows : op[v].at # "making" /\ (v # w => op'[v] = op[v])
      BY <2>2, <2>3
    <3>2. ~sealed => vault # {}
      BY <3>1 DEF KeysInv, HdStays
    <3>3. CASE UNCHANGED <<identities, selected, unsynced>>
      BY <2>1, <2>2, <3>3 DEF KeysInv, IdentitiesRight, Unsettled
    <3>4. CASE /\ identities' = op[w].found /\ unsynced' = Difference(vault, op[w].found)
               /\ IF op[w].found = {} THEN UNCHANGED selected ELSE selected' \in op[w].found
      <4>1. Difference(identities', vault) = unsynced'
        BY <3>4 DEF Difference
      <4>2. unsynced' = {} => op[w].found = vault
        BY <3>4 DEF Difference
      <4> QED BY <2>1, <3>2, <3>4, <4>1, <4>2 DEF IdentitiesRight
    <3> QED BY <2>1, <3>3, <3>4
  <2> QED BY <2>2, <2>5, <2>6, <2>7 DEF KeysInv
<1> QED BY <1>1, <1>2, <1>3, <1>4, <1>5, <1>6, <1>7, <1>8, <1>9, <1>10, <1>11, <1>12, <1>13
    DEF WindowStep

LEMMA MutexKeeps ==
  ASSUME KeysInv, NEW w \in VaultWindows, CreateNewVault(w) \/ RestoreVault(w)
  PROVE  KeysInv'
<1> USE DEF Stores
<1>op. /\ op \in [VaultWindows -> Operation] /\ op[w] \in Operation
       /\ Idle \in Operation /\ Idle.at = "idle"
  BY OperationTyped DEF KeysInv, VaultTypeOK, Operation
<1>m. ~mutex => \A v \in VaultWindows : op[v].at \notin Making
  BY DEF KeysInv, VaultTypeOK
<1>r. \A at \in OpKinds : [op[w] EXCEPT !.at = at] \in Operation
                           /\ [op[w] EXCEPT !.at = at].at = at
  BY <1>op, OperationTyped DEF Operation
<1>1. CASE CreateNewVault(w) /\ Keys # {}
  <2>1. /\ op[w].at \notin Making /\ Ends(w) /\ OnKeyringControllerUpdate(Keys)
        /\ UNCHANGED <<vault, unsaved, sealed, exposed, mutex, vaults, locks>>
    BY <1>1 DEF CreateNewVault, Making
  <2> QED BY <2>1, EndingKeeps
<1>2. CASE \/ CreateNewVault(w) /\ Keys = {}
           \/ RestoreVault(w) /\ AcquireMutex
  <2>1. PICK r \in Operation :
          /\ r.at \in {"creating", "making"} /\ op' = [op EXCEPT ![w] = r]
          /\ ~mutex /\ mutex' = TRUE
          /\ r.at = "creating" => UNCHANGED <<vault, unsaved, sealed, identities, selected, exposed,
                                              vaults, locks, unsynced>>
          /\ unsaved' \in {unsaved, {}}
          /\ r.at = "making" => /\ vault' = {} /\ identities' = {} /\ exposed' = {}
                                /\ UNCHANGED <<sealed, selected, vaults, locks>>
                                /\ unsynced' \in {unsynced, vault}
    <3>1. CASE CreateNewVault(w) /\ Keys = {}
      BY <1>op, <1>r, <3>1 DEF CreateNewVault, AcquireMutex, OpKinds
    <3>2. CASE RestoreVault(w) /\ AcquireMutex
      BY <1>op, <1>r, <3>2 DEF RestoreVault, AcquireMutex, OpKinds
    <3> QED BY <1>2, <3>1, <3>2
  <2>2. /\ op' \in [VaultWindows -> Operation]
        /\ op'[w] = r /\ \A v \in VaultWindows : v # w => op'[v] = op[v]
        /\ mutex' \in BOOLEAN /\ (mutex' <=> \E v \in VaultWindows : op'[v].at \in Making)
        /\ OneMaker' /\ OfImports'
    <3>1. r.at \in Making /\ r.at \notin Importing
      BY <2>1 DEF Making, Importing
    <3> QED BY <2>1, <3>1, HandlerMoves
  <2>3. VaultTypeOK'
    BY <2>1, <2>2 DEF KeysInv, VaultTypeOK
  <2>4. HdStays'
    BY <1>m, <2>1, <2>2 DEF KeysInv, HdStays, Making
  <2>5. IdentitiesRight'
    BY <1>m, <2>1, <2>2 DEF IdentitiesRight, Making, Unsettled
  <2> QED BY <2>2, <2>3, <2>4, <2>5 DEF KeysInv
<1>3. CASE RestoreVault(w) /\ ~mutex /\ UNCHANGED <<mutex, vault, unsaved>>
             /\ unsynced' = vault /\ Ends(w)
  <2>1. /\ op[w].at = "wantsOld" /\ identities' = {} /\ exposed' = {}
        /\ op' = [op EXCEPT ![w] = Idle]
        /\ UNCHANGED <<sealed, selected, vaults, locks>>
    BY <1>3 DEF RestoreVault, Ends
  <2>2. /\ op' \in [VaultWindows -> Operation]
        /\ op'[w] = Idle /\ \A v \in VaultWindows : v # w => op'[v] = op[v]
        /\ mutex' \in BOOLEAN /\ (mutex' <=> \E v \in VaultWindows : op'[v].at \in Making)
        /\ OneMaker' /\ OfImports'
    BY <1>op, <1>3, <2>1, HandlerMoves DEF Making, Importing
  <2>3. VaultTypeOK'
    BY <1>3, <2>1, <2>2 DEF KeysInv, VaultTypeOK
  <2>4. HdStays' /\ IdentitiesRight'
    BY <1>m, <1>op, <1>3, <2>1, <2>2 DEF KeysInv, HdStays, IdentitiesRight, Making, Difference
  <2> QED BY <2>2, <2>3, <2>4 DEF KeysInv
<1> QED BY <1>1, <1>2, <1>3 DEF RestoreVault

LEMMA OtherKeeps == ASSUME KeysInv, OtherStep PROVE KeysInv'
<1>1. ASSUME NEW a \in Addresses, Expose(a) \/ SelectIdentity(a) PROVE KeysInv'
  <2> QED BY <1>1 DEF Expose, SelectIdentity, KeysInv, VaultTypeOK, OfImports, OneMaker,
                      HdStays, IdentitiesRight
<1>2. CASE Unseal
  <2>1. /\ vault # {} /\ sealed' = FALSE /\ \A w \in VaultWindows : op[w].at # "making"
        /\ vault' = vault \cup unsaved /\ unsaved' = {}
        /\ identities' = vault' /\ selected' \in vault' /\ unsynced' = {}
        /\ UNCHANGED <<exposed, op, mutex, vaults, locks>>
    BY <1>2 DEF Unseal, Calm, OnKeyringControllerUpdate, Synced, SelectAmong
  <2>2. unsaved \subseteq Addresses
    BY DeviceAssumption DEF KeysInv, VaultTypeOK, Addresses
  <2> QED BY <2>1, <2>2 DEF KeysInv, VaultTypeOK, OfImports, OneMaker, HdStays,
                      IdentitiesRight, Difference
<1>3. CASE Seal
  <2>1. locks' \in 0..MaxLocks
    BY <1>3, VaultBoundsAssumption DEF Seal, KeysInv, VaultTypeOK
  <2> QED BY <1>3, <2>1 DEF Seal, KeysInv, VaultTypeOK, OfImports, OneMaker, HdStays,
                      IdentitiesRight
<1>4. CASE ForgetDevice
  <2>1. /\ vault' = vault \ Device /\ unsaved' = unsaved \cup (vault \cap Device)
        /\ unsynced' = unsynced \cup (vault \cap Device)
        /\ ~sealed /\ \A w \in VaultWindows : op[w].at # "making"
        /\ UNCHANGED <<sealed, identities, selected, exposed, op, mutex, vaults, locks>>
    BY <1>4 DEF ForgetDevice, InUi, Calm
  <2>2. Device \cap Hd = {} /\ Device \subseteq Addresses
    BY DeviceAssumption, SeedsAssumption DEF Addresses
  <2>3. vault \cap Hd # {}
    BY <2>1 DEF KeysInv, HdStays
  <2>4. VaultTypeOK' /\ OfImports' /\ OneMaker'
    BY <2>1, <2>2 DEF KeysInv, VaultTypeOK, OfImports, OneMaker
  <2>5. HdStays'
    BY <2>1, <2>2, <2>3 DEF HdStays
  <2>6. IdentitiesRight'
    BY <2>1 DEF KeysInv, IdentitiesRight, Difference
  <2> QED BY <2>4, <2>5, <2>6 DEF KeysInv
<1> QED BY <1>1, <1>2, <1>3, <1>4 DEF OtherStep

LEMMA KeysInvKept == KeysInv /\ [VaultNext]_vaultVars => KeysInv'
<1> SUFFICES ASSUME KeysInv, [VaultNext]_vaultVars PROVE KeysInv'
  OBVIOUS
<1>1. CASE UNCHANGED vaultVars
  BY <1>1 DEF vaultVars, KeysInv, VaultTypeOK, OfImports, OneMaker, HdStays,
              IdentitiesRight
<1>2. CASE VaultNext
  BY <1>2, WindowKeeps, MutexKeeps, OtherKeeps DEF VaultNext, MutexStep
<1> QED BY <1>1, <1>2

(* The vault, the identities and the handlers keep their types, and the     *)
(* mutex is held while a window makes a vault (MetamaskController).         *)
THEOREM VaultTypeCorrect == VaultSpec => []VaultTypeOK
<1>1. KeysInv => VaultTypeOK
  BY DEF KeysInv
<1>2. VaultInit => KeysInv
  BY VaultInitInv DEF ExposedInv
<1> QED BY <1>1, <1>2, KeysInvKept, PTL DEF VaultSpec

(* When no handler is under way the identities are the accounts of the      *)
(* keyrings, but for those a restore's list or forgetDevice left apart,     *)
(* whatever ran at the same time, was locked meanwhile or failed            *)
(* (addNewAccount, importAccountWithStrategy, unlockHardwareWalletAccount,  *)
(* removeAccount, createNewVaultAndRestore).                                *)
THEOREM IdentitiesAreKeys == VaultSpec => []IdentitiesFollowKeys
<1>1. KeysInv => IdentitiesFollowKeys
  BY DEF KeysInv, IdentitiesRight, IdentitiesFollowKeys, AtRest, Keys, Unsettled
<1>2. VaultInit => KeysInv
  BY VaultInitInv DEF ExposedInv
<1> QED BY <1>1, <1>2, KeysInvKept, PTL DEF VaultSpec

(* What a step does to what dapps may see, and to the vault.                *)
NoneExposed ==
  \A a \in exposed' \ vault' : a \in exposed \ vault \/ a \in unsynced'
NoneLost == \A a \in vault \ vault' : Removes(a) \/ Forgets(a) \/ Restoring

(* While the first-time flow asks for one thing at a time (OneFlow), a new  *)
(* vault replaces none: no permission and no identity is left behind.       *)
LEMMA WindowKnown ==
  ASSUME ExposedInv, NEW w \in VaultWindows, WindowStep(w), Settled
  PROVE  /\ NewIsFirst' /\ KnownExist'
         /\ NoneExposed /\ NoneLost
<1> USE DEF Stores, NoneExposed, NoneLost
<1>op. /\ op \in [VaultWindows -> Operation] /\ op[w] \in Operation
       /\ Idle \in Operation /\ Idle.at = "idle" /\ Keys \subseteq vault
       /\ VaultTypeOK /\ NewIsFirst /\ KnownExist
  BY OperationTyped, KeysOfVault DEF ExposedInv, KeysInv, VaultTypeOK
<1>m. \A v \in VaultWindows : op[w].at \in Making /\ v # w => op[v].at # "creating"
  BY DEF ExposedInv, KeysInv, OneMaker, Making
<1> DEFINE Same == \A v \in VaultWindows : v # w => op'[v] = op[v]
           Quiet == op'[w].at \notin {"wantsNew", "creating"}
<1>q. ASSUME NEW r \in Operation, op' = [op EXCEPT ![w] = r]
      PROVE  op'[w] = r /\ Same
  BY <1>op, <1>q
<1>s. ASSUME NEW A \in SUBSET vault, NEW new,
             SetAddresses(A, new) \/ OnKeyringControllerUpdate(A)
      PROVE  \/ identities' \subseteq vault
             \/ UNCHANGED <<identities, unsynced>>
  BY <1>op, <1>s DEF SetAddresses, OnKeyringControllerUpdate, Synced, KnownExist
<1>1. CASE \/ AddNewAccountEnds(w) \/ ImportAccountEnds(w) \/ ImportWatchAccountEnds(w)
           \/ UnlockHardwareEnds(w) \/ RemoveAccountEnds(w) \/ GrowEnds(w)
  <2>1. /\ UNCHANGED <<vault, unsaved, sealed, exposed>>
        /\ \E new : SetAddresses(Keys, new) \/ OnKeyringControllerUpdate(Keys)
    BY <1>1 DEF AddNewAccountEnds, ImportAccountEnds, ImportWatchAccountEnds,
                UnlockHardwareEnds, RemoveAccountEnds, GrowEnds
  <2>2. identities' \subseteq vault \/ UNCHANGED <<identities, unsynced>>
    BY <1>op, <1>s, <2>1
  <2>3. Same /\ Quiet
    <3>1. CASE Ends(w)
      BY <1>op, <1>q, <3>1 DEF Ends
    <3>2. CASE GrowEnds(w)
      BY <1>op, <3>2 DEF GrowEnds, Operation
    <3> QED BY <1>1, <3>1, <3>2 DEF AddNewAccountEnds, ImportAccountEnds,
                ImportWatchAccountEnds, UnlockHardwareEnds, RemoveAccountEnds
  <2> QED BY <1>op, <2>1, <2>2, <2>3 DEF NewIsFirst, KnownExist
<1>2. CASE \/ AddNewAccount(w)
           \/ \E a \in Imports \ Device : ImportAccount(w, a) \/ ImportWatchAccount(w, a)
           \/ \E a \in Device : AskDevice(w, a)
           \/ AddNewKeyring(w) \/ DeviceAnswers(w) \/ BalanceFound(w)
           \/ \E s \in Seeds : WantNewVault(w, s) \/ WantRestore(w, s)
  <2>1. /\ vault \subseteq vault' /\ UNCHANGED <<sealed, identities, exposed, unsynced>>
        /\ \/ vault' = vault
           \/ ~sealed /\ \A v \in VaultWindows : op[v].at # "creating"
    <3>1. CASE BalanceFound(w)
      BY <1>m, <3>1 DEF BalanceFound, Making
    <3> QED BY <1>2, <3>1 DEF AddNewAccount, ImportAccount, ImportWatchAccount, AskDevice,
               AddNewKeyring, DeviceAnswers, WantNewVault, WantRestore, InUi, Calm
  <2>2. Same /\ op'[w].at # "creating" /\ (op'[w].at = "wantsNew" => vault = {})
    <3>1. CASE \E s \in Seeds : WantNewVault(w, s)
      BY <1>op, <3>1 DEF WantNewVault, Goes
    <3>2. CASE ~ \E s \in Seeds : WantNewVault(w, s)
      <4>1. CASE AddNewKeyring(w) \/ DeviceAnswers(w) \/ BalanceFound(w)
        BY <1>op, <4>1 DEF AddNewKeyring, DeviceAnswers, BalanceFound, Ends, Operation
      <4> QED BY <1>op, <1>2, <3>2, <4>1
                 DEF AddNewAccount, ImportAccount, ImportWatchAccount, AskDevice, WantRestore,
                     Goes
    <3> QED BY <3>1, <3>2
  <2> QED BY <1>op, <2>1, <2>2 DEF NewIsFirst, KnownExist
<1>3. ASSUME NEW a \in Imports, RemoveAccountOf(w, a)
      PROVE  /\ NewIsFirst' /\ KnownExist'
             /\ NoneExposed /\ NoneLost
  <2>1. /\ vault' = vault \ {a} /\ exposed' = exposed \ {a}
        /\ identities' = identities \ {a} /\ sealed' = sealed /\ ~sealed
        /\ \A v \in VaultWindows : op[v].at # "creating"
        /\ op[w].at = "idle" /\ unsynced' = unsynced
    BY <1>3 DEF RemoveAccountOf, Withdraw, RemoveAddress, Free, InUi, Calm
  <2>2. CASE a \in vault
    <3>1. Same /\ op'[w].at = "removing" /\ op'[w].account = a
      BY <1>3, <1>op, <2>2 DEF RemoveAccountOf, Goes
    <3> QED BY <1>op, <2>1, <3>1 DEF NewIsFirst, KnownExist, Removes
  <2>3. CASE a \notin vault
    <3>1. op' = op /\ vault' = vault
      BY <1>3, <2>1, <2>3 DEF RemoveAccountOf
    <3> QED BY <1>op, <2>1, <3>1 DEF NewIsFirst, KnownExist
  <2> QED BY <2>2, <2>3
<1>4. CASE CreateNewVaultEnds(w)
  <2>1. /\ op[w].at = "creating" /\ op' = [op EXCEPT ![w] = Idle]
        /\ identities' = vault' /\ sealed' = FALSE /\ exposed' = exposed
    BY <1>4 DEF CreateNewVaultEnds, SetAddresses, Ends
  <2>2. vault = {}
    BY <1>op, <2>1 DEF NewIsFirst
  <2>3. \A v \in VaultWindows : op'[v].at # "creating"
    BY <1>op, <1>m, <1>q, <2>1 DEF Making
  <2> QED BY <2>1, <2>2, <2>3 DEF NewIsFirst, KnownExist
<1>5. CASE RestoreMade(w)
  <2>1. /\ op[w].at = "making" /\ sealed' = FALSE /\ exposed' = exposed
        /\ vault' # {} /\ identities' = vault'
    BY <1>5 DEF RestoreMade, OnKeyringControllerUpdate, Synced
  <2>2. Same /\ op'[w].at = "balance"
    BY <1>op, <1>5 DEF RestoreMade, Operation
  <2>3. vault = {}
    BY <2>1 DEF ExposedInv, KeysInv, HdStays
  <2> QED BY <1>op, <1>m, <2>1, <2>2, <2>3 DEF NewIsFirst, KnownExist, Making
<1>6. CASE BalanceIsZero(w) \/ RestoreFails(w)
  <2>1. /\ op[w].at = "balance" /\ op' = [op EXCEPT ![w] = Idle]
        /\ \/ UNCHANGED <<identities, unsynced>>
           \/ /\ identities' = op[w].found
              /\ unsynced' = Difference(vault, op[w].found)
        /\ UNCHANGED <<vault, unsaved, sealed, exposed>>
    BY <1>6 DEF BalanceIsZero, RestoreFails, Ends
  <2> QED BY <1>op, <1>q, <2>1 DEF NewIsFirst, KnownExist, Difference
<1> QED BY <1>1, <1>2, <1>3, <1>4, <1>5, <1>6 DEF WindowStep

LEMMA MutexKnown ==
  ASSUME ExposedInv, NEW w \in VaultWindows, CreateNewVault(w) \/ RestoreVault(w)
  PROVE  /\ NewIsFirst' /\ KnownExist'
         /\ NoneExposed /\ NoneLost
<1> USE DEF Stores, NoneExposed, NoneLost
<1>op. /\ op \in [VaultWindows -> Operation] /\ op[w] \in Operation
       /\ Idle \in Operation /\ Idle.at = "idle" /\ Keys \subseteq vault
       /\ VaultTypeOK /\ NewIsFirst /\ KnownExist
       /\ Keys = IF sealed THEN {} ELSE vault
  BY OperationTyped, KeysOfVault DEF ExposedInv, KeysInv, VaultTypeOK, Keys
<1>1. CASE CreateNewVault(w)
  <2>1. /\ UNCHANGED <<vault, unsaved, sealed, exposed>> /\ op[w].at = "wantsNew"
        /\ identities' \subseteq vault \/ UNCHANGED <<identities, unsynced>>
    BY <1>op, <1>1 DEF CreateNewVault, OnKeyringControllerUpdate, Synced, KnownExist
  <2>2. \/ op' = [op EXCEPT ![w] = Idle]
        \/ op' = [op EXCEPT ![w].at = "creating"] /\ Keys = {}
    BY <1>1 DEF CreateNewVault, Ends
  <2>3. Keys = {} => vault = {}
    BY <1>op, <2>1 DEF NewIsFirst
  <2> QED BY <1>op, <2>1, <2>2, <2>3 DEF NewIsFirst, KnownExist, Operation
<1>2. CASE RestoreVault(w)
  <2>1. /\ identities' = {} /\ exposed' = {} /\ sealed' = sealed /\ ~mutex
        /\ \/ vault' = {} /\ op' = [op EXCEPT ![w].at = "making"]
           \/ vault' = vault /\ op' = [op EXCEPT ![w] = Idle]
    BY <1>2 DEF RestoreVault, Ends, AcquireMutex
  <2>2. vault' = vault \/ Restoring
    BY <1>op, <2>1 DEF Restoring, Operation
  <2> QED BY <1>op, <2>1, <2>2 DEF NewIsFirst, KnownExist, Operation
<1> QED BY <1>1, <1>2

LEMMA OtherKnown ==
  ASSUME ExposedInv, OtherStep, Settled, OneFlow
  PROVE  NewIsFirst' /\ KnownExist' /\ NoneExposed /\ NoneLost
<1> USE DEF NoneExposed, NoneLost
<1>1. NewIsFirst /\ KnownExist
  BY DEF ExposedInv
<1>2. ASSUME NEW a \in Addresses, Expose(a) \/ SelectIdentity(a)
      PROVE  NewIsFirst' /\ KnownExist' /\ NoneExposed /\ NoneLost
  BY <1>1, <1>2 DEF Expose, SelectIdentity, NewIsFirst, KnownExist
<1>3. CASE Unseal
  <2>1. /\ vault \subseteq vault' /\ identities' = vault' /\ sealed' = FALSE /\ Calm
        /\ vault # {} /\ UNCHANGED <<exposed, op>>
    BY <1>3 DEF Unseal, OnKeyringControllerUpdate, Synced
  <2> QED BY <1>1, <2>1 DEF NewIsFirst, KnownExist, Calm
<1>5. CASE ForgetDevice
  <2>1. /\ vault' = vault \ Device /\ unsaved' = unsaved \cup (vault \cap Device)
        /\ unsynced' = unsynced \cup (vault \cap Device)
        /\ ~sealed /\ UNCHANGED <<sealed, identities, exposed, op>>
    BY <1>5 DEF ForgetDevice, InUi
  <2> QED BY <1>1, <2>1 DEF NewIsFirst, KnownExist, Forgets
<1>4. CASE Seal
  <2>1. Calm /\ UNCHANGED <<vault, identities, exposed, op, unsynced>>
    BY <1>4 DEF Seal, InUi
  <2>2. \A w \in VaultWindows : op[w].at # "wantsNew"
    <3> SUFFICES ASSUME NEW w \in VaultWindows, op[w].at = "wantsNew" PROVE FALSE
      OBVIOUS
    <3>1. PICK v \in VaultWindows : op[v].at \in Making
      BY DEF Settled, Wants, ExposedInv, KeysInv, VaultTypeOK
    <3> QED BY <2>1, <3>1 DEF Calm, Making, OneFlow
  <2> QED BY <1>1, <2>1, <2>2 DEF NewIsFirst, KnownExist
<1> QED BY <1>2, <1>3, <1>4, <1>5 DEF OtherStep

LEMMA ExposedInvKept ==
  ExposedInv /\ OneFlow /\ [VaultNext]_vaultVars =>
    ExposedInv' /\ NoneExposed /\ NoneLost
<1> SUFFICES ASSUME ExposedInv, OneFlow, [VaultNext]_vaultVars
             PROVE  ExposedInv' /\ NoneExposed /\ NoneLost
  OBVIOUS
<1>1. KeysInv'
  BY KeysInvKept DEF ExposedInv
<1>2. /\ NewIsFirst' /\ KnownExist'
      /\ NoneExposed /\ NoneLost
  <2>1. CASE UNCHANGED vaultVars
    BY <2>1 DEF vaultVars, ExposedInv, NewIsFirst, KnownExist, NoneExposed, NoneLost
  <2>2. CASE VaultNext
    BY <2>2, WindowKnown, MutexKnown, OtherKnown DEF VaultNext, MutexStep
  <2> QED BY <2>1, <2>2
<1> QED BY <1>1, <1>2 DEF ExposedInv

(* No step leaves a dapp a permission for an account without a key, or      *)
(* gives it one (removeAllAccountPermissions, clearPermissions in a         *)
(* restore), but for accounts forgetDevice or a restore's list left apart,  *)
(* while no window restores a vault at the time another one creates one.    *)
THEOREM ExposedAreKeys == VaultSpec /\ []OneFlow => ExposedExist
<1>1. VaultSpec /\ []OneFlow => []ExposedInv
  BY VaultInitInv, ExposedInvKept, PTL DEF VaultSpec
<1>2. ExposedInv /\ OneFlow /\ [VaultNext]_vaultVars =>
        [\A a \in exposed' \ vault' : a \in exposed \ vault \/ a \in unsynced']_vaultVars
  BY ExposedInvKept DEF NoneExposed
<1> QED BY <1>1, <1>2, PTL DEF VaultSpec, ExposedExist

(* No account is lost but by removal, by forgetting the device, or by the   *)
(* restore that replaces the vault (createVaultMutex), under the same       *)
(* condition.                                                               *)
THEOREM AccountsStay == VaultSpec /\ []OneFlow => AccountsNotLost
<1>1. VaultSpec /\ []OneFlow => []ExposedInv
  BY VaultInitInv, ExposedInvKept, PTL DEF VaultSpec
<1>2. ExposedInv /\ OneFlow /\ [VaultNext]_vaultVars =>
        [\A a \in vault \ vault' : Removes(a) \/ Forgets(a) \/ Restoring]_vaultVars
  BY ExposedInvKept DEF NoneLost
<1> QED BY <1>1, <1>2, PTL DEF VaultSpec, AccountsNotLost

=============================================================================
