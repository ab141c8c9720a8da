-------------------------------- MODULE Vault --------------------------------
(***************************************************************************)
(* The accounts of the wallet: the handlers of MetamaskController that     *)
(* create, restore and change the vault, and the identities of the         *)
(* preferences controller that have to follow.  The keyring controller is  *)
(* a library; what matters of it is that every change ends with an         *)
(* encryption, which takes time, and then an update of its memStore, to    *)
(* which MetamaskController is subscribed.                                 *)
(*                                                                         *)
(* op[w] is the handler window w waits for:                                *)
(*   adding, imported, watching, hardware, removing   the encryption       *)
(*   parsing, device     the key file or the device is read                *)
(*   wantsNew, wantsOld  createVaultMutex.acquire()                        *)
(*   creating, making    the keyring controller makes a new vault          *)
(*   balance, growing    the search for the first empty account            *)
(* The vault is stored with the keyrings it holds, but for what            *)
(* forgetDevice took out of memory only: no death of the page comes        *)
(* between the two.                                                        *)
(***************************************************************************)
EXTENDS Naturals, FiniteSets

CONSTANTS
  Seeds,       \* seed phrases; each has the accounts <<seed, 1>>, <<seed, 2>>...
  MaxHd,       \* bound: accounts of a seed phrase
  Imports,     \* private keys, watched addresses, accounts of a device
  Device,      \* the latter: the accounts of the device
  VaultWindows,\* windows of the extension
  MaxVaults,   \* bound: vaults made
  MaxLocks,    \* bound: times the extension is locked
  NoAccount

Hd == Seeds \X (1..MaxHd)
Addresses == Hd \cup Imports

ASSUME NoAccountAssumption == NoAccount \notin Addresses
ASSUME SeedsAssumption == Seeds # {} /\ Imports \cap Hd = {}
ASSUME DeviceAssumption == Device \subseteq Imports
ASSUME VaultBoundsAssumption ==
  MaxHd \in Nat \ {0} /\ MaxVaults \in Nat /\ MaxLocks \in Nat

VARIABLES
  vault,       \* the accounts of the keyrings, stored encrypted
  unsaved,     \* forgotten accounts of the device the stored vault still has
  sealed,      \* the keyrings are not in memory (isUnlocked is false)
  identities,  \* the accounts preferences know, with name and tokens
  selected,    \* selectedAddress
  exposed,     \* accounts permitted to dapps
  op,          \* per window, see above
  mutex,       \* createVaultMutex is held
  vaults,      \* vaults made so far
  locks,       \* times locked so far
  unsynced     \* accounts that forgetDevice, or the list a restore ended with,
               \* left known without a key or unknown with one

vaultVars == <<vault, unsaved, sealed, identities, selected, exposed, op, mutex,
               vaults, locks, unsynced>>

OpKinds == {"idle", "adding", "parsing", "imported", "watching", "device", "hardware",
            "removing", "wantsNew", "wantsOld", "creating", "making", "balance", "growing"}
Making == {"creating", "making", "balance", "growing"}

(* account: what is added or removed; found: accounts listed at the start   *)
(* (a restore: at the last look).                                           *)
Operation == [at : OpKinds, account : Addresses \cup {NoAccount},
              seed : Seeds, found : SUBSET Addresses]

VaultTypeOK ==
  /\ vault \in SUBSET Addresses /\ sealed \in BOOLEAN
  /\ identities \in SUBSET Addresses /\ exposed \in SUBSET Addresses
  /\ selected \in Addresses \cup {NoAccount}
  /\ op \in [VaultWindows -> Operation]
  /\ mutex \in BOOLEAN
  /\ mutex <=> \E w \in VaultWindows : op[w].at \in Making
  /\ vaults \in 0..MaxVaults /\ locks \in 0..MaxLocks
  /\ unsaved \in SUBSET Device /\ unsynced \in SUBSET Addresses

Idle == [at |-> "idle", account |-> NoAccount, seed |-> CHOOSE s \in Seeds : TRUE,
         found |-> {}]

VaultInit ==
  /\ vault = {} /\ unsaved = {} /\ sealed = TRUE
  /\ identities = {} /\ selected = NoAccount /\ exposed = {}
  /\ op = [w \in VaultWindows |-> Idle]
  /\ mutex = FALSE
  /\ vaults = 0 /\ locks = 0 /\ unsynced = {}

(* keyringController.getAccounts() *)
Keys == IF sealed THEN {} ELSE vault
HdKeys(accounts) == accounts \cap Hd
(* Bound: while the library makes a vault it is not called otherwise.       *)
Calm == \A w \in VaultWindows : op[w].at \notin {"creating", "making"}
InUi == ~sealed /\ Calm
Free(w) == op[w].at = "idle"
Difference(a, b) == (a \ b) \cup (b \ a)
Goes(w, at, account, seed, found) ==
  op' = [op EXCEPT ![w] = [at |-> at, account |-> account, seed |-> seed, found |-> found]]
Ends(w) == op' = [op EXCEPT ![w] = Idle]

(* persistAllKeyrings: what is stored is what is in memory.                 *)
Stores(accounts) == vault' = accounts /\ unsaved' = {}

-----------------------------------------------------------------------------
(* Preferences. *)

(* setSelectedAddress throws for an unknown identity. *)
SelectOneOf(candidates) ==
  IF candidates = {} THEN UNCHANGED selected ELSE selected' \in candidates

(* syncAddresses with the accounts of the keyrings: lost identities go, new *)
(* ones come, and another one is selected if the selected one went.         *)
SyncedLost(accounts) == identities' = identities \cap accounts
Synced(accounts) == identities' = accounts
SelectAmong(accounts) ==
  IF selected \in accounts THEN UNCHANGED selected ELSE selected' \in accounts

(* _onKeyringControllerUpdate does nothing without accounts.                *)
OnKeyringControllerUpdate(accounts) ==
  IF accounts = {} THEN UNCHANGED <<identities, selected, unsynced>>
  ELSE Synced(accounts) /\ SelectAmong(accounts) /\ unsynced' = {}

(* setAddresses, and selection of one of the accounts that are new to the   *)
(* handler.                                                                 *)
SetAddresses(accounts, new) ==
  /\ identities' = accounts
  /\ IF new \cap accounts # {} THEN selected' \in new \cap accounts
     ELSE IF accounts = {} THEN UNCHANGED selected ELSE SelectAmong(accounts)
  /\ unsynced' = {}

(* removeAddress *)
RemoveAddress(a) ==
  /\ identities' = identities \ {a}
  /\ IF selected = a THEN SelectOneOf(identities \ {a}) ELSE UNCHANGED selected

-----------------------------------------------------------------------------
(* Accounts are added. *)

NextHd(s) == <<s, Cardinality({h \in vault : h \in Hd /\ h[1] = s}) + 1>>

AddNewAccount(w) ==
  /\ Free(w) /\ InUi
  /\ \E s \in {h[1] : h \in HdKeys(vault)} :
       /\ NextHd(s) \in Hd
       /\ Stores(vault \cup {NextHd(s)})
       /\ Goes(w, "adding", NextHd(s), s, vault)
  /\ UNCHANGED <<sealed, identities, selected, exposed, mutex, vaults, locks, unsynced>>

(* The new accounts are selected one after the other; without an HD keyring *)
(* verifySeedPhrase throws before.                                          *)
AddNewAccountEnds(w) ==
  /\ op[w].at = "adding"
  /\ IF HdKeys(Keys) = {} THEN OnKeyringControllerUpdate(Keys)
     ELSE SetAddresses(Keys, Keys \ op[w].found)
  /\ Ends(w)
  /\ UNCHANGED <<vault, unsaved, sealed, exposed, mutex, vaults, locks>>

(* importAccountWithStrategy: a JSON file is decrypted first. *)
ImportAccount(w, a) ==
  /\ Free(w) /\ InUi
  /\ Goes(w, "parsing", a, Idle.seed, {})
  /\ UNCHANGED <<vault, unsaved, sealed, identities, selected, exposed, mutex, vaults, locks, unsynced>>

(* addNewKeyring refuses a duplicate, and fails without the password.       *)
AddNewKeyring(w) ==
  /\ op[w].at = "parsing" /\ Calm
  /\ IF sealed \/ op[w].account \in vault
     THEN Ends(w) /\ UNCHANGED <<vault, unsaved>>
     ELSE /\ Stores(vault \cup {op[w].account})
          /\ op' = [op EXCEPT ![w].at = "imported"]
  /\ UNCHANGED <<sealed, identities, selected, exposed, mutex, vaults, locks, unsynced>>

(* The identities become those of the keyrings, also if the extension was   *)
(* locked meanwhile and has none.                                           *)
ImportAccountEnds(w) ==
  /\ op[w].at = "imported"
  /\ SetAddresses(Keys, {op[w].account})
  /\ Ends(w)
  /\ UNCHANGED <<vault, unsaved, sealed, exposed, mutex, vaults, locks>>

ImportWatchAccount(w, a) ==
  /\ Free(w) /\ InUi
  /\ a \notin vault
  /\ Stores(vault \cup {a})
  /\ Goes(w, "watching", a, Idle.seed, vault)
  /\ UNCHANGED <<sealed, identities, selected, exposed, mutex, vaults, locks, unsynced>>

ImportWatchAccountEnds(w) ==
  /\ op[w].at = "watching"
  /\ SetAddresses(Keys, {op[w].account})
  /\ Ends(w)
  /\ UNCHANGED <<vault, unsaved, sealed, exposed, mutex, vaults, locks>>

(* unlockHardwareWalletAccount: the device is asked for the address.        *)
AskDevice(w, a) ==
  /\ Free(w) /\ InUi
  /\ Goes(w, "device", a, Idle.seed, vault)
  /\ UNCHANGED <<vault, unsaved, sealed, identities, selected, exposed, mutex, vaults, locks, unsynced>>

DeviceAnswers(w) ==
  /\ op[w].at = "device" /\ Calm
  /\ IF sealed THEN Ends(w) /\ UNCHANGED <<vault, unsaved>>
     ELSE /\ Stores(vault \cup {op[w].account})
          /\ op' = [op EXCEPT ![w].at = "hardware"]
  /\ UNCHANGED <<sealed, identities, selected, exposed, mutex, vaults, locks, unsynced>>

UnlockHardwareEnds(w) ==
  /\ op[w].at = "hardware"
  /\ SetAddresses(Keys, Keys \ op[w].found)
  /\ Ends(w)
  /\ UNCHANGED <<vault, unsaved, sealed, exposed, mutex, vaults, locks>>

-----------------------------------------------------------------------------
(* Accounts are removed. *)

(* removeAllAccountPermissions *)
KeepExposed(a) == UNCHANGED exposed
Withdraw(a) == exposed' = exposed \ {a}

(* An unknown identity is an error before anything changes.  An account no  *)
(* keyring has is an error of the last step, after its permissions and its  *)
(* identity are gone.                                                       *)
RemoveAccountOf(w, a) ==
  /\ Free(w) /\ InUi
  /\ a \in identities
  /\ Withdraw(a)
  /\ RemoveAddress(a)
  /\ IF a \in vault
     THEN Stores(vault \ {a}) /\ Goes(w, "removing", a, Idle.seed, {})
     ELSE UNCHANGED <<vault, unsaved, op>>
  /\ UNCHANGED <<sealed, mutex, vaults, locks, unsynced>>

RemoveAccountEnds(w) ==
  /\ op[w].at = "removing"
  /\ OnKeyringControllerUpdate(Keys)
  /\ Ends(w)
  /\ UNCHANGED <<vault, unsaved, sealed, exposed, mutex, vaults, locks>>

(* forgetDevice empties the keyring and does nothing else: the accounts     *)
(* stay known and permitted, and are stored.                                *)
ForgetDevice ==
  /\ InUi /\ vault \cap Device # {}
  /\ vault' = vault \ Device
  /\ unsaved' = unsaved \cup (vault \cap Device)
  /\ unsynced' = unsynced \cup (vault \cap Device)
  /\ UNCHANGED <<sealed, identities, selected, exposed, op, mutex, vaults, locks>>

(* finalizePermissionsRequest, addPermittedAccount: identities are checked. *)
Expose(a) ==
  /\ a \in identities
  /\ exposed' = exposed \cup {a}
  /\ UNCHANGED <<vault, unsaved, sealed, identities, selected, op, mutex, vaults, locks, unsynced>>

-----------------------------------------------------------------------------
(* Vaults are made. *)

IgnoreMutex == mutex' = TRUE
AcquireMutex == ~mutex /\ mutex' = TRUE
ReleaseMutex == mutex' = FALSE

(* The first-time flow is shown while there is no vault. *)
WantNewVault(w, s) ==
  /\ Free(w) /\ vault = {} /\ vaults < MaxVaults
  /\ vaults' = vaults + 1
  /\ Goes(w, "wantsNew", NoAccount, s, {})
  /\ UNCHANGED <<vault, unsaved, sealed, identities, selected, exposed, mutex, locks, unsynced>>

(* createNewVaultAndKeychain: with accounts in memory it only updates.      *)
CreateNewVault(w) ==
  /\ op[w].at = "wantsNew"
  /\ IF Keys # {}
     THEN ~mutex /\ Ends(w) /\ UNCHANGED mutex /\ OnKeyringControllerUpdate(Keys)
     ELSE /\ AcquireMutex
          /\ op' = [op EXCEPT ![w].at = "creating"]
          /\ UNCHANGED <<identities, selected, unsynced>>
  /\ UNCHANGED <<vault, unsaved, sealed, exposed, vaults, locks>>

CreateNewVaultEnds(w) ==
  LET first == {<<op[w].seed, 1>>}
  IN  /\ op[w].at = "creating"
      /\ Stores(first) /\ sealed' = FALSE
      /\ SetAddresses(first, first)
      /\ ReleaseMutex
      /\ Ends(w)
      /\ UNCHANGED <<exposed, vaults, locks>>

WantRestore(w, s) ==
  /\ Free(w) /\ vaults < MaxVaults
  /\ vaults' = vaults + 1
  /\ Goes(w, "wantsOld", NoAccount, s, {})
  /\ UNCHANGED <<vault, unsaved, sealed, identities, selected, exposed, mutex, locks, unsynced>>

(* createNewVaultAndRestore: identities and permissions are cleared before  *)
(* the keyring controller looks at the seed phrase, and may refuse it.      *)
RestoreVault(w) ==
  /\ op[w].at = "wantsOld"
  /\ identities' = {} /\ exposed' = {}
  /\ \/ /\ AcquireMutex
        /\ op' = [op EXCEPT ![w].at = "making"]
        /\ Stores({})
        /\ UNCHANGED unsynced
     \/ /\ ~mutex /\ UNCHANGED <<mutex, vault, unsaved>>
        /\ unsynced' = vault
        /\ Ends(w)
  /\ UNCHANGED <<sealed, selected, vaults, locks>>

RestoreMade(w) ==
  LET accounts == Keys \cup {<<op[w].seed, 1>>}
  IN  /\ op[w].at = "making"
      /\ Stores(accounts) /\ sealed' = FALSE
      /\ OnKeyringControllerUpdate(accounts)
      /\ op' = [op EXCEPT ![w].at = "balance", ![w].found = accounts]
      /\ UNCHANGED <<exposed, mutex, vaults, locks>>

(* The last account has a balance: one more.  (Locked: addNewAccount fails.) *)
BalanceFound(w) ==
  /\ op[w].at = "balance" /\ ~sealed
  /\ NextHd(op[w].seed) \in Hd
  /\ Stores(vault \cup {NextHd(op[w].seed)})
  /\ op' = [op EXCEPT ![w].at = "growing"]
  /\ UNCHANGED <<sealed, identities, selected, exposed, mutex, vaults, locks, unsynced>>

GrowEnds(w) ==
  /\ op[w].at = "growing"
  /\ OnKeyringControllerUpdate(Keys)
  /\ op' = [op EXCEPT ![w].at = "balance", ![w].found = Keys]
  /\ UNCHANGED <<vault, unsaved, sealed, exposed, mutex, vaults, locks>>

(* It has none: the accounts listed before the balance was asked for become *)
(* the identities, whatever was added or removed since.                     *)
BalanceIsZero(w) ==
  /\ op[w].at = "balance"
  /\ identities' = op[w].found
  /\ SelectOneOf(op[w].found)
  /\ unsynced' = Difference(vault, op[w].found)
  /\ ReleaseMutex
  /\ Ends(w)
  /\ UNCHANGED <<vault, unsaved, sealed, exposed, vaults, locks>>

(* A request fails, or there is no HD keyring any more. *)
RestoreFails(w) ==
  /\ op[w].at = "balance"
  /\ ReleaseMutex
  /\ Ends(w)
  /\ UNCHANGED <<vault, unsaved, sealed, identities, selected, exposed, vaults, locks, unsynced>>

-----------------------------------------------------------------------------
(* The vault is opened and locked (by the user or the timer), and an        *)
(* account is selected.                                                     *)
Unseal ==
  /\ sealed /\ vault # {} /\ Calm
  /\ sealed' = FALSE
  /\ vault' = vault \cup unsaved /\ unsaved' = {}
  /\ OnKeyringControllerUpdate(vault')
  /\ UNCHANGED <<exposed, op, mutex, vaults, locks>>

Seal ==
  /\ InUi /\ locks < MaxLocks
  /\ sealed' = TRUE /\ locks' = locks + 1
  /\ UNCHANGED <<vault, unsaved, identities, selected, exposed, op, mutex, vaults, unsynced>>

SelectIdentity(a) ==
  /\ a \in identities /\ a # selected
  /\ selected' = a
  /\ UNCHANGED <<vault, unsaved, sealed, identities, exposed, op, mutex, vaults, locks, unsynced>>

(* Whoever waits for a free mutex gets it before the next event.            *)
Wants(w) == op[w].at \in {"wantsNew", "wantsOld"}
Settled == mutex \/ \A w \in VaultWindows : ~Wants(w)

MutexStep == \E w \in VaultWindows : CreateNewVault(w) \/ RestoreVault(w)

WindowStep(w) ==
  \/ AddNewAccount(w) \/ AddNewAccountEnds(w)
  \/ \E a \in Imports \ Device : ImportAccount(w, a) \/ ImportWatchAccount(w, a)
  \/ \E a \in Device : AskDevice(w, a)
  \/ \E a \in Imports : RemoveAccountOf(w, a)
  \/ AddNewKeyring(w) \/ ImportAccountEnds(w) \/ ImportWatchAccountEnds(w)
  \/ DeviceAnswers(w) \/ UnlockHardwareEnds(w) \/ RemoveAccountEnds(w)
  \/ \E s \in Seeds : WantNewVault(w, s) \/ WantRestore(w, s)
  \/ CreateNewVaultEnds(w)
  \/ RestoreMade(w) \/ BalanceFound(w) \/ GrowEnds(w)
  \/ BalanceIsZero(w) \/ RestoreFails(w)

OtherStep ==
  \/ \E a \in Addresses : Expose(a) \/ SelectIdentity(a)
  \/ ForgetDevice \/ Unseal \/ Seal

VaultNext ==
  \/ MutexStep
  \/ Settled /\ ((\E w \in VaultWindows : WindowStep(w)) \/ OtherStep)

VaultSpec == VaultInit /\ [][VaultNext]_vaultVars

(* Bound: the first-time flow creates a vault or imports one, not both.     *)
OneFlow ==
  ~ \E v, w \in VaultWindows :
      /\ op[v].at \in {"wantsNew", "creating"}
      /\ op[w].at \in {"wantsOld", "making", "balance", "growing"}

-----------------------------------------------------------------------------
(* Properties *)

AtRest == ~sealed /\ \A w \in VaultWindows : op[w].at \in {"idle", "parsing", "device", "wantsNew", "wantsOld"}

(* When nothing is under way every account of the keyrings is known to the  *)
(* preferences, and no other, and the selected one is one of them; but for  *)
(* the accounts of a device forgotten since, and those the outdated list a  *)
(* restore ends with leaves out or brings back.                             *)
IdentitiesFollowKeys ==
  AtRest => /\ Difference(identities, Keys) \subseteq unsynced
            /\ unsynced = {} => selected \in identities

(* No step leaves a dapp a permission for an account that has no key, or    *)
(* gives it one, but for accounts the identities are wrong about: removal   *)
(* and restore withdraw the permissions.                                    *)
ExposedExist ==
  [][\A a \in exposed' \ vault' : a \in exposed \ vault \/ a \in unsynced']_vaultVars

(* An account leaves the vault only if the user removes it or forgets its   *)
(* device, which is undone when the wallet is unlocked unless it was stored *)
(* since, or while a seed phrase is being restored: of two requests for a   *)
(* new vault only one makes one, which the other does not wipe.             *)
Restoring == \E w \in VaultWindows : "making" \in {op[w].at, op'[w].at}
Removes(a) == \E w \in VaultWindows :
  op[w].at = "idle" /\ op'[w].at = "removing" /\ op'[w].account = a
Forgets(a) == a \in Device /\ a \in unsaved'
AccountsNotLost ==
  [][\A a \in vault \ vault' : Removes(a) \/ Forgets(a) \/ Restoring]_vaultVars
=============================================================================
