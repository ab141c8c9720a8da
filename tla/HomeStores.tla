------------------------------ MODULE HomeStores ------------------------------
(***************************************************************************)
(* The home page of the new application: the accounts of its chains and     *)
(* the chosen one (src/store/storeAccount.js, storeChain.js), the wallet    *)
(* that speaks for it (storeWallet.js) and its tokens (storeToken.js).      *)
(* All of it lives in the page and is saved as it changes; what the page    *)
(* has asked the background page or a node for dies with it.  Bound: one    *)
(* page, unlocked.                                                          *)
(***************************************************************************)
EXTENDS Naturals, FiniteSets, Sequences

CONSTANTS
  HomeChains, HomeAddrs,
  Paths,        \* derivation paths
  FirstPath,    \* that of index 0
  Derived,      \* the address the vault derives for a path, on every chain
  Importable,   \* the accounts the user may add
  SavedLists,   \* the lists of accounts earlier pages may have left
  Unset,        \* no account is chosen
  NoTag, Resting,
  Inits,        \* bound: calls of initFirstAccount that wait
  MaxTokenRequests  \* bound: requests for tokens under way

Account == [chainKey : HomeChains, address : HomeAddrs, path : Paths,
            type : {"wallet", "hardware"}]
Tag == [chainKey : HomeChains, ownerAddress : HomeAddrs, local : HomeChains]
Fix == [stage : {"current", "list"}, account : Account, index : Nat,
        fixed : Seq(Account), updated : BOOLEAN]

ASSUME HomeChainsAssumption == HomeChains # {}
ASSUME DerivedAssumption == Derived \in [Paths -> HomeAddrs]
ASSUME ImportableAssumption == Importable \subseteq Account
ASSUME SavedListsAssumption == SavedLists \subseteq Seq(Account)
ASSUME RestingAssumption ==
  Resting \notin Fix \cup [chainKey : HomeChains, mismatch : BOOLEAN]
ASSUME UnsetAssumption == Unset \notin Account
ASSUME NoTagAssumption == NoTag \notin Tag
ASSUME FirstPathAssumption == FirstPath \in Paths
ASSUME MaxTokenRequestsAssumption == MaxTokenRequests \in Nat

VARIABLES
  currentChainKey, currentAccountRaw, allAccountsRaw,
  isHardwareOnlyMode,
  currentWallet,       \* whose keys and node the page uses
  currentTokensRaw,    \* the account it was stored for, and if tokens are left
  inits,               \* per call, what initFirstAccount waits with
  fix,                 \* what autofixMismatchAddresses waits with
  tokenRequests,       \* requests for the tokens of an account
  added,               \* ghost: the accounts added and not deleted
  deletedAmid          \* ghost: the list shrank while autofix went through it

homeVars == <<currentChainKey, currentAccountRaw, allAccountsRaw, isHardwareOnlyMode,
              currentWallet, currentTokensRaw, inits, fix, tokenRequests, added,
              deletedAmid>>

HomeTypeOK ==
  /\ currentChainKey \in HomeChains
  /\ currentAccountRaw \in Account \cup {Unset}
  /\ allAccountsRaw \in Seq(Account)
  /\ isHardwareOnlyMode \in BOOLEAN
  /\ currentWallet \in [chainKey : HomeChains, account : Account \cup {Unset}]
  /\ currentTokensRaw \in [of : Tag \cup {NoTag}, shown : BOOLEAN]
  /\ inits \in [Inits -> [chainKey : HomeChains, mismatch : BOOLEAN] \cup {Resting}]
  /\ fix \in Fix \cup {Resting}
  /\ tokenRequests \subseteq Tag
  /\ added \subseteq Account
  /\ deletedAmid \in BOOLEAN

-----------------------------------------------------------------------------
(* What follows from a change of the chosen account *)

FirstOf(list) == IF list = <<>> THEN Unset ELSE list[1]

(* The first of getAccountsByChainKey, if there is one. *)
Listed(a, key, hw) == a.chainKey = key /\ (hw => a.type = "hardware")
IsFirst(i, key, list, hw) ==
  /\ Listed(list[i], key, hw)
  /\ \A j \in DOMAIN list : Listed(list[j], key, hw) => i <= j
FirstOfChain(key, list, hw) ==
  IF \E i \in DOMAIN list : IsFirst(i, key, list, hw)
    THEN list[CHOOSE i \in DOMAIN list : IsFirst(i, key, list, hw)]
    ELSE Unset

(* addAccounts: what has the chain and address of a listed one is left out. *)
Adds(list, a) ==
  IF \E i \in DOMAIN list : list[i].chainKey = a.chainKey /\ list[i].address = a.address
    THEN list ELSE Append(list, a)

(* It would be wrong to compare the addresses alone: the networks of one     *)
(* chain share them.                                                        *)
IsOfOwner(tag, a) == tag # NoTag /\ a # Unset /\ tag.ownerAddress = a.address

(* updateCurrentWallet, and the autorun of the tokens: those of another     *)
(* account are taken out of the list, which keeps its owner.  It is not     *)
(* saved without them, as it is changed in place.                           *)
IsOf(tag, a) ==
  /\ tag # NoTag /\ a # Unset
  /\ tag.chainKey = a.chainKey /\ tag.ownerAddress = a.address

Show(key, a, tokens) ==
  /\ currentChainKey' = key
  /\ currentAccountRaw' = a
  /\ currentWallet' = [chainKey |-> key, account |-> a]
  /\ currentTokensRaw' = [of |-> tokens.of, shown |-> tokens.shown /\ IsOf(tokens.of, a)]

(* initFirstAccount up to its request, if it makes one: an account of       *)
(* another chain, or one without a device in hardware-only mode, is given   *)
(* up.                                                                      *)
InitFirst(key, a, list, hw, waiting, tokens) ==
  LET nextUp   == FirstOfChain(key, list, hw)
      mismatch == a = Unset \/ a.chainKey # key
      giveUp   == nextUp = Unset \/ mismatch \/ (hw /\ a.type # "hardware")
  IN  IF nextUp = Unset /\ ~hw
        THEN /\ \E i \in Inits : waiting[i] = Resting
             /\ inits' = [waiting EXCEPT ![CHOOSE i \in Inits : waiting[i] = Resting] =
                            [chainKey |-> key, mismatch |-> mismatch]]
             /\ Show(key, Unset, tokens)
        ELSE /\ Show(key, IF giveUp THEN nextUp ELSE a, tokens)
             /\ inits' = waiting

(* The autoruns: the chain follows the account, and initFirstAccount runs   *)
(* when the chain or the mode has changed.                                  *)
KeyOf(a) == IF a = Unset THEN currentChainKey ELSE a.chainKey

React(a, list, hw) ==
  IF KeyOf(a) # currentChainKey \/ hw # isHardwareOnlyMode
    THEN InitFirst(KeyOf(a), a, list, hw, inits, currentTokensRaw)
    ELSE Show(currentChainKey, a, currentTokensRaw) /\ UNCHANGED inits

(* The page is opened, for the first time in the new application: no        *)
(* account is chosen yet, and the autoruns have run.                        *)
HomeInit ==
  /\ currentChainKey \in HomeChains
  /\ allAccountsRaw \in SavedLists
  /\ isHardwareOnlyMode = FALSE
  /\ currentAccountRaw = FirstOfChain(currentChainKey, allAccountsRaw, FALSE)
  /\ inits = [i \in Inits |->
                IF currentAccountRaw = Unset /\ i = CHOOSE j \in Inits : TRUE
                THEN [chainKey |-> currentChainKey, mismatch |-> TRUE] ELSE Resting]
  /\ currentWallet = [chainKey |-> currentChainKey, account |-> currentAccountRaw]
  /\ currentTokensRaw = [of |-> NoTag, shown |-> FALSE]
  /\ fix = Resting
  /\ tokenRequests = {}
  /\ added = {allAccountsRaw[i] : i \in DOMAIN allAccountsRaw}
  /\ deletedAmid = FALSE

-----------------------------------------------------------------------------
(* The user *)

(* setCurrentAccount *)
ChooseAccount(a) ==
  /\ a \in {allAccountsRaw[i] : i \in DOMAIN allAccountsRaw}
  /\ React(a, allAccountsRaw, isHardwareOnlyMode)
  /\ UNCHANGED <<allAccountsRaw, isHardwareOnlyMode, fix, tokenRequests, added, deletedAmid>>

(* confirmImport *)
ConfirmImport(a) ==
  /\ a \in Importable
  /\ allAccountsRaw' = Adds(allAccountsRaw, a)
  /\ added' = added \cup {a}
  /\ React(a, allAccountsRaw', isHardwareOnlyMode)
  /\ UNCHANGED <<isHardwareOnlyMode, fix, tokenRequests, deletedAmid>>

(* _fixAccountAddress *)
RealAccount(a) ==
  IF a.type = "wallet" THEN [a EXCEPT !.address = Derived[a.path]] ELSE a

CanCurrentAccountDelete ==
  /\ currentAccountRaw # Unset
  /\ currentAccountRaw.type = "wallet" =>
       Len(SelectSeq(allAccountsRaw, LAMBDA a : a.chainKey = currentChainKey
                                                /\ a.type = "wallet")) > 1

(* filter: what is left of a list without the accounts that are gone.       *)
Filtered(list, gone) ==
  LET left[i \in 0 .. Len(list)] ==
        IF i = 0 THEN <<>>
        ELSE IF list[i] \in gone THEN left[i - 1]
        ELSE Append(left[i - 1], list[i])
  IN  left[Len(list)]

(* deleteAccountByAddress, of the chosen account: the next one need not be  *)
(* of a device in hardware-only mode.                                       *)
DeleteAccount ==
  /\ CanCurrentAccountDelete
  /\ LET gone    == {a \in Account : a.address = currentAccountRaw.address
                                     /\ a.chainKey = currentChainKey}
         remains == Filtered(allAccountsRaw, gone)
         same    == FirstOfChain(currentChainKey, remains, FALSE)
     IN  /\ allAccountsRaw' = remains
         /\ added' = {a \in added : a \notin gone /\ RealAccount(a) \notin gone}
         /\ React(IF same # Unset THEN same ELSE FirstOf(remains), remains,
                  isHardwareOnlyMode)
  /\ deletedAmid' = (deletedAmid \/ (fix # Resting /\ fix.stage = "list"))
  /\ UNCHANGED <<isHardwareOnlyMode, fix, tokenRequests>>

(* The mode is a setting of the old application. *)
SetHardwareOnlyMode ==
  /\ isHardwareOnlyMode' = ~isHardwareOnlyMode
  /\ React(currentAccountRaw, allAccountsRaw, ~isHardwareOnlyMode)
  /\ UNCHANGED <<allAccountsRaw, fix, tokenRequests, added, deletedAmid>>

(* The page is closed, and opened again with what was saved; the autoruns   *)
(* run.                                                                     *)
Reopen ==
  /\ InitFirst(currentChainKey, currentAccountRaw, allAccountsRaw, isHardwareOnlyMode,
               [i \in Inits |-> Resting],
               [of |-> currentTokensRaw.of, shown |-> currentTokensRaw.of # NoTag])
  /\ fix' = Resting
  /\ tokenRequests' = {}
  /\ UNCHANGED <<allAccountsRaw, isHardwareOnlyMode, added, deletedAmid>>

-----------------------------------------------------------------------------
(* initFirstAccount *)

(* The home page calls it whenever it is shown. *)
InitFirstAccount ==
  /\ InitFirst(currentChainKey, currentAccountRaw, allAccountsRaw, isHardwareOnlyMode,
               inits, currentTokensRaw)
  /\ UNCHANGED <<allAccountsRaw, isHardwareOnlyMode, fix, tokenRequests, added, deletedAmid>>

(* The rest is decided by the account before the request and the chain      *)
(* after it.                                                                *)
AddressesArrive(i) ==
  /\ inits[i] # Resting
  /\ LET one == [chainKey |-> inits[i].chainKey, address |-> Derived[FirstPath],
                 path |-> FirstPath, type |-> "wallet"]
         own == FirstOfChain(currentChainKey, allAccountsRaw', isHardwareOnlyMode)
     IN  /\ allAccountsRaw' = Adds(allAccountsRaw, one)
         /\ added' = added \cup {one}
         /\ IF currentAccountRaw = Unset \/ inits[i].mismatch
              THEN Show(currentChainKey, own, currentTokensRaw)
              ELSE UNCHANGED <<currentChainKey, currentAccountRaw, currentWallet,
                               currentTokensRaw>>
  /\ inits' = [inits EXCEPT ![i] = Resting]
  /\ UNCHANGED <<isHardwareOnlyMode, fix, tokenRequests, deletedAmid>>

AddressesFail(i) ==
  /\ inits[i] # Resting
  /\ inits' = [inits EXCEPT ![i] = Resting]
  /\ UNCHANGED <<currentChainKey, currentAccountRaw, allAccountsRaw, isHardwareOnlyMode,
                 currentWallet, currentTokensRaw, fix, tokenRequests, added, deletedAmid>>

-----------------------------------------------------------------------------
(* autofixMismatchAddresses.  Bound: one at a time. *)

(* It would be wrong to write back only the accounts looked at. *)
NotLookedAt(i) == <<>>

(* What the loop has not come to yet, or passes over. *)
Remaining(i) == SubSeq(allAccountsRaw, i, Len(allAccountsRaw))

(* Its loop reads the list again after each answer, up to an account whose  *)
(* address the vault derives, and writes it at the end if it changed one.   *)
GoThrough(i, fixed, updated) ==
  LET rest == {j \in i .. Len(allAccountsRaw) : allAccountsRaw[j].type = "wallet"}
      next == CHOOSE j \in rest : \A k \in rest : j <= k
  IN  IF rest = {}
        THEN /\ fix' = Resting
             /\ allAccountsRaw' =
                  IF updated THEN fixed \o Remaining(i)
                  ELSE allAccountsRaw
        ELSE /\ fix' = [stage |-> "list", account |-> allAccountsRaw[next], index |-> next,
                        fixed |-> fixed \o SubSeq(allAccountsRaw, i, next - 1),
                        updated |-> updated]
             /\ UNCHANGED allAccountsRaw

AutofixMismatchAddresses ==
  /\ fix = Resting /\ currentAccountRaw # Unset
  /\ IF currentAccountRaw.type = "wallet"
       THEN /\ fix' = [stage |-> "current", account |-> currentAccountRaw, index |-> 0,
                       fixed |-> <<>>, updated |-> FALSE]
            /\ UNCHANGED allAccountsRaw
       ELSE GoThrough(1, <<>>, FALSE)
  /\ UNCHANGED <<currentChainKey, currentAccountRaw, isHardwareOnlyMode, currentWallet,
                 currentTokensRaw, inits, tokenRequests, added, deletedAmid>>

(* The account it began with is chosen again if its address was wrong. *)
FixCurrent ==
  /\ fix # Resting /\ fix.stage = "current"
  /\ IF RealAccount(fix.account) # fix.account
       THEN React(RealAccount(fix.account), allAccountsRaw, isHardwareOnlyMode)
       ELSE UNCHANGED <<currentChainKey, currentAccountRaw, currentWallet, currentTokensRaw,
                        inits>>
  /\ GoThrough(1, <<>>, FALSE)
  /\ UNCHANGED <<isHardwareOnlyMode, tokenRequests, added, deletedAmid>>

FixNext ==
  /\ fix # Resting /\ fix.stage = "list"
  /\ GoThrough(fix.index + 1, Append(fix.fixed, RealAccount(fix.account)),
               fix.updated \/ RealAccount(fix.account) # fix.account)
  /\ UNCHANGED <<currentChainKey, currentAccountRaw, isHardwareOnlyMode, currentWallet,
                 currentTokensRaw, inits, tokenRequests, added, deletedAmid>>

FixFails ==
  /\ fix # Resting
  /\ fix' = Resting
  /\ UNCHANGED <<currentChainKey, currentAccountRaw, allAccountsRaw, isHardwareOnlyMode,
                 currentWallet, currentTokensRaw, inits, tokenRequests, added, deletedAmid>>

-----------------------------------------------------------------------------
(* The tokens *)

(* fetchCurrentAccountTokens: the wallet's chain, the account's address and *)
(* the key of its own list.                                                 *)
FetchTokens ==
  /\ currentAccountRaw # Unset
  /\ tokenRequests' = tokenRequests \cup {[chainKey |-> currentWallet.chainKey,
                               ownerAddress |-> currentAccountRaw.address,
                               local |-> currentAccountRaw.chainKey]}
  /\ Cardinality(tokenRequests') <= MaxTokenRequests
  /\ UNCHANGED <<currentChainKey, currentAccountRaw, allAccountsRaw, isHardwareOnlyMode,
                 currentWallet, currentTokensRaw, inits, fix, added, deletedAmid>>

(* setCurrentTokens; it throws when there is no account. *)
TokensArrive(f) ==
  /\ f \in tokenRequests
  /\ currentTokensRaw' =
       IF IsOf(f, currentAccountRaw) THEN [of |-> f, shown |-> TRUE] ELSE currentTokensRaw
  /\ tokenRequests' = tokenRequests \ {f}
  /\ UNCHANGED <<currentChainKey, currentAccountRaw, allAccountsRaw, isHardwareOnlyMode,
                 currentWallet, inits, fix, added, deletedAmid>>

TokensFail(f) ==
  /\ f \in tokenRequests
  /\ tokenRequests' = tokenRequests \ {f}
  /\ UNCHANGED <<currentChainKey, currentAccountRaw, allAccountsRaw, isHardwareOnlyMode,
                 currentWallet, currentTokensRaw, inits, fix, added, deletedAmid>>

-----------------------------------------------------------------------------
HomeNext ==
  \/ \E a \in Account : ChooseAccount(a) \/ ConfirmImport(a)
  \/ DeleteAccount \/ SetHardwareOnlyMode \/ Reopen
  \/ InitFirstAccount
  \/ \E i \in Inits : AddressesArrive(i) \/ AddressesFail(i)
  \/ AutofixMismatchAddresses \/ FixCurrent \/ FixNext \/ FixFails
  \/ FetchTokens
  \/ \E f \in tokenRequests : TokensArrive(f) \/ TokensFail(f)

HomeSpec == HomeInit /\ [][HomeNext]_homeVars

-----------------------------------------------------------------------------
(* Chain, account, wallet and tokens are of one account, whatever answers   *)
(* arrive after it changed: the wallet is the chosen account's, the chain   *)
(* is the account's, and the tokens shown, those of the node as those the   *)
(* user added, were asked for this account (the autoruns of storeAccount    *)
(* and storeToken, and the guard of setCurrentTokens).                      *)
HomeShowsOneAccount ==
  /\ currentWallet = [chainKey |-> currentChainKey, account |-> currentAccountRaw]
  /\ currentAccountRaw # Unset => currentAccountRaw.chainKey = currentChainKey
  /\ currentTokensRaw.shown =>
       /\ currentAccountRaw # Unset
       /\ currentTokensRaw.of = [chainKey |-> currentChainKey,
                                 ownerAddress |-> currentAccountRaw.address,
                                 local |-> currentChainKey]

(* An account the user did not delete stays listed, itself or with its      *)
(* address put right, although initFirstAccount and autofixMismatchAddresses *)
(* write the list after requests, the latter as a whole.  Deleting one      *)
(* while the loop of autofixMismatchAddresses is in the list makes it skip  *)
(* the one that takes its place, and is excepted.                           *)
AccountsKept ==
  ~deletedAmid =>
    \A a \in added : \E i \in DOMAIN allAccountsRaw :
      /\ allAccountsRaw[i].chainKey = a.chainKey
      /\ allAccountsRaw[i].address \in {a.address, RealAccount(a).address}
=============================================================================
