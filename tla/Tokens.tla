-------------------------------- MODULE Tokens --------------------------------
(***************************************************************************)
(* The tokens of the accounts: the lists kept by PreferencesController     *)
(* (app/scripts/controllers/preferences.js) per account and chain, of      *)
(* which the store also holds the chosen account's and chain's, and        *)
(* DetectTokensController (controllers/detect-tokens.js), which looks for  *)
(* tokens the chosen account has and for the balances of those listed.     *)
(*                                                                         *)
(* Abstracted: lists are values.  In the code a list of the store is also  *)
(* the one of its account, so that what is added after a refused selection *)
(* is added to the list of the account that was refused as well.           *)
(***************************************************************************)
EXTENDS Session, Naturals, FiniteSets

CONSTANTS
  TokenIds,    \* the addresses of token contracts
  Contracts,   \* per chain, the contracts that exist there
  NoList,      \* no list of balances is shown
  MaxLookups   \* bound: lookups under way

ASSUME ContractsAssumption == Contracts \in [Chains -> SUBSET TokenIds]
ASSUME MaxLookupsAssumption == MaxLookups \in Nat

VARIABLES
  known,                               \* the accounts that have an identity
  refused,                             \* (ghost) a selection was refused since the
                                       \* lists in the store were the chosen one's
  accountTokens, accountHiddenTokens,  \* per account and chain
  tokens, hiddenTokens,                \* those of the chosen ones, in the store
  tokensWithBalance,                   \* whose and which chain's balances are shown
  isActive,                            \* a window is open and the wallet unlocked
  lookups                              \* the calls of the balance checker under way

tokenVars == <<sessionVars, known, refused, accountTokens, accountHiddenTokens, tokens,
               hiddenTokens, tokensWithBalance, isActive, lookups>>

Lists == [Addrs -> [Chains -> SUBSET TokenIds]]
Owner == [who : Addrs, chain : Chains]
Lookup == [what : {"new", "balances"}, who : Addrs, chain : Chains,
           list : SUBSET TokenIds]

TokTypeOK ==
  /\ provider \in Chains /\ known \subseteq Addrs /\ chosen \in Addrs
  /\ refused \in BOOLEAN
  /\ accountTokens \in Lists /\ accountHiddenTokens \in Lists
  /\ tokens \subseteq TokenIds /\ hiddenTokens \subseteq TokenIds
  /\ tokensWithBalance \in Owner \cup {NoList}
  /\ isActive \in BOOLEAN
  /\ lookups \subseteq Lookup /\ Cardinality(lookups) <= MaxLookups

NoTokens == [a \in Addrs |-> [c \in Chains |-> {}]]

TokInit ==
  /\ provider \in Chains /\ known \in SUBSET Addrs /\ chosen \in known
  /\ refused = FALSE
  /\ accountTokens = NoTokens /\ accountHiddenTokens = NoTokens
  /\ tokens = {} /\ hiddenTokens = {}
  /\ tokensWithBalance = NoList
  /\ isActive = FALSE
  /\ lookups = {}

-----------------------------------------------------------------------------
(* DetectTokensController *)

(* detectNewTokens and detectTokensBalance up to the call, for what is      *)
(* chosen then.                                                             *)
NewLookup(a, c, listed, hidden) ==
  [what |-> "new", who |-> a, chain |-> c, list |-> Contracts[c] \ (listed \cup hidden)]
BalanceLookup(a, c, listed) ==
  [what |-> "balances", who |-> a, chain |-> c, list |-> listed]

StartLookups(started) ==
  /\ lookups' = lookups \cup started
  /\ Cardinality(lookups') <= MaxLookups

(* restartTokenDetection, and the listener of NETWORK_DID_CHANGE. *)
Detects(active, a, c, listed, hidden) ==
  IF active THEN StartLookups({NewLookup(a, c, listed, hidden), BalanceLookup(a, c, listed)})
  ELSE UNCHANGED lookups

(* The timers: every three minutes, every eight seconds. *)
DetectNewTokens ==
  /\ isActive
  /\ StartLookups({NewLookup(chosen, provider, tokens, hiddenTokens)})
  /\ UNCHANGED <<sessionVars, known, refused, accountTokens, accountHiddenTokens, tokens,
                 hiddenTokens, tokensWithBalance, isActive>>

DetectTokensBalance ==
  /\ isActive
  /\ StartLookups({BalanceLookup(chosen, provider, tokens)})
  /\ UNCHANGED <<sessionVars, known, refused, accountTokens, accountHiddenTokens, tokens,
                 hiddenTokens, tokensWithBalance, isActive>>

-----------------------------------------------------------------------------
(* PreferencesController *)

(* _updateAccountTokens: the lists are the chosen account's, whose they may  *)
(* have been before.                                                        *)
UpdateAccountTokens(listed, hidden) ==
  /\ accountTokens' = [accountTokens EXCEPT ![chosen][provider] = listed]
  /\ accountHiddenTokens' = [accountHiddenTokens EXCEPT ![chosen][provider] = hidden]
  /\ tokens' = listed
  /\ hiddenTokens' = hidden
  /\ refused' = FALSE

(* addToken starts from the lists in the store, and takes what it adds off  *)
(* the hidden ones.                                                         *)
AddTokens(found) == UpdateAccountTokens(tokens \cup found, hiddenTokens \ found)

(* Bound: what the user adds is a contract of the chain that is chosen.     *)
AddToken(t) ==
  /\ t \in Contracts[provider]
  /\ AddTokens({t})
  /\ UNCHANGED <<sessionVars, known, tokensWithBalance, isActive, lookups>>

RemoveToken(t) ==
  /\ t \in tokens
  /\ UpdateAccountTokens(tokens \ {t}, hiddenTokens \cup {t})
  /\ UNCHANGED <<sessionVars, known, tokensWithBalance, isActive, lookups>>

(* It would be wrong to leave the last account's lists. *)
KeepTokens(a) == UNCHANGED <<tokens, hiddenTokens>>

(* _updateTokens *)
UpdateTokens(a) ==
  /\ tokens' = accountTokens[a][provider]
  /\ hiddenTokens' = accountHiddenTokens[a][provider]

(* The detector hears of another account. *)
Select(a) ==
  /\ chosen' = a
  /\ refused' = FALSE
  /\ Detects(isActive /\ a # chosen, a, provider, tokens', hiddenTokens')

(* An account without an identity is refused, but its lists are shown.      *)
SetSelectedAddress(a) ==
  /\ UpdateTokens(a)
  /\ \/ a \in known /\ Select(a)
     \/ a \notin known /\ refused' = TRUE /\ UNCHANGED <<chosen, lookups>>
  /\ UNCHANGED <<provider, known, accountTokens, accountHiddenTokens, tokensWithBalance,
                 isActive>>

(* An identity is lost; if it was the chosen one, another is selected.      *)
(* Bound: one account is left.                                              *)
LoseIdentity(a, next) ==
  /\ a \in known /\ known' = known \ {a} /\ next \in known'
  /\ \/ /\ a # chosen /\ next = chosen
        /\ UNCHANGED <<chosen, refused, tokens, hiddenTokens, lookups>>
     \/ /\ a = chosen
        /\ UpdateTokens(next) /\ Select(next)
  /\ UNCHANGED <<provider, tokensWithBalance, isActive>>

(* The lists of an account are emptied. *)
Forget(a) ==
  LET none == [c \in Chains |-> {}]
  IN  /\ accountTokens' = [accountTokens EXCEPT ![a] = none]
      /\ accountHiddenTokens' = [accountHiddenTokens EXCEPT ![a] = none]

(* removeAddress; setAddresses empties an account's lists in the same way.  *)
(* Bound: never the chosen one's (a restore may, see Vault).                *)
RemoveAddressTokens(a, next) == LoseIdentity(a, next) /\ Forget(a)

(* syncAddresses, of an account no keyring has any more: its lists stay. *)
SyncAddresses(a, next) ==
  LoseIdentity(a, next) /\ UNCHANGED <<accountTokens, accountHiddenTokens>>

(* An account is there (again): addAddresses empties its lists, setAddresses *)
(* keeps what there is.                                                     *)
AddIdentity(a) ==
  /\ a \notin known /\ known' = known \cup {a}
  /\ Forget(a) \/ UNCHANGED <<accountTokens, accountHiddenTokens>>
  /\ UNCHANGED <<sessionVars, refused, tokens, hiddenTokens, tokensWithBalance, isActive,
                 lookups>>

(* NETWORK_DID_CHANGE: the lists of the chain are shown.  Balances are      *)
(* stored under the type of the network and looked for under its chain id,  *)
(* so there are none.                                                       *)
NetworkDidChangeTokens(c) ==
  /\ provider' = c
  /\ tokens' = accountTokens[chosen][c]
  /\ hiddenTokens' = accountHiddenTokens[chosen][c]
  /\ tokensWithBalance' = NoList
  /\ refused' = FALSE
  /\ Detects(isActive, chosen, c, tokens', hiddenTokens')
  /\ UNCHANGED <<chosen, known, accountTokens, accountHiddenTokens, isActive>>

(* A window opens or the last closes, the wallet is unlocked or locked.     *)
SetActive ==
  /\ isActive' = ~isActive
  /\ Detects(isActive', chosen, provider, tokens, hiddenTokens)
  /\ UNCHANGED <<sessionVars, known, refused, accountTokens, accountHiddenTokens, tokens,
                 hiddenTokens, tokensWithBalance>>

-----------------------------------------------------------------------------
(* The checker answers. *)

(* Both compare the network with the one they started on (without it any    *)
(* would do); neither looks whose tokens it asked for.                      *)
AnyChain(q) == TRUE
SameChain(q) == q.chain = provider

NewTokensFound(q, found) ==
  /\ q.what = "new" /\ found \subseteq q.list
  /\ lookups' = lookups \ {q}
  /\ \/ /\ SameChain(q) /\ found # {}
        /\ AddTokens(found)
     \/ /\ ~SameChain(q) \/ found = {}
        /\ UNCHANGED <<refused, accountTokens, accountHiddenTokens, tokens, hiddenTokens>>
  /\ UNCHANGED <<sessionVars, known, tokensWithBalance, isActive>>

BalancesFound(q) ==
  /\ q.what = "balances"
  /\ lookups' = lookups \ {q}
  /\ \/ /\ SameChain(q)
        /\ tokensWithBalance' = [who |-> q.who, chain |-> q.chain]
     \/ /\ ~SameChain(q)
        /\ UNCHANGED tokensWithBalance
  /\ UNCHANGED <<sessionVars, known, refused, accountTokens, accountHiddenTokens, tokens,
                 hiddenTokens, isActive>>

LookupFails(q) ==
  /\ lookups' = lookups \ {q}
  /\ UNCHANGED <<sessionVars, known, refused, accountTokens, accountHiddenTokens, tokens,
                 hiddenTokens, tokensWithBalance, isActive>>

TokNext ==
  \/ DetectNewTokens \/ DetectTokensBalance \/ SetActive
  \/ \E t \in TokenIds : AddToken(t) \/ RemoveToken(t)
  \/ \E a \in Addrs : SetSelectedAddress(a) \/ AddIdentity(a)
  \/ \E a, next \in Addrs : RemoveAddressTokens(a, next) \/ SyncAddresses(a, next)
  \/ \E c \in Chains : NetworkDidChangeTokens(c)
  \/ \E q \in lookups :
       \/ \E found \in SUBSET q.list : NewTokensFound(q, found)
       \/ BalancesFound(q)
       \/ LookupFails(q)

TokSpec == TokInit /\ [][TokNext]_tokenVars

-----------------------------------------------------------------------------
(* Properties *)

(* What is found on one chain is never listed on another, though the        *)
(* network may change while the checker is asked.  (It may be listed for    *)
(* another account: that is not compared.)  And the balances shown were     *)
(* read on the chain that is chosen.                                        *)
TokensOnTheirChain ==
  /\ \A a \in Addrs, c \in Chains :
       accountTokens[a][c] \cup accountHiddenTokens[a][c] \subseteq Contracts[c]
  /\ tokensWithBalance # NoList => tokensWithBalance.chain = provider

(* The lists in the store, which every change starts from, are those of the *)
(* chosen account and chain, through lookups, switches and identities that  *)
(* come and go: a change of one never ends up in another.  (Since a         *)
(* selection was refused they are another's, until the chosen one's are     *)
(* written or read.)                                                        *)
ShownTokensAreOwn ==
  ~refused =>
    /\ tokens = accountTokens[chosen][provider]
    /\ hiddenTokens = accountHiddenTokens[chosen][provider]

(* A token is not hidden and listed at once, whatever a lookup that was     *)
(* started before the user hid it finds.                                    *)
HiddenIsNotListed ==
  \A a \in Addrs, c \in Chains : accountTokens[a][c] \cap accountHiddenTokens[a][c] = {}
=============================================================================
