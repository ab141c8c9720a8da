------------------------------ MODULE Balances ------------------------------
(***************************************************************************)
(* The account tracker (app/scripts/lib/account-tracker.js) and the cache  *)
(* of balances behind it (controllers/cached-balances.js).                 *)
(*                                                                         *)
(* Of a balance only the chain it was read on is kept.  The tracker hands  *)
(* out and mutates one `accounts` object; clearAccounts replaces it, while *)
(* an answer of the balance checker writes into the object it was asked    *)
(* with and puts that one back.  So there may be several, tables[i], and   *)
(* table is the one in the store.                                          *)
(***************************************************************************)
EXTENDS Session, Naturals, FiniteSets

CONSTANTS
  CheckerChains,  \* chains that have a balance checker contract
  NoBalance,      \* an account of which no balance was read yet
  Untracked,      \* no entry, nothing cached
  MaxClears,      \* bound: objects the store has left but an answer may put back
  MaxInFlight     \* bound: balance requests under way

ASSUME CheckerAssumption == CheckerChains \subseteq Chains
ASSUME EntriesAssumption ==
  NoBalance \notin Chains /\ Untracked \notin Chains /\ NoBalance # Untracked
ASSUME BalanceBoundsAssumption == MaxClears \in Nat /\ MaxInFlight \in Nat

VARIABLES
  tables, table,  \* see above
  cachedBalances, \* per chain and account
  ready,          \* _currentBlockNumber is known
  listening,      \* the tracker listens to new blocks
  inFlight        \* the balance requests under way

balVars == <<sessionVars, tables, table, cachedBalances, ready, listening,
             inFlight>>

Entries == Chains \cup {NoBalance, Untracked}
Query == [kind : {"checker", "single"}, who : SUBSET Addrs, table : 0..MaxClears,
          chain : Chains]

BalTypeOK ==
  /\ provider \in Chains
  /\ tables \in [0..MaxClears -> [Addrs -> Entries]]
  /\ table \in 0..MaxClears
  /\ cachedBalances \in [Chains -> [Addrs -> Chains \cup {Untracked}]]
  /\ ready \in BOOLEAN /\ listening \in BOOLEAN
  /\ inFlight \subseteq Query /\ Cardinality(inFlight) <= MaxInFlight

BalInit ==
  /\ provider \in Chains
  /\ tables = [i \in 0..MaxClears |-> [a \in Addrs |-> Untracked]]
  /\ table = 0
  /\ cachedBalances = [c \in Chains |-> [a \in Addrs |-> Untracked]]
  /\ ready = FALSE /\ listening = FALSE
  /\ inFlight = {}

accounts == tables[table]
TrackedIn(accts) == {a \in Addrs : accts[a] # Untracked}

-----------------------------------------------------------------------------
(* It would be wrong to cache an entry that has no balance yet. *)
UpdateCachedEntries(accts) ==
  cachedBalances' = [cachedBalances EXCEPT ![provider] =
    [a \in Addrs |-> IF accts[a] # Untracked THEN accts[a] ELSE @[a]]]

(* updateCachedBalances: every change of the tracker's store writes the     *)
(* balances in it under the chain that is chosen at that moment.            *)
UpdateCachedBalances(accts) ==
  cachedBalances' = [cachedBalances EXCEPT ![provider] =
    [a \in Addrs |-> IF accts[a] \in Chains THEN accts[a] ELSE @[a]]]

Holds(queries, i) == \E q \in queries : q.kind = "checker" /\ q.table = i
Empty == [a \in Addrs |-> Untracked]

(* An object that neither the store nor a request holds is gone. *)
StoreAccounts(i, accts) ==
  /\ tables' = [j \in 0..MaxClears |->
                 IF j = i THEN accts ELSE IF Holds(inFlight', j) THEN tables[j] ELSE Empty]
  /\ table' = i
  /\ UpdateCachedBalances(accts)

Singles(who, chain) ==
  {[kind |-> "single", who |-> {a}, table |-> 0, chain |-> chain] : a \in who}

(* What _updateAccounts asks the network for. *)
Wanted(i, accts, chain) ==
  IF chain \in CheckerChains
  THEN {[kind |-> "checker", who |-> TrackedIn(accts), table |-> i, chain |-> chain]}
  ELSE Singles(TrackedIn(accts), chain)

InFlight(queries) ==
  /\ inFlight' = queries
  /\ Cardinality(queries) <= MaxInFlight

UpdateAccounts == InFlight(inFlight \cup Wanted(table, accounts, provider))

(* controllerConnectionChanged: the first window opens, the last closes. *)
Start ==
  /\ listening' = TRUE
  /\ UpdateAccounts
  /\ UNCHANGED <<sessionVars, tables, table, cachedBalances, ready>>

Stop ==
  /\ listening /\ listening' = FALSE
  /\ UNCHANGED <<sessionVars, tables, table, cachedBalances, ready, inFlight>>

(* The first block there is; the listener for it is not the tracker's start. *)
FirstBlock ==
  /\ ~ready /\ ready' = TRUE
  /\ UNCHANGED <<sessionVars, tables, table, cachedBalances, listening, inFlight>>

(* syncWithAddresses after an update of the keyrings: removeAccount, then   *)
(* addAccounts, which fetches balances even if it adds none.                *)
SyncWithAddresses(addresses) ==
  LET synced == [a \in Addrs |->
                   IF a \notin addresses THEN Untracked
                   ELSE IF accounts[a] = Untracked THEN NoBalance ELSE accounts[a]]
  IN  /\ IF ready THEN InFlight(inFlight \cup Wanted(table, synced, provider))
         ELSE UNCHANGED inFlight
      /\ StoreAccounts(table, synced)
      /\ UNCHANGED <<sessionVars, ready, listening>>

(* MetamaskController.removeAccount, before the keyring removes it too. *)
RemoveTracked(a) ==
  /\ accounts[a] # Untracked
  /\ UNCHANGED <<sessionVars, ready, listening, inFlight>>
  /\ StoreAccounts(table, [accounts EXCEPT ![a] = Untracked])

ClearAccounts ==
  /\ UNCHANGED <<sessionVars, ready, listening, inFlight>>
  /\ \E i \in 0..MaxClears \ {table} : ~Holds(inFlight, i) /\ StoreAccounts(i, Empty)

(* NETWORK_DID_CHANGE; one to the same network does what Start does. *)
NetworkDidChange(c) ==
  /\ c # provider /\ provider' = c
  /\ InFlight(inFlight \cup Wanted(table, accounts, c))
  /\ UNCHANGED <<chosen, tables, table, cachedBalances, ready, listening>>

(* A block was announced and _updateForBlock has its header: the gas limit  *)
(* is stored, the balances are asked for.  A header that is not found       *)
(* changes nothing.  It may come after Stop; so no more is asked than that  *)
(* some block is known.                                                     *)
UpdateForBlock ==
  /\ ready
  /\ UpdateCachedBalances(accounts)
  /\ UpdateAccounts
  /\ UNCHANGED <<sessionVars, tables, table, ready, listening>>

(* getBalance answers: an account that is gone stays gone. *)
UpdateAccount(q) ==
  /\ q.kind = "single"
  /\ inFlight' = inFlight \ {q}
  /\ \E a \in q.who :
       \/ /\ accounts[a] # Untracked
          /\ StoreAccounts(table, [accounts EXCEPT ![a] = q.chain])
       \/ accounts[a] = Untracked /\ UNCHANGED <<tables, table, cachedBalances>>
  /\ UNCHANGED <<sessionVars, ready, listening>>

NoAnswer(q) ==
  /\ q.kind = "single"
  /\ inFlight' = inFlight \ {q}
  /\ UNCHANGED <<sessionVars, tables, table, cachedBalances, ready, listening>>

(* The checker answers: its accounts are back, whatever happened to them.   *)
CheckerAnswers(q) ==
  /\ q.kind = "checker"
  /\ inFlight' = inFlight \ {q}
  /\ StoreAccounts(q.table, [a \in Addrs |-> IF a \in q.who THEN q.chain
                                             ELSE tables[q.table][a]])
  /\ UNCHANGED <<sessionVars, ready, listening>>

(* An answer that is no list, or not as long as the list of accounts, is    *)
(* left unread and asks nobody else; the accounts it was asked with are     *)
(* back as they were.                                                       *)
CheckerUseless(q) ==
  /\ q.kind = "checker"
  /\ inFlight' = inFlight \ {q}
  /\ StoreAccounts(q.table, tables[q.table])
  /\ UNCHANGED <<sessionVars, ready, listening>>

(* It would not do to wait for the next block. *)
CheckerGivesUp(q) ==
  /\ q.kind = "checker"
  /\ InFlight(inFlight \ {q})
  /\ UNCHANGED <<sessionVars, tables, table, cachedBalances, ready, listening>>

(* The call of the checker fails: each balance is asked for by itself. *)
CheckerFails(q) ==
  /\ q.kind = "checker"
  /\ InFlight((inFlight \ {q}) \cup Singles(q.who, provider))
  /\ UNCHANGED <<sessionVars, tables, table, cachedBalances, ready, listening>>

Tracks ==
  \/ Start \/ Stop \/ FirstBlock \/ UpdateForBlock
  \/ \E addresses \in SUBSET Addrs : SyncWithAddresses(addresses)
  \/ \E a \in Addrs : RemoveTracked(a)
  \/ ClearAccounts
  \/ \E c \in Chains : NetworkDidChange(c)

Settles(q) ==
  \/ UpdateAccount(q) \/ NoAnswer(q)
  \/ CheckerAnswers(q) \/ CheckerUseless(q) \/ CheckerFails(q)

BalNext == Tracks \/ \E q \in inFlight : Settles(q)

BalSpec == BalInit /\ [][BalNext]_balVars

(* While a window is open blocks come, and requests end.  A provider may    *)
(* fail, but not for ever; a checker may, but its answers are not useless   *)
(* for ever.                                                                *)
BalFairness ==
  /\ WF_balVars(listening /\ FirstBlock)
  /\ WF_balVars(listening /\ UpdateForBlock)
  /\ WF_balVars(\E q \in inFlight : Settles(q))
  /\ SF_balVars(\E q \in inFlight : UpdateAccount(q))
  /\ SF_balVars(\E q \in inFlight : CheckerAnswers(q) \/ CheckerFails(q))

-----------------------------------------------------------------------------
(* Properties *)

(* What is shown is of the chain that is chosen. *)
BalancesCurrent ==
  \A a \in TrackedIn(accounts) :
    accounts[a] = provider /\ cachedBalances[provider][a] = provider

(* Answers of another chain, of a removed table or in the wrong order do    *)
(* not stay: while a window is open and nothing else changes the balances,  *)
(* and those cached for the chosen chain, become that chain's again.        *)
BalancesCatchUp ==
  \/ []<>(~listening \/ BalancesCurrent)
  \/ []<><<provider' # provider \/ TrackedIn(accounts') # TrackedIn(accounts)>>_balVars
=============================================================================
