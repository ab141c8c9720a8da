---------------------------- MODULE SessionProofs ----------------------------
(***************************************************************************)
(* What is kept per account and network.  For any number of accounts,      *)
(* chains, tokens and lookups under way, the lists of tokens in the store  *)
(* are those of the chosen account and chain unless a selection was        *)
(* refused, and no list and no balances are of another chain; for any      *)
(* number of requests for them, no incoming transaction is listed under a  *)
(* network it did not happen on, and what a request captured keeps its     *)
(* type.                                                                   *)
(***************************************************************************)
EXTENDS Tokens, IncomingTransactions, FiniteSetTheorems, TLAPS

-----------------------------------------------------------------------------
(* The least number of a set: the facts about finite subsets take no        *)
(* operator, so induction over numbers can be had from them.                *)
LEMMA LeastNat ==
  ASSUME NEW S \in SUBSET Nat, S # {}
  PROVE  \E n \in S : \A m \in S : n <= m
<1> DEFINE T == {0..n : n \in S}
<1>1. IsWellFoundedOn(StrictSubsetOrdering(Nat), FiniteSubsetsOf(Nat))
  BY FS_StrictSubsetOrderingWellFounded
<1>2. T \subseteq FiniteSubsetsOf(Nat) /\ T # {}
  <2>1. \A n \in Nat : IsFiniteSet(0..n)
    <3> TAKE n \in Nat
    <3>1. 0 \in Int /\ n \in Int
      OBVIOUS
    <3> QED BY <3>1, FS_Interval
  <2>2. \A n \in Nat : 0..n \in FiniteSubsetsOf(Nat)
    BY <2>1 DEF FiniteSubsetsOf
  <2> QED BY <2>2
<1>3. \E x \in T : \A y \in T : <<y, x>> \notin StrictSubsetOrdering(Nat)
  <2> HIDE DEF T
  <2> QED BY <1>1, <1>2, WFMin
<1>4. PICK n \in S : \A y \in T : <<y, 0..n>> \notin StrictSubsetOrdering(Nat)
  BY <1>3
<1>5. ASSUME NEW m \in S, m < n PROVE FALSE
  <2>1. 0..m \subseteq 0..n /\ 0..m # 0..n
    <3>1. n \in 0..n /\ n \notin 0..m
      BY <1>5
    <3> QED BY <3>1, <1>5
  <2>2. 0..m \in SUBSET Nat /\ 0..n \in SUBSET Nat
    OBVIOUS
  <2> QED BY <1>4, <2>1, <2>2 DEF StrictSubsetOrdering
<1> QED BY <1>5

-----------------------------------------------------------------------------
(* Lookups *)

(* What a lookup for new tokens may find is on the chain it asked.          *)
LookupsFindTheirs ==
  \A q \in lookups : q.what = "new" => q.list \subseteq Contracts[q.chain]

LookupsOK ==
  /\ IsFiniteSet(lookups)
  /\ lookups \subseteq Lookup
  /\ Cardinality(lookups) <= MaxLookups

LEMMA LookupEnds ==
  ASSUME LookupsOK, NEW q \in lookups, lookups' = lookups \ {q}
  PROVE  LookupsOK'
<1>1. IsFiniteSet(lookups \ {q}) /\ Cardinality(lookups \ {q}) = Cardinality(lookups) - 1
  BY FS_RemoveElement DEF LookupsOK
<1>2. Cardinality(lookups) \in Nat
  BY FS_CardinalityType DEF LookupsOK
<1> QED BY <1>1, <1>2, MaxLookupsAssumption DEF LookupsOK

LEMMA LookupsStart ==
  ASSUME LookupsOK, NEW x \in Lookup, NEW y \in Lookup,
         NEW started \in SUBSET {x, y}, StartLookups(started)
  PROVE  LookupsOK'
<1>1. IsFiniteSet(started)
  <2>1. IsFiniteSet({x}) /\ IsFiniteSet({x} \cup {y})
    BY FS_Singleton, FS_AddElement
  <2> QED BY <2>1, FS_Subset, {x} \cup {y} = {x, y}
<1>2. IsFiniteSet(lookups \cup started)
  BY <1>1, FS_Union DEF LookupsOK
<1> QED BY <1>2 DEF LookupsOK, StartLookups

LEMMA NewLookupsAreLookups ==
  ASSUME NEW a \in Addrs, NEW c \in Chains, NEW listed \in SUBSET TokenIds,
         NEW hidden \in SUBSET TokenIds
  PROVE  /\ NewLookup(a, c, listed, hidden) \in Lookup
         /\ BalanceLookup(a, c, listed) \in Lookup
         /\ NewLookup(a, c, listed, hidden).list \subseteq Contracts[c]
         /\ NewLookup(a, c, listed, hidden).chain = c
         /\ BalanceLookup(a, c, listed).what = "balances"
BY ContractsAssumption DEF NewLookup, BalanceLookup, Lookup

(* Whatever is chosen, the detection that is started is for what is chosen. *)
LEMMA DetectionStarts ==
  ASSUME LookupsOK, LookupsFindTheirs,
         NEW active \in BOOLEAN, NEW a \in Addrs, NEW c \in Chains,
         NEW listed \in SUBSET TokenIds, NEW hidden \in SUBSET TokenIds,
         Detects(active, a, c, listed, hidden)
  PROVE  LookupsOK' /\ LookupsFindTheirs'
<1> DEFINE x == NewLookup(a, c, listed, hidden)
           y == BalanceLookup(a, c, listed)
<1>1. /\ x \in Lookup /\ y \in Lookup
      /\ x.list \subseteq Contracts[c] /\ x.chain = c /\ y.what = "balances"
  BY NewLookupsAreLookups
<1>2. CASE ~active
  BY <1>2 DEF Detects, LookupsOK, LookupsFindTheirs
<1>3. CASE active
  <2>1. StartLookups({x, y})
    BY <1>3 DEF Detects
  <2>2. LookupsOK'
    BY <1>1, <2>1, LookupsStart
  <2>3. LookupsFindTheirs'
    BY <1>1, <2>1 DEF StartLookups, LookupsFindTheirs
  <2> QED BY <2>2, <2>3
<1> QED BY <1>2, <1>3

-----------------------------------------------------------------------------
(* The lists *)

(* The lists in the store, whosever they are, are of the chain that is       *)
(* chosen, and no token is in both.                                         *)
ShownAreRight ==
  /\ tokens \subseteq Contracts[provider] /\ hiddenTokens \subseteq Contracts[provider]
  /\ tokens \cap hiddenTokens = {}

(* The inductive invariant: a found token is on the chain of its list only  *)
(* because the lookup asked that chain, and the lists of what is chosen     *)
(* stay right only because every change starts from those in the store,     *)
(* which are of the chain even after a refused selection.                   *)
TokInv ==
  /\ TokTypeOK
  /\ chosen \in known
  /\ LookupsOK
  /\ LookupsFindTheirs
  /\ ShownAreRight
  /\ ShownTokensAreOwn
  /\ TokensOnTheirChain
  /\ HiddenIsNotListed

(* What changes no list but those of the chosen account and chain, both at  *)
(* once, keeps the lists right.                                             *)
LEMMA ListsUpdated ==
  ASSUME TokInv, NEW listed \in SUBSET Contracts[provider],
         NEW hidden \in SUBSET Contracts[provider],
         listed \cap hidden = {},
         UpdateAccountTokens(listed, hidden),
         UNCHANGED <<sessionVars, known, tokensWithBalance>>
  PROVE  /\ accountTokens' \in Lists /\ accountHiddenTokens' \in Lists
         /\ tokens' \subseteq TokenIds /\ hiddenTokens' \subseteq TokenIds
         /\ known' \subseteq Addrs /\ chosen' \in known' /\ refused' \in BOOLEAN
         /\ ShownAreRight' /\ ShownTokensAreOwn' /\ TokensOnTheirChain' /\ HiddenIsNotListed'
<1>1. provider \in Chains /\ chosen \in Addrs
      /\ accountTokens \in Lists /\ accountHiddenTokens \in Lists
  BY DEF TokInv, TokTypeOK
<1>2. listed \subseteq TokenIds /\ hidden \subseteq TokenIds
  BY <1>1, ContractsAssumption
<1>3. provider' = provider /\ chosen' = chosen /\ tokensWithBalance' = tokensWithBalance
  BY DEF sessionVars
<1>4. accountTokens' \in Lists /\ accountHiddenTokens' \in Lists
  BY <1>1, <1>2 DEF UpdateAccountTokens, Lists
<1>5. /\ \A a \in Addrs, c \in Chains :
           accountTokens'[a][c] = IF a = chosen /\ c = provider THEN listed
                                  ELSE accountTokens[a][c]
      /\ \A a \in Addrs, c \in Chains :
           accountHiddenTokens'[a][c] = IF a = chosen /\ c = provider THEN hidden
                                        ELSE accountHiddenTokens[a][c]
  BY <1>1, <1>2 DEF UpdateAccountTokens, Lists
<1>6. ShownTokensAreOwn'
  BY <1>1, <1>3, <1>5 DEF UpdateAccountTokens, ShownTokensAreOwn
<1>7. TokensOnTheirChain'
  BY <1>3, <1>5 DEF TokInv, TokensOnTheirChain
<1>8. HiddenIsNotListed'
  BY <1>5 DEF TokInv, HiddenIsNotListed
<1>9. ShownAreRight'
  BY <1>3 DEF UpdateAccountTokens, ShownAreRight
<1>10. known' \subseteq Addrs /\ chosen' \in known' /\ refused' \in BOOLEAN
  BY <1>3 DEF TokInv, TokTypeOK, UpdateAccountTokens
<1> QED BY <1>2, <1>4, <1>6, <1>7, <1>8, <1>9, <1>10 DEF UpdateAccountTokens

(* The lists kept for an account may be shown.                              *)
LEMMA ListsOfAreRight ==
  ASSUME TokensOnTheirChain, HiddenIsNotListed, NEW a \in Addrs, NEW c \in Chains
  PROVE  /\ accountTokens[a][c] \subseteq Contracts[c]
         /\ accountHiddenTokens[a][c] \subseteq Contracts[c]
         /\ accountTokens[a][c] \cap accountHiddenTokens[a][c] = {}
BY DEF TokensOnTheirChain, HiddenIsNotListed

LEMMA TokInitInv == TokInit => TokInv
<1> SUFFICES ASSUME TokInit PROVE TokInv
  OBVIOUS
<1>1. IsFiniteSet({}) /\ Cardinality({}) = 0
  BY FS_EmptySet
<1>2. NoTokens \in Lists
  BY DEF NoTokens, Lists
<1>3. \A a \in Addrs, c \in Chains : NoTokens[a][c] = {}
  BY DEF NoTokens
<1>11. LookupsOK
  BY <1>1, MaxLookupsAssumption DEF TokInit, LookupsOK
<1>4. TokTypeOK
  BY <1>2, <1>11 DEF TokInit, TokTypeOK, LookupsOK
<1>5. /\ \A a \in Addrs, c \in Chains : accountTokens[a][c] = {} /\ accountHiddenTokens[a][c] = {}
      /\ chosen \in Addrs /\ chosen \in known /\ provider \in Chains
      /\ tokens = {} /\ hiddenTokens = {} /\ tokensWithBalance = NoList
  BY <1>3 DEF TokInit
<1>7. ShownTokensAreOwn /\ ShownAreRight
  BY <1>5 DEF ShownTokensAreOwn, ShownAreRight
<1>8. TokensOnTheirChain
  BY <1>5 DEF TokensOnTheirChain
<1>9. HiddenIsNotListed
  BY <1>5 DEF HiddenIsNotListed
<1>10. LookupsFindTheirs
  BY DEF TokInit, LookupsFindTheirs
<1> QED BY <1>11, <1>4, <1>5, <1>7, <1>8, <1>9, <1>10 DEF TokInv

(* Steps that leave all lists and the choice alone.                         *)
LEMMA OnlyLookups ==
  ASSUME TokInv, LookupsOK', LookupsFindTheirs', isActive' \in BOOLEAN,
         tokensWithBalance' \in Owner \cup {NoList},
         tokensWithBalance' # NoList => tokensWithBalance'.chain = provider,
         UNCHANGED <<sessionVars, known, refused, accountTokens, accountHiddenTokens, tokens,
                     hiddenTokens>>
  PROVE  TokInv'
BY DEF TokInv, TokTypeOK, LookupsOK, sessionVars, ShownAreRight, ShownTokensAreOwn,
       TokensOnTheirChain, HiddenIsNotListed

LEMMA TokNextInv == TokInv /\ [TokNext]_tokenVars => TokInv'
<1> SUFFICES ASSUME TokInv, [TokNext]_tokenVars PROVE TokInv'
  OBVIOUS
<1> USE DEF TokInv
<1>t. /\ provider \in Chains /\ chosen \in Addrs /\ known \subseteq Addrs
      /\ refused \in BOOLEAN
      /\ accountTokens \in Lists /\ accountHiddenTokens \in Lists
      /\ tokens \in SUBSET TokenIds /\ hiddenTokens \in SUBSET TokenIds
      /\ tokensWithBalance \in Owner \cup {NoList}
      /\ isActive \in BOOLEAN
  BY DEF TokTypeOK
<1>b. tokensWithBalance # NoList => tokensWithBalance.chain = provider
  BY DEF TokensOnTheirChain
<1>a. ASSUME NEW a \in Addrs, NEW c \in Chains
      PROVE  /\ accountTokens[a][c] \in SUBSET TokenIds
             /\ accountHiddenTokens[a][c] \in SUBSET TokenIds
  BY <1>t DEF Lists
<1>1. CASE DetectNewTokens
  <2> DEFINE x == NewLookup(chosen, provider, tokens, hiddenTokens)
  <2>1. x \in Lookup /\ x.list \subseteq Contracts[provider] /\ x.chain = provider
    BY <1>t, NewLookupsAreLookups
  <2>2. StartLookups({x}) /\ {x} \subseteq {x, x}
    BY <1>1 DEF DetectNewTokens
  <2>3. LookupsOK'
    BY <2>1, <2>2, LookupsStart
  <2>4. LookupsFindTheirs'
    BY <2>1, <2>2 DEF StartLookups, LookupsFindTheirs
  <2> QED BY <1>1, <1>t, <1>b, <2>3, <2>4, OnlyLookups DEF DetectNewTokens
<1>2. CASE DetectTokensBalance
  <2> DEFINE x == BalanceLookup(chosen, provider, tokens)
  <2>1. x \in Lookup /\ x.what = "balances"
    BY <1>t, NewLookupsAreLookups
  <2>2. StartLookups({x}) /\ {x} \subseteq {x, x}
    BY <1>2 DEF DetectTokensBalance
  <2>3. LookupsOK'
    BY <2>1, <2>2, LookupsStart
  <2>4. LookupsFindTheirs'
    BY <2>1, <2>2 DEF StartLookups, LookupsFindTheirs
  <2> QED BY <1>2, <1>t, <1>b, <2>3, <2>4, OnlyLookups DEF DetectTokensBalance
<1>3. CASE SetActive
  <2>1. LookupsOK' /\ LookupsFindTheirs'
    BY <1>3, <1>t, DetectionStarts DEF SetActive
  <2> QED BY <1>3, <1>t, <1>b, <2>1, OnlyLookups DEF SetActive
<1>4. ASSUME NEW t \in TokenIds, AddToken(t)
      PROVE  TokInv'
  <2>1. UpdateAccountTokens(tokens \cup {t}, hiddenTokens \ {t}) /\ t \in Contracts[provider]
        /\ UNCHANGED <<sessionVars, known, tokensWithBalance, isActive, lookups>>
    BY <1>4 DEF AddToken, AddTokens
  <2>2. (tokens \cup {t}) \cap (hiddenTokens \ {t}) = {}
    BY DEF ShownAreRight
  <2>3. /\ accountTokens' \in Lists /\ accountHiddenTokens' \in Lists
        /\ tokens' \subseteq TokenIds /\ hiddenTokens' \subseteq TokenIds
        /\ known' \subseteq Addrs /\ chosen' \in known' /\ refused' \in BOOLEAN
        /\ ShownAreRight' /\ ShownTokensAreOwn' /\ TokensOnTheirChain' /\ HiddenIsNotListed'
    BY <2>1, <2>2, ListsUpdated DEF ShownAreRight
  <2> QED BY <2>1, <2>3 DEF TokTypeOK, LookupsOK, LookupsFindTheirs, sessionVars
<1>5. ASSUME NEW t \in TokenIds, RemoveToken(t)
      PROVE  TokInv'
  <2>1. UpdateAccountTokens(tokens \ {t}, hiddenTokens \cup {t}) /\ t \in tokens
        /\ UNCHANGED <<sessionVars, known, tokensWithBalance, isActive, lookups>>
    BY <1>5 DEF RemoveToken
  <2>2. (tokens \ {t}) \cap (hiddenTokens \cup {t}) = {}
    BY DEF ShownAreRight
  <2>3. /\ accountTokens' \in Lists /\ accountHiddenTokens' \in Lists
        /\ tokens' \subseteq TokenIds /\ hiddenTokens' \subseteq TokenIds
        /\ known' \subseteq Addrs /\ chosen' \in known' /\ refused' \in BOOLEAN
        /\ ShownAreRight' /\ ShownTokensAreOwn' /\ TokensOnTheirChain' /\ HiddenIsNotListed'
    BY <2>1, <2>2, ListsUpdated DEF ShownAreRight
  <2> QED BY <2>1, <2>3 DEF TokTypeOK, LookupsOK, LookupsFindTheirs, sessionVars
<1>l. ASSUME NEW a \in Addrs, NEW c \in Chains
      PROVE  /\ accountTokens[a][c] \subseteq Contracts[c]
             /\ accountHiddenTokens[a][c] \subseteq Contracts[c]
             /\ accountTokens[a][c] \cap accountHiddenTokens[a][c] = {}
  BY ListsOfAreRight
<1>s. ASSUME NEW a \in Addrs, UpdateTokens(a), provider' = provider
      PROVE  ShownAreRight' /\ tokens' \in SUBSET TokenIds /\ hiddenTokens' \in SUBSET TokenIds
  BY <1>s, <1>t, <1>a, <1>l DEF UpdateTokens, ShownAreRight
<1>6. ASSUME NEW a \in Addrs, SetSelectedAddress(a)
      PROVE  TokInv'
  <2>1. /\ provider' = provider /\ UpdateTokens(a)
        /\ UNCHANGED <<known, accountTokens, accountHiddenTokens, tokensWithBalance, isActive>>
    BY <1>6 DEF SetSelectedAddress
  <2>2. /\ ShownAreRight'
        /\ tokens' \in SUBSET TokenIds /\ hiddenTokens' \in SUBSET TokenIds
    BY <1>s, <2>1
  <2>3. CASE a \in known /\ Select(a)
    <3>1. LookupsOK' /\ LookupsFindTheirs'
      BY <1>t, <2>2, <2>3, DetectionStarts DEF Select
    <3>2. ShownTokensAreOwn'
      BY <2>1, <2>3 DEF Select, UpdateTokens, ShownTokensAreOwn
    <3> QED BY <1>t, <2>1, <2>2, <2>3, <3>1, <3>2
            DEF Select, TokTypeOK, LookupsOK, TokensOnTheirChain, HiddenIsNotListed
  <2>4. CASE refused' = TRUE /\ UNCHANGED <<chosen, lookups>>
    BY <1>t, <2>1, <2>2, <2>4 DEF TokTypeOK, LookupsOK, LookupsFindTheirs,
       ShownTokensAreOwn, TokensOnTheirChain, HiddenIsNotListed
  <2> QED BY <1>6, <2>3, <2>4 DEF SetSelectedAddress
<1>f. ASSUME NEW a \in Addrs, Forget(a) \/ UNCHANGED <<accountTokens, accountHiddenTokens>>,
             UNCHANGED <<provider, tokensWithBalance>>
      PROVE  /\ accountTokens' \in Lists /\ accountHiddenTokens' \in Lists
             /\ TokensOnTheirChain' /\ HiddenIsNotListed'
             /\ \A b \in Addrs, c \in Chains :
                  b # a => /\ accountTokens'[b][c] = accountTokens[b][c]
                           /\ accountHiddenTokens'[b][c] = accountHiddenTokens[b][c]
  <2>1. CASE UNCHANGED <<accountTokens, accountHiddenTokens>>
    BY <1>t, <1>f, <2>1 DEF TokensOnTheirChain, HiddenIsNotListed
  <2>2. CASE Forget(a)
    <3> DEFINE none == [c \in Chains |-> {}]
               kept == [accountTokens EXCEPT ![a] = none]
               hid  == [accountHiddenTokens EXCEPT ![a] = none]
    <3>1. accountTokens' = kept /\ accountHiddenTokens' = hid
      BY <2>2 DEF Forget
    <3>2. kept \in Lists /\ hid \in Lists
      BY <1>t DEF Lists
    <3>3. /\ \A b \in Addrs, c \in Chains : kept[b][c] = IF b = a THEN {} ELSE accountTokens[b][c]
          /\ \A b \in Addrs, c \in Chains : hid[b][c] = IF b = a THEN {} ELSE accountHiddenTokens[b][c]
      BY <1>t DEF Lists
    <3> HIDE DEF kept, hid, none
    <3>4. TokensOnTheirChain' /\ HiddenIsNotListed'
      BY <1>f, <3>1, <3>3 DEF TokensOnTheirChain, HiddenIsNotListed
    <3> QED BY <3>1, <3>2, <3>3, <3>4
  <2> QED BY <1>f, <2>1, <2>2
<1>7. ASSUME NEW a \in Addrs, NEW next \in Addrs, LoseIdentity(a, next),
             Forget(a) \/ UNCHANGED <<accountTokens, accountHiddenTokens>>
      PROVE  TokInv'
  <2>1. /\ a \in known /\ known' = known \ {a} /\ next # a /\ next \in known'
        /\ UNCHANGED <<provider, tokensWithBalance, isActive>>
    BY <1>7 DEF LoseIdentity
  <2>2. /\ accountTokens' \in Lists /\ accountHiddenTokens' \in Lists
        /\ TokensOnTheirChain' /\ HiddenIsNotListed'
        /\ \A b \in Addrs, c \in Chains :
             b # a => /\ accountTokens'[b][c] = accountTokens[b][c]
                      /\ accountHiddenTokens'[b][c] = accountHiddenTokens[b][c]
    BY <1>f, <1>7, <2>1
  <2>3. CASE /\ a # chosen
             /\ UNCHANGED <<chosen, refused, tokens, hiddenTokens, lookups>>
    <3>1. ShownTokensAreOwn' /\ ShownAreRight'
      BY <1>t, <2>1, <2>2, <2>3 DEF ShownTokensAreOwn, ShownAreRight
    <3> QED BY <1>t, <2>1, <2>2, <2>3, <3>1 DEF TokTypeOK, LookupsOK, LookupsFindTheirs
  <2>4. CASE UpdateTokens(next) /\ Select(next)
    <3>1. /\ ShownAreRight'
          /\ tokens' \in SUBSET TokenIds /\ hiddenTokens' \in SUBSET TokenIds
      BY <1>s, <2>1, <2>4
    <3>2. LookupsOK' /\ LookupsFindTheirs'
      BY <1>t, <2>4, <3>1, DetectionStarts DEF Select
    <3>3. ShownTokensAreOwn'
      BY <1>t, <2>1, <2>2, <2>4 DEF Select, UpdateTokens, ShownTokensAreOwn
    <3> QED BY <1>t, <2>1, <2>2, <2>4, <3>1, <3>2, <3>3 DEF Select, TokTypeOK, LookupsOK
  <2> QED BY <1>7, <2>3, <2>4 DEF LoseIdentity
<1>13. ASSUME NEW a \in Addrs, AddIdentity(a)
       PROVE  TokInv'
  <2>1. /\ a \notin known /\ known' = known \cup {a}
        /\ UNCHANGED <<sessionVars, refused, tokens, hiddenTokens, tokensWithBalance,
                       isActive, lookups>>
    BY <1>13 DEF AddIdentity
  <2>2. /\ accountTokens' \in Lists /\ accountHiddenTokens' \in Lists
        /\ TokensOnTheirChain' /\ HiddenIsNotListed'
        /\ \A b \in Addrs, c \in Chains :
             b # a => /\ accountTokens'[b][c] = accountTokens[b][c]
                      /\ accountHiddenTokens'[b][c] = accountHiddenTokens[b][c]
    BY <1>f, <1>13, <2>1 DEF AddIdentity, sessionVars
  <2>3. ShownTokensAreOwn' /\ ShownAreRight'
    BY <1>t, <2>1, <2>2 DEF ShownTokensAreOwn, ShownAreRight, sessionVars
  <2> QED BY <1>t, <2>1, <2>2, <2>3 DEF TokTypeOK, LookupsOK, LookupsFindTheirs, sessionVars
<1>8. ASSUME NEW c \in Chains, NetworkDidChangeTokens(c)
      PROVE  TokInv'
  <2>1. /\ provider' = c /\ chosen' = chosen /\ tokensWithBalance' = NoList
        /\ tokens' = accountTokens[chosen][c] /\ hiddenTokens' = accountHiddenTokens[chosen][c]
        /\ refused' = FALSE
        /\ UNCHANGED <<known, accountTokens, accountHiddenTokens, isActive>>
    BY <1>8 DEF NetworkDidChangeTokens
  <2>2. tokens' \in SUBSET TokenIds /\ hiddenTokens' \in SUBSET TokenIds
    BY <1>t, <1>a, <2>1
  <2>3. LookupsOK' /\ LookupsFindTheirs'
    BY <1>8, <1>t, <2>2, DetectionStarts DEF NetworkDidChangeTokens
  <2>4. ShownAreRight'
    BY <1>t, <1>l, <2>1 DEF ShownAreRight
  <2> QED BY <1>t, <2>1, <2>2, <2>3, <2>4 DEF TokTypeOK, LookupsOK, ShownTokensAreOwn,
                                        TokensOnTheirChain, HiddenIsNotListed
<1>9. ASSUME NEW q \in lookups, NEW found \in SUBSET q.list, NewTokensFound(q, found)
      PROVE  TokInv'
  <2>1. /\ lookups' = lookups \ {q} /\ q.what = "new"
        /\ UNCHANGED <<sessionVars, known, tokensWithBalance, isActive>>
    BY <1>9 DEF NewTokensFound
  <2>2. LookupsOK' /\ LookupsFindTheirs'
    BY <2>1, LookupEnds DEF LookupsFindTheirs
  <2>3. CASE q.chain # provider \/ found = {}
    BY <1>9, <1>t, <1>b, <2>1, <2>2, <2>3, OnlyLookups DEF NewTokensFound, SameChain
  <2>4. CASE q.chain = provider /\ found # {}
    <3>1. UpdateAccountTokens(tokens \cup found, hiddenTokens \ found)
      BY <1>9, <2>4 DEF NewTokensFound, SameChain, AddTokens
    <3>2. found \subseteq Contracts[provider]
      BY <1>9, <2>1, <2>4 DEF LookupsFindTheirs
    <3>3. (tokens \cup found) \cap (hiddenTokens \ found) = {}
      BY DEF ShownAreRight
    <3>4. /\ accountTokens' \in Lists /\ accountHiddenTokens' \in Lists
          /\ tokens' \subseteq TokenIds /\ hiddenTokens' \subseteq TokenIds
          /\ known' \subseteq Addrs /\ chosen' \in known' /\ refused' \in BOOLEAN
          /\ ShownAreRight' /\ ShownTokensAreOwn' /\ TokensOnTheirChain' /\ HiddenIsNotListed'
      BY <2>1, <3>1, <3>2, <3>3, ListsUpdated DEF ShownAreRight
    <3> QED BY <1>t, <2>1, <2>2, <3>4 DEF TokTypeOK, LookupsOK, sessionVars
  <2> QED BY <2>3, <2>4
<1>10. ASSUME NEW q \in lookups, BalancesFound(q)
       PROVE  TokInv'
  <2>1. /\ lookups' = lookups \ {q}
        /\ UNCHANGED <<sessionVars, known, refused, accountTokens, accountHiddenTokens, tokens,
                       hiddenTokens, isActive>>
        /\ \/ tokensWithBalance' = [who |-> q.who, chain |-> q.chain] /\ q.chain = provider
           \/ tokensWithBalance' = tokensWithBalance
    BY <1>10 DEF BalancesFound, SameChain
  <2>2. LookupsOK' /\ LookupsFindTheirs'
    BY <2>1, LookupEnds DEF LookupsFindTheirs
  <2>3. q \in Lookup
    BY DEF LookupsOK
  <2>4. [who |-> q.who, chain |-> q.chain] \in Owner
    BY <2>3 DEF Lookup, Owner
  <2>5. /\ tokensWithBalance' \in Owner \cup {NoList}
        /\ tokensWithBalance' # NoList => tokensWithBalance'.chain = provider
    BY <1>t, <1>b, <2>1, <2>4
  <2> QED BY <1>t, <2>1, <2>2, <2>5, OnlyLookups
<1>11. ASSUME NEW q \in lookups, LookupFails(q)
       PROVE  TokInv'
  <2>1. LookupsOK' /\ LookupsFindTheirs'
    BY <1>11, LookupEnds DEF LookupFails, LookupsFindTheirs
  <2> QED BY <1>11, <1>t, <1>b, <2>1, OnlyLookups DEF LookupFails
<1>12. CASE UNCHANGED tokenVars
  BY <1>12, <1>t, <1>b, OnlyLookups DEF tokenVars, LookupsOK, LookupsFindTheirs
<1> QED BY <1>1, <1>2, <1>3, <1>4, <1>5, <1>6, <1>7, <1>8, <1>9, <1>10, <1>11, <1>12, <1>13
       DEF TokNext, RemoveAddressTokens, SyncAddresses

-----------------------------------------------------------------------------
(* The theorems *)

(* Lookups, lists and the choice of account and chain keep TokInv.          *)
THEOREM TokensInvariant == TokSpec => []TokInv
BY TokInitInv, TokNextInv, PTL DEF TokSpec

(* No list and no balances are of another chain, though every answer comes  *)
(* after a time in which the network may change (detect-tokens.js:122, 181).*)
THEOREM FoundOnTheChainAsked == TokSpec => []TokensOnTheirChain
<1>1. TokInv => TokensOnTheirChain
  BY DEF TokInv
<1> QED BY <1>1, TokensInvariant, PTL

(* What the store shows, and every change starts from, is the chosen        *)
(* account's and chain's (preferences.js:715, 748), but after a selection   *)
(* that was refused, and then until the lists are next written or the       *)
(* account or network chosen (lines 342 to 350).                            *)
THEOREM StoreShowsTheChosen == TokSpec => []ShownTokensAreOwn
<1>1. TokInv => ShownTokensAreOwn
  BY DEF TokInv
<1> QED BY <1>1, TokensInvariant, PTL

(* A token is never listed and hidden at once (preferences.js:388, 418),    *)
(* while no selection is refused: lists are not shared then.                *)
THEOREM ListedOrHidden == TokSpec /\ []~refused => []HiddenIsNotListed
<1>1. TokInv => HiddenIsNotListed
  BY DEF TokInv
<1> QED BY <1>1, TokensInvariant, PTL

-----------------------------------------------------------------------------
(* Incoming transactions *)

(* The transactions of a list are in the blocks they are listed for.  A     *)
(* request carries such a list with it, from before it was sent.            *)
InBlock(b, tx) ==
  /\ tx[1] \in Chains /\ tx[2] \in 1..Len(b[tx[1]])
  /\ b[tx[1]][tx[2]] \in Addrs

Happened(b, list) == \A tx \in list : InBlock(b, tx)

FetchOK(b, q) == q.address \in Addrs /\ q.chain \in Chains /\ Happened(b, q.list)

IncomingInv ==
  /\ provider \in Chains /\ chosen \in Addrs
  /\ blocks \in [Chains -> Seq(Addrs \cup {Nobody})]
  /\ Happened(blocks, incoming)
  /\ \A q \in fetches : FetchOK(blocks, q)

LEMMA UpdateKeeps ==
  ASSUME IncomingInv, NEW a \in Addrs, NEW c \in Chains, NEW newest, Update(a, c, newest),
         UNCHANGED <<blocks, incoming>>, provider' \in Chains, chosen' \in Addrs
  PROVE  IncomingInv'
<1>1. \A q \in fetches' : FetchOK(blocks, q)
  <2>1. CASE UNCHANGED fetches
    BY <2>1 DEF IncomingInv
  <2>2. CASE StartFetch(a, c, newest)
    <3> DEFINE new == [address |-> a, chain |-> c, from |-> FromBlock(c, newest),
                       lasts |-> lastFetched, list |-> incoming]
    <3>1. fetches' = fetches \cup {new}
      BY <2>2 DEF StartFetch
    <3>2. FetchOK(blocks, new)
      BY DEF FetchOK, IncomingInv
    <3> HIDE DEF new
    <3> QED BY <3>1, <3>2 DEF IncomingInv
  <2> QED BY <2>1, <2>2 DEF Update
<1> QED BY <1>1 DEF IncomingInv

LEMMA BlocksGrow ==
  ASSUME IncomingInv, NEW c \in Chains, NEW to \in Addrs \cup {Nobody},
         blocks' = [blocks EXCEPT ![c] = Append(@, to)], NEW list, Happened(blocks, list)
  PROVE  Happened(blocks', list)
<1> SUFFICES ASSUME NEW tx \in list PROVE InBlock(blocks', tx)
  BY DEF Happened
<1>1. InBlock(blocks, tx)
  BY DEF Happened
<1>2. blocks[c] \in Seq(Addrs \cup {Nobody})
  BY DEF IncomingInv
<1>3. CASE tx[1] = c
  <2>1. blocks'[c] = Append(blocks[c], to)
    BY DEF IncomingInv
  <2>2. Len(blocks'[c]) = Len(blocks[c]) + 1
    BY <1>2, <2>1
  <2>3. \A k \in 1..Len(blocks[c]) : blocks'[c][k] = blocks[c][k]
    BY <1>2, <2>1
  <2>4. Len(blocks[c]) \in Nat
    BY <1>2
  <2> QED BY <1>1, <1>3, <2>2, <2>3, <2>4 DEF InBlock
<1>4. CASE tx[1] # c
  BY <1>1, <1>4 DEF InBlock, IncomingInv
<1> QED BY <1>3, <1>4

LEMMA InitIncoming == InInit => IncomingInv
<1> SUFFICES ASSUME InInit PROVE IncomingInv
  OBVIOUS
<1>1. blocks \in [Chains -> Seq(Addrs \cup {Nobody})]
  <2>1. \A a \in Addrs : <<a>> \in Seq(Addrs \cup {Nobody})
    OBVIOUS
  <2>2. <<>> \in Seq(Addrs \cup {Nobody})
    OBVIOUS
  <2>3. {<<>>} \cup {<<a>> : a \in Addrs} \subseteq Seq(Addrs \cup {Nobody})
    BY <2>1, <2>2
  <2> QED BY <2>3 DEF InInit
<1> QED BY <1>1 DEF InInit, IncomingInv, Happened

LEMMA NextIncoming == IncomingInv /\ [InNext]_inVars => IncomingInv'
<1> SUFFICES ASSUME IncomingInv, [InNext]_inVars PROVE IncomingInv'
  OBVIOUS
<1>1. ASSUME NEW c \in Chains, NEW to \in Addrs \cup {Nobody}, Mine(c, to)
      PROVE  IncomingInv'
  <2>1. blocks' = [blocks EXCEPT ![c] = Append(@, to)]
        /\ UNCHANGED <<provider, chosen, incoming, fetches>>
    BY <1>1 DEF Mine, sessionVars
  <2>2. blocks' \in [Chains -> Seq(Addrs \cup {Nobody})]
    <3>1. Append(blocks[c], to) \in Seq(Addrs \cup {Nobody})
      BY DEF IncomingInv
    <3> QED BY <2>1, <3>1 DEF IncomingInv
  <2>3. Happened(blocks', incoming)
    BY <2>1, BlocksGrow DEF IncomingInv
  <2>4. \A q \in fetches : FetchOK(blocks', q)
    BY <2>1, BlocksGrow DEF IncomingInv, FetchOK
  <2> QED BY <2>1, <2>2, <2>3, <2>4 DEF IncomingInv
<1>2. CASE OnLatestBlock
  BY <1>2, UpdateKeeps DEF OnLatestBlock, IncomingInv, sessionVars
<1>3. CASE StartIncoming
  BY <1>3 DEF StartIncoming, IncomingInv, sessionVars
<1>4. CASE StopIncoming
  BY <1>4 DEF StopIncoming, IncomingInv, sessionVars
<1>5. ASSUME NEW a \in Addrs, AccountChosen(a) PROVE IncomingInv'
  BY <1>5, UpdateKeeps DEF AccountChosen, IncomingInv
<1>6. ASSUME NEW c \in Chains, NetworkChosen(c) PROVE IncomingInv'
  BY <1>6, UpdateKeeps DEF NetworkChosen, IncomingInv
<1>7. ASSUME NEW q \in fetches, FetchAnswered(q) PROVE IncomingInv'
  <2>1. UNCHANGED <<provider, chosen, blocks>> /\ fetches' = fetches \ {q}
    BY <1>7 DEF FetchAnswered, sessionVars
  <2>2. incoming' = q.list \cup {<<q.chain, k>> : k \in Received(q)}
    BY <1>7 DEF FetchAnswered, UpdateState, ChainOf
  <2>3. FetchOK(blocks, q)
    BY DEF IncomingInv
  <2>4. Happened(blocks, {<<q.chain, k>> : k \in Received(q)})
    BY <2>3 DEF Happened, InBlock, Received, FetchOK
  <2>5. Happened(blocks, incoming')
    BY <2>2, <2>3, <2>4 DEF Happened, FetchOK
  <2> QED BY <2>1, <2>5 DEF IncomingInv
<1>8. ASSUME NEW q \in fetches, FetchFails(q) PROVE IncomingInv'
  BY <1>8 DEF FetchFails, IncomingInv, sessionVars
<1>9. CASE UNCHANGED inVars
  BY <1>9 DEF inVars, IncomingInv, sessionVars
<1> QED BY <1>1, <1>2, <1>3, <1>4, <1>5, <1>6, <1>7, <1>8, <1>9 DEF InNext

(* A transaction is listed under the network it happened on, although the   *)
(* network may change while the explorer is asked and the lists written     *)
(* back are those from before the request (_updateStateWithNewTxData).      *)
THEOREM IncomingWhereItHappened == InSpec => []IncomingOnItsChain
<1>1. IncomingInv => IncomingOnItsChain
  BY DEF IncomingInv, Happened, InBlock, IncomingOnItsChain
<1> QED BY <1>1, InitIncoming, NextIncoming, PTL DEF InSpec
-----------------------------------------------------------------------------
(* Their types *)

(* The greatest number of a set.                                            *)
LEMMA MaxIs ==
  ASSUME NEW n \in Nat, NEW S \in SUBSET (1..n), S # {}
  PROVE  Max(S) \in S
<1> DEFINE T == {n - k : k \in S}
<1>1. T \in SUBSET Nat /\ T # {}
  <2>1. \A k \in S : n - k \in Nat
    OBVIOUS
  <2> QED BY <2>1
<1> HIDE DEF T
<1>2. PICK t \in T : \A m \in T : t <= m
  BY <1>1, LeastNat
<1> USE DEF T
<1>3. PICK k \in S : t = n - k
  BY <1>2
<1>4. \A m \in S : k >= m
  <2> TAKE m \in S
  <2>1. n - k <= n - m
    BY <1>2, <1>3
  <2> QED BY <2>1
<1> QED BY <1>4 DEF Max

FetchesOK ==
  /\ fetches \subseteq Fetch
  /\ Cardinality(fetches) <= MaxFetches /\ IsFiniteSet(fetches)
FirstOK == first \in [address : Addrs, top : 0..MaxHeight, answered : BOOLEAN]

InTypeInv == InTypeOK /\ IncomingInv /\ IsFiniteSet(fetches)

LEMMA InitInTypes == InInit => InTypeInv
<1> SUFFICES ASSUME InInit PROVE InTypeInv
  OBVIOUS
<1>1. IsFiniteSet({}) /\ Cardinality({}) = 0
  BY FS_EmptySet
<1>2. 0 <= MaxFetches /\ 0 \in 0..MaxHeight /\ 1 <= MaxHeight
  BY IncomingBoundsAssumption
<1>3. fetches = {} /\ IsFiniteSet(fetches) /\ Cardinality(fetches) <= MaxFetches
  BY <1>1, <1>2 DEF InInit
<1>4. ASSUME NEW c \in Chains
      PROVE  blocks[c] \in Seq(Addrs \cup {Nobody}) /\ Len(blocks[c]) <= MaxHeight
  <2>1. blocks[c] \in {<<>>} \cup {<<a>> : a \in Addrs}
    BY DEF InInit
  <2>2. blocks[c] = <<>> \/ \E a \in Addrs : blocks[c] = <<a>>
    BY <2>1
  <2>3. CASE blocks[c] = <<>>
    <3>1. Len(<<>>) = 0 /\ <<>> \in Seq(Addrs \cup {Nobody})
      OBVIOUS
    <3> QED BY <1>2, <2>3, <3>1, IncomingBoundsAssumption
  <2>4. ASSUME NEW a \in Addrs, blocks[c] = <<a>>
        PROVE  blocks[c] \in Seq(Addrs \cup {Nobody}) /\ Len(blocks[c]) <= MaxHeight
    <3>1. Len(<<a>>) = 1 /\ <<a>> \in Seq(Addrs \cup {Nobody})
      OBVIOUS
    <3> QED BY <1>2, <2>4, <3>1
  <2> QED BY <2>2, <2>3, <2>4
<1>5. lastFetched \in [Supported -> Nat]
  BY DEF InInit, Never
<1>6. FirstOK
  BY <1>2 DEF InInit, FirstOK
<1>7. InTypeOK
  BY <1>2, <1>3, <1>4, <1>5, <1>6 DEF InInit, InTypeOK, FirstOK
<1> QED BY <1>3, <1>7, InitIncoming DEF InTypeInv

LEMMA UpdateTypes ==
  ASSUME InTypeInv, NEW a \in Addrs, NEW c \in Chains, NEW newest \in Nat, Update(a, c, newest)
  PROVE  FetchesOK' /\ FirstOK' /\ lastChainId' \in Supported \cup {NoChain}
<1> USE DEF InTypeInv, InTypeOK
<1>1. CASE StartFetch(a, c, newest) /\ c \in Supported
  <2> DEFINE new == [address |-> a, chain |-> c, from |-> FromBlock(c, newest),
                     lasts |-> lastFetched, list |-> incoming]
  <2>1. fetches' = fetches \cup {new} /\ Cardinality(fetches') <= MaxFetches
    BY <1>1 DEF StartFetch
  <2>2. FromBlock(c, newest) \in Nat
    BY <1>1 DEF FromBlock, Never
  <2>3. new \in Fetch
    BY <1>1, <2>2 DEF Fetch
  <2> HIDE DEF new
  <2>4. FetchesOK'
    BY <2>1, <2>3, FS_AddElement DEF FetchesOK
  <2>5. Len(blocks[c]) \in 0..MaxHeight
    BY IncomingBoundsAssumption
  <2>6. FirstOK'
    BY <1>1, <2>5 DEF StartFetch, FirstOK
  <2> QED BY <1>1, <2>4, <2>6 DEF StartFetch
<1>2. CASE UNCHANGED <<fetches, lastChainId, first>>
  BY <1>2 DEF FetchesOK, FirstOK
<1> QED BY <1>1, <1>2 DEF Update

LEMMA FetchEnds ==
  ASSUME InTypeInv, NEW q \in fetches, fetches' = fetches \ {q}
  PROVE  FetchesOK'
<1>1. IsFiniteSet(fetches \ {q}) /\ Cardinality(fetches \ {q}) = Cardinality(fetches) - 1
  BY FS_RemoveElement DEF InTypeInv
<1>2. Cardinality(fetches) \in Nat /\ Cardinality(fetches) <= MaxFetches
  BY FS_CardinalityType DEF InTypeInv, InTypeOK
<1> QED BY <1>1, <1>2, IncomingBoundsAssumption DEF InTypeInv, InTypeOK, FetchesOK

LEMMA AnswerTypes ==
  ASSUME InTypeInv, NEW q \in fetches, UpdateState(q)
  PROVE  lastFetched' \in [Supported -> Nat] /\ incoming' \subseteq Listable
<1>1. q \in Fetch
  BY DEF InTypeInv, InTypeOK
<1>2. /\ q.chain \in Supported /\ q.chain \in Chains /\ q.from \in Nat
      /\ q.lasts \in [Supported -> Nat] /\ q.list \subseteq Listable
  BY <1>1, SupportedAssumption DEF Fetch
<1>3. Len(blocks[q.chain]) \in Nat /\ Len(blocks[q.chain]) <= MaxHeight
  BY <1>2 DEF InTypeInv, InTypeOK
<1>4. Received(q) \in SUBSET (1..Len(blocks[q.chain]))
  BY DEF Received
<1>5. NextFrom(q) \in Nat
  <2>1. CASE Received(q) # {}
    <3>1. Max(Received(q)) \in 1..Len(blocks[q.chain])
      BY <1>3, <1>4, <2>1, MaxIs
    <3> QED BY <1>3, <2>1, <3>1 DEF NextFrom
  <2>2. CASE Received(q) = {}
    BY <1>2, <2>2 DEF NextFrom, Never
  <2> QED BY <2>1, <2>2
<1>6. lastFetched' = [q.lasts EXCEPT ![q.chain] = NextFrom(q)]
  BY DEF UpdateState, ChainOf
<1>7. \A k \in Received(q) : <<q.chain, k>> \in Listable
  BY <1>2, <1>3, <1>4, IncomingBoundsAssumption DEF Listable
<1>8. incoming' \subseteq Listable
  BY <1>2, <1>7 DEF UpdateState, ChainOf
<1> QED BY <1>2, <1>5, <1>6, <1>8

LEMMA NextInTypes == InTypeInv /\ [InNext]_inVars => InTypeInv'
<1> SUFFICES ASSUME InTypeInv, [InNext]_inVars PROVE InTypeInv'
  OBVIOUS
<1>i. IncomingInv'
  BY NextIncoming DEF InTypeInv
<1>t. /\ provider \in Chains /\ chosen \in Addrs
      /\ \A c \in Chains : Len(blocks[c]) \in Nat /\ Len(blocks[c]) <= MaxHeight
      /\ listens \in BOOLEAN /\ seen \in 0..MaxHeight /\ seen \in Nat
      /\ 0 \in 0..MaxHeight /\ 0 \in Nat
      /\ lastChainId \in Supported \cup {NoChain}
      /\ lastFetched \in [Supported -> Nat] /\ incoming \subseteq Listable
      /\ FetchesOK /\ FirstOK
  BY IncomingBoundsAssumption DEF InTypeInv, InTypeOK, FetchesOK, FirstOK
<1> DEFINE
  BlocksOK == \A c \in Chains : Len(blocks[c]) <= MaxHeight
  Stored == lastFetched \in [Supported -> Nat] /\ incoming \subseteq Listable
<1>q. ASSUME BlocksOK', listens' \in BOOLEAN, seen' \in 0..MaxHeight, Stored',
             lastChainId' \in Supported \cup {NoChain}, FetchesOK', FirstOK'
      PROVE  InTypeInv'
  <2>1. \A c \in Chains : blocks'[c] \in Seq(Addrs \cup {Nobody})
    BY <1>i DEF IncomingInv
  <2> QED BY <1>i, <1>q, <2>1 DEF InTypeInv, InTypeOK, IncomingInv, FetchesOK, FirstOK
<1>b. UNCHANGED blocks => BlocksOK'
  BY <1>t
<1>l. UNCHANGED <<lastFetched, incoming>> => Stored'
  BY <1>t
<1>f. UNCHANGED <<fetches, first>> => FetchesOK' /\ FirstOK'
  BY <1>t DEF FetchesOK, FirstOK
<1> HIDE DEF BlocksOK, Stored
<1>1. ASSUME NEW c \in Chains, NEW to \in Addrs \cup {Nobody}, Mine(c, to)
      PROVE  InTypeInv'
  <2>1. BlocksOK'
    <3>1. Len(Append(blocks[c], to)) = Len(blocks[c]) + 1
      BY DEF InTypeInv, IncomingInv
    <3>2. Len(Append(blocks[c], to)) <= MaxHeight
      BY <1>1, <1>t, <3>1, IncomingBoundsAssumption DEF Mine
    <3>3. \A d \in Chains : blocks'[d] = IF d = c THEN Append(blocks[c], to) ELSE blocks[d]
      BY <1>1 DEF Mine, InTypeInv, IncomingInv
    <3> QED BY <1>t, <3>2, <3>3 DEF BlocksOK
  <2> QED BY <1>1, <1>t, <1>q, <1>l, <1>f, <2>1 DEF Mine
<1>2. CASE OnLatestBlock
  <2>1. Len(blocks[provider]) \in 0..MaxHeight /\ Len(blocks[provider]) \in Nat
    BY <1>t, IncomingBoundsAssumption
  <2>2. FetchesOK' /\ FirstOK' /\ lastChainId' \in Supported \cup {NoChain}
    BY <1>2, <1>t, <2>1, UpdateTypes DEF OnLatestBlock
  <2> QED BY <1>2, <1>t, <1>q, <1>b, <1>l, <2>1, <2>2 DEF OnLatestBlock
<1>3. CASE StartIncoming \/ StopIncoming
  BY <1>3, <1>t, <1>q, <1>b, <1>l, <1>f DEF StartIncoming, StopIncoming
<1>4. ASSUME NEW a \in Addrs, AccountChosen(a) PROVE InTypeInv'
  <2>1. FetchesOK' /\ FirstOK' /\ lastChainId' \in Supported \cup {NoChain}
    BY <1>4, <1>t, UpdateTypes DEF AccountChosen
  <2> QED BY <1>4, <1>t, <1>q, <1>b, <1>l, <2>1 DEF AccountChosen
<1>5. ASSUME NEW c \in Chains, NetworkChosen(c) PROVE InTypeInv'
  <2>1. FetchesOK' /\ FirstOK' /\ lastChainId' \in Supported \cup {NoChain}
    BY <1>5, <1>t, UpdateTypes DEF NetworkChosen
  <2> QED BY <1>5, <1>t, <1>q, <1>b, <1>l, <2>1 DEF NetworkChosen
<1>6. ASSUME NEW q \in fetches, FetchAnswered(q) PROVE InTypeInv'
  <2>1. FetchesOK' /\ Stored'
    BY <1>6, FetchEnds, AnswerTypes DEF FetchAnswered, Stored
  <2>2. FirstOK'
    BY <1>6, <1>t DEF FetchAnswered, FirstOK
  <2> QED BY <1>6, <1>t, <1>q, <1>b, <2>1, <2>2 DEF FetchAnswered
<1>7. ASSUME NEW q \in fetches, FetchFails(q) PROVE InTypeInv'
  <2>1. FetchesOK' /\ FirstOK'
    BY <1>7, <1>t, FetchEnds DEF FetchFails, FirstOK
  <2> QED BY <1>7, <1>t, <1>q, <1>b, <1>l, <2>1 DEF FetchFails
<1>8. CASE UNCHANGED inVars
  BY <1>8, <1>t, <1>q, <1>b, <1>l, <1>f DEF inVars
<1> QED BY <1>1, <1>2, <1>3, <1>4, <1>5, <1>6, <1>7, <1>8 DEF InNext

(* What is asked for and listed stays what it is: among other things, the    *)
(* block to go on from is a number, also after an answer without a           *)
(* transaction.                                                             *)
THEOREM IncomingTypeCorrect == InSpec => []InTypeOK
<1>1. InTypeInv => InTypeOK
  BY DEF InTypeInv
<1> QED BY <1>1, InitInTypes, NextInTypes, PTL DEF InSpec
=============================================================================
