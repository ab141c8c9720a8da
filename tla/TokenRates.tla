----------------------------- MODULE TokenRates -----------------------------
(***************************************************************************)
(* TokenRatesController (app/scripts/controllers/token-rates.js): prices   *)
(* of the tokens the preferences list, polled while a window is open.  Of  *)
(* a price only the chain whose platform was asked is kept.                *)
(***************************************************************************)
EXTENDS Session, Naturals, FiniteSets

CONSTANTS
  RatedTokens,  \* the tokens a user may list
  NoRate,       \* a token of which nothing is stored
  Zero,         \* the rate of a token the answer does not name
  MaxAsking     \* bound: requests under way

ASSUME RatesAssumption == NoRate \notin Chains /\ Zero \notin Chains /\ NoRate # Zero
ASSUME MaxAskingAssumption == MaxAsking \in Nat

VARIABLES
  wanted,                 \* the tokens of the chosen account and chain
  contractExchangeRates,  \* the rates stored
  polling,                \* the timer runs
  asking                  \* the requests under way

rateVars == <<sessionVars, wanted, contractExchangeRates, polling, asking>>

RateTypeOK ==
  /\ provider \in Chains
  /\ wanted \subseteq RatedTokens
  /\ contractExchangeRates \in [RatedTokens -> Chains \cup {NoRate, Zero}]
  /\ polling \in BOOLEAN
  /\ asking \subseteq [tokens : SUBSET RatedTokens, chain : Chains]
  /\ Cardinality(asking) <= MaxAsking

NoRates == [t \in RatedTokens |-> NoRate]

RateInit ==
  /\ provider \in Chains
  /\ wanted = {} /\ contractExchangeRates = NoRates
  /\ polling = FALSE /\ asking = {}

(* updateExchangeRates up to the request: none for an empty list. *)
UpdateExchangeRates(tokens, chain) ==
  \/ /\ tokens = {}
     /\ contractExchangeRates' = NoRates
     /\ UNCHANGED asking
  \/ /\ tokens # {}
     /\ asking' = asking \cup {[tokens |-> tokens, chain |-> chain]}
     /\ Cardinality(asking') <= MaxAsking
     /\ UNCHANGED contractExchangeRates

(* The preferences change: other tokens, maybe because of another chain. *)
SetTokens(tokens, chain) ==
  /\ wanted' = tokens /\ provider' = chain
  /\ UpdateExchangeRates(tokens, chain)
  /\ UNCHANGED <<chosen, polling>>

StartRates ==
  /\ polling' = TRUE
  /\ UpdateExchangeRates(wanted, provider)
  /\ UNCHANGED <<sessionVars, wanted>>

StopRates ==
  /\ polling /\ polling' = FALSE
  /\ UNCHANGED <<sessionVars, wanted, contractExchangeRates, asking>>

Poll ==
  /\ polling
  /\ UpdateExchangeRates(wanted, provider)
  /\ UNCHANGED <<sessionVars, wanted, polling>>

(* It would be wrong to fill in what is missing only. *)
MissingRates(q) ==
  [t \in RatedTokens |->
     IF t \in wanted /\ contractExchangeRates[t] \in {NoRate, Zero}
     THEN IF t \in q.tokens THEN q.chain ELSE Zero
     ELSE contractExchangeRates[t]]

(* The answer is applied to the tokens that are listed now: those that were *)
(* not asked for get 0.                                                     *)
RatesFrom(q) ==
  [t \in RatedTokens |->
     IF t \notin wanted THEN NoRate ELSE IF t \in q.tokens THEN q.chain ELSE Zero]

RatesArrive(q) ==
  /\ asking' = asking \ {q}
  /\ contractExchangeRates' = RatesFrom(q)
  /\ UNCHANGED <<sessionVars, wanted, polling>>

(* The request fails: the rates there were are gone. *)
RatesFail(q) ==
  /\ asking' = asking \ {q}
  /\ contractExchangeRates' = NoRates
  /\ UNCHANGED <<sessionVars, wanted, polling>>

RateNext ==
  \/ \E tokens \in SUBSET RatedTokens, chain \in Chains : SetTokens(tokens, chain)
  \/ StartRates \/ StopRates \/ Poll
  \/ \E q \in asking : RatesArrive(q) \/ RatesFail(q)

RateSpec == RateInit /\ [][RateNext]_rateVars

(* The timer fires, and requests end; they do not fail for ever. *)
RateFairness ==
  /\ WF_rateVars(Poll)
  /\ WF_rateVars(\E q \in asking : RatesArrive(q) \/ RatesFail(q))
  /\ SF_rateVars(\E q \in asking : RatesArrive(q))

-----------------------------------------------------------------------------
(* Properties *)

RatesCurrent == \A t \in wanted : contractExchangeRates[t] = provider

(* The answer of an older request may be stored last, with the prices of    *)
(* another chain and zeros for tokens it did not ask for; while a window is *)
(* open and nothing else changes that does not last.                        *)
RatesCatchUp ==
  \/ []<>(~polling \/ RatesCurrent)
  \/ []<><<provider' # provider \/ wanted' # wanted>>_rateVars
=============================================================================
