------------------------ MODULE IncomingTransactions ------------------------
(***************************************************************************)
(* IncomingTransactionsController                                          *)
(* (app/scripts/controllers/incoming-transactions.js): after every new     *)
(* block, and when another account or network is chosen, a block explorer  *)
(* is asked for the transactions of the chosen account, from the block the *)
(* last answer led to.                                                     *)
(*                                                                         *)
(* A block holds at most one transaction, blocks[c][k] is who receives it. *)
(* The explorer knows every block.                                         *)
(***************************************************************************)
EXTENDS Session, Integers, Sequences, FiniteSets, FiniteSetsExt

CONSTANTS
  Supported,   \* etherscanSupportedNetworks
  Nobody,      \* receives no transaction
  NoChain,     \* lastChainId is null
  MaxHeight,   \* bound: blocks of a chain
  MaxFetches   \* bound: requests under way

ASSUME SupportedAssumption == Supported \subseteq Chains /\ NoChain \notin Chains
ASSUME NobodyAssumption == Nobody \notin Addrs
ASSUME IncomingBoundsAssumption == MaxHeight \in Nat \ {0} /\ MaxFetches \in Nat

VARIABLES
  blocks,      \* per chain, who receives the transaction of each block
  listens,     \* the controller listens to new blocks
  seen,        \* the newest block the tracker of the network has told of
  lastChainId,
  lastFetched, \* incomingTxLastFetchedBlocksByNetwork
  incoming,    \* incomingTransactions: chain and block
  fetches,     \* the requests under way, with what was read before them
  first        \* the first fetch since lastChainId changed: for whom, up to
               \* which block, and whether an answer for that account has come

inVars == <<sessionVars, blocks, listens, seen, lastChainId, lastFetched, incoming,
            fetches, first>>

(* null, undefined and NaN, all of them falsy: everything is fetched. *)
Never == 0

Listable == Supported \X (1..MaxHeight)
Fetch == [address : Addrs, chain : Supported, from : Nat,
          lasts : [Supported -> Nat], list : SUBSET Listable]

InTypeOK ==
  /\ provider \in Chains /\ chosen \in Addrs
  /\ \A c \in Chains : blocks[c] \in Seq(Addrs \cup {Nobody}) /\ Len(blocks[c]) <= MaxHeight
  /\ listens \in BOOLEAN
  /\ seen \in 0..MaxHeight
  /\ lastChainId \in Supported \cup {NoChain}
  /\ lastFetched \in [Supported -> Nat]
  /\ incoming \subseteq Listable
  /\ fetches \subseteq Fetch /\ Cardinality(fetches) <= MaxFetches
  /\ first \in [address : Addrs, top : 0..MaxHeight, answered : BOOLEAN]

InInit ==
  /\ provider \in Chains /\ chosen \in Addrs
  /\ blocks \in [Chains -> {<<>>} \cup {<<a>> : a \in Addrs}]
  /\ listens = FALSE /\ seen = 0
  /\ lastChainId = NoChain
  /\ lastFetched = [c \in Supported |-> Never]
  /\ incoming = {} /\ fetches = {}
  /\ first = [address |-> chosen, top |-> 0, answered |-> FALSE]

-----------------------------------------------------------------------------
(* _getDataForUpdate: where to fetch from, lastChainId, and the request.    *)
(* The first time on a chain everything is fetched; else from the block     *)
(* stored for the chain, or the one known at the moment.                    *)
FromBlock(c, known) ==
  IF lastChainId # c THEN Never
  ELSE IF lastFetched[c] # Never THEN lastFetched[c] ELSE known

StartFetch(a, c, known) ==
  /\ fetches' = fetches \cup
       {[address |-> a, chain |-> c, from |-> FromBlock(c, known),
         lasts |-> lastFetched, list |-> incoming]}
  /\ Cardinality(fetches') <= MaxFetches
  /\ lastChainId' = c
  /\ first' = IF lastChainId # c
              THEN [address |-> a, top |-> Len(blocks[c]), answered |-> FALSE]
              ELSE first

(* _update.  Bound: no more once the stored block is past all blocks.       *)
Update(a, c, known) ==
  \/ /\ c \in Supported /\ lastFetched[c] <= MaxHeight + 1
     /\ StartFetch(a, c, known)
  \/ /\ c \notin Supported
     /\ UNCHANGED <<fetches, lastChainId, first>>

(* A block is mined on a chain. *)
Mine(c, to) ==
  /\ Len(blocks[c]) < MaxHeight
  /\ blocks' = [blocks EXCEPT ![c] = Append(@, to)]
  /\ UNCHANGED <<sessionVars, listens, seen, lastChainId, lastFetched, incoming,
                 fetches, first>>

(* The tracker tells of the newest block; those before it are skipped. *)
OnLatestBlock ==
  /\ listens /\ seen < Len(blocks[provider])
  /\ seen' = Len(blocks[provider])
  /\ Update(chosen, provider, seen')
  /\ UNCHANGED <<sessionVars, blocks, listens, lastFetched, incoming>>

StartIncoming ==
  /\ listens' = TRUE
  /\ lastChainId' = NoChain
  /\ UNCHANGED <<sessionVars, blocks, seen, lastFetched, incoming, fetches, first>>

StopIncoming ==
  /\ listens /\ listens' = FALSE
  /\ UNCHANGED <<sessionVars, blocks, seen, lastChainId, lastFetched, incoming,
                 fetches, first>>

(* The listeners of another account and another network do not ask whether  *)
(* the controller was started.                                              *)
AccountChosen(a) ==
  /\ a # chosen /\ chosen' = a
  /\ Update(a, provider, seen)
  /\ UNCHANGED <<provider, blocks, listens, seen, lastFetched, incoming>>

NetworkChosen(c) ==
  /\ provider' = c /\ seen' = 0
  /\ Update(chosen, c, seen')
  /\ UNCHANGED <<chosen, blocks, listens, lastFetched, incoming>>

-----------------------------------------------------------------------------
(* _processTxFetchResponse: what the account received from `from` on. *)
Received(q) ==
  {k \in 1..Len(blocks[q.chain]) : k >= q.from /\ blocks[q.chain][k] = q.address}

(* The chain the answer is stored for: not the one chosen by now. *)
ChainNow(q) == IF provider \in Supported THEN provider ELSE q.chain
ChainOf(q) == q.chain

NextFrom(q) ==
  IF Received(q) # {} THEN Max(Received(q)) + 1
  ELSE IF q.from = Never THEN Never ELSE q.from + 1

(* _updateStateWithNewTxData: what was captured before the request is       *)
(* written back with what the answer brings.                                *)
UpdateState(q) ==
  /\ lastFetched' = [q.lasts EXCEPT ![ChainOf(q)] = NextFrom(q)]
  /\ incoming' = q.list \cup {<<ChainOf(q), k>> : k \in Received(q)}

FetchAnswered(q) ==
  /\ fetches' = fetches \ {q}
  /\ UpdateState(q)
  /\ first' = [first EXCEPT !.answered =
       @ \/ (q.chain = lastChainId /\ q.address = first.address)]
  /\ UNCHANGED <<sessionVars, blocks, listens, seen, lastChainId>>

FetchFails(q) ==
  /\ fetches' = fetches \ {q}
  /\ UNCHANGED <<sessionVars, blocks, listens, seen, lastChainId, lastFetched,
                 incoming, first>>

InNext ==
  \/ \E c \in Chains, to \in Addrs \cup {Nobody} : Mine(c, to)
  \/ OnLatestBlock \/ StartIncoming \/ StopIncoming
  \/ \E a \in Addrs : AccountChosen(a)
  \/ \E c \in Chains : NetworkChosen(c)
  \/ \E q \in fetches : FetchAnswered(q) \/ FetchFails(q)

InSpec == InInit /\ [][InNext]_inVars

-----------------------------------------------------------------------------
(* Properties *)

(* A transaction is listed under the network it happened on, also when the  *)
(* network changes while the explorer is asked.                             *)
IncomingOnItsChain ==
  \A tx \in incoming : tx[2] <= Len(blocks[tx[1]]) /\ blocks[tx[1]][tx[2]] \in Addrs

(* Claimed where the first fetch on a chain is made ("so that scan api can  *)
(* get all txs first time of chain changed"): once a fetch has been         *)
(* answered since the chain changed, and none is under way, all             *)
(* transactions are listed that the account had received when it did.       *)
FirstTimeGetsAll ==
  first.answered /\ fetches = {} /\ lastChainId # NoChain =>
    \A k \in 1..first.top :
      blocks[lastChainId][k] = first.address => <<lastChainId, k>> \in incoming
=============================================================================
