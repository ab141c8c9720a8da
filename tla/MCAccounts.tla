----------------------------- MODULE MCAccounts -----------------------------
(* Small instances of the accounts of the wallet and who may see them: the  *)
(* vault and its identities, the permissions of dapps, and the metadata of  *)
(* the sites; what belongs to an account on a network, its tokens and the   *)
(* transactions it received; and the accounts on the home page of the new   *)
(* application.  They share no state but what is chosen; a behaviour        *)
(* exercises the one its focus names.                                       *)
EXTENDS Permissions, Vault, DomainMetadata, Tokens, IncomingTransactions, HomeStores, TLC

CONSTANTS o1, o2, t1, t2, t3, k1, k2, c1, c2, c3, y1, y2, b1,
          h1, h2, x0, x1, e0, p0, p1

(* Two pages of one dapp and one of another. *)
PageOrigins == t1 :> o1 @@ t2 :> o1 @@ t3 :> o2

(* One token of each of two networks, none of the third. *)
TokenContracts == c1 :> {y1} @@ c2 :> {y2} @@ c3 :> {}

(* On two networks that share their addresses: an account of a vault used    *)
(* before, one to import, and a device.                                     *)
HomeDerived == p0 :> x0 @@ p1 :> x1
HomeAccount(c, a, p, t) == [chainKey |-> c, address |-> a, path |-> p, type |-> t]
HomeImportable == {HomeAccount(h1, x1, p1, "wallet"), HomeAccount(h2, e0, p0, "hardware")}
HomeSaved ==
  {<<>>, <<HomeAccount(h1, e0, p0, "wallet"), HomeAccount(h2, x0, p0, "wallet")>>}

VARIABLE focus

listVars == <<known, refused, accountTokens, accountHiddenTokens, tokens, hiddenTokens,
              tokensWithBalance, isActive, lookups>>
receivedVars == <<blocks, listens, seen, lastChainId, lastFetched, incoming, fetches,
                  first>>
chosenVars == <<sessionVars, listVars, receivedVars>>
accountsVars == <<focus, permVars, vaultVars, metaVars, chosenVars, homeVars>>

(* What the focus leaves alone starts in one way only.  At home either      *)
(* addresses are put right or tokens asked for.                             *)
AccountsInit ==
  /\ focus \in {"permissions", "vault", "metadata", "tokens", "incoming", "home", "assets"}
  /\ PermInit
  /\ focus # "permissions" =>
       ~locked /\ ~newHome /\ permitted = [o \in Origins |-> {}]
  /\ VaultInit
  /\ Head(recent) = CHOOSE a \in Accounts : TRUE
  /\ MetaInit
  /\ focus # "metadata" => domains = {}
  /\ TokInit
  /\ chosen = b1
  /\ focus \notin {"tokens", "incoming"} => provider = c1
  /\ focus # "tokens" => known = Addrs
  /\ InInit
  /\ focus # "incoming" => \A c \in Chains : blocks[c] = <<>>
  /\ HomeInit
  /\ focus \notin {"home", "assets"} => allAccountsRaw = <<>> /\ currentChainKey = h1

AccountsNext ==
  /\ UNCHANGED focus
  /\ \/ /\ focus = "permissions" /\ PermNext
        /\ UNCHANGED <<vaultVars, metaVars, chosenVars, homeVars>>
     \/ /\ focus = "vault" /\ VaultNext
        /\ UNCHANGED <<permVars, metaVars, chosenVars, homeVars>>
     \/ /\ focus = "metadata" /\ MetaNext
        /\ UNCHANGED <<permVars, vaultVars, chosenVars, homeVars>>
     \/ /\ focus = "tokens" /\ TokNext
        /\ UNCHANGED <<permVars, vaultVars, metaVars, receivedVars, homeVars>>
     \/ /\ focus = "incoming" /\ InNext
        /\ UNCHANGED <<permVars, vaultVars, metaVars, listVars, homeVars>>
     \/ /\ focus = "home" /\ HomeNext /\ tokenRequests' = {}
        /\ UNCHANGED <<permVars, vaultVars, metaVars, chosenVars>>
     \/ /\ focus = "assets" /\ HomeNext /\ fix' = Resting
        /\ UNCHANGED <<permVars, vaultVars, metaVars, chosenVars>>

(* Every variable keeps its type, and the queue of sites its bound.         *)
AccountsTypes == PermTypeOK /\ VaultTypeOK /\ MetaTypeOK /\ TokTypeOK /\ InTypeOK
                 /\ HomeTypeOK

AccountsSpec == AccountsInit /\ [][AccountsNext]_accountsVars

(* Of the two requests, and of the two pages of o1, either may come first;  *)
(* it makes no difference which.  Bounds: o2 asks for nothing, its page is  *)
(* there to be told, and may see one account; of the pages only t1 closes,  *)
(* and makes the first request.                                             *)
FirstThingsFirst ==
  /\ approval[o2] = None /\ permitted[o2] # Accounts
  /\ page[t2] # "closed" /\ page[t3] # "closed"
  /\ \A k \in Calls : call[k].tab # t3
  /\ call[k1].tab # t2
  /\ call[k2].at # "unborn" => call[k1].at # "unborn"
  /\ page[t2] # "new" => page[t1] # "new"

(* Bounds: one account receives, nothing on the network no explorer serves; *)
(* of the tokens two networks tell all there is to tell.                    *)
OneReceiver ==
  /\ focus = "incoming" => chosen = b1
  /\ \A c \in Chains, k \in 1..MaxHeight :
       k <= Len(blocks[c]) => c # c3 /\ blocks[c][k] \in {b1, Nobody}
TwoNetworks == focus = "tokens" => provider # c3

(* Bound: of the private key and the account of the device the wallet has   *)
(* one at a time, but for its first vault before it is ever locked and      *)
(* before a dapp sees any of its accounts.                                  *)
OneImport ==
  LET there == vault \cup unsaved \cup identities \cup exposed
                 \cup {op[w].account : w \in VaultWindows}
  IN  (vaults = 1 /\ locks = 0 /\ exposed = {}) \/ Cardinality(Imports \cap there) <= 1

(* Neither window has anything the other has not. *)
WindowSymmetry == Permutations(VaultWindows)

Bounds == OneImport /\ FirstThingsFirst /\ OneFlow /\ OneReceiver /\ TwoNetworks
=============================================================================
