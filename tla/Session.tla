------------------------------- MODULE Session -------------------------------
(* What the user has chosen in the old pages, for the controllers that cache *)
(* what belongs to it: the network and the selected account.                 *)
CONSTANTS
  Chains,   \* the networks the user may choose
  Addrs     \* the accounts of the wallet

ASSUME ChainsAssumption == Chains # {}
ASSUME AddrsAssumption == Addrs # {}

VARIABLES
  provider,  \* the network the provider is configured for
  chosen     \* the selected account

sessionVars == <<provider, chosen>>
=============================================================================
