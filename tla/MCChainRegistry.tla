-------------------------- MODULE MCChainRegistry --------------------------
(* Two built-in chains, Arbitrum One with a token and Nova without.        *)
EXTENDS ChainRegistry, TLC

TwoBuiltins == <<"eip155:42161", "eip155:42170">>
TheirNames == "eip155:42161" :> {"arbitrum"} @@ "eip155:42170" :> {"nova"}
TheirToken == "eip155:42161" :> "usd" @@ "eip155:42170" :> NoToken
=============================================================================
