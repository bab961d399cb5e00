-------------------------- MODULE MCProxyExchanges --------------------------
(***************************************************************************)
(* Small instances of ProxyExchanges.  The cfg files choose the exchanges, *)
(* the endpoints, the databases and what goes wrong.                       *)
(***************************************************************************)
EXTENDS ProxyProperties, TLC

\* Exchanges run the same program and differ in their ids only.
IdSymmetry == Permutations(Ids)
=============================================================================
