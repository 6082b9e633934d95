---------------------------- MODULE MCProxyCache ----------------------------
(* An instance of ProxyCache for TLC.                                      *)
EXTENDS ProxyCache, TLC

CONSTANTS t1, t2, t3, u1, u2, u3

Symmetry == Permutations(Threads) \cup Permutations(Uris)
=============================================================================
