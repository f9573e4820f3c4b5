--------------------------- MODULE MCProxyDaemon ---------------------------
(* Instance of ProxyDaemon for TLC. *)
EXTENDS ProxyDaemon, TLC

CONSTANTS d1, d2, p1, p2, a, b

MCSymmetry == Permutations({d1, d2}) \cup Permutations({p1, p2}) \cup Permutations({a, b})
=============================================================================
