----------------------------- MODULE MCProxyVet -----------------------------
(* Instance of ProxyVet for TLC: two packages, the first of which was
   republished for one credential, and contents that need a human, are clean
   or change their rating between analyses.                                  *)
EXTENDS ProxyVet, TLC

CONSTANTS c1, c2, p1, p2, t1, t2, d1, d2

MCKeys == {<<p1, t1>>, <<p1, t2>>, <<p2, t1>>}
MCUpstream == (<<p1, t1>> :> {d1, d2}) @@ (<<p1, t2>> :> {d1}) @@ (<<p2, t1>> :> {d2})

MCOnePackage == {<<p1, t1>>, <<p1, t2>>}
MCUpstreamOne == (<<p1, t1>> :> {d1, d2}) @@ (<<p1, t2>> :> {d1})

MCRating == [d \in Digests |-> IF d = d2 THEN {"allow", "require_approval"}
                                         ELSE {"require_approval"}]

Symmetry == Permutations(Clients)
=============================================================================
