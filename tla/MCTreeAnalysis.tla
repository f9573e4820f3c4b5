---------------------------- MODULE MCTreeAnalysis ----------------------------
(* Instance of TreeAnalysis for TLC: three packages in batches of two, one with a
   MAL- record, one with a GHSA malware record, one that wants review; the cache
   knows an answer below the rules.                                          *)
EXTENDS TreeAnalysis, TLC

CONSTANTS mal, ghsa, clean, m1, g1

Sig(concern) ==
  [mutated |-> FALSE, malicious |-> FALSE, fetchExec |-> FALSE,
   degraded |-> FALSE, osvDown |-> FALSE, concern |-> concern]

MCOrder == <<mal, ghsa, clean>>
MCFacts == [p \in Packages |-> Sig(IF p = clean THEN "review" ELSE "none")]
MCPolicy == [p \in Packages |-> [lists |-> {}, asks |-> "allow"]]
MCRecords == [p \in Packages |-> CASE p = mal -> {m1} [] p = ghsa -> {g1} [] OTHER -> {}]
MCKind == [id \in Ids |-> IF id = m1 THEN "MAL" ELSE "malware"]
MCPublications == {{m1, g1}}
MCOptions == {[failOnOsvError |-> strict, cache |-> [enabled |-> strict, refresh |-> FALSE, exclude |-> {}]] :
                strict \in BOOLEAN}
MCFiles == {[key \in {CacheKey(clean, Sig("review"))} |-> Entry("allow")]}
=============================================================================
