----------------------------- MODULE MCAddCommand -----------------------------
(* Instance of AddCommand for TLC: two commands that add the same package, clean
   (MCFacts) or with an install hook that fetches and executes (MCHookFacts),
   and one dependency that is a soft block.  Nothing or both are approved, the
   dependency no-scripts.                                                    *)
EXTENDS AddCommand, TLC

CONSTANTS root, dep, a1, a2, d1, d2

Sig(fetchExec, concern) ==
  [mutated |-> FALSE, malicious |-> FALSE, fetchExec |-> fetchExec,
   degraded |-> FALSE, osvDown |-> FALSE, concern |-> concern]

FactsWith(S) == [p \in Packages |-> IF p = root THEN S ELSE {Sig(FALSE, "soft")}]
MCFacts == FactsWith({Sig(FALSE, "none")})
MCHookFacts == FactsWith({Sig(TRUE, "none")})
MCPolicy == [p \in Packages |-> [lists |-> {}, asks |-> "allow"]]

MCCommitted == {[p \in Packages |-> "none"],
                [p \in Packages |-> IF p = root THEN "normal" ELSE "no-scripts"]}

Cmd(deep, yes) == [deep |-> deep, assumeYes |-> yes, dryRun |-> FALSE, json |-> yes,
                   failOnOsvError |-> FALSE]
MCFlags == {Cmd(TRUE, FALSE), Cmd(TRUE, TRUE), Cmd(FALSE, TRUE)}

Symmetry == Permutations(Adders) \cup Permutations(Digests)
=============================================================================
