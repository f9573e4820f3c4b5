--------------------------- MODULE MCInstallCommand ---------------------------
(* Instance of InstallCommand for TLC: one package to be reviewed whose
   advisories are unknown, and one of the team's allow list that is soft-blocked or, its
   bytes mutated, hard-blocked.                                              *)
EXTENDS InstallCommand

CONSTANTS p1, p2

Sig(mutated, malicious, fetchExec, osvDown, concern) ==
  [mutated |-> mutated, malicious |-> malicious, fetchExec |-> fetchExec,
   degraded |-> FALSE, osvDown |-> osvDown, concern |-> concern]

MCFacts == [p \in Packages |->
  IF p = p1 THEN {Sig(FALSE, FALSE, FALSE, TRUE, "review")}
            ELSE {Sig(FALSE, FALSE, FALSE, FALSE, "soft"), Sig(TRUE, FALSE, TRUE, FALSE, "soft")}]

Cmd(strict, update, scripts, yes, dry, json) ==
  [failOnOsvError |-> strict, updateLockfile |-> update, allowScripts |-> scripts,
   assumeYes |-> yes, dryRun |-> dry, json |-> json, ci |-> FALSE]

MCFlags == {Cmd(TRUE, TRUE, TRUE, FALSE, FALSE, FALSE), Cmd(FALSE, FALSE, TRUE, TRUE, FALSE, TRUE),
            Cmd(TRUE, FALSE, FALSE, FALSE, TRUE, TRUE)}

MCPolicy == [p \in Packages |->
  [lists |-> IF p = p2 THEN {"allowKnownPackages"} ELSE {}, asks |-> "allow"]]
=============================================================================
