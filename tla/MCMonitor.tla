------------------------------ MODULE MCMonitor ------------------------------
(* Instance of Monitor for TLC: a direct dependency that is approved, and a
   package that is neither.                                                  *)
EXTENDS Monitor

CONSTANTS m1, m2, lib, deep, ann, eve, adv1, mal1, ghsa

One == Version(1, 0, 0, 0)
Two == Version(2, 0, 0, 0)
Beta == Version(2, 0, 0, 1)

Entry(name, version) == [name |-> name, version |-> version, integrity |-> Absent, depth |-> 0]

MCLock == Document("npm", <<Entry(lib, One), Entry(deep, Beta)>>)
MCDirectNames == {lib}
MCApproved == {<<lib, One>>}

MCFresh == [malicious |-> {}, advisories |-> {}, deprecated |-> FALSE, maintainers |-> {ann},
            url |-> "repo", latest |-> Two, day |-> 0, attested |-> TRUE, trend |-> "stable",
            repo |-> "ok", osvUnavailable |-> FALSE]
(* A takeover: new maintainer, a beta as the latest release, an advisory, and a
   record of malware whose id says so.                                       *)
Stolen == [MCFresh EXCEPT !.malicious = {mal1}, !.maintainers = {eve}, !.advisories = {adv1},
                          !.latest = Beta, !.attested = FALSE, !.trend = "drop"]
(* Malware by a record that has to be read, and nothing else to see. *)
Poisoned == [MCFresh EXCEPT !.malicious = {ghsa}]
MCWorlds == [k \in Monitored |-> {MCFresh, IF k[1] = lib THEN Stolen ELSE Poisoned}]

Options(all, update, strict) ==
  [all |-> all, update |-> update, failOnOsvError |-> strict, noReputation |-> all]
MCFlags == {Options(FALSE, TRUE, TRUE), Options(TRUE, TRUE, FALSE), Options(TRUE, FALSE, TRUE)}

Runs == Permutations(Monitors)
=============================================================================
