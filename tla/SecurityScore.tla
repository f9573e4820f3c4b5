---------------------------- MODULE SecurityScore ----------------------------
(***************************************************************************)
(* The security score: src/src/score.ts, with the reputation signals of    *)
(* src/src/reputation.ts as what they may say.                             *)
(*                                                                         *)
(* A package is what the score asks about it: counts, the band its age is  *)
(* in, and for every lookup what it found or that it found nothing out.    *)
(***************************************************************************)
EXTENDS Integers, Functions

CategoryMax == [vulnerabilities |-> 25, install_behavior |-> 20, content |-> 15, maturity |-> 10,
                maintainer_trust |-> 10, repository |-> 10, surface |-> 10]

AdvisoryDeduction == [critical |-> 20, high |-> 12, moderate |-> 6, low |-> 3, unknown |-> 8]
FloorKnownMalicious == 5
FloorHardBlock == 10

AgeBand == [unknown |-> 5, month |-> 0, quarter |-> 4, year |-> 7, old |-> 10]

If(condition, points) == IF condition THEN points ELSE 0
Least(a, b) == IF a <= b THEN a ELSE b
Most(a, b) == IF a >= b THEN a ELSE b

(* advisories: how many there are of each severity. *)
Vulnerabilities(p) ==
  IF p.malicious THEN CategoryMax.vulnerabilities
  ELSE SumFunction([s \in DOMAIN p.advisories |-> p.advisories[s] * AdvisoryDeduction[s]])
       + If(p.osvUnavailable, 10) + If(p.internalScope, 5)

(* hooks: pairs of a hook and its command.  Those that run when a package is
   packed or published cost nothing.                                         *)
InstallTimeHooks == {"preinstall", "install", "postinstall"}

InstallBehavior(p) == If(\E h \in p.hooks : h[1] \in InstallTimeHooks, 8) + 4 * p.scriptFindings

Content(p) ==
  If(p.degraded, 10) + 5 * p.installTimeFindings + If(p.evals, 3) + If(p.minified, 2)
  + Least(6, 2 * p.suspiciousFiles)

Maturity(p) == CategoryMax.maturity - AgeBand[p.age] + If(p.newVersion, 2) + If(p.releaseGap, 3)

MaintainerTrust(p) ==
  (CASE p.maintainers = 0 -> 4 [] p.maintainers = 1 -> 2 [] OTHER -> 0)
  + (CASE p.maintainerChange = "changed" -> 4 [] p.maintainerChange = "unknown" -> 1 [] OTHER -> 0)
  + (CASE p.downloads = "ok" -> If(p.lowAdoption, 3) + If(p.trend # "stable", 2)
       [] p.downloads = "unavailable" -> 1 [] p.downloads = "skipped" -> 0)
  + (CASE p.intel = "newcomer" -> 4 [] p.intel = "unestablished" -> 2
       [] p.intel = "unavailable" -> 1 [] OTHER -> 0)

(* url: 0 for a package that names no repository. *)
Repository(p) ==
  If(p.url = 0, 6) + If(p.repositoryMismatch, 4)
  + (CASE p.repo = "not-found" -> 4 [] p.repo = "archived" -> 3
       [] p.repo \in {"rate-limited", "unavailable"} -> 1 [] OTHER -> 0)
  + If(p.deprecated, 4) + If(~p.provenance, 2)

Surface(p) ==
  If(p.native, 2) + If(p.binaries, 2) + Least(4, 2 * p.permissions) + If(p.manyDependencies, 2)
  + Least(2, p.nativeFindings)

Deductions(p) ==
  [vulnerabilities |-> Vulnerabilities(p), install_behavior |-> InstallBehavior(p), content |-> Content(p),
   maturity |-> Maturity(p), maintainer_trust |-> MaintainerTrust(p), repository |-> Repository(p),
   surface |-> Surface(p)]

(* A category without a bottom would let one of them eat the others' points. *)
Points(category, deduction) == Most(0, CategoryMax[category] - deduction)

(* The hard-block patterns are looked at before the records. *)
FlooredByPattern(p, total) ==
  IF p.mutated \/ p.fetchExec THEN Least(total, FloorHardBlock)
  ELSE IF p.malicious THEN Least(total, FloorKnownMalicious)
  ELSE total

(* A package the rules hard-block never presents a reassuring number. *)
Floored(p, total) ==
  IF p.malicious THEN Least(total, FloorKnownMalicious)
  ELSE IF p.mutated \/ p.fetchExec THEN Least(total, FloorHardBlock)
  ELSE total

ComputeSecurityScore(p) ==
  LET d == Deductions(p)
      sum == SumFunction([c \in DOMAIN CategoryMax |-> Points(c, d[c])])
  IN Floored(p, Least(100, Most(0, sum)))
=============================================================================
