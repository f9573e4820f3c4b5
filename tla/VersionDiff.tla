----------------------------- MODULE VersionDiff -----------------------------
(***************************************************************************)
(* `targate diff`: src/src/diff.ts and src/src/commands/diff.ts, over a    *)
(* package that gets worse and a lockfile that grows.                      *)
(*                                                                         *)
(* A version is what SecurityScore asks of it.  Where that is a number, of *)
(* findings, of permissions, of the advisories of a severity, it counts the*)
(* first elements of a list that does not change: more of them means some  *)
(* that are new.                                                           *)
(***************************************************************************)
EXTENDS SecurityScore, Lockfile

CONSTANTS
  Sound,    \* a package with nothing, or little, against it
  Entries   \* entries a lockfile may list

VARIABLES
  package,  \* what Sound may come to, one thing after another
  lock      \* the entries of a lockfile, one after another

(* The version to start from when the command line names none: 0 for a package
   that the lockfile does not have, which is an operational error.           *)
FromVersion(name, lockfile) ==
  LET installed == VersionsOf(lockfile, name) IN IF installed = <<>> THEN 0 ELSE HighestSemver(installed)

HardBlocked(p) == p.malicious \/ p.mutated \/ p.fetchExec

(* Dependencies that are new or have a new range. *)
Moved(before, after) == after.ranges \ before.ranges
Added(before, after) == {d \in after.ranges : \A e \in before.ranges : e.name # d.name}

(* A hook with another command is new, a hook that is gone is not. *)
High(before, after) ==
  {why \in {"malicious", "hard block", "lifecycle script", "script finding", "outside the registry"} :
     CASE why = "malicious" -> after.malicious /\ ~before.malicious
       [] why = "hard block" -> HardBlocked(after) /\ ~HardBlocked(before)
       [] why = "lifecycle script" -> ~(after.hooks \subseteq before.hooks)
       [] why = "script finding" -> after.scriptFindings > before.scriptFindings
       [] why = "outside the registry" -> \E d \in Moved(before, after) : d.outside}

Medium(before, after) ==
  {why \in {"dependencies", "maintainers", "repository", "provenance", "deprecated", "native surface",
            "advisories", "size", "score", "OSV"} :
     CASE why = "dependencies" -> \E d \in Added(before, after) : ~d.outside
       [] why = "maintainers" -> before.maintainers # after.maintainers
       [] why = "repository" -> before.url # after.url
       [] why = "provenance" -> before.provenance /\ ~after.provenance
       [] why = "deprecated" -> ~before.deprecated /\ after.deprecated
       [] why = "native surface" -> \/ after.native /\ ~before.native
                                    \/ after.binaries /\ ~before.binaries
                                    \/ after.permissions > before.permissions
       [] why = "advisories" -> \E s \in DOMAIN after.advisories : after.advisories[s] > before.advisories[s]
       [] why = "size" -> after.size = "large" /\ before.size = "small"
       [] why = "score" -> ComputeSecurityScore(before) - ComputeSecurityScore(after) >= 15
       [] why = "OSV" -> before.osvUnavailable \/ after.osvUnavailable}

RiskRank == [low |-> 0, medium |-> 1, high |-> 2]

(* Exactly two reasons to worry make one to stop. *)
RiskOfPair(high, medium) ==
  IF high # {} \/ Cardinality(medium) = 2 THEN "high" ELSE IF medium # {} THEN "medium" ELSE "low"

RiskOfReasons(high, medium) ==
  IF high # {} \/ Cardinality(medium) >= 2 THEN "high" ELSE IF medium # {} THEN "medium" ELSE "low"

DiffRisk(before, after) == RiskOfReasons(High(before, after), Medium(before, after))

DiffExitCode(before, after, failOn) ==
  IF before.version # after.version /\ RiskRank[DiffRisk(before, after)] >= RiskRank[failOn] THEN 2 ELSE 0

-----------------------------------------------------------------------------
(* A package that gets worse. *)

Marks ==
  {"malicious", "mutated", "fetchExec", "osvUnavailable", "internalScope", "degraded", "evals", "minified",
   "newVersion", "releaseGap", "lowAdoption", "repositoryMismatch", "deprecated", "native", "binaries",
   "manyDependencies"}

Counts == {"scriptFindings", "installTimeFindings", "suspiciousFiles", "permissions", "nativeFindings"}

IsPackage(p) ==
  /\ DOMAIN p = Marks \cup Counts \cup
       {"provenance", "maintainers", "url", "version", "advisories", "age", "hooks", "ranges", "size",
        "maintainerChange", "downloads", "trend", "intel", "repo"}
  /\ \A f \in Marks \cup {"provenance"} : p[f] \in BOOLEAN
  /\ \A f \in Counts \cup {"maintainers", "url", "version"} : p[f] \in Nat
  /\ DOMAIN p.advisories \subseteq DOMAIN AdvisoryDeduction
  /\ \A s \in DOMAIN p.advisories : p.advisories[s] \in Nat
  /\ p.age \in DOMAIN AgeBand /\ p.downloads \in {"ok", "unavailable", "skipped"}

ASSUME DiffAssumption == IsPackage(Sound) /\ \A e \in Entries : e.version \in Versions

MoreRanges == {[name |-> "dep", outside |-> FALSE], [name |-> "fork", outside |-> TRUE]}

(* What may be held against a package on top of what is. *)
Worse(p) ==
  {[p EXCEPT ![f] = TRUE] : f \in Marks}
  \cup {[p EXCEPT ![f] = @ + 1] : f \in Counts}
  \cup {[p EXCEPT !.advisories[s] = @ + 1] : s \in DOMAIN p.advisories}
  \cup {[p EXCEPT !.hooks = @ \cup {h}] : h \in {<<"postinstall", 1>>, <<"prepack", 1>>}}
  \cup {[p EXCEPT !.ranges = @ \cup {d}] : d \in MoreRanges}
  \cup {[p EXCEPT !.url = 0], [p EXCEPT !.size = "large"]}
  \cup {[p EXCEPT !.provenance = FALSE], [p EXCEPT !.maintainers = IF @ = 0 THEN 0 ELSE @ - 1]}
  \cup {[p EXCEPT !.age = a] : a \in {x \in {"month", "quarter", "year"} : AgeBand[x] <= AgeBand[p.age]}}
  \cup {[p EXCEPT !.maintainerChange = "changed"], [p EXCEPT !.intel = "newcomer"]}
  \cup (IF p.repo \in {"ok", "archived"} THEN {[p EXCEPT !.repo = "archived"], [p EXCEPT !.repo = "not-found"]} ELSE {})
  \cup (IF p.downloads = "ok" THEN {[p EXCEPT !.trend = "drop"]} ELSE {})

Worsen ==
  /\ \E p \in Worse(package) \ {package} : package' = [p EXCEPT !.version = @ + 1]
  /\ UNCHANGED lock

List(e) == lock' = Append(lock, e) /\ UNCHANGED package

DiffInit == package = Sound /\ lock = <<>>
DiffNext == Worsen \/ \E e \in Entries : List(e)
DiffSpec == DiffInit /\ [][DiffNext]_<<package, lock>>

(* One more thing held against a package never raises its score, whatever is
   held against it already (computeSecurityScore): no bonus hides in a cap, in
   an alternative that replaces a graver one, or in the order of the floors.  *)
ScoreNeverRises ==
  [][ComputeSecurityScore(package') <= ComputeSecurityScore(package)]_package

(* The risk of an upgrade follows what changes (diffPackageVersions): one more
   thing against the new version never makes `targate diff` pass what it
   failed, however many reasons there are already and whatever level it fails
   on; and an upgrade that only takes something away, a hook, a finding, an
   advisory, a dependency, passes at every level but the lowest, whatever is
   left, unless OSV told nothing of a side or the set of maintainers or the
   repository is another.                                                    *)
DiffRiskFollows ==
  [][LET same == package.url = package'.url /\ package.maintainers = package'.maintainers
         known == ~package.osvUnavailable /\ ~package'.osvUnavailable
     IN /\ \A failOn \in DOMAIN RiskRank :
             DiffExitCode(Sound, package, failOn) <= DiffExitCode(Sound, package', failOn)
        /\ same /\ known => DiffExitCode(package', package, "medium") = 0]_package

-----------------------------------------------------------------------------
(* What is read out of a lockfile. *)

Locked == Document("npm", lock)
EntriesOf(k) == {j \in DOMAIN lock : KeyOf(lock[j]) = k}

(* The integrities that entries of k name after the last that names the empty string. *)
Integrities(k) ==
  {lock[i].integrity : i \in {j \in EntriesOf(k) :
     \A x \in EntriesOf(k) : x >= j => lock[x].integrity # Empty}} \ {Absent}

(* Two entries for one version that name different bytes, and none between them
   that names the empty string.                                              *)
Contradicts(k) ==
  \E i, j \in EntriesOf(k) :
    /\ {lock[i].integrity, lock[j].integrity} \cap {Absent, Empty} = {}
    /\ i < j /\ lock[i].integrity # lock[j].integrity
    /\ \A x \in EntriesOf(k) : x \in i .. j => lock[x].integrity # Empty

(* The signal of a tampered lockfile (mergeArtifact): two entries for one
   version that name different bytes are an error, however far apart they stand
   and whatever entries without an integrity come between, though not when one
   with an empty integrity does; and without an error every version has the
   integrity that any of its entries names since the last empty one.         *)
ConflictCaught ==
  LET found == ExtractLockfileArtifacts(Locked)
      keys == {KeyOf(lock[i]) : i \in DOMAIN lock}
  IN IF \E k \in keys : Contradicts(k) THEN found.st = ConflictError
     ELSE /\ found.st = "ok" /\ DOMAIN found.integrity = keys
          /\ \A k \in keys : {found.integrity[k]} \ {Absent} = Integrities(k)

(* "conflicting integrity values for the same name@version ... MUST fail the
   review loudly" (lockfile.ts:26-32), whatever comes between them.          *)
ConflictFails ==
  \A i, j \in DOMAIN lock :
    /\ KeyOf(lock[i]) = KeyOf(lock[j]) /\ lock[i].integrity # lock[j].integrity
    /\ {lock[i].integrity, lock[j].integrity} \cap {Absent, Empty} = {}
    => ExtractLockfileArtifacts(Locked).st # "ok"

(* A later version, as far as nobody would argue. *)
After(v, w) == v.core[1] > w.core[1] \/ (v.core = w.core /\ v.pre = 0 /\ w.pre # 0)

(* The version that `ci` and `diff` take for the installed one
   (resolveInstalledVersion, diffCommand) is one the lockfile lists, the pinned
   one if there is a pin and it is listed, and otherwise none that is listed
   comes after it; a release comes after its candidates.                     *)
HighestPicked ==
  \A k \in {KeyOf(lock[i]) : i \in DOMAIN lock}, pin \in {e.version : e \in Entries} :
    LET versions == {x[2] : x \in {y \in ExtractLockfileEntries(Locked) : y[1] = k[1]}}
        picked == ResolveInstalledVersion(k[1], pin, Locked).version
        from == FromVersion(k[1], Locked)
    IN /\ {picked, from} \subseteq versions
       /\ IF pin \in versions THEN picked = pin ELSE ~\E v \in versions : After(v, picked)
       /\ ~\E v \in versions : After(v, from)

(* Both readings of a lockfile at once. *)
LockfileRead == ConflictCaught /\ HighestPicked
=============================================================================
