------------------------------- MODULE Monitor -------------------------------
(***************************************************************************)
(* `targate monitor`: src/src/monitor.ts and src/src/commands/monitor.ts.  *)
(*                                                                         *)
(* A run asks the registry, OSV and the reputation services about every    *)
(* monitored package, compares the answers with the baseline file, replaces*)
(* the file by what it saw, and then reports.  Any question may fail, runs *)
(* overlap, a run may die anywhere, and the world goes on meanwhile.       *)
(***************************************************************************)
EXTENDS Lockfile

CONSTANTS
  Monitors,   \* runs of the command, each of which starts once
  Lock,       \* the project's lockfile
  DirectNames,\* names of the direct dependencies
  Approved,   \* keys of the approvals
  MalIds,     \* the ids of records that begin with MAL-
  Worlds,     \* what may be true of each package
  Fresh,      \* what is true of every package at the start
  Flags,      \* options of a run
  GapDays,    \* RELEASE_GAP_ANOMALY_DAYS
  MaxChanges  \* bound on changes of the world and losses of the file

Tree == ExtractLockfileEntries(Lock)

(* collectTargets *)
Targets(all) ==
  IF all THEN Tree ELSE Approved \cup {k \in Tree : k[1] \in DirectNames}

Monitored == Tree \cup Approved

AnyWorld == UNION {Worlds[k] : k \in Monitored}

ASSUME MonitorAssumption ==
  /\ Flags # {}
  /\ \A k \in Monitored : Fresh \in Worlds[k]
  /\ AnyWorld \subseteq
       [malicious: SUBSET UNION {w.malicious : w \in AnyWorld},
        advisories: SUBSET UNION {w.advisories : w \in AnyWorld},
        deprecated: BOOLEAN, maintainers: SUBSET UNION {w.maintainers : w \in AnyWorld},
        url: {w.url : w \in AnyWorld}, latest: {w.latest : w \in AnyWorld}, day: Nat, attested: BOOLEAN,
        trend: {"stable", "spike", "drop", "unknown"}, osvUnavailable: {FALSE},
        repo: {"ok", "archived", "not-found", "not-github", "rate-limited", "unavailable", "skipped"}]

VARIABLES
  world,     \* what is true of each package
  changes,   \* number of changes so far
  baseline,  \* the baseline file: a function from keys to snapshots
  run,       \* the state of each run
  told,      \* history: facts about a package that a run has printed
  missed     \* history: facts that entered the file without being compared
             \* with an earlier snapshot, or whose run died before it printed

monitorVars == <<world, changes, baseline, run, told, missed>>

NoSnapshots == [k \in {} |-> Fresh]
NoRun == [pc |-> "idle", flags |-> CHOOSE f \in Flags : TRUE, targets |-> {}, osv |-> "pending",
          lost |-> {}, found |-> NoSnapshots, snapshots |-> NoSnapshots, errors |-> {}, prior |-> {},
          events |-> {}, exit |-> 0, bad |-> {}]

MonitorInit ==
  /\ world = [k \in Monitored |-> Fresh]
  /\ changes = 0
  /\ baseline = NoSnapshots
  /\ run = [m \in Monitors |-> NoRun]
  /\ told = [k \in Monitored |-> {}]
  /\ missed = [k \in Monitored |-> {}]

-----------------------------------------------------------------------------
(* The world. *)

(* bad: a target and a record that has named it as malware since the run began. *)
WorldChanges(k, w) ==
  /\ changes < MaxChanges /\ w # world[k]
  /\ world' = [world EXCEPT ![k] = w]
  /\ changes' = changes + 1
  /\ run' = [m \in Monitors |-> [run[m] EXCEPT !.bad = {b \in @ : b[1] = k => b[2] \in w.malicious}]]
  /\ UNCHANGED <<baseline, told, missed>>

(* The file is not committed: a fresh checkout does not have it, and one that
   is malformed counts as none, as does a snapshot in it that is invalid.    *)
LoseBaseline ==
  /\ changes < MaxChanges
  /\ \E kept \in SUBSET DOMAIN baseline :
       /\ kept # DOMAIN baseline
       /\ baseline' = Restrict(baseline, kept)
  /\ changes' = changes + 1
  /\ UNCHANGED <<world, run, told, missed>>

-----------------------------------------------------------------------------
(* snapshotTargets *)

Step(m, from, r) ==
  /\ run[m].pc = from
  /\ run' = [run EXCEPT ![m] = r]
  /\ UNCHANGED <<world, changes>>

Start(m, flags) ==
  LET targets == Targets(flags.all)
  IN /\ targets # {}
     /\ Step(m, "idle", [run[m] EXCEPT !.pc = "osv", !.flags = flags, !.targets = targets,
                                       !.bad = {b \in targets \X UNION {world[k].malicious : k \in targets} :
                                                  b[2] \in world[b[1]].malicious}])
     /\ UNCHANGED <<baseline, told, missed>>

(* queryOsvBatch: a batched query for the ids of the records of every target,
   then one for each record that its id does not settle.  A record that cannot
   be fetched leaves every package it is about unknown, with what the other
   records say of it; without the batch nothing is known of any package.     *)
Records(w) == w.malicious \cup w.advisories
NeedDetail(ids) == ids \ MalIds

OsvAnswer(w, lost) ==
  [w EXCEPT !.malicious = @ \ lost, !.advisories = @ \ lost,
            !.osvUnavailable = Records(w) \cap lost # {}]

AskOsv(m) ==
  LET targets == run[m].targets
      asked == UNION {Records(world[k]) : k \in targets}
  IN /\ \/ Step(m, "osv", [run[m] EXCEPT !.pc = "scan", !.osv = "failed"])
        \/ \E lost \in SUBSET NeedDetail(asked) :
             Step(m, "osv", [run[m] EXCEPT !.pc = "scan", !.osv = "ok",
                                           !.lost = {b \in targets \X lost : b[2] \in Records(world[b[1]])},
                                           !.found = [k \in targets |-> OsvAnswer(world[k], lost)]])
     /\ UNCHANGED <<baseline, told, missed>>

OsvUnavailable(w) == [w EXCEPT !.malicious = {}, !.advisories = {}, !.osvUnavailable = TRUE]

(* A snapshot of what the world is to the metadata and reputation lookups and
   what OSV answered of it.                                                  *)
Snapshot(w, r, k) ==
  LET osv == IF r.osv = "ok" THEN r.found[k] ELSE OsvUnavailable(w)
  IN [w EXCEPT
            !.malicious = osv.malicious, !.advisories = osv.advisories,
            !.osvUnavailable = osv.osvUnavailable,
            !.trend = IF r.flags.noReputation THEN "unknown" ELSE @,
            !.repo = IF r.flags.noReputation THEN "skipped" ELSE @]

(* fetchReputation never rejects: what it cannot learn is unknown. *)
Unknown(w) == [w EXCEPT !.trend = "unknown", !.repo = "unavailable"]

Pending(m) == run[m].targets \ (DOMAIN run[m].snapshots \cup run[m].errors)

LookUp(m, k) ==
  /\ k \in Pending(m)
  /\ \E w \in {world[k], Unknown(world[k])} :
       Step(m, "scan", [run[m] EXCEPT !.snapshots =
         [x \in DOMAIN @ \cup {k} |-> IF x = k THEN Snapshot(w, run[m], k) ELSE @[x]]])
  /\ UNCHANGED <<baseline, told, missed>>

(* A target whose metadata cannot be fetched is an error and no snapshot. *)
LookUpFails(m, k) ==
  /\ k \in Pending(m)
  /\ Step(m, "scan", [run[m] EXCEPT !.errors = @ \cup {k}])
  /\ UNCHANGED <<baseline, told, missed>>

-----------------------------------------------------------------------------
(* The events of a run. *)

Event(kind, severity, facts) == [kind |-> kind, severity |-> severity, facts |-> facts]

Advisories(s) == {<<"advisory", id>> : id \in s.advisories}
Maintainers(s) == {<<"maintainer", who>> : who \in s.maintainers}
(* Nothing is new after an outage. *)
NewIfKnown(before, after) ==
  IF before.osvUnavailable THEN {} ELSE Advisories(after) \ Advisories(before)
New(before, after) == Advisories(after) \ Advisories(before)
Gone(before, after) == {<<"gone", who>> : who \in before.maintainers \ after.maintainers}
Facts(s) == Advisories(s) \cup Maintainers(s)

AlwaysOnFindings(s, failOnOsvError) ==
  {e \in {Event("known-malicious", "critical", {}), Event("deprecated", "warn", {}),
          Event("repo-archived", "warn", {}), Event("repo-gone", "warn", {}),
          Event("lookup-degraded", IF failOnOsvError THEN "warn" ELSE "info", {})} :
     CASE e.kind = "known-malicious" -> s.malicious # {}
       [] e.kind = "deprecated" -> s.deprecated
       [] e.kind = "repo-archived" -> s.repo = "archived"
       [] e.kind = "repo-gone" -> s.repo = "not-found"
       [] e.kind = "lookup-degraded" -> s.osvUnavailable}

(* A release that is not above the last one, or comes after a long silence. *)
Suspicious(before, after) ==
  CompareSemver(after.latest, before.latest) <= 0 \/ after.day - before.day >= GapDays

DiffSnapshots(before, after) ==
  {e \in {Event("new-advisory", "warn", New(before, after)),
          Event("maintainer-added", "warn", Maintainers(after) \ Maintainers(before)),
          Event("maintainer-removed", "warn", Gone(before, after))} : e.facts # {}}
  \cup
  {e \in {Event("repository-changed", "warn", {}), Event("provenance-removed", "warn", {}),
          Event("suspicious-new-version", "warn", {}), Event("new-version", "info", {}),
          Event("download-drop", "warn", {}), Event("download-spike", "info", {})} :
     CASE e.kind = "repository-changed" -> before.url # after.url
       [] e.kind = "provenance-removed" -> before.attested /\ ~after.attested
       [] e.kind = "suspicious-new-version" -> before.latest # after.latest /\ Suspicious(before, after)
       [] e.kind = "new-version" -> before.latest # after.latest /\ ~Suspicious(before, after)
       [] e.kind = "download-drop" -> before.trend # "drop" /\ after.trend = "drop"
       [] e.kind = "download-spike" -> before.trend # "spike" /\ after.trend = "spike"}

AlreadyKnown(kind, prior) ==
  CASE kind = "known-malicious" -> prior.malicious # {}
    [] kind = "deprecated" -> prior.deprecated
    [] kind = "repo-archived" -> prior.repo = "archived"
    [] kind = "repo-gone" -> prior.repo = "not-found"
    [] OTHER -> FALSE

(* A run that reports only what is not already known. *)
NewEventsOf(s, k, prior, failOnOsvError) ==
  {e \in AlwaysOnFindings(s, failOnOsvError) : k \notin DOMAIN prior \/ ~AlreadyKnown(e.kind, prior[k])}
  \cup (IF k \in DOMAIN prior THEN DiffSnapshots(prior[k], s) ELSE {})

EventsOf(s, k, prior, failOnOsvError) ==
  AlwaysOnFindings(s, failOnOsvError) \cup (IF k \in DOMAIN prior THEN DiffSnapshots(prior[k], s) ELSE {})

ExitCode(events) == IF \E e \in events : e[2].severity \in {"critical", "warn"} THEN 2 ELSE 0

(* readBaseline, and the comparison with what it holds. *)
Compare(m) ==
  LET r == run[m]
      events == UNION {{<<k, e>> : e \in EventsOf(r.snapshots[k], k, baseline, r.flags.failOnOsvError)} :
                         k \in DOMAIN r.snapshots}
  IN /\ Pending(m) = {}
     /\ Step(m, "scan", [r EXCEPT !.pc = IF r.flags.update THEN "write" ELSE "print",
                                  !.events = events, !.exit = ExitCode(events),
                                  !.prior = DOMAIN baseline, !.found = NoSnapshots])
     /\ UNCHANGED <<baseline, told, missed>>

(* writeBaseline replaces the file by the snapshots of this run. *)
ToPrint(m) == Step(m, "write", [run[m] EXCEPT !.pc = "print"])

WriteBaseline(m) ==
  /\ ToPrint(m)
  /\ baseline' = run[m].snapshots
  /\ missed' = [k \in Monitored |->
       IF k \in DOMAIN run[m].snapshots \ run[m].prior THEN missed[k] \cup Facts(run[m].snapshots[k]) ELSE missed[k]]
  /\ UNCHANGED told

(* Best effort: a failed write is swallowed. *)
WriteFails(m) == ToPrint(m) /\ UNCHANGED <<baseline, told, missed>>

FactsOf(m, k) == UNION {e[2].facts : e \in {x \in run[m].events : x[1] = k}}

(* Events are printed once the file is written. *)
Report(m) ==
  /\ Step(m, "print", [run[m] EXCEPT !.pc = "done", !.snapshots = NoSnapshots, !.prior = {}, !.events = {}])
  /\ told' = [k \in Monitored |-> told[k] \cup FactsOf(m, k)]
  /\ UNCHANGED <<baseline, missed>>

(* The process dies; what it compared and wrote but did not print is lost. *)
Crash(m) ==
  /\ run[m].pc \in {"osv", "scan", "write", "print"}
  /\ Step(m, run[m].pc, [NoRun EXCEPT !.pc = "dead"])
  /\ missed' = IF run[m].pc = "print" /\ run[m].flags.update
               THEN [k \in Monitored |-> missed[k] \cup FactsOf(m, k)] ELSE missed
  /\ UNCHANGED <<baseline, told>>

MonitorNext ==
  \/ \E k \in Monitored : \E w \in Worlds[k] : WorldChanges(k, w)
  \/ LoseBaseline
  \/ \E m \in Monitors :
       \/ \E flags \in Flags : Start(m, flags)
       \/ AskOsv(m) \/ Compare(m) \/ WriteBaseline(m) \/ WriteFails(m) \/ Report(m) \/ Crash(m)
       \/ \E k \in Monitored : LookUp(m, k) \/ LookUpFails(m, k)

MonitorSpec == MonitorInit /\ [][MonitorNext]_monitorVars

-----------------------------------------------------------------------------
(* Properties. *)

Reporting == {m \in Monitors : run[m].pc = "print"}

(* Whatever advisory or maintainer the baseline holds of a package has been
   printed, is about to be printed by a run that is still alive, or was never
   in a comparison: no run, however runs overlap, replaces the baseline
   (writeBaseline) by something it found to be new and does not report, which
   would silence it for every later run.                                     *)
NothingUnreported ==
  \A k \in DOMAIN baseline :
    Facts(baseline[k]) \subseteq
      told[k] \cup missed[k] \cup UNION {FactsOf(m, k) : m \in Reporting}

(* A run that ends with exit code 0 earned it, package by package: whatever a
   record named as malware all along, and the run could look up, is something
   that OSV did not say, because the batch failed or because the record has to
   be fetched and could not be, and then the run was not a strict one.  What
   the baseline knew and what OSV said of other packages make no difference.
   And with --fail-on-osv-error no package it looked up was left unknown, in
   whole or by one record (alwaysOnFindings, queryOsvBatch).                 *)
CleanExitIsEarned ==
  \A m \in Monitors : LET r == run[m] IN
    r.pc = "done" /\ r.exit = 0 =>
      /\ \A b \in r.bad :
           b[1] \notin r.errors =>
             /\ r.osv = "failed" \/ (b \in r.lost /\ b[2] \notin MalIds)
             /\ ~r.flags.failOnOsvError
      /\ r.flags.failOnOsvError =>
           /\ r.osv = "failed" => r.errors = r.targets
           /\ \A b \in r.lost : b[1] \in r.errors
=============================================================================
