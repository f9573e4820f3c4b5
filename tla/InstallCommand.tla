---------------------------- MODULE InstallCommand ----------------------------
(***************************************************************************)
(* `targate install`: src/src/commands/install.ts (installCommand), the    *)
(* tree verdict of src/src/full-install.ts, and the reviewed plan of       *)
(* src/src/install-plan.ts.                                                *)
(*                                                                         *)
(* One command at a time reviews the tree of a lockfile, asks a human about*)
(* what is unresolved, and runs the package manager.  Around it the        *)
(* environment edits the project's manifest and lockfile and the committed *)
(* approvals and denials; the command may die at every await and be run    *)
(* again.  File contents are numbers, a new one for every edit.            *)
(***************************************************************************)
EXTENDS Verdict, FiniteSets

CONSTANTS
  Packages,        \* the name@versions of the tree
  Facts,           \* Facts[p]: signals the bytes of p may really have
  Policy,          \* Policy[p]: how the team policy bears on p
  Flags,           \* the command lines a human or a script may give
  MaxContents,     \* bound on the contents the project files go through
  MaxTrustEdits    \* bound on the edits others make to approvals and denials

ASSUME InstallAssumption ==
  /\ Facts \in [Packages -> SUBSET {s \in Signals : ~s.degraded}]
  /\ Policy \in [Packages -> Policies]
  /\ Flags \in SUBSET [failOnOsvError: BOOLEAN, updateLockfile: BOOLEAN, allowScripts: BOOLEAN,
                       assumeYes: BOOLEAN, dryRun: BOOLEAN, json: BOOLEAN, ci: BOOLEAN]
  /\ MaxContents \in Nat /\ MaxTrustEdits \in Nat

VARIABLES
  facts,      \* what the bytes of each package really are
  approvals,  \* .targate/approvals.json: mode per package
  denials,    \* .targate/denials.json
  edits,      \* edits others made to those files
  manifest,   \* content of package.json
  lock,       \* content of the lockfile, 0 when there is none
  contents,   \* contents used up so far
  pc,         \* where the command is
  flags,      \* its command line, and whether it runs in CI
  session,    \* the approvals and denials it loaded
  plan,       \* the reviewed install plan
  results,    \* report.results, a verdict per package once analysed
  triaged,    \* modes the human approved with in this run's triage
  installed,  \* the lockfile the package manager read, 0 before
  scriptsRan  \* whether it ran lifecycle scripts

trustFiles == <<approvals, denials, edits>>
project    == <<manifest, lock, contents>>
outcomes   == <<installed, scriptsRan>>
vars == <<facts, trustFiles, project, flags, pc, session, plan, results, triaged, outcomes>>

Stages == {"start", "denials", "plan", "analyze", "gate", "triage", "confirm", "apply",
           "write_manifest", "write_lock", "verify", "run", "verify_after",
           "refused", "skipped", "failed", "done"}
Ended == {"refused", "skipped", "failed", "done"}

NoPlan == [manifest |-> 0, lock |-> 0, baseManifest |-> 0, baseLock |-> 0, source |-> "none"]
NoResult == [decision |-> "none"]
Results == [decision: Decisions, hardBlocked: BOOLEAN, approved: BOOLEAN,
            unresolved: BOOLEAN, scripts: {"allow", "deny"}, denied: BOOLEAN]

TypeOK ==
  /\ facts \in [Packages -> Signals]
  /\ approvals \in [Packages -> Approvals]
  /\ denials \in SUBSET Packages
  /\ edits \in Nat /\ manifest \in Nat /\ lock \in Nat /\ contents \in Nat
  /\ pc \in Stages
  /\ flags \in Flags
  /\ session \in [approvals: [Packages -> Approvals], denials: SUBSET Packages]
  /\ plan \in [manifest: Nat, lock: Nat, baseManifest: Nat, baseLock: Nat,
               source: {"none", "existing", "resolved"}]
  /\ results \in [Packages -> Results \cup {NoResult}]
  /\ triaged \in [Packages -> Approvals]
  /\ installed \in Nat
  /\ scriptsRan \in BOOLEAN

Nobody == [p \in Packages |-> "none"]

Init ==
  /\ facts \in {f \in [Packages -> UNION {Facts[p] : p \in Packages}] :
                  \A p \in Packages : f[p] \in Facts[p]}
  /\ approvals = Nobody
  /\ denials = {}
  /\ edits = 0
  /\ manifest = 1
  /\ lock \in {0, 1}
  /\ contents = 1
  /\ pc = "start"
  /\ flags \in Flags
  /\ session = [approvals |-> Nobody, denials |-> {}]
  /\ plan = NoPlan
  /\ results = [p \in Packages |-> NoResult]
  /\ triaged = Nobody
  /\ installed = 0
  /\ scriptsRan = FALSE

Goto(from, to) == pc = from /\ pc' = to

-----------------------------------------------------------------------------
(* Loading and planning. *)

LoadApprovals ==
  /\ Goto("start", "denials")
  /\ session' = [session EXCEPT !.approvals = approvals]
  /\ UNCHANGED <<facts, flags, trustFiles, project, plan, results, triaged, outcomes>>

LoadDenials ==
  /\ Goto("denials", "plan")
  /\ session' = [session EXCEPT !.denials = denials]
  /\ UNCHANGED <<facts, flags, trustFiles, project, plan, results, triaged, outcomes>>

(* An existing lockfile is the plan as it is. *)
PlanFromLockfile ==
  /\ Goto("plan", "analyze")
  /\ lock # 0 /\ ~flags.updateLockfile
  /\ plan' = [manifest |-> manifest, lock |-> lock, baseManifest |-> manifest,
              baseLock |-> lock, source |-> "existing"]
  /\ UNCHANGED <<facts, flags, trustFiles, project, session, results, triaged, outcomes>>

(* The package manager resolves a new lockfile in a staging directory. *)
PlanResolved ==
  /\ Goto("plan", "analyze")
  /\ flags.updateLockfile
  /\ contents < MaxContents
  /\ contents' = contents + 1
  /\ plan' = [manifest |-> manifest, lock |-> contents + 1, baseManifest |-> manifest,
              baseLock |-> lock, source |-> "resolved"]
  /\ UNCHANGED <<facts, flags, trustFiles, manifest, lock, session, results, triaged, outcomes>>

(* No lockfile and no leave to create one, or the resolver failed. *)
PlanFails ==
  /\ Goto("plan", "failed")
  /\ (lock = 0 /\ ~flags.updateLockfile) \/ flags.updateLockfile
  /\ UNCHANGED <<facts, flags, trustFiles, project, session, plan, results, triaged, outcomes>>

-----------------------------------------------------------------------------
(* Analysis: packages are analysed concurrently, so in any order. *)

(* resolveVetResult: the verdict together with the committed decisions. *)
VetResultWithoutDenials(p, d, hard) == ResolvePackageTrust(d, hard, session.approvals[p])
VetResult(p, d, hard) ==
  LET trust == ResolvePackageTrust(d, hard, session.approvals[p])
  IN [decision |-> d, hardBlocked |-> hard, approved |-> trust.approved,
      unresolved |-> trust.unresolved, scripts |-> trust.scripts,
      denied |-> trust.unresolved /\ p \in session.denials]

AnalysisOf(p, d, hard) ==
  /\ pc = "analyze"
  /\ results[p] = NoResult
  /\ results' = [results EXCEPT ![p] = VetResult(p, d, hard)]
  /\ pc' = IF \A q \in Packages \ {p} : results[q] # NoResult THEN "gate" ELSE "analyze"
  /\ UNCHANGED <<facts, flags, trustFiles, project, session, plan, triaged, outcomes>>

Judged(p, s, f) ==
  \E ai \in AiSays :
    AnalysisOf(p, Analyze(s, ai, flags.failOnOsvError, Policy[p], f), IsHardBlock(s))

AnalyzeFully(p) == \E f \in Findings : Judged(p, facts[p], f)

(* The scan ran out of its budget: the identity of the bytes is kept. *)
ScanBudgetExceeded(p) == Judged(p, [facts[p] EXCEPT !.degraded = TRUE], "none")

(* The archive broke a limit of the quarantine: what was learnt about the
   identity of the bytes is lost, and the scripts are the packument's.       *)
QuarantineLimitExceeded(p) ==
  \E declared \in {FALSE, facts[p].fetchExec} :
    Judged(p, [facts[p] EXCEPT !.degraded = TRUE, !.mutated = FALSE,
                               !.fetchExec = declared], "none")

(* errorResult: an analysis that throws is not clean, and not a hard block. *)
AnalysisFails(p) == AnalysisOf(p, "require_approval", FALSE)

AnalyzePackage(p) ==
  \/ AnalyzeFully(p)
  \/ ScanBudgetExceeded(p)
  \/ QuarantineLimitExceeded(p)
  \/ AnalysisFails(p)

-----------------------------------------------------------------------------
(* The gate and the human. *)

Unresolved == {p \in Packages : results[p].unresolved}
ApprovableEvenDenied == {p \in Unresolved : ~results[p].hardBlocked}
Approvable == {p \in Unresolved : ~results[p].hardBlocked /\ ~results[p].denied}

Gate ==
  /\ pc = "gate"
  /\ pc' = IF ~TreeUnresolved({results[p] : p \in Packages}) THEN "confirm"
           ELSE IF ~flags.json /\ ~flags.ci /\ ~flags.assumeYes /\ Approvable # {} THEN "triage"
           ELSE "refused"
  /\ UNCHANGED <<facts, flags, trustFiles, project, session, plan, results, triaged, outcomes>>

(* The human approves some packages, each with or without scripts, denies
   some, and skips the others; recordTriageDecisions records that.           *)
Triage(choice) ==
  LET approved == {p \in Approvable : choice[p] \in Modes}
      denied   == {p \in Approvable : choice[p] = "deny"}
  IN /\ pc = "triage"
     /\ approvals' = [p \in Packages |-> IF p \in approved THEN choice[p]
                                         ELSE IF p \in denied THEN "none" ELSE approvals[p]]
     /\ denials' = (denials \ approved) \cup denied
     /\ triaged' = [p \in Packages |-> IF p \in approved THEN choice[p] ELSE "none"]
     /\ pc' = IF Unresolved \ approved = {} THEN "confirm" ELSE "refused"
     /\ UNCHANGED <<facts, flags, edits, project, session, plan, results, outcomes>>

Confirm ==
  /\ pc = "confirm"
  /\ \/ flags.dryRun /\ pc' = "skipped"
     \/ ~flags.dryRun /\ ~flags.assumeYes /\ pc' = "skipped"
     \/ /\ ~flags.dryRun /\ (flags.assumeYes \/ ~flags.json)
        /\ pc' = IF plan.source = "resolved" THEN "apply" ELSE "verify"
  /\ UNCHANGED <<facts, flags, trustFiles, project, session, plan, results, triaged, outcomes>>

-----------------------------------------------------------------------------
(* Installing. *)

Drifted == manifest # plan.baseManifest \/ lock # plan.baseLock

(* applyInstallPlan: check for drift, then write the two files. *)
ApplyCheck ==
  /\ Goto("apply", IF Drifted THEN "failed" ELSE "write_manifest")
  /\ UNCHANGED <<facts, flags, trustFiles, project, session, plan, results, triaged, outcomes>>

WriteManifest ==
  /\ Goto("write_manifest", "write_lock")
  /\ manifest' = plan.manifest
  /\ UNCHANGED <<facts, flags, trustFiles, lock, contents, session, plan, results, triaged, outcomes>>

WriteLock ==
  /\ Goto("write_lock", "verify")
  /\ lock' = plan.lock
  /\ UNCHANGED <<facts, flags, trustFiles, manifest, contents, session, plan, results, triaged, outcomes>>

(* verifyInstallPlan *)
MatchesPlan == lock = plan.lock /\ manifest = plan.manifest

Verify ==
  /\ Goto("verify", IF MatchesPlan THEN "run" ELSE "failed")
  /\ UNCHANGED <<facts, flags, trustFiles, project, session, plan, results, triaged, outcomes>>

IgnoreScriptsUnlessAsked == ~flags.allowScripts
IgnoreScripts == TreeScripts({results[p] : p \in Packages}) = "deny" \/ ~flags.allowScripts

(* The package manager installs what the lockfile says when it reads it. *)
RunPackageManager ==
  /\ pc = "run"
  /\ lock # 0
  /\ installed' = lock
  /\ scriptsRan' = ~IgnoreScripts
  /\ pc' \in {"verify_after", "failed"}
  /\ UNCHANGED <<facts, flags, trustFiles, project, session, plan, results, triaged>>

VerifyAfterSkipped ==
  /\ Goto("verify_after", "done")
  /\ UNCHANGED <<facts, flags, trustFiles, project, session, plan, results, triaged, outcomes>>

VerifyAfter ==
  /\ Goto("verify_after", IF MatchesPlan THEN "done" ELSE "failed")
  /\ UNCHANGED <<facts, flags, trustFiles, project, session, plan, results, triaged, outcomes>>

-----------------------------------------------------------------------------
(* The rest of the world. *)

(* The command is run again, after it ended or died. *)
RunAgain ==
  /\ pc' = "start"
  /\ session' = [approvals |-> Nobody, denials |-> {}]
  /\ plan' = NoPlan
  /\ results' = [p \in Packages |-> NoResult]
  /\ triaged' = Nobody
  /\ installed' = 0
  /\ scriptsRan' = FALSE
  /\ flags' \in Flags
  /\ UNCHANGED <<facts, trustFiles, project>>

EditManifest ==
  /\ contents < MaxContents
  /\ contents' = contents + 1
  /\ manifest' = contents + 1
  /\ UNCHANGED <<facts, flags, trustFiles, lock, pc, session, plan, results, triaged, outcomes>>

EditLock ==
  /\ contents < MaxContents
  /\ contents' = contents + 1
  /\ lock' = contents + 1
  /\ UNCHANGED <<facts, flags, trustFiles, manifest, pc, session, plan, results, triaged, outcomes>>

(* Another process, or a git pull, changes the decision on p. *)
EditTrust(p) ==
  /\ edits < MaxTrustEdits
  /\ edits' = edits + 1
  /\ approvals' \in {[approvals EXCEPT ![p] = a] : a \in Approvals}
  /\ denials' \in {denials \cup {p}, denials \ {p}}
  /\ UNCHANGED <<facts, flags, project, pc, session, plan, results, triaged, outcomes>>

Command ==
  \/ LoadApprovals \/ LoadDenials
  \/ PlanFromLockfile \/ PlanResolved \/ PlanFails
  \/ \E p \in Packages : AnalyzePackage(p)
  \/ Gate \/ \E choice \in [Packages -> Modes \cup {"deny", "skip"}] : Triage(choice)
  \/ Confirm
  \/ ApplyCheck \/ WriteManifest \/ WriteLock
  \/ Verify \/ RunPackageManager \/ VerifyAfter

Environment == EditManifest \/ EditLock \/ \E p \in Packages : EditTrust(p)

Next == Command \/ RunAgain \/ Environment

Spec == Init /\ [][Next]_vars

-----------------------------------------------------------------------------
(* Properties. *)

(* The committed or fresh approval the run has for p. *)
Vouched(p) == session.approvals[p] # "none" \/ triaged[p] # "none"

Installing == {"apply", "write_manifest", "write_lock", "verify", "run", "verify_after", "done"}

(* "Reviewed packages before executing anything": from the moment the project
   is touched, no package of the tree is a hard block, and each that needs a
   human was approved before the run or in its triage.                       *)
NothingUnresolvedInstalled ==
  pc \in Installing =>
    \A p \in Packages :
      /\ results[p] # NoResult
      /\ ~results[p].hardBlocked
      /\ NeedsHuman(results[p].decision) => Vouched(p)

(* The deterministic rules are a floor: a package whose own bytes ask for a
   human still does after the AI, the policy and the source audit had their
   say, or an analysis that was cut short or failed; the allow list may waive
   it, but never for a hard block.                                           *)
FloorHolds ==
  \A p \in Packages :
    /\ results[p] # NoResult
    /\ NeedsHuman(EvaluateRules(facts[p]))
    /\ IsHardBlock(facts[p]) \/ "allowKnownPackages" \notin Policy[p].lists
    => NeedsHuman(results[p].decision)

(* A run that reports success installed exactly the lockfile it reviewed,
   although others may edit the project at every step and every edit has a
   new content.                                                              *)
InstalledAsReviewed == pc = "done" => installed = plan.lock

(* A version denied before the run, and not approved before it, is refused
   without asking again: this run installs and approves it in no way.        *)
DenialRespected ==
  pc \in Installing => \A p \in session.denials :
    NeedsHuman(results[p].decision) =>
      session.approvals[p] # "none" /\ triaged[p] = "none"

(* One committed no-scripts approval in the tree keeps scripts off, whatever
   --allow-scripts says.                                                     *)
CommittedNoScripts ==
  scriptsRan => \A p \in Packages : session.approvals[p] # "no-scripts"

(* What humans committed before a run binds that run, whichever way it goes:
   its denials and its restrictions on scripts.                              *)
DecisionsBind == DenialRespected /\ CommittedNoScripts

(* docs/transitive-and-install.md:58: --allow-scripts "can enable them only
   when the reviewed tree contains no binding `no-scripts` approval; one such
   approval keeps scripts disabled globally" -- and an approval given in the
   triage of this very run is one.                                           *)
NoScriptsBinding ==
  scriptsRan => \A p \in Packages : "no-scripts" \notin {session.approvals[p], triaged[p]}

(* docs/decisions.md:14: "A hard block can never be overridden -- by the AI,
   the allow list, or an approval", the first of them bytes that disagree with
   the lockfile, the mirror, the registry or the ledger.                     *)
HardBlocksNeverInstalled ==
  pc = "done" => \A p \in Packages : ~IsHardBlock(facts[p])
=============================================================================
