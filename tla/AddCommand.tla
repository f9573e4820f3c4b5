------------------------------ MODULE AddCommand ------------------------------
(***************************************************************************)
(* `targate add`: checkCommand of src/src/commands/check.ts, gateInstall   *)
(* of src/src/installer.ts, the approvals of                               *)
(* src/src/approval-orchestration.ts, and the ledger it reads and extends. *)
(*                                                                         *)
(* Several commands run at once in one project.  Each reviews one package, *)
(* with --deep its dependencies too, and lets the strictest verdict decide.*)
(* The registry may serve other bytes at any time.                         *)
(***************************************************************************)
EXTENDS Verdict, ArtifactLedger

CONSTANTS
  Adders,      \* running `targate add` commands, of the same package
  Root,        \* that package; the others of Packages are its dependencies
  Facts,       \* Facts[p]: signals the bytes of p may really have
  Policy,      \* Policy[p]: how the team policy bears on p
  Committed,   \* contents of .targate/approvals.json a project may start with
  Flags,       \* command lines
  AiAnswers,   \* what the AI may say
  MaxSwaps     \* bound on the times the registry changes what it serves

ASSUME AddAssumption ==
  /\ Root \in Packages
  /\ Facts \in [Packages -> SUBSET {s \in Signals : ~s.degraded /\ ~s.mutated}]
  /\ Policy \in [Packages -> Policies]
  /\ Committed \subseteq [Packages -> Approvals]
  /\ AiAnswers \subseteq AiSays
  /\ Flags \subseteq [deep: BOOLEAN, assumeYes: BOOLEAN, dryRun: BOOLEAN, json: BOOLEAN,
                      failOnOsvError: BOOLEAN]
  /\ MaxSwaps \in Nat

VARIABLES
  facts,      \* what the bytes of each package really are
  served,     \* digest of the bytes the registry serves
  swaps,      \* times that changed
  approvals,  \* .targate/approvals.json
  ledger,     \* .targate/artifacts.json
  pc, flags,  \* of each command
  session,    \* the approvals it loaded
  locked,     \* the digests of its install plan
  results,    \* its analyses
  picked,     \* the dependencies its user picked
  mode,       \* how its package manager ran: "none", "normal" or "no-scripts"
  answer,     \* what its user approved at the gate
  copy        \* the ledger it is about to extend

world == <<facts, served, swaps>>
files == <<approvals, ledger>>
review == <<flags, session, locked, results, picked>>
vars == <<world, files, pc, review, mode, answer, copy>>

Ended == {"blocked", "skipped", "failed", "done"}

NoResult == [decision |-> "none"]

Init ==
  /\ facts \in {f \in [Packages -> UNION {Facts[p] : p \in Packages}] :
                  \A p \in Packages : f[p] \in Facts[p]}
  /\ served \in [Packages -> Digests]
  /\ swaps = 0
  /\ approvals \in Committed
  /\ ledger = EmptyLedger
  /\ pc = [a \in Adders |-> "start"]
  /\ flags \in [Adders -> Flags]
  /\ session = [a \in Adders |-> [p \in Packages |-> "none"]]
  /\ locked = [a \in Adders |-> EmptyLedger]
  /\ results = [a \in Adders |-> [p \in Packages |-> NoResult]]
  /\ picked = [a \in Adders |-> {}]
  /\ mode = [a \in Adders |-> "none"]
  /\ answer = [a \in Adders |-> "none"]
  /\ copy = [a \in Adders |-> EmptyLedger]

Goto(a, from, to) == pc[a] = from /\ pc' = [pc EXCEPT ![a] = to]

Reviewed(a) == IF flags[a].deep THEN Packages ELSE {Root}

-----------------------------------------------------------------------------
(* prepareAnalysisSession, and with --deep the plan that will be installed. *)
PrepareSession(a) == session' = [session EXCEPT ![a] = approvals]
ResolvePlan(a) == locked' = [locked EXCEPT ![a] = IF flags[a].deep THEN served ELSE EmptyLedger]

Start(a) ==
  /\ Goto(a, "start", "root")
  /\ PrepareSession(a)
  /\ ResolvePlan(a)
  /\ UNCHANGED <<world, files, flags, results, picked, mode, answer, copy>>

(* The bytes disagree with the ledger or with the plan's lockfile. *)
Mutated(a, p) ==
  \/ ledger[p] # NoDigest /\ ledger[p] # served[p]
  \/ locked[a][p] # NoDigest /\ locked[a][p] # served[p]

(* applyRootApproval and applyTransitiveApproval: what an approval clears is
   a warning from then on.  The root's clears every decision that asks for a
   human; a dependency's, none of a hard block.                              *)
ClearedAll(a, p, d, hard) == session[a][p] # "none" /\ NeedsHuman(d)
Cleared(a, p, d, hard) ==
  /\ session[a][p] # "none"
  /\ IF p = Root THEN d = "require_approval" \/ (d = "block" /\ ~hard)
     ELSE ~hard /\ NeedsHuman(d)

AfterRoot(a) == IF flags[a].deep THEN "deep" ELSE "gate"
AllDone(a, p) == \A q \in Packages \ {p} : results[a][q] # NoResult

Analysed(a, p, d, s, digest) ==
  /\ pc[a] = IF p = Root THEN "root" ELSE "deep"
  /\ results[a][p] = NoResult
  /\ results' = [results EXCEPT ![a][p] =
       [decision |-> d,
        shown |-> IF Cleared(a, p, d, IsHardBlock(s)) THEN "allow_with_warnings" ELSE d,
        hard |-> IsHardBlock(s), mutated |-> s.mutated, digest |-> digest, known |-> ledger[p]]]
  /\ pc' = [pc EXCEPT ![a] = IF AllDone(a, p) THEN "pick" ELSE AfterRoot(a)]
  /\ UNCHANGED <<world, files, flags, session, locked, picked, mode, answer, copy>>

Judged(a, p, s, digest) ==
  \E ai \in AiAnswers :
    Analysed(a, p, Analyze(s, ai, flags[a].failOnOsvError, Policy[p], "none"), s, digest)

AnalyzeFully(a, p) == Judged(a, p, [facts[p] EXCEPT !.mutated = Mutated(a, p)], served[p])

ScanBudgetExceeded(a, p) ==
  Judged(a, p, [facts[p] EXCEPT !.mutated = Mutated(a, p), !.degraded = TRUE], served[p])

(* A tarball that breaks a limit: nothing is known of its identity. *)
QuarantineLimitExceeded(a, p) ==
  \E declared \in {FALSE, facts[p].fetchExec} :
    Judged(a, p, [facts[p] EXCEPT !.degraded = TRUE, !.fetchExec = declared], NoDigest)

(* The analysis throws: of a dependency that is a result, of the root the end. *)
AnalysisFails(a, p) ==
  \/ /\ p = Root
     /\ Goto(a, "root", "failed")
     /\ UNCHANGED <<world, files, review, mode, answer, copy>>
  \/ /\ p # Root
     /\ Analysed(a, p, "require_approval",
                 [mutated |-> FALSE, malicious |-> FALSE, fetchExec |-> FALSE], NoDigest)

AnalyzePackage(a, p) ==
  \/ AnalyzeFully(a, p)
  \/ ScanBudgetExceeded(a, p)
  \/ QuarantineLimitExceeded(a, p)
  \/ AnalysisFails(a, p)

-----------------------------------------------------------------------------
Interactive(a) == ~flags[a].json /\ ~flags[a].assumeYes /\ ~flags[a].dryRun

Pending(a) == {p \in Packages \ {Root} :
                 ~results[a][p].hard /\ NeedsHuman(results[a][p].shown)}

RecordNoScripts(S) ==
  approvals' = [p \in Packages |-> IF p \in S THEN "no-scripts" ELSE approvals[p]]

(* The picker over the dependencies; what is picked is recorded no-scripts. *)
Pick(a, S) ==
  /\ Goto(a, "pick", "gate")
  /\ S \subseteq Pending(a)
  /\ S = {} \/ Interactive(a)
  /\ picked' = [picked EXCEPT ![a] = S]
  /\ RecordNoScripts(S)
  /\ results' = [results EXCEPT ![a] =
       [p \in Packages |-> IF p \in S THEN [@[p] EXCEPT !.shown = "allow_with_warnings"] ELSE @[p]]]
  /\ UNCHANGED <<world, ledger, flags, session, locked, mode, answer, copy>>

EnforceNoScriptsOfRoot(a) == session[a][Root] = "no-scripts"
EnforceNoScripts(a) ==
  \/ \E p \in Reviewed(a) : session[a][p] = "no-scripts"
  \/ picked[a] # {}

(* aggregateWithTransitive *)
Decision(a) == TreeDecision({[decision |-> results[a][p].shown] : p \in Reviewed(a)})

HardBlock(a) == \E p \in Reviewed(a) : results[a][p].hard
NeedsApproval(a) ==
  \/ Decision(a) = "require_approval"
  \/ Decision(a) = "block" /\ ~HardBlock(a)

-----------------------------------------------------------------------------
(* gateInstall *)

Capped(a, m) == IF EnforceNoScripts(a) THEN "no-scripts" ELSE m

Proceed(a, m, approved) ==
  /\ Goto(a, "gate", "run")
  /\ mode' = [mode EXCEPT ![a] = m]
  /\ answer' = [answer EXCEPT ![a] = approved]
  /\ UNCHANGED <<world, files, review, copy>>

Refuse(a) ==
  /\ Goto(a, "gate", "blocked")
  /\ Decision(a) = "block" /\ HardBlock(a)
  /\ UNCHANGED <<world, files, review, mode, answer, copy>>

(* Nobody is asked in a dry run, with --yes or --json; or the answer is no. *)
Skip(a) ==
  /\ Goto(a, "gate", "skipped")
  /\ Decision(a) # "block" \/ ~HardBlock(a)
  /\ flags[a].dryRun \/ NeedsApproval(a) \/ ~flags[a].assumeYes
  /\ UNCHANGED <<world, files, review, mode, answer, copy>>

ApproveNoScripts(a) ==
  /\ Proceed(a, "no-scripts", "no-scripts")
  /\ NeedsApproval(a) /\ Interactive(a)

ApproveFull(a) ==
  /\ Proceed(a, Capped(a, "normal"), "normal")
  /\ NeedsApproval(a) /\ Interactive(a)

ProceedYesFirst(a) ==
  /\ Proceed(a, Capped(a, "normal"), "none")
  /\ Decision(a) # "block" \/ ~HardBlock(a)
  /\ flags[a].assumeYes /\ ~flags[a].dryRun

ProceedAllowed(a) ==
  /\ Proceed(a, Capped(a, "normal"), "none")
  /\ ~NeedsHuman(Decision(a))
  /\ ~flags[a].dryRun
  /\ flags[a].assumeYes \/ Interactive(a)

(* The plan does not apply, the package manager or the verification fails. *)
InstallFails(a) ==
  /\ Goto(a, "run", "failed")
  /\ UNCHANGED <<world, files, review, mode, answer, copy>>

(* A frozen lockfile makes the package manager refuse other bytes. *)
Install(a) ==
  /\ Goto(a, "run", "load")
  /\ flags[a].deep => served = locked[a]
  /\ UNCHANGED <<world, files, review, mode, answer, copy>>

-----------------------------------------------------------------------------
(* recordArtifactObservations, whose failure is only reported. *)

LoadLedger(a) ==
  /\ Goto(a, "load", "write")
  /\ copy' = [copy EXCEPT ![a] = ledger]
  /\ UNCHANGED <<world, files, review, mode, answer>>

Observations(a) == [p \in Reviewed(a) |-> results[a][p]]

WriteLedgerAnyway(a) ==
  /\ Goto(a, "write", "record")
  /\ ledger' = Extended(copy[a], Observations(a))
  /\ UNCHANGED <<world, approvals, review, mode, answer, copy>>

WriteLedger(a) ==
  /\ Goto(a, "write", "record")
  /\ \/ ~Conflict(copy[a], Observations(a)) /\ ledger' = Extended(copy[a], Observations(a))
     \/ ledger' = ledger
  /\ UNCHANGED <<world, approvals, review, mode, answer, copy>>

(* The human's approval of the root, whatever in the tree asked for it. *)
Record(a) ==
  /\ Goto(a, "record", "done")
  /\ approvals' = IF NeedsApproval(a) THEN [approvals EXCEPT ![Root] = answer[a]] ELSE approvals
  /\ UNCHANGED <<world, ledger, review, mode, answer, copy>>

(* The registry serves other bytes from now on. *)
Swap(p, d) ==
  /\ swaps < MaxSwaps
  /\ d # served[p]
  /\ swaps' = swaps + 1
  /\ served' = [served EXCEPT ![p] = d]
  /\ UNCHANGED <<facts, files, pc, review, mode, answer, copy>>

Command(a) ==
  \/ Start(a)
  \/ \E p \in Packages : AnalyzePackage(a, p)
  \/ \E S \in SUBSET Packages : Pick(a, S)
  \/ Refuse(a) \/ Skip(a)
  \/ ApproveNoScripts(a) \/ ApproveFull(a) \/ ProceedAllowed(a)
  \/ InstallFails(a) \/ Install(a)
  \/ LoadLedger(a) \/ WriteLedger(a) \/ Record(a)

Next ==
  \/ \E a \in Adders : Command(a)
  \/ \E p \in Packages, d \in Digests : Swap(p, d)

Spec == Init /\ [][Next]_vars

-----------------------------------------------------------------------------
(* A package that needs a human is installed only when one vouched for it: by
   an approval committed before, by picking it, or at the prompt, which --yes,
   --json and a dry run never reach.  "never auto-installed with --yes".     *)
NothingUnasked ==
  \A a \in Adders : mode[a] # "none" =>
    \/ answer[a] # "none" /\ Interactive(a)
    \/ \A p \in Reviewed(a) : NeedsHuman(results[a][p].decision) =>
         session[a][p] # "none" \/ p \in picked[a]

(* One no-scripts approval or pick anywhere in the tree, and the package
   manager runs without lifecycle scripts, also when the human then approves
   "including lifecycle scripts".                                            *)
ScriptsOffHonoured ==
  \A a \in Adders : mode[a] = "normal" =>
    picked[a] = {} /\ \A p \in Reviewed(a) : session[a][p] # "no-scripts"

(* Bytes that differ from what the ledger knew when they were analysed are
   never installed, approved or not, as long as the analysis could name them
   (historical evidence: verifyArtifactIdentity, isHardBlock).               *)
KnownDigestRespected ==
  \A a \in Adders : mode[a] # "none" =>
    \A p \in Reviewed(a) :
      results[a][p].known # NoDigest /\ results[a][p].digest # NoDigest
      => results[a][p].digest = results[a][p].known

(* An entry of the ledger changes or disappears only under a command that
   loaded the file before that entry was there: not even an install of other
   bytes replaces it.                                                        *)
LedgerKeepsEvidence ==
  [][\A p \in Packages : ledger[p] # NoDigest /\ ledger'[p] # ledger[p] =>
       \E a \in Adders : pc[a] = "write" /\ pc'[a] = "record" /\ copy[a][p] # ledger[p]]_vars

(* docs/decisions.md:14: "A hard block can never be overridden -- by the AI,
   the allow list, or an approval".                                          *)
HardBlocksNeverAdded ==
  \A a \in Adders : mode[a] # "none" => ~HardBlock(a)

(* docs/team-workflow.md:55: "targate never overwrites the old value". *)
LedgerNeverOverwritten ==
  [][\A p \in Packages : ledger[p] # NoDigest => ledger'[p] = ledger[p]]_vars
=============================================================================
