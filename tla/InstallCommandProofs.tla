------------------------ MODULE InstallCommandProofs ------------------------
(***************************************************************************)
(* Proofs about Verdict and InstallCommand, for every tree of packages,    *)
(* every policy, every set of command lines and every number of edits.     *)
(***************************************************************************)
EXTENDS InstallCommand, TLAPS

(***************************************************************************)
(* The decision algebra.                                                   *)
(***************************************************************************)
LEMMA SeverityValues ==
  /\ Severity["allow"] = 0 /\ Severity["allow_with_warnings"] = 1
  /\ Severity["require_approval"] = 2 /\ Severity["block"] = 3
BY DEF Severity, Decisions

(* Taking the stricter of two decisions never loses a human or a block. *)
LEMMA StricterKeeps ==
  ASSUME NEW d \in Decisions, NEW e \in Decisions
  PROVE  /\ Stricter(d, e) \in Decisions
         /\ NeedsHuman(d) \/ NeedsHuman(e) => NeedsHuman(Stricter(d, e))
         /\ d = "block" \/ e = "block" => Stricter(d, e) = "block"
BY SeverityValues DEF Stricter, Decisions, NeedsHuman

LEMMA RulesDecide ==
  ASSUME NEW s \in Signals
  PROVE  /\ EvaluateRules(s) \in Decisions
         /\ s.degraded => NeedsHuman(EvaluateRules(s))
         /\ IsHardBlock(s) /\ ~s.degraded => EvaluateRules(s) = "block"
         /\ s.malicious => EvaluateRules(s) = "block"
BY DEF EvaluateRules, Decisions, NeedsHuman, IsHardBlock

(* What the AI says is at least what the rules say. *)
LEMMA RiskFloor ==
  ASSUME NEW s \in Signals, NEW ai \in AiSays
  PROVE  /\ AssessRisk(s, ai) \in Decisions
         /\ NeedsHuman(EvaluateRules(s)) => NeedsHuman(AssessRisk(s, ai))
         /\ EvaluateRules(s) = "block" => AssessRisk(s, ai) = "block"
<1>1. EvaluateRules(s) \in Decisions
  BY RulesDecide
<1>2. CASE ai = "no_ai"
  BY <1>1, <1>2 DEF AssessRisk
<1>3. CASE ai # "no_ai"
  <2>1. ai \in Decisions /\ AssessRisk(s, ai) = Stricter(ai, EvaluateRules(s))
    BY <1>3 DEF AiSays, AssessRisk, ClampDecision
  <2> QED  BY <1>1, <2>1, StricterKeeps
<1> QED  BY <1>2, <1>3

LEMMA OsvFloor ==
  ASSUME NEW s \in Signals, NEW d \in Decisions, NEW failClosed \in BOOLEAN
  PROVE  /\ ApplyOsvFailurePolicy(d, s, failClosed) \in Decisions
         /\ NeedsHuman(d) => NeedsHuman(ApplyOsvFailurePolicy(d, s, failClosed))
         /\ d = "block" => ApplyOsvFailurePolicy(d, s, failClosed) = "block"
<1>1. "require_approval" \in Decisions
  BY DEF Decisions
<1> QED  BY <1>1, StricterKeeps DEF ApplyOsvFailurePolicy

(* The bytes p cannot be waved through: they are a hard block, their analysis
   is incomplete, or p is not on the allow list.                             *)
Binding(s, p) == IsHardBlock(s) \/ s.degraded \/ "allowKnownPackages" \notin p.lists

LEMMA PolicyFloor ==
  ASSUME NEW s \in Signals, NEW d \in Decisions, NEW p \in Policies,
         IsHardBlock(s) /\ ~s.degraded => d = "block"
  PROVE  /\ ApplyPolicy(d, s, p) \in Decisions
         /\ NeedsHuman(d) /\ Binding(s, p) => NeedsHuman(ApplyPolicy(d, s, p))
<1>1. /\ "block" \in Decisions /\ "require_approval" \in Decisions /\ "allow" \in Decisions
      /\ p.asks \in Decisions
  BY DEF Decisions, Policies
<1>2. CASE s.malicious
  BY <1>2 DEF ApplyPolicy
<1>3. CASE ~s.malicious /\ "blockPackages" \in p.lists
  BY <1>1, <1>3, StricterKeeps DEF ApplyPolicy
<1>4. CASE ~s.malicious /\ "blockPackages" \notin p.lists /\ s.degraded
  BY <1>1, <1>4, StricterKeeps DEF ApplyPolicy
<1>5. CASE /\ ~s.malicious /\ "blockPackages" \notin p.lists /\ ~s.degraded
           /\ "allowKnownPackages" \in p.lists
  <2>1. Binding(s, p) => d = "block" /\ IsHardBlock(s)
    BY <1>5 DEF Binding
  <2> QED  BY <1>1, <1>5, <2>1 DEF ApplyPolicy
<1>6. CASE /\ ~s.malicious /\ "blockPackages" \notin p.lists /\ ~s.degraded
           /\ "allowKnownPackages" \notin p.lists
  BY <1>1, <1>6, StricterKeeps DEF ApplyPolicy
<1> QED  BY <1>2, <1>3, <1>4, <1>5, <1>6

(* No layer lowers a decision below the deterministic rules: whatever the AI,
   the advisories' availability, the policy and the source audit say, bytes
   that need a human still do, the allow list's exemption aside.             *)
THEOREM RulesAreAFloor ==
  ASSUME NEW s \in Signals, NEW ai \in AiSays, NEW failClosed \in BOOLEAN,
         NEW p \in Policies, NEW f \in Findings
  PROVE  /\ Analyze(s, ai, failClosed, p, f) \in Decisions
         /\ NeedsHuman(EvaluateRules(s)) /\ Binding(s, p)
            => NeedsHuman(Analyze(s, ai, failClosed, p, f))
<1> DEFINE assessed == ApplyOsvFailurePolicy(AssessRisk(s, ai), s, failClosed)
           final == ApplyPolicy(assessed, s, p)
<1>1. EvaluateRules(s) \in Decisions /\ (IsHardBlock(s) /\ ~s.degraded => EvaluateRules(s) = "block")
  BY RulesDecide
<1>2. /\ assessed \in Decisions
      /\ NeedsHuman(EvaluateRules(s)) => NeedsHuman(assessed)
      /\ EvaluateRules(s) = "block" => assessed = "block"
  BY RiskFloor, OsvFloor
<1> HIDE DEF assessed
<1>3. /\ final \in Decisions
      /\ NeedsHuman(EvaluateRules(s)) /\ Binding(s, p) => NeedsHuman(final)
  BY <1>1, <1>2, PolicyFloor
<1> HIDE DEF final
<1>4. FoldSourceAudit(final, f, s) \in Decisions
      /\ (NeedsHuman(final) => NeedsHuman(FoldSourceAudit(final, f, s)))
  <2>1. AuditDecision(f) \in Decisions
    BY DEF AuditDecision, Decisions
  <2>2. /\ Stricter(final, AuditDecision(f)) \in Decisions
        /\ NeedsHuman(final) => NeedsHuman(Stricter(final, AuditDecision(f)))
    BY <1>3, <2>1, StricterKeeps
  <2>3. /\ ClampDecision(Stricter(final, AuditDecision(f)), s) \in Decisions
        /\ NeedsHuman(final) => NeedsHuman(ClampDecision(Stricter(final, AuditDecision(f)), s))
    BY <1>1, <2>2, StricterKeeps DEF ClampDecision
  <2> QED  BY <1>3, <2>3 DEF FoldSourceAudit
<1>5. Analyze(s, ai, failClosed, p, f) = FoldSourceAudit(final, f, s)
  BY DEF Analyze, FinalizeAssessment, final, assessed
<1> QED  BY <1>3, <1>4, <1>5

-----------------------------------------------------------------------------
(***************************************************************************)
(* The inductive invariant of the command.                                 *)
(***************************************************************************)

(* The bytes of p ask for a human and the allow list cannot waive that. *)
MustAsk(p) ==
  /\ NeedsHuman(EvaluateRules(facts[p]))
  /\ IsHardBlock(facts[p]) \/ "allowKnownPackages" \notin Policy[p].lists

(* A verdict says what resolveVetResult makes of this session's decisions. *)
Vetted(p) ==
  LET r == results[p]
  IN /\ r.decision \in Decisions
     /\ r.unresolved <=> r.hardBlocked \/ (NeedsHuman(r.decision) /\ session.approvals[p] = "none")
     /\ r.denied <=> r.unresolved /\ p \in session.denials
     /\ r.scripts = "deny" <=> session.approvals[p] = "no-scripts"
     /\ MustAsk(p) => NeedsHuman(r.decision)

ResultsVetted == \A p \in Packages : results[p] # NoResult => Vetted(p)

FactsPossible == \A p \in Packages : facts[p] \in Facts[p]

Before == {"start", "denials", "plan"}
Reviewed == {"gate", "triage", "confirm"} \cup Installing

(* Loading comes before analysing, and the gate after all of it. *)
StagesInOrder ==
  /\ pc \in Before => \A p \in Packages : results[p] = NoResult
  /\ pc \in Reviewed => \A p \in Packages : results[p] # NoResult
  /\ pc \in Before \cup {"analyze", "gate", "triage"} => triaged = Nobody
  /\ pc \notin {"verify_after", "failed", "done"} => ~scriptsRan

(* p got past the gate: its verdict was fine, or the triage approved it. *)
Passed(p) ==
  /\ ~results[p].hardBlocked
  /\ results[p].unresolved => triaged[p] # "none" /\ p \notin session.denials
  /\ triaged[p] # "none" => results[p].unresolved

GatePassed == pc \in {"confirm"} \cup Installing => \A p \in Packages : Passed(p)

(* Every edit has a new content, so a lockfile that is the plan's when it is
   verified again has not been edited since it was installed.                *)
LockTraced ==
  /\ lock <= contents /\ plan.lock <= contents
  /\ pc = "verify_after" /\ lock = plan.lock => installed = plan.lock

IInv ==
  /\ TypeOK /\ FactsPossible /\ ResultsVetted /\ StagesInOrder /\ GatePassed /\ LockTraced
  /\ CommittedNoScripts /\ InstalledAsReviewed

LEMMA FactsAreSignals ==
  ASSUME InstallAssumption, FactsPossible, NEW p \in Packages
  PROVE  facts[p] \in Signals /\ ~facts[p].degraded /\ Policy[p] \in Policies
BY DEF InstallAssumption, FactsPossible

(***************************************************************************)
(* One verdict: every analysis, complete or not, yields a verdict that the *)
(* floor holds for.                                                        *)
(***************************************************************************)
LEMMA AnalysisVerdict ==
  ASSUME InstallAssumption, TypeOK, FactsPossible, NEW p \in Packages, AnalyzePackage(p)
  PROVE  \E d \in Decisions, hard \in BOOLEAN :
           AnalysisOf(p, d, hard) /\ (MustAsk(p) => NeedsHuman(d))
<1>1. facts[p] \in Signals /\ ~facts[p].degraded /\ Policy[p] \in Policies
  BY FactsAreSignals
<1>2. flags.failOnOsvError \in BOOLEAN
  BY DEF TypeOK, InstallAssumption
<1>3. ASSUME NEW s \in Signals, NEW f \in Findings, Judged(p, s, f),
             s = facts[p] \/ s.degraded
      PROVE  \E d \in Decisions, hard \in BOOLEAN :
               AnalysisOf(p, d, hard) /\ (MustAsk(p) => NeedsHuman(d))
  <2>1. PICK ai \in AiSays :
          AnalysisOf(p, Analyze(s, ai, flags.failOnOsvError, Policy[p], f), IsHardBlock(s))
    BY <1>3 DEF Judged
  <2> DEFINE d == Analyze(s, ai, flags.failOnOsvError, Policy[p], f)
  <2>2. d \in Decisions /\ (NeedsHuman(EvaluateRules(s)) /\ Binding(s, Policy[p]) => NeedsHuman(d))
    BY <1>1, <1>2, RulesAreAFloor
  <2>3. IsHardBlock(s) \in BOOLEAN
    BY DEF IsHardBlock, Signals
  <2>4. MustAsk(p) => NeedsHuman(EvaluateRules(s)) /\ Binding(s, Policy[p])
    <3>1. CASE s = facts[p]
      BY <3>1 DEF MustAsk, Binding
    <3>2. CASE s.degraded
      BY <3>2, RulesDecide DEF Binding
    <3> QED  BY <1>3, <3>1, <3>2
  <2> HIDE DEF d
  <2> QED  BY <2>1, <2>2, <2>3, <2>4 DEF d
<1>4. CASE AnalyzeFully(p)
  BY <1>1, <1>3, <1>4 DEF AnalyzeFully
<1>5. CASE ScanBudgetExceeded(p)
  <2> DEFINE s == [facts[p] EXCEPT !.degraded = TRUE]
  <2>1. s \in Signals /\ s.degraded /\ "none" \in Findings
    BY <1>1 DEF Signals, Findings
  <2>2. Judged(p, s, "none")
    BY <1>5 DEF ScanBudgetExceeded
  <2> HIDE DEF s
  <2> QED  BY <1>3, <2>1, <2>2
<1>6. CASE QuarantineLimitExceeded(p)
  <2>1. PICK declared \in {FALSE, facts[p].fetchExec} :
          Judged(p, [facts[p] EXCEPT !.degraded = TRUE, !.mutated = FALSE,
                                     !.fetchExec = declared], "none")
    BY <1>6 DEF QuarantineLimitExceeded
  <2> DEFINE s == [facts[p] EXCEPT !.degraded = TRUE, !.mutated = FALSE, !.fetchExec = declared]
  <2>2. s \in Signals /\ s.degraded /\ "none" \in Findings
    BY <1>1 DEF Signals, Findings
  <2>3. Judged(p, s, "none")
    BY <2>1
  <2> HIDE DEF s
  <2> QED  BY <1>3, <2>2, <2>3
<1>7. CASE AnalysisFails(p)
  <2>1. "require_approval" \in Decisions /\ NeedsHuman("require_approval")
    BY DEF Decisions, NeedsHuman
  <2> QED  BY <1>7, <2>1 DEF AnalysisFails
<1> QED  BY <1>4, <1>5, <1>6, <1>7 DEF AnalyzePackage

LEMMA VetResultFields ==
  ASSUME TypeOK, NEW p \in Packages, NEW d \in Decisions, NEW hard \in BOOLEAN
  PROVE  LET r == VetResult(p, d, hard)
         IN /\ r \in Results
            /\ r # NoResult
            /\ r.decision = d /\ r.hardBlocked = hard
            /\ r.unresolved <=> hard \/ (NeedsHuman(d) /\ session.approvals[p] = "none")
            /\ r.denied <=> r.unresolved /\ p \in session.denials
            /\ r.scripts = "deny" <=> session.approvals[p] = "no-scripts"
<1> DEFINE trust == ResolvePackageTrust(d, hard, session.approvals[p])
           r == VetResult(p, d, hard)
<1>1. /\ trust.approved \in BOOLEAN /\ trust.unresolved \in BOOLEAN
      /\ trust.unresolved <=> hard \/ (NeedsHuman(d) /\ session.approvals[p] = "none")
      /\ trust.scripts \in {"allow", "deny"}
      /\ trust.scripts = "deny" <=> session.approvals[p] = "no-scripts"
  BY DEF ResolvePackageTrust, NeedsHuman
<1> DEFINE denied == trust.unresolved /\ p \in session.denials
<1>2. r = [decision |-> d, hardBlocked |-> hard, approved |-> trust.approved,
           unresolved |-> trust.unresolved, scripts |-> trust.scripts, denied |-> denied]
  BY DEF VetResult
<1>3. denied \in BOOLEAN /\ (denied <=> trust.unresolved /\ p \in session.denials)
  BY Zenon
<1> HIDE DEF trust, denied, r
<1>4. /\ r \in Results /\ r.decision = d /\ r.hardBlocked = hard /\ r.unresolved = trust.unresolved
      /\ r.denied <=> trust.unresolved /\ p \in session.denials
      /\ r.scripts = trust.scripts
  BY <1>1, <1>2, <1>3 DEF Results
<1>5. r # NoResult
  BY <1>4 DEF NoResult, Decisions
<1> QED  BY <1>1, <1>4, <1>5 DEF r

-----------------------------------------------------------------------------
(***************************************************************************)
(* Types.                                                                  *)
(***************************************************************************)
LEMMA TypeStep ==
  ASSUME InstallAssumption, TypeOK, FactsPossible, [Next]_vars
  PROVE  TypeOK'
<1> USE DEF TypeOK, Stages, project, trustFiles, outcomes
<1>1. ASSUME NEW p \in Packages, AnalyzePackage(p) PROVE TypeOK'
  <2>1. PICK d \in Decisions, hard \in BOOLEAN : AnalysisOf(p, d, hard)
    BY <1>1, AnalysisVerdict
  <2>2. VetResult(p, d, hard) \in Results
    BY VetResultFields
  <2>3. results' \in [Packages -> Results \cup {NoResult}]
    BY <2>1, <2>2 DEF AnalysisOf
  <2> QED  BY <2>1, <2>3 DEF AnalysisOf
<1>2. CASE LoadApprovals
  BY <1>2 DEF LoadApprovals, Goto
<1>3. CASE LoadDenials
  BY <1>3 DEF LoadDenials, Goto
<1>4. CASE PlanFromLockfile
  BY <1>4 DEF PlanFromLockfile, Goto
<1>5. CASE PlanResolved
  BY <1>5 DEF PlanResolved, Goto
<1>6. CASE PlanFails \/ Gate \/ Confirm \/ ApplyCheck \/ Verify \/ VerifyAfter
  BY <1>6 DEF PlanFails, Gate, Confirm, ApplyCheck, Verify, VerifyAfter, Goto
<1>7. ASSUME NEW choice \in [Packages -> Modes \cup {"deny", "skip"}], Triage(choice) PROVE TypeOK'
  <2>1. Approvable \subseteq Packages
    BY DEF Approvable, Unresolved
  <2>2. approvals' \in [Packages -> Approvals] /\ triaged' \in [Packages -> Approvals]
    BY <1>7 DEF Triage, Approvals, Modes
  <2>3. denials' \in SUBSET Packages
    BY <1>7, <2>1 DEF Triage
  <2> QED  BY <1>7, <2>2, <2>3 DEF Triage
<1>8. CASE WriteManifest
  BY <1>8 DEF WriteManifest, Goto
<1>9. CASE WriteLock
  BY <1>9 DEF WriteLock, Goto
<1>10. CASE RunPackageManager
  BY <1>10 DEF RunPackageManager, IgnoreScripts
<1>11. CASE RunAgain
  BY <1>11 DEF RunAgain, Nobody, NoPlan, Approvals
<1>12. CASE EditManifest \/ EditLock
  BY <1>12 DEF EditManifest, EditLock
<1>13. ASSUME NEW p \in Packages, EditTrust(p) PROVE TypeOK'
  BY <1>13 DEF EditTrust
<1>14. CASE UNCHANGED vars
  BY <1>14 DEF vars
<1> QED
  BY <1>1, <1>2, <1>3, <1>4, <1>5, <1>6, <1>7, <1>8, <1>9, <1>10, <1>11, <1>12, <1>13, <1>14
  DEF Next, Command, Environment

-----------------------------------------------------------------------------
(***************************************************************************)
(* Verdicts: they agree with the session, and come in their stage.         *)
(***************************************************************************)
LEMMA VettedKept ==
  ASSUME ResultsVetted, UNCHANGED <<results, facts>>,
         \A p \in Packages : results[p] # NoResult => session' = session
  PROVE  ResultsVetted'
<1>1. ASSUME NEW p \in Packages, results'[p] # NoResult PROVE Vetted(p)'
  <2>1. Vetted(p) /\ session' = session
    BY <1>1 DEF ResultsVetted
  <2> QED  BY <2>1 DEF Vetted, MustAsk
<1> QED  BY <1>1 DEF ResultsVetted

LEMMA ResultsStep ==
  ASSUME InstallAssumption, IInv, [Next]_vars
  PROVE  FactsPossible' /\ ResultsVetted' /\ StagesInOrder'
<1> USE DEF IInv
<1>1. ASSUME NEW p \in Packages, AnalyzePackage(p)
      PROVE  FactsPossible' /\ ResultsVetted' /\ StagesInOrder'
  <2>1. PICK d \in Decisions, hard \in BOOLEAN :
          AnalysisOf(p, d, hard) /\ (MustAsk(p) => NeedsHuman(d))
    BY <1>1, AnalysisVerdict
  <2> DEFINE r == VetResult(p, d, hard)
  <2>2. /\ r # NoResult /\ r.decision = d /\ r.hardBlocked = hard
        /\ r.unresolved <=> hard \/ (NeedsHuman(d) /\ session.approvals[p] = "none")
        /\ r.denied <=> r.unresolved /\ p \in session.denials
        /\ r.scripts = "deny" <=> session.approvals[p] = "no-scripts"
    BY VetResultFields
  <2> HIDE DEF r
  <2>3. /\ UNCHANGED <<facts, session, triaged, scriptsRan>>
        /\ pc = "analyze" /\ pc' \in {"analyze", "gate"}
        /\ pc' = "gate" => \A q \in Packages \ {p} : results[q] # NoResult
        /\ results' = [results EXCEPT ![p] = r]
    BY <2>1 DEF AnalysisOf, outcomes, r
  <2>4. results'[p] = r /\ \A q \in Packages \ {p} : results'[q] = results[q]
    BY <2>3 DEF TypeOK
  <2>5. ResultsVetted'
    <3>1. ASSUME NEW q \in Packages, results'[q] # NoResult PROVE Vetted(q)'
      <4>1. CASE q = p
        BY <2>1, <2>2, <2>3, <2>4, <4>1 DEF Vetted, MustAsk
      <4>2. CASE q # p
        <5>1. Vetted(q) /\ results'[q] = results[q]
          BY <2>4, <3>1, <4>2 DEF ResultsVetted
        <5> QED  BY <2>3, <5>1 DEF Vetted, MustAsk
      <4> QED  BY <4>1, <4>2
    <3> QED  BY <3>1 DEF ResultsVetted
  <2>6. StagesInOrder'
    <3>1. pc' = "gate" => \A q \in Packages : results'[q] # NoResult
      BY <2>2, <2>3, <2>4
    <3>2. triaged' = Nobody /\ ~scriptsRan'
      BY <2>3 DEF StagesInOrder
    <3> QED  BY <2>3, <3>1, <3>2 DEF StagesInOrder, Before, Reviewed, Installing
  <2> QED  BY <2>3, <2>5, <2>6 DEF FactsPossible
<1>2. CASE LoadApprovals \/ LoadDenials
  <2>1. /\ UNCHANGED <<results, facts, triaged, scriptsRan>>
        /\ pc \in {"start", "denials"} /\ pc' \in {"denials", "plan"}
    BY <1>2 DEF LoadApprovals, LoadDenials, Goto, outcomes
  <2>2. \A p \in Packages : results[p] = NoResult
    BY <2>1 DEF StagesInOrder, Before
  <2>3. ResultsVetted'
    BY <2>1, <2>2, VettedKept
  <2> QED
    BY <2>1, <2>2, <2>3 DEF FactsPossible, StagesInOrder, Before, Reviewed, Installing
<1>3. CASE RunAgain
  <2>1. /\ \A p \in Packages : results'[p] = NoResult
        /\ facts' = facts /\ pc' = "start" /\ triaged' = Nobody /\ ~scriptsRan'
    BY <1>3 DEF RunAgain
  <2> QED
    BY <2>1 DEF FactsPossible, ResultsVetted, StagesInOrder, Before, Reviewed, Installing
<1>4. CASE PlanFromLockfile \/ PlanResolved \/ PlanFails
  <2>1. /\ UNCHANGED <<results, facts, session, triaged, scriptsRan>>
        /\ pc = "plan" /\ pc' \in {"analyze", "failed"}
    BY <1>4 DEF PlanFromLockfile, PlanResolved, PlanFails, Goto, outcomes
  <2>2. ResultsVetted'
    BY <2>1, VettedKept
  <2> QED
    BY <2>1, <2>2 DEF FactsPossible, StagesInOrder, Before, Reviewed, Installing
<1>5. ASSUME NEW choice \in [Packages -> Modes \cup {"deny", "skip"}], Triage(choice)
      PROVE  FactsPossible' /\ ResultsVetted' /\ StagesInOrder'
  <2>1. /\ UNCHANGED <<results, facts, session, scriptsRan>>
        /\ pc = "triage" /\ pc' \in {"confirm", "refused"}
    BY <1>5 DEF Triage, outcomes
  <2>2. ResultsVetted'
    BY <2>1, VettedKept
  <2> QED
    BY <2>1, <2>2 DEF FactsPossible, StagesInOrder, Before, Reviewed, Installing
<1>6. CASE RunPackageManager
  <2>1. /\ UNCHANGED <<results, facts, session, triaged>>
        /\ pc = "run" /\ pc' \in {"verify_after", "failed"}
    BY <1>6 DEF RunPackageManager
  <2>2. ResultsVetted'
    BY <2>1, VettedKept
  <2> QED
    BY <2>1, <2>2 DEF FactsPossible, StagesInOrder, Before, Reviewed, Installing
<1>7. CASE Gate \/ Confirm \/ ApplyCheck \/ WriteManifest \/ WriteLock \/ Verify \/ VerifyAfter
  <2>1. /\ UNCHANGED <<results, facts, session, triaged, scriptsRan>>
        /\ pc \in Reviewed
        /\ pc' \in (Reviewed \cup {"refused", "skipped", "failed"})
        /\ pc' \in {"gate", "triage"} => pc = "gate"
        /\ pc' \in {"verify_after", "failed", "done"} \/ pc \notin {"verify_after", "failed", "done"}
    BY <1>7 DEF Gate, Confirm, ApplyCheck, WriteManifest, WriteLock, Verify, VerifyAfter,
      Goto, outcomes, Reviewed, Installing
  <2>2. ResultsVetted'
    BY <2>1, VettedKept
  <2> QED
    BY <2>1, <2>2 DEF FactsPossible, StagesInOrder, Before, Reviewed, Installing
<1>8. CASE UNCHANGED <<results, facts, session, triaged, scriptsRan, pc>>
  <2>1. ResultsVetted'
    BY <1>8, VettedKept
  <2> QED
    BY <1>8, <2>1 DEF FactsPossible, StagesInOrder
<1> QED
  BY <1>1, <1>2, <1>3, <1>4, <1>5, <1>6, <1>7, <1>8
  DEF Next, Command, Environment, EditManifest, EditLock, EditTrust, outcomes, vars

-----------------------------------------------------------------------------
(***************************************************************************)
(* The gate, the triage, and what comes after them.                        *)
(***************************************************************************)
LEMMA GateStep ==
  ASSUME IInv, [Next]_vars
  PROVE  GatePassed'
<1> USE DEF IInv
<1>1. CASE Gate
  <2>1. /\ pc = "gate" /\ UNCHANGED <<results, session, triaged>>
        /\ pc' = "confirm" => ~TreeUnresolved({results[p] : p \in Packages})
        /\ pc' \in {"confirm", "triage", "refused"}
    BY <1>1 DEF Gate
  <2>2. triaged = Nobody /\ \A p \in Packages : results[p] # NoResult
    BY <2>1 DEF StagesInOrder, Reviewed
  <2>3. ASSUME pc' = "confirm", NEW p \in Packages PROVE Passed(p)'
    <3>1. ~results[p].unresolved
      BY <2>1, <2>3 DEF TreeUnresolved
    <3>2. ~results[p].hardBlocked /\ triaged[p] = "none"
      BY <2>2, <3>1 DEF ResultsVetted, Vetted, Nobody
    <3> QED  BY <2>1, <3>1, <3>2 DEF Passed
  <2> QED  BY <2>1, <2>3 DEF GatePassed, Installing
<1>2. ASSUME NEW choice \in [Packages -> Modes \cup {"deny", "skip"}], Triage(choice)
      PROVE  GatePassed'
  <2> DEFINE approved == {p \in Approvable : choice[p] \in Modes}
  <2>1. /\ pc = "triage" /\ UNCHANGED <<results, session>>
        /\ triaged' = [p \in Packages |-> IF p \in approved THEN choice[p] ELSE "none"]
        /\ pc' = "confirm" => Unresolved \ approved = {}
        /\ pc' \in {"confirm", "refused"}
    BY <1>2 DEF Triage
  <2>2. ASSUME pc' = "confirm", NEW p \in Packages PROVE Passed(p)'
    <3>1. Vetted(p)
      BY <2>1 DEF StagesInOrder, Reviewed, ResultsVetted
    <3>2. CASE p \in approved
      <4>1. results[p].unresolved /\ ~results[p].hardBlocked /\ ~results[p].denied /\ choice[p] \in Modes
        BY <3>2 DEF Approvable, Unresolved
      <4>2. triaged'[p] # "none" /\ p \notin session.denials
        BY <2>1, <3>1, <3>2, <4>1 DEF Modes, Vetted
      <4> QED  BY <2>1, <4>1, <4>2 DEF Passed
    <3>3. CASE p \notin approved
      <4>1. ~results[p].unresolved
        BY <2>1, <2>2, <3>3 DEF Unresolved
      <4>2. ~results[p].hardBlocked /\ triaged'[p] = "none"
        BY <2>1, <3>1, <3>3, <4>1 DEF Vetted
      <4> QED  BY <2>1, <4>1, <4>2 DEF Passed
    <3> QED  BY <3>2, <3>3
  <2> QED  BY <2>1, <2>2 DEF GatePassed, Installing
<1>3. CASE pc' \notin {"confirm"} \cup Installing
  BY <1>3 DEF GatePassed, Installing
<1>4. CASE /\ UNCHANGED <<results, session, triaged>>
           /\ pc \in {"confirm"} \cup Installing
  BY <1>4 DEF GatePassed, Passed
<1>5. ASSUME NEW p \in Packages, AnalyzePackage(p) PROVE pc' \notin {"confirm"} \cup Installing
  BY <1>5 DEF AnalyzePackage, AnalyzeFully, ScanBudgetExceeded, QuarantineLimitExceeded,
    AnalysisFails, Judged, AnalysisOf, Installing
<1>6. CASE LoadApprovals \/ LoadDenials \/ PlanFromLockfile \/ PlanResolved \/ PlanFails \/ RunAgain
  <2>1. pc' \in {"start", "denials", "plan", "analyze", "failed"}
    BY <1>6 DEF LoadApprovals, LoadDenials, PlanFromLockfile, PlanResolved, PlanFails, RunAgain, Goto
  <2> QED  BY <1>3, <2>1 DEF Installing
<1>7. CASE Confirm \/ ApplyCheck \/ WriteManifest \/ WriteLock \/ Verify \/ RunPackageManager \/ VerifyAfter
  <2>1. UNCHANGED <<results, session, triaged>> /\ pc \in {"confirm"} \cup Installing
    BY <1>7 DEF Confirm, ApplyCheck, WriteManifest, WriteLock, Verify, RunPackageManager,
      VerifyAfter, Goto, Installing
  <2> QED  BY <1>4, <2>1
<1>8. CASE UNCHANGED <<pc, results, session, triaged>>
  BY <1>8 DEF GatePassed, Passed, Installing
<1> QED
  BY <1>1, <1>2, <1>3, <1>5, <1>6, <1>7, <1>8
  DEF Next, Command, Environment, EditManifest, EditLock, EditTrust, vars

LEMMA LockStep ==
  ASSUME IInv, [Next]_vars
  PROVE  LockTraced' /\ InstalledAsReviewed'
<1> USE DEF IInv, TypeOK, LockTraced, InstalledAsReviewed
<1>1. ASSUME NEW p \in Packages, AnalyzePackage(p)
      PROVE  UNCHANGED <<lock, contents, plan>> /\ pc' \in {"analyze", "gate"}
  BY <1>1 DEF AnalyzePackage, AnalyzeFully, ScanBudgetExceeded, QuarantineLimitExceeded,
    AnalysisFails, Judged, AnalysisOf, project
<1>2. CASE /\ UNCHANGED <<lock, contents, plan>>
           /\ pc' \in Stages \ {"verify_after", "done"}
  BY <1>2
<1>3. CASE LoadApprovals \/ LoadDenials \/ PlanFails \/ Gate \/ Confirm \/ ApplyCheck \/ Verify
           \/ WriteManifest
  <2>1. UNCHANGED <<lock, contents, plan>> /\ pc' \in Stages \ {"verify_after", "done"}
    BY <1>3 DEF LoadApprovals, LoadDenials, PlanFails, Gate, Confirm, ApplyCheck, Verify,
      WriteManifest, Goto, project, Stages
  <2> QED  BY <1>2, <2>1
<1>4. CASE PlanFromLockfile \/ PlanResolved
  <2>1. /\ pc' = "analyze" /\ lock' = lock /\ contents' >= contents /\ contents' \in Nat
        /\ plan'.lock = lock \/ plan'.lock = contents'
    BY <1>4 DEF PlanFromLockfile, PlanResolved, Goto, project
  <2> QED  BY <2>1
<1>5. ASSUME NEW choice \in [Packages -> Modes \cup {"deny", "skip"}], Triage(choice)
      PROVE  UNCHANGED <<lock, contents, plan>> /\ pc' \in {"confirm", "refused"}
  BY <1>5 DEF Triage, project
<1>6. CASE WriteLock
  BY <1>6 DEF WriteLock, Goto
<1>7. CASE RunPackageManager
  BY <1>7 DEF RunPackageManager, project
<1>8. CASE VerifyAfter
  BY <1>8 DEF VerifyAfter, Goto, project, outcomes, MatchesPlan
<1>9. CASE RunAgain
  BY <1>9 DEF RunAgain, NoPlan, project
<1>10. CASE EditManifest \/ EditLock
  BY <1>10 DEF EditManifest, EditLock, outcomes
<1>11. ASSUME NEW p \in Packages, EditTrust(p) PROVE LockTraced' /\ InstalledAsReviewed'
  BY <1>11 DEF EditTrust, project, outcomes
<1>12. CASE UNCHANGED vars
  BY <1>12 DEF vars, project, outcomes
<1> QED
  BY <1>1, <1>2, <1>3, <1>4, <1>5, <1>6, <1>7, <1>8, <1>9, <1>10, <1>11, <1>12
  DEF Next, Command, Environment, Stages

LEMMA ScriptsStep ==
  ASSUME IInv, [Next]_vars
  PROVE  CommittedNoScripts'
<1> USE DEF IInv, CommittedNoScripts
<1>1. CASE RunPackageManager
  <2>1. pc = "run" /\ session' = session /\ scriptsRan' = ~IgnoreScripts
    BY <1>1 DEF RunPackageManager
  <2>2. ASSUME scriptsRan', NEW p \in Packages PROVE session.approvals[p] # "no-scripts"
    <3>1. Vetted(p)
      BY <2>1 DEF StagesInOrder, Reviewed, Installing, ResultsVetted
    <3>2. TreeScripts({results[q] : q \in Packages}) # "deny"
      BY <2>1, <2>2 DEF IgnoreScripts
    <3>3. results[p].scripts # "deny"
      BY <3>2 DEF TreeScripts
    <3> QED  BY <3>1, <3>3 DEF Vetted
  <2> QED  BY <2>1, <2>2
<1>2. CASE LoadApprovals \/ LoadDenials
  <2>1. pc \in {"start", "denials"} /\ scriptsRan' = scriptsRan
    BY <1>2 DEF LoadApprovals, LoadDenials, Goto, outcomes
  <2> QED  BY <2>1 DEF StagesInOrder
<1>3. CASE RunAgain
  BY <1>3 DEF RunAgain
<1>4. CASE UNCHANGED <<session, scriptsRan>>
  BY <1>4
<1>5. ASSUME NEW p \in Packages, AnalyzePackage(p) PROVE UNCHANGED <<session, scriptsRan>>
  BY <1>5 DEF AnalyzePackage, AnalyzeFully, ScanBudgetExceeded, QuarantineLimitExceeded,
    AnalysisFails, Judged, AnalysisOf, outcomes
<1> QED
  BY <1>1, <1>2, <1>3, <1>4, <1>5
  DEF Next, Command, Environment, PlanFromLockfile, PlanResolved, PlanFails, Gate, Triage, Confirm,
    ApplyCheck, WriteManifest, WriteLock, Verify, VerifyAfter, EditManifest, EditLock, EditTrust,
    outcomes, vars

-----------------------------------------------------------------------------
(***************************************************************************)
(* The invariant is inductive, and what follows from it.                   *)
(***************************************************************************)
LEMMA IInvInit == ASSUME InstallAssumption, Init PROVE IInv
<1>1. facts \in [Packages -> Signals] /\ FactsPossible
  BY DEF Init, InstallAssumption, FactsPossible
<1>2. TypeOK
  <2>1. Nobody \in [Packages -> Approvals]
    BY DEF Nobody, Approvals
  <2>2. /\ session \in [approvals: [Packages -> Approvals], denials: SUBSET Packages]
        /\ plan \in [manifest: Nat, lock: Nat, baseManifest: Nat, baseLock: Nat,
                     source: {"none", "existing", "resolved"}]
        /\ results \in [Packages -> Results \cup {NoResult}]
    BY <2>1 DEF Init, NoPlan
  <2>3. denials \in SUBSET Packages /\ pc \in Stages /\ scriptsRan \in BOOLEAN
    BY DEF Init, Stages
  <2>4. edits \in Nat /\ manifest \in Nat /\ lock \in Nat /\ contents \in Nat /\ installed \in Nat
    BY DEF Init
  <2>5. flags \in Flags /\ approvals = Nobody /\ triaged = Nobody
    BY DEF Init
  <2> QED  BY <1>1, <2>1, <2>2, <2>3, <2>4, <2>5 DEF TypeOK
<1>3. /\ ResultsVetted /\ StagesInOrder /\ GatePassed /\ LockTraced
      /\ CommittedNoScripts /\ InstalledAsReviewed
  BY DEF Init, ResultsVetted, StagesInOrder, GatePassed, LockTraced, CommittedNoScripts,
    InstalledAsReviewed, Reviewed, Installing, NoPlan
<1> QED  BY <1>1, <1>2, <1>3 DEF IInv

LEMMA IInvStep == ASSUME InstallAssumption, IInv, [Next]_vars PROVE IInv'
<1>1. TypeOK'
  BY TypeStep DEF IInv
<1> QED  BY <1>1, ResultsStep, GateStep, LockStep, ScriptsStep DEF IInv

(* The command's bookkeeping of verdicts, stages, approvals and lockfiles agrees in
   every reachable state, whatever others edit and wherever it dies.          *)
THEOREM InstallInvariance == Spec => []IInv
BY IInvInit, IInvStep, InstallAssumption, PTL DEF Spec

(* Every variable keeps its type. *)
THEOREM InstallTypeCorrect == Spec => []TypeOK
BY InstallInvariance, PTL DEF IInv

(* A package whose own bytes ask for a human keeps asking, however its analysis
   went, unless the allow list may waive it.                                  *)
THEOREM FloorAlwaysHolds == Spec => []FloorHolds
<1>1. IInv => FloorHolds
  BY DEF IInv, ResultsVetted, Vetted, MustAsk, FloorHolds
<1> QED  BY <1>1, InstallInvariance, PTL

(* From the moment the project is touched, nothing in the tree is hard-blocked or
   waits for a human.                                                         *)
THEOREM OnlyResolvedInstalled == Spec => []NothingUnresolvedInstalled
<1>1. IInv => NothingUnresolvedInstalled
  <2>1. ASSUME IInv, pc \in Installing, NEW p \in Packages
        PROVE  /\ results[p] # NoResult /\ ~results[p].hardBlocked
               /\ NeedsHuman(results[p].decision) => Vouched(p)
    <3>1. results[p] # NoResult /\ Vetted(p) /\ Passed(p)
      BY <2>1 DEF IInv, StagesInOrder, Reviewed, ResultsVetted, GatePassed
    <3> QED  BY <3>1 DEF Vetted, Passed, Vouched
  <2> QED  BY <2>1 DEF NothingUnresolvedInstalled
<1> QED  BY <1>1, InstallInvariance, PTL

(* A run that reports success installed exactly the lockfile it reviewed. *)
THEOREM ReviewedIsInstalled == Spec => []InstalledAsReviewed
BY InstallInvariance, PTL DEF IInv

(* A version denied before the run and not approved before it stops the run. *)
THEOREM DenialsRespected == Spec => []DenialRespected
<1>1. IInv => DenialRespected
  <2>1. ASSUME IInv, pc \in Installing, NEW p \in session.denials, NeedsHuman(results[p].decision)
        PROVE  session.approvals[p] # "none" /\ triaged[p] = "none"
    <3>1. p \in Packages
      BY <2>1 DEF IInv, TypeOK
    <3>2. Vetted(p) /\ Passed(p)
      BY <2>1, <3>1 DEF IInv, StagesInOrder, Reviewed, ResultsVetted, GatePassed
    <3> QED  BY <2>1, <3>2 DEF Vetted, Passed
  <2> QED  BY <2>1 DEF DenialRespected
<1> QED  BY <1>1, InstallInvariance, PTL

(* One committed no-scripts approval in the tree keeps lifecycle scripts off. *)
THEOREM CommittedModeBinds == Spec => []CommittedNoScripts
BY InstallInvariance, PTL DEF IInv

(* Denials and no-scripts approvals committed before a run bind it. *)
THEOREM CommittedDecisionsBind == Spec => []DecisionsBind
BY DenialsRespected, CommittedModeBinds, PTL DEF DecisionsBind
=============================================================================
