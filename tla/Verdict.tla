------------------------------- MODULE Verdict -------------------------------
(***************************************************************************)
(* How one package is judged: src/src/rules.ts, src/src/policy.ts          *)
(* (applyPolicy), src/src/pipeline.ts (finalizeAssessment,                 *)
(* applySourceAudit), src/src/ai.ts (assessRisk), src/src/trust-decision.ts*)
(* and the approvals of src/src/approval-orchestration.ts.                 *)
(*                                                                         *)
(* Pure operators over the signals of a package.  The long lists of        *)
(* heuristics are abstracted to the strongest one that fires ("concern"),  *)
(* since every rule of one group leads to the same decision.               *)
(***************************************************************************)
EXTENDS Naturals

Decisions == {"allow", "allow_with_warnings", "require_approval", "block"}

(* DECISION_SEVERITY *)
Severity == [d \in Decisions |->
  CASE d = "allow" -> 0 [] d = "allow_with_warnings" -> 1
    [] d = "require_approval" -> 2 [] d = "block" -> 3]

Stricter(d, e) == IF Severity[d] >= Severity[e] THEN d ELSE e

(* The strongest heuristic of evaluateRules that fires: one of the soft block
   reasons, of the approval reasons, a critical advisory, or a warning.      *)
Concerns == {"none", "warning", "critical", "review", "soft"}

Signals == [mutated: BOOLEAN,     \* artifact.trust = "mutated"
            malicious: BOOLEAN,   \* knownMalicious
            fetchExec: BOOLEAN,   \* fetchesAndExecutes
            degraded: BOOLEAN,    \* analysisDegraded is not empty
            osvDown: BOOLEAN,     \* osvUnavailable
            concern: Concerns]

IsHardBlock(s) == s.mutated \/ s.malicious \/ s.fetchExec

(* The first group of rules that fires decides. *)
EvaluateRules(s) ==
  IF s.mutated \/ s.malicious THEN "block"
  ELSE IF s.degraded THEN "require_approval"
  ELSE IF s.fetchExec \/ s.concern = "soft" THEN "block"
  ELSE IF s.concern \in {"review", "critical"} THEN "require_approval"
  ELSE IF s.concern = "warning" \/ s.osvDown THEN "allow_with_warnings"
  ELSE "allow"

(* The AI never goes below the rules. *)
ClampNothing(d, s) == d
ClampDecision(d, s) == Stricter(d, EvaluateRules(s))

(* Without a provider, or when it fails, the rules decide alone. *)
AiSays == Decisions \cup {"no_ai"}
AssessRisk(s, ai) == IF ai = "no_ai" THEN EvaluateRules(s) ELSE ClampDecision(ai, s)

ApplyOsvFailurePolicy(d, s, failClosed) ==
  IF failClosed /\ s.osvDown THEN Stricter(d, "require_approval") ELSE d

(* The team policy as it bears on one package: the lists it is on, and the
   strictest of the threshold rules that fire for it ("allow": none).        *)
Policies == [lists: SUBSET {"blockPackages", "allowKnownPackages"},
             asks: {"allow", "require_approval", "block"}]

ApplyPolicy(d, s, p) ==
  IF s.malicious THEN d
  ELSE IF "blockPackages" \in p.lists THEN Stricter(d, "block")
  ELSE IF s.degraded THEN Stricter(d, "require_approval")
  ELSE IF "allowKnownPackages" \in p.lists
       THEN IF d = "block" /\ IsHardBlock(s) THEN d ELSE "allow"
  ELSE Stricter(d, p.asks)

(* The worst finding of the AI source audit ("none": no finding, no audit). *)
Findings == {"none", "low", "medium", "high"}
AuditDecision(f) ==
  CASE f = "high" -> "block" [] f = "medium" -> "require_approval"
    [] OTHER -> "allow_with_warnings"

FoldSourceAudit(d, f, s) ==
  IF f = "none" THEN d ELSE ClampDecision(Stricter(d, AuditDecision(f)), s)

FinalizeAssessment(s, d, failClosed, p) ==
  ApplyPolicy(ApplyOsvFailurePolicy(d, s, failClosed), s, p)

(* analyzePackage: assess, finalize, fold the audit in. *)
Analyze(s, ai, failClosed, p, f) ==
  FoldSourceAudit(FinalizeAssessment(s, AssessRisk(s, ai), failClosed, p), f, s)

-----------------------------------------------------------------------------
(* Trust. *)

Modes == {"normal", "no-scripts"}
Approvals == Modes \cup {"none"}

NeedsHuman(d) == d \in {"require_approval", "block"}

ResolveTrusting(d, hard, approval) ==
  LET approved == approval # "none"
  IN [decision |-> d, hardBlocked |-> hard, approved |-> approved,
      unresolved |-> NeedsHuman(d) /\ ~approved,
      scripts |-> IF approval = "no-scripts" THEN "deny" ELSE "allow"]

ResolvePackageTrust(d, hard, approval) ==
  LET approved == approval # "none" /\ ~hard
  IN [decision |-> d, hardBlocked |-> hard, approved |-> approved,
      unresolved |-> hard \/ (NeedsHuman(d) /\ ~approved),
      scripts |-> IF approval = "no-scripts" THEN "deny" ELSE "allow"]

(* aggregateTreeTrust *)
TreeUnresolved(R) == \E r \in R : r.unresolved
TreeScripts(R) == IF \E r \in R : r.scripts = "deny" THEN "deny" ELSE "allow"
TreeDecision(R) ==
  IF R = {} THEN "allow"
  ELSE (CHOOSE r \in R : \A q \in R : Severity[r.decision] >= Severity[q.decision]).decision
=============================================================================
