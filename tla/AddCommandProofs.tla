--------------------------- MODULE AddCommandProofs ---------------------------
(***************************************************************************)
(* Proofs about AddCommand, for any number of commands, packages and       *)
(* digests, every policy and every answer of the AI.                       *)
(***************************************************************************)
EXTENDS AddCommand, TLAPS

Results == [decision: Decisions, shown: Decisions, hard: BOOLEAN, mutated: BOOLEAN,
            digest: Digests \cup {NoDigest}, known: Digests \cup {NoDigest}]

Stages == {"start", "root", "deep", "pick", "gate", "run", "load", "write", "record"} \cup Ended

TypeOK ==
  /\ facts \in [Packages -> {s \in Signals : ~s.degraded /\ ~s.mutated}]
  /\ served \in [Packages -> Digests]
  /\ swaps \in Nat
  /\ approvals \in [Packages -> Approvals]
  /\ ledger \in Ledgers
  /\ pc \in [Adders -> Stages]
  /\ flags \in [Adders -> Flags]
  /\ session \in [Adders -> [Packages -> Approvals]]
  /\ locked \in [Adders -> Ledgers]
  /\ results \in [Adders -> [Packages -> Results \cup {NoResult}]]
  /\ picked \in [Adders -> SUBSET Packages]
  /\ mode \in [Adders -> Approvals]
  /\ answer \in [Adders -> Approvals]
  /\ copy \in [Adders -> Ledgers]

-----------------------------------------------------------------------------
(* The inductive invariant: each command keeps its own books straight. *)

Undecided == {"start", "root", "deep", "pick", "gate"}

(* Everything is analysed before the picker or the gate; what the gate decides
   and what is picked comes no earlier.                                      *)
InOrder(a) ==
  /\ pc[a] = "deep" => flags[a].deep
  /\ pc[a] = "pick" => \A p \in Packages : results[a][p] # NoResult
  /\ pc[a] \notin {"start", "root", "deep", "blocked", "skipped", "failed"}
       => \A p \in Reviewed(a) : results[a][p] # NoResult
  /\ mode[a] # "none" => pc[a] \notin Undecided /\ \A p \in Reviewed(a) : results[a][p] # NoResult
  /\ pc[a] = "start" => \A p \in Packages : results[a][p] = NoResult
  /\ pc[a] \in {"start", "root", "deep", "pick"} => picked[a] = {}

(* A verdict is shown as it was reached, unless an approval or a pick cleared
   it; and bytes that are known to differ stay a hard block throughout.      *)
Honest(a, p) ==
  LET r == results[a][p]
  IN /\ r.shown = r.decision \/ session[a][p] # "none" \/ p \in picked[a]
     /\ r.known # NoDigest /\ r.digest # NoDigest /\ r.digest # r.known
          => r.hard /\ r.shown = "block"

Books(a) == InOrder(a) /\ \A p \in Packages : results[a][p] # NoResult => Honest(a, p)

(* What the gate let through. *)
Unasked(a) ==
  mode[a] # "none" =>
    \/ answer[a] # "none" /\ Interactive(a)
    \/ \A p \in Reviewed(a) : NeedsHuman(results[a][p].decision) =>
         session[a][p] # "none" \/ p \in picked[a]

ScriptsOff(a) ==
  mode[a] = "normal" => picked[a] = {} /\ \A p \in Reviewed(a) : session[a][p] # "no-scripts"

NothingForeign(a) ==
  mode[a] # "none" => \A p \in Reviewed(a) :
    results[a][p].known # NoDigest /\ results[a][p].digest # NoDigest
    => results[a][p].digest = results[a][p].known

Sound(a) == Books(a) /\ Unasked(a) /\ ScriptsOff(a) /\ NothingForeign(a)

IInv == TypeOK /\ \A a \in Adders : Sound(a)

-----------------------------------------------------------------------------
(***************************************************************************)
(* The decision algebra.                                                   *)
(***************************************************************************)
LEMMA SeverityValues ==
  /\ Severity["allow"] = 0 /\ Severity["allow_with_warnings"] = 1
  /\ Severity["require_approval"] = 2 /\ Severity["block"] = 3
BY DEF Severity, Decisions

LEMMA StricterDecides ==
  ASSUME NEW d \in Decisions, NEW e \in Decisions
  PROVE  Stricter(d, e) \in Decisions /\ (d = "block" \/ e = "block" => Stricter(d, e) = "block")
BY SeverityValues DEF Stricter, Decisions

(* Every analysis without a source audit yields a decision, and mutated bytes a
   block, whatever the AI, the advisories and the policy say.                *)
LEMMA AnalyzeDecides ==
  ASSUME NEW s \in Signals, NEW ai \in AiSays, NEW failClosed \in BOOLEAN, NEW p \in Policies
  PROVE  /\ Analyze(s, ai, failClosed, p, "none") \in Decisions
         /\ s.mutated => Analyze(s, ai, failClosed, p, "none") = "block"
<1> DEFINE assessed == ApplyOsvFailurePolicy(AssessRisk(s, ai), s, failClosed)
           final == ApplyPolicy(assessed, s, p)
<1>1. EvaluateRules(s) \in Decisions /\ (s.mutated => EvaluateRules(s) = "block")
  BY DEF EvaluateRules, Decisions
<1>2. AssessRisk(s, ai) \in Decisions /\ (s.mutated => AssessRisk(s, ai) = "block")
  BY <1>1, StricterDecides DEF AssessRisk, ClampDecision, AiSays
<1>3. assessed \in Decisions /\ (s.mutated => assessed = "block")
  <2>1. "require_approval" \in Decisions
    BY DEF Decisions
  <2> QED  BY <1>2, <2>1, StricterDecides DEF ApplyOsvFailurePolicy
<1> HIDE DEF assessed
<1>4. final \in Decisions /\ (s.mutated => final = "block")
  <2>1. /\ "block" \in Decisions /\ "require_approval" \in Decisions /\ "allow" \in Decisions
        /\ p.asks \in Decisions
    BY DEF Decisions, Policies
  <2>2. s.mutated => IsHardBlock(s)
    BY DEF IsHardBlock
  <2> QED  BY <1>3, <2>1, <2>2, StricterDecides DEF ApplyPolicy
<1>5. Analyze(s, ai, failClosed, p, "none") = final
  BY DEF Analyze, FinalizeAssessment, FoldSourceAudit, final, assessed
<1> QED  BY <1>4, <1>5

(* The decision of a tree is the strictest in it. *)
LEMMA TreeDecides ==
  ASSUME NEW R, \A r \in R : r.decision \in Decisions
  PROVE  /\ (\E r \in R : r.decision = "block") => TreeDecision(R) = "block"
         /\ (\E r \in R : NeedsHuman(r.decision)) => NeedsHuman(TreeDecision(R))
<1> DEFINE Strictest(r) == \A q \in R : Severity[r.decision] >= Severity[q.decision]
<1>1. ASSUME NEW r \in R, Strictest(r)
      PROVE  /\ TreeDecision(R) \in Decisions
             /\ \A q \in R : Severity[TreeDecision(R)] >= Severity[q.decision]
  <2>1. /\ (CHOOSE c \in R : Strictest(c)) \in R
        /\ Strictest(CHOOSE c \in R : Strictest(c))
    BY <1>1
  <2> QED  BY <2>1 DEF TreeDecision
<1>2. ASSUME NEW r \in R, r.decision = "block"
      PROVE  TreeDecision(R) = "block"
  <2>1. Strictest(r)
    BY <1>2, SeverityValues DEF Decisions
  <2>2. TreeDecision(R) \in Decisions /\ Severity[TreeDecision(R)] >= 3
    BY <1>1, <1>2, <2>1, SeverityValues
  <2> QED  BY <2>2, SeverityValues DEF Decisions
<1>3. ASSUME NEW r \in R, r.decision = "require_approval"
      PROVE  NeedsHuman(TreeDecision(R))
  <2>1. CASE \E q \in R : q.decision = "block"
    BY <1>2, <2>1 DEF NeedsHuman
  <2>2. CASE \A q \in R : q.decision # "block"
    <3>1. Strictest(r)
      BY <1>3, <2>2, SeverityValues DEF Decisions
    <3>2. TreeDecision(R) \in Decisions /\ Severity[TreeDecision(R)] >= 2
      BY <1>1, <1>3, <3>1, SeverityValues
    <3> QED  BY <3>2, SeverityValues DEF Decisions, NeedsHuman
  <2> QED  BY <2>1, <2>2
<1> QED  BY <1>2, <1>3 DEF NeedsHuman

-----------------------------------------------------------------------------
(***************************************************************************)
(* One verdict: every analysis that does not end the command adds a result *)
(* that is honest.                                                         *)
(***************************************************************************)
HonestResult(a, p, r) ==
  /\ r \in Results
  /\ r.shown = r.decision \/ session[a][p] # "none"
  /\ r.known # NoDigest /\ r.digest # NoDigest /\ r.digest # r.known => r.hard /\ r.shown = "block"

Adds(a, p, r) ==
  /\ pc[a] = IF p = Root THEN "root" ELSE "deep"
  /\ results[a][p] = NoResult
  /\ results' = [results EXCEPT ![a][p] = r]
  /\ pc' = [pc EXCEPT ![a] = IF AllDone(a, p) THEN "pick" ELSE AfterRoot(a)]
  /\ UNCHANGED <<world, files, flags, session, locked, picked, mode, answer, copy>>

LEMMA AnalysedAdds ==
  ASSUME TypeOK, NEW a \in Adders, NEW p \in Packages, NEW d \in Decisions, NEW s,
         s.mutated \in BOOLEAN, IsHardBlock(s) \in BOOLEAN,
         s.mutated => IsHardBlock(s) /\ d = "block",
         NEW digest \in Digests \cup {NoDigest},
         ledger[p] # NoDigest /\ digest # NoDigest /\ digest # ledger[p] => s.mutated,
         Analysed(a, p, d, s, digest)
  PROVE  \E r : HonestResult(a, p, r) /\ Adds(a, p, r)
<1> DEFINE shown == IF Cleared(a, p, d, IsHardBlock(s)) THEN "allow_with_warnings" ELSE d
           r == [decision |-> d, shown |-> shown, hard |-> IsHardBlock(s),
                 mutated |-> s.mutated, digest |-> digest, known |-> ledger[p]]
<1>1. shown \in Decisions /\ (shown = d \/ session[a][p] # "none")
  BY DEF Cleared, Decisions
<1>2. IsHardBlock(s) /\ d = "block" => shown = "block"
  BY DEF Cleared
<1>3. ledger[p] \in Digests \cup {NoDigest}
  BY DEF TypeOK, Ledgers
<1>4. Adds(a, p, r)
  BY DEF Analysed, Adds
<1> HIDE DEF shown
<1>5. r \in Results
  BY <1>1, <1>3 DEF Results
<1>6. HonestResult(a, p, r)
  BY <1>1, <1>2, <1>5 DEF HonestResult
<1> QED  BY <1>4, <1>6

LEMMA AnalysisAdds ==
  ASSUME AddAssumption, LedgerAssumption, TypeOK, NEW a \in Adders, NEW p \in Packages,
         AnalyzePackage(a, p)
  PROVE  \/ \E r : HonestResult(a, p, r) /\ Adds(a, p, r)
         \/ Goto(a, "root", "failed") /\ UNCHANGED <<world, files, review, mode, answer, copy>>
<1>1. /\ facts[p] \in Signals /\ Policy[p] \in Policies /\ flags[a].failOnOsvError \in BOOLEAN
      /\ served[p] \in Digests /\ served[p] # NoDigest /\ ledger[p] \in Digests \cup {NoDigest}
  BY DEF TypeOK, AddAssumption, LedgerAssumption, Ledgers
<1>2. ASSUME NEW s \in Signals, NEW digest \in Digests \cup {NoDigest}, Judged(a, p, s, digest),
             ledger[p] # NoDigest /\ digest # NoDigest /\ digest # ledger[p] => s.mutated
      PROVE  \E r : HonestResult(a, p, r) /\ Adds(a, p, r)
  <2>1. PICK ai \in AiAnswers :
          Analysed(a, p, Analyze(s, ai, flags[a].failOnOsvError, Policy[p], "none"), s, digest)
    BY <1>2 DEF Judged
  <2> DEFINE d == Analyze(s, ai, flags[a].failOnOsvError, Policy[p], "none")
  <2>2. ai \in AiSays
    BY DEF AddAssumption
  <2>3. d \in Decisions /\ (s.mutated => d = "block")
    BY <1>1, <2>2, AnalyzeDecides
  <2>4. s.mutated \in BOOLEAN /\ IsHardBlock(s) \in BOOLEAN /\ (s.mutated => IsHardBlock(s))
    BY DEF IsHardBlock, Signals
  <2> HIDE DEF d
  <2> QED  BY <1>2, <2>1, <2>3, <2>4, AnalysedAdds DEF d
<1>3. Mutated(a, p) \in BOOLEAN /\ (ledger[p] # NoDigest /\ served[p] # ledger[p] => Mutated(a, p))
  BY DEF Mutated
<1>4. CASE AnalyzeFully(a, p)
  <2> DEFINE s == [facts[p] EXCEPT !.mutated = Mutated(a, p)]
  <2>1. s \in Signals /\ s.mutated = Mutated(a, p)
    BY <1>1, <1>3 DEF Signals
  <2>2. Judged(a, p, s, served[p])
    BY <1>4 DEF AnalyzeFully
  <2> HIDE DEF s
  <2> QED  BY <1>1, <1>2, <1>3, <2>1, <2>2
<1>5. CASE ScanBudgetExceeded(a, p)
  <2> DEFINE s == [facts[p] EXCEPT !.mutated = Mutated(a, p), !.degraded = TRUE]
  <2>1. s \in Signals /\ s.mutated = Mutated(a, p)
    BY <1>1, <1>3 DEF Signals
  <2>2. Judged(a, p, s, served[p])
    BY <1>5 DEF ScanBudgetExceeded
  <2> HIDE DEF s
  <2> QED  BY <1>1, <1>2, <1>3, <2>1, <2>2
<1>6. CASE QuarantineLimitExceeded(a, p)
  <2>1. PICK declared \in {FALSE, facts[p].fetchExec} :
          Judged(a, p, [facts[p] EXCEPT !.degraded = TRUE, !.fetchExec = declared], NoDigest)
    BY <1>6 DEF QuarantineLimitExceeded
  <2> DEFINE s == [facts[p] EXCEPT !.degraded = TRUE, !.fetchExec = declared]
  <2>2. s \in Signals
    BY <1>1 DEF Signals
  <2>3. Judged(a, p, s, NoDigest)
    BY <2>1
  <2> HIDE DEF s
  <2> QED  BY <1>2, <2>2, <2>3
<1>7. CASE AnalysisFails(a, p) /\ p # Root
  <2> DEFINE s == [mutated |-> FALSE, malicious |-> FALSE, fetchExec |-> FALSE]
  <2>1. /\ ~s.mutated /\ s.mutated \in BOOLEAN /\ IsHardBlock(s) \in BOOLEAN
        /\ "require_approval" \in Decisions
    BY DEF IsHardBlock, Decisions
  <2>2. Analysed(a, p, "require_approval", s, NoDigest)
    BY <1>7 DEF AnalysisFails
  <2> HIDE DEF s
  <2> QED  BY <2>1, <2>2, AnalysedAdds
<1>8. CASE AnalysisFails(a, p) /\ p = Root
  BY <1>8 DEF AnalysisFails
<1> QED  BY <1>4, <1>5, <1>6, <1>7, <1>8 DEF AnalyzePackage

-----------------------------------------------------------------------------
(***************************************************************************)
(* Types.                                                                  *)
(***************************************************************************)
LEMMA PickedResults ==
  ASSUME TypeOK, NEW a \in Adders, NEW S, pc[a] = "pick", Pick(a, S),
         \A p \in Packages : results[a][p] # NoResult
  PROVE  /\ results' \in [Adders -> [Packages -> Results \cup {NoResult}]]
         /\ \A b \in Adders \ {a} : results'[b] = results[b]
         /\ \A p \in Packages \ S : results'[a][p] = results[a][p]
         /\ \A p \in S : /\ results[a][p] \in Results /\ ~results[a][p].hard
                         /\ results'[a][p] = [results[a][p] EXCEPT !.shown = "allow_with_warnings"]
<1> DEFINE mine == [p \in Packages |->
                      IF p \in S THEN [results[a][p] EXCEPT !.shown = "allow_with_warnings"]
                      ELSE results[a][p]]
<1>1. /\ results' = [results EXCEPT ![a] = mine] /\ S \subseteq Packages
      /\ \A p \in S : ~results[a][p].hard
  BY DEF Pick, Pending
<1>2. \A p \in Packages : results[a][p] \in Results
  BY DEF TypeOK
<1>3. ASSUME NEW p \in Packages
      PROVE  [results[a][p] EXCEPT !.shown = "allow_with_warnings"] \in Results
  BY <1>2 DEF Results, Decisions
<1>4. mine \in [Packages -> Results \cup {NoResult}]
  BY <1>2, <1>3
<1>5. results \in [Adders -> [Packages -> Results \cup {NoResult}]]
  BY DEF TypeOK
<1>6. /\ results' \in [Adders -> [Packages -> Results \cup {NoResult}]]
      /\ results'[a] = mine /\ \A b \in Adders \ {a} : results'[b] = results[b]
  <2> HIDE DEF mine
  <2> QED  BY <1>1, <1>4, <1>5
<1> QED  BY <1>1, <1>2, <1>6

LEMMA TypeStep ==
  ASSUME AddAssumption, LedgerAssumption, IInv, [Next]_vars
  PROVE  TypeOK'
<1>1. TypeOK /\ Root \in Packages
  BY DEF IInv, AddAssumption
<1> USE <1>1 DEF TypeOK, Stages, Ended
<1>2. ASSUME NEW a \in Adders, NEW p \in Packages, AnalyzePackage(a, p) PROVE TypeOK'
  <2>1. CASE Goto(a, "root", "failed") /\ UNCHANGED <<world, files, review, mode, answer, copy>>
    BY <2>1 DEF Goto, world, files, review
  <2>2. ASSUME NEW r, HonestResult(a, p, r), Adds(a, p, r) PROVE TypeOK'
    <3>1. results' \in [Adders -> [Packages -> Results \cup {NoResult}]]
      BY <2>2 DEF HonestResult, Adds
    <3>2. pc' \in [Adders -> Stages]
      BY <2>2 DEF Adds, AfterRoot
    <3> QED  BY <2>2, <3>1, <3>2 DEF Adds, world, files
  <2> QED  BY <1>2, <2>1, <2>2, AnalysisAdds
<1>3. ASSUME NEW a \in Adders, Start(a) PROVE TypeOK'
  <2>1. locked' \in [Adders -> Ledgers] /\ session' \in [Adders -> [Packages -> Approvals]]
    BY <1>3 DEF Start, PrepareSession, ResolvePlan, Ledgers, EmptyLedger
  <2> QED  BY <1>3, <2>1 DEF Start, Goto, world, files
<1>4. ASSUME NEW a \in Adders, NEW S \in SUBSET Packages, Pick(a, S) PROVE TypeOK'
  <2>1. pc[a] = "pick" /\ \A p \in Packages : results[a][p] # NoResult
    BY <1>4 DEF Pick, Goto, IInv, Sound, Books, InOrder
  <2>2. results' \in [Adders -> [Packages -> Results \cup {NoResult}]]
    BY <1>4, <2>1, PickedResults
  <2>3. approvals' \in [Packages -> Approvals] /\ picked' \in [Adders -> SUBSET Packages]
    BY <1>4 DEF Pick, RecordNoScripts, Approvals, Modes
  <2> QED  BY <1>4, <2>2, <2>3 DEF Pick, Goto, world
<1>5. ASSUME NEW a \in Adders, Refuse(a) \/ Skip(a) \/ InstallFails(a) \/ Install(a) PROVE TypeOK'
  BY <1>5 DEF Refuse, Skip, InstallFails, Install, Goto, world, files, review
<1>6. ASSUME NEW a \in Adders, ApproveNoScripts(a) \/ ApproveFull(a) \/ ProceedAllowed(a)
      PROVE  TypeOK'
  BY <1>6 DEF ApproveNoScripts, ApproveFull, ProceedAllowed, Proceed, Capped, Approvals, Modes,
    Goto, world, files, review
<1>7. ASSUME NEW a \in Adders, LoadLedger(a) PROVE TypeOK'
  BY <1>7 DEF LoadLedger, Goto, world, files, review
<1>8. ASSUME NEW a \in Adders, WriteLedger(a) PROVE TypeOK'
  <2>1. ASSUME NEW p \in Recordable(Observations(a))
        PROVE  Observations(a)[p].digest \in Digests \cup {NoDigest}
    <3>1. pc[a] = "write"
      BY <1>8 DEF WriteLedger, Goto
    <3>2. p \in Reviewed(a) /\ Observations(a)[p] = results[a][p] /\ Reviewed(a) \subseteq Packages
      BY DEF Recordable, Observations, Reviewed
    <3>3. results[a][p] # NoResult
      BY <3>1, <3>2 DEF IInv, Sound, Books, InOrder
    <3>4. results[a][p] \in Results
      BY <3>2, <3>3
    <3> QED  BY <3>2, <3>4 DEF Results
  <2>2. Extended(copy[a], Observations(a)) \in Ledgers
    BY <2>1 DEF Extended, Ledgers
  <2>3. ledger' \in Ledgers
    BY <1>8, <2>2 DEF WriteLedger
  <2> QED  BY <1>8, <2>3 DEF WriteLedger, Goto, world, review
<1>9. ASSUME NEW a \in Adders, Record(a) PROVE TypeOK'
  BY <1>9 DEF Record, Goto, world, review
<1>10. ASSUME NEW p \in Packages, NEW d \in Digests, Swap(p, d) PROVE TypeOK'
  BY <1>10 DEF Swap, files, review
<1>11. CASE UNCHANGED vars
  BY <1>11 DEF vars, world, files, review
<1> QED
  BY <1>2, <1>3, <1>4, <1>5, <1>6, <1>7, <1>8, <1>9, <1>10, <1>11 DEF Next, Command

-----------------------------------------------------------------------------
(***************************************************************************)
(* A command's books are touched by its own steps only.                    *)
(***************************************************************************)
Own(a) == <<pc[a], flags[a], session[a], results[a], picked[a], mode[a], answer[a]>>

LEMMA SoundKept ==
  ASSUME NEW a \in Adders, Sound(a), UNCHANGED Own(a)
  PROVE  Sound(a)'
<1>1. Reviewed(a)' = Reviewed(a) /\ (Interactive(a)' <=> Interactive(a))
  BY DEF Reviewed, Interactive, Own
<1>2. Books(a)'
  BY <1>1 DEF Sound, Books, InOrder, Honest, Own
<1>3. Unasked(a)' /\ ScriptsOff(a)' /\ NothingForeign(a)'
  BY <1>1 DEF Sound, Unasked, ScriptsOff, NothingForeign, Own
<1> QED  BY <1>2, <1>3 DEF Sound

LEMMA OthersKeep ==
  ASSUME AddAssumption, LedgerAssumption, IInv, NEW a \in Adders, NEW b \in Adders \ {a}, Command(b)
  PROVE  UNCHANGED Own(a)
<1>1. TypeOK
  BY DEF IInv
<1> USE <1>1 DEF TypeOK, Own
<1>2. ASSUME NEW p \in Packages, AnalyzePackage(b, p) PROVE UNCHANGED Own(a)
  <2>1. ASSUME NEW r, Adds(b, p, r) PROVE UNCHANGED Own(a)
    BY <2>1 DEF Adds
  <2>2. CASE Goto(b, "root", "failed") /\ UNCHANGED <<world, files, review, mode, answer, copy>>
    BY <2>2 DEF Goto, review
  <2> QED  BY <1>2, <2>1, <2>2, AnalysisAdds
<1>3. ASSUME NEW S \in SUBSET Packages, Pick(b, S) PROVE UNCHANGED Own(a)
  <2>1. pc[b] = "pick" /\ \A p \in Packages : results[b][p] # NoResult
    BY <1>3 DEF Pick, Goto, IInv, Sound, Books, InOrder
  <2>2. results'[a] = results[a]
    BY <1>3, <2>1, PickedResults
  <2> QED  BY <1>3, <2>2 DEF Pick, Goto
<1>4. CASE Start(b)
  BY <1>4 DEF Start, PrepareSession, Goto
<1>5. CASE Refuse(b) \/ Skip(b) \/ InstallFails(b) \/ Install(b) \/ LoadLedger(b)
           \/ WriteLedger(b) \/ Record(b)
  BY <1>5 DEF Refuse, Skip, InstallFails, Install, LoadLedger, WriteLedger, Record, Goto, review
<1>6. CASE ApproveNoScripts(b) \/ ApproveFull(b) \/ ProceedAllowed(b)
  BY <1>6 DEF ApproveNoScripts, ApproveFull, ProceedAllowed, Proceed, Goto, review
<1> QED  BY <1>2, <1>3, <1>4, <1>5, <1>6 DEF Command

-----------------------------------------------------------------------------
(***************************************************************************)
(* The steps before the gate: mode[a] is still "none".                     *)
(***************************************************************************)
LEMMA NothingDecided ==
  ASSUME NEW a \in Adders, Books(a)', mode'[a] = "none"
  PROVE  Sound(a)'
BY DEF Sound, Unasked, ScriptsOff, NothingForeign

LEMMA StartStep ==
  ASSUME IInv, NEW a \in Adders, Start(a)
  PROVE  Sound(a)'
<1>1. TypeOK /\ Sound(a)
  BY DEF IInv
<1>2. /\ pc[a] = "start" /\ pc'[a] = "root"
      /\ UNCHANGED <<flags, results, picked, mode>>
  BY <1>1 DEF Start, Goto, TypeOK
<1>3. /\ mode[a] = "none" /\ picked[a] = {}
      /\ \A p \in Packages : results[a][p] = NoResult
  BY <1>1, <1>2 DEF Sound, Books, InOrder, Undecided
<1>4. Books(a)'
  BY <1>2, <1>3 DEF Books, InOrder
<1> QED  BY <1>2, <1>3, <1>4, NothingDecided

LEMMA AnalysisStep ==
  ASSUME AddAssumption, LedgerAssumption, IInv, NEW a \in Adders, NEW p \in Packages,
         AnalyzePackage(a, p)
  PROVE  Sound(a)'
<1>1. TypeOK /\ Sound(a)
  BY DEF IInv
<1>2. ASSUME NEW r, HonestResult(a, p, r), Adds(a, p, r) PROVE Sound(a)'
  <2>1. /\ pc[a] \in {"root", "deep"} /\ (pc[a] = "root" <=> p = Root)
        /\ UNCHANGED <<flags, session, picked, mode>>
        /\ pc'[a] = IF AllDone(a, p) THEN "pick" ELSE AfterRoot(a)
        /\ results'[a][p] = r /\ \A q \in Packages \ {p} : results'[a][q] = results[a][q]
    BY <1>1, <1>2 DEF Adds, TypeOK
  <2>2. mode[a] = "none" /\ picked[a] = {} /\ (pc[a] = "deep" => flags[a].deep)
    BY <1>1, <2>1 DEF Sound, Books, InOrder, Undecided
  <2>3. r # NoResult
    BY <1>2 DEF HonestResult, Results, NoResult, Decisions
  <2>4. InOrder(a)'
    <3>1. CASE AllDone(a, p)
      <4>1. pc'[a] = "pick" /\ \A q \in Packages : results'[a][q] # NoResult
        BY <2>1, <2>3, <3>1 DEF AllDone
      <4>2. \A q \in Reviewed(a)' : results'[a][q] # NoResult
        BY <4>1, AddAssumption DEF Reviewed, AddAssumption
      <4> QED  BY <2>1, <2>2, <4>1, <4>2 DEF InOrder, Undecided
    <3>2. CASE ~AllDone(a, p) /\ flags[a].deep
      <4>1. pc'[a] = "deep"
        BY <2>1, <3>2 DEF AfterRoot
      <4> QED  BY <2>1, <2>2, <3>2, <4>1 DEF InOrder, Undecided
    <3>3. CASE ~AllDone(a, p) /\ ~flags[a].deep
      <4>1. pc'[a] = "gate" /\ p = Root
        BY <2>1, <2>2, <3>3 DEF AfterRoot
      <4>2. \A q \in Reviewed(a)' : results'[a][q] # NoResult
        BY <2>1, <2>3, <3>3, <4>1 DEF Reviewed
      <4> QED  BY <2>1, <2>2, <4>1, <4>2 DEF InOrder, Undecided
    <3> QED  BY <3>1, <3>2, <3>3
  <2>5. ASSUME NEW q \in Packages, results'[a][q] # NoResult PROVE Honest(a, q)'
    <3>1. CASE q = p
      BY <1>2, <2>1, <3>1 DEF HonestResult, Honest
    <3>2. CASE q # p
      BY <1>1, <2>1, <2>5, <3>2 DEF Sound, Books, Honest
    <3> QED  BY <3>1, <3>2
  <2>6. Books(a)'
    BY <2>4, <2>5 DEF Books
  <2> QED  BY <2>1, <2>2, <2>6, NothingDecided
<1>3. CASE Goto(a, "root", "failed") /\ UNCHANGED <<world, files, review, mode, answer, copy>>
  <2>1. /\ pc[a] = "root" /\ pc'[a] = "failed"
        /\ UNCHANGED <<flags, session, results, picked, mode>>
    BY <1>1, <1>3 DEF Goto, review, TypeOK
  <2>2. mode[a] = "none"
    BY <1>1, <2>1 DEF Sound, Books, InOrder, Undecided
  <2>3. Books(a)'
    BY <1>1, <2>1, <2>2 DEF Sound, Books, InOrder, Honest
  <2> QED  BY <2>1, <2>2, <2>3, NothingDecided
<1> QED  BY <1>1, <1>2, <1>3, AnalysisAdds

LEMMA PickStep ==
  ASSUME AddAssumption, IInv, NEW a \in Adders, NEW S \in SUBSET Packages, Pick(a, S)
  PROVE  Sound(a)'
<1>1. TypeOK /\ Sound(a)
  BY DEF IInv
<1>2. /\ pc[a] = "pick" /\ pc'[a] = "gate" /\ picked'[a] = S
      /\ UNCHANGED <<flags, session, mode>>
  BY <1>1 DEF Pick, Goto, TypeOK
<1>3. /\ mode[a] = "none" /\ \A p \in Packages : results[a][p] # NoResult /\ Honest(a, p)
      /\ picked[a] = {}
  BY <1>1, <1>2 DEF Sound, Books, InOrder, Undecided
<1>4. /\ \A p \in Packages \ S : results'[a][p] = results[a][p]
      /\ \A p \in S : /\ results[a][p] \in Results /\ ~results[a][p].hard
                      /\ results'[a][p] = [results[a][p] EXCEPT !.shown = "allow_with_warnings"]
  BY <1>1, <1>2, <1>3, PickedResults
<1>5. ASSUME NEW p \in Packages PROVE results'[a][p] # NoResult /\ Honest(a, p)'
  <2>1. CASE p \in S
    <3> DEFINE r == results[a][p]
    <3>1. /\ r \in Results /\ ~r.hard /\ results'[a][p] = [r EXCEPT !.shown = "allow_with_warnings"]
      BY <1>4, <2>1
    <3>2. /\ results'[a][p].decision = r.decision /\ results'[a][p].known = r.known
          /\ results'[a][p].digest = r.digest /\ results'[a][p].hard = r.hard
          /\ r.decision \in Decisions
      BY <3>1 DEF Results
    <3>3. results'[a][p] # NoResult
      BY <3>2 DEF NoResult, Decisions
    <3> QED  BY <1>2, <1>3, <2>1, <3>1, <3>2, <3>3 DEF Honest
  <2>2. CASE p \notin S
    BY <1>2, <1>3, <1>4, <2>2 DEF Honest
  <2> QED  BY <2>1, <2>2
<1>6. Reviewed(a)' \subseteq Packages
  BY DEF Reviewed, AddAssumption
<1>7. Books(a)'
  BY <1>2, <1>3, <1>5, <1>6 DEF Books, InOrder, Undecided
<1> QED  BY <1>2, <1>3, <1>7, NothingDecided

-----------------------------------------------------------------------------
(***************************************************************************)
(* The gate.                                                               *)
(***************************************************************************)

(* Whoever got past the gate was asked, or nothing needed asking; and nothing
   a known digest speaks against is in the tree.                             *)
LEMMA GateDecides ==
  ASSUME AddAssumption, TypeOK, NEW a \in Adders, Books(a), pc[a] = "gate",
         NeedsApproval(a) \/ ~NeedsHuman(Decision(a))
  PROVE  /\ \A p \in Reviewed(a) : results[a][p] # NoResult
         /\ ~NeedsHuman(Decision(a)) =>
              \A p \in Reviewed(a) : NeedsHuman(results[a][p].decision) =>
                session[a][p] # "none" \/ p \in picked[a]
         /\ \A p \in Reviewed(a) :
              results[a][p].known # NoDigest /\ results[a][p].digest # NoDigest
              => results[a][p].digest = results[a][p].known
<1> DEFINE R == {[decision |-> results[a][p].shown] : p \in Reviewed(a)}
<1>1. Reviewed(a) \subseteq Packages
  BY DEF Reviewed, AddAssumption
<1>2. \A p \in Reviewed(a) : results[a][p] # NoResult /\ results[a][p] \in Results /\ Honest(a, p)
  BY <1>1 DEF Books, InOrder, TypeOK, Ended
<1>3. \A r \in R : r.decision \in Decisions
  BY <1>2 DEF Results
<1>4. Decision(a) = TreeDecision(R)
  BY DEF Decision
<1>5. ASSUME NEW p \in Reviewed(a)
      PROVE  /\ NeedsHuman(results[a][p].shown) => NeedsHuman(Decision(a))
             /\ results[a][p].shown = "block" => Decision(a) = "block"
  <2>1. [decision |-> results[a][p].shown] \in R
    OBVIOUS
  <2> HIDE DEF R
  <2> QED  BY <1>3, <1>4, <2>1, TreeDecides
<1> HIDE DEF R
<1>6. ASSUME ~NeedsHuman(Decision(a)), NEW p \in Reviewed(a), NeedsHuman(results[a][p].decision)
      PROVE  session[a][p] # "none" \/ p \in picked[a]
  BY <1>2, <1>5, <1>6 DEF Honest
<1>7. ASSUME NEW p \in Reviewed(a),
             results[a][p].known # NoDigest, results[a][p].digest # NoDigest
      PROVE  results[a][p].digest = results[a][p].known
  <2> SUFFICES ASSUME results[a][p].digest # results[a][p].known PROVE FALSE
    OBVIOUS
  <2>1. results[a][p].hard /\ results[a][p].shown = "block"
    BY <1>2, <1>7 DEF Honest
  <2>2. HardBlock(a) /\ Decision(a) = "block"
    BY <1>5, <2>1 DEF HardBlock
  <2> QED  BY <2>2 DEF NeedsApproval, NeedsHuman
<1> QED  BY <1>2, <1>6, <1>7

LEMMA ProceedStep ==
  ASSUME AddAssumption, IInv, NEW a \in Adders,
         ApproveNoScripts(a) \/ ApproveFull(a) \/ ProceedAllowed(a)
  PROVE  Sound(a)'
<1>1. TypeOK /\ Sound(a)
  BY DEF IInv
<1>2. PICK m \in {"no-scripts", Capped(a, "normal")}, approved \in Approvals :
        /\ Proceed(a, m, approved)
        /\ \/ NeedsApproval(a) /\ Interactive(a) /\ approved # "none"
           \/ ~NeedsHuman(Decision(a))
  BY DEF ApproveNoScripts, ApproveFull, ProceedAllowed, Approvals, Modes
<1>3. /\ pc[a] = "gate" /\ pc'[a] = "run" /\ mode'[a] = m /\ answer'[a] = approved
      /\ UNCHANGED <<flags, session, results, picked>>
  BY <1>1, <1>2 DEF Proceed, Goto, review, TypeOK
<1>4. /\ Reviewed(a)' = Reviewed(a) /\ (Interactive(a)' <=> Interactive(a))
  BY <1>3 DEF Reviewed, Interactive
<1>5. Books(a)
  BY <1>1 DEF Sound
<1>6. /\ \A p \in Reviewed(a) : results[a][p] # NoResult
      /\ ~NeedsHuman(Decision(a)) =>
           \A p \in Reviewed(a) : NeedsHuman(results[a][p].decision) =>
             session[a][p] # "none" \/ p \in picked[a]
      /\ NothingForeign(a)'
  <2>1. NeedsApproval(a) \/ ~NeedsHuman(Decision(a))
    BY <1>2
  <2> QED  BY <1>1, <1>3, <1>4, <1>5, <2>1, GateDecides DEF NothingForeign
<1>7. Books(a)'
  <2>1. InOrder(a)'
    BY <1>3, <1>4, <1>6 DEF InOrder, Undecided
  <2>2. ASSUME NEW p \in Packages, results'[a][p] # NoResult PROVE Honest(a, p)'
    BY <1>3, <1>5, <2>2 DEF Books, Honest
  <2> QED  BY <2>1, <2>2 DEF Books
<1>8. Unasked(a)'
  BY <1>2, <1>3, <1>4, <1>6 DEF Unasked
<1>9. ScriptsOff(a)'
  <2>1. m = "normal" => ~EnforceNoScripts(a)
    BY DEF Capped
  <2> QED  BY <1>3, <1>4, <2>1 DEF EnforceNoScripts, ScriptsOff
<1> QED  BY <1>6, <1>7, <1>8, <1>9 DEF Sound

(* Every other step of a command only moves it on. *)
LEMMA OnwardStep ==
  ASSUME IInv, NEW a \in Adders,
         \/ Refuse(a) \/ Skip(a) \/ InstallFails(a) \/ Install(a)
         \/ LoadLedger(a) \/ WriteLedger(a) \/ Record(a)
  PROVE  Sound(a)'
<1>1. TypeOK /\ Sound(a)
  BY DEF IInv
<1>2. /\ \/ pc[a] = "gate" /\ pc'[a] \in {"blocked", "skipped"}
         \/ /\ pc[a] \in {"run", "load", "write", "record"}
            /\ pc'[a] \in {"failed", "load", "write", "record", "done"}
      /\ UNCHANGED <<flags, session, results, picked, mode, answer>>
  BY <1>1 DEF Refuse, Skip, InstallFails, Install, LoadLedger, WriteLedger, Record, Goto, review,
    TypeOK
<1>3. Reviewed(a)' = Reviewed(a) /\ (Interactive(a)' <=> Interactive(a))
  BY <1>2 DEF Reviewed, Interactive
<1>4. InOrder(a)'
  BY <1>1, <1>2, <1>3 DEF Sound, Books, InOrder, Undecided
<1>5. ASSUME NEW p \in Packages, results'[a][p] # NoResult PROVE Honest(a, p)'
  BY <1>1, <1>2, <1>5 DEF Sound, Books, Honest
<1>6. Unasked(a)' /\ ScriptsOff(a)' /\ NothingForeign(a)'
  BY <1>1, <1>2, <1>3 DEF Sound, Unasked, ScriptsOff, NothingForeign
<1> QED  BY <1>4, <1>5, <1>6 DEF Sound, Books

-----------------------------------------------------------------------------
(***************************************************************************)
(* The invariant is inductive, and what follows from it.                   *)
(***************************************************************************)
LEMMA IInvInit == ASSUME AddAssumption, Init PROVE IInv
<1>1. facts \in [Packages -> {s \in Signals : ~s.degraded /\ ~s.mutated}]
  BY DEF Init, AddAssumption
<1>2. /\ EmptyLedger \in Ledgers
      /\ [p \in Packages |-> "none"] \in [Packages -> Approvals]
      /\ \A a \in Adders : mode[a] = "none" /\ answer[a] = "none"
  BY DEF Init, EmptyLedger, Ledgers, Approvals
<1>3. TypeOK
  BY <1>1, <1>2 DEF Init, TypeOK, AddAssumption, Stages, Approvals
<1>4. ASSUME NEW a \in Adders PROVE Sound(a)
  <2>1. /\ pc[a] = "start" /\ mode[a] = "none" /\ picked[a] = {}
        /\ \A p \in Packages : results[a][p] = NoResult
    BY DEF Init
  <2> QED  BY <2>1 DEF Sound, Books, InOrder, Unasked, ScriptsOff, NothingForeign
<1> QED  BY <1>3, <1>4 DEF IInv

LEMMA CommandStep ==
  ASSUME AddAssumption, LedgerAssumption, IInv, NEW a \in Adders, Command(a)
  PROVE  Sound(a)'
BY StartStep, AnalysisStep, PickStep, ProceedStep, OnwardStep DEF Command

LEMMA IInvStep == ASSUME AddAssumption, LedgerAssumption, IInv, [Next]_vars PROVE IInv'
<1>1. TypeOK'
  BY TypeStep
<1>2. ASSUME NEW a \in Adders PROVE Sound(a)'
  <2>1. CASE Command(a)
    BY <2>1, CommandStep
  <2>2. CASE UNCHANGED Own(a)
    BY <2>2, SoundKept DEF IInv
  <2>3. ASSUME NEW b \in Adders, Command(b), b # a PROVE UNCHANGED Own(a)
    BY <2>3, OthersKeep
  <2>4. ASSUME NEW p \in Packages, NEW d \in Digests, Swap(p, d) PROVE UNCHANGED Own(a)
    BY <2>4 DEF Swap, review, Own
  <2>5. CASE UNCHANGED vars
    BY <2>2, <2>5 DEF vars, review, Own
  <2> QED  BY <2>1, <2>2, <2>3, <2>4, <2>5 DEF Next
<1> QED  BY <1>1, <1>2 DEF IInv

(* Every running command's stages, verdicts, picks and decisions agree with each
   other, whatever the registry serves and the other commands write.         *)
THEOREM AddInvariance == Spec => []IInv
BY IInvInit, IInvStep, AddAssumption, LedgerAssumption, PTL DEF Spec

(* Every variable keeps its type. *)
THEOREM AddTypeCorrect == Spec => []TypeOK
BY AddInvariance, PTL DEF IInv

(* A package that needs a human is installed only when one vouched for it. *)
THEOREM NeverInstalledUnasked == Spec => []NothingUnasked
<1>1. IInv => NothingUnasked
  BY DEF IInv, Sound, Unasked, NothingUnasked
<1> QED  BY <1>1, AddInvariance, PTL

(* One no-scripts approval or pick in the tree keeps lifecycle scripts off. *)
THEOREM NoScriptsBinds == Spec => []ScriptsOffHonoured
<1>1. IInv => ScriptsOffHonoured
  BY DEF IInv, Sound, ScriptsOff, ScriptsOffHonoured
<1> QED  BY <1>1, AddInvariance, PTL

(* Bytes known to differ from the recorded ones are never installed, approved
   or not.                                                                   *)
THEOREM KnownDigestBinds == Spec => []KnownDigestRespected
<1>1. IInv => KnownDigestRespected
  BY DEF IInv, Sound, NothingForeign, KnownDigestRespected
<1> QED  BY <1>1, AddInvariance, PTL

(* Recording an install never replaces a digest that was there when the ledger
   was loaded: an entry is lost to an overlapping write only.                *)
THEOREM EvidenceKept == Spec => LedgerKeepsEvidence
<1> DEFINE Keeps ==
      \A p \in Packages : ledger[p] # NoDigest /\ ledger'[p] # ledger[p] =>
        \E a \in Adders : pc[a] = "write" /\ pc'[a] = "record" /\ copy[a][p] # ledger[p]
<1>1. ASSUME TypeOK, [Next]_vars PROVE [Keeps]_vars
  <2>1. ASSUME NEW a \in Adders, WriteLedger(a) PROVE Keeps
    <3>1. pc[a] = "write" /\ pc'[a] = "record"
      BY <1>1, <2>1 DEF WriteLedger, Goto, TypeOK
    <3>2. ASSUME NEW p \in Packages, ledger[p] # NoDigest, ledger'[p] # ledger[p]
          PROVE  copy[a][p] # ledger[p]
      <4>1. /\ ~Conflict(copy[a], Observations(a))
            /\ ledger' = Extended(copy[a], Observations(a))
        BY <2>1, <3>2 DEF WriteLedger
      <4>2. CASE p \in Recordable(Observations(a))
        BY <3>2, <4>1, <4>2 DEF Conflict, Extended
      <4>3. CASE p \notin Recordable(Observations(a))
        BY <3>2, <4>1, <4>3 DEF Extended
      <4> QED  BY <4>2, <4>3
    <3> QED  BY <3>1, <3>2
  <2>2. ASSUME NEW a \in Adders, NEW p \in Packages, AnalyzePackage(a, p) PROVE ledger' = ledger
    BY <2>2 DEF AnalyzePackage, AnalyzeFully, ScanBudgetExceeded, QuarantineLimitExceeded,
      AnalysisFails, Judged, Analysed, files
  <2>3. CASE ledger' = ledger
    BY <2>3
  <2> QED
    BY <1>1, <2>1, <2>2, <2>3 DEF Next, Command, Start, Pick, Refuse, Skip, ApproveNoScripts,
      ApproveFull, ProceedAllowed, Proceed, InstallFails, Install, LoadLedger, Record, Swap,
      files, vars
<1> QED  BY <1>1, AddTypeCorrect, PTL DEF Spec, LedgerKeepsEvidence
=============================================================================
