-------------------------- MODULE TreeAnalysisProofs --------------------------
(***************************************************************************)
(* Proofs about TreeAnalysis, for every tree, every database of advisories *)
(* and every answer of the AI, whatever fails.                             *)
(***************************************************************************)
EXTENDS TreeAnalysis, SequenceTheorems, WellFoundedInduction, TLAPS

(***************************************************************************)
(* Filtering a sequence.  The filter is defined by recursion over its      *)
(* length; what it holds comes from a least counterexample.                *)
(***************************************************************************)

(* A set of numbers that is not empty has a least one. *)
LEMMA LeastOf ==
  ASSUME NEW T, T \subseteq Nat, T # {}
  PROVE  \E i \in T : \A j \in T : ~(j < i)
<1>1. PICK i \in T : \A j \in T : ~(<<j, i>> \in OpToRel(<, Nat))
  BY NatLessThanWellFounded, WFMin
<1> QED  BY <1>1 DEF OpToRel

(* The recursion of Among, up to n. *)
Keeps(s, S, n, h) ==
  h = [i \in 0..n |-> IF i = 0 THEN <<>>
                      ELSE IF s[i] \in S THEN Append(h[i - 1], s[i]) ELSE h[i - 1]]

LEMMA KeepsExists ==
  ASSUME NEW s, NEW S, NEW m \in Nat
  PROVE  \E h : Keeps(s, S, m, h)
<1> DEFINE B == {n \in Nat : ~\E h : Keeps(s, S, n, h)}
<1>1. SUFFICES ASSUME B # {} PROVE FALSE
  OBVIOUS
<1>2. PICK n \in B : \A j \in B : ~(j < n)
  <2>1. B \subseteq Nat
    OBVIOUS
  <2> HIDE DEF B
  <2> QED  BY <1>1, <2>1, LeastOf
<1>3. n # 0
  <2>1. SUFFICES ASSUME n = 0 PROVE FALSE
    OBVIOUS
  <2> DEFINE h == [i \in 0..0 |-> <<>>]
  <2>2. Keeps(s, S, 0, h)
    BY DEF Keeps
  <2> QED  BY <1>2, <2>1, <2>2
<1>4. PICK g : Keeps(s, S, n - 1, g)
  BY <1>2, <1>3
<1> DEFINE h == [i \in 0..n |-> IF i < n THEN g[i]
                                ELSE IF s[i] \in S THEN Append(g[i - 1], s[i]) ELSE g[i - 1]]
<1>5. Keeps(s, S, n, h)
  <2>1. ASSUME NEW i \in 0..n
        PROVE  h[i] = IF i = 0 THEN <<>>
                      ELSE IF s[i] \in S THEN Append(h[i - 1], s[i]) ELSE h[i - 1]
    <3>1. CASE i = n
      BY <1>2, <1>3, <3>1
    <3>2. CASE i < n
      <4>1. i \in 0..(n - 1) /\ (i # 0 => i - 1 \in 0..n /\ i - 1 < n)
        BY <1>2, <3>2
      <4>2. g[i] = IF i = 0 THEN <<>>
                   ELSE IF s[i] \in S THEN Append(g[i - 1], s[i]) ELSE g[i - 1]
        BY <1>4, <4>1 DEF Keeps
      <4> QED  BY <3>2, <4>1, <4>2
    <3> QED  BY <1>2, <3>1, <3>2
  <2>2. h = [i \in 0..n |-> h[i]]
    OBVIOUS
  <2> HIDE DEF h
  <2> QED  BY <2>1, <2>2 DEF Keeps
<1> QED  BY <1>2, <1>5

LEMMA AmongIsKept ==
  ASSUME NEW s, NEW S
  PROVE  Among(s, S) = (CHOOSE h : Keeps(s, S, Len(s), h))[Len(s)]
BY Zenon DEF Among, Keeps

(* t is what the filter makes of the first n elements of s. *)
Filters(s, S, X, n, t) ==
  /\ t \in Seq(S \cap X) /\ Len(t) <= n
  /\ \A i \in 1..Len(t) : \E j \in 1..n : t[i] = s[j]
  /\ \A j \in 1..n : s[j] \in S => \E i \in 1..Len(t) : t[i] = s[j]
  /\ \A i, j \in 1..Len(t) : t[i] = t[j] => i = j

LEMMA FiltersNothing ==
  ASSUME NEW s, NEW S, NEW X
  PROVE  Filters(s, S, X, 0, <<>>)
<1>1. <<>> \in Seq(S \cap X) /\ Len(<<>>) = 0
  BY EmptySeq
<1> QED  BY <1>1 DEF Filters

LEMMA FiltersOne ==
  ASSUME NEW X, NEW s \in Seq(X), IsInjective(s), NEW S, NEW n \in 1..Len(s), NEW t,
         Filters(s, S, X, n - 1, t)
  PROVE  Filters(s, S, X, n, IF s[n] \in S THEN Append(t, s[n]) ELSE t)
<1>1. Len(s) \in Nat /\ DOMAIN s = 1..Len(s) /\ s[n] \in X
  OBVIOUS
<1>2. t \in Seq(S \cap X) /\ Len(t) \in Nat /\ Len(t) <= n - 1
  BY DEF Filters
<1>3. CASE s[n] \notin S
  BY <1>1, <1>2, <1>3 DEF Filters
<1>4. CASE s[n] \in S
  <2> DEFINE u == Append(t, s[n])
  <2>1. /\ u \in Seq(S \cap X) /\ Len(u) = Len(t) + 1 /\ u[Len(t) + 1] = s[n]
        /\ \A i \in 1..Len(t) : u[i] = t[i]
    BY <1>1, <1>2, <1>4, AppendProperties
  <2>2. \A i \in 1..Len(t) : t[i] # s[n]
    <3>1. \A j \in 1..(n - 1) : s[j] # s[n]
      BY <1>1 DEF IsInjective
    <3> QED  BY <3>1 DEF Filters
  <2> HIDE DEF u
  <2>3. \A i \in 1..Len(u) : i = Len(t) + 1 \/ i \in 1..Len(t)
    BY <1>2, <2>1
  <2>4. \A i \in 1..Len(u) : \E j \in 1..n : u[i] = s[j]
    BY <1>1, <1>2, <2>1, <2>3 DEF Filters
  <2>5. \A j \in 1..n : s[j] \in S => \E i \in 1..Len(u) : u[i] = s[j]
    <3>1. Len(t) + 1 \in 1..Len(u) /\ \A i \in 1..Len(t) : i \in 1..Len(u)
      BY <1>2, <2>1
    <3>2. \A j \in 1..n : j = n \/ j \in 1..(n - 1)
      BY <1>1
    <3> QED  BY <2>1, <3>1, <3>2 DEF Filters
  <2>6. \A i, j \in 1..Len(u) : u[i] = u[j] => i = j
    BY <2>1, <2>2, <2>3 DEF Filters
  <2>7. Filters(s, S, X, n, u)
    BY <1>1, <1>2, <2>1, <2>4, <2>5, <2>6 DEF Filters
  <2> QED  BY <1>4, <2>7 DEF u
<1> QED  BY <1>3, <1>4

(* The filter keeps what it should, and once what s has once. *)
LEMMA AmongFilters ==
  ASSUME NEW X, NEW s \in Seq(X), IsInjective(s), NEW S
  PROVE  Filters(s, S, X, Len(s), Among(s, S))
<1> DEFINE h == CHOOSE k : Keeps(s, S, Len(s), k)
           B == {n \in 0..Len(s) : ~Filters(s, S, X, n, h[n])}
<1>1. Len(s) \in Nat
  OBVIOUS
<1>2. Keeps(s, S, Len(s), h)
  BY <1>1, KeepsExists
<1> HIDE DEF h
<1>3. B = {}
  <2>1. SUFFICES ASSUME B # {} PROVE FALSE
    OBVIOUS
  <2>2. PICK n \in B : \A j \in B : ~(j < n)
    <3>1. B \subseteq Nat
      OBVIOUS
    <3> HIDE DEF B
    <3> QED  BY <2>1, <3>1, LeastOf
  <2>3. n \in 0..Len(s) /\ ~Filters(s, S, X, n, h[n])
    BY <2>2
  <2>4. h[n] = IF n = 0 THEN <<>>
               ELSE IF s[n] \in S THEN Append(h[n - 1], s[n]) ELSE h[n - 1]
    BY <1>2, <2>3 DEF Keeps
  <2>5. n # 0
    <3>1. SUFFICES ASSUME n = 0 PROVE FALSE
      OBVIOUS
    <3>2. h[0] = <<>>
      BY <2>4, <3>1
    <3> QED  BY <2>3, <3>1, <3>2, FiltersNothing
  <2>6. n \in 1..Len(s) /\ n - 1 \in 0..Len(s) /\ n - 1 < n
    BY <1>1, <2>3, <2>5
  <2>7. Filters(s, S, X, n - 1, h[n - 1])
    BY <2>2, <2>6
  <2>8. Filters(s, S, X, n, IF s[n] \in S THEN Append(h[n - 1], s[n]) ELSE h[n - 1])
    BY <2>6, <2>7, FiltersOne
  <2> QED  BY <2>3, <2>4, <2>5, <2>8
<1>4. Filters(s, S, X, Len(s), h[Len(s)])
  BY <1>1, <1>3
<1>5. Among(s, S) = h[Len(s)]
  BY AmongIsKept DEF h
<1> QED  BY <1>4, <1>5

-----------------------------------------------------------------------------
(***************************************************************************)
(* The inductive invariant of a review.                                    *)
(***************************************************************************)

Keys == [package: Packages, signals: Signals] \cup UNION {DOMAIN f : f \in Files}
Contents == UNION {[K -> [answer: AiAnswers, fresh: BOOLEAN]] : K \in SUBSET Keys}
Answers == UNION {[K -> AiAnswers] : K \in SUBSET Keys}
Jobs == [answers: Answers, for: Places \cup {0}, copy: {<<>>} \cup {<<f>> : f \in Contents}]
Building == {NotBuilt, [st |-> "failed"]} \cup [st: {"ok"}, signals: Signals]
Scanning == {"osv", "detail", "scan"}
Assessing == {"assess", "save", "finalize", "done"}

TypeOK ==
  /\ options \in Options
  /\ published \subseteq Ids
  /\ pc \in Scanning \cup {"lookup"} \cup Assessing
  /\ built \in [Packages -> Building]
  /\ detail \in [Ids -> {"pending", "MAL", "malware", "advisory", "error"}]
  /\ assessed \in [Places -> Decisions \cup {None}]
  /\ told \in Answers
  /\ cache \in Contents
  /\ queue \in Seq(Jobs)
  /\ others \in Nat
  /\ said \subseteq Keys \X AiAnswers

(* Nothing is in the file, or on its way there, that the AI did not say. *)
Honest(answers) == \A key \in DOMAIN answers : <<key, answers[key]>> \in said
HonestFile(f) == \A key \in DOMAIN f : <<key, f[key].answer>> \in said

FileHonest ==
  /\ HonestFile(cache)
  /\ Honest(told)
  /\ \A k \in DOMAIN queue :
       /\ Honest(queue[k].answers)
       /\ queue[k].copy # <<>> => HonestFile(queue[k].copy[1])

(* Only the first write has read the file, and what it read is still there
   unless another process was about; so its own answers are in both.         *)
FileKept ==
  /\ \A k \in DOMAIN queue : queue[k].copy # <<>> => k = 1
  /\ others = 0 =>
       /\ \A key \in saved : key \in DOMAIN cache /\ cache[key].fresh
       /\ \A k \in DOMAIN queue : queue[k].copy # <<>> => queue[k].copy[1] = cache

(* What OSV knows of a package ends in its signals, or their absence does. *)
Malware(p) == \E id \in Now(p) : Kind[id] # "advisory"

AdvisoriesKept ==
  /\ pc \in {"osv", "detail"} => osv = "batch" /\ \A p \in Packages : built[p] = NotBuilt
  /\ pc = "osv" => \A id \in Ids : detail[id] = "pending"
  /\ pc \in {"detail", "scan"} /\ osv = "batch" =>
       /\ \A p \in Packages \ cut : listed[p] = Now(p)
       /\ \A id \in NeedDetail : detail[id] \in {Kind[id], "error"} \/ (pc = "detail" /\ detail[id] = "pending")
  /\ pc \notin Scanning => \A p \in Packages : built[p] # NotBuilt
  /\ \A p \in Packages : built[p].st = "ok" /\ p \notin cut /\ Malware(p) =>
       built[p].signals.malicious \/ built[p].signals.osvDown

(* Every assessment is that of the package it stands beside. *)
Judges(i, d) ==
  \E ai \in {"no_ai"} \cup {x \in AiAnswers : <<KeyAt(i), x>> \in said} : d = AssessRisk(SignalsAt(i), ai)

Aligned ==
  pc \in Assessing =>
    /\ \A b \in batches : b \subseteq DOMAIN Ok
    /\ \A i \in DOMAIN Ok : assessed[i] # None => Judges(i, assessed[i])

Delivered ==
  /\ pc # "done" => \A p \in Packages : results[p] = NoResult
  /\ OwnVerdict

Inv == TypeOK /\ FileHonest /\ FileKept /\ AdvisoriesKept /\ Aligned /\ Delivered

(* The filtered packages stand for those that were built, each once. *)
LEMMA OkFacts ==
  /\ Ok \in Seq(Packages) /\ DOMAIN Ok \subseteq Places
  /\ \A i \in DOMAIN Ok : Ok[i] \in Packages /\ built[Ok[i]].st = "ok"
  /\ \A p \in Packages : built[p].st = "ok" => \E i \in DOMAIN Ok : Ok[i] = p
  /\ \A i, j \in DOMAIN Ok : Ok[i] = Ok[j] => i = j
<1>1. Order \in Seq(Packages) /\ IsInjective(Order)
  BY TreeAssumption DEF TreeAssumption
<1>2. Filters(Order, Built, Packages, Len(Order), Ok)
  BY <1>1, AmongFilters DEF Ok
<1>3. /\ Ok \in Seq(Built \cap Packages) /\ Len(Ok) <= Len(Order)
      /\ \A j \in 1..Len(Order) : Order[j] \in Built => \E i \in 1..Len(Ok) : Ok[i] = Order[j]
      /\ \A i, j \in 1..Len(Ok) : Ok[i] = Ok[j] => i = j
  BY <1>2 DEF Filters
<1>4. /\ Len(Ok) \in Nat /\ Len(Order) \in Nat
      /\ DOMAIN Ok = 1..Len(Ok) /\ DOMAIN Order = 1..Len(Order)
      /\ Ok \in Seq(Packages) /\ \A i \in 1..Len(Ok) : Ok[i] \in Built
  BY <1>1, <1>3
<1> HIDE DEF Ok
<1>5. \A p \in Packages : \E j \in 1..Len(Order) : p = Order[j]
  BY <1>4, Zenon DEF Packages
<1>6. DOMAIN Ok \subseteq Places
  BY <1>3, <1>4 DEF Places
<1>7. ASSUME NEW p \in Packages, built[p].st = "ok" PROVE \E i \in DOMAIN Ok : Ok[i] = p
  <2>1. PICK j \in 1..Len(Order) : p = Order[j]
    BY <1>5
  <2> QED  BY <1>3, <1>4, <1>7, <2>1 DEF Built
<1>8. \A i \in DOMAIN Ok : Ok[i] \in Packages /\ built[Ok[i]].st = "ok"
  BY <1>4 DEF Built
<1>9. \A i, j \in DOMAIN Ok : Ok[i] = Ok[j] => i = j
  BY <1>3, <1>4
<1> QED  BY <1>4, <1>6, <1>7, <1>8, <1>9

LEMMA KeyFacts ==
  ASSUME TypeOK
  PROVE  /\ \A i \in DOMAIN Ok : SignalsAt(i) \in Signals /\ KeyAt(i) \in Keys
         /\ \A i, j \in DOMAIN Ok : KeyAt(i) = KeyAt(j) => i = j
         /\ \A p \in Packages : built[p].st = "ok" =>
              /\ built[p].signals \in Signals /\ CacheKey(p, built[p].signals) \in Keys
              /\ PlaceOf(p) \in DOMAIN Ok /\ Ok[PlaceOf(p)] = p
              /\ SignalsAt(PlaceOf(p)) = built[p].signals
              /\ KeyAt(PlaceOf(p)) = CacheKey(p, built[p].signals)
<1>1. \A p \in Packages : built[p].st = "ok" =>
        built[p].signals \in Signals /\ CacheKey(p, built[p].signals) \in Keys
  BY DEF TypeOK, Building, NotBuilt, CacheKey, Keys
<1>2. \A i \in DOMAIN Ok : SignalsAt(i) \in Signals /\ KeyAt(i) \in Keys
  BY <1>1, OkFacts DEF SignalsAt, KeyAt
<1>3. \A i, j \in DOMAIN Ok : KeyAt(i) = KeyAt(j) => i = j
  BY OkFacts DEF KeyAt, CacheKey
<1>4. ASSUME NEW p \in Packages, built[p].st = "ok"
      PROVE  PlaceOf(p) \in DOMAIN Ok /\ Ok[PlaceOf(p)] = p
  BY <1>4, OkFacts DEF PlaceOf
<1> QED  BY <1>1, <1>2, <1>3, <1>4 DEF SignalsAt, KeyAt

LEMMA SameOk ==
  ASSUME UNCHANGED built
  PROVE  /\ Ok' = Ok
         /\ \A i : KeyAt(i)' = KeyAt(i) /\ SignalsAt(i)' = SignalsAt(i)
<1>1. Ok' = Ok
  BY DEF Ok, Built
<1> QED  BY <1>1 DEF KeyAt, SignalsAt

-----------------------------------------------------------------------------
(* Decisions are ordered, and every way to change one keeps it or makes it
   stricter.                                                                 *)
LEMMA StricterFacts ==
  ASSUME NEW d \in Decisions, NEW e \in Decisions
  PROVE  /\ Stricter(d, e) \in Decisions
         /\ Severity[Stricter(d, e)] >= Severity[d]
         /\ Severity[Stricter(d, e)] >= Severity[e]
BY DEF Stricter, Severity, Decisions

LEMMA SeverityFacts ==
  /\ \A d \in Decisions : NeedsHuman(d) <=> Severity[d] >= 2
  /\ \A d \in Decisions : Severity[d] \in Nat /\ (Severity[d] >= 3 => d = "block")
  /\ Severity["block"] = 3 /\ Severity["require_approval"] = 2
BY DEF Severity, Decisions, NeedsHuman

LEMMA RulesDecide ==
  ASSUME NEW s \in Signals
  PROVE  EvaluateRules(s) \in Decisions /\ (s.malicious => EvaluateRules(s) = "block")
BY DEF EvaluateRules, Decisions

LEMMA RiskDecides ==
  ASSUME NEW s \in Signals, NEW ai \in {"no_ai"} \cup AiAnswers
  PROVE  /\ AssessRisk(s, ai) \in Decisions
         /\ s.malicious => AssessRisk(s, ai) = "block"
<1>1. AiAnswers \subseteq Decisions /\ "no_ai" \notin Decisions
  BY TreeAssumption DEF TreeAssumption, Decisions
<1>2. EvaluateRules(s) \in Decisions
  BY RulesDecide
<1>3. CASE ai = "no_ai"
  BY <1>3, RulesDecide DEF AssessRisk
<1>4. CASE ai # "no_ai"
  <2>1. ai \in Decisions /\ AssessRisk(s, ai) = Stricter(ai, EvaluateRules(s))
    BY <1>1, <1>4 DEF AssessRisk, ClampDecision
  <2>2. /\ AssessRisk(s, ai) \in Decisions
        /\ Severity[AssessRisk(s, ai)] >= Severity[EvaluateRules(s)]
    BY <1>2, <2>1, StricterFacts
  <2>3. s.malicious => Severity[AssessRisk(s, ai)] >= 3
    BY <2>2, RulesDecide, SeverityFacts
  <2> QED  BY <2>2, <2>3, SeverityFacts
<1> QED  BY <1>3, <1>4

(* What the pipeline makes of an assessment of a package that OSV knows as
   malware, or knows nothing about because it did not answer.                *)
LEMMA MalwareBlocks ==
  ASSUME NEW s \in Signals, s.malicious, NEW pol \in Policies, NEW f \in Findings,
         NEW ai \in {"no_ai"} \cup AiAnswers, NEW closed \in BOOLEAN
  PROVE  Analyze(s, ai, closed, pol, f) = "block"
<1>1. AssessRisk(s, ai) = "block" /\ EvaluateRules(s) = "block"
  BY RiskDecides, RulesDecide
<1>2. FinalizeAssessment(s, "block", closed, pol) = "block"
  BY DEF FinalizeAssessment, ApplyPolicy, ApplyOsvFailurePolicy, Stricter, Severity, Decisions
<1>3. \A e \in Decisions : Stricter("block", e) = "block"
  BY DEF Stricter, Severity, Decisions
<1>4. AuditDecision(f) \in Decisions /\ "block" \in Decisions
  BY DEF AuditDecision, Decisions
<1>5. Analyze(s, ai, closed, pol, f) = FoldSourceAudit("block", f, s)
  BY <1>1, <1>2, Zenon DEF Analyze
<1>6. FoldSourceAudit("block", f, s) \in {"block", Stricter(Stricter("block", AuditDecision(f)), EvaluateRules(s))}
  BY Zenon DEF FoldSourceAudit, ClampDecision
<1>7. Stricter(Stricter("block", AuditDecision(f)), EvaluateRules(s)) = "block"
  BY <1>1, <1>3, <1>4
<1> QED  BY <1>5, <1>6, <1>7

LEMMA UnknownNeedsHuman ==
  ASSUME NEW s \in Signals, s.osvDown, NEW pol \in Policies, NEW f \in Findings,
         NEW ai \in {"no_ai"} \cup AiAnswers, "allowKnownPackages" \notin pol.lists
  PROVE  NeedsHuman(Analyze(s, ai, TRUE, pol, f))
<1> DEFINE d == AssessRisk(s, ai)
           o == ApplyOsvFailurePolicy(d, s, TRUE)
           p == ApplyPolicy(o, s, pol)
<1>1. d \in Decisions /\ EvaluateRules(s) \in Decisions
  BY RiskDecides, RulesDecide
<1>2. o \in Decisions /\ Severity[o] >= 2
  <2>1. o = Stricter(d, "require_approval") /\ "require_approval" \in Decisions
    BY DEF ApplyOsvFailurePolicy, Decisions
  <2> HIDE DEF d, o
  <2> QED  BY <1>1, <2>1, StricterFacts, SeverityFacts
<1> HIDE DEF o
<1>3. p \in Decisions /\ Severity[p] >= 2
  <2>1. {"block", "require_approval", pol.asks} \subseteq Decisions
    BY DEF Policies, Decisions
  <2>2. p = o \/ \E e \in Decisions : p = Stricter(o, e)
    BY <2>1 DEF ApplyPolicy
  <2> HIDE DEF p
  <2> QED  BY <1>2, <2>2, StricterFacts, SeverityFacts
<1> HIDE DEF p
<1>4. Analyze(s, ai, TRUE, pol, f) = FoldSourceAudit(p, f, s)
  BY DEF Analyze, FinalizeAssessment, p, o
<1>5. AuditDecision(f) \in Decisions
  BY DEF AuditDecision, Decisions
<1>6. FoldSourceAudit(p, f, s) = p \/ FoldSourceAudit(p, f, s) = Stricter(Stricter(p, AuditDecision(f)), EvaluateRules(s))
  BY DEF FoldSourceAudit, ClampDecision
<1>7. /\ FoldSourceAudit(p, f, s) \in Decisions
      /\ Severity[FoldSourceAudit(p, f, s)] >= 2
  <2>1. /\ Stricter(p, AuditDecision(f)) \in Decisions
        /\ Severity[Stricter(p, AuditDecision(f))] >= 2
    BY <1>3, <1>5, StricterFacts, SeverityFacts
  <2> QED  BY <1>1, <1>3, <1>6, <2>1, StricterFacts, SeverityFacts
<1> QED  BY <1>4, <1>7, SeverityFacts

-----------------------------------------------------------------------------
(* Files and answers are functions from keys. *)
LEMMA ContentsAre ==
  /\ \A f \in Contents : DOMAIN f \subseteq Keys /\ \A key \in DOMAIN f : f[key] \in [answer: AiAnswers, fresh: BOOLEAN]
  /\ \A f : DOMAIN f \subseteq Keys /\ f \in [DOMAIN f -> [answer: AiAnswers, fresh: BOOLEAN]] => f \in Contents
BY DEF Contents

LEMMA AnswersAre ==
  /\ \A f \in Answers : DOMAIN f \subseteq Keys /\ \A key \in DOMAIN f : f[key] \in AiAnswers
  /\ \A f : DOMAIN f \subseteq Keys /\ f \in [DOMAIN f -> AiAnswers] => f \in Answers
BY DEF Answers

(* w is the file f with the answers a written to it. *)
WrittenFrom(w, f, a, o) ==
  /\ w \in Contents
  /\ DOMAIN w = {key \in DOMAIN f : f[key].fresh} \cup Eligible(a, o)
  /\ Eligible(a, o) \subseteq DOMAIN a
  /\ \A key \in DOMAIN w :
       IF key \in Eligible(a, o) THEN w[key] = Entry(a[key]) ELSE key \in DOMAIN f /\ w[key] = f[key]

LEMMA WrittenFacts ==
  ASSUME NEW f \in Contents, NEW a \in Answers, NEW o
  PROVE  WrittenFrom(Written(f, a, o), f, a, o)
<1> DEFINE w == Written(f, a, o)
           E == [answer: AiAnswers, fresh: BOOLEAN]
<1>1. Eligible(a, o) \subseteq DOMAIN a
  BY DEF Eligible
<1>2. DOMAIN w = {key \in DOMAIN f : f[key].fresh} \cup Eligible(a, o)
  BY DEF Written
<1>3. \A key \in DOMAIN w : IF key \in Eligible(a, o) THEN w[key] = Entry(a[key])
                            ELSE key \in DOMAIN f /\ w[key] = f[key]
  BY DEF Written
<1>4. w = [key \in DOMAIN w |-> w[key]]
  BY DEF Written
<1> HIDE DEF w
<1>5. DOMAIN w \subseteq Keys
  BY <1>1, <1>2, ContentsAre, AnswersAre
<1>6. ASSUME NEW key \in DOMAIN w PROVE w[key] \in E
  <2>1. CASE key \in Eligible(a, o)
    <3>1. a[key] \in AiAnswers
      BY <1>1, <2>1, AnswersAre
    <3>2. w[key] = Entry(a[key])
      BY <1>3, <2>1
    <3>3. Entry(a[key]) \in E
      BY <3>1 DEF Entry
    <3> QED  BY <3>2, <3>3
  <2>2. CASE key \notin Eligible(a, o)
    <3>1. key \in DOMAIN f /\ w[key] = f[key]
      BY <1>3, <2>2
    <3> QED  BY <3>1, ContentsAre
  <2> QED  BY <2>1, <2>2
<1>7. w \in [DOMAIN w -> E]
  BY <1>4, <1>6
<1>8. w \in Contents
  BY <1>5, <1>7, ContentsAre
<1>9. WrittenFrom(w, f, a, o)
  BY <1>1, <1>2, <1>3, <1>8 DEF WrittenFrom
<1> QED  BY <1>9 DEF w

(* The answer to a batch belongs to the packages it names. *)
SaysOf(says) ==
  [key \in {KeyAt(i) : i \in DOMAIN says} |-> says[CHOOSE i \in DOMAIN says : KeyAt(i) = key]]

LEMMA SaysFacts ==
  ASSUME TypeOK, NEW b, b \subseteq DOMAIN Ok, NEW says \in Says(b)
  PROVE  /\ DOMAIN says \subseteq b
         /\ \A i \in DOMAIN says : says[i] \in AiAnswers /\ SaysOf(says)[KeyAt(i)] = says[i]
         /\ SaysOf(says) \in Answers
         /\ DOMAIN SaysOf(says) = {KeyAt(i) : i \in DOMAIN says}
<1> DEFINE a == SaysOf(says)
<1>1. DOMAIN says \subseteq b /\ \A i \in DOMAIN says : says[i] \in AiAnswers
  BY DEF Says
<1>2. DOMAIN a = {KeyAt(i) : i \in DOMAIN says} /\ a = [key \in DOMAIN a |-> a[key]]
  BY DEF SaysOf
<1>3. ASSUME NEW i \in DOMAIN says PROVE a[KeyAt(i)] = says[i] /\ KeyAt(i) \in Keys
  <2>1. \A j \in DOMAIN says : KeyAt(j) = KeyAt(i) => j = i
    BY <1>1, KeyFacts
  <2>2. (CHOOSE j \in DOMAIN says : KeyAt(j) = KeyAt(i)) = i
    BY <2>1
  <2>3. KeyAt(i) \in Keys
    BY <1>1, KeyFacts
  <2> QED  BY <2>2, <2>3 DEF SaysOf
<1> HIDE DEF a
<1>4. DOMAIN a \subseteq Keys /\ a \in [DOMAIN a -> AiAnswers]
  BY <1>1, <1>2, <1>3
<1> QED  BY <1>1, <1>2, <1>3, <1>4, AnswersAre DEF a

-----------------------------------------------------------------------------
(* Types. *)

LEMMA TypeInit == Init => TypeOK
<1> SUFFICES ASSUME Init PROVE TypeOK
  OBVIOUS
<1>1. cache \in Contents /\ said \subseteq Keys \X AiAnswers
  <2>1. DOMAIN cache \subseteq Keys /\ cache \in [DOMAIN cache -> [answer: AiAnswers, fresh: BOOLEAN]]
    BY TreeAssumption DEF TreeAssumption, Init, Keys
  <2>2. cache \in Contents
    BY <2>1, ContentsAre
  <2>3. said = {<<key, cache[key].answer>> : key \in DOMAIN cache}
    BY DEF Init
  <2> QED  BY <2>1, <2>2, <2>3
<1>2. told \in Answers
  BY AnswersAre DEF Init, NoAnswers
<1>3. published \subseteq Ids
  BY TreeAssumption DEF TreeAssumption, Init
<1>4. queue \in Seq(Jobs)
  BY DEF Init
<1> QED  BY <1>1, <1>2, <1>3, <1>4 DEF Init, TypeOK, Scanning, Building

(* A step of the queue is one of its first write. *)
LEMMA JobFacts ==
  ASSUME TypeOK, NEW k \in DOMAIN queue
  PROVE  /\ queue[k] \in Jobs /\ queue[k].answers \in Answers
         /\ queue[k].copy # <<>> => queue[k].copy[1] \in Contents
<1>1. queue[k] \in Jobs
  BY DEF TypeOK
<1>2. ASSUME queue[k].copy # <<>> PROVE queue[k].copy[1] \in Contents
  <2>1. PICK f \in Contents : queue[k].copy = <<f>>
    BY <1>1, <1>2 DEF Jobs
  <2> QED  BY <2>1
<1> QED  BY <1>1, <1>2 DEF Jobs

(* What is left of the queue are other elements of it, in their order. *)
LEMMA RemoveFacts ==
  ASSUME TypeOK, NEW k \in DOMAIN queue
  PROVE  /\ RemoveAt(queue, k) \in Seq(Jobs)
         /\ Len(RemoveAt(queue, k)) = Len(queue) - 1
         /\ \A j \in DOMAIN RemoveAt(queue, k) :
              RemoveAt(queue, k)[j] = IF j < k THEN queue[j] ELSE queue[j + 1]
<1>1. queue \in Seq(Jobs) /\ k \in 1..Len(queue) /\ Len(queue) \in Nat
  BY DEF TypeOK
<1> DEFINE s == SubSeq(queue, 1, k - 1)
           t == SubSeq(queue, k + 1, Len(queue))
<1>2. /\ s \in Seq(Jobs) /\ Len(s) = k - 1
      /\ \A j \in 1..(k - 1) : s[j] = queue[j]
  BY <1>1, SubSeqProperties
<1>3. /\ t \in Seq(Jobs) /\ Len(t) = Len(queue) - k
      /\ \A j \in 1..(Len(queue) - k) : t[j] = queue[k + j]
  BY <1>1, SubSeqProperties
<1>4. RemoveAt(queue, k) = s \o t
  BY DEF RemoveAt
<1> HIDE DEF s, t
<1>5. /\ s \o t \in Seq(Jobs) /\ Len(s \o t) = Len(queue) - 1
      /\ \A j \in 1..Len(s \o t) : (s \o t)[j] = IF j <= Len(s) THEN s[j] ELSE t[j - Len(s)]
  <2>1. s \in Seq(Jobs) /\ t \in Seq(Jobs)
    BY <1>2, <1>3
  <2>2. /\ s \o t \in Seq(Jobs) /\ Len(s \o t) = Len(s) + Len(t)
        /\ \A j \in 1..(Len(s) + Len(t)) : (s \o t)[j] = IF j <= Len(s) THEN s[j] ELSE t[j - Len(s)]
    BY <2>1, ConcatProperties
  <2>3. Len(s) + Len(t) = Len(queue) - 1
    BY <1>1, <1>2, <1>3
  <2> QED  BY <2>2, <2>3
<1>6. DOMAIN (s \o t) = 1..(Len(queue) - 1)
  BY <1>1, <1>5
<1>7. ASSUME NEW j \in 1..(Len(queue) - 1)
      PROVE  (s \o t)[j] = IF j < k THEN queue[j] ELSE queue[j + 1]
  <2>1. CASE j < k
    BY <1>1, <1>2, <1>5, <2>1
  <2>2. CASE ~(j < k)
    <3>1. j - (k - 1) \in 1..(Len(queue) - k) /\ k + (j - (k - 1)) = j + 1
      BY <1>1, <2>2
    <3>2. (s \o t)[j] = t[j - (k - 1)]
      BY <1>1, <1>2, <1>5, <2>2
    <3> QED  BY <1>3, <2>2, <3>1, <3>2
  <2> QED  BY <2>1, <2>2
<1> QED  BY <1>4, <1>5, <1>6, <1>7

LEMMA AppendFacts ==
  ASSUME TypeOK, NEW answers \in Answers, NEW i \in Places \cup {0}, queue' = Queued(answers, i)
  PROVE  /\ queue' \in Seq(Jobs)
         /\ \A j \in DOMAIN queue' :
              \/ j \in DOMAIN queue /\ queue'[j] = queue[j]
              \/ queue'[j].copy = <<>> /\ queue'[j].answers = answers
<1> DEFINE w == [answers |-> answers, for |-> i, copy |-> <<>>]
<1>1. queue \in Seq(Jobs) /\ Len(queue) \in Nat /\ DOMAIN queue = 1..Len(queue)
  BY DEF TypeOK
<1>2. w \in Jobs /\ w.copy = <<>> /\ w.answers = answers
  BY DEF Jobs
<1> HIDE DEF w
<1>3. queue' = queue \/ queue' = Append(queue, w)
  BY DEF Queued, w
<1>4. CASE queue' = Append(queue, w)
  <2>1. /\ queue' \in Seq(Jobs) /\ Len(queue') = Len(queue) + 1 /\ queue'[Len(queue) + 1] = w
        /\ \A j \in 1..Len(queue) : queue'[j] = queue[j]
    BY <1>1, <1>2, <1>4, AppendProperties
  <2>2. DOMAIN queue' = 1..(Len(queue) + 1)
    BY <2>1
  <2> QED  BY <1>1, <1>2, <2>1, <2>2
<1> QED  BY <1>1, <1>3, <1>4

LEMMA ReadFacts ==
  ASSUME TypeOK, NEW k, ReadFile(k)
  PROVE  /\ k = 1 /\ 1 \in DOMAIN queue
         /\ queue' \in Seq(Jobs) /\ DOMAIN queue' = DOMAIN queue
         /\ queue'[1].copy = <<cache>> /\ queue'[1].answers = queue[1].answers
         /\ \A j \in DOMAIN queue : j # 1 => queue'[j] = queue[j]
<1>1. k = 1 /\ 1 \in DOMAIN queue
  BY DEF ReadFile, MayBegin
<1>2. queue' = [queue EXCEPT ![1].copy = <<cache>>]
  BY <1>1 DEF ReadFile
<1>3. queue \in Seq(Jobs) /\ queue[1] \in Jobs /\ DOMAIN queue = 1..Len(queue) /\ Len(queue) \in Nat
  BY <1>1, JobFacts DEF TypeOK
<1> DEFINE w == [queue[1] EXCEPT !.copy = <<cache>>]
<1>4. w \in Jobs /\ w.copy = <<cache>> /\ w.answers = queue[1].answers
  BY <1>3 DEF Jobs, TypeOK
<1>5. /\ DOMAIN queue' = DOMAIN queue /\ queue'[1] = w
      /\ \A j \in DOMAIN queue : j # 1 => queue'[j] = queue[j]
  BY <1>1, <1>2
<1> HIDE DEF w
<1>6. queue' \in Seq(Jobs)
  <2>1. \A j \in 1..Len(queue) : queue'[j] \in Jobs
    BY <1>3, <1>4, <1>5
  <2>2. queue' = [j \in 1..Len(queue) |-> queue'[j]]
    BY <1>2, <1>3
  <2>3. queue' \in [1..Len(queue) -> Jobs]
    BY <2>1, <2>2
  <2> QED  BY <1>3, <2>3
<1> QED  BY <1>1, <1>4, <1>5, <1>6

(* Every step leaves these alone, or is one of the actions that change them. *)
LEMMA Constants ==
  ASSUME [Next]_vars
  PROVE  UNCHANGED <<options, published>>
BY DEF Next, Review, OsvBatch, AnswerBatchQuery, OsvBatchFails, DetailsKnown, OsvDetail, BuildSignals,
  QueryOsv, Build, BuildFails, Scanned, ServeHits, BatchFails, AnswerBatch, LookUp, AloneFails,
  AnswerAlone, AllAssessed, Saved, ReadFile, ReplaceFile, WriteFails, Leave, Finalize, Elsewhere, vars

FileStep ==
  \/ \E b \in batches : \E says \in Says(b) : AnswerBatch(b, says)
  \/ \E i \in Places : \E d \in AiAnswers : AnswerAlone(i, d)
  \/ AllAssessed \/ Saved
  \/ \E k \in DOMAIN queue : ReadFile(k) \/ ReplaceFile(k) \/ WriteFails(k)
  \/ \E p \in Packages : Elsewhere(p)

LEMMA FileSteps ==
  ASSUME [Next]_vars
  PROVE  FileStep \/ UNCHANGED <<told, said, file>>
BY DEF FileStep, Next, Review, OsvBatch, AnswerBatchQuery, OsvBatchFails, DetailsKnown, OsvDetail, BuildSignals,
  QueryOsv, Build, BuildFails, Scanned, ServeHits, BatchFails, LookUp, AloneFails,
  Finalize, assessing, vars

(* Building a package takes place before anything is assessed. *)
BuildStep ==
  \E p \in Packages : BuildSignals(p) \/ QueryOsv(p) \/ BuildFails(p)

LEMMA BuildSteps ==
  ASSUME [Next]_vars
  PROVE  BuildStep \/ UNCHANGED built
BY DEF BuildStep, Next, Review, OsvBatch, AnswerBatchQuery, OsvBatchFails, DetailsKnown, OsvDetail,
  Scanned, ServeHits, BatchFails, AnswerBatch, LookUp, AloneFails,
  AnswerAlone, AllAssessed, Saved, ReadFile, ReplaceFile, WriteFails, Leave, Finalize, Elsewhere, vars

(* What happens to the assessments, and when. *)
AssessStep ==
  \/ ServeHits
  \/ \E b \in batches : BatchFails(b) \/ \E says \in Says(b) : AnswerBatch(b, says)
  \/ \E i \in Places : LookUp(i) \/ AloneFails(i) \/ \E d \in AiAnswers : AnswerAlone(i, d)

LEMMA AssessSteps ==
  ASSUME [Next]_vars
  PROVE  \/ AssessStep
         \/ UNCHANGED <<batches, assessed>> /\ (pc' \in Assessing => pc \in Assessing)
BY DEF AssessStep, Assessing, Goto, Next, Review, OsvBatch, AnswerBatchQuery, OsvBatchFails, DetailsKnown, OsvDetail,
  BuildSignals, QueryOsv, Build, BuildFails, Scanned,
  AllAssessed, Saved, ReadFile, ReplaceFile, WriteFails, Leave, Finalize, Elsewhere, assessing, vars

(* The actions that bear on the file, in terms of what they were told. *)
LEMMA AnswerBatchIs ==
  ASSUME TypeOK, Aligned, NEW b \in batches, NEW says \in Says(b), AnswerBatch(b, says)
  PROVE  /\ pc = "assess" /\ b \subseteq DOMAIN Ok /\ batches' \subseteq batches
         /\ UNCHANGED <<pc, built, file>>
         /\ assessed' = [i \in Places |-> IF i \in DOMAIN says THEN ClampDecision(says[i], SignalsAt(i))
                                          ELSE assessed[i]]
         /\ told' = [key \in DOMAIN told \cup DOMAIN SaysOf(says) |->
                       IF key \in DOMAIN SaysOf(says) THEN SaysOf(says)[key] ELSE told[key]]
         /\ said' = said \cup {<<key, SaysOf(says)[key]>> : key \in DOMAIN SaysOf(says)}
<1>1. pc = "assess" /\ batches' \subseteq batches /\ UNCHANGED <<pc, built, file>>
  BY DEF AnswerBatch, file
<1>2. b \subseteq DOMAIN Ok
  BY <1>1 DEF Aligned, Assessing
<1> QED  BY <1>1, <1>2 DEF AnswerBatch, SaysOf

LEMMA AnswerAloneIs ==
  ASSUME TypeOK, NEW i \in Places, NEW d \in AiAnswers, AnswerAlone(i, d)
  PROVE  /\ pc = "assess" /\ i \in DOMAIN Ok /\ KeyAt(i) \in Keys
         /\ UNCHANGED <<pc, built, batches, told, cache, others, saved>>
         /\ assessed' = [assessed EXCEPT ![i] = ClampDecision(d, SignalsAt(i))]
         /\ queue' = Queued([key \in {KeyAt(i)} |-> d], i)
         /\ [key \in {KeyAt(i)} |-> d] \in Answers
         /\ said' = said \cup {<<KeyAt(i), d>>}
<1> DEFINE a == [key \in {KeyAt(i)} |-> d]
<1>1. i \in DOMAIN Ok /\ KeyAt(i) \in Keys
  BY KeyFacts DEF AnswerAlone, Turn
<1>2. a \in Answers
  <2>1. DOMAIN a \subseteq Keys /\ a \in [DOMAIN a -> AiAnswers]
    BY <1>1
  <2> HIDE DEF a
  <2> QED  BY <2>1, AnswersAre
<1> QED  BY <1>1, <1>2 DEF AnswerAlone, Turn, Assess

LEMMA LeaveIs ==
  ASSUME TypeOK, FileKept, NEW k \in DOMAIN queue, ReplaceFile(k) \/ WriteFails(k)
  PROVE  /\ k = 1 /\ queue[1].copy # <<>>
         /\ queue' \in Seq(Jobs)
         /\ \A j \in DOMAIN queue' : j + 1 \in DOMAIN queue /\ queue'[j] = queue[j + 1] /\ queue[j + 1].copy = <<>>
         /\ UNCHANGED <<told, said, others>>
<1>1. queue[k].copy # <<>> /\ queue' = RemoveAt(queue, k) /\ UNCHANGED <<told, said, others>>
  BY DEF ReplaceFile, WriteFails, Leave
<1>2. k = 1
  BY <1>1 DEF FileKept
<1>3. /\ queue' \in Seq(Jobs) /\ Len(queue') = Len(queue) - 1
      /\ \A j \in DOMAIN queue' : queue'[j] = IF j < 1 THEN queue[j] ELSE queue[j + 1]
  BY <1>1, <1>2, RemoveFacts
<1>4. queue \in Seq(Jobs)
  BY DEF TypeOK
<1>5. ASSUME NEW j \in DOMAIN queue'
      PROVE  j + 1 \in DOMAIN queue /\ queue'[j] = queue[j + 1] /\ queue[j + 1].copy = <<>>
  <2>1. j \in 1..(Len(queue) - 1) /\ Len(queue) \in Nat
    BY <1>3, <1>4
  <2>2. j + 1 \in DOMAIN queue /\ j + 1 # 1 /\ queue'[j] = queue[j + 1]
    BY <1>3, <1>4, <2>1
  <2> QED  BY <2>2 DEF FileKept
<1> QED  BY <1>1, <1>2, <1>3, <1>5

LEMMA ReplaceIs ==
  ASSUME TypeOK, FileKept, NEW k \in DOMAIN queue, ReplaceFile(k)
  PROVE  /\ queue[1].answers \in Answers /\ queue[1].copy[1] \in Contents
         /\ cache' = Written(queue[1].copy[1], queue[1].answers, options.cache)
         /\ saved' = saved \cup Eligible(queue[1].answers, options.cache)
BY LeaveIs, JobFacts DEF ReplaceFile

(* Other processes add what the AI told them, or take something away. *)
LEMMA ElsewhereIs ==
  ASSUME TypeOK, NEW p \in Packages, Elsewhere(p)
  PROVE  /\ others' = others + 1 /\ UNCHANGED <<told, queue, saved>>
         /\ cache' \in Contents
         /\ said \subseteq said' /\ said' \subseteq Keys \X AiAnswers
         /\ HonestFile(cache) => HonestFile(cache)'
<1> DEFINE key == CacheKey(p, built[p].signals)
           Adds(d) == /\ cache' = [k \in DOMAIN cache \cup {key} |-> IF k = key THEN Entry(d) ELSE cache[k]]
                      /\ said' = said \cup {<<key, d>>}
<1>1. key \in Keys
  BY KeyFacts DEF Elsewhere
<1>2. others' = others + 1 /\ UNCHANGED <<told, queue, saved>>
  <2>1. others' = others + 1
    BY Zenon DEF Elsewhere
  <2>2. UNCHANGED <<options, published, pc, advisories, built, assessing, results, queue, saved>>
    BY Zenon DEF Elsewhere
  <2> QED  BY <2>1, <2>2 DEF assessing
<1>3. \/ \E d \in AiAnswers : Adds(d)
      \/ /\ key \in DOMAIN cache /\ said' = said
         /\ \/ cache' = [k \in DOMAIN cache \ {key} |-> cache[k]]
            \/ cache' = [cache EXCEPT ![key].fresh = FALSE]
  BY DEF Elsewhere
<1>4. /\ DOMAIN cache \subseteq Keys /\ said \subseteq Keys \X AiAnswers
      /\ \A k \in DOMAIN cache : cache[k] \in [answer: AiAnswers, fresh: BOOLEAN]
  BY ContentsAre DEF TypeOK
<1> HIDE DEF key
<1>5. ASSUME NEW d \in AiAnswers, Adds(d)
      PROVE  /\ cache' \in Contents /\ said \subseteq said' /\ said' \subseteq Keys \X AiAnswers
             /\ HonestFile(cache) => HonestFile(cache)'
  <2>1. DOMAIN cache' \subseteq Keys
    BY <1>1, <1>4, <1>5
  <2>2. \A k \in DOMAIN cache' : IF k = key THEN cache'[k] = Entry(d) ELSE k \in DOMAIN cache /\ cache'[k] = cache[k]
    BY <1>5
  <2>3. \A k \in DOMAIN cache' : cache'[k] \in [answer: AiAnswers, fresh: BOOLEAN]
    BY <1>4, <1>5, <2>2 DEF Entry
  <2>4. cache' = [k \in DOMAIN cache' |-> cache'[k]]
    BY <1>5
  <2>5. cache' \in Contents
    BY <2>1, <2>3, <2>4, ContentsAre
  <2>6. said \subseteq said' /\ <<key, d>> \in said' /\ said' \subseteq Keys \X AiAnswers
    BY <1>1, <1>4, <1>5
  <2>7. ASSUME HonestFile(cache), NEW k \in DOMAIN cache' PROVE <<k, cache'[k].answer>> \in said'
    <3>1. CASE k = key
      <4>1. cache'[k].answer = d
        BY <2>2, <3>1 DEF Entry
      <4> QED  BY <2>6, <3>1, <4>1
    <3>2. CASE k # key
      BY <2>2, <2>6, <2>7, <3>2 DEF HonestFile
    <3> QED  BY <3>1, <3>2
  <2> QED  BY <2>5, <2>6, <2>7 DEF HonestFile
<1>6. CASE key \in DOMAIN cache /\ said' = said /\ cache' = [k \in DOMAIN cache \ {key} |-> cache[k]]
  <2>1. /\ DOMAIN cache' \subseteq Keys
        /\ cache' \in [DOMAIN cache' -> [answer: AiAnswers, fresh: BOOLEAN]]
    BY <1>4, <1>6
  <2>2. cache' \in Contents
    BY <2>1, ContentsAre
  <2>3. \A k \in DOMAIN cache' : k \in DOMAIN cache /\ cache'[k] = cache[k]
    BY <1>6
  <2> QED  BY <1>2, <1>4, <1>6, <2>2, <2>3 DEF HonestFile
<1>7. CASE key \in DOMAIN cache /\ said' = said /\ cache' = [cache EXCEPT ![key].fresh = FALSE]
  <2>1. \A k \in DOMAIN cache : cache'[k] \in [answer: AiAnswers, fresh: BOOLEAN] /\ cache'[k].answer = cache[k].answer
    BY <1>4, <1>7
  <2>2. DOMAIN cache' = DOMAIN cache /\ cache' = [k \in DOMAIN cache' |-> cache'[k]]
    BY <1>7
  <2>3. cache' \in Contents
    BY <1>4, <2>1, <2>2, ContentsAre
  <2> QED  BY <1>2, <1>4, <1>7, <2>1, <2>2, <2>3 DEF HonestFile
<1> QED  BY <1>2, <1>3, <1>5, <1>6, <1>7

-----------------------------------------------------------------------------
(* The file, what is to be written to it, and what the AI has said. *)

FileTyped ==
  /\ told \in Answers /\ cache \in Contents /\ queue \in Seq(Jobs)
  /\ others \in Nat /\ said \subseteq Keys \X AiAnswers

LEMMA FileTypes ==
  ASSUME TypeOK, Aligned, FileKept, [Next]_vars
  PROVE  FileTyped' /\ said \subseteq said'
<1>1. FileTyped /\ 0 \in Nat
  BY DEF TypeOK, FileTyped
<1>2. ASSUME NEW b \in batches, NEW says \in Says(b), AnswerBatch(b, says)
      PROVE  FileTyped' /\ said \subseteq said'
  <2> DEFINE a == SaysOf(says)
  <2>1. /\ UNCHANGED file
        /\ told' = [key \in DOMAIN told \cup DOMAIN a |-> IF key \in DOMAIN a THEN a[key] ELSE told[key]]
        /\ said' = said \cup {<<key, a[key]>> : key \in DOMAIN a}
        /\ b \subseteq DOMAIN Ok
    BY <1>2, AnswerBatchIs
  <2>2. a \in Answers
    BY <2>1, SaysFacts
  <2> HIDE DEF a
  <2>3. /\ DOMAIN a \subseteq Keys /\ \A key \in DOMAIN a : a[key] \in AiAnswers
        /\ DOMAIN told \subseteq Keys /\ \A key \in DOMAIN told : told[key] \in AiAnswers
    BY <1>1, <2>2, AnswersAre DEF FileTyped
  <2>4. DOMAIN told' \subseteq Keys /\ told' \in [DOMAIN told' -> AiAnswers]
    BY <2>1, <2>3
  <2>5. told' \in Answers
    BY <2>4, AnswersAre
  <2> QED  BY <1>1, <2>1, <2>3, <2>5 DEF FileTyped, file
<1>3. ASSUME NEW i \in Places, NEW d \in AiAnswers, AnswerAlone(i, d)
      PROVE  FileTyped' /\ said \subseteq said'
  <2>1. queue' \in Seq(Jobs)
    BY <1>3, AnswerAloneIs, AppendFacts
  <2>2. /\ KeyAt(i) \in Keys /\ UNCHANGED <<told, cache, others>>
        /\ said' = said \cup {<<KeyAt(i), d>>}
    BY <1>3, AnswerAloneIs
  <2> HIDE DEF KeyAt
  <2> QED  BY <1>1, <2>1, <2>2 DEF FileTyped
<1>4. CASE AllAssessed
  <2>1. queue' \in Seq(Jobs)
    BY <1>1, <1>4, AppendFacts DEF AllAssessed, FileTyped
  <2> QED  BY <1>1, <1>4, <2>1 DEF FileTyped, AllAssessed, assessing
<1>5. CASE Saved
  <2>1. NoAnswers \in Answers
    BY AnswersAre DEF NoAnswers
  <2> QED  BY <1>1, <1>5, <2>1 DEF FileTyped, Saved, file
<1>6. ASSUME NEW k \in DOMAIN queue, ReadFile(k) PROVE FileTyped' /\ said \subseteq said'
  <2>1. queue' \in Seq(Jobs)
    BY <1>6, ReadFacts
  <2> QED  BY <1>1, <1>6, <2>1 DEF FileTyped, ReadFile, assessing
<1>7. ASSUME NEW k \in DOMAIN queue, ReplaceFile(k) PROVE FileTyped' /\ said \subseteq said'
  <2>1. cache' \in Contents
    <3>1. /\ queue[1].answers \in Answers /\ queue[1].copy[1] \in Contents
          /\ cache' = Written(queue[1].copy[1], queue[1].answers, options.cache)
      BY <1>7, ReplaceIs
    <3>2. \A f \in Contents, a \in Answers : Written(f, a, options.cache) \in Contents
      BY WrittenFacts DEF WrittenFrom
    <3> QED  BY <3>1, <3>2
  <2> QED  BY <1>1, <1>7, <2>1, LeaveIs DEF FileTyped
<1>8. ASSUME NEW k \in DOMAIN queue, WriteFails(k) PROVE FileTyped' /\ said \subseteq said'
  <2>1. UNCHANGED cache
    BY <1>8 DEF WriteFails
  <2> QED  BY <1>1, <1>8, <2>1, LeaveIs DEF FileTyped
<1>9. ASSUME NEW p \in Packages, Elsewhere(p) PROVE FileTyped' /\ said \subseteq said'
  BY <1>1, <1>9, ElsewhereIs DEF FileTyped
<1>10. CASE UNCHANGED <<told, said, file>>
  BY <1>1, <1>10 DEF FileTyped, file
<1> QED  BY <1>2, <1>3, <1>4, <1>5, <1>6, <1>7, <1>8, <1>9, <1>10, FileSteps DEF FileStep

LEMMA HonestStep ==
  ASSUME TypeOK, Aligned, FileKept, FileHonest, [Next]_vars
  PROVE  FileHonest'
<1> DEFINE Said(a) == \A key \in DOMAIN a : <<key, a[key]>> \in said'
           SaidFile(f) == \A key \in DOMAIN f : <<key, f[key].answer>> \in said'
           Waiting == \A k \in DOMAIN queue' :
                        Said(queue'[k].answers) /\ (queue'[k].copy # <<>> => SaidFile(queue'[k].copy[1]))
<1>1. said \subseteq said'
  BY FileTypes
<1>2. /\ Said(told) /\ SaidFile(cache)
      /\ \A k \in DOMAIN queue : Said(queue[k].answers) /\ (queue[k].copy # <<>> => SaidFile(queue[k].copy[1]))
  BY <1>1 DEF FileHonest, Honest, HonestFile
<1>3. SUFFICES Said(told') /\ SaidFile(cache') /\ Waiting
  BY Zenon DEF FileHonest, Honest, HonestFile
<1>4. ASSUME NEW b \in batches, NEW says \in Says(b), AnswerBatch(b, says)
      PROVE  Said(told') /\ SaidFile(cache') /\ Waiting
  <2> DEFINE a == SaysOf(says)
  <2>1. /\ UNCHANGED <<cache, queue>>
        /\ told' = [key \in DOMAIN told \cup DOMAIN a |-> IF key \in DOMAIN a THEN a[key] ELSE told[key]]
        /\ said' = said \cup {<<key, a[key]>> : key \in DOMAIN a}
    BY <1>4, AnswerBatchIs DEF file
  <2> HIDE DEF a
  <2>2. Said(told')
    BY <1>2, <2>1
  <2> QED  BY <1>2, <2>1, <2>2
<1>5. ASSUME NEW i \in Places, NEW d \in AiAnswers, AnswerAlone(i, d)
      PROVE  Said(told') /\ SaidFile(cache') /\ Waiting
  <2> DEFINE a == [key \in {KeyAt(i)} |-> d]
  <2>1. /\ UNCHANGED <<told, cache>> /\ a \in Answers /\ queue' = Queued(a, i)
        /\ said' = said \cup {<<KeyAt(i), d>>}
    BY <1>5, AnswerAloneIs
  <2>2. Said(a)
    BY <2>1
  <2> HIDE DEF a
  <2>3. Waiting
    BY <1>2, <2>1, <2>2, AppendFacts
  <2> QED  BY <1>2, <2>1, <2>3
<1>6. CASE AllAssessed
  <2>1. UNCHANGED <<told, cache>> /\ queue' = Queued(told, 0) /\ told \in Answers
    BY <1>6 DEF AllAssessed, assessing, TypeOK
  <2>2. Waiting
    BY <1>2, <2>1, AppendFacts
  <2> QED  BY <1>2, <2>1, <2>2
<1>7. CASE Saved
  BY <1>2, <1>7 DEF Saved, file, NoAnswers
<1>8. ASSUME NEW k \in DOMAIN queue, ReadFile(k)
      PROVE  Said(told') /\ SaidFile(cache') /\ Waiting
  <2>1. UNCHANGED <<told, cache>>
    BY <1>8 DEF ReadFile, assessing
  <2>2. /\ DOMAIN queue' = DOMAIN queue /\ 1 \in DOMAIN queue
        /\ queue'[1].copy = <<cache>> /\ queue'[1].answers = queue[1].answers
        /\ \A j \in DOMAIN queue : j # 1 => queue'[j] = queue[j]
    BY <1>8, ReadFacts
  <2>3. queue'[1].copy[1] = cache
    BY <2>2
  <2>4. Waiting
    BY <1>2, <2>2, <2>3
  <2> QED  BY <1>2, <2>1, <2>4
<1>9. ASSUME NEW k \in DOMAIN queue, ReplaceFile(k) \/ WriteFails(k) PROVE UNCHANGED told /\ Waiting
  BY <1>2, <1>9, LeaveIs
<1>10. ASSUME NEW k \in DOMAIN queue, ReplaceFile(k) PROVE SaidFile(cache')
  <2> DEFINE f == queue[1].copy[1]
             a == queue[1].answers
  <2>1. 1 \in DOMAIN queue /\ queue[1].copy # <<>>
    BY <1>10, LeaveIs
  <2>2. Said(a) /\ SaidFile(f)
    BY <1>2, <2>1
  <2> DEFINE o == options.cache
  <2>3. a \in Answers /\ f \in Contents /\ cache' = Written(f, a, o)
    BY <1>10, ReplaceIs
  <2> HIDE DEF f, a, o
  <2>4. /\ Eligible(a, o) \subseteq DOMAIN a
        /\ \A key \in DOMAIN cache' :
             IF key \in Eligible(a, o) THEN cache'[key] = Entry(a[key])
             ELSE key \in DOMAIN f /\ cache'[key] = f[key]
    <3>1. WrittenFrom(cache', f, a, o)
      BY <2>3, WrittenFacts
    <3> QED  BY <3>1 DEF WrittenFrom
  <2>5. ASSUME NEW key \in DOMAIN cache' PROVE <<key, cache'[key].answer>> \in said'
    <3>1. CASE key \in Eligible(a, o)
      <4>1. key \in DOMAIN a /\ cache'[key] = Entry(a[key])
        BY <2>4, <3>1
      <4>2. cache'[key].answer = a[key]
        BY <4>1 DEF Entry
      <4> QED  BY <2>2, <4>1, <4>2
    <3>2. CASE key \notin Eligible(a, o)
      BY <2>2, <2>4, <3>2
    <3> QED  BY <3>1, <3>2
  <2> QED  BY <2>5
<1>11. ASSUME NEW k \in DOMAIN queue, WriteFails(k) PROVE SaidFile(cache')
  BY <1>2, <1>11 DEF WriteFails
<1>12. ASSUME NEW p \in Packages, Elsewhere(p)
       PROVE  Said(told') /\ SaidFile(cache') /\ Waiting
  <2>1. HonestFile(cache)'
    BY <1>12, ElsewhereIs DEF FileHonest
  <2>2. UNCHANGED <<told, queue>>
    BY <1>12, ElsewhereIs
  <2> QED  BY <1>2, <2>1, <2>2 DEF HonestFile
<1>13. CASE UNCHANGED <<told, said, file>>
  BY <1>2, <1>13 DEF file
<1> HIDE DEF Said, SaidFile, Waiting
<1>14. ASSUME NEW k \in DOMAIN queue, ReplaceFile(k) \/ WriteFails(k)
       PROVE  Said(told') /\ SaidFile(cache') /\ Waiting
  BY <1>2, <1>9, <1>10, <1>11, <1>14
<1> QED
  BY <1>4, <1>5, <1>6, <1>7, <1>8, <1>12, <1>13, <1>14, FileSteps DEF FileStep

LEMMA KeptStep ==
  ASSUME TypeOK, Aligned, FileKept, [Next]_vars
  PROVE  FileKept'
<1>1. others \in Nat /\ queue \in Seq(Jobs)
  BY DEF TypeOK
<1>2. ASSUME UNCHANGED <<cache, others, saved>>,
             \A j \in DOMAIN queue' : \/ j \in DOMAIN queue /\ queue'[j] = queue[j]
                                      \/ queue'[j].copy = <<>>
      PROVE  FileKept'
  BY <1>2 DEF FileKept
<1>3. ASSUME NEW b \in batches, NEW says \in Says(b), AnswerBatch(b, says) PROVE FileKept'
  BY <1>2, <1>3 DEF AnswerBatch, file
<1>4. ASSUME NEW i \in Places, NEW d \in AiAnswers, AnswerAlone(i, d) PROVE FileKept'
  <2> DEFINE a == [key \in {KeyAt(i)} |-> d]
  <2>1. UNCHANGED <<cache, others, saved>> /\ a \in Answers /\ queue' = Queued(a, i)
    BY <1>4, AnswerAloneIs
  <2> HIDE DEF a
  <2>2. \A j \in DOMAIN queue' : \/ j \in DOMAIN queue /\ queue'[j] = queue[j]
                                 \/ queue'[j].copy = <<>>
    BY <2>1, AppendFacts
  <2> QED  BY <1>2, <2>1, <2>2
<1>5. CASE AllAssessed
  <2>1. UNCHANGED <<cache, others, saved>> /\ told \in Answers /\ queue' = Queued(told, 0)
    BY <1>5 DEF AllAssessed, TypeOK
  <2>2. \A j \in DOMAIN queue' : \/ j \in DOMAIN queue /\ queue'[j] = queue[j]
                                 \/ queue'[j].copy = <<>>
    BY <2>1, AppendFacts
  <2> QED  BY <1>2, <2>1, <2>2
<1>6. CASE Saved \/ UNCHANGED <<told, said, file>>
  BY <1>2, <1>6 DEF Saved, file
<1>7. ASSUME NEW k \in DOMAIN queue, ReadFile(k) PROVE FileKept'
  <2>1. UNCHANGED <<cache, others, saved>>
    BY <1>7 DEF ReadFile
  <2>2. /\ DOMAIN queue' = DOMAIN queue /\ queue'[1].copy = <<cache>>
        /\ \A j \in DOMAIN queue : j # 1 => queue'[j] = queue[j]
    BY <1>7, ReadFacts
  <2>3. queue'[1].copy[1] = cache
    BY <2>2
  <2> QED  BY <2>1, <2>2, <2>3 DEF FileKept
<1>8. ASSUME NEW k \in DOMAIN queue, ReplaceFile(k) PROVE FileKept'
  <2> DEFINE f == queue[1].copy[1]
             a == queue[1].answers
             o == options.cache
  <2>1. others' = others /\ \A j \in DOMAIN queue' : queue'[j].copy = <<>>
    BY <1>8, LeaveIs
  <2>2. 1 \in DOMAIN queue /\ queue[1].copy # <<>>
    BY <1>8, LeaveIs
  <2>3. /\ a \in Answers /\ f \in Contents
        /\ cache' = Written(f, a, o) /\ saved' = saved \cup Eligible(a, o)
    BY <1>8, ReplaceIs
  <2>4. others = 0 => f = cache /\ \A key \in saved : key \in DOMAIN f /\ f[key].fresh
    BY <2>2 DEF FileKept
  <2> HIDE DEF f, a, o
  <2>5. WrittenFrom(cache', f, a, o)
    BY <2>3, WrittenFacts
  <2>6. ASSUME others = 0, NEW key \in saved' PROVE key \in DOMAIN cache' /\ cache'[key].fresh
    <3>1. CASE key \in Eligible(a, o)
      <4>1. key \in DOMAIN cache' /\ cache'[key] = Entry(a[key])
        BY <2>5, <3>1 DEF WrittenFrom
      <4> QED  BY <4>1 DEF Entry
    <3>2. CASE key \notin Eligible(a, o)
      <4>1. key \in saved /\ key \in DOMAIN f /\ f[key].fresh
        BY <2>3, <2>4, <2>6, <3>2
      <4>2. key \in DOMAIN cache' /\ cache'[key] = f[key]
        BY <2>5, <3>2, <4>1 DEF WrittenFrom
      <4> QED  BY <4>1, <4>2
    <3> QED  BY <3>1, <3>2
  <2> QED  BY <2>1, <2>6 DEF FileKept
<1>9. ASSUME NEW k \in DOMAIN queue, WriteFails(k) PROVE FileKept'
  <2>1. others' = others /\ \A j \in DOMAIN queue' : queue'[j].copy = <<>>
    BY <1>9, LeaveIs
  <2>2. UNCHANGED <<cache, saved>>
    BY <1>9 DEF WriteFails
  <2> QED  BY <2>1, <2>2 DEF FileKept
<1>10. ASSUME NEW p \in Packages, Elsewhere(p) PROVE FileKept'
  <2>1. others' # 0 /\ UNCHANGED queue
    BY <1>1, <1>10, ElsewhereIs
  <2> QED  BY <2>1 DEF FileKept
<1> QED
  BY <1>3, <1>4, <1>5, <1>6, <1>7, <1>8, <1>9, <1>10, FileSteps DEF FileStep

-----------------------------------------------------------------------------
(* Advisories and signals. *)

LEMMA KnownFacts ==
  ASSUME NEW ids, NEW kinds
  PROVE  /\ OsvResult(ids, kinds).knownMalicious \in BOOLEAN /\ OsvResult(ids, kinds).unavailable \in BOOLEAN
         /\ \A id \in ids : kinds[id] \in {"MAL", "malware"} => OsvResult(ids, kinds).knownMalicious
         /\ \A id \in ids : kinds[id] = "error" => OsvResult(ids, kinds).unavailable
BY DEF OsvResult

(* Built signals carry what OSV has, or that it could not be asked. *)
LEMMA BuildIs ==
  ASSUME TypeOK, AdvisoriesKept, NEW p \in Packages, BuildSignals(p) \/ QueryOsv(p)
  PROVE  /\ pc = "scan" /\ pc' = "scan" /\ built[p] = NotBuilt
         /\ \E s \in Signals :
              /\ built' = [built EXCEPT ![p] = [st |-> "ok", signals |-> s]]
              /\ p \notin cut /\ Malware(p) => s.malicious \/ s.osvDown
         /\ UNCHANGED <<options, published, advisories, assessing, results, file, said>>
<1> DEFINE kinds == [id \in Ids |-> IF Kind[id] = "MAL" THEN "MAL" ELSE detail[id]]
           Reports(o) == /\ o.knownMalicious \in BOOLEAN /\ o.unavailable \in BOOLEAN
                         /\ p \notin cut /\ Malware(p) => o.knownMalicious \/ o.unavailable
<1>1. \A id \in Now(p) : id \in Ids /\ Kind[id] \in {"MAL", "malware", "advisory"}
  <2>1. Now(p) \subseteq Ids
    BY DEF TypeOK, Now
  <2> QED  BY <2>1, TreeAssumption DEF TreeAssumption
<1>2. pc = "scan"
  BY DEF BuildSignals, QueryOsv, Build
<1>3. PICK o : Build(p, o) /\ Reports(o)
  <2>1. CASE BuildSignals(p)
    <3>1. osv = "batch" /\ Build(p, OsvResult(listed[p], kinds))
      BY <2>1 DEF BuildSignals, BatchResult
    <3>2. ASSUME p \notin cut, NEW id \in Now(p), Kind[id] # "advisory"
          PROVE  id \in listed[p] /\ kinds[id] \in {"MAL", "malware", "error"}
      <4>1. id \in listed[p]
        BY <1>2, <3>1, <3>2 DEF AdvisoriesKept
      <4>2. CASE Kind[id] = "MAL"
        BY <1>1, <4>1, <4>2
      <4>3. CASE Kind[id] = "malware"
        <5>1. id \in NeedDetail
          BY <4>1, <4>3 DEF NeedDetail
        <5>2. detail[id] \in {Kind[id], "error"}
          BY <1>2, <3>1, <5>1 DEF AdvisoriesKept
        <5> QED  BY <1>1, <4>1, <4>3, <5>2
      <4> QED  BY <1>1, <3>2, <4>2, <4>3
    <3> HIDE DEF kinds
    <3>3. Reports(OsvResult(listed[p], kinds))
      BY <3>2, KnownFacts DEF Malware
    <3> QED  BY <3>1, <3>3
  <2>2. CASE QueryOsv(p) /\ Build(p, OsvResult(Now(p), Kind))
    <3>1. Reports(OsvResult(Now(p), Kind))
      BY <1>1, KnownFacts DEF Malware
    <3> QED  BY <2>2, <3>1
  <2>3. CASE Build(p, OsvUnavailable)
    <3>1. Reports(OsvUnavailable)
      BY DEF OsvUnavailable
    <3> HIDE DEF Reports
    <3> QED  BY <2>3, <3>1
  <2> QED  BY <2>1, <2>2, <2>3 DEF QueryOsv
<1> DEFINE s == [Facts[p] EXCEPT !.malicious = o.knownMalicious, !.osvDown = o.unavailable]
<1>4. Facts[p] \in Signals
  BY TreeAssumption DEF TreeAssumption
<1>5. s \in Signals /\ s.malicious = o.knownMalicious /\ s.osvDown = o.unavailable
  BY <1>3, <1>4 DEF Signals
<1>6. /\ built' = [built EXCEPT ![p] = [st |-> "ok", signals |-> s]]
      /\ built[p] = NotBuilt /\ pc' = "scan"
      /\ UNCHANGED <<options, published, advisories, assessing, results, file, said>>
  BY <1>2, <1>3 DEF Build
<1> HIDE DEF s
<1> QED  BY <1>2, <1>3, <1>5, <1>6

LEMMA BuildFailsIs ==
  ASSUME NEW p \in Packages, BuildFails(p)
  PROVE  /\ pc = "scan" /\ pc' = "scan" /\ built[p] = NotBuilt
         /\ built' = [built EXCEPT ![p] = [st |-> "failed"]]
         /\ UNCHANGED <<options, published, advisories, assessing, results, file, said>>
BY DEF BuildFails

LEMMA BuildPc ==
  ASSUME TypeOK, AdvisoriesKept, BuildStep
  PROVE  pc = "scan" /\ pc' = "scan" /\ UNCHANGED <<advisories, assessing, results, file, said>>
BY BuildIs, BuildFailsIs DEF BuildStep

LEMMA BuildTypes ==
  ASSUME TypeOK, AdvisoriesKept, [Next]_vars
  PROVE  built' \in [Packages -> Building]
<1>1. built \in [Packages -> Building]
  BY DEF TypeOK
<1>2. ASSUME NEW p \in Packages, BuildSignals(p) \/ QueryOsv(p) PROVE built' \in [Packages -> Building]
  <2>1. PICK s \in Signals : built' = [built EXCEPT ![p] = [st |-> "ok", signals |-> s]]
    BY <1>2, BuildIs
  <2>2. [st |-> "ok", signals |-> s] \in Building
    BY DEF Building
  <2> QED  BY <1>1, <2>1, <2>2
<1>3. ASSUME NEW p \in Packages, BuildFails(p) PROVE built' \in [Packages -> Building]
  BY <1>1, <1>3, BuildFailsIs DEF Building
<1> QED  BY <1>1, <1>2, <1>3, BuildSteps DEF BuildStep

(* A malware record is not lost between the answer of OSV and the signals. *)
LEMMA AdvisoryStep ==
  ASSUME TypeOK, AdvisoriesKept, [Next]_vars
  PROVE  AdvisoriesKept'
<1> USE DEF AdvisoriesKept, Scanning, Goto
<1>1. UNCHANGED published
  BY Constants
<1>2. \A p : Now(p)' = Now(p) /\ Malware(p)' = Malware(p)
  BY <1>1 DEF Now, Malware
<1>3. ASSUME NEW ids \in [Packages -> SUBSET Ids], AnswerBatchQuery(ids) PROVE AdvisoriesKept'
  <2>1. /\ pc = "osv" /\ pc' = "detail" /\ listed' = ids
        /\ cut' = {p \in Packages : ids[p] # Now(p)}
        /\ UNCHANGED <<osv, detail, built>>
    BY <1>3 DEF AnswerBatchQuery
  <2>2. /\ osv' = "batch"
        /\ \A p \in Packages : built'[p] = NotBuilt /\ built'[p].st # "ok"
    BY <2>1 DEF NotBuilt
  <2>3. NeedDetail' \subseteq Ids
    BY <2>1 DEF NeedDetail
  <2>4. \A id \in NeedDetail' : detail'[id] = "pending"
    BY <2>1, <2>3
  <2> QED  BY <1>2, <2>1, <2>2, <2>4
<1>4. CASE OsvBatch
  <2>1. \A p : Now(p) \subseteq Ids
    BY DEF TypeOK, Now
  <2>2. PICK ids \in [Packages -> SUBSET Ids] : AnswerBatchQuery(ids)
    BY <1>4, <2>1 DEF OsvBatch
  <2> QED  BY <1>3, <2>2
<1>5. CASE OsvBatchFails
  BY <1>2, <1>5 DEF OsvBatchFails
<1>6. ASSUME NEW id \in Ids, OsvDetail(id, Kind[id]) \/ OsvDetail(id, "error") PROVE AdvisoriesKept'
  <2>1. PICK a \in {Kind[id], "error"} : OsvDetail(id, a)
    BY <1>6
  <2>2. /\ pc = "detail" /\ detail' = [detail EXCEPT ![id] = a]
        /\ UNCHANGED <<pc, osv, listed, cut, built>>
    BY <2>1 DEF OsvDetail
  <2>3. NeedDetail' = NeedDetail
    BY <2>2 DEF NeedDetail
  <2> QED  BY <1>2, <2>2, <2>3 DEF TypeOK
<1>7. CASE DetailsKnown
  <2>1. /\ pc = "detail" /\ pc' = "scan" /\ UNCHANGED <<osv, listed, cut, detail, built>>
        /\ \A id \in NeedDetail : detail[id] # "pending"
    BY <1>7 DEF DetailsKnown, advisories
  <2>2. NeedDetail' = NeedDetail
    BY <2>1 DEF NeedDetail
  <2> QED  BY <1>2, <2>1, <2>2
<1>8. ASSUME NEW p \in Packages, BuildSignals(p) \/ QueryOsv(p) PROVE AdvisoriesKept'
  <2>1. PICK s \in Signals : /\ built' = [built EXCEPT ![p] = [st |-> "ok", signals |-> s]]
                             /\ p \notin cut /\ Malware(p) => s.malicious \/ s.osvDown
    BY <1>8, BuildIs
  <2>2. pc = "scan" /\ pc' = "scan" /\ UNCHANGED <<osv, listed, cut, detail>>
    BY <1>8, BuildIs DEF advisories
  <2>3. NeedDetail' = NeedDetail
    BY <2>2 DEF NeedDetail
  <2>4. \A q \in Packages : IF q = p THEN built'[q] = [st |-> "ok", signals |-> s] ELSE built'[q] = built[q]
    BY <2>1 DEF TypeOK
  <2>5. ASSUME NEW q \in Packages, built'[q].st = "ok", q \notin cut, Malware(q)
        PROVE  built'[q].signals.malicious \/ built'[q].signals.osvDown
    <3>1. CASE q = p
      BY <2>1, <2>4, <2>5, <3>1
    <3>2. CASE q # p
      BY <2>4, <2>5, <3>2
    <3> QED  BY <3>1, <3>2
  <2> QED  BY <1>2, <2>2, <2>3, <2>5
<1>9. ASSUME NEW p \in Packages, BuildFails(p) PROVE AdvisoriesKept'
  <2>1. pc = "scan" /\ pc' = "scan" /\ UNCHANGED <<osv, listed, cut, detail>>
    BY <1>9, BuildFailsIs DEF advisories
  <2>2. NeedDetail' = NeedDetail
    BY <2>1 DEF NeedDetail
  <2>3. \A q \in Packages : built'[q].st = "ok" => built'[q] = built[q]
    BY <1>9, BuildFailsIs DEF TypeOK
  <2> QED  BY <1>2, <2>1, <2>2, <2>3
<1>10. CASE Scanned
  BY <1>2, <1>10 DEF Scanned
<1>11. CASE /\ UNCHANGED <<built, cut>> /\ pc \notin Scanning /\ pc' \notin Scanning
  BY <1>2, <1>11
<1>12. CASE UNCHANGED <<pc, advisories, built>>
  <2>1. UNCHANGED <<pc, osv, listed, cut, detail, built>>
    BY <1>12 DEF advisories
  <2>2. NeedDetail' = NeedDetail
    BY <2>1 DEF NeedDetail
  <2> QED  BY <1>2, <2>1, <2>2
<1>13. CASE ServeHits \/ AllAssessed \/ Saved
  BY <1>11, <1>13 DEF ServeHits, AllAssessed, Saved, advisories
<1>14. ASSUME NEW thrown, NEW found, Finalize(thrown, found) PROVE AdvisoriesKept'
  BY <1>11, <1>14 DEF Finalize, advisories
<1>15. CASE \/ AssessStep \/ FileStep \/ UNCHANGED vars
  BY <1>12, <1>13, <1>15 DEF AssessStep, FileStep, BatchFails, AnswerBatch, LookUp, AloneFails, AnswerAlone,
    ReadFile, ReplaceFile, WriteFails, Leave, Elsewhere, Turn, vars
<1> HIDE DEF AdvisoriesKept
<1> QED
  BY <1>5, <1>6, <1>7, <1>8, <1>9, <1>10, <1>13, <1>4, <1>14, <1>15 DEF Next, Review, AssessStep, FileStep

-----------------------------------------------------------------------------
(* Assessments. *)

(* Judges, after the step: neither the packages nor their signals change. *)
WillJudge(i, d) ==
  \E ai \in {"no_ai"} \cup {x \in AiAnswers : <<KeyAt(i), x>> \in said'} : d = AssessRisk(SignalsAt(i), ai)

LEMMA AlignedNext ==
  ASSUME UNCHANGED built,
         \A b \in batches' : b \subseteq DOMAIN Ok,
         \A i \in DOMAIN Ok : assessed'[i] # None => WillJudge(i, assessed'[i])
  PROVE  Aligned'
<1>1. Ok' = Ok /\ \A i : KeyAt(i)' = KeyAt(i) /\ SignalsAt(i)' = SignalsAt(i)
  BY SameOk
<1>2. \A b \in batches' : b \subseteq DOMAIN Ok'
  BY <1>1
<1>3. ASSUME NEW i \in DOMAIN Ok', assessed'[i] # None PROVE Judges(i, assessed[i])'
  <2>1. WillJudge(i, assessed'[i])
    BY <1>1, <1>3
  <2>2. KeyAt(i)' = KeyAt(i) /\ SignalsAt(i)' = SignalsAt(i)
    BY <1>1
  <2> HIDE DEF KeyAt, SignalsAt
  <2> QED  BY <2>1, <2>2 DEF Judges, WillJudge
<1> QED  BY <1>2, <1>3 DEF Aligned

LEMMA JudgesStill ==
  ASSUME said \subseteq said', NEW i, NEW d, Judges(i, d)
  PROVE  WillJudge(i, d)
BY DEF Judges, WillJudge

LEMMA AiJudges ==
  ASSUME NEW i, NEW d \in AiAnswers, <<KeyAt(i), d>> \in said'
  PROVE  WillJudge(i, ClampDecision(d, SignalsAt(i)))
<1>1. d # "no_ai"
  BY TreeAssumption DEF TreeAssumption, Decisions
<1>2. ClampDecision(d, SignalsAt(i)) = AssessRisk(SignalsAt(i), d)
  BY <1>1 DEF AssessRisk
<1> QED  BY <1>2 DEF WillJudge

LEMMA RulesJudge ==
  ASSUME NEW i
  PROVE  WillJudge(i, EvaluateRules(SignalsAt(i)))
BY DEF AssessRisk, WillJudge

LEMMA WillDecide ==
  ASSUME TypeOK, NEW i \in DOMAIN Ok, NEW d, WillJudge(i, d)
  PROVE  d \in Decisions
<1>1. SignalsAt(i) \in Signals
  BY KeyFacts
<1>2. PICK ai \in {"no_ai"} \cup AiAnswers : d = AssessRisk(SignalsAt(i), ai)
  BY DEF WillJudge
<1> QED  BY <1>1, <1>2, RiskDecides

LEMMA HitJudges ==
  ASSUME TypeOK, FileHonest, NEW i \in DOMAIN Ok, CacheHit(i), said \subseteq said'
  PROVE  WillJudge(i, ShapeCacheHit(i))
<1> DEFINE key == KeyAt(i)
<1>1. key \in DOMAIN cache
  BY DEF CacheHit, Hit
<1>2. cache[key].answer \in AiAnswers
  BY <1>1, ContentsAre DEF TypeOK
<1>3. <<key, cache[key].answer>> \in said
  BY <1>1 DEF FileHonest, HonestFile
<1>4. <<key, cache[key].answer>> \in said'
  BY <1>3
<1> QED  BY <1>2, <1>4, AiJudges DEF ShapeCacheHit

LEMMA BatchesOfOk ==
  \A b \in Batches : b \subseteq DOMAIN Ok
<1> DEFINE s == [i \in DOMAIN Ok |-> i]
           S == {i \in DOMAIN Ok : ~CacheHit(i)}
<1>1. Ok \in Seq(Packages) /\ Len(Ok) \in Nat /\ DOMAIN Ok = 1..Len(Ok)
  BY OkFacts
<1>2. s \in Seq(DOMAIN Ok) /\ IsInjective(s)
  <2>1. s \in [1..Len(Ok) -> DOMAIN Ok]
    BY <1>1
  <2>2. s \in Seq(DOMAIN Ok)
    BY <1>1, <2>1
  <2> QED  BY <2>2 DEF IsInjective
<1> HIDE DEF s, S
<1>3. Filters(s, S, DOMAIN Ok, Len(s), Misses)
  BY <1>2, AmongFilters DEF Misses, s, S
<1>4. Misses \in Seq(S \cap DOMAIN Ok)
  BY <1>3 DEF Filters
<1>5. \A k \in DOMAIN Misses : Misses[k] \in DOMAIN Ok
  BY <1>4
<1>6. ASSUME NEW b \in Batches PROVE b \subseteq DOMAIN Ok
  <2>1. PICK n : b = {Misses[k] : k \in {j \in DOMAIN Misses : (j - 1) \div BatchSize = n}}
    BY DEF Batches
  <2> QED  BY <1>5, <2>1
<1> QED  BY <1>6

(* What is not assessed anew was assessed for what it is. *)
LEMMA AssessedStill ==
  ASSUME Aligned, pc \in Assessing, said \subseteq said', NEW i \in DOMAIN Ok, assessed[i] # None
  PROVE  WillJudge(i, assessed[i])
BY JudgesStill DEF Aligned

(* One package by itself is assessed for what it is. *)
LEMMA OneAssessed ==
  ASSUME TypeOK, Aligned, pc = "assess", said \subseteq said', UNCHANGED <<built, batches>>,
         NEW i \in DOMAIN Ok, NEW d, assessed' = [assessed EXCEPT ![i] = d],
         d # None => WillJudge(i, d)
  PROVE  Aligned'
<1>1. assessed \in [Places -> Decisions \cup {None}] /\ DOMAIN Ok \subseteq Places
  BY OkFacts DEF TypeOK
<1>2. ASSUME NEW j \in DOMAIN Ok, assessed'[j] # None PROVE WillJudge(j, assessed'[j])
  <2>1. CASE j = i
    <3>1. assessed'[j] = d
      BY <1>1, <2>1
    <3> QED  BY <1>2, <2>1, <3>1
  <2>2. CASE j # i
    <3>1. assessed'[j] = assessed[j]
      BY <1>1, <2>2
    <3> QED  BY <1>2, <3>1, AssessedStill DEF Assessing
  <2> QED  BY <2>1, <2>2
<1>3. \A b \in batches' : b \subseteq DOMAIN Ok
  BY DEF Aligned, Assessing
<1> QED  BY <1>2, <1>3, AlignedNext

LEMMA AlignedStep ==
  ASSUME TypeOK, FileHonest, FileKept, AdvisoriesKept, Aligned, [Next]_vars
  PROVE  Aligned'
<1>1. said \subseteq said'
  BY FileTypes
<1>2. CASE ServeHits
  <2>1. /\ UNCHANGED built /\ batches' = Batches
        /\ assessed' = [i \in Places |-> IF i \in DOMAIN Ok /\ CacheHit(i) THEN ShapeCacheHit(i) ELSE None]
    BY <1>2 DEF ServeHits
  <2>2. ASSUME NEW i \in DOMAIN Ok, assessed'[i] # None PROVE WillJudge(i, assessed'[i])
    <3>1. i \in Places
      BY OkFacts
    <3>2. CacheHit(i) /\ assessed'[i] = ShapeCacheHit(i)
      BY <2>1, <2>2, <3>1
    <3> QED  BY <1>1, <3>2, HitJudges
  <2> QED  BY <2>1, <2>2, BatchesOfOk, AlignedNext
<1>3. ASSUME NEW b \in batches, BatchFails(b) PROVE Aligned'
  <2>1. /\ pc = "assess" /\ UNCHANGED built /\ batches' \subseteq batches
        /\ assessed' = [i \in Places |-> IF i \in b THEN EvaluateRules(SignalsAt(i)) ELSE assessed[i]]
    BY <1>3 DEF BatchFails
  <2>2. ASSUME NEW i \in DOMAIN Ok, assessed'[i] # None PROVE WillJudge(i, assessed'[i])
    <3>1. i \in Places
      BY OkFacts
    <3>2. CASE i \in b
      BY <2>1, <3>1, <3>2, RulesJudge
    <3>3. CASE i \notin b
      BY <1>1, <2>1, <2>2, <3>1, <3>3, AssessedStill DEF Assessing
    <3> QED  BY <3>2, <3>3
  <2>3. \A c \in batches' : c \subseteq DOMAIN Ok
    BY <2>1 DEF Aligned, Assessing
  <2> QED  BY <2>1, <2>2, <2>3, AlignedNext
<1>4. ASSUME NEW b \in batches, NEW says \in Says(b), AnswerBatch(b, says) PROVE Aligned'
  <2>1. /\ pc = "assess" /\ UNCHANGED built /\ batches' \subseteq batches /\ b \subseteq DOMAIN Ok
        /\ assessed' = [i \in Places |-> IF i \in DOMAIN says THEN ClampDecision(says[i], SignalsAt(i))
                                         ELSE assessed[i]]
        /\ said' = said \cup {<<key, SaysOf(says)[key]>> : key \in DOMAIN SaysOf(says)}
    BY <1>4, AnswerBatchIs
  <2>2. ASSUME NEW i \in DOMAIN Ok, assessed'[i] # None PROVE WillJudge(i, assessed'[i])
    <3>1. i \in Places
      BY OkFacts
    <3>2. CASE i \in DOMAIN says
      <4>0. /\ \A j \in DOMAIN says : says[j] \in AiAnswers /\ SaysOf(says)[KeyAt(j)] = says[j]
            /\ DOMAIN SaysOf(says) = {KeyAt(j) : j \in DOMAIN says}
        BY <2>1, SaysFacts
      <4>1. /\ says[i] \in AiAnswers /\ KeyAt(i) \in DOMAIN SaysOf(says)
            /\ SaysOf(says)[KeyAt(i)] = says[i]
        BY <3>2, <4>0
      <4>2. <<KeyAt(i), says[i]>> \in said'
        BY <2>1, <4>1
      <4> QED  BY <2>1, <3>1, <3>2, <4>1, <4>2, AiJudges
    <3>3. CASE i \notin DOMAIN says
      BY <1>1, <2>1, <2>2, <3>1, <3>3, AssessedStill DEF Assessing
    <3> QED  BY <3>2, <3>3
  <2>3. \A c \in batches' : c \subseteq DOMAIN Ok
    BY <2>1 DEF Aligned, Assessing
  <2> QED  BY <2>1, <2>2, <2>3, AlignedNext
<1>5. ASSUME NEW i \in Places, LookUp(i) PROVE Aligned'
  <2> DEFINE d == IF CacheHit(i) THEN ShapeCacheHit(i) ELSE None
  <2>1. /\ pc = "assess" /\ i \in DOMAIN Ok /\ assessed' = [assessed EXCEPT ![i] = d]
        /\ UNCHANGED <<built, batches>>
    BY <1>5 DEF LookUp, Turn, Assess
  <2>2. d # None => WillJudge(i, d)
    BY <1>1, <2>1, HitJudges
  <2> HIDE DEF d
  <2> QED  BY <1>1, <2>1, <2>2, OneAssessed
<1>6. ASSUME NEW i \in Places, AloneFails(i) PROVE Aligned'
  <2> DEFINE d == EvaluateRules(SignalsAt(i))
  <2>1. /\ pc = "assess" /\ i \in DOMAIN Ok /\ assessed' = [assessed EXCEPT ![i] = d]
        /\ UNCHANGED <<built, batches>>
    BY <1>6 DEF AloneFails, Turn, Assess
  <2>2. WillJudge(i, d)
    BY RulesJudge
  <2> HIDE DEF d
  <2> QED  BY <1>1, <2>1, <2>2, OneAssessed
<1>7. ASSUME NEW i \in Places, NEW a \in AiAnswers, AnswerAlone(i, a) PROVE Aligned'
  <2> DEFINE d == ClampDecision(a, SignalsAt(i))
  <2>1. /\ pc = "assess" /\ i \in DOMAIN Ok /\ assessed' = [assessed EXCEPT ![i] = d]
        /\ UNCHANGED <<built, batches>> /\ said' = said \cup {<<KeyAt(i), a>>}
    BY <1>7, AnswerAloneIs
  <2>2. WillJudge(i, d)
    BY <2>1, AiJudges
  <2> HIDE DEF d
  <2> QED  BY <1>1, <2>1, <2>2, OneAssessed
<1>8. CASE BuildStep
  BY <1>8, BuildPc DEF Aligned, Assessing
<1>9. CASE UNCHANGED <<batches, assessed, built>> /\ (pc' \in Assessing => pc \in Assessing)
  <2>1. CASE pc' \in Assessing
    BY <1>1, <1>9, <2>1, AssessedStill, AlignedNext DEF Aligned
  <2>2. CASE pc' \notin Assessing
    BY <2>2 DEF Aligned
  <2> QED  BY <2>1, <2>2
<1> QED
  BY <1>2, <1>3, <1>4, <1>5, <1>6, <1>7, <1>8, <1>9, AssessSteps, BuildSteps DEF AssessStep


-----------------------------------------------------------------------------
(* The types of what is left. *)

LEMMA PhaseTypes ==
  ASSUME TypeOK, [Next]_vars
  PROVE  pc' \in Scanning \cup {"lookup"} \cup Assessing
BY DEF TypeOK, Scanning, Assessing, Goto, Turn, Next, Review, OsvBatch, AnswerBatchQuery, OsvBatchFails, DetailsKnown,
  OsvDetail, BuildSignals, QueryOsv, Build, BuildFails, Scanned, ServeHits, BatchFails, AnswerBatch, LookUp, AloneFails,
  AnswerAlone, AllAssessed, Saved, ReadFile, ReplaceFile, WriteFails, Leave, Finalize, Elsewhere, vars

DetailStep ==
  \/ \E id \in Ids : OsvDetail(id, Kind[id]) \/ OsvDetail(id, "error")
  \/ Scanned

LEMMA DetailSteps ==
  ASSUME [Next]_vars
  PROVE  DetailStep \/ UNCHANGED detail
BY DEF DetailStep, Next, Review, OsvBatch, AnswerBatchQuery, OsvBatchFails, DetailsKnown, BuildSignals,
  QueryOsv, Build, BuildFails, ServeHits, BatchFails, AnswerBatch, LookUp, AloneFails, AnswerAlone, AllAssessed,
  Saved, ReadFile, ReplaceFile, WriteFails, Leave, Finalize, Elsewhere, advisories, vars

LEMMA DetailTypes ==
  ASSUME TypeOK, [Next]_vars
  PROVE  detail' \in [Ids -> {"pending", "MAL", "malware", "advisory", "error"}]
<1> DEFINE D == {"pending", "MAL", "malware", "advisory", "error"}
<1>1. detail \in [Ids -> D]
  BY DEF TypeOK
<1>2. ASSUME NEW id \in Ids, OsvDetail(id, Kind[id]) \/ OsvDetail(id, "error") PROVE detail' \in [Ids -> D]
  <2>1. Kind[id] \in D
    BY TreeAssumption DEF TreeAssumption
  <2>2. \E a \in D : detail' = [detail EXCEPT ![id] = a]
    BY <1>2, <2>1 DEF OsvDetail
  <2> QED  BY <1>1, <2>2
<1>3. CASE Scanned
  BY <1>3 DEF Scanned
<1> QED  BY <1>1, <1>2, <1>3, DetailSteps DEF DetailStep

LEMMA AssessTypes ==
  ASSUME TypeOK, FileHonest, FileKept, Aligned, [Next]_vars
  PROVE  assessed' \in [Places -> Decisions \cup {None}]
<1> DEFINE D == Decisions \cup {None}
<1>1. assessed \in [Places -> D]
  BY DEF TypeOK
<1>2. said \subseteq said'
  BY FileTypes
<1>3. \A i \in DOMAIN Ok : EvaluateRules(SignalsAt(i)) \in D
  BY KeyFacts, RulesDecide
<1>4. \A i \in DOMAIN Ok : CacheHit(i) => ShapeCacheHit(i) \in D
  BY <1>2, HitJudges, WillDecide
<1>5. \A i \in DOMAIN Ok : \A d \in AiAnswers : ClampDecision(d, SignalsAt(i)) \in D
  <2> TAKE i \in DOMAIN Ok
  <2> TAKE d \in AiAnswers
  <2>1. d \in Decisions /\ EvaluateRules(SignalsAt(i)) \in Decisions
    BY KeyFacts, RulesDecide, TreeAssumption DEF TreeAssumption
  <2> QED  BY <2>1, StricterFacts DEF ClampDecision
<1> HIDE DEF D
<1>6. None \in D
  BY DEF D
<1>7. ASSUME ServeHits PROVE assessed' \in [Places -> D]
  <2> DEFINE h(i) == IF i \in DOMAIN Ok /\ CacheHit(i) THEN ShapeCacheHit(i) ELSE None
  <2>1. assessed' = [i \in Places |-> h(i)]
    BY <1>7 DEF ServeHits
  <2>2. ASSUME NEW i \in Places PROVE h(i) \in D
    <3>1. CASE i \in DOMAIN Ok /\ CacheHit(i)
      BY <1>4, <3>1
    <3>2. CASE ~(i \in DOMAIN Ok /\ CacheHit(i))
      BY <1>6, <3>2
    <3> QED  BY <3>1, <3>2
  <2> HIDE DEF h
  <2> QED  BY <2>1, <2>2
<1>8. ASSUME NEW b \in batches, BatchFails(b) PROVE assessed' \in [Places -> D]
  <2>1. assessed' = [i \in Places |-> IF i \in b THEN EvaluateRules(SignalsAt(i)) ELSE assessed[i]]
    BY <1>8 DEF BatchFails
  <2>2. b \subseteq DOMAIN Ok
    BY <1>8 DEF BatchFails, Aligned, Assessing
  <2> QED  BY <1>1, <1>3, <2>1, <2>2
<1>9. ASSUME NEW b \in batches, NEW says \in Says(b), AnswerBatch(b, says) PROVE assessed' \in [Places -> D]
  <2>1. /\ b \subseteq DOMAIN Ok
        /\ assessed' = [i \in Places |-> IF i \in DOMAIN says THEN ClampDecision(says[i], SignalsAt(i))
                                         ELSE assessed[i]]
    BY <1>9, AnswerBatchIs
  <2>2. \A i \in DOMAIN says : i \in DOMAIN Ok /\ says[i] \in AiAnswers
    BY <2>1, SaysFacts
  <2> QED  BY <1>1, <1>5, <2>1, <2>2
<1>10. ASSUME NEW i \in Places, NEW d \in D, assessed' = [assessed EXCEPT ![i] = d]
       PROVE  assessed' \in [Places -> D]
  BY <1>1, <1>10
<1>11. ASSUME NEW i \in Places, LookUp(i) PROVE assessed' \in [Places -> D]
  <2>1. i \in DOMAIN Ok /\ assessed' = [assessed EXCEPT ![i] = IF CacheHit(i) THEN ShapeCacheHit(i) ELSE None]
    BY <1>11 DEF LookUp, Turn, Assess
  <2> QED  BY <1>4, <1>6, <1>10, <2>1
<1>12. ASSUME NEW i \in Places, AloneFails(i) PROVE assessed' \in [Places -> D]
  <2>1. i \in DOMAIN Ok /\ assessed' = [assessed EXCEPT ![i] = EvaluateRules(SignalsAt(i))]
    BY <1>12 DEF AloneFails, Turn, Assess
  <2> QED  BY <1>3, <1>10, <2>1
<1>13. ASSUME NEW i \in Places, NEW d \in AiAnswers, AnswerAlone(i, d) PROVE assessed' \in [Places -> D]
  <2>1. i \in DOMAIN Ok /\ assessed' = [assessed EXCEPT ![i] = ClampDecision(d, SignalsAt(i))]
    BY <1>13, AnswerAloneIs
  <2> QED  BY <1>5, <1>10, <2>1
<1>14. assessed' \in [Places -> D]
  <2>1. CASE UNCHANGED assessed
    BY <1>1, <2>1
  <2>2. CASE AssessStep
    <3>1. CASE \E b \in batches : BatchFails(b) \/ \E says \in Says(b) : AnswerBatch(b, says)
      BY <1>8, <1>9, <3>1
    <3>2. CASE \E i \in Places : LookUp(i) \/ AloneFails(i) \/ \E d \in AiAnswers : AnswerAlone(i, d)
      BY <1>11, <1>12, <1>13, <3>2
    <3> QED  BY <1>7, <2>2, <3>1, <3>2 DEF AssessStep
  <2> QED  BY <2>1, <2>2, AssessSteps
<1> QED  BY <1>14 DEF D

LEMMA TypeStep ==
  ASSUME TypeOK, FileHonest, FileKept, AdvisoriesKept, Aligned, [Next]_vars
  PROVE  TypeOK'
<1>1. options' \in Options /\ published' \subseteq Ids
  BY Constants DEF TypeOK
<1>2. FileTyped'
  BY FileTypes
<1> QED  BY <1>1, <1>2, PhaseTypes, DetailTypes, AssessTypes, BuildTypes DEF TypeOK, FileTyped

-----------------------------------------------------------------------------
(* Results. *)

(* What OwnVerdict says of the result of p, before and after a step. *)
Owns(p, r) ==
  \/ r = ErrorResult
  \/ /\ built[p].st = "ok"
     /\ LET s == built[p].signals
        IN \E ai \in {"no_ai"} \cup {d \in AiAnswers : <<CacheKey(p, s), d>> \in said} :
             \E f \in Audits : r = Result(Analyze(s, ai, options.failOnOsvError, Policy[p], f), s)

WillOwn(p, r) ==
  \/ r = ErrorResult
  \/ /\ built[p].st = "ok"
     /\ LET s == built[p].signals
        IN \E ai \in {"no_ai"} \cup {d \in AiAnswers : <<CacheKey(p, s), d>> \in said'} :
             \E f \in Audits : r = Result(Analyze(s, ai, options.failOnOsvError, Policy[p], f), s)

LEMMA OwnVerdictIs ==
  OwnVerdict <=> \A p \in Packages : results[p] # NoResult => Owns(p, results[p])
BY Zenon DEF OwnVerdict, Owns

LEMMA OwnVerdictNext ==
  ASSUME UNCHANGED <<options, built>>,
         \A p \in Packages : results'[p] # NoResult => WillOwn(p, results'[p])
  PROVE  OwnVerdict'
BY DEF OwnVerdict, WillOwn

(* Nothing a result rests on is taken back. *)
LEMMA OwnsStill ==
  ASSUME said \subseteq said', NEW p, NEW r, Owns(p, r)
  PROVE  WillOwn(p, r)
BY DEF Owns, WillOwn

(* What is finalized is the assessment of the package itself. *)
LEMMA FinalizedOwns ==
  ASSUME TypeOK, Aligned, AdvisoriesKept, pc = "finalize", NEW p \in Packages, built[p].st # "failed",
         NEW f \in Audits
  PROVE  Owns(p, Finalized(p, f))
<1> DEFINE s == built[p].signals
           i == PlaceOf(p)
           d == assessed[i]
<1>1. built[p].st = "ok"
  BY DEF TypeOK, Building, AdvisoriesKept, Scanning, NotBuilt
<1>2. /\ i \in DOMAIN Ok /\ SignalsAt(i) = s /\ KeyAt(i) = CacheKey(p, s)
  BY <1>1, KeyFacts
<1>3. CASE d = None
  BY <1>3, Zenon DEF Finalized, Owns
<1>4. CASE d # None
  <2>1. Judges(i, d)
    BY <1>2, <1>4 DEF Aligned, Assessing
  <2> HIDE DEF d, i, s
  <2>2. PICK ai \in {"no_ai"} \cup {x \in AiAnswers : <<CacheKey(p, s), x>> \in said} : d = AssessRisk(s, ai)
    BY <1>2, <2>1 DEF Judges
  <2>3. Audited(s, d, p, f) = Analyze(s, ai, options.failOnOsvError, Policy[p], f)
    BY <2>2, Zenon DEF Audited, Analyze
  <2>4. Finalized(p, f) = Result(Audited(s, d, p, f), s)
    BY <1>4, Zenon DEF Finalized, d, i, s
  <2>5. Finalized(p, f) = Result(Analyze(s, ai, options.failOnOsvError, Policy[p], f), s)
    BY <2>3, <2>4
  <2> QED  BY <1>1, <2>2, <2>5, Zenon DEF Owns, s
<1> QED  BY <1>3, <1>4

LEMMA ResultSteps ==
  ASSUME [Next]_vars
  PROVE  \/ \E thrown \in SUBSET Packages : \E found \in [Packages -> Audits] : Finalize(thrown, found)
         \/ UNCHANGED results /\ (pc' # "done" \/ pc = "done")
BY DEF Goto, Next, Review, OsvBatch, AnswerBatchQuery, OsvBatchFails, DetailsKnown, OsvDetail, Turn,
  BuildSignals, QueryOsv, Build, BuildFails, Scanned, ServeHits, BatchFails, AnswerBatch, LookUp, AloneFails,
  AnswerAlone, AllAssessed, Saved, ReadFile, ReplaceFile, WriteFails, Leave, Elsewhere, vars

LEMMA DoneStays ==
  ASSUME [Next]_vars, pc = "done"
  PROVE  pc' = "done"
BY DEF Goto, Next, Review, OsvBatch, AnswerBatchQuery, OsvBatchFails, DetailsKnown, OsvDetail, Turn,
  BuildSignals, QueryOsv, Build, BuildFails, Scanned, ServeHits, BatchFails, AnswerBatch, LookUp, AloneFails,
  AnswerAlone, AllAssessed, Saved, ReadFile, ReplaceFile, WriteFails, Leave, Finalize, Elsewhere, vars

LEMMA DeliveredStep ==
  ASSUME TypeOK, FileKept, AdvisoriesKept, Aligned, Delivered, [Next]_vars
  PROVE  Delivered'
<1>1. UNCHANGED options /\ said \subseteq said'
  BY Constants, FileTypes
<1>2. \A p \in Packages : results[p] # NoResult => Owns(p, results[p])
  BY OwnVerdictIs DEF Delivered
<1>3. ASSUME NEW thrown \in SUBSET Packages, NEW found \in [Packages -> Audits], Finalize(thrown, found)
      PROVE  Delivered'
  <2>1. /\ pc = "finalize" /\ pc' = "done" /\ UNCHANGED built
        /\ results' = [p \in Packages |-> IF p \in thrown \/ built[p].st = "failed" THEN ErrorResult
                                          ELSE Finalized(p, found[p])]
    BY <1>3 DEF Finalize, Goto
  <2>2. ASSUME NEW p \in Packages PROVE Owns(p, results'[p])
    <3>1. CASE p \in thrown \/ built[p].st = "failed"
      BY <2>1, <3>1 DEF Owns
    <3>2. CASE ~(p \in thrown \/ built[p].st = "failed")
      <4>1. found[p] \in Audits /\ results'[p] = Finalized(p, found[p])
        BY <2>1, <3>2
      <4> QED  BY <2>1, <3>2, <4>1, FinalizedOwns
    <3> QED  BY <3>1, <3>2
  <2>3. OwnVerdict'
    BY <1>1, <2>1, <2>2, OwnsStill, OwnVerdictNext
  <2> QED  BY <2>1, <2>3 DEF Delivered
<1>4. CASE UNCHANGED results /\ (pc' # "done" \/ pc = "done")
  <2>1. CASE pc # "done"
    <3>1. \A p \in Packages : results'[p] = NoResult
      BY <1>4, <2>1 DEF Delivered
    <3> QED  BY <3>1 DEF Delivered, OwnVerdict
  <2>2. CASE pc = "done"
    <3>1. UNCHANGED built
      BY <2>2, BuildPc, BuildSteps
    <3>2. OwnVerdict'
      BY <1>1, <1>2, <1>4, <3>1, OwnsStill, OwnVerdictNext
    <3>3. CASE pc' = "done"
      BY <3>2, <3>3 DEF Delivered
    <3>4. CASE pc' # "done"
      BY <2>2, <3>4, DoneStays
    <3> QED  BY <3>3, <3>4
  <2> QED  BY <2>1, <2>2
<1> QED  BY <1>3, <1>4, ResultSteps

-----------------------------------------------------------------------------
(***************************************************************************)
(* The theorems.                                                           *)
(***************************************************************************)

LEMMA InvInit == Init => Inv
<1> SUFFICES ASSUME Init PROVE Inv
  OBVIOUS
<1>1. TypeOK
  BY TypeInit
<1>2. FileHonest
  BY DEF Init, FileHonest, Honest, HonestFile, NoAnswers
<1>3. FileKept
  BY DEF Init, FileKept
<1>4. AdvisoriesKept
  BY DEF Init, AdvisoriesKept, NotBuilt, Scanning
<1>5. Aligned
  BY DEF Init, Aligned, Assessing
<1>6. Delivered
  BY DEF Init, Delivered, OwnVerdict
<1> QED  BY <1>1, <1>2, <1>3, <1>4, <1>5, <1>6 DEF Inv

LEMMA InvStep == Inv /\ [Next]_vars => Inv'
BY TypeStep, HonestStep, KeptStep, AdvisoryStep, AlignedStep, DeliveredStep DEF Inv

(* What is known of a package at each stage of the review, whatever fails. *)
THEOREM TreeInvariance == Spec => []Inv
BY InvInit, InvStep, PTL DEF Spec

(* Every entry of the cache file is an answer the AI gave for the package and
   the signals of its key (writeCacheSafe of src/src/ai.ts).                 *)
THEOREM CacheStaysHonest == Spec => []CacheHonest
<1>1. Inv => CacheHonest
  BY DEF Inv, FileHonest, HonestFile, CacheHonest
<1> QED  BY <1>1, TreeInvariance, PTL

(* While no other process touches the file, no answer this process has written
   is lost to a later write of its own (enqueueWrite of src/src/ai.ts).      *)
THEOREM OwnAnswersStay == Spec => []OwnAnswersKept
<1>1. Inv => OwnAnswersKept
  BY DEF Inv, FileKept, OwnAnswersKept
<1> QED  BY <1>1, TreeInvariance, PTL

(* The result of a package rests on its own signals and on what the AI said of
   them, whatever the batches leave out and whichever packages fail
   (analyzeTreeBatched, assessManyWithCache).                                *)
THEOREM VerdictsAreOwn == Spec => []OwnVerdict
<1>1. Inv => OwnVerdict
  BY DEF Inv, Delivered
<1> QED  BY <1>1, TreeInvariance, PTL

(* A package OSV has a malware record of is blocked, or its failure is visible
   in its result (queryOsvBatch, queryOsv, applyOsvFailurePolicy).           *)
THEOREM NothingPassesAsClean == Spec => []NeverSilentlyClean
<1>1. ASSUME Inv PROVE NeverSilentlyClean
  <2> SUFFICES ASSUME NEW p \in Packages, results[p] # NoResult, p \notin cut, Malware(p),
                      results[p] # ErrorResult
               PROVE  \/ results[p] = [decision |-> "block", hard |-> TRUE]
                      \/ /\ built[p].signals.osvDown
                         /\ \/ ~options.failOnOsvError
                            \/ "allowKnownPackages" \in Policy[p].lists
                            \/ NeedsHuman(results[p].decision)
    BY DEF NeverSilentlyClean, Malware
  <2> DEFINE s == built[p].signals
             closed == options.failOnOsvError
  <2>1. built[p].st = "ok" /\ s \in Signals
    BY <1>1, KeyFacts, OwnVerdictIs DEF Inv, Delivered, Owns
  <2>2. PICK ai \in {"no_ai"} \cup AiAnswers, f \in Audits :
          results[p] = Result(Analyze(s, ai, closed, Policy[p], f), s)
    <3>1. Owns(p, results[p])
      BY <1>1, OwnVerdictIs DEF Inv, Delivered
    <3> QED  BY <3>1 DEF Owns
  <2>3. s.malicious \/ s.osvDown
    BY <1>1, <2>1 DEF Inv, AdvisoriesKept
  <2>4. Policy[p] \in Policies /\ f \in Findings /\ closed \in BOOLEAN
    BY <1>1, TreeAssumption DEF TreeAssumption, Inv, TypeOK
  <2> HIDE DEF s, closed
  <2>5. /\ results[p].decision = Analyze(s, ai, closed, Policy[p], f)
        /\ results[p] = [decision |-> results[p].decision, hard |-> IsHardBlock(s)]
    BY <2>2 DEF Result
  <2>6. CASE s.malicious
    <3>1. results[p].decision = "block"
      BY <2>1, <2>4, <2>5, <2>6, MalwareBlocks
    <3>2. IsHardBlock(s)
      BY <2>6 DEF IsHardBlock
    <3> QED  BY <2>5, <3>1, <3>2
  <2>7. CASE s.osvDown
    <3>1. closed /\ "allowKnownPackages" \notin Policy[p].lists => NeedsHuman(results[p].decision)
      BY <2>1, <2>4, <2>5, <2>7, UnknownNeedsHuman
    <3> QED  BY <2>7, <3>1 DEF s, closed
  <2> QED  BY <2>3, <2>6, <2>7
<1> QED  BY <1>1, TreeInvariance, PTL

=============================================================================
