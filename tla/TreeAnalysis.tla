----------------------------- MODULE TreeAnalysis -----------------------------
(***************************************************************************)
(* The review of a dependency tree with an AI provider:                    *)
(* analyzeTransitiveDeps and analyzeTreeBatched of src/src/transitive.ts,  *)
(* queryOsvBatch and queryOsv of src/src/osv.ts, assessManyWithCache and   *)
(* assessWithCache of src/src/ai.ts with the cache file of AiCache.        *)
(*                                                                         *)
(* Advisories are asked for the whole tree at once, signals are built per  *)
(* package, the AI judges what the cache does not know in batches, and each*)
(* verdict is finalized by itself.  Every one of these requests may fail,  *)
(* and other processes use the cache file meanwhile.                       *)
(***************************************************************************)
EXTENDS Verdict, AiCache, SequencesExt

CONSTANTS
  Order,        \* the packages of the tree, in the order of the lockfile
  Facts,        \* Facts[p]: its signals, but for the advisories
  Policy,       \* Policy[p]: how the team policy bears on p
  Records,      \* Records[p]: ids of the advisories about p
  Kind,         \* Kind[id]: "MAL" by its id, or "malware" or "advisory" by its text
  Publications, \* sets of ids OSV may know
  AiAnswers,    \* decisions the AI may give
  Audits,       \* worst findings the source audit may report
  BatchSize,    \* packages assessed in one request
  Options,      \* of the command
  Files,        \* contents the cache file may have at the start
  MaxOthers     \* bound on what other processes do to the cache file

Packages == {Order[i] : i \in DOMAIN Order}
Ids == UNION {Records[p] : p \in Packages}
Places == DOMAIN Order

ASSUME TreeAssumption ==
  /\ Order \in Seq(Packages) /\ IsInjective(Order)
  /\ Facts \in [Packages -> {s \in Signals : ~s.malicious /\ ~s.osvDown}]
  /\ Policy \in [Packages -> Policies]
  /\ Kind \in [Ids -> {"MAL", "malware", "advisory"}]
  /\ Publications \subseteq SUBSET Ids
  /\ AiAnswers \subseteq Decisions /\ Audits \subseteq Findings
  /\ Options \subseteq [failOnOsvError: BOOLEAN, cache: Settings(Packages)]
  /\ \A f \in Files : f \in [DOMAIN f -> [answer: AiAnswers, fresh: BOOLEAN]]
  /\ {BatchSize, MaxOthers} \subseteq Nat /\ BatchSize # 0

VARIABLES
  options,   \* of this command
  published, \* the ids OSV has
  pc,        \* the phase of the review
  osv,       \* "batch": OSV answered for the tree; "each": every package asks
  listed,    \* the ids that answer names for p
  cut,       \* packages about which it names fewer than there are
  detail,    \* what is known of each id
  built,     \* the signals of p, once built
  batches,   \* sets of places whose batch request is under way
  turn,      \* where the assessment at each place stands
  assessed,  \* the assessments, aligned with Ok
  told,      \* the answers of the batches, to be cached at the end
  results,   \* the final results
  cache,     \* the cache file
  queue,     \* this process's writes to it, in order
  others,    \* number of things other processes did to it
  said,      \* history: the answers the AI gave, with their keys
  saved      \* history: the keys this process has written

advisories == <<osv, listed, cut, detail>>
assessing == <<batches, turn, assessed, told>>
file == <<cache, queue, others, saved>>
vars == <<options, published, pc, advisories, built, assessing, results, file, said>>

None == "none"
NotBuilt == [st |-> "waiting"]
NoResult == [decision |-> None, hard |-> FALSE]
NoAnswers == [key \in {} |-> None]

Init ==
  /\ options \in Options
  /\ published \in Publications
  /\ pc = "osv"
  /\ osv = "batch"
  /\ listed = [p \in Packages |-> {}]
  /\ cut = {}
  /\ detail = [id \in Ids |-> "pending"]
  /\ built = [p \in Packages |-> NotBuilt]
  /\ batches = {}
  /\ turn = [i \in Places |-> "idle"]
  /\ assessed = [i \in Places |-> None]
  /\ told = NoAnswers
  /\ results = [p \in Packages |-> NoResult]
  /\ cache \in Files
  /\ queue = <<>>
  /\ others = 0
  /\ said = {<<key, cache[key].answer>> : key \in DOMAIN cache}
  /\ saved = {}

Goto(from, to) == pc = from /\ pc' = to

-----------------------------------------------------------------------------
(* OSV for the whole tree. *)

Now(p) == published \cap Records[p]

AnswerBatchQuery(ids) ==
  /\ Goto("osv", "detail")
  /\ listed' = ids
  /\ cut' = {p \in Packages : ids[p] # Now(p)}
  /\ UNCHANGED <<options, published, osv, detail, built, assessing, results, file, said>>

(* queryOsvBatch, whose answer may lack its last entries or name a further
   page of ids, which nothing asks for.                                      *)
OsvBatch ==
  \/ AnswerBatchQuery([p \in Packages |-> Now(p)])
  \/ \E p \in Packages : AnswerBatchQuery([q \in Packages |-> IF q = p THEN {} ELSE Now(q)])

(* The whole request fails: each package asks for itself. *)
OsvBatchFails ==
  /\ Goto("osv", "scan")
  /\ osv' = "each"
  /\ UNCHANGED <<options, published, listed, cut, detail, built, assessing, results, file, said>>

(* A MAL- id needs no text. *)
NeedDetail == {id \in UNION {listed[p] : p \in Packages} : Kind[id] # "MAL"}

OsvDetail(id, as) ==
  /\ pc = "detail"
  /\ id \in NeedDetail /\ detail[id] = "pending"
  /\ as \in {Kind[id], "error"}
  /\ detail' = [detail EXCEPT ![id] = as]
  /\ UNCHANGED <<options, published, pc, osv, listed, cut, built, assessing, results, file, said>>

DetailsKnown ==
  /\ Goto("detail", "scan")
  /\ \A id \in NeedDetail : detail[id] # "pending"
  /\ UNCHANGED <<options, published, advisories, built, assessing, results, file, said>>

(* OsvResult, as it bears on the signals; kinds[id] is what is known of id. *)
OsvUnavailable == [knownMalicious |-> FALSE, unavailable |-> TRUE]
OsvResultTrustingErrors(ids, kinds) ==
  [knownMalicious |-> \E id \in ids : kinds[id] \in {"MAL", "malware"}, unavailable |-> FALSE]
OsvResult(ids, kinds) ==
  [knownMalicious |-> \E id \in ids : kinds[id] \in {"MAL", "malware"},
   unavailable |-> \E id \in ids : kinds[id] = "error"]

BatchResult(p) == OsvResult(listed[p], [id \in Ids |-> IF Kind[id] = "MAL" THEN "MAL" ELSE detail[id]])

-----------------------------------------------------------------------------
(* Signals, for every package by itself. *)

Build(p, o) ==
  /\ pc = "scan" /\ built[p] = NotBuilt
  /\ built' = [built EXCEPT ![p] = [st |-> "ok", signals |->
       [Facts[p] EXCEPT !.malicious = o.knownMalicious, !.osvDown = o.unavailable]]]
  /\ UNCHANGED <<options, published, pc, advisories, assessing, results, file, said>>

BuildSignals(p) == osv = "batch" /\ Build(p, BatchResult(p))

(* A failure of this query makes the advisories of p unknown. *)
QueryOsv(p) ==
  /\ osv = "each"
  /\ Build(p, OsvResult(Now(p), Kind)) \/ Build(p, OsvUnavailable)

BuildFails(p) ==
  /\ pc = "scan" /\ built[p] = NotBuilt
  /\ built' = [built EXCEPT ![p] = [st |-> "failed"]]
  /\ UNCHANGED <<options, published, pc, advisories, assessing, results, file, said>>

(* The elements of s that are in S, in their order (Array.prototype.filter). *)
Among(s, S) ==
  LET kept[n \in 0..Len(s)] ==
        IF n = 0 THEN <<>>
        ELSE IF s[n] \in S THEN Append(kept[n - 1], s[n]) ELSE kept[n - 1]
  IN kept[Len(s)]

(* The packages that were built; assessments are aligned with them. *)
Built == {p \in Packages : built[p].st = "ok"}
Ok == Among(Order, Built)
SignalsAt(i) == built[Ok[i]].signals
KeyAt(i) == CacheKey(Ok[i], SignalsAt(i))
PlaceInOrder(p) == CHOOSE i \in Places : Order[i] = p
PlaceOf(p) == CHOOSE i \in DOMAIN Ok : Ok[i] = p

(* From here on nothing looks at the advisories by themselves. *)
Scanned ==
  /\ \A p \in Packages : built[p] # NotBuilt
  /\ Goto("scan", "lookup")
  /\ osv' = "batch"
  /\ listed' = [p \in Packages |-> {}]
  /\ detail' = [id \in Ids |-> "pending"]
  /\ UNCHANGED <<options, published, cut, built, assessing, results, file, said>>

-----------------------------------------------------------------------------
(* Assessment. *)

CacheHit(i) == Hit(cache, KeyAt(i), options.cache)

(* shapeCacheHit: an answer from disk is clamped like any other. *)
ShapeCacheHit(i) == ClampDecision(cache[KeyAt(i)].answer, SignalsAt(i))

Misses == Among([i \in DOMAIN Ok |-> i], {i \in DOMAIN Ok : ~CacheHit(i)})
Batches ==
  {{Misses[k] : k \in {j \in DOMAIN Misses : (j - 1) \div BatchSize = b}} :
     b \in {(k - 1) \div BatchSize : k \in DOMAIN Misses}}

(* One read of the file serves every hit; the rest goes out in batches. *)
ServeHits ==
  /\ Goto("lookup", "assess")
  /\ assessed' = [i \in Places |-> IF i \in DOMAIN Ok /\ CacheHit(i) THEN ShapeCacheHit(i) ELSE None]
  /\ turn' = [i \in Places |-> IF i \notin DOMAIN Ok THEN "idle" ELSE IF CacheHit(i) THEN "done" ELSE "batch"]
  /\ batches' = Batches
  /\ UNCHANGED <<options, published, advisories, built, told, results, file, said>>

(* What validateBatchAssessment may make of the answer to b. *)
Says(b) == UNION {[got -> AiAnswers] : got \in SUBSET b}

(* assessBatch names some packages of the batch, or none of them: those it
   leaves out are asked about alone.                                         *)
AnswerBatch(b, says) ==
  LET got == DOMAIN says
      answers == [key \in {KeyAt(i) : i \in got} |-> says[CHOOSE i \in got : KeyAt(i) = key]]
  IN /\ pc = "assess" /\ b \in batches
     /\ batches' = batches \ {b}
     /\ turn' = [i \in Places |-> IF i \in got THEN "done" ELSE IF i \in b THEN "alone" ELSE turn[i]]
     /\ assessed' = [i \in Places |-> IF i \in got THEN ClampDecision(says[i], SignalsAt(i)) ELSE assessed[i]]
     /\ told' = [key \in DOMAIN told \cup DOMAIN answers |->
                   IF key \in DOMAIN answers THEN answers[key] ELSE told[key]]
     /\ said' = said \cup {<<key, answers[key]>> : key \in DOMAIN answers}
     /\ UNCHANGED <<options, published, pc, advisories, built, results, file>>

BatchFailsCached(b) ==
  /\ pc = "assess" /\ b \in batches
  /\ batches' = batches \ {b}
  /\ turn' = [i \in Places |-> IF i \in b THEN "done" ELSE turn[i]]
  /\ assessed' = [i \in Places |-> IF i \in b THEN EvaluateRules(SignalsAt(i)) ELSE assessed[i]]
  /\ told' = [key \in DOMAIN told \cup {KeyAt(i) : i \in b} |->
                IF key \in DOMAIN told THEN told[key] ELSE EvaluateRules(key.signals)]
  /\ UNCHANGED <<options, published, pc, advisories, built, results, file, said>>

(* The whole batch fails: the rules decide, and nothing is cached. *)
BatchFails(b) ==
  /\ pc = "assess" /\ b \in batches
  /\ batches' = batches \ {b}
  /\ turn' = [i \in Places |-> IF i \in b THEN "done" ELSE turn[i]]
  /\ assessed' = [i \in Places |-> IF i \in b THEN EvaluateRules(SignalsAt(i)) ELSE assessed[i]]
  /\ UNCHANGED <<options, published, pc, advisories, built, told, results, file, said>>

(* assessWithCache, for a package by itself. *)
Turn(i, from, to) == pc = "assess" /\ i \in DOMAIN Ok /\ turn[i] = from /\ turn' = [turn EXCEPT ![i] = to]
Assess(i, d) == assessed' = [assessed EXCEPT ![i] = d]

LookUp(i) ==
  /\ Turn(i, "alone", IF CacheHit(i) THEN "done" ELSE "asking")
  /\ Assess(i, IF CacheHit(i) THEN ShapeCacheHit(i) ELSE None)
  /\ UNCHANGED <<options, published, pc, advisories, built, batches, told, results, file, said>>

Writes(answers) == Eligible(answers, options.cache) # {}
Queued(answers, i) ==
  IF Writes(answers) THEN Append(queue, [answers |-> answers, for |-> i, copy |-> <<>>]) ELSE queue

AnswerAlone(i, d) ==
  LET answers == [key \in {KeyAt(i)} |-> d]
  IN /\ Turn(i, "asking", IF Writes(answers) THEN "writing" ELSE "done")
     /\ queue' = Queued(answers, i)
     /\ Assess(i, ClampDecision(d, SignalsAt(i)))
     /\ said' = said \cup {<<KeyAt(i), d>>}
     /\ UNCHANGED <<options, published, pc, advisories, built, batches, told, results, cache, others, saved>>

AloneRetries(i) ==
  /\ Turn(i, "asking", "alone")
  /\ UNCHANGED <<options, published, pc, advisories, built, batches, assessed, told, results, file, said>>

AloneFails(i) ==
  /\ Turn(i, "asking", "done")
  /\ Assess(i, EvaluateRules(SignalsAt(i)))
  /\ UNCHANGED <<options, published, pc, advisories, built, batches, told, results, file, said>>

(* The answers of the batches are written at once. *)
AllAssessed ==
  /\ Goto("assess", "save")
  /\ \A i \in DOMAIN Ok : turn[i] = "done"
  /\ queue' = Queued(told, 0)
  /\ UNCHANGED <<options, published, advisories, built, assessing, results, cache, others, said, saved>>

-----------------------------------------------------------------------------
(* The write queue: a read of the file, then a rename. *)

(* The places in the queue of the writes that may begin. *)
Anywhere == DOMAIN queue
MayBegin == DOMAIN queue \cap {1}

ReadFile(k) ==
  /\ k \in MayBegin
  /\ queue[k].copy = <<>>
  /\ queue' = [queue EXCEPT ![k].copy = <<cache>>]
  /\ UNCHANGED <<options, published, pc, advisories, built, assessing, results, cache, others, said, saved>>

Leave(k) ==
  /\ queue' = RemoveAt(queue, k)
  /\ turn' = [i \in Places |-> IF i = queue[k].for THEN "done" ELSE turn[i]]
  /\ UNCHANGED <<options, published, pc, advisories, built, batches, assessed, told, results, others, said>>

ReplaceFile(k) ==
  /\ k \in DOMAIN queue /\ queue[k].copy # <<>>
  /\ cache' = Written(queue[k].copy[1], queue[k].answers, options.cache)
  /\ saved' = saved \cup Eligible(queue[k].answers, options.cache)
  /\ Leave(k)

(* A failed write is swallowed. *)
WriteFails(k) ==
  /\ k \in DOMAIN queue /\ queue[k].copy # <<>>
  /\ Leave(k)
  /\ UNCHANGED <<cache, saved>>

(* Another process adds an answer to the file or replaces it by one without
   some key, or an answer expires: as long as this one uses the file.        *)
Elsewhere(p) ==
  /\ pc \in {"lookup", "assess", "save"}
  /\ others < MaxOthers /\ built[p].st = "ok"
  /\ others' = others + 1
  /\ LET key == CacheKey(p, built[p].signals)
     IN \/ \E d \in AiAnswers :
             /\ cache' = [k \in DOMAIN cache \cup {key} |-> IF k = key THEN Entry(d) ELSE cache[k]]
             /\ said' = said \cup {<<key, d>>}
        \/ /\ key \in DOMAIN cache
           /\ \/ cache' = [k \in DOMAIN cache \ {key} |-> cache[k]]
              \/ cache' = [cache EXCEPT ![key].fresh = FALSE]
           /\ said' = said
  /\ UNCHANGED <<options, published, pc, advisories, built, assessing, results, queue, saved>>

-----------------------------------------------------------------------------
(* Finalization, for every package by itself. *)

Saved ==
  /\ Goto("save", "finalize")
  /\ queue = <<>>
  /\ told' = NoAnswers
  /\ UNCHANGED <<options, published, advisories, built, batches, turn, assessed, results, file, said>>

Result(d, s) == [decision |-> d, hard |-> IsHardBlock(s)]
ErrorResult == [decision |-> "require_approval", hard |-> FALSE]

Audited(s, d, p, f) ==
  FoldSourceAudit(FinalizeAssessment(s, d, options.failOnOsvError, Policy[p]), f, s)

Finalized(p, f) ==
  LET s == built[p].signals
      d == assessed[PlaceOf(p)]
  IN IF d = None THEN ErrorResult ELSE Result(Audited(s, d, p, f), s)

(* The finalizations share nothing, so one step stands for them all; those of
   thrown fail by themselves.                                                *)
Finalize(thrown, found) ==
  /\ Goto("finalize", "done")
  /\ results' = [p \in Packages |->
       IF p \in thrown \/ built[p].st = "failed" THEN ErrorResult ELSE Finalized(p, found[p])]
  /\ UNCHANGED <<options, published, advisories, built, assessing, file, said>>

-----------------------------------------------------------------------------
Review ==
  \/ OsvBatch \/ OsvBatchFails \/ DetailsKnown
  \/ \E id \in Ids : OsvDetail(id, Kind[id]) \/ OsvDetail(id, "error")
  \/ \E p \in Packages : BuildSignals(p) \/ QueryOsv(p) \/ BuildFails(p)
  \/ Scanned \/ ServeHits
  \/ \E b \in batches : BatchFails(b) \/ \E says \in Says(b) : AnswerBatch(b, says)
  \/ \E i \in Places : LookUp(i) \/ AloneFails(i) \/ \E d \in AiAnswers : AnswerAlone(i, d)
  \/ AllAssessed \/ Saved
  \/ \E k \in DOMAIN queue : ReadFile(k) \/ ReplaceFile(k) \/ WriteFails(k)
  \/ \E thrown \in SUBSET Packages : \E found \in [Packages -> Audits] : Finalize(thrown, found)

Next == Review \/ \E p \in Packages : Elsewhere(p)

(* Every request has a time limit, and the pools run until they are empty. *)
Spec == Init /\ [][Next]_vars /\ WF_vars(Review)

-----------------------------------------------------------------------------
(* Properties. *)

(* A package OSV has a malware record of is a hard block, or its analysis
   failed and needs approval, or its advisories are marked unknown and, with
   --fail-on-osv-error, a person decides unless the allow list names it: no
   failed or partial lookup makes it look clean (errors of
   queryOsvBatch, queryOsv and buildPackageSignals).  An answer that names
   fewer ids than OSV has is taken at its word.                              *)
NeverSilentlyClean ==
  \A p \in Packages :
    (results[p] # NoResult /\ p \notin cut /\ \E id \in Now(p) : Kind[id] # "advisory") =>
      \/ results[p] = ErrorResult
      \/ results[p] = [decision |-> "block", hard |-> TRUE]
      \/ /\ built[p].signals.osvDown
         /\ \/ ~options.failOnOsvError
            \/ "allowKnownPackages" \in Policy[p].lists
            \/ NeedsHuman(results[p].decision)

(* Whatever the batches leave out and whichever packages fail, the result of a
   package is what its own signals make of the rules alone or of an answer the
   AI gave for exactly these signals, never of a neighbour's.                *)
OwnVerdict ==
  \A p \in Packages : results[p] # NoResult =>
    \/ results[p] = ErrorResult
    \/ /\ built[p].st = "ok"
       /\ LET s == built[p].signals
          IN \E ai \in {"no_ai"} \cup {d \in AiAnswers : <<CacheKey(p, s), d>> \in said} :
               \E f \in Audits : results[p] = Result(Analyze(s, ai, options.failOnOsvError, Policy[p], f), s)

(* "Only successful AI responses are cached": every entry of the file is an
   answer the AI gave for the package and the signals of its key.            *)
CacheHonest == \A key \in DOMAIN cache : <<key, cache[key].answer>> \in said

(* Unless another process touches the file, no answer this process has written
   is lost to a later write of its own (enqueueWrite).                       *)
OwnAnswersKept == others = 0 => saved \subseteq DOMAIN cache

(* Every review comes to an end, whatever fails: what a batch leaves out is
   asked about once, and then the rules decide (assessManyWithCache).        *)
ReviewEnds == (pc = "osv") ~> (pc = "done")
=============================================================================
