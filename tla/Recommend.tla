------------------------------ MODULE Recommend ------------------------------
(***************************************************************************)
(* `targate recommend`: src/src/recommend.ts.                              *)
(*                                                                         *)
(* The search and the AI propose names, which are numbers here so that they*)
(* sort; what a package is does not depend on who proposed it.  The order  *)
(* in which the candidates are analysed plays no part in the report.       *)
(***************************************************************************)
EXTENDS Verdict, Integers, Sequences, SequencesExt, Functions

CONSTANTS
  DefaultRecommendLimit, MaxRecommendLimit,
  Registry,    \* the packages there are, with what their analysis finds
  Suggested,   \* names the AI may suggest
  Downloads    \* weekly downloads of a hit

VARIABLES
  hits,    \* what the search finds, one after another
  names    \* what the AI suggests

Bounded(n, low, high) == IF n < low THEN low ELSE IF n > high THEN high ELSE n

(* 0: --limit is not given. *)
LimitOf(asked) == Bounded(IF asked = 0 THEN DefaultRecommendLimit ELSE asked, 1, MaxRecommendLimit)

Hit(name, downloads) == [name |-> name, downloads |-> downloads]

(* searchCandidates: the hits of npm, or an error that ends the command. *)
SearchFailed == [st |-> "RecommendSearchError", hits |-> <<>>]
SearchFound(these) == [st |-> "ok", hits |-> these]

(* gatherAiSuggestions never fails: without a provider, or when it fails, the
   AI suggests no name.                                                      *)
GatherAiSuggestions(answer) == IF answer.st \in {"skipped", "unavailable"} THEN {} ELSE answer.names

(* A suggestion that is also a hit loses what the search said of it. *)
MergeReplacing(found, suggested) ==
  {[name |-> n, downloads |-> 0, source |-> "ai"] : n \in suggested}
  \cup {[name |-> h.name, downloads |-> h.downloads, source |-> "npm-search"] :
          h \in {x \in Range(found) : x.name \notin suggested}}

(* mergeCandidates: of two hits for one name the last counts. *)
MergeCandidates(found, suggested) ==
  {LET places == {i \in DOMAIN found : found[i].name = n}
   IN [name |-> n,
       downloads |-> IF places = {} THEN 0 ELSE found[Max(places)].downloads,
       source |-> IF places = {} THEN "ai" ELSE IF n \in suggested THEN "both" ELSE "npm-search"] :
     n \in suggested \cup {h.name : h \in Range(found)}}

-----------------------------------------------------------------------------
(* What becomes of a candidate. *)

Disqualify(p) == IsHardBlock(p.signals) \/ p.deprecated

(* registry: the packages there are, with what their analysis finds or that it
   fails.                                                                    *)
Outcome(c, registry, failClosed) ==
  IF c.name \notin DOMAIN registry THEN IF c.source = "ai" THEN "hallucinated" ELSE "failed"
  ELSE LET p == registry[c.name]
       IN IF p.failed THEN "failed"
          ELSE IF Disqualify(p) THEN "disqualified"
          ELSE IF FinalizeAssessment(p.signals, EvaluateRules(p.signals), failClosed, p.policy) = "block"
               THEN "blocked"
          ELSE "recommended"

(* rankRecommendations: score, then downloads, then name. *)
Before(a, b, registry) ==
  LET scoreA == registry[a.name].score
      scoreB == registry[b.name].score
  IN \/ scoreA > scoreB
     \/ scoreA = scoreB /\ a.downloads > b.downloads
     \/ scoreA = scoreB /\ a.downloads = b.downloads /\ a.name < b.name

RankRecommendations(candidates, registry) ==
  CHOOSE s \in SetToSeqs(candidates) : \A i \in DOMAIN s : \A j \in 1 .. i - 1 : Before(s[j], s[i], registry)

RecommendPackages(asked, search, suggestions, registry, failClosed) ==
  IF search.st # "ok" THEN [st |-> "failed"]
  ELSE LET found == SubSeq(search.hits, 1, Bounded(Len(search.hits), 0, LimitOf(asked)))
           candidates == MergeCandidates(found, GatherAiSuggestions(suggestions))
           chosen == {c \in candidates : Outcome(c, registry, failClosed) = "recommended"}
       IN [st |-> "ok", analyzed |-> candidates,
           recommendations |-> RankRecommendations(chosen, registry),
           rejected |-> {<<c.name, Outcome(c, registry, failClosed)>> : c \in candidates \ chosen}]

-----------------------------------------------------------------------------
(* A search that finds more, and an AI that suggests more. *)

ASSUME RecommendAssumption ==
  /\ {DefaultRecommendLimit, MaxRecommendLimit} \cup DOMAIN Registry \cup Suggested \cup Downloads \subseteq Nat
  /\ \A n \in DOMAIN Registry : Registry[n].score \in Nat

Search(name, downloads) == hits' = Append(hits, Hit(name, downloads)) /\ UNCHANGED names
Suggest(name) == name \notin names /\ names' = names \cup {name} /\ UNCHANGED hits

RecommendInit == hits = <<>> /\ names = {}
RecommendNext ==
  \/ \E name \in DOMAIN Registry \cup Suggested, downloads \in Downloads : Search(name, downloads)
  \/ \E name \in Suggested : Suggest(name)
RecommendSpec == RecommendInit /\ [][RecommendNext]_<<hits, names>>

Recommended(suggestions) ==
  RecommendPackages(0, SearchFound(hits), [st |-> "ok", names |-> suggestions], Registry, FALSE)

(* Who is recommended, and before whom. *)
Order(report, among) ==
  LET r == report.recommendations
  IN {x \in among \X among : \E i, j \in DOMAIN r : i <= j /\ x = <<r[i].name, r[j].name>>}

(* The AI contributes names and nothing else (recommendPackages): with its
   suggestions or without, what the search found is recommended or rejected
   alike, and in the same order.                                             *)
AiOnlyAdds ==
  LET without == Recommended({})
      with == Recommended(names)
      found == {c.name : c \in without.analyzed}
  IN /\ Order(with, found) = Order(without, found)
     /\ {c.name : c \in with.analyzed} = found \cup names
     /\ {r \in with.rejected : r[1] \in found} = without.rejected
=============================================================================
