------------------------------- MODULE Advice -------------------------------
(***************************************************************************)
(* What the advisory commands of targate compute, over inputs that grow one *)
(* fact at a time: the dependency graph and its explanations, the security  *)
(* score, the recommendations, what is read out of a lockfile, and what     *)
(* `targate ci` makes of a pull request.                                    *)
(*                                                                         *)
(* Each input grows in the module of its command, with what must be true of *)
(* it.  Here they are bounded.                                              *)
(***************************************************************************)
EXTENDS DependencyGraph, Recommend, VersionDiff, CiCheck

CONSTANT
  MaxFacts       \* bound on the facts of an input, by topic

VARIABLES
  topic,     \* what the input is for
  facts      \* how many facts it has

graphVars == <<project, walk>>
searchVars == <<hits, names>>
adviceVars == <<topic, facts, graphVars, searchVars, package, lock, pr>>

AdviceInit ==
  /\ topic \in DOMAIN MaxFacts
  /\ facts = 0
  /\ GraphInit /\ RecommendInit /\ DiffInit /\ PullInit

Grows(of) == topic = of /\ facts < MaxFacts[of] /\ facts' = facts + 1 /\ UNCHANGED topic

Graph == Grows("graph") /\ Learn /\ UNCHANGED <<searchVars, package, lock, pr>>
Ask == topic = "graph" /\ Explain /\ UNCHANGED <<topic, facts, searchVars, package, lock, pr>>
Suggestions == Grows("recommend") /\ RecommendNext /\ UNCHANGED <<graphVars, package, lock, pr>>
Diff == Grows("score") /\ Worsen /\ UNCHANGED <<graphVars, searchVars, pr>>
Lockfiles(e) == Grows("lockfile") /\ List(e) /\ UNCHANGED <<graphVars, searchVars, pr>>
Pull == Grows("ci") /\ PullNext /\ UNCHANGED <<graphVars, searchVars, package, lock>>

AdviceNext == Graph \/ Ask \/ Suggestions \/ Diff \/ (\E e \in Entries : Lockfiles(e)) \/ Pull

AdviceSpec == AdviceInit /\ [][AdviceNext]_adviceVars
=============================================================================
