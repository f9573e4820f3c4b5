--------------------------- MODULE DependencyGraph ---------------------------
(***************************************************************************)
(* `targate graph` and `targate why`: src/src/graph.ts.                    *)
(*                                                                         *)
(* A resolved tree is a set of keys <<name, version>>; the declared        *)
(* dependencies of a package are names, so that an edge leads to every     *)
(* version of the name there is in the tree.  A package whose analysis     *)
(* fails keeps its node and loses the edges out of it.                     *)
(***************************************************************************)
EXTENDS Verdict, Integers, Sequences, SequencesExt, FiniteSets, Functions

CONSTANTS
  TreeKeys,    \* keys of the packages of the graph
  Roots,       \* the project and its workspaces, with no dependency yet
  Plain,       \* the analysis of a package nothing is known of
  Grave,       \* the analysis of a package that matches a filter
  Snapshots,   \* the monitor's baseline
  WhyMaxChains \* WHY_MAX_CHAINS

VARIABLES
  declared,  \* the dependencies of each package
  needed,    \* the dependencies of each root
  outcome,   \* what the analysis of each package comes to
  asked,     \* the name `why` is asked about, if it is
  open,      \* the walks it has yet to make: each a path down from a package
  chains,    \* the chains it found
  truncated  \* whether it left some out

(* detectRoots: the project and each workspace that has a package.json. *)
Root(kind, name, deps) == [id |-> <<kind, name>>, deps |-> deps]

IsWorkspace(root) == root.id[1] = "workspace"

-----------------------------------------------------------------------------
(* buildDependencyGraph *)

(* The risk evaluateRules states with its decision. *)
RulesRisk(s) ==
  CASE EvaluateRules(s) = "block" -> "high"
    [] EvaluateRules(s) = "require_approval" -> IF ~s.degraded /\ s.concern = "critical" THEN "high" ELSE "medium"
    [] EvaluateRules(s) = "allow_with_warnings" -> "medium"
    [] OTHER -> "low"

RiskOf(s) == IF IsHardBlock(s) THEN "critical" ELSE RulesRisk(s)

(* What got worse since the snapshot of the monitor's baseline. *)
RiskIncreasedSince(node, snap) ==
  {why \in {"malicious", "advisories", "deprecated", "provenance"} :
     CASE why = "malicious" -> node.malicious /\ ~snap.malicious
       [] why = "advisories" -> ~(node.advisories \subseteq snap.advisories)
       [] why = "deprecated" -> node.deprecated /\ ~snap.deprecated
       [] why = "provenance" -> ~node.attested /\ snap.attested}

PresentVersions(tree, deps) == {key \in tree : key[1] \in deps}

(* A root node has nothing but its id, a failed analysis leaves an error. *)
BareNode(key, kind, error) ==
  [id |-> key, kind |-> kind, error |-> error, risk |-> "none", scripts |-> FALSE, native |-> FALSE,
   malicious |-> FALSE, advisories |-> {}, deprecated |-> FALSE, attested |-> TRUE, worse |-> {}]

PackageNode(key, a) ==
  [BareNode(key, "package", FALSE) EXCEPT
     !.risk = RiskOf(a.signals), !.malicious = a.signals.malicious,
     !.scripts = a.scripts, !.native = a.native, !.advisories = a.advisories,
     !.deprecated = a.deprecated, !.attested = a.attested]

Overlaid(node, baseline) ==
  IF node.id \in DOMAIN baseline THEN [node EXCEPT !.worse = RiskIncreasedSince(node, baseline[node.id])]
  ELSE node

(* analysis: what is known of each package that could be analysed;
   roots: empty for the graph of one package, which is then the root.        *)
BuildDependencyGraph(tree, roots, spec, analysis, baseline) ==
  LET failed == tree \ DOMAIN analysis
      inner == UNION {{<<from, to>> : to \in PresentVersions(tree, analysis[from].declared)} :
                        from \in tree \ failed}
      outer == UNION {{<<r.id, to>> : to \in PresentVersions(tree, r.deps)} : r \in roots}
  IN [roots |-> IF roots = {} THEN {spec} ELSE {r.id : r \in roots},
      nodes |-> {BareNode(r.id, "root", FALSE) : r \in roots}
                \cup {BareNode(key, "package", TRUE) : key \in failed}
                \cup {IF roots = {} THEN PackageNode(key, analysis[key])
                      ELSE Overlaid(PackageNode(key, analysis[key]), baseline) : key \in tree \ failed},
      edges |-> {e \in inner \cup outer : e[1] # e[2]}]

Ids(g) == {n.id : n \in g.nodes}
PackageIds(g) == {n.id : n \in {x \in g.nodes : x.kind = "package"}}
Children(g, id) == {e[2] : e \in {x \in g.edges : x[1] = id}}
ParentsOf(g, id) == {e[1] : e \in {x \in g.edges : x[2] = id}}

Direct(g) == PackageIds(g) \cap UNION {Children(g, r) : r \in g.roots}

(* The closure of a set under a step: a queue in the code, whose order does
   not matter.  As many rounds as there are nodes are enough.                *)
Closure(step, found) ==
  LET round[n \in 0 .. Cardinality(DOMAIN step)] ==
        IF n = 0 THEN found ELSE round[n - 1] \cup UNION {step[id] : id \in round[n - 1]}
  IN round[Cardinality(DOMAIN step)]

(* Not the start itself, unless a cycle leads back to it. *)
ReachableFrom(g, start) == Closure([id \in Ids(g) |-> Children(g, id)], Children(g, start))

(* The workspaces whose subtree a package is in. *)
WorkspacesOf(g, roots, id) == {r.id : r \in {x \in roots : IsWorkspace(x) /\ id \in ReachableFrom(g, x.id)}}

-----------------------------------------------------------------------------
(* filterGraph *)

GraphFilters ==
  {"high-risk", "scripts", "native", "deprecated", "malicious", "no-provenance", "risk-increased"}

NodeMatchesFilter(n, filter) ==
  CASE filter = "high-risk" -> n.risk \in {"high", "critical"}
    [] filter = "scripts" -> n.scripts
    [] filter = "native" -> n.native
    [] filter = "deprecated" -> n.deprecated
    [] filter = "malicious" -> n.malicious
    [] filter = "no-provenance" -> ~n.attested
    [] filter = "risk-increased" -> n.worse # {}

Matching(g, filters) ==
  {n.id : n \in {x \in g.nodes : x.kind = "package" /\ \E f \in filters : NodeMatchesFilter(x, f)}}

(* A filter that shows who asked for a match, and not who asked for that. *)
KeepParents(g, matching) == g.roots \cup matching \cup UNION {ParentsOf(g, id) : id \in matching}

(* Ancestors of a match; the walk does not go up from a root. *)
Keep(g, matching) ==
  g.roots \cup Closure([id \in Ids(g) |-> ParentsOf(g, id) \ g.roots], matching)

FilterGraph(g, filters) ==
  LET kept == Keep(g, Matching(g, filters))
  IN IF filters = {} THEN g
     ELSE [g EXCEPT !.nodes = {n \in g.nodes : n.id \in kept},
                    !.edges = {e \in g.edges : e[1] \in kept /\ e[2] \in kept}]

-----------------------------------------------------------------------------
(* A project of which more is learnt, until somebody asks why. *)

ASSUME GraphAssumption ==
  /\ IsFiniteSet(TreeKeys) /\ IsFiniteSet(Roots) /\ Roots # {}
  /\ {r.id : r \in Roots} \cap TreeKeys = {}
  /\ \A r \in Roots : r = Root(r.id[1], r.id[2], {})
  /\ WhyMaxChains \in Nat

TreeNames == {key[1] : key \in TreeKeys}

project == <<declared, needed, outcome>>
walk == <<asked, open, chains, truncated>>

Declare(key, name) ==
  /\ name \notin declared[key]
  /\ declared' = [declared EXCEPT ![key] = @ \cup {name}]
  /\ UNCHANGED <<needed, outcome>>

Need(r, name) ==
  /\ name \notin needed[r]
  /\ needed' = [needed EXCEPT ![r] = @ \cup {name}]
  /\ UNCHANGED <<declared, outcome>>

ComesTo(key, what) ==
  /\ outcome[key] = "plain"
  /\ outcome' = [outcome EXCEPT ![key] = what]
  /\ UNCHANGED <<declared, needed>>

Learn ==
  /\ asked = {}
  /\ \/ \E key \in TreeKeys, name \in TreeNames : Declare(key, name)
     \/ \E r \in Roots, name \in TreeNames : Need(r, name)
     \/ \E key \in TreeKeys, what \in {"grave", "failed"} : ComesTo(key, what)
  /\ UNCHANGED walk

Analysis ==
  [key \in {x \in TreeKeys : outcome[x] # "failed"} |->
     [(IF outcome[key] = "grave" THEN Grave ELSE Plain) EXCEPT !.declared = declared[key]]]

ProjectRoots == {[r EXCEPT !.deps = needed[r]] : r \in Roots}
Project == BuildDependencyGraph(TreeKeys, ProjectRoots, <<>>, Analysis, Snapshots)

-----------------------------------------------------------------------------
(* whyChains: a walk up from each version of a package, depth first.  The order
   of the edges is the one in which the analyses ended.                        *)

Why(name) ==
  /\ asked = {} /\ asked' = {name}
  /\ open' \in SetToSeqs({<<id>> : id \in {x \in PackageIds(Project) : x[1] = name}})
  /\ UNCHANGED <<project, chains, truncated>>

(* A package that is in a chain already need not be shown again. *)
OnwardOnce(path) ==
  ParentsOf(Project, path[1]) \ (Range(path) \cup UNION {Range(chains[i]) : i \in DOMAIN chains})

(* The parents to walk to, but those on the path. *)
Onward(path) == ParentsOf(Project, path[1]) \ Range(path)

(* A target that is a root itself is shown in any case. *)
Full(path) == Len(chains) >= WhyMaxChains /\ ~(Len(path) = 1 /\ path[1] \in Project.roots)

IsTop(id) == id \in Project.roots \/ ParentsOf(Project, id) = {}

LeaveOut ==
  /\ open # <<>> /\ Full(Head(open))
  /\ truncated' = TRUE /\ open' = Tail(open)
  /\ UNCHANGED <<project, asked, chains>>

Arrive ==
  /\ open # <<>> /\ ~Full(Head(open)) /\ IsTop(Head(open)[1])
  /\ chains' = Append(chains, Head(open)) /\ open' = Tail(open)
  /\ UNCHANGED <<project, asked, truncated>>

Climb ==
  /\ open # <<>> /\ ~Full(Head(open)) /\ ~IsTop(Head(open)[1])
  /\ \E next \in SetToSeqs({<<p>> \o Head(open) : p \in Onward(Head(open))}) : open' = next \o Tail(open)
  /\ UNCHANGED <<project, asked, chains, truncated>>

Explain == (\E name \in TreeNames : Why(name)) \/ LeaveOut \/ Arrive \/ Climb

GraphInit ==
  /\ declared = [key \in TreeKeys |-> {}]
  /\ needed = [r \in Roots |-> {}]
  /\ outcome = [key \in TreeKeys |-> "plain"]
  /\ asked = {} /\ open = <<>> /\ chains = <<>> /\ truncated = FALSE

GraphNext == Learn \/ Explain

GraphSpec == GraphInit /\ [][GraphNext]_<<project, walk>>

-----------------------------------------------------------------------------

FromRoots(g) == g.roots \cup UNION {ReachableFrom(g, r) : r \in g.roots}

(* A filtered graph (filterGraph) still shows how a match got into the tree: it
   loses no match, what the roots reach they reach in the part that is left,
   and nothing is left that leads to no match.  (Asking changes no graph.)   *)
FilterExplains ==
  asked = {} => LET g == Project
                    reached == FromRoots(g) IN
    \A filter \in GraphFilters :
      LET left == FilterGraph(g, {filter})
          matching == Matching(g, {filter})
      IN /\ matching \subseteq Ids(left)
         /\ Ids(left) \cap reached \subseteq FromRoots(left)
         /\ \A id \in Ids(left) \ g.roots : id \in matching \/ ReachableFrom(left, id) \cap matching # {}

(* The packages one can come to from a set without going through another. *)
Without(g, id) == [g EXCEPT !.edges = {e \in @ : id \notin {e[1], e[2]}}]

IsChain(g, chain) ==
  /\ chain[1] \in g.roots \/ ParentsOf(g, chain[1]) = {}
  /\ IsInjective(chain)
  /\ \A i \in 1 .. Len(chain) - 1 : <<chain[i], chain[i + 1]>> \in g.edges /\ chain[i + 1] \notin g.roots

(* `targate why` (whyChains) explains a package, and all of it: every chain is
   a path of the graph from a root, or from a package nothing depends on, to a
   version of it; each parent that the roots reach other than through the
   package is in a chain, unless the report says it is cut; and what the graph
   marks as direct, or as part of a workspace (reachableFrom), is what has
   such a chain.                                                             *)
WhyExplains ==
  open = <<>> => LET g == Project IN \A name \in asked :
    /\ \A i \in DOMAIN chains : IsChain(g, chains[i]) /\ Last(chains[i])[1] = name
    /\ truncated => Len(chains) >= WhyMaxChains
    /\ ~truncated =>
         \A id \in {x \in TreeKeys : x[1] = name} :
           LET mine == {c \in Range(chains) : Last(c) = id}
           IN /\ id \in Direct(g) <=> \E c \in mine : Len(c) = 2 /\ c[1] \in g.roots
              /\ \A p \in ParentsOf(g, id) \cap FromRoots(Without(g, id)) : \E c \in mine : c[Len(c) - 1] = p
              /\ WorkspacesOf(g, ProjectRoots, id) = {r.id : r \in {x \in ProjectRoots :
                    IsWorkspace(x) /\ \E c \in mine : c[1] = x.id}}
=============================================================================
