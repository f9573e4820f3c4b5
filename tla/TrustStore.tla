------------------------------ MODULE TrustStore ------------------------------
(***************************************************************************)
(* The files that keep a team's decisions: .targate/approvals.json         *)
(* (src/src/approvals.ts), .targate/denials.json (src/src/denials.ts) and  *)
(* the build lists of pnpm-workspace.yaml (src/src/pnpm-builds.ts), and    *)
(* what writes them: the triage of `targate install`, the picker of        *)
(* `targate add`, and the single approvals of `targate add` and            *)
(* `targate approve`.                                                      *)
(*                                                                         *)
(* No file is locked.  A write reads the whole file and later writes the   *)
(* whole file with one entry changed; a decision makes up to three of them *)
(* in a row.  Other processes run in between, any process may die there,   *)
(* and a hand edit may leave a file that does not parse.                   *)
(***************************************************************************)
EXTENDS Naturals, Sequences

CONSTANTS
  Versions,     \* the name@versions decided about
  Names,        \* the package names
  NameOf,       \* the name of a version
  Committed,    \* the approvals a project may start with
  Pnpm,         \* whether the project has a pnpm-workspace.yaml
  Procs,        \* targate processes
  Broken,       \* the content of a file that does not parse
  Unread,       \* no content: the file was not read yet
  MaxCommands,  \* bound on the commands started
  MaxConflicts  \* bound on the hand edits that break a file

VARIABLES
  approvals,  \* approvals.json: the mode of each version, or Broken
  denials,    \* denials.json: the denied versions, or Broken
  builds,     \* onlyBuiltDependencies and ignoredBuiltDependencies
  kind,       \* kind[i]: what process i is doing
  offered,    \* offered[i]: the versions it may decide about
  choice,     \* choice[i]: the human's decisions it has not begun to record
  todo,       \* todo[i]: the writes left of the decision it is recording
  snap,       \* snap[i]: the content it read for the first of them, if it did
  recorded,   \* history: the modes a human approved each version with
  marred,     \* history: versions whose record a race, a crash or a lone approval spoilt
  commands, conflicts

files   == <<approvals, denials, builds>>
process == <<kind, offered, choice, todo, snap>>
history == <<recorded, marred>>
bounds  == <<commands, conflicts>>
vars == <<files, process, history, bounds>>

Modes == {"normal", "no-scripts"}
Choices == Modes \cup {"deny", "skip"}
Approvals == [Versions -> Modes \cup {"none"}]
Builds == [only: SUBSET Names, ignored: SUBSET Names]

ASSUME TrustAssumption ==
  /\ NameOf \in [Versions -> Names]
  /\ Committed \in SUBSET Approvals
  /\ Pnpm \in BOOLEAN
  /\ MaxCommands \in Nat /\ MaxConflicts \in Nat
  /\ \A none \in {Broken, Unread} :
       /\ none \notin Approvals
       /\ \A D \in SUBSET Versions : none # D
       /\ \A b \in Builds : none # b

Nobody == [v \in Versions |-> "none"]
NoBuilds == [only |-> {}, ignored |-> {}]
Skips == [v \in Versions |-> "skip"]

Writes == [op: {"approve", "undeny", "build", "deny", "unapprove"}, v: Versions, mode: Modes]

OnApprovals(w) == w.op \in {"approve", "unapprove"}
OnDenials(w) == w.op \in {"deny", "undeny"}
OnBuilds(w) == w.op = "build"

ContentOf(w) == IF OnApprovals(w) THEN approvals ELSE IF OnDenials(w) THEN denials ELSE builds

(* A file that does not parse counts as empty. *)
LoadedLeniently(w, content) ==
  IF content # Broken THEN content ELSE IF OnApprovals(w) THEN Nobody ELSE {Broken}
Loaded(w, content) ==
  IF content # Broken THEN content ELSE IF OnApprovals(w) THEN Nobody ELSE {}

Busy(i) == todo[i] # <<>>
Current(i) == Head(todo[i])

TypeOK ==
  /\ approvals \in Approvals \cup {Broken}
  /\ denials \in (SUBSET Versions) \cup {Broken}
  /\ builds \in Builds
  /\ kind \in [Procs -> {"idle", "triage", "pick", "vouch"}]
  /\ offered \in [Procs -> SUBSET Versions]
  /\ choice \in [Procs -> [Versions -> Choices]]
  /\ \A i \in Procs :
       /\ todo[i] \in Seq(Writes) /\ Len(todo[i]) <= 3
       /\ ~Busy(i) => snap[i] = Unread
       /\ Busy(i) => snap[i] \in {Unread} \cup (IF OnApprovals(Current(i)) THEN Approvals
                                  ELSE IF OnDenials(Current(i)) THEN SUBSET Versions ELSE Builds)
  /\ recorded \in [Versions -> SUBSET Modes]
  /\ marred \in SUBSET Versions
  /\ commands \in Nat /\ conflicts \in Nat

Init ==
  /\ approvals \in Committed /\ denials = {} /\ builds = NoBuilds
  /\ kind = [i \in Procs |-> "idle"]
  /\ offered = [i \in Procs |-> {}]
  /\ choice = [i \in Procs |-> Skips]
  /\ todo = [i \in Procs |-> <<>>]
  /\ snap = [i \in Procs |-> Unread]
  /\ recorded = [v \in Versions |-> {approvals[v]} \ {"none"}]
  /\ marred = {}
  /\ commands = 0 /\ conflicts = 0

-----------------------------------------------------------------------------
(* The commands. *)

ApprovedNow == [v \in Versions |-> approvals # Broken /\ approvals[v] # "none"]
DeniedNow == IF denials = Broken THEN {} ELSE denials
Unapproved == {v \in Versions : ~ApprovedNow[v]}

Offer(i, k, versions) ==
  /\ kind[i] = "idle"
  /\ commands < MaxCommands
  /\ commands' = commands + 1
  /\ kind' = [kind EXCEPT ![i] = k]
  /\ offered' = [offered EXCEPT ![i] = versions]
  /\ UNCHANGED <<files, choice, todo, snap, history, conflicts>>

(* `targate install` loads both files and offers what neither decides. *)
StartTriage(i) == Offer(i, "triage", Unapproved \ DeniedNow)

(* The picker of `targate add --deep` offers what is not approved. *)
StartPick(i) == Offer(i, "pick", Unapproved)

(* `targate approve`, or the gate of `targate add`: about one version. *)
StartVouch(i) == \E v \in Versions : Offer(i, "vouch", {v})

(* The human decides; the picker approves without scripts only, and neither
   it nor a single approval can deny.                                        *)
ChoicesOf(k) == CASE k = "triage" -> Choices
                  [] k = "pick" -> {"no-scripts", "skip"}
                  [] k = "vouch" -> Modes \cup {"skip"}

Decide(i, c) ==
  /\ kind[i] # "idle" /\ offered[i] # {}
  /\ \A v \in Versions : c[v] \in IF v \in offered[i] THEN ChoicesOf(kind[i]) ELSE {"skip"}
  /\ choice' = [choice EXCEPT ![i] = c]
  /\ offered' = [offered EXCEPT ![i] = {}]
  /\ UNCHANGED <<files, kind, todo, snap, history, bounds>>

-----------------------------------------------------------------------------
(* Recording the decisions, one version after the other, approvals first. *)

Write(op, v, mode) == [op |-> op, v |-> v, mode |-> mode]
BuildWrites(v, mode, asked) == IF Pnpm /\ asked THEN <<Write("build", v, mode)>> ELSE <<>>

TriageApprovalOnly(v, mode) == <<Write("approve", v, mode)>> \o BuildWrites(v, mode, TRUE)
TriageApproval(v, mode) ==
  <<Write("approve", v, mode), Write("undeny", v, mode)>> \o BuildWrites(v, mode, TRUE)
TriageDenial(v) == <<Write("deny", v, "no-scripts"), Write("unapprove", v, "no-scripts")>>
PickApproval(v, mode) == <<Write("approve", v, mode)>> \o BuildWrites(v, mode, TRUE)

(* A single approval touches the build lists only for lifecycle scripts. *)
VouchApproval(v, mode, scripts) == <<Write("approve", v, mode)>> \o BuildWrites(v, mode, scripts)

TakeUp(i, v) ==
  /\ ~Busy(i)
  /\ \/ choice[i][v] \in Modes
     \/ choice[i][v] = "deny" /\ \A u \in Versions : choice[i][u] \notin Modes
  /\ \E scripts \in BOOLEAN :
       todo' = [todo EXCEPT ![i] =
                  CASE choice[i][v] = "deny" -> TriageDenial(v)
                    [] choice[i][v] # "deny" /\ kind[i] = "triage" -> TriageApproval(v, choice[i][v])
                    [] choice[i][v] # "deny" /\ kind[i] = "pick" -> PickApproval(v, choice[i][v])
                    [] choice[i][v] # "deny" /\ kind[i] = "vouch" ->
                         VouchApproval(v, choice[i][v], scripts)]
  /\ choice' = [choice EXCEPT ![i][v] = "skip"]
  /\ recorded' = IF choice[i][v] = "deny" THEN recorded
                 ELSE [recorded EXCEPT ![v] = @ \cup {choice[i][v]}]
  /\ marred' = IF kind[i] = "triage" THEN marred ELSE marred \cup {v}
  /\ UNCHANGED <<files, kind, offered, snap, bounds>>

(* removeApproval and removeDenial have nothing to write without an entry. *)
Nothing(w, content) == \/ w.op = "unapprove" /\ content[w.v] = "none"
                       \/ w.op = "undeny" /\ w.v \notin content

Read(i) ==
  /\ Busy(i) /\ snap[i] = Unread
  /\ LET w == Current(i)
         content == Loaded(w, ContentOf(w))
     IN IF Nothing(w, content)
        THEN todo' = [todo EXCEPT ![i] = Tail(@)] /\ snap' = snap
        ELSE snap' = [snap EXCEPT ![i] = content] /\ todo' = todo
  /\ UNCHANGED <<files, kind, offered, choice, history, bounds>>

BuildAppended(b, w) ==
  IF w.mode = "normal" THEN [b EXCEPT !.only = @ \cup {NameOf[w.v]}]
                       ELSE [b EXCEPT !.ignored = @ \cup {NameOf[w.v]}]
BuildMoved(b, w) ==
  LET n == NameOf[w.v]
  IN IF w.mode = "normal" THEN [only |-> b.only \cup {n}, ignored |-> b.ignored \ {n}]
                          ELSE [only |-> b.only \ {n}, ignored |-> b.ignored \cup {n}]

ApprovalAnew(content, w) == [Nobody EXCEPT ![w.v] = IF w.op = "approve" THEN w.mode ELSE "none"]
ApprovalScripted(content, w) ==
  [content EXCEPT ![w.v] = IF w.op = "approve" THEN "normal" ELSE "none"]
ApprovalSet(content, w) ==
  [content EXCEPT ![w.v] = IF w.op = "approve" THEN w.mode ELSE "none"]

DenialSet(content, w) == IF w.op = "deny" THEN content \cup {w.v} ELSE content \ {w.v}

(* The versions whose entry comes out other than it would from a file read
   just now.                                                                 *)
Spoilt(i, w) ==
  LET now == Loaded(w, ContentOf(w))
  IN IF OnApprovals(w)
     THEN {v \in Versions : ApprovalSet(snap[i], w)[v] # ApprovalSet(now, w)[v]}
     ELSE IF OnDenials(w)
     THEN {v \in Versions : v \in DenialSet(snap[i], w) <=> v \notin DenialSet(now, w)}
     ELSE {}

(* The rename of a finished temporary file replaces the file at once. *)
Store(i) ==
  /\ Busy(i) /\ snap[i] # Unread
  /\ LET w == Current(i)
     IN /\ approvals' = IF OnApprovals(w) THEN ApprovalSet(snap[i], w) ELSE approvals
        /\ denials' = IF OnDenials(w) THEN DenialSet(snap[i], w) ELSE denials
        /\ builds' = IF OnBuilds(w) THEN BuildMoved(snap[i], w) ELSE builds
        /\ marred' = marred \cup Spoilt(i, w)
  /\ todo' = [todo EXCEPT ![i] = Tail(@)]
  /\ snap' = [snap EXCEPT ![i] = Unread]
  /\ UNCHANGED <<kind, offered, choice, recorded, bounds>>

(* pnpm-workspace.yaml is rewritten in place: a process that dies there
   leaves it empty, and one that reads it there sees nothing.                *)
Truncate(i) ==
  /\ Busy(i) /\ snap[i] # Unread /\ OnBuilds(Current(i))
  /\ builds # NoBuilds
  /\ builds' = NoBuilds
  /\ UNCHANGED <<approvals, denials, process, history, bounds>>

Finish(i) ==
  /\ kind[i] # "idle" /\ offered[i] = {} /\ choice[i] = Skips /\ ~Busy(i)
  /\ kind' = [kind EXCEPT ![i] = "idle"]
  /\ UNCHANGED <<files, offered, choice, todo, snap, history, bounds>>

(* The process dies, is interrupted, or fails to sign or to write. *)
Crash(i) ==
  /\ kind[i] # "idle"
  /\ kind' = [kind EXCEPT ![i] = "idle"]
  /\ offered' = [offered EXCEPT ![i] = {}]
  /\ choice' = [choice EXCEPT ![i] = Skips]
  /\ todo' = [todo EXCEPT ![i] = <<>>]
  /\ snap' = [snap EXCEPT ![i] = Unread]
  /\ marred' = IF Busy(i) THEN marred \cup {Current(i).v} ELSE marred
  /\ UNCHANGED <<files, recorded, bounds>>

(* A merge leaves conflict markers in a file. *)
BreakFile ==
  /\ conflicts < MaxConflicts
  /\ conflicts' = conflicts + 1
  /\ \/ approvals' = Broken /\ denials' = denials
     \/ denials' = Broken /\ approvals' = approvals
  /\ UNCHANGED <<builds, process, history, commands>>

ProcessNext(i) ==
  \/ StartTriage(i) \/ StartPick(i) \/ StartVouch(i)
  \/ \E c \in [Versions -> Choices] : Decide(i, c)
  \/ \E v \in Versions : TakeUp(i, v)
  \/ Read(i) \/ Store(i) \/ Truncate(i)
  \/ Finish(i) \/ Crash(i)

Next == BreakFile \/ \E i \in Procs : ProcessNext(i)

Spec == Init /\ [][Next]_vars

-----------------------------------------------------------------------------
(* Properties. *)

(* pnpm-builds.ts:43: "A package cannot be both approved and ignored", although
   versions of one package are approved in different modes by processes that
   overwrite each other and may die while the file is truncated.             *)
BuildsExclusive == builds.only \cap builds.ignored = {}

(* Lost updates, crashes and broken files may lose an approval or bring one
   back, but never make one up: every mode in the file is one a human gave
   that very version.                                                        *)
NothingInvented ==
  approvals # Broken => \A v \in Versions : approvals[v] \in {"none"} \cup recorded[v]

(* An entry changes only by a write that is about its version, or by one
   whose process read the file before somebody else changed it.              *)
EntriesKept ==
  [][\A v \in Versions :
       \/ Broken \in {approvals, approvals', denials, denials'}
       \/ approvals'[v] = approvals[v] /\ (v \in denials' <=> v \in denials)
       \/ \E i \in Procs : /\ Busy(i) /\ todo'[i] # todo[i]
                           /\ \/ Current(i).v = v
                              \/ snap[i] # Loaded(Current(i), ContentOf(Current(i)))]_vars

(* approval-orchestration.ts: "Approvals and denials are mutually exclusive
   per name@version, so each write clears any opposite entry".  Between
   triages that do not race for an entry, and when none dies half way, a
   version is never left both approved and denied, whatever their order.     *)
TriageExclusive ==
  \A v \in DeniedNow : ApprovedNow[v] =>
    v \in marred \/ \E i \in Procs : Busy(i) /\ Current(i).v = v

(* The lists say what humans decided and nothing else: no approval nobody gave,
   no package on two lists that say the opposite of it, whichever processes
   overwrite each other's files or die between two of them.                   *)
ListsSound == BuildsExclusive /\ TriageExclusive /\ NothingInvented

(* denials.ts:20: "Approvals and denials are mutually exclusive per
   name@version: recording one removes the other": at least when no command
   runs, if none raced or died.                                              *)
RecordingRemovesTheOther ==
  (\A i \in Procs : kind[i] = "idle") => \A v \in DeniedNow : ~ApprovedNow[v]
=============================================================================
