------------------------------- MODULE CiCheck -------------------------------
(***************************************************************************)
(* `targate ci`: runCiCheck of src/src/ci.ts, and the policy on signed     *)
(* approvals of src/src/signing.ts, which every command applies.           *)
(*                                                                         *)
(* A pull request is what its checkout and its base ref hold.  A file that *)
(* is missing is like one that lists nothing, and so is a base ref that    *)
(* cannot be read.  The registry names no checksum: what vouches for bytes *)
(* is the lockfile.                                                        *)
(***************************************************************************)
EXTENDS Verdict, Lockfile

CONSTANTS
  Published,   \* the packages a pull request may be about, and the latest versions
  EmptyPull,   \* a pull request of a project that has nothing
  Changes,     \* what the manifest of a side may say: <<side, section, name, wanted>>
  Pins,        \* what the lockfile of a side may list: <<side, entry>>
  Committed    \* approvals that may be committed: <<key, approval>>

VARIABLE pr    \* a pull request, one fact after another

Sections == {"dependencies", "devDependencies"}

(* A range as it is written, and the version it pins or Absent. *)
Wanted(text, pin) == [text |-> text, pin |-> pin]

(* diffDependencies: what is added or has another range. *)
DiffDependencies(base, head) ==
  {c \in UNION {{<<s, n>> : n \in DOMAIN head[s]} : s \in Sections} :
     LET s == c[1]
         n == c[2]
     IN n \notin DOMAIN base[s] \/ base[s][n] # head[s][n]}

-----------------------------------------------------------------------------
(* Signatures.  covers is the key the signature was made for, Absent when there
   is none; the key is part of what is signed.                               *)

Approval(signer, covers) == [signer |-> signer, covers |-> covers]

VerifyOnlySigner(key, record, signers) ==
  IF record.covers = Absent THEN "unsigned"
  ELSE IF signers = {} THEN "no-allowed-signers"
  ELSE IF record.signer \in signers THEN "valid" ELSE "invalid"

VerifyApprovalSignature(key, record, signers) ==
  IF record.covers = Absent THEN "unsigned"
  ELSE IF signers = {} THEN "no-allowed-signers"
  ELSE IF record.signer \in signers /\ record.covers = key THEN "valid" ELSE "invalid"

EnforceSignedApprovals(approvals, signers) ==
  Restrict(approvals, {key \in DOMAIN approvals :
                         VerifyApprovalSignature(key, approvals[key], signers) = "valid"})

ApplySignedApprovalsPolicy(approvals, requireSigned, signers) ==
  IF requireSigned THEN EnforceSignedApprovals(approvals, signers) ELSE approvals

-----------------------------------------------------------------------------
(* The analysis of a change. *)

(* "": no version is known, and the latest one is analysed. *)
VersionOf(change, pull, registry) ==
  LET name == change[2]
      version == ResolveInstalledVersion(name, pull.head[change[1]][name].pin, pull.lock).version
  IN IF version = Absent THEN registry.latest[name] ELSE version

IntegrityIn(lock, key) == Previous(ExtractLockfileArtifacts(lock), key)

(* Only what the base ref pinned already is evidence of its own. *)
LockfileTrusted(pull, key) ==
  IntegrityIn(pull.lock, key) # Absent /\ IntegrityIn(pull.baseLock, key) = IntegrityIn(pull.lock, key)

(* The bytes against the lockfile; nobody vouches for native code otherwise. *)
SignalsOf(pull, key, package) ==
  LET locked == IntegrityIn(pull.lock, key)
      verified == locked = package.bytes /\ LockfileTrusted(pull, key)
  IN [package.signals EXCEPT
        !.mutated = locked # Absent /\ locked # package.bytes,
        !.concern = IF verified \/ @ = "soft" THEN @
                    ELSE IF package.native THEN "review"
                    ELSE IF @ = "none" THEN "warning" ELSE @]

(* Without an AI; its answers would not go below the rules. *)
OutcomeOf(change, pull, registry) ==
  LET key == <<change[2], VersionOf(change, pull, registry)>>
      package == registry.packages[key]
      s == SignalsOf(pull, key, package)
      d == FinalizeAssessment(s, AssessRisk(s, "no_ai"), pull.failOnOsvError, pull.policy[key[1]])
      approvals == ApplySignedApprovalsPolicy(pull.approvals, pull.requireSigned, pull.signers)
      approval == IF key \in DOMAIN approvals THEN "normal" ELSE "none"
  IN IF package.fails THEN "error"
     ELSE IF ResolvePackageTrust(d, IsHardBlock(s), approval).unresolved THEN "unresolved" ELSE "resolved"

(* An error after a failure leaves the failure. *)
ExitAfterLast(exit, outcome) ==
  CASE outcome = "unresolved" -> 2 [] outcome = "error" -> 1 [] OTHER -> exit
ExitAfter(exit, outcome) ==
  CASE outcome = "unresolved" -> 2
    [] outcome = "error" -> IF exit = 2 THEN 2 ELSE 1
    [] OTHER -> exit

(* changes: the differences in the order of the manifest.  A lockfile in the
   checkout that cannot be read ends the command.                            *)
RunCiCheck(changes, pull, registry) ==
  IF ExtractLockfileArtifacts(pull.lock).st # "ok" THEN 1
  ELSE FoldLeft(ExitAfter, 0, [i \in DOMAIN changes |-> OutcomeOf(changes[i], pull, registry)])

-----------------------------------------------------------------------------
(* A pull request that grows: a fact more about its checkout or its base ref. *)

PinnedBy(name) ==
  {c[4].pin : c \in {x \in Changes : x[3] = name}} \cup {c[2].version : c \in {x \in Pins : x[2].name = name}}

ASSUME CiAssumption ==
  /\ DOMAIN EmptyPull = {"base", "head", "lock", "baseLock", "approvals", "requireSigned", "signers",
                         "failOnOsvError", "policy"}
  /\ \A side \in {"base", "head"} : /\ DOMAIN EmptyPull[side] = Sections
                                   /\ \A s \in Sections : DOMAIN EmptyPull[side][s] = {}
  /\ \A side \in {"lock", "baseLock"} : \E format \in Formats : EmptyPull[side] = Document(format, <<>>)
  /\ \A c \in Changes : c = <<c[1], c[2], c[3], c[4]>> /\ c[1] \in {"base", "head"} /\ c[2] \in Sections
  /\ \A c \in Pins : /\ c = <<c[1], c[2]>> /\ c[1] \in {"lock", "baseLock"}
                     /\ c[2].version \in Versions /\ c[2].version # Absent
  /\ \A c \in Changes : /\ c[3] \in DOMAIN EmptyPull.policy /\ EmptyPull.policy[c[3]] \in Policies
                        /\ \A v \in PinnedBy(c[3]) \cup {Published.latest[c[3]]} :
                             v # Absent => <<c[3], v>> \in DOMAIN Published.packages
                        /\ Published.latest[c[3]] # Absent
  /\ \A key \in DOMAIN Published.packages :
       /\ Published.packages[key].signals \in Signals
       /\ ~Published.packages[key].signals.mutated   \* the lockfile says

With(f, k, value) == [x \in DOMAIN f \cup {k} |-> IF x = k THEN value ELSE f[x]]

ChangeManifest(c) ==
  /\ c[3] \notin DOMAIN pr[c[1]][c[2]]
  /\ pr' = [pr EXCEPT ![c[1]][c[2]] = With(@, c[3], c[4])]
ListPin(c) == pr[c[1]].parses /\ pr' = [pr EXCEPT ![c[1]].entries = Append(@, c[2])]
Corrupt(side) == pr[side].parses /\ pr' = [pr EXCEPT ![side] = Garbage(@.format)]
Commit(c) == c[1] \notin DOMAIN pr.approvals /\ pr' = [pr EXCEPT !.approvals = With(@, c[1], c[2])]
RequireSigned == ~pr.requireSigned /\ pr' = [pr EXCEPT !.requireSigned = TRUE]

PullInit == pr = EmptyPull
PullNext ==
  \/ \E c \in Changes : ChangeManifest(c)
  \/ \E c \in Pins : ListPin(c)
  \/ \E side \in {"lock", "baseLock"} : Corrupt(side)
  \/ \E c \in Committed : Commit(c)
  \/ RequireSigned
PullSpec == PullInit /\ [][PullNext]_pr

(* The bytes that the entries of a lockfile name for a version after the last
   entry of it that names the empty string, which hides those before it.     *)
NamedBy(l, key) ==
  LET listing == {j \in DOMAIN l.entries : KeyOf(l.entries[j]) = key}
  IN {l.entries[i].integrity : i \in {j \in listing :
        \A x \in listing : x >= j => l.entries[x].integrity # Empty}} \ {Absent}

(* What a reviewer would want of a version before it may pass: bytes that every
   entry of the lockfile names since the last empty one, no malware, and where a human has to look, or
   where the only evidence for native code is a checksum that this pull
   request brings along, an approval of this very version, signed if that is
   required by somebody who may and for this version.  The team's list of known
   packages stands for a human, but not for an analysis that was cut short.   *)
Passable(key) ==
  LET p == Published.packages[key]
      named == NamedBy(pr.lock, key)
      vouched == pr.baseLock.parses /\ named # {} /\ NamedBy(pr.baseLock, key) = named
      known == "allowKnownPackages" \in pr.policy[key[1]].lists /\ ~p.signals.degraded
  IN /\ ~p.fails
     /\ named \subseteq {p.bytes}
     /\ ~IsHardBlock(p.signals)
     /\ ~known /\ (NeedsHuman(EvaluateRules(p.signals)) \/ (p.native /\ ~vouched)) =>
          /\ key \in DOMAIN pr.approvals
          /\ pr.requireSigned => /\ pr.approvals[key].signer \in pr.signers
                                 /\ pr.approvals[key].covers = key

(* Exit code 0 is earned by every changed dependency, at the version the
   lockfile has of it, whatever the order of the changes; and when something
   that could be analysed does not pass, the exit code is that of a failed
   review and not of a failed analysis (runCiCheck).                         *)
CiPassEarned ==
  LET changes == DiffDependencies(pr.base, pr.head)
      Installed(c) == LET listed == {k[2] : k \in {x \in ExtractLockfileEntries(pr.lock) : x[1] = c[2]}}
                          pin == pr.head[c[1]][c[2]].pin
                      IN IF listed = {} THEN {pin, Published.latest[c[2]]} \ {Absent}
                         ELSE IF pin \in listed THEN {pin} ELSE listed
  IN \A order \in SetToSeqs(changes) :
       LET exit == RunCiCheck(order, pr, Published)
       IN exit # 2 /\ pr.lock.parses /\ ExtractLockfileArtifacts(pr.lock).st = "ok" =>
            \A c \in changes : \E v \in Installed(c) :
              IF Published.packages[<<c[2], v>>].fails THEN exit = 1 ELSE Passable(<<c[2], v>>)
=============================================================================
