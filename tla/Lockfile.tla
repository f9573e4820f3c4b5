------------------------------- MODULE Lockfile -------------------------------
(***************************************************************************)
(* What targate reads out of a lockfile (src/src/lockfile.ts), and the     *)
(* order of versions (src/src/semver.ts).                                  *)
(*                                                                         *)
(* A lockfile is a format and, when it parses to a document, the sequence  *)
(* of the entries it lists, each with the depth it is nested at.  Two      *)
(* readers look at it: extractLockfileArtifacts for what is vetted, and    *)
(* extractLockfileEntries, which never fails, for names and versions.      *)
(***************************************************************************)
EXTENDS Integers, Sequences, SequencesExt, FiniteSets, Functions

CONSTANTS
  Absent,   \* an entry without an integrity, or a dependency without a pin
  Empty,    \* the empty string, which passes for an integrity
  MaxDepth  \* MAX_V1_DEPTH

ASSUME LockfileAssumption == Absent # Empty

(* "npm1" is lockfileVersion 1, "pnpm5" has keys of the form /name/1.0.0. *)
Formats == {"npm", "npm1", "pnpm", "pnpm5", "yarn"}

Document(format, entries) == [format |-> format, parses |-> TRUE, entries |-> entries]
Garbage(format) == [format |-> format, parses |-> FALSE, entries |-> <<>>]

KeyOf(e) == <<e.name, e.version>>

-----------------------------------------------------------------------------
(* The order of versions.  A version is its three numbers and the rank of its
   prerelease tag among the tags as strings (0: no tag).  Build metadata plays
   no part, and a version with a segment that is no number is not represented. *)

Versions == [core: Nat \X Nat \X Nat, pre: Nat]
Version(major, minor, patch, pre) == [core |-> <<major, minor, patch>>, pre |-> pre]

Sign(n) == IF n > 0 THEN 1 ELSE IF n < 0 THEN -1 ELSE 0

(* A plain comparison of tags puts a release before its candidates. *)
ComparePreAsText(a, b) == Sign(a - b)

ComparePre(a, b) ==
  IF (a = 0) = (b = 0) THEN Sign(a - b) ELSE IF a = 0 THEN 1 ELSE -1

CompareSemver(a, b) ==
  LET differ == {i \in 1 .. 3 : a.core[i] # b.core[i]}
      first  == CHOOSE i \in differ : \A j \in differ : i <= j
  IN IF differ # {} THEN Sign(a.core[first] - b.core[first]) ELSE ComparePre(a.pre, b.pre)

Higher(v, max) == IF CompareSemver(v, max) > 0 THEN v ELSE max

(* highestSemver, of a list that is not empty. *)
HighestSemver(versions) == FoldLeft(LAMBDA max, v : Higher(v, max), Head(versions), Tail(versions))

-----------------------------------------------------------------------------
(* extractLockfileArtifacts: a function from keys to integrities, or an error. *)

LockfileParseError == "LockfileParseError"
ConflictError == "Error"
NoArtifacts == [st |-> "ok", integrity |-> [k \in {} |-> Absent]]
Throw(error) == [st |-> error, integrity |-> [k \in {} |-> Absent]]

Previous(found, k) == IF k \in DOMAIN found.integrity THEN found.integrity[k] ELSE Absent

(* Two integrities, neither of them missing, that differ. *)
Conflicting(previous, integrity) ==
  previous # Absent /\ integrity \notin {Absent, Empty} /\ previous # integrity

KeepIntegrity(found, k, integrity) ==
  [found EXCEPT !.integrity = [x \in DOMAIN @ \cup {k} |-> IF x = k THEN integrity ELSE @[x]]]

(* An entry without an integrity makes the one before forgotten. *)
MergeForgetful(found, e) ==
  LET k == KeyOf(e)
  IN IF found.st # "ok" THEN found
     ELSE IF Conflicting(Previous(found, k), e.integrity) THEN Throw(ConflictError)
     ELSE KeepIntegrity(found, k, IF e.integrity = Empty THEN Absent ELSE e.integrity)

(* A missing integrity leaves the one before; the empty string, which is not
   missing, does not, and is not kept either.                                *)
MergeArtifact(found, e) ==
  LET k == KeyOf(e)
      previous == Previous(found, k)
      integrity == IF e.integrity # Absent THEN e.integrity ELSE previous
  IN IF found.st # "ok" THEN found
     ELSE IF Conflicting(previous, e.integrity) THEN Throw(ConflictError)
     ELSE KeepIntegrity(found, k, IF integrity = Empty THEN Absent ELSE integrity)

TooDeep(lock) == lock.format = "npm1" /\ \E i \in DOMAIN lock.entries : lock.entries[i].depth > MaxDepth

(* The lines of a yarn.lock are matched one by one: nothing fails to parse. *)
ExtractLockfileArtifacts(lock) ==
  IF (~lock.parses /\ lock.format # "yarn") \/ TooDeep(lock) THEN Throw(LockfileParseError)
  ELSE FoldLeft(MergeArtifact, NoArtifacts, lock.entries)

-----------------------------------------------------------------------------
(* extractLockfileEntries: keys it does not know the form of are left out. *)

EntriesSeen(format) == format \in {"npm", "pnpm", "yarn"}

ExtractLockfileEntries(lock) ==
  IF EntriesSeen(lock.format) THEN {KeyOf(lock.entries[i]) : i \in DOMAIN lock.entries} ELSE {}

(* lockfileVersionIndex, of one name, in ascending order. *)
VersionsOf(lock, name) ==
  LET versions == {k[2] : k \in {x \in ExtractLockfileEntries(lock) : x[1] = name}}
  IN CHOOSE s \in SetToSeqs(versions) :
       \A i \in DOMAIN s : \A j \in 1 .. i - 1 : CompareSemver(s[j], s[i]) < 0

(* resolveInstalledVersion; pin is the exact version the range names. *)
ResolveInstalledVersion(name, pin, lock) ==
  LET inLock == VersionsOf(lock, name)
  IN IF Len(inLock) = 1 THEN [version |-> inLock[1], source |-> "lockfile"]
     ELSE IF Len(inLock) > 1 /\ pin \in Range(inLock) THEN [version |-> pin, source |-> "lockfile"]
     ELSE IF Len(inLock) > 1 THEN [version |-> Last(inLock), source |-> "ambiguous-lockfile"]
     ELSE [version |-> pin, source |-> "range"]

DiffLockfiles(before, after) ==
  [added |-> ExtractLockfileEntries(after) \ ExtractLockfileEntries(before),
   removed |-> ExtractLockfileEntries(before) \ ExtractLockfileEntries(after)]
=============================================================================
