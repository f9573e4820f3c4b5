---------------------------- MODULE EvidenceProofs ----------------------------
(***************************************************************************)
(* Proofs about what targate learns of a package and makes of it: of its   *)
(* archive, once (ArtifactIdentity and Quarantine); of what changes in the *)
(* world later (Monitor); and in the advisory commands the score of two    *)
(* versions and the entries of a lockfile (VersionDiff), a pull request    *)
(* (CiCheck), the recommendations (Recommend), and the graph with its      *)
(* filters and its explanations (DependencyGraph).  Each part is about one *)
(* of these modules, with what it needs of sums, folds, sorted listings and*)
(* closures; the last theorem puts the advisory ones together.             *)
(***************************************************************************)
EXTENDS Quarantine, Monitor, Advice, FiniteSetTheorems, SequenceTheorems, WellFoundedInduction, TLAPS

(***************************************************************************)
(* What a match means.                                                     *)
(***************************************************************************)

(* A set of numbers that is not empty has a least one. *)
LEMMA LeastNumber ==
  ASSUME NEW T, T \subseteq Nat, T # {}
  PROVE  \E i \in T : \A j \in T : ~(j < i)
<1>1. PICK i \in T : \A j \in T : ~(<<j, i>> \in OpToRel(<, Nat))
  BY NatLessThanWellFounded, WFMin
<1>2. \A j \in T : ~(j < i)
  BY <1>1 DEF OpToRel
<1> QED  BY <1>2

(* A set of positions that is not empty has a first one. *)
LEMMA FirstPosition ==
  ASSUME NEW T, T \subseteq Nat, T # {}
  PROVE  \E i \in T : \A j \in 1..(i - 1) : j \notin T
<1>1. PICK i \in T : \A j \in T : ~(j < i)
  BY LeastNumber
<1> QED  BY <1>1

(* The entries of an SRI string come in a sequence. *)
InSequence(cs) == Len(cs.integrity) \in Nat /\ DOMAIN cs.integrity = 1..Len(cs.integrity)

LEMMA StrongestNamed ==
  ASSUME NEW cs, Named(cs) # {}
  PROVE  Strongest(cs) \in Named(cs)
<1> DEFINE T == {i \in DOMAIN Strength : Strength[i] \in Named(cs)}
<1>1. DOMAIN Strength \subseteq Nat
  BY DEF Strength
<1>2. T \subseteq Nat /\ T # {}
  BY <1>1 DEF Named, SriAlgorithms
<1>3. PICK i \in T : \A j \in 1..(i - 1) : j \notin T
  BY <1>2, FirstPosition
<1>4. \A j \in 1..(i - 1) : j \in DOMAIN Strength
  BY <1>3 DEF Strength
<1>5. \A j \in 1..(i - 1) : Strength[j] \notin Named(cs)
  BY <1>3, <1>4
<1>6. i \in DOMAIN Strength /\ Strength[i] \in Named(cs)
  BY <1>3
<1> QED  BY <1>5, <1>6 DEF Strongest

LEMMA ComparedDeclared ==
  ASSUME NEW cs, InSequence(cs), Named(cs) # {}
  PROVE  \E i \in DOMAIN cs.integrity : Compared(cs) = cs.integrity[i]
<1> DEFINE T == {i \in DOMAIN cs.integrity : cs.integrity[i].algorithm = Strongest(cs)}
<1>1. PICK i \in DOMAIN cs.integrity : cs.integrity[i].algorithm = Strongest(cs)
  BY StrongestNamed DEF Named
<1>2. T \subseteq Nat /\ T # {}
  BY <1>1 DEF InSequence
<1>3. PICK k \in T : \A j \in 1..(k - 1) : j \notin T
  BY <1>2, FirstPosition
<1>4. \A j \in 1..(k - 1) : cs.integrity[j].algorithm # Strongest(cs)
  BY <1>3 DEF InSequence
<1> QED  BY <1>3, <1>4 DEF Compared

(* Evidence that was declared and does not contradict the bytes names them. *)
LEMMA EvidenceNames ==
  ASSUME NEW bytes, NEW cs, InSequence(cs)
  PROVE  /\ VerifyEvidence(bytes, cs) \in {"absent", "match", "mismatch"}
         /\ VerifyEvidence(bytes, cs) = "absent" <=> ~Declared(cs)
         /\ VerifyEvidence(bytes, cs) = "match" => Names(cs, bytes)
<1>1. ASSUME CheckTarballIntegrity(bytes, cs).ok,
             CheckTarballIntegrity(bytes, cs).algorithm # "none"
      PROVE  Names(cs, bytes)
  <2>1. CASE Named(cs) # {}
    <3>1. PICK i \in DOMAIN cs.integrity : Compared(cs) = cs.integrity[i]
      BY <2>1, ComparedDeclared
    <3>2. Compared(cs).of = bytes
      BY <1>1, <2>1 DEF CheckTarballIntegrity
    <3> QED  BY <3>1, <3>2 DEF Names
  <2>2. CASE Named(cs) = {}
    BY <1>1, <2>2 DEF CheckTarballIntegrity, Names
  <2> QED  BY <2>1, <2>2
<1> QED  BY <1>1 DEF VerifyEvidence

Sources(o) == {o.registry, o.lockfile, History(o), Public(o)}

(* A trust that counts as verified is one that every source which says anything
   agrees with, and at least one does.                                       *)
THEOREM VerifiedMeansNamed ==
  ASSUME NEW bytes, NEW o,
         \A cs \in {o.registry, o.lockfile, o.publicChecksums} : InSequence(cs),
         IsChecksumVerified(VerifyArtifactIdentity(bytes, o))
  PROVE  /\ \A cs \in Sources(o) : Declared(cs) => Names(cs, bytes)
         /\ \E cs \in Sources(o) : Names(cs, bytes)
<1> DEFINE a == Answers(bytes, o)
<1>1. \A cs \in Sources(o) : InSequence(cs)
  <2>1. InSequence(History(o))
    <3>1. CASE o.history = NoBytes
      BY <3>1 DEF History, InSequence
    <3>2. CASE o.history # NoBytes
      <4> DEFINE e == [algorithm |-> "sha512", of |-> o.history]
      <4>1. History(o).integrity = <<e>>
        BY <3>2 DEF History
      <4> HIDE DEF e
      <4> QED  BY <4>1 DEF InSequence
    <3> QED  BY <3>1, <3>2
  <2>2. InSequence(Public(o))
    BY DEF Public, NoChecksums, InSequence
  <2> QED  BY <2>1, <2>2 DEF Sources
<1>2. \A cs \in Sources(o) : /\ VerifyEvidence(bytes, cs) \in {"absent", "match", "mismatch"}
                             /\ VerifyEvidence(bytes, cs) = "absent" <=> ~Declared(cs)
                             /\ VerifyEvidence(bytes, cs) = "match" => Names(cs, bytes)
  BY <1>1, EvidenceNames
<1>3. /\ a.registry = VerifyEvidence(bytes, o.registry)
      /\ a.lockfile = VerifyEvidence(bytes, o.lockfile)
      /\ a.history = VerifyEvidence(bytes, History(o))
      /\ a.public = VerifyEvidence(bytes, Public(o))
  BY DEF Answers
<1>4. /\ "mismatch" \notin {a.registry, a.lockfile, a.history, a.public}
      /\ \/ "match" \in {a.registry, a.lockfile, a.history, a.public}
         \/ Declared(o.registry)
  BY DEF VerifyArtifactIdentity, IsChecksumVerified
<1> HIDE DEF a
<1>5. \A cs \in Sources(o) : VerifyEvidence(bytes, cs) # "mismatch"
  BY <1>3, <1>4 DEF Sources
<1>6. \A cs \in Sources(o) : Declared(cs) => Names(cs, bytes)
  BY <1>2, <1>5
<1>7. \E cs \in Sources(o) : Names(cs, bytes)
  BY <1>2, <1>3, <1>4, <1>6 DEF Sources
<1> QED  BY <1>6, <1>7

-----------------------------------------------------------------------------
(***************************************************************************)
(* Sums.  A sum is defined by recursion over a set; what it is worth comes *)
(* from a least counterexample.                                            *)
(***************************************************************************)

Some(s) == CHOOSE x \in s : TRUE

LEMMA SomeIn == ASSUME NEW S, S # {} PROVE Some(S) \in S
BY DEF Some

(* Of a set of finite sets, some has no proper subset among the others. *)
LEMMA LeastSet ==
  ASSUME NEW B, B # {}, \A s \in B : IsFiniteSet(s)
  PROVE  \E s \in B : \A t \in B : ~(t \subseteq s /\ t # s)
<1> DEFINE Sizes == {Cardinality(s) : s \in B}
<1>1. Sizes \subseteq Nat /\ Sizes # {}
  BY FS_CardinalityType
<1>2. PICK n \in Sizes : \A j \in Sizes : ~(j < n)
  <2> HIDE DEF Sizes
  <2> QED  BY <1>1, LeastNumber
<1>3. PICK s \in B : n = Cardinality(s)
  BY <1>2
<1>4. ASSUME NEW t \in B, t \subseteq s, t # s PROVE FALSE
  <2>1. /\ Cardinality(t) \in Nat /\ Cardinality(s) \in Nat
        /\ Cardinality(t) <= Cardinality(s) /\ Cardinality(t) # Cardinality(s)
    BY <1>4, FS_Subset, FS_CardinalityType
  <2>2. Cardinality(t) \in Sizes
    OBVIOUS
  <2> HIDE DEF Sizes
  <2> QED  BY <1>2, <1>3, <2>1, <2>2
<1> QED  BY <1>3, <1>4

Recurs(f, S, h) ==
  h = [s \in SUBSET S |-> IF s = {} THEN 0 ELSE f[Some(s)] + h[s \ {Some(s)}]]

LEMMA SumIs ==
  ASSUME NEW f, NEW S
  PROVE  SumFunctionOnSet(f, S) = (CHOOSE h : Recurs(f, S, h))[S]
BY Zenon DEF SumFunctionOnSet, FoldFunctionOnSet, MapThenFoldSet, Recurs, Some

(* Two functions that recur the same way agree where both are defined. *)
LEMMA RecursOnce ==
  ASSUME NEW f, NEW S, NEW T, IsFiniteSet(T), T \subseteq S,
         NEW g, NEW h, Recurs(f, S, g), Recurs(f, T, h)
  PROVE  g[T] = h[T]
<1> DEFINE B == {s \in SUBSET T : g[s] # h[s]}
<1>1. SUFFICES ASSUME B # {} PROVE FALSE
  OBVIOUS
<1>2. \A s \in B : IsFiniteSet(s)
  BY FS_Subset
<1>3. PICK s \in B : \A t \in B : ~(t \subseteq s /\ t # s)
  <2> HIDE DEF B
  <2> QED  BY <1>1, <1>2, LeastSet
<1>4. /\ g[s] = IF s = {} THEN 0 ELSE f[Some(s)] + g[s \ {Some(s)}]
      /\ h[s] = IF s = {} THEN 0 ELSE f[Some(s)] + h[s \ {Some(s)}]
  BY DEF Recurs
<1>5. s # {}
  BY <1>4
<1>6. s \ {Some(s)} \subseteq s /\ s \ {Some(s)} # s
  BY <1>5, SomeIn
<1>7. g[s \ {Some(s)}] = h[s \ {Some(s)}]
  BY <1>3, <1>6
<1> QED  BY <1>4, <1>7

SumEquation(f, S) ==
  SumFunctionOnSet(f, S) = IF S = {} THEN 0 ELSE f[Some(S)] + SumFunctionOnSet(f, S \ {Some(S)})

LEMMA SumRecurs ==
  ASSUME NEW f, NEW S, IsFiniteSet(S)
  PROVE  SumEquation(f, S)
<1> DEFINE B == {s \in SUBSET S : ~SumEquation(f, s)}
<1>1. SUFFICES ASSUME B # {} PROVE FALSE
  OBVIOUS
<1>2. \A s \in B : IsFiniteSet(s)
  BY FS_Subset
<1>3. PICK s \in B : \A t \in B : ~(t \subseteq s /\ t # s)
  <2> HIDE DEF B
  <2> QED  BY <1>1, <1>2, LeastSet
<1>4. \A t \in SUBSET s : t # s => SumEquation(f, t)
  BY <1>3
<1> DEFINE total == IF s = {} THEN 0 ELSE f[Some(s)] + SumFunctionOnSet(f, s \ {Some(s)})
           g == [t \in SUBSET s |-> IF t = s THEN total ELSE SumFunctionOnSet(f, t)]
<1>5. \A t \in SUBSET s : t # {} => t \ {Some(t)} \in SUBSET s /\ t \ {Some(t)} # t /\ t \ {Some(t)} # s
  BY SomeIn
<1>6. ASSUME NEW t \in SUBSET s
      PROVE  g[t] = IF t = {} THEN 0 ELSE f[Some(t)] + g[t \ {Some(t)}]
  <2>1. CASE t = s
    BY <1>5, <2>1
  <2>2. CASE t # s
    BY <1>4, <1>5, <2>2 DEF SumEquation
  <2> QED  BY <2>1, <2>2
<1>7. Recurs(f, s, g)
  <2>1. g = [t \in SUBSET s |-> g[t]]
    OBVIOUS
  <2> HIDE DEF g
  <2> QED  BY <1>6, <2>1 DEF Recurs
<1> DEFINE h == CHOOSE k : Recurs(f, s, k)
<1>8. Recurs(f, s, h)
  BY <1>7
<1>9. SumFunctionOnSet(f, s) = h[s]
  BY SumIs
<1>10. h[s] = g[s]
  <2> HIDE DEF g, h
  <2> QED  BY <1>2, <1>7, <1>8, RecursOnce
<1>11. g[s] = total
  OBVIOUS
<1> QED  BY <1>3, <1>9, <1>10, <1>11 DEF SumEquation

LEMMA SumNat ==
  ASSUME NEW f, NEW S, IsFiniteSet(S), \A i \in S : f[i] \in Nat
  PROVE  SumFunctionOnSet(f, S) \in Nat
<1> DEFINE B == {t \in SUBSET S : SumFunctionOnSet(f, t) \notin Nat}
<1>1. SUFFICES ASSUME B # {} PROVE FALSE
  OBVIOUS
<1>2. \A t \in B : IsFiniteSet(t)
  BY FS_Subset
<1>3. PICK t \in B : \A u \in B : ~(u \subseteq t /\ u # t)
  <2> HIDE DEF B
  <2> QED  BY <1>1, <1>2, LeastSet
<1>4. SumFunctionOnSet(f, t) = IF t = {} THEN 0 ELSE f[Some(t)] + SumFunctionOnSet(f, t \ {Some(t)})
  BY <1>2, SumRecurs DEF SumEquation
<1>5. t # {}
  BY <1>4
<1>6. Some(t) \in t /\ t \ {Some(t)} \subseteq t /\ t \ {Some(t)} # t
  BY <1>5, SomeIn
<1>7. SumFunctionOnSet(f, t \ {Some(t)}) \in Nat /\ f[Some(t)] \in Nat
  BY <1>3, <1>6
<1> QED  BY <1>4, <1>7

(* The sum with one more. *)
LEMMA SumMore ==
  ASSUME NEW f, NEW S, IsFiniteSet(S), NEW x, x \notin S,
         \A i \in S \cup {x} : f[i] \in Nat
  PROVE  SumFunctionOnSet(f, S \cup {x}) = SumFunctionOnSet(f, S) + f[x]
<1>1. ASSUME NEW T \in SUBSET (S \cup {x}) PROVE SumFunctionOnSet(f, T) \in Nat
  BY FS_AddElement, FS_Subset, SumNat
<1> DEFINE Adds(t) == \A y \in t : SumFunctionOnSet(f, t) = SumFunctionOnSet(f, t \ {y}) + f[y]
           B == {t \in SUBSET (S \cup {x}) : ~Adds(t)}
<1>2. B = {}
  <2>1. SUFFICES ASSUME B # {} PROVE FALSE
    OBVIOUS
  <2>2. \A t \in B : IsFiniteSet(t)
    BY FS_Subset, FS_AddElement
  <2>3. PICK t \in B : \A u \in B : ~(u \subseteq t /\ u # t)
    <3> HIDE DEF B
    <3> QED  BY <2>1, <2>2, LeastSet
  <2>4. PICK y \in t : SumFunctionOnSet(f, t) # SumFunctionOnSet(f, t \ {y}) + f[y]
    OBVIOUS
  <2> DEFINE c == Some(t)
  <2>5. c \in t /\ SumFunctionOnSet(f, t) = f[c] + SumFunctionOnSet(f, t \ {c})
    BY <2>2, <2>4, SumRecurs, SomeIn DEF SumEquation
  <2> HIDE DEF c
  <2>6. /\ f[c] \in Nat /\ f[y] \in Nat /\ c # y
        /\ SumFunctionOnSet(f, t \ {c}) \in Nat /\ SumFunctionOnSet(f, t \ {y}) \in Nat /\ SumFunctionOnSet(f, t \ {c, y}) \in Nat
    <3>1. f[c] \in Nat /\ f[y] \in Nat
      BY <2>5
    <3>2. SumFunctionOnSet(f, t \ {c}) \in Nat /\ SumFunctionOnSet(f, t \ {y}) \in Nat /\ SumFunctionOnSet(f, t \ {c, y}) \in Nat
      BY <1>1
    <3> QED  BY <2>4, <2>5, <3>1, <3>2
  <2>7. Adds(t \ {c}) /\ Adds(t \ {y})
    <3>1. /\ t \ {c} \in SUBSET (S \cup {x}) /\ t \ {c} \subseteq t /\ t \ {c} # t
          /\ t \ {y} \in SUBSET (S \cup {x}) /\ t \ {y} \subseteq t /\ t \ {y} # t
      BY <2>5
    <3> QED  BY <2>3, <3>1
  <2>8. (t \ {c}) \ {y} = t \ {c, y} /\ (t \ {y}) \ {c} = t \ {c, y}
    OBVIOUS
  <2>9. /\ SumFunctionOnSet(f, t \ {c}) = SumFunctionOnSet(f, t \ {c, y}) + f[y]
        /\ SumFunctionOnSet(f, t \ {y}) = SumFunctionOnSet(f, t \ {c, y}) + f[c]
    <3>1. y \in t \ {c} /\ c \in t \ {y}
      BY <2>5, <2>6
    <3> QED  BY <2>7, <2>8, <3>1
  <2> HIDE DEF Adds
  <2> QED  BY <2>4, <2>5, <2>6, <2>9
<1>3. Adds(S \cup {x})
  BY <1>2
<1>4. (S \cup {x}) \ {x} = S
  OBVIOUS
<1> QED  BY <1>3, <1>4

(* A sum of more is more. *)
LEMMA SumGrows ==
  ASSUME NEW f, NEW g, NEW S, IsFiniteSet(S),
         \A x \in S : f[x] \in Nat /\ g[x] \in Nat /\ f[x] <= g[x]
  PROVE  SumFunctionOnSet(f, S) <= SumFunctionOnSet(g, S)
<1> DEFINE B == {t \in SUBSET S : ~(SumFunctionOnSet(f, t) <= SumFunctionOnSet(g, t))}
<1>1. SUFFICES ASSUME B # {} PROVE FALSE
  OBVIOUS
<1>2. \A t \in SUBSET S : IsFiniteSet(t)
  BY FS_Subset
<1>3. PICK t \in B : \A u \in B : ~(u \subseteq t /\ u # t)
  <2> HIDE DEF B
  <2>1. B \subseteq SUBSET S
    BY DEF B
  <2> QED  BY <1>1, <1>2, <2>1, LeastSet
<1>4. /\ SumFunctionOnSet(f, t) = IF t = {} THEN 0 ELSE f[Some(t)] + SumFunctionOnSet(f, t \ {Some(t)})
      /\ SumFunctionOnSet(g, t) = IF t = {} THEN 0 ELSE g[Some(t)] + SumFunctionOnSet(g, t \ {Some(t)})
  BY <1>2, SumRecurs DEF SumEquation
<1>5. t # {}
  BY <1>4
<1>6. Some(t) \in t /\ t \ {Some(t)} \subseteq t /\ t \ {Some(t)} # t
  BY <1>5, SomeIn
<1>7. SumFunctionOnSet(f, t \ {Some(t)}) <= SumFunctionOnSet(g, t \ {Some(t)})
  BY <1>3, <1>6
<1>8. /\ SumFunctionOnSet(f, t \ {Some(t)}) \in Nat /\ SumFunctionOnSet(g, t \ {Some(t)}) \in Nat
      /\ f[Some(t)] \in Nat /\ g[Some(t)] \in Nat /\ f[Some(t)] <= g[Some(t)]
  <2>1. t \ {Some(t)} \in SUBSET S
    OBVIOUS
  <2> QED  BY <1>2, <1>6, <2>1, SumNat
<1>9. SumFunctionOnSet(f, t) <= SumFunctionOnSet(g, t)
  BY <1>4, <1>5, <1>7, <1>8
<1> QED  BY <1>9

(* The bytes of a set of entries. *)
LEMMA SizeOfNat ==
  ASSUME NEW e, NEW S, IsFiniteSet(S), S \subseteq 1..Len(e), \A i \in S : e[i].size \in Nat
  PROVE  SizeOf(e, S) \in Nat
<1> DEFINE f == [i \in 1..Len(e) |-> e[i].size]
<1>1. \A i \in S : f[i] \in Nat
  OBVIOUS
<1> HIDE DEF f
<1>2. SumFunctionOnSet(f, S) \in Nat
  BY <1>1, SumNat
<1> QED  BY <1>2 DEF SizeOf, f

LEMMA SizeOfMore ==
  ASSUME NEW e, NEW S, IsFiniteSet(S), NEW x, x \notin S, S \cup {x} \subseteq 1..Len(e),
         \A i \in S \cup {x} : e[i].size \in Nat
  PROVE  SizeOf(e, S \cup {x}) = SizeOf(e, S) + e[x].size
<1> DEFINE f == [i \in 1..Len(e) |-> e[i].size]
<1>1. (\A i \in S \cup {x} : f[i] \in Nat) /\ f[x] = e[x].size
  OBVIOUS
<1> HIDE DEF f
<1>2. SumFunctionOnSet(f, S \cup {x}) = SumFunctionOnSet(f, S) + f[x]
  BY <1>1, SumMore
<1> QED  BY <1>1, <1>2 DEF SizeOf, f

-----------------------------------------------------------------------------
(***************************************************************************)
(* The inductive invariant of one package's way.                           *)
(***************************************************************************)

(* Only the registry's own server is ever asked with the credential. *)
CredentialTied == (credential => at = Home) /\ sent \subseteq {Home}

(* What is known of the bytes at each stage: nothing before they are compared
   and after a failure, what the evidence says until the archive is open, and
   then that together with what the manifest says.                           *)
AsCompared == [trust |-> VerifyArtifactIdentity(archive.content, evidence), drift |-> FALSE]
Bound == BindMetadata(VerifyArtifactIdentity(archive.content, evidence), Manifest)

ResultTraced ==
  /\ archive \in Archives /\ evidence \in Evidence
  /\ pc \in {"request", "response", "body", "identify", "failed"} => result = NoResult
  /\ pc \in {"store", "inflate", "extract", "verify", "bind"} => result = AsCompared
  /\ pc \in {"scan", "analysed"} => result = Bound
  /\ pc = "degraded" => result \in {NoResult, Bound} /\ ~root

(* What was extracted are entries that were reached, the two counters say how
   many and how large they are, and so the limits bear on the disk.          *)
DiskCounted ==
  /\ archive \in Archives
  /\ next \in Nat \ {0}
  /\ IsFiniteSet(extracted)
  /\ extracted \subseteq {i \in 1..Len(archive.entries) : i < next}
  /\ counted = [files |-> Cardinality(extracted), bytes |-> SizeOf(archive.entries, extracted)]
  /\ DiskBounded

Inv == CredentialTied /\ ResultTraced /\ DiskCounted

LEMMA InvInit == Init => Inv
<1> SUFFICES ASSUME Init PROVE Inv
  OBVIOUS
<1>1. CredentialTied /\ ResultTraced
  BY DEF Init, CredentialTied, ResultTraced
<1>2. SizeOf(archive.entries, {}) = 0
  BY FS_EmptySet, SumRecurs DEF SumEquation, SizeOf
<1>3. {MaxExtractedBytes, MaxFiles} \subseteq Nat
  BY QuarantineAssumption DEF QuarantineAssumption, Limits
<1> QED  BY <1>1, <1>2, <1>3, FS_EmptySet DEF Init, Inv, DiskCounted, DiskBounded

LEMMA CredentialStep ==
  ASSUME CredentialTied, [Next]_vars
  PROVE  CredentialTied'
<1>1. CASE Send
  BY <1>1 DEF CredentialTied, Send
<1>2. ASSUME NEW o \in Origins, FollowRedirect(o) PROVE CredentialTied'
  BY <1>2 DEF CredentialTied, FollowRedirect
<1>3. CASE UNCHANGED <<at, credential, sent>>
  BY <1>3 DEF CredentialTied
<1> QED
  BY <1>1, <1>2, <1>3 DEF Next, Local, Server, RefuseHost, TarballTooLarge, Identify, Store,
    StoreFails, Inflate, DecompressionBomb, Skip, Extract, ExtractionEnds, ExtractionBreached,
    CorruptArchive, VerifyTree, TreeBreached, Bind, ScanEnds, ScanBudget, ScanFails, LateScan,
    TooManyRedirects, BadStatus, Answer, ReadBody, TimeOut, Rejects, request, vars

LEMMA ResultStep ==
  ASSUME ResultTraced, [Next]_vars
  PROVE  ResultTraced'
<1> USE DEF ResultTraced, Goto
<1>1. UNCHANGED <<archive, evidence>>
  BY DEF Next, Local, Server, Send, RefuseHost, FollowRedirect, TarballTooLarge, Identify, Store,
    StoreFails, Inflate, DecompressionBomb, Skip, Extract, ExtractionEnds, ExtractionBreached,
    CorruptArchive, VerifyTree, TreeBreached, Bind, ScanEnds, ScanBudget, ScanFails, LateScan,
    TooManyRedirects, BadStatus, Answer, ReadBody, TimeOut, Rejects, vars
<1>2. AsCompared' = AsCompared
  BY <1>1 DEF AsCompared
<1>3. extracted' = extracted => Bound' = Bound
  BY <1>1 DEF Bound, Manifest, Below, PackageDir, Tops
<1>4. CASE /\ result' = NoResult
           /\ pc' \in {"failed", "degraded"} /\ (pc' = "degraded" => ~root')
  BY <1>1, <1>4
<1>5. CASE RefuseHost \/ TarballTooLarge \/ DecompressionBomb \/ ExtractionBreached \/ CorruptArchive
           \/ TreeBreached \/ TooManyRedirects \/ BadStatus \/ TimeOut \/ StoreFails \/ ScanFails
  BY <1>4, <1>5 DEF RefuseHost, TarballTooLarge, DecompressionBomb, ExtractionBreached,
    CorruptArchive, TreeBreached, TooManyRedirects, BadStatus, TimeOut, StoreFails, ScanFails,
    Rejects, CleanUp
<1>6. CASE Send \/ Answer \/ ReadBody \/ \E o \in Origins : FollowRedirect(o)
  BY <1>1, <1>6 DEF Send, Answer, ReadBody, FollowRedirect
<1>7. CASE Identify
  BY <1>1, <1>2, <1>7 DEF Identify, AsCompared
<1>8. CASE Store \/ Inflate \/ Skip \/ Extract \/ ExtractionEnds \/ VerifyTree
  BY <1>1, <1>2, <1>8 DEF Store, Inflate, Skip, Extract, ExtractionEnds, VerifyTree
<1>9. CASE Bind
  <2>1. /\ pc = "bind" /\ pc' = "scan" /\ extracted' = extracted
        /\ result' = BindMetadata(result.trust, Manifest)
    BY <1>9 DEF Bind, disk
  <2>2. result' = Bound
    BY <2>1 DEF AsCompared, Bound
  <2> QED  BY <1>1, <1>3, <2>1, <2>2
<1>10. CASE ScanEnds \/ ScanBudget
  BY <1>1, <1>3, <1>10 DEF ScanEnds, ScanBudget, CleanUp
<1>11. CASE LateScan \/ UNCHANGED vars
  <2>1. UNCHANGED <<pc, result, root, extracted>>
    BY <1>11 DEF LateScan, disk, vars
  <2> QED  BY <1>1, <1>2, <1>3, <2>1
<1> QED
  BY <1>5, <1>6, <1>7, <1>8, <1>9, <1>10, <1>11 DEF Next, Local, Server

(* A file is written where the counters leave room for it, and they count it. *)
LEMMA DiskStep ==
  ASSUME DiskCounted, [Next]_vars
  PROVE  DiskCounted'
<1> DEFINE es == archive.entries
<1>1. archive' = archive
  BY DEF Next, Local, Server, Send, RefuseHost, FollowRedirect, TarballTooLarge, Identify, Store,
    StoreFails, Inflate, DecompressionBomb, Skip, Extract, ExtractionEnds, ExtractionBreached,
    CorruptArchive, VerifyTree, TreeBreached, Bind, ScanEnds, ScanBudget, ScanFails, LateScan,
    TooManyRedirects, BadStatus, Answer, ReadBody, TimeOut, Rejects, vars
<1>2. CASE UNCHANGED <<next, extracted, counted>>
  BY <1>1, <1>2 DEF DiskCounted, DiskBounded
<1>3. CASE Skip
  BY <1>1, <1>3 DEF Skip, DiskCounted, DiskBounded
<1>4. CASE Extract
  <2>1. /\ extracted' = extracted \cup {next} /\ next' = next + 1
        /\ counted' = [files |-> counted.files + 1, bytes |-> counted.bytes + es[next].size]
        /\ ~es[next].escapes /\ es[next].kind # "link"
        /\ counted.files + 1 <= MaxFiles /\ es[next].size <= MaxFileBytes
        /\ counted.bytes + es[next].size <= MaxExtractedBytes
    <3>1. Len(es) \in Nat /\ next \in 1..Len(es) /\ es[next].size \in Nat
      BY <1>4, QuarantineAssumption DEF QuarantineAssumption, DiskCounted, Extract, More
    <3>2. /\ counted.files \in Nat /\ counted.bytes \in Nat
          /\ {MaxFiles, MaxFileBytes, MaxExtractedBytes} \subseteq Nat
      <4>1. {MaxFiles, MaxFileBytes, MaxExtractedBytes} \subseteq Nat
        BY QuarantineAssumption DEF QuarantineAssumption, Limits
      <4>2. \A i \in extracted : es[i].size \in Nat
        BY QuarantineAssumption DEF QuarantineAssumption, DiskCounted
      <4>3. Cardinality(extracted) \in Nat /\ SizeOf(es, extracted) \in Nat
        BY <4>2, FS_CardinalityType, SizeOfNat DEF DiskCounted
      <4> QED  BY <4>1, <4>3 DEF DiskCounted
    <3> QED  BY <1>4, <3>1, <3>2 DEF Extract, Breaks, Entry
  <2>2. next \notin extracted /\ next \in 1..Len(es)
    BY <1>4, QuarantineAssumption DEF QuarantineAssumption, DiskCounted, Extract, More
  <2>3. \A i \in extracted \cup {next} : es[i].size \in Nat
    BY <2>2, QuarantineAssumption DEF QuarantineAssumption, DiskCounted
  <2>4. /\ IsFiniteSet(extracted') /\ Cardinality(extracted') = Cardinality(extracted) + 1
        /\ SizeOf(es, extracted') = SizeOf(es, extracted) + es[next].size
    <3>1. IsFiniteSet(extracted) /\ extracted \cup {next} \subseteq 1..Len(es)
      BY <2>2 DEF DiskCounted
    <3> HIDE DEF es
    <3> QED  BY <2>1, <2>2, <2>3, <3>1, FS_AddElement, SizeOfMore
  <2>5. counted' = [files |-> Cardinality(extracted'), bytes |-> SizeOf(es, extracted')]
    BY <2>1, <2>4 DEF DiskCounted
  <2>6. /\ next' \in Nat \ {0}
        /\ extracted' \subseteq {i \in 1..Len(es) : i < next'}
    BY <2>1, <2>2, QuarantineAssumption DEF QuarantineAssumption, DiskCounted
  <2>7. /\ Cardinality(extracted') <= MaxFiles
        /\ SizeOf(es, extracted') <= MaxExtractedBytes
        /\ \A i \in extracted' : ~es[i].escapes /\ es[i].kind # "link" /\ es[i].size <= MaxFileBytes
    BY <2>1, <2>4 DEF DiskCounted, DiskBounded
  <2> QED  BY <1>1, <2>4, <2>5, <2>6, <2>7 DEF DiskCounted, DiskBounded
<1> QED
  BY <1>2, <1>3, <1>4 DEF Next, Local, Server, Send, RefuseHost, FollowRedirect, TarballTooLarge,
    Identify, Store, StoreFails, Inflate, DecompressionBomb, ExtractionEnds, ExtractionBreached,
    CorruptArchive, VerifyTree, TreeBreached, Bind, ScanEnds, ScanBudget, ScanFails, LateScan,
    TooManyRedirects, BadStatus, Answer, ReadBody, TimeOut, Rejects, disk, vars

(* The credential, the verdict on the bytes and the disk are accounted for
   throughout.                                                               *)
THEOREM QuarantineInvariance == Spec => []Inv
<1>1. Inv /\ [Next]_vars => Inv'
  BY CredentialStep, ResultStep, DiskStep DEF Inv
<1> QED  BY <1>1, InvInit, PTL DEF Spec

(* The registry's credential is sent to no server but the registry's own. *)
THEOREM CredentialKept == Spec => []CredentialStaysHome
<1>1. Inv => CredentialStaysHome
  BY DEF Inv, CredentialTied, CredentialStaysHome
<1> QED  BY <1>1, QuarantineInvariance, PTL

(* A package is reported as verified only when some source names its bytes, none
   names others, and its manifest hides nothing from the registry's metadata. *)
THEOREM TrustIsJustified == Spec => []TrustJustified
<1>1. Inv => TrustJustified
  <2> SUFFICES ASSUME Inv, pc \in Ended, IsChecksumVerified(result.trust)
               PROVE  /\ \A cs \in Sources(evidence) : Declared(cs) => Names(cs, archive.content)
                      /\ \E cs \in Sources(evidence) : Names(cs, archive.content)
                      /\ Manifest \cap Mutations = {}
    BY DEF TrustJustified, Sources
  <2>1. result = Bound
    BY DEF Inv, ResultTraced, Ended, NoResult, IsChecksumVerified
  <2>2. /\ IsChecksumVerified(VerifyArtifactIdentity(archive.content, evidence))
        /\ Manifest \cap Mutations = {}
    BY <2>1 DEF Bound, BindMetadata, IsChecksumVerified
  <2>3. \A cs \in {evidence.registry, evidence.lockfile, evidence.publicChecksums} : InSequence(cs)
    BY QuarantineAssumption DEF QuarantineAssumption, Inv, ResultTraced, InSequence
  <2> QED  BY <2>2, <2>3, VerifiedMeansNamed
<1> QED  BY <1>1, QuarantineInvariance, PTL

(* What an archive makes the extraction write is within the limits at every
   moment, inside of the directory, and no link.                             *)
THEOREM DiskStaysBounded == Spec => []DiskBounded
<1>1. Inv => DiskBounded
  BY DEF Inv, DiskCounted
<1> QED  BY <1>1, QuarantineInvariance, PTL

(* The quarantine directory outlives the analysis only when storing the tarball
   failed.                                                                   *)
THEOREM DirectoryRemoved == Spec => QuarantineRemoved
<1>1. ASSUME Inv, [Next]_vars PROVE [pc' \in Ended /\ root' => StoreFails]_vars
  <2>1. CASE RefuseHost \/ TarballTooLarge \/ DecompressionBomb \/ ExtractionBreached \/ CorruptArchive
             \/ TreeBreached \/ TooManyRedirects \/ BadStatus \/ TimeOut \/ ScanFails \/ ScanEnds
             \/ ScanBudget
    BY <2>1 DEF RefuseHost, TarballTooLarge, DecompressionBomb, ExtractionBreached,
      CorruptArchive, TreeBreached, TooManyRedirects, BadStatus, TimeOut, ScanFails, ScanEnds,
      ScanBudget, Rejects, CleanUp
  <2>2. CASE LateScan
    BY <1>1, <2>2 DEF LateScan, Inv, ResultTraced, disk
  <2>3. CASE Send \/ Answer \/ ReadBody \/ Identify \/ Store \/ Inflate \/ Skip \/ Extract
             \/ ExtractionEnds \/ VerifyTree \/ Bind \/ \E o \in Origins : FollowRedirect(o)
    BY <2>3 DEF Send, Answer, ReadBody, Identify, Store, Inflate, Skip, Extract, ExtractionEnds,
      VerifyTree, Bind, FollowRedirect, Goto, Ended
  <2> QED  BY <1>1, <2>1, <2>2, <2>3 DEF Next, Local, Server
<1> QED  BY <1>1, QuarantineInvariance, PTL DEF Spec, QuarantineRemoved

-----------------------------------------------------------------------------
(***************************************************************************)
(* The monitor: what is told, what is forgotten, and when a run exits 0.   *)
(***************************************************************************)

RunFields ==
  {"pc", "flags", "targets", "osv", "lost", "found", "snapshots", "errors", "prior", "events", "exit", "bad"}
Alive == {"osv", "scan", "write", "print"}
Judged == {"write", "print", "done"}

IsRun(r) ==
  /\ DOMAIN r = RunFields
  /\ r.pc \in {"idle", "dead"} \cup Alive \cup Judged
  /\ r.osv \in {"pending", "ok", "failed"}
  /\ r.targets \subseteq Monitored /\ r.errors \subseteq r.targets
  /\ DOMAIN r.snapshots \subseteq r.targets
  /\ \A b \in r.bad \cup r.lost : b = <<b[1], b[2]>> /\ b[1] \in r.targets

MonitorTypes ==
  /\ DOMAIN world = Monitored /\ \A k \in Monitored : world[k] \in AnyWorld
  /\ DOMAIN run = Monitors /\ \A m \in Monitors : IsRun(run[m])
  /\ DOMAIN baseline \subseteq Monitored

(* What a run has seen of the packages that are malicious throughout. *)
Earned(r) ==
  /\ \A b \in r.bad :
       b[1] \notin r.errors =>
         /\ r.osv = "failed" \/ (b \in r.lost /\ b[2] \notin MalIds)
         /\ ~r.flags.failOnOsvError
  /\ r.flags.failOnOsvError =>
       /\ r.osv = "failed" => r.errors = r.targets
       /\ \A b \in r.lost : b[1] \in r.errors

(* What OSV answered: malware is named, or its record had to be fetched and is
   lost, and what lost a record is unknown.                                  *)
Answered(r) ==
  /\ \A b \in r.bad : b[2] \in r.found[b[1]].malicious \/ (b \in r.lost /\ b[2] \notin MalIds)
  /\ \A b \in r.lost : r.found[b[1]].osvUnavailable

Sees(r, w) ==
  /\ r.pc \in Alive => \A b \in r.bad : b[2] \in w[b[1]].malicious
  /\ r.pc = "idle" => r.snapshots = NoSnapshots /\ r.errors = {} /\ r.lost = {}
  /\ r.pc = "osv" => DOMAIN r.snapshots = {}
  /\ r.pc = "scan" =>
       /\ r.osv # "pending"
       /\ r.osv = "ok" =>
            /\ Answered(r)
            /\ \A k \in DOMAIN r.snapshots :
                 /\ r.snapshots[k].malicious = r.found[k].malicious
                 /\ r.snapshots[k].osvUnavailable = r.found[k].osvUnavailable
       /\ r.osv = "failed" => \A k \in DOMAIN r.snapshots : r.snapshots[k].osvUnavailable
  /\ r.pc \in Judged /\ r.exit = 0 => Earned(r)

(* What is known to somebody of a package, or was never compared; only a run
   that writes the file is counted on to print what it found.                *)
Printing == {m \in Reporting : run[m].flags.update}
Accounted(k) == told[k] \cup missed[k] \cup UNION {FactsOf(m, k) : m \in Printing}

(* What a run is about to write is accounted for once it prints. *)
Covered(m) ==
  run[m].pc = "write" =>
    /\ run[m].flags.update
    /\ \A k \in DOMAIN run[m].snapshots \cap run[m].prior :
         Facts(run[m].snapshots[k]) \subseteq Accounted(k) \cup FactsOf(m, k)

MonitorInv ==
  /\ MonitorTypes
  /\ \A m \in Monitors : Sees(run[m], world) /\ Covered(m)
  /\ \A k \in DOMAIN baseline : Facts(baseline[k]) \subseteq Accounted(k)

(* Whatever a snapshot has more than the one before is in an event. *)
LEMMA DifferenceReported ==
  ASSUME NEW before, NEW after
  PROVE  Facts(after) \subseteq Facts(before) \cup UNION {e.facts : e \in DiffSnapshots(before, after)}
<1> DEFINE more == New(before, after)
           joined == Maintainers(after) \ Maintainers(before)
<1>1. Facts(after) \subseteq Facts(before) \cup more \cup joined
  BY DEF Facts, New
<1>2. more # {} => Event("new-advisory", "warn", more) \in DiffSnapshots(before, after)
  BY DEF DiffSnapshots, Event
<1>3. joined # {} => Event("maintainer-added", "warn", joined) \in DiffSnapshots(before, after)
  BY DEF DiffSnapshots, Event
<1>4. Event("new-advisory", "warn", more).facts = more /\ Event("maintainer-added", "warn", joined).facts = joined
  BY DEF Event
<1> HIDE DEF more, joined
<1> QED  BY <1>1, <1>2, <1>3, <1>4

(* A run changes no other run. *)
LEMMA StepIs ==
  ASSUME MonitorTypes, NEW m \in Monitors, NEW from, NEW r, Step(m, from, r)
  PROVE  /\ run[m].pc = from /\ UNCHANGED world
         /\ DOMAIN run' = Monitors /\ run'[m] = r
         /\ \A x \in Monitors : x # m => run'[x] = run[x]
BY DEF Step, MonitorTypes

(* What is accounted for stays so. *)
LEMMA AccountedStays ==
  ASSUME MonitorTypes, [MonitorNext]_monitorVars, NEW k \in Monitored
  PROVE  Accounted(k) \subseteq Accounted(k)'
<1>1. ASSUME told[k] \subseteq told'[k], missed[k] \subseteq missed'[k],
             \A m \in Printing : \/ m \in Printing' /\ FactsOf(m, k) \subseteq FactsOf(m, k)'
                                 \/ FactsOf(m, k) \subseteq told'[k] \cup missed'[k]
      PROVE  Accounted(k) \subseteq Accounted(k)'
  BY <1>1 DEF Accounted
<1>2. ASSUME NEW j \in Monitored, NEW w, WorldChanges(j, w) PROVE Accounted(k) \subseteq Accounted(k)'
  <2>1. \A m \in Monitors : run'[m].pc = run[m].pc /\ run'[m].flags = run[m].flags /\ run'[m].events = run[m].events
    BY <1>2 DEF WorldChanges, MonitorTypes, IsRun, RunFields
  <2>2. UNCHANGED <<told, missed>>
    BY <1>2 DEF WorldChanges
  <2> QED  BY <1>1, <2>1, <2>2 DEF Printing, Reporting, FactsOf
<1>3. ASSUME NEW m \in Monitors, NEW from, NEW r, Step(m, from, r), from # "print", UNCHANGED told,
             missed[k] \subseteq missed'[k]
      PROVE  Accounted(k) \subseteq Accounted(k)'
  <2>1. \A x \in Printing : x # m /\ run'[x] = run[x]
    BY <1>3, StepIs DEF Printing, Reporting
  <2> QED  BY <1>1, <1>3, <2>1 DEF Printing, Reporting, FactsOf
<1>4. ASSUME NEW m \in Monitors, Report(m) PROVE Accounted(k) \subseteq Accounted(k)'
  <2>1. /\ \A x \in Monitors : x # m => run'[x] = run[x]
        /\ told'[k] = told[k] \cup FactsOf(m, k) /\ missed' = missed
    BY <1>4, StepIs DEF Report
  <2> QED  BY <1>1, <2>1 DEF Printing, Reporting, FactsOf
<1>5. ASSUME NEW m \in Monitors, Crash(m) PROVE Accounted(k) \subseteq Accounted(k)'
  <2>1. \A x \in Monitors : x # m => run'[x] = run[x]
    BY <1>5, StepIs DEF Crash
  <2>2. told' = told /\ missed[k] \subseteq missed'[k]
    BY <1>5 DEF Crash
  <2>3. m \in Printing => FactsOf(m, k) \subseteq missed'[k]
    BY <1>5 DEF Crash, Printing, Reporting
  <2> QED  BY <1>1, <2>1, <2>2, <2>3 DEF Printing, Reporting, FactsOf
<1>6. CASE LoseBaseline \/ UNCHANGED monitorVars
  BY <1>1, <1>6 DEF LoseBaseline, monitorVars, Printing, Reporting, FactsOf
<1>7. ASSUME NEW m \in Monitors, WriteBaseline(m) PROVE Accounted(k) \subseteq Accounted(k)'
  <2>1. missed[k] \subseteq missed'[k] /\ UNCHANGED told
    BY <1>7 DEF WriteBaseline
  <2> QED  BY <1>3, <1>7, <2>1 DEF WriteBaseline, ToPrint
<1>8. ASSUME NEW m \in Monitors, \/ \E flags \in Flags : Start(m, flags)
                                 \/ AskOsv(m) \/ Compare(m) \/ WriteFails(m)
                                 \/ \E j \in Monitored : LookUp(m, j) \/ LookUpFails(m, j)
      PROVE  Accounted(k) \subseteq Accounted(k)'
  <2>1. UNCHANGED <<told, missed>>
    BY <1>8 DEF Start, AskOsv, Compare, WriteFails, LookUp, LookUpFails
  <2>2. \E from \in {"idle", "osv", "scan", "write"} : \E r : Step(m, from, r)
    BY <1>8, Zenon DEF Start, AskOsv, Compare, WriteFails, ToPrint, LookUp, LookUpFails
  <2> QED  BY <1>3, <2>1, <2>2
<1> QED  BY <1>2, <1>4, <1>5, <1>6, <1>7, <1>8 DEF MonitorNext

(* What a run may do, and to whom. *)
LEMMA MonitorSteps ==
  ASSUME MonitorTypes, [MonitorNext]_monitorVars, NEW x \in Monitors
  PROVE  \/ \E flags \in Flags : Start(x, flags)
         \/ AskOsv(x) \/ Compare(x) \/ ToPrint(x) \/ Report(x) \/ Crash(x)
         \/ \E k \in Monitored : LookUp(x, k) \/ LookUpFails(x, k)
         \/ \E k \in Monitored : \E w \in Worlds[k] : WorldChanges(k, w)
         \/ run'[x] = run[x] /\ UNCHANGED world
<1>1. ASSUME NEW m \in Monitors, NEW from, NEW r, Step(m, from, r), m # x PROVE run'[x] = run[x] /\ UNCHANGED world
  BY <1>1, StepIs
<1>2. ASSUME NEW m \in Monitors, m # x,
             \/ \E flags \in Flags : Start(m, flags)
             \/ AskOsv(m) \/ Compare(m) \/ WriteBaseline(m) \/ WriteFails(m) \/ Report(m) \/ Crash(m)
             \/ \E j \in Monitored : LookUp(m, j) \/ LookUpFails(m, j)
      PROVE  run'[x] = run[x] /\ UNCHANGED world
  <2>1. \E from, r : Step(m, from, r)
    BY <1>2, Zenon DEF Start, AskOsv, Compare, WriteBaseline, WriteFails, Report, Crash, ToPrint, LookUp, LookUpFails
  <2> QED  BY <1>1, <1>2, <2>1
<1>3. CASE LoseBaseline \/ UNCHANGED monitorVars
  BY <1>3 DEF LoseBaseline, monitorVars
<1> QED
  BY <1>2, <1>3, Zenon DEF MonitorNext, WriteBaseline, WriteFails

(* The events of a run that compares now. *)
EventsAt(m) ==
  UNION {{<<k, e>> : e \in EventsOf(run[m].snapshots[k], k, baseline, run[m].flags.failOnOsvError)} :
           k \in DOMAIN run[m].snapshots}

LEMMA EventsAtHas ==
  ASSUME NEW m, NEW k \in DOMAIN run[m].snapshots,
         NEW e \in EventsOf(run[m].snapshots[k], k, baseline, run[m].flags.failOnOsvError)
  PROVE  <<k, e>> \in EventsAt(m)
BY DEF EventsAt

LEMMA CompareIs ==
  ASSUME MonitorTypes, NEW m \in Monitors, Compare(m)
  PROVE  /\ run[m].pc = "scan" /\ Pending(m) = {} /\ UNCHANGED <<world, baseline, told, missed>>
         /\ DOMAIN run'[m] = RunFields
         /\ run'[m].pc = IF run[m].flags.update THEN "write" ELSE "print"
         /\ run'[m].events = EventsAt(m) /\ run'[m].exit = ExitCode(EventsAt(m))
         /\ run'[m].prior = DOMAIN baseline
         /\ \A f \in {"osv", "lost", "targets", "errors", "bad", "flags", "snapshots"} : run'[m][f] = run[m][f]
<1> DEFINE r == [run[m] EXCEPT !.pc = IF run[m].flags.update THEN "write" ELSE "print",
                               !.events = EventsAt(m), !.exit = ExitCode(EventsAt(m)),
                               !.prior = DOMAIN baseline, !.found = NoSnapshots]
<1>1. Pending(m) = {} /\ Step(m, "scan", r) /\ UNCHANGED <<baseline, told, missed>>
  BY Zenon DEF Compare, EventsAt
<1>2. DOMAIN run[m] = RunFields
  BY DEF MonitorTypes, IsRun
<1>3. run[m].pc = "scan" /\ UNCHANGED world /\ run'[m] = r
  BY <1>1, StepIs
<1> QED  BY <1>1, <1>2, <1>3 DEF RunFields

(* A comparison that finds nothing to warn of was clean. *)
LEMMA CompareEarns ==
  ASSUME MonitorTypes, NEW m \in Monitors, Sees(run[m], world), Compare(m), run'[m].exit = 0
  PROVE  Earned(run[m])
<1> DEFINE r == run[m]
<1>1. r.pc = "scan" /\ Pending(m) = {} /\ run'[m].exit = ExitCode(EventsAt(m)) /\ IsRun(r)
  BY CompareIs DEF MonitorTypes
<1>2. \A e \in EventsAt(m) : e[2].severity \notin {"critical", "warn"}
  BY <1>1 DEF ExitCode
<1>3. ASSUME NEW k \in DOMAIN r.snapshots,
             NEW e \in EventsOf(r.snapshots[k], k, baseline, r.flags.failOnOsvError)
      PROVE  e.severity \notin {"critical", "warn"}
  <2>1. <<k, e>> \in EventsAt(m)
    BY EventsAtHas
  <2>2. <<k, e>>[2] = e
    OBVIOUS
  <2> QED  BY <1>2, <2>1, <2>2
<1>4. r.targets \subseteq DOMAIN r.snapshots \cup r.errors
  BY <1>1 DEF Pending
<1> HIDE DEF r
<1>5. ASSUME NEW k \in DOMAIN r.snapshots PROVE r.snapshots[k].malicious = {}
  <2>1. SUFFICES ASSUME r.snapshots[k].malicious # {} PROVE FALSE
    OBVIOUS
  <2>2. Event("known-malicious", "critical", {}) \in AlwaysOnFindings(r.snapshots[k], r.flags.failOnOsvError)
    BY <2>1 DEF AlwaysOnFindings, Event
  <2>3. Event("known-malicious", "critical", {}).severity = "critical"
    BY DEF Event
  <2> QED  BY <1>3, <2>2, <2>3 DEF EventsOf
<1>6. ASSUME NEW k \in DOMAIN r.snapshots, r.flags.failOnOsvError PROVE ~r.snapshots[k].osvUnavailable
  <2>1. SUFFICES ASSUME r.snapshots[k].osvUnavailable PROVE FALSE
    OBVIOUS
  <2>2. Event("lookup-degraded", "warn", {}) \in AlwaysOnFindings(r.snapshots[k], r.flags.failOnOsvError)
    BY <1>6, <2>1 DEF AlwaysOnFindings, Event
  <2>3. Event("lookup-degraded", "warn", {}).severity = "warn"
    BY DEF Event
  <2> QED  BY <1>3, <2>2, <2>3 DEF EventsOf
<1>7. /\ r.osv \in {"ok", "failed"}
      /\ r.osv = "ok" =>
           /\ Answered(r)
           /\ \A k \in DOMAIN r.snapshots :
                /\ r.snapshots[k].malicious = r.found[k].malicious
                /\ r.snapshots[k].osvUnavailable = r.found[k].osvUnavailable
      /\ r.osv = "failed" => \A k \in DOMAIN r.snapshots : r.snapshots[k].osvUnavailable
  BY <1>1 DEF Sees, IsRun, r
<1>8. r.errors \subseteq r.targets /\ \A b \in r.bad \cup r.lost : b[1] \in r.targets
  BY <1>1 DEF IsRun
<1>9. CASE r.osv = "ok"
  <2>1. ASSUME NEW b \in r.bad, b[1] \notin r.errors
        PROVE  b \in r.lost /\ b[2] \notin MalIds /\ ~r.flags.failOnOsvError
    <3>1. b[1] \in DOMAIN r.snapshots
      BY <1>4, <1>8, <2>1
    <3>2. b[2] \notin r.found[b[1]].malicious
      BY <1>5, <1>7, <1>9, <3>1
    <3>3. b \in r.lost /\ b[2] \notin MalIds /\ r.snapshots[b[1]].osvUnavailable
      BY <1>7, <1>9, <3>1, <3>2 DEF Answered
    <3> QED  BY <1>6, <3>1, <3>3
  <2>2. ASSUME NEW b \in r.lost, r.flags.failOnOsvError PROVE b[1] \in r.errors
    <3>1. SUFFICES ASSUME b[1] \notin r.errors PROVE FALSE
      OBVIOUS
    <3>2. b[1] \in DOMAIN r.snapshots
      BY <1>4, <1>8, <3>1
    <3> QED  BY <1>6, <1>7, <1>9, <2>2, <3>2 DEF Answered
  <2> QED  BY <1>9, <2>1, <2>2 DEF Earned, r
<1>10. CASE r.osv = "failed"
  <2>1. r.flags.failOnOsvError => r.errors = r.targets
    BY <1>4, <1>6, <1>7, <1>8, <1>10
  <2> QED  BY <1>8, <1>10, <2>1 DEF Earned, r
<1> QED  BY <1>7, <1>9, <1>10

LEMMA SeesStep ==
  ASSUME MonitorTypes, [MonitorNext]_monitorVars, NEW x \in Monitors, Sees(run[x], world)
  PROVE  IsRun(run'[x]) /\ Sees(run'[x], world')
<1> DEFINE r == run[x]
<1>0. IsRun(r) /\ DOMAIN world = Monitored /\ \A k \in Monitored : world[k] \in AnyWorld
  BY DEF MonitorTypes
<1>1. ASSUME NEW flags \in Flags, Start(x, flags) PROVE IsRun(run'[x]) /\ Sees(run'[x], world')
  <2>1. Targets(flags.all) \subseteq Monitored
    BY DEF Targets, Monitored
  <2> DEFINE bad == {b \in Targets(flags.all) \X UNION {world[k].malicious : k \in Targets(flags.all)} :
                       b[2] \in world[b[1]].malicious}
  <2>2. /\ UNCHANGED world /\ r.pc = "idle"
        /\ run'[x] = [r EXCEPT !.pc = "osv", !.flags = flags, !.targets = Targets(flags.all), !.bad = bad]
    BY <1>1, StepIs DEF Start
  <2>3. r.snapshots = NoSnapshots /\ r.errors = {} /\ r.lost = {}
    BY <2>2 DEF Sees
  <2>4. \A b \in bad : b[1] \in Targets(flags.all) /\ b[2] \in world[b[1]].malicious
    OBVIOUS
  <2>5. \A b \in bad : b = <<b[1], b[2]>>
    OBVIOUS
  <2> HIDE DEF bad
  <2>6. /\ DOMAIN run'[x] = RunFields /\ run'[x].pc = "osv" /\ run'[x].targets = Targets(flags.all)
        /\ run'[x].bad = bad /\ \A f \in {"osv", "lost", "snapshots", "errors"} : run'[x][f] = r[f]
    BY <1>0, <2>2 DEF IsRun, RunFields
  <2>7. /\ run'[x].osv = r.osv /\ run'[x].lost = {} /\ run'[x].snapshots = NoSnapshots /\ run'[x].errors = {}
    BY <2>3, <2>6
  <2>8. IsRun(run'[x])
    BY <1>0, <2>1, <2>4, <2>5, <2>6, <2>7 DEF IsRun, Alive, NoSnapshots
  <2> HIDE DEF r
  <2>9. Sees(run'[x], world')
    BY <2>2, <2>4, <2>6, <2>7 DEF Sees, Alive, Judged, NoSnapshots
  <2> QED  BY <2>8, <2>9
<1>2. CASE AskOsv(x)
  <2>1. /\ UNCHANGED world /\ r.pc = "osv"
        /\ \/ run'[x] = [r EXCEPT !.pc = "scan", !.osv = "failed"]
           \/ \E lost \in SUBSET NeedDetail(UNION {Records(world[k]) : k \in r.targets}) :
                run'[x] = [r EXCEPT !.pc = "scan", !.osv = "ok",
                                    !.lost = {b \in r.targets \X lost : b[2] \in Records(world[b[1]])},
                                    !.found = [k \in r.targets |-> OsvAnswer(world[k], lost)]]
    <3>1. \/ Step(x, "osv", [r EXCEPT !.pc = "scan", !.osv = "failed"])
          \/ \E lost \in SUBSET NeedDetail(UNION {Records(world[k]) : k \in r.targets}) :
               Step(x, "osv", [r EXCEPT !.pc = "scan", !.osv = "ok",
                                        !.lost = {b \in r.targets \X lost : b[2] \in Records(world[b[1]])},
                                        !.found = [k \in r.targets |-> OsvAnswer(world[k], lost)]])
      BY <1>2, Zenon DEF AskOsv
    <3> HIDE DEF r
    <3>2. \A from, v : Step(x, from, v) => UNCHANGED world /\ run[x].pc = from /\ run'[x] = v
      BY StepIs
    <3> QED  BY <3>1, <3>2, Zenon DEF r
  <2>2. /\ DOMAIN r.snapshots = {} /\ r.targets \subseteq Monitored
        /\ \A b \in r.bad : b[2] \in world[b[1]].malicious /\ b[1] \in r.targets
    BY <1>0, <2>1 DEF Sees, Alive, IsRun
  <2>3. CASE run'[x] = [r EXCEPT !.pc = "scan", !.osv = "failed"]
    <3>1. IsRun(run'[x])
      BY <1>0, <2>3 DEF IsRun, RunFields, Alive
    <3>2. /\ run'[x].pc = "scan" /\ run'[x].osv = "failed" /\ run'[x].bad = r.bad /\ run'[x].snapshots = r.snapshots
      BY <1>0, <2>3 DEF IsRun, RunFields
    <3> HIDE DEF r
    <3>3. Sees(run'[x], world')
      BY <2>1, <2>2, <3>2 DEF Sees, Alive, Judged
    <3> QED  BY <3>1, <3>3
  <2>4. ASSUME NEW lost \in SUBSET NeedDetail(UNION {Records(world[k]) : k \in r.targets}),
               run'[x] = [r EXCEPT !.pc = "scan", !.osv = "ok",
                                   !.lost = {b \in r.targets \X lost : b[2] \in Records(world[b[1]])},
                                   !.found = [k \in r.targets |-> OsvAnswer(world[k], lost)]]
        PROVE  IsRun(run'[x]) /\ Sees(run'[x], world')
    <3>1. /\ DOMAIN run'[x] = RunFields /\ run'[x].pc = "scan" /\ run'[x].osv = "ok"
          /\ run'[x].lost = {b \in r.targets \X lost : b[2] \in Records(world[b[1]])}
          /\ run'[x].found = [k \in r.targets |-> OsvAnswer(world[k], lost)]
          /\ \A f \in {"targets", "errors", "bad", "snapshots"} : run'[x][f] = r[f]
      BY <1>0, <2>4 DEF IsRun, RunFields
    <3>2. /\ run'[x].targets = r.targets /\ run'[x].errors = r.errors /\ run'[x].bad = r.bad
          /\ run'[x].snapshots = r.snapshots
      BY <3>1
    <3>3. ASSUME NEW k \in r.targets
          PROVE  /\ run'[x].found[k].malicious = world[k].malicious \ lost
                 /\ run'[x].found[k].osvUnavailable = (Records(world[k]) \cap lost # {})
      <4>1. world[k] \in AnyWorld
        BY <1>0, <2>2
      <4>2. {"malicious", "advisories", "osvUnavailable"} \subseteq DOMAIN world[k]
        BY <4>1, MonitorAssumption DEF MonitorAssumption
      <4>3. run'[x].found[k] = OsvAnswer(world[k], lost)
        BY <3>1
      <4> QED  BY <4>2, <4>3 DEF OsvAnswer
    <3>4. \A b \in r.bad : b[2] \in Records(world[b[1]])
      BY <2>2 DEF Records
    <3>5. \A b \in run'[x].lost : b[1] \in r.targets /\ b[2] \in Records(world[b[1]]) \cap lost
      BY <3>1
    <3>6. lost \cap MalIds = {}
      BY DEF NeedDetail
    <3>7. IsRun(run'[x])
      BY <1>0, <3>1, <3>2, <3>5 DEF IsRun, Alive
    <3>8. ASSUME NEW b \in r.bad, b[2] \notin run'[x].found[b[1]].malicious
          PROVE  b \in run'[x].lost /\ b[2] \notin MalIds
      <4>1. b[1] \in r.targets /\ b[2] \in world[b[1]].malicious /\ b[2] \in lost
        BY <2>2, <3>3, <3>8
      <4>2. b = <<b[1], b[2]>>
        BY <1>0 DEF IsRun
      <4>3. b \in r.targets \X lost
        BY <4>1, <4>2
      <4> QED  BY <3>1, <3>4, <3>6, <4>1, <4>3
    <3>9. Answered(run'[x])
      BY <3>2, <3>3, <3>5, <3>8 DEF Answered
    <3> HIDE DEF r
    <3>10. Sees(run'[x], world')
      BY <2>1, <2>2, <3>1, <3>2, <3>9 DEF Sees, Alive, Judged
    <3> QED  BY <3>7, <3>10
  <2> QED  BY <2>1, <2>3, <2>4
<1>3. ASSUME NEW k \in Monitored, LookUp(x, k) PROVE IsRun(run'[x]) /\ Sees(run'[x], world')
  <2>1. PICK w \in {world[k], Unknown(world[k])} :
          /\ UNCHANGED world /\ r.pc = "scan"
          /\ run'[x] = [r EXCEPT !.snapshots = [j \in DOMAIN @ \cup {k} |-> IF j = k THEN Snapshot(w, r, k) ELSE @[j]]]
    BY <1>3, StepIs DEF LookUp
  <2>2. k \in r.targets
    BY <1>3 DEF LookUp, Pending
  <2>3. /\ r.osv = "ok" => /\ Snapshot(w, r, k).malicious = r.found[k].malicious
                           /\ Snapshot(w, r, k).osvUnavailable = r.found[k].osvUnavailable
        /\ r.osv = "failed" => Snapshot(w, r, k).osvUnavailable
    <3>1. world[k] \in AnyWorld
      BY <1>0
    <3>2. {"malicious", "advisories", "osvUnavailable"} \subseteq DOMAIN w
      BY <2>1, <3>1, MonitorAssumption DEF MonitorAssumption, Unknown
    <3> QED  BY <3>2 DEF Snapshot, OsvUnavailable
  <2>4. /\ DOMAIN run'[x] = RunFields /\ \A f \in RunFields : f # "snapshots" => run'[x][f] = r[f]
        /\ run'[x].snapshots = [j \in DOMAIN r.snapshots \cup {k} |-> IF j = k THEN Snapshot(w, r, k) ELSE r.snapshots[j]]
    BY <1>0, <2>1 DEF IsRun, RunFields
  <2>5. /\ DOMAIN run'[x].snapshots = DOMAIN r.snapshots \cup {k}
        /\ \A j \in DOMAIN run'[x].snapshots :
             run'[x].snapshots[j] = IF j = k THEN Snapshot(w, r, k) ELSE r.snapshots[j]
    BY <2>4
  <2>6. /\ run'[x].pc = "scan" /\ run'[x].osv = r.osv /\ run'[x].targets = r.targets /\ run'[x].errors = r.errors
        /\ run'[x].bad = r.bad /\ run'[x].found = r.found /\ run'[x].lost = r.lost
    BY <2>1, <2>4 DEF RunFields
  <2>7. IsRun(run'[x])
    <3>1. DOMAIN r.snapshots \subseteq r.targets
      BY <1>0 DEF IsRun
    <3>2. DOMAIN run'[x].snapshots \subseteq r.targets
      BY <2>2, <2>5, <3>1
    <3> HIDE DEF r
    <3> QED  BY <1>0, <2>4, <2>6, <3>2 DEF IsRun, Alive
  <2>8. /\ r.osv # "pending" /\ \A b \in r.bad : b[2] \in world[b[1]].malicious
        /\ r.osv = "ok" => /\ Answered(r)
                           /\ \A j \in DOMAIN r.snapshots :
                                /\ r.snapshots[j].malicious = r.found[j].malicious
                                /\ r.snapshots[j].osvUnavailable = r.found[j].osvUnavailable
        /\ r.osv = "failed" => \A j \in DOMAIN r.snapshots : r.snapshots[j].osvUnavailable
    BY <2>1 DEF Sees, Alive
  <2>9. r.osv = "ok" => Answered(run'[x])
    BY <2>6, <2>8 DEF Answered
  <2> HIDE DEF r
  <2>10. Sees(run'[x], world')
    BY <2>1, <2>3, <2>5, <2>6, <2>8, <2>9 DEF Sees, Judged
  <2> QED  BY <2>7, <2>10
<1>4. ASSUME NEW k \in Monitored, LookUpFails(x, k) PROVE IsRun(run'[x]) /\ Sees(run'[x], world')
  <2>1. /\ UNCHANGED world /\ r.pc = "scan" /\ k \in r.targets
        /\ run'[x] = [r EXCEPT !.errors = @ \cup {k}]
    BY <1>4, StepIs DEF LookUpFails, Pending
  <2>2. /\ DOMAIN run'[x] = RunFields /\ run'[x].errors = r.errors \cup {k}
        /\ run'[x].pc = "scan" /\ run'[x].osv = r.osv /\ run'[x].targets = r.targets /\ run'[x].bad = r.bad
        /\ run'[x].found = r.found /\ run'[x].lost = r.lost /\ run'[x].snapshots = r.snapshots
    BY <1>0, <2>1 DEF IsRun, RunFields
  <2>3. IsRun(run'[x])
    BY <1>0, <2>1, <2>2 DEF IsRun, Alive
  <2> HIDE DEF r
  <2>4. Sees(r, world)
    BY DEF r
  <2>5. Answered(r) => Answered(run'[x])
    BY <2>2 DEF Answered
  <2>6. Sees(run'[x], world')
    BY <2>1, <2>2, <2>4, <2>5 DEF Sees, Alive, Judged
  <2> QED  BY <2>3, <2>6
<1>5. CASE Compare(x)
  <2>1. /\ UNCHANGED world /\ r.pc = "scan" /\ DOMAIN run'[x] = RunFields /\ run'[x].pc \in {"write", "print"}
        /\ \A f \in {"osv", "lost", "targets", "errors", "bad", "flags", "snapshots"} : run'[x][f] = r[f]
    BY <1>5, CompareIs
  <2>3. run'[x].exit = 0 => Earned(r)
    BY <1>5, CompareEarns
  <2>4. /\ run'[x].osv = r.osv /\ run'[x].targets = r.targets /\ run'[x].errors = r.errors /\ run'[x].bad = r.bad
        /\ run'[x].flags = r.flags /\ run'[x].snapshots = r.snapshots /\ run'[x].lost = r.lost
    BY <2>1
  <2>5. \A b \in r.bad : b[2] \in world[b[1]].malicious
    BY <2>1 DEF Sees, Alive
  <2> HIDE DEF r
  <2> QED  BY <1>0, <2>1, <2>3, <2>4, <2>5 DEF IsRun, Sees, Alive, Judged, Earned
<1>6. CASE ToPrint(x)
  <2>1. UNCHANGED world /\ r.pc = "write" /\ run'[x] = [r EXCEPT !.pc = "print"]
    BY <1>6, StepIs DEF ToPrint
  <2> QED  BY <1>0, <2>1 DEF IsRun, RunFields, Sees, Alive, Judged, Earned
<1>7. CASE Report(x)
  <2>1. /\ UNCHANGED world /\ r.pc = "print"
        /\ run'[x] = [r EXCEPT !.pc = "done", !.snapshots = NoSnapshots, !.prior = {}, !.events = {}]
    BY <1>7, StepIs DEF Report
  <2> QED  BY <1>0, <2>1 DEF IsRun, RunFields, Sees, Alive, Judged, Earned, NoSnapshots
<1>8. CASE Crash(x)
  <2>1. run'[x] = [NoRun EXCEPT !.pc = "dead"]
    BY <1>8, StepIs DEF Crash
  <2>2. run'[x].pc = "dead" /\ IsRun(run'[x])
    BY <2>1 DEF NoRun, IsRun, RunFields, NoSnapshots
  <2> QED  BY <2>2 DEF Sees, Alive, Judged
<1>9. ASSUME NEW k \in Monitored, NEW w \in Worlds[k], WorldChanges(k, w) PROVE IsRun(run'[x]) /\ Sees(run'[x], world')
  <2> DEFINE bad == {b \in r.bad : b[1] = k => b[2] \in w.malicious}
  <2>1. run'[x] = [r EXCEPT !.bad = bad] /\ world' = [world EXCEPT ![k] = w]
    BY <1>9 DEF WorldChanges
  <2>2. /\ DOMAIN run'[x] = RunFields /\ run'[x].bad = bad
        /\ \A f \in RunFields \ {"bad"} : run'[x][f] = r[f]
    BY <1>0, <2>1 DEF IsRun, RunFields
  <2>3. bad \subseteq r.bad /\ \A b \in bad : b[1] = k => b[2] \in w.malicious
    OBVIOUS
  <2>4. /\ run'[x].pc = r.pc /\ run'[x].osv = r.osv /\ run'[x].targets = r.targets /\ run'[x].errors = r.errors
        /\ run'[x].flags = r.flags /\ run'[x].snapshots = r.snapshots /\ run'[x].found = r.found
        /\ run'[x].exit = r.exit /\ run'[x].lost = r.lost
    BY <2>2 DEF RunFields
  <2>5. \A b \in bad : b[2] \in world[b[1]].malicious => b[2] \in world'[b[1]].malicious
    BY <1>0, <2>1, <2>3
  <2>6. IsRun(run'[x])
    BY <1>0, <2>2, <2>3, <2>4 DEF IsRun
  <2> HIDE DEF r, bad
  <2>7. Sees(r, world)
    BY DEF r
  <2>8. /\ Answered(r) => Answered(run'[x])
        /\ Earned(r) => Earned(run'[x])
    BY <2>2, <2>3, <2>4 DEF Answered, Earned
  <2>9. Sees(run'[x], world')
    BY <2>2, <2>3, <2>4, <2>5, <2>7, <2>8 DEF Sees
  <2> QED  BY <2>6, <2>9
<1>10. CASE run'[x] = run[x] /\ UNCHANGED world
  BY <1>0, <1>10
<1> QED  BY <1>1, <1>2, <1>3, <1>4, <1>5, <1>6, <1>7, <1>8, <1>9, <1>10, MonitorSteps

LEMMA CoveredStep ==
  ASSUME MonitorInv, [MonitorNext]_monitorVars, NEW x \in Monitors
  PROVE  Covered(x)'
<1>1. /\ MonitorTypes /\ IsRun(run[x]) /\ Covered(x)
      /\ \A k \in DOMAIN baseline : k \in Monitored /\ Facts(baseline[k]) \subseteq Accounted(k)
  BY DEF MonitorInv, MonitorTypes
<1>2. \A k \in Monitored : Accounted(k) \subseteq Accounted(k)'
  BY <1>1, AccountedStays
<1>3. \A k \in DOMAIN run[x].snapshots : k \in Monitored
  BY <1>1 DEF IsRun
<1>4. CASE Compare(x)
  <2>1. /\ run'[x].pc = IF run[x].flags.update THEN "write" ELSE "print"
        /\ run'[x].events = EventsAt(x) /\ run'[x].prior = DOMAIN baseline
        /\ run'[x].flags = run[x].flags /\ run'[x].snapshots = run[x].snapshots
    BY <1>1, <1>4, CompareIs
  <2>2. ASSUME NEW k \in DOMAIN run[x].snapshots \cap DOMAIN baseline
        PROVE  Facts(run[x].snapshots[k]) \subseteq Accounted(k)' \cup FactsOf(x, k)'
    <3> DEFINE D == DiffSnapshots(baseline[k], run[x].snapshots[k])
    <3>1. Facts(run[x].snapshots[k]) \subseteq Facts(baseline[k]) \cup UNION {e.facts : e \in D}
      BY DifferenceReported
    <3>2. ASSUME NEW e \in D PROVE e.facts \subseteq FactsOf(x, k)'
      <4>1. e \in EventsOf(run[x].snapshots[k], k, baseline, run[x].flags.failOnOsvError)
        BY DEF EventsOf
      <4>2. <<k, e>> \in run'[x].events
        BY <2>1, <4>1, EventsAtHas
      <4>3. <<k, e>>[1] = k /\ <<k, e>>[2] = e
        OBVIOUS
      <4> HIDE DEF D
      <4> QED  BY <4>2, <4>3 DEF FactsOf
    <3> HIDE DEF D
    <3> QED  BY <1>1, <1>2, <3>1, <3>2
  <2> QED  BY <2>1, <2>2 DEF Covered
<1>5. CASE run'[x].pc # "write"
  BY <1>5 DEF Covered
<1>6. CASE \A f \in {"pc", "flags", "snapshots", "prior", "events"} : run'[x][f] = run[x][f]
  <2>1. /\ run'[x].pc = run[x].pc /\ run'[x].flags = run[x].flags /\ run'[x].snapshots = run[x].snapshots
        /\ run'[x].prior = run[x].prior /\ run'[x].events = run[x].events
    BY <1>6
  <2>2. \A k : FactsOf(x, k)' = FactsOf(x, k)
    BY <2>1 DEF FactsOf
  <2>3. CASE run[x].pc = "write"
    <3>1. /\ run[x].flags.update
          /\ \A k \in DOMAIN run[x].snapshots \cap run[x].prior :
               Facts(run[x].snapshots[k]) \subseteq Accounted(k) \cup FactsOf(x, k)
      BY <1>1, <2>3 DEF Covered
    <3>2. \A k \in DOMAIN run[x].snapshots \cap run[x].prior :
            Facts(run[x].snapshots[k]) \subseteq Accounted(k)' \cup FactsOf(x, k)'
      BY <1>2, <1>3, <2>2, <3>1
    <3> QED  BY <2>1, <3>1, <3>2 DEF Covered
  <2>4. CASE run[x].pc # "write"
    BY <2>1, <2>4 DEF Covered
  <2> QED  BY <2>3, <2>4
<1>7. ASSUME NEW k \in Monitored, NEW w \in Worlds[k], WorldChanges(k, w)
      PROVE  \A f \in {"pc", "flags", "snapshots", "prior", "events"} : run'[x][f] = run[x][f]
  BY <1>1, <1>7 DEF WorldChanges, MonitorTypes, IsRun, RunFields
<1>8. ASSUME \/ \E flags \in Flags : Start(x, flags)
             \/ AskOsv(x) \/ ToPrint(x) \/ Report(x) \/ Crash(x)
             \/ \E k \in Monitored : LookUp(x, k) \/ LookUpFails(x, k)
      PROVE  run'[x].pc # "write"
  <2>1. DOMAIN run[x] = RunFields
    BY <1>1 DEF IsRun
  <2>2. ASSUME NEW flags \in Flags, Start(x, flags) PROVE run'[x].pc = "osv"
    <3>1. run'[x] = [run[x] EXCEPT !.pc = "osv", !.flags = flags, !.targets = Targets(flags.all),
                                   !.bad = {b \in Targets(flags.all) \X UNION {world[k].malicious : k \in Targets(flags.all)} :
                                              b[2] \in world[b[1]].malicious}]
      BY <1>1, <2>2, StepIs DEF Start
    <3> QED  BY <2>1, <3>1 DEF RunFields
  <2>3. ASSUME AskOsv(x) PROVE run'[x].pc = "scan"
    <3>1. \/ run'[x] = [run[x] EXCEPT !.pc = "scan", !.osv = "failed"]
          \/ \E lost, found : run'[x] = [run[x] EXCEPT !.pc = "scan", !.osv = "ok", !.lost = lost, !.found = found]
      <4>1. \/ Step(x, "osv", [run[x] EXCEPT !.pc = "scan", !.osv = "failed"])
            \/ \E lost, found :
                 Step(x, "osv", [run[x] EXCEPT !.pc = "scan", !.osv = "ok", !.lost = lost, !.found = found])
        BY <2>3, Zenon DEF AskOsv
      <4>2. \A from, v : Step(x, from, v) => run'[x] = v
        BY <1>1, StepIs
      <4> QED  BY <4>1, <4>2, Zenon
    <3> QED  BY <2>1, <3>1 DEF RunFields
  <2>4. ASSUME NEW k \in Monitored, LookUp(x, k) PROVE run'[x].pc = "scan"
    <3>1. PICK w \in {world[k], Unknown(world[k])} :
            /\ run[x].pc = "scan"
            /\ run'[x] = [run[x] EXCEPT !.snapshots =
                 [j \in DOMAIN @ \cup {k} |-> IF j = k THEN Snapshot(w, run[x], k) ELSE @[j]]]
      BY <1>1, <2>4, StepIs DEF LookUp
    <3> QED  BY <2>1, <3>1 DEF RunFields
  <2>5. ASSUME NEW k \in Monitored, LookUpFails(x, k) PROVE run'[x].pc = "scan"
    <3>1. run[x].pc = "scan" /\ run'[x] = [run[x] EXCEPT !.errors = @ \cup {k}]
      BY <1>1, <2>5, StepIs DEF LookUpFails
    <3> QED  BY <2>1, <3>1 DEF RunFields
  <2>6. ASSUME ToPrint(x) PROVE run'[x].pc = "print"
    <3>1. run'[x] = [run[x] EXCEPT !.pc = "print"]
      BY <1>1, <2>6, StepIs DEF ToPrint
    <3> QED  BY <2>1, <3>1 DEF RunFields
  <2>7. ASSUME Report(x) PROVE run'[x].pc = "done"
    <3>1. run'[x] = [run[x] EXCEPT !.pc = "done", !.snapshots = NoSnapshots, !.prior = {}, !.events = {}]
      BY <1>1, <2>7, StepIs DEF Report
    <3> QED  BY <2>1, <3>1 DEF RunFields
  <2>8. ASSUME Crash(x) PROVE run'[x].pc = "dead"
    BY <1>1, <2>8, StepIs DEF Crash, NoRun
  <2> QED  BY <1>8, <2>2, <2>3, <2>4, <2>5, <2>6, <2>7, <2>8
<1> QED  BY <1>1, <1>4, <1>5, <1>6, <1>7, <1>8, MonitorSteps

(* The file holds nothing that nobody reports. *)
LEMMA BaselineStep ==
  ASSUME MonitorInv, [MonitorNext]_monitorVars
  PROVE  /\ DOMAIN baseline' \subseteq Monitored
         /\ \A k \in DOMAIN baseline' : Facts(baseline'[k]) \subseteq Accounted(k)'
<1>1. /\ MonitorTypes
      /\ \A k \in DOMAIN baseline : k \in Monitored /\ Facts(baseline[k]) \subseteq Accounted(k)
  BY DEF MonitorInv, MonitorTypes
<1>2. \A k \in Monitored : Accounted(k) \subseteq Accounted(k)'
  BY <1>1, AccountedStays
<1>3. ASSUME \A k \in DOMAIN baseline' : k \in DOMAIN baseline /\ baseline'[k] = baseline[k]
      PROVE  /\ DOMAIN baseline' \subseteq Monitored
             /\ \A k \in DOMAIN baseline' : Facts(baseline'[k]) \subseteq Accounted(k)'
  BY <1>1, <1>2, <1>3
<1>4. CASE LoseBaseline
  BY <1>3, <1>4 DEF LoseBaseline, Restrict
<1>5. ASSUME NEW m \in Monitors, WriteBaseline(m)
      PROVE  /\ DOMAIN baseline' \subseteq Monitored
             /\ \A k \in DOMAIN baseline' : Facts(baseline'[k]) \subseteq Accounted(k)'
  <2> DEFINE r == run[m]
  <2>1. /\ baseline' = r.snapshots /\ r.pc = "write" /\ run'[m] = [r EXCEPT !.pc = "print"] /\ IsRun(r)
        /\ \A k \in Monitored : k \in DOMAIN r.snapshots \ r.prior => Facts(r.snapshots[k]) \subseteq missed'[k]
    BY <1>1, <1>5, StepIs DEF WriteBaseline, ToPrint, MonitorTypes
  <2>2. /\ r.flags.update
        /\ \A k \in DOMAIN r.snapshots \cap r.prior : Facts(r.snapshots[k]) \subseteq Accounted(k) \cup FactsOf(m, k)
    BY <2>1 DEF Covered, MonitorInv
  <2>3. DOMAIN r.snapshots \subseteq Monitored
    BY <2>1 DEF IsRun
  <2>4. run'[m].pc = "print" /\ run'[m].flags = r.flags /\ run'[m].events = r.events
    BY <2>1 DEF IsRun, RunFields
  <2>5. m \in Printing' /\ \A k : FactsOf(m, k)' = FactsOf(m, k)
    BY <2>2, <2>4 DEF Printing, Reporting, FactsOf
  <2>6. \A k \in Monitored : missed'[k] \subseteq Accounted(k)' /\ FactsOf(m, k) \subseteq Accounted(k)'
    BY <2>5 DEF Accounted
  <2> HIDE DEF r
  <2> QED  BY <1>2, <2>1, <2>2, <2>3, <2>6
<1>6. CASE UNCHANGED baseline
  BY <1>3, <1>6
<1> QED
  BY <1>4, <1>5, <1>6 DEF MonitorNext, WorldChanges, Start, AskOsv, Compare, WriteFails, Report, Crash,
    LookUp, LookUpFails, monitorVars

LEMMA MonitorInitially == MonitorInit => MonitorInv
<1> SUFFICES ASSUME MonitorInit PROVE MonitorInv
  OBVIOUS
<1>1. \A m \in Monitors : run[m] = NoRun
  BY DEF MonitorInit
<1>2. IsRun(NoRun) /\ Sees(NoRun, world) /\ NoRun.pc = "idle"
  BY DEF NoRun, IsRun, RunFields, Sees, Alive, Judged, NoSnapshots
<1>3. MonitorTypes
  BY <1>1, <1>2, MonitorAssumption DEF MonitorAssumption, AnyWorld, MonitorInit, MonitorTypes, NoSnapshots
<1>4. \A m \in Monitors : Sees(run[m], world) /\ Covered(m)
  BY <1>1, <1>2 DEF Covered
<1> QED  BY <1>3, <1>4 DEF MonitorInv, MonitorInit, NoSnapshots

(* Every run knows what its targets were, and the file holds nothing that
   nobody reports.                                                           *)
THEOREM MonitorInvariance == MonitorSpec => []MonitorInv
<1>1. ASSUME MonitorInv, [MonitorNext]_monitorVars PROVE MonitorInv'
  <2>1. MonitorTypes /\ \A m \in Monitors : Sees(run[m], world)
    BY <1>1 DEF MonitorInv
  <2>2. \A m \in Monitors : IsRun(run'[m]) /\ Sees(run'[m], world')
    BY <1>1, <2>1, SeesStep
  <2>3. DOMAIN world' = Monitored /\ (\A k \in Monitored : world'[k] \in AnyWorld) /\ DOMAIN run' = Monitors
    <3>1. ASSUME NEW k \in Monitored, NEW w \in Worlds[k], WorldChanges(k, w)
          PROVE  DOMAIN world' = Monitored /\ (\A j \in Monitored : world'[j] \in AnyWorld) /\ DOMAIN run' = Monitors
      <4>1. world' = [world EXCEPT ![k] = w] /\ w \in AnyWorld /\ DOMAIN run' = Monitors
        BY <3>1 DEF WorldChanges, AnyWorld
      <4> QED  BY <2>1, <4>1 DEF MonitorTypes
    <3>2. CASE UNCHANGED world /\ DOMAIN run' = DOMAIN run
      BY <2>1, <3>2 DEF MonitorTypes
    <3>3. ASSUME NEW m \in Monitors, NEW from, NEW v, Step(m, from, v)
          PROVE  UNCHANGED world /\ DOMAIN run' = DOMAIN run
      BY <3>3 DEF Step
    <3>4. (\E k \in Monitored : \E w \in Worlds[k] : WorldChanges(k, w)) \/ (UNCHANGED world /\ DOMAIN run' = DOMAIN run)
      BY <1>1, <3>3, Zenon DEF MonitorNext, LoseBaseline, Start, AskOsv, Compare, WriteBaseline,
        WriteFails, ToPrint, Report, Crash, LookUp, LookUpFails, monitorVars
    <3> QED  BY <3>1, <3>2, <3>4
  <2>4. MonitorTypes'
    BY <1>1, <2>2, <2>3, BaselineStep DEF MonitorTypes
  <2> QED  BY <1>1, <2>2, <2>4, BaselineStep, CoveredStep DEF MonitorInv
<1> QED  BY <1>1, MonitorInitially, PTL DEF MonitorSpec

(* No run, however runs overlap, die and fail to write, replaces the baseline by
   something it found to be new and does not report (writeBaseline).         *)
THEOREM NothingIsSilenced == MonitorSpec => []NothingUnreported
<1>1. MonitorInv => NothingUnreported
  BY DEF MonitorInv, NothingUnreported, Accounted, Printing
<1> QED  BY <1>1, MonitorInvariance, PTL

(* Exit code 0 is earned, whatever the baseline already knew (monitorCommand). *)
THEOREM CleanExitEarned == MonitorSpec => []CleanExitIsEarned
<1>1. ASSUME MonitorInv PROVE CleanExitIsEarned
  <2> SUFFICES ASSUME NEW m \in Monitors, run[m].pc = "done", run[m].exit = 0 PROVE Earned(run[m])
    BY DEF CleanExitIsEarned, Earned
  <2> QED  BY <1>1 DEF MonitorInv, Sees, Judged
<1> QED  BY <1>1, MonitorInvariance, PTL

-----------------------------------------------------------------------------
(***************************************************************************)
(* The score of a package that gets worse.                                 *)
(***************************************************************************)

(* q has whatever p has against it, and perhaps more. *)
Graver(p, q) ==
  /\ \A f \in Marks : p[f] => q[f]
  /\ \A f \in Counts : p[f] <= q[f]
  /\ DOMAIN q.advisories = DOMAIN p.advisories
  /\ \A s \in DOMAIN p.advisories : p.advisories[s] <= q.advisories[s]
  /\ p.hooks \subseteq q.hooks /\ p.ranges \subseteq q.ranges
  /\ q.url \in {p.url, 0} /\ q.maintainers <= p.maintainers
  /\ p.size = "large" => q.size = "large"
  /\ q.provenance => p.provenance
  /\ AgeBand[q.age] <= AgeBand[p.age]
  /\ q.maintainerChange \in {p.maintainerChange, "changed"}
  /\ q.intel \in {p.intel, "newcomer"}
  /\ q.repo = p.repo \/ (p.repo \in {"ok", "archived"} /\ q.repo \in {"archived", "not-found"})
  /\ q.downloads = p.downloads /\ q.trend \in {p.trend, "drop"}

LEMMA Seven ==
  ASSUME NEW a, NEW b, NEW c, NEW d, NEW e, NEW f, NEW g
  PROVE  IsFiniteSet({a, b, c, d, e, f, g})
<1>1. IsFiniteSet({a} \cup {b}) /\ IsFiniteSet({c} \cup {d}) /\ IsFiniteSet({e} \cup {f}) /\ IsFiniteSet({g})
  BY FS_Singleton, FS_Union
<1>2. IsFiniteSet((({a} \cup {b}) \cup ({c} \cup {d})) \cup (({e} \cup {f}) \cup {g}))
  BY <1>1, FS_Union
<1>3. {a, b, c, d, e, f, g} = (({a} \cup {b}) \cup ({c} \cup {d})) \cup (({e} \cup {f}) \cup {g})
  OBVIOUS
<1> QED  BY <1>2, <1>3

(* A category costs at least what it did. *)
LEMMA VulnerabilitiesGrow ==
  ASSUME NEW p, NEW q, IsPackage(p), IsPackage(q), Graver(p, q)
  PROVE  /\ Vulnerabilities(p) \in Nat /\ Vulnerabilities(q) \in Nat
         /\ Points("vulnerabilities", Vulnerabilities(q)) <= Points("vulnerabilities", Vulnerabilities(p))
<1> DEFINE S == DOMAIN p.advisories
           f == [s \in S |-> p.advisories[s] * AdvisoryDeduction[s]]
           g == [s \in S |-> q.advisories[s] * AdvisoryDeduction[s]]
<1>1. IsFiniteSet(S)
  <2>1. S \subseteq {"critical", "high", "moderate", "low", "unknown", "unknown", "unknown"}
    BY DEF IsPackage, AdvisoryDeduction
  <2>2. IsFiniteSet({"critical", "high", "moderate", "low", "unknown", "unknown", "unknown"})
    BY Seven
  <2> HIDE DEF S
  <2> QED  BY <2>1, <2>2, FS_Subset
<1>2. \A s \in S : f[s] \in Nat /\ g[s] \in Nat /\ f[s] <= g[s]
  <2> SUFFICES ASSUME NEW s \in S PROVE f[s] \in Nat /\ g[s] \in Nat /\ f[s] <= g[s]
    OBVIOUS
  <2>1. p.advisories[s] \in Nat /\ q.advisories[s] \in Nat /\ p.advisories[s] <= q.advisories[s]
    BY DEF IsPackage, Graver
  <2>2. AdvisoryDeduction[s] \in {20, 12, 6, 3, 8}
    BY DEF IsPackage, AdvisoryDeduction
  <2>3. f[s] = p.advisories[s] * AdvisoryDeduction[s] /\ g[s] = q.advisories[s] * AdvisoryDeduction[s]
    OBVIOUS
  <2> HIDE DEF f, g
  <2> QED  BY <2>1, <2>2, <2>3
<1>3. /\ SumFunctionOnSet(f, S) \in Nat /\ SumFunctionOnSet(g, S) \in Nat
      /\ SumFunctionOnSet(f, S) <= SumFunctionOnSet(g, S)
  <2> HIDE DEF f, g, S
  <2> QED  BY <1>1, <1>2, SumNat, SumGrows
<1>4. SumFunction(f) = SumFunctionOnSet(f, S) /\ SumFunction(g) = SumFunctionOnSet(g, S)
  BY DEF SumFunction
<1>5. DOMAIN q.advisories = S
  BY DEF Graver
<1>6. /\ Vulnerabilities(p) = IF p.malicious THEN 25
           ELSE SumFunctionOnSet(f, S) + If(p.osvUnavailable, 10) + If(p.internalScope, 5)
      /\ Vulnerabilities(q) = IF q.malicious THEN 25
           ELSE SumFunctionOnSet(g, S) + If(q.osvUnavailable, 10) + If(q.internalScope, 5)
  BY <1>4, <1>5 DEF Vulnerabilities, CategoryMax
<1>7. /\ (p.malicious => q.malicious) /\ (p.osvUnavailable => q.osvUnavailable)
      /\ (p.internalScope => q.internalScope)
  BY DEF Graver, Marks
<1> HIDE DEF f, g, S
<1>8. /\ Vulnerabilities(p) \in Nat /\ Vulnerabilities(q) \in Nat
      /\ ~q.malicious => Vulnerabilities(p) <= Vulnerabilities(q)
      /\ q.malicious => Vulnerabilities(q) = 25
  BY <1>3, <1>6, <1>7 DEF If
<1> QED  BY <1>8 DEF Points, CategoryMax, Most

LEMMA InstallBehaviorGrows ==
  ASSUME NEW p, NEW q, IsPackage(p), IsPackage(q), Graver(p, q)
  PROVE  /\ InstallBehavior(p) \in Nat /\ InstallBehavior(q) \in Nat
         /\ InstallBehavior(p) <= InstallBehavior(q)
<1>1. p.scriptFindings \in Nat /\ q.scriptFindings \in Nat /\ p.scriptFindings <= q.scriptFindings
  BY DEF IsPackage, Graver, Counts
<1>2. (\E h \in p.hooks : h[1] \in InstallTimeHooks) => (\E h \in q.hooks : h[1] \in InstallTimeHooks)
  BY DEF Graver
<1> QED  BY <1>1, <1>2 DEF InstallBehavior, If

LEMMA ContentGrows ==
  ASSUME NEW p, NEW q, IsPackage(p), IsPackage(q), Graver(p, q)
  PROVE  Content(p) \in Nat /\ Content(q) \in Nat /\ Content(p) <= Content(q)
<1>1. /\ p.installTimeFindings \in Nat /\ q.installTimeFindings \in Nat
      /\ p.installTimeFindings <= q.installTimeFindings
      /\ p.suspiciousFiles \in Nat /\ q.suspiciousFiles \in Nat /\ p.suspiciousFiles <= q.suspiciousFiles
  BY DEF IsPackage, Graver, Counts
<1>2. (p.degraded => q.degraded) /\ (p.evals => q.evals) /\ (p.minified => q.minified)
  BY DEF Graver, Marks
<1> QED  BY <1>1, <1>2 DEF Content, If, Least

LEMMA MaturityGrows ==
  ASSUME NEW p, NEW q, IsPackage(p), IsPackage(q), Graver(p, q)
  PROVE  Maturity(p) \in Nat /\ Maturity(q) \in Nat /\ Maturity(p) <= Maturity(q)
<1> DEFINE a == AgeBand[p.age]
           b == AgeBand[q.age]
<1>1. a \in Nat /\ b \in Nat /\ a <= 10 /\ b <= a
  BY DEF IsPackage, Graver, AgeBand
<1>2. (p.newVersion => q.newVersion) /\ (p.releaseGap => q.releaseGap)
  BY DEF Graver, Marks
<1>3. /\ Maturity(p) = 10 - a + If(p.newVersion, 2) + If(p.releaseGap, 3)
      /\ Maturity(q) = 10 - b + If(q.newVersion, 2) + If(q.releaseGap, 3)
  BY DEF Maturity, CategoryMax
<1> HIDE DEF a, b
<1> QED  BY <1>1, <1>2, <1>3 DEF If

LEMMA MaintainerTrustGrows ==
  ASSUME NEW p, NEW q, IsPackage(p), IsPackage(q), Graver(p, q)
  PROVE  /\ MaintainerTrust(p) \in Nat /\ MaintainerTrust(q) \in Nat
         /\ MaintainerTrust(p) <= MaintainerTrust(q)
<1> DEFINE Few(r) == CASE r.maintainers = 0 -> 4 [] r.maintainers = 1 -> 2 [] OTHER -> 0
           Change(r) == CASE r.maintainerChange = "changed" -> 4 [] r.maintainerChange = "unknown" -> 1 [] OTHER -> 0
           Use(r) == CASE r.downloads = "ok" -> If(r.lowAdoption, 3) + If(r.trend # "stable", 2)
                       [] r.downloads = "unavailable" -> 1 [] r.downloads = "skipped" -> 0
           Intel(r) == CASE r.intel = "newcomer" -> 4 [] r.intel = "unestablished" -> 2
                         [] r.intel = "unavailable" -> 1 [] OTHER -> 0
<1>1. Few(p) \in Nat /\ Few(q) \in Nat /\ Few(p) <= Few(q)
  BY DEF IsPackage, Graver
<1>2. Change(p) \in Nat /\ Change(q) \in Nat /\ Change(p) <= Change(q)
  BY DEF Graver
<1>3. Use(p) \in Nat /\ Use(q) \in Nat /\ Use(p) <= Use(q)
  <2>1. p.downloads \in {"ok", "unavailable", "skipped"} /\ q.downloads = p.downloads
    BY DEF IsPackage, Graver
  <2>2. (p.lowAdoption => q.lowAdoption) /\ (p.trend # "stable" => q.trend # "stable")
    BY DEF Graver, Marks
  <2> QED  BY <2>1, <2>2 DEF If
<1>4. Intel(p) \in Nat /\ Intel(q) \in Nat /\ Intel(p) <= Intel(q)
  BY DEF Graver
<1>5. /\ MaintainerTrust(p) = Few(p) + Change(p) + Use(p) + Intel(p)
      /\ MaintainerTrust(q) = Few(q) + Change(q) + Use(q) + Intel(q)
  BY DEF MaintainerTrust
<1> HIDE DEF Few, Change, Use, Intel
<1> QED  BY <1>1, <1>2, <1>3, <1>4, <1>5

LEMMA RepositoryGrows ==
  ASSUME NEW p, NEW q, IsPackage(p), IsPackage(q), Graver(p, q)
  PROVE  Repository(p) \in Nat /\ Repository(q) \in Nat /\ Repository(p) <= Repository(q)
<1> DEFINE Lookup(r) == CASE r.repo = "not-found" -> 4 [] r.repo = "archived" -> 3
                          [] r.repo \in {"rate-limited", "unavailable"} -> 1 [] OTHER -> 0
<1>1. Lookup(p) \in Nat /\ Lookup(q) \in Nat /\ Lookup(p) <= Lookup(q)
  BY DEF Graver
<1>2. /\ (p.url = 0 => q.url = 0) /\ (~p.provenance => ~q.provenance)
      /\ (p.repositoryMismatch => q.repositoryMismatch) /\ (p.deprecated => q.deprecated)
  BY DEF Graver, Marks
<1>3. /\ Repository(p) = If(p.url = 0, 6) + If(p.repositoryMismatch, 4) + Lookup(p)
                         + If(p.deprecated, 4) + If(~p.provenance, 2)
      /\ Repository(q) = If(q.url = 0, 6) + If(q.repositoryMismatch, 4) + Lookup(q)
                         + If(q.deprecated, 4) + If(~q.provenance, 2)
  BY DEF Repository
<1> HIDE DEF Lookup
<1> QED  BY <1>1, <1>2, <1>3 DEF If

LEMMA SurfaceGrows ==
  ASSUME NEW p, NEW q, IsPackage(p), IsPackage(q), Graver(p, q)
  PROVE  Surface(p) \in Nat /\ Surface(q) \in Nat /\ Surface(p) <= Surface(q)
<1>1. /\ p.permissions \in Nat /\ q.permissions \in Nat /\ p.permissions <= q.permissions
      /\ p.nativeFindings \in Nat /\ q.nativeFindings \in Nat /\ p.nativeFindings <= q.nativeFindings
  BY DEF IsPackage, Graver, Counts
<1>2. /\ (p.native => q.native) /\ (p.binaries => q.binaries)
      /\ (p.manyDependencies => q.manyDependencies)
  BY DEF Graver, Marks
<1> QED  BY <1>1, <1>2 DEF Surface, If, Least

(* No category gives a graver package more points. *)
PointsOf(p) == [c \in DOMAIN CategoryMax |-> Points(c, Deductions(p)[c])]

LEMMA PointsFall ==
  ASSUME NEW p, NEW q, IsPackage(p), IsPackage(q), Graver(p, q)
  PROVE  \A c \in DOMAIN CategoryMax :
            PointsOf(q)[c] \in Nat /\ PointsOf(p)[c] \in Nat /\ PointsOf(q)[c] <= PointsOf(p)[c]
<1> SUFFICES ASSUME NEW c \in DOMAIN CategoryMax
             PROVE  PointsOf(q)[c] \in Nat /\ PointsOf(p)[c] \in Nat /\ PointsOf(q)[c] <= PointsOf(p)[c]
  OBVIOUS
<1>1. /\ CategoryMax[c] \in Nat
      /\ c \in {"vulnerabilities", "install_behavior", "content", "maturity", "maintainer_trust",
                 "repository", "surface"}
  BY DEF CategoryMax
<1>2. \A d, e \in Nat : d <= e => /\ Points(c, e) \in Nat /\ Points(c, d) \in Nat
                                  /\ Points(c, e) <= Points(c, d)
  BY <1>1 DEF Points, Most
<1>3. \A d \in Nat : Points(c, d) \in Nat
  BY <1>1 DEF Points, Most
<1>4. PointsOf(p)[c] = Points(c, Deductions(p)[c]) /\ PointsOf(q)[c] = Points(c, Deductions(q)[c])
  BY DEF PointsOf
<1>5. CASE c = "vulnerabilities"
  BY <1>3, <1>4, <1>5, VulnerabilitiesGrow DEF Deductions
<1>6. CASE c # "vulnerabilities"
  <2>1. Deductions(p)[c] \in Nat /\ Deductions(q)[c] \in Nat /\ Deductions(p)[c] <= Deductions(q)[c]
    BY <1>1, <1>6, InstallBehaviorGrows, ContentGrows, MaturityGrows, MaintainerTrustGrows,
       RepositoryGrows, SurfaceGrows DEF Deductions
  <2> QED  BY <1>2, <1>4, <2>1
<1> QED  BY <1>5, <1>6

(* Nor does the floor, which is the lower the graver the package. *)
LEMMA FlooredFalls ==
  ASSUME NEW p, NEW q, IsPackage(p), IsPackage(q), Graver(p, q),
         NEW m \in Nat, NEW n \in Nat, n <= m
  PROVE  Floored(p, m) \in Nat /\ Floored(q, n) \in Nat /\ Floored(q, n) <= Floored(p, m)
<1>1. /\ (p.malicious => q.malicious) /\ (p.mutated => q.mutated) /\ (p.fetchExec => q.fetchExec)
  BY DEF Graver, Marks
<1> QED  BY <1>1 DEF Floored, Least, FloorKnownMalicious, FloorHardBlock

LEMMA ScoreFalls ==
  ASSUME NEW p, NEW q, IsPackage(p), IsPackage(q), Graver(p, q)
  PROVE  /\ ComputeSecurityScore(p) \in Nat /\ ComputeSecurityScore(q) \in Nat
         /\ ComputeSecurityScore(q) <= ComputeSecurityScore(p)
<1> DEFINE S == DOMAIN CategoryMax
           m == SumFunctionOnSet(PointsOf(p), S)
           n == SumFunctionOnSet(PointsOf(q), S)
<1>1. IsFiniteSet(S)
  <2>1. S = {"vulnerabilities", "install_behavior", "content", "maturity", "maintainer_trust",
                 "repository", "surface"}
    BY DEF CategoryMax
  <2>2. IsFiniteSet({"vulnerabilities", "install_behavior", "content", "maturity", "maintainer_trust",
                     "repository", "surface"})
    BY Seven
  <2> QED  BY <2>1, <2>2
<1>2. m \in Nat /\ n \in Nat /\ n <= m
  BY <1>1, PointsFall, SumNat, SumGrows
<1>3. /\ ComputeSecurityScore(p) = Floored(p, Least(100, Most(0, m)))
      /\ ComputeSecurityScore(q) = Floored(q, Least(100, Most(0, n)))
  BY DEF ComputeSecurityScore, SumFunction, PointsOf
<1> HIDE DEF m, n
<1>4. /\ Least(100, Most(0, m)) \in Nat /\ Least(100, Most(0, n)) \in Nat
      /\ Least(100, Most(0, n)) <= Least(100, Most(0, m))
  BY <1>2 DEF Least, Most
<1> QED  BY <1>3, <1>4, FlooredFalls

-----------------------------------------------------------------------------
(***************************************************************************)
(* A package that gets worse is a graver one.                              *)
(***************************************************************************)

LEMMA NothingGraver ==
  ASSUME NEW p, IsPackage(p)
  PROVE  Graver(p, p)
<1>1. \A f \in Counts \cup {"maintainers"} : p[f] \in Nat
  BY DEF IsPackage
<1>2. \A s \in DOMAIN p.advisories : p.advisories[s] \in Nat
  BY DEF IsPackage
<1>3. AgeBand[p.age] \in Nat
  BY DEF IsPackage, AgeBand
<1> QED  BY <1>1, <1>2, <1>3 DEF Graver

LEMMA EvenGraver ==
  ASSUME NEW p, NEW q, NEW r, IsPackage(p), IsPackage(q), IsPackage(r), Graver(p, q), Graver(q, r)
  PROVE  Graver(p, r)
<1>1. \A f \in Counts \cup {"maintainers"} : p[f] \in Nat /\ q[f] \in Nat /\ r[f] \in Nat
  BY DEF IsPackage
<1>2. \A f \in Counts : p[f] <= r[f]
  BY <1>1 DEF Graver
<1>3. r.maintainers <= p.maintainers
  BY <1>1 DEF Graver
<1>4. DOMAIN q.advisories = DOMAIN p.advisories /\ DOMAIN r.advisories = DOMAIN p.advisories
  BY DEF Graver
<1>5. \A s \in DOMAIN p.advisories : p.advisories[s] <= r.advisories[s]
  <2>1. \A s \in DOMAIN p.advisories :
          p.advisories[s] \in Nat /\ q.advisories[s] \in Nat /\ r.advisories[s] \in Nat
    BY <1>4 DEF IsPackage
  <2>2. \A s \in DOMAIN p.advisories :
          p.advisories[s] <= q.advisories[s] /\ q.advisories[s] <= r.advisories[s]
    BY <1>4 DEF Graver
  <2> QED  BY <2>1, <2>2
<1>6. AgeBand[r.age] <= AgeBand[p.age]
  <2>1. AgeBand[p.age] \in Nat /\ AgeBand[q.age] \in Nat /\ AgeBand[r.age] \in Nat
    BY DEF IsPackage, AgeBand
  <2> QED  BY <2>1 DEF Graver
<1> QED  BY <1>2, <1>3, <1>4, <1>5, <1>6 DEF Graver

(* What Worse(p) does to one field of p. *)
Against(p, f, v) ==
  \/ f \in Marks /\ v = TRUE
  \/ f \in Counts /\ v = p[f] + 1
  \/ f = "advisories" /\ \E s \in DOMAIN p.advisories : v = [p.advisories EXCEPT ![s] = @ + 1]
  \/ f = "hooks" /\ \E h : v = p.hooks \cup {h}
  \/ f = "ranges" /\ \E d : v = p.ranges \cup {d}
  \/ f = "url" /\ v = 0
  \/ f = "size" /\ v = "large"
  \/ f = "provenance" /\ v = FALSE
  \/ f = "maintainers" /\ v = IF p.maintainers = 0 THEN 0 ELSE p.maintainers - 1
  \/ f = "age" /\ v \in {"month", "quarter", "year"} /\ AgeBand[v] <= AgeBand[p.age]
  \/ f = "maintainerChange" /\ v = "changed"
  \/ f = "intel" /\ v = "newcomer"
  \/ f = "repo" /\ p.repo \in {"ok", "archived"} /\ v \in {"archived", "not-found"}
  \/ f = "trend" /\ v = "drop"

LEMMA WorseAgainst ==
  ASSUME NEW p, NEW q \in Worse(p)
  PROVE  \E f, v : Against(p, f, v) /\ q = [p EXCEPT ![f] = v]
<1>1. ASSUME NEW f \in Marks, q = [p EXCEPT ![f] = TRUE]
      PROVE  \E g, v : Against(p, g, v) /\ q = [p EXCEPT ![g] = v]
  BY <1>1 DEF Against
<1>2. ASSUME NEW f \in Counts, q = [p EXCEPT ![f] = @ + 1]
      PROVE  \E g, v : Against(p, g, v) /\ q = [p EXCEPT ![g] = v]
  <2>1. q = [p EXCEPT ![f] = p[f] + 1]
    BY <1>2
  <2> QED  BY <2>1 DEF Against
<1>3. ASSUME NEW s \in DOMAIN p.advisories, q = [p EXCEPT !.advisories[s] = @ + 1]
      PROVE  \E g, v : Against(p, g, v) /\ q = [p EXCEPT ![g] = v]
  <2>1. q = [p EXCEPT !["advisories"] = [p.advisories EXCEPT ![s] = @ + 1]]
    BY <1>3
  <2> QED  BY <2>1 DEF Against
<1>4. ASSUME NEW h, q = [p EXCEPT !.hooks = @ \cup {h}]
      PROVE  \E g, v : Against(p, g, v) /\ q = [p EXCEPT ![g] = v]
  <2>1. q = [p EXCEPT !["hooks"] = p.hooks \cup {h}]
    BY <1>4
  <2> QED  BY <2>1 DEF Against
<1>5. ASSUME NEW d, q = [p EXCEPT !.ranges = @ \cup {d}]
      PROVE  \E g, v : Against(p, g, v) /\ q = [p EXCEPT ![g] = v]
  <2>1. q = [p EXCEPT !["ranges"] = p.ranges \cup {d}]
    BY <1>5
  <2> QED  BY <2>1 DEF Against
<1>6. ASSUME q = [p EXCEPT !.maintainers = IF @ = 0 THEN 0 ELSE @ - 1]
      PROVE  \E g, v : Against(p, g, v) /\ q = [p EXCEPT ![g] = v]
  <2>1. q = [p EXCEPT !["maintainers"] = IF p.maintainers = 0 THEN 0 ELSE p.maintainers - 1]
    BY <1>6
  <2> QED  BY <2>1 DEF Against
<1>7. ASSUME \/ q = [p EXCEPT !.url = 0] \/ q = [p EXCEPT !.size = "large"]
             \/ q = [p EXCEPT !.provenance = FALSE] \/ q = [p EXCEPT !.maintainerChange = "changed"]
             \/ q = [p EXCEPT !.intel = "newcomer"] \/ q = [p EXCEPT !.trend = "drop"]
      PROVE  \E g, v : Against(p, g, v) /\ q = [p EXCEPT ![g] = v]
  BY <1>7 DEF Against
<1>8. ASSUME NEW a \in {"month", "quarter", "year"}, AgeBand[a] <= AgeBand[p.age], q = [p EXCEPT !.age = a]
      PROVE  \E g, v : Against(p, g, v) /\ q = [p EXCEPT ![g] = v]
  BY <1>8 DEF Against
<1>9. ASSUME p.repo \in {"ok", "archived"}, NEW r \in {"archived", "not-found"}, q = [p EXCEPT !.repo = r]
      PROVE  \E g, v : Against(p, g, v) /\ q = [p EXCEPT ![g] = v]
  BY <1>9 DEF Against
<1>10. \/ \E f \in Marks : q = [p EXCEPT ![f] = TRUE]
       \/ \E f \in Counts : q = [p EXCEPT ![f] = @ + 1]
       \/ \E s \in DOMAIN p.advisories : q = [p EXCEPT !.advisories[s] = @ + 1]
       \/ \E h : q = [p EXCEPT !.hooks = @ \cup {h}]
       \/ \E d : q = [p EXCEPT !.ranges = @ \cup {d}]
       \/ q = [p EXCEPT !.url = 0] \/ q = [p EXCEPT !.size = "large"]
       \/ q = [p EXCEPT !.provenance = FALSE] \/ q = [p EXCEPT !.maintainerChange = "changed"]
       \/ q = [p EXCEPT !.intel = "newcomer"] \/ q = [p EXCEPT !.trend = "drop"]
       \/ q = [p EXCEPT !.maintainers = IF @ = 0 THEN 0 ELSE @ - 1]
       \/ \E a \in {"month", "quarter", "year"} : AgeBand[a] <= AgeBand[p.age] /\ q = [p EXCEPT !.age = a]
       \/ p.repo \in {"ok", "archived"} /\ \E r \in {"archived", "not-found"} : q = [p EXCEPT !.repo = r]
  BY Zenon DEF Worse
<1> QED  BY <1>1, <1>2, <1>3, <1>4, <1>5, <1>6, <1>7, <1>8, <1>9, <1>10

LEMMA AgainstIsGraver ==
  ASSUME NEW p, NEW q, NEW f, NEW v, IsPackage(p), Against(p, f, v), q = [p EXCEPT ![f] = v]
  PROVE  IsPackage(q) /\ Graver(p, q)
<1>1. f \in DOMAIN p
  BY DEF Against, IsPackage
<1>2. /\ DOMAIN q = DOMAIN p /\ q[f] = v
      /\ \A g \in DOMAIN p \ {f} : q[g] = p[g]
  BY <1>1
<1>3. Graver(p, p)
  BY NothingGraver
<1> DEFINE Others == {"provenance", "maintainers", "url", "version", "advisories", "age", "hooks", "ranges", "size",
                      "maintainerChange", "downloads", "trend", "intel", "repo"}
<1>4. \A g \in Others \ {f} : q[g] = p[g]
  BY <1>2 DEF IsPackage
<1>5. \A g \in (Marks \cup Counts) \ {f} : q[g] = p[g]
  BY <1>2 DEF IsPackage
<1>6. /\ \A g \in Others : g \notin Marks /\ g \notin Counts
      /\ \A g \in Marks : g \notin Counts
  BY DEF Marks, Counts
<1>7. CASE f \in Marks /\ v = TRUE
  <2>1. \A g \in Others \cup Counts : q[g] = p[g]
    BY <1>4, <1>5, <1>6, <1>7
  <2>2. \A g \in Marks : q[g] = p[g] \/ q[g] = TRUE
    BY <1>2, <1>5, <1>7
  <2> QED  BY <1>2, <1>3, <2>1, <2>2 DEF IsPackage, Graver
<1>8. CASE f \in Counts /\ v = p[f] + 1
  <2>1. \A g \in Others \cup Marks : q[g] = p[g]
    BY <1>4, <1>5, <1>6, <1>8
  <2>2. \A g \in Counts : q[g] = p[g] \/ q[g] = p[g] + 1
    BY <1>2, <1>5, <1>8
  <2>3. \A g \in Counts : p[g] \in Nat
    BY DEF IsPackage
  <2>4. \A g \in Counts : q[g] \in Nat /\ p[g] <= q[g]
    BY <2>2, <2>3
  <2> QED  BY <1>2, <1>3, <2>1, <2>4 DEF IsPackage, Graver
<1>9. ASSUME f \in Others PROVE \A g \in Marks \cup Counts : q[g] = p[g]
  BY <1>5, <1>6, <1>9
<1>10. CASE f = "advisories" /\ \E s \in DOMAIN p.advisories : v = [p.advisories EXCEPT ![s] = @ + 1]
  <2>1. PICK s \in DOMAIN p.advisories : v = [p.advisories EXCEPT ![s] = @ + 1]
    BY <1>10
  <2>2. DOMAIN v = DOMAIN p.advisories
    BY <2>1
  <2>3. \A t \in DOMAIN p.advisories : p.advisories[t] \in Nat
    BY DEF IsPackage
  <2>4. \A t \in DOMAIN p.advisories : v[t] = p.advisories[t] \/ v[t] = p.advisories[t] + 1
    BY <2>1
  <2>5. \A t \in DOMAIN p.advisories : v[t] \in Nat /\ p.advisories[t] <= v[t]
    BY <2>3, <2>4
  <2> QED  BY <1>2, <1>3, <1>4, <1>9, <1>10, <2>2, <2>5 DEF IsPackage, Graver
<1>11. CASE f = "maintainers" /\ v = IF p.maintainers = 0 THEN 0 ELSE p.maintainers - 1
  <2>1. p.maintainers \in Nat
    BY DEF IsPackage
  <2>2. v \in Nat /\ v <= p.maintainers
    BY <1>11, <2>1
  <2> QED  BY <1>2, <1>3, <1>4, <1>9, <1>11, <2>2 DEF IsPackage, Graver
<1>12. CASE f = "hooks" /\ \E h : v = p.hooks \cup {h}
  BY <1>2, <1>3, <1>4, <1>9, <1>12 DEF IsPackage, Graver
<1>13. CASE f = "ranges" /\ \E d : v = p.ranges \cup {d}
  BY <1>2, <1>3, <1>4, <1>9, <1>13 DEF IsPackage, Graver
<1>14. CASE f = "url" /\ v = 0
  BY <1>2, <1>3, <1>4, <1>9, <1>14 DEF IsPackage, Graver
<1>15. CASE f = "age" /\ v \in {"month", "quarter", "year"} /\ AgeBand[v] <= AgeBand[p.age]
  <2>1. v \in DOMAIN AgeBand
    BY <1>15 DEF AgeBand
  <2> QED  BY <1>2, <1>3, <1>4, <1>9, <1>15, <2>1 DEF IsPackage, Graver
<1>16. CASE \/ f = "size" /\ v = "large"
            \/ f = "provenance" /\ v = FALSE
            \/ f = "maintainerChange" /\ v = "changed"
            \/ f = "intel" /\ v = "newcomer"
            \/ f = "repo" /\ p.repo \in {"ok", "archived"} /\ v \in {"archived", "not-found"}
            \/ f = "trend" /\ v = "drop"
  BY <1>2, <1>3, <1>4, <1>9, <1>16 DEF IsPackage, Graver
<1> QED  BY <1>7, <1>8, <1>10, <1>11, <1>12, <1>13, <1>14, <1>15, <1>16 DEF Against

(* What a step of the machine does. *)
LEMMA WorsenIsGraver ==
  ASSUME IsPackage(package), Worsen
  PROVE  /\ IsPackage(package') /\ Graver(package, package')
         /\ package'.version = package.version + 1
<1>1. PICK q \in Worse(package) : package' = [q EXCEPT !.version = @ + 1]
  BY DEF Worsen
<1>2. PICK f, v : Against(package, f, v) /\ q = [package EXCEPT ![f] = v]
  BY WorseAgainst
<1>3. IsPackage(q) /\ Graver(package, q)
  BY <1>2, AgainstIsGraver
<1>4. q.version = package.version
  BY <1>2 DEF Against, IsPackage, Marks, Counts
<1>5. /\ DOMAIN package' = DOMAIN q /\ package'.version = q.version + 1
      /\ \A g \in DOMAIN q \ {"version"} : package'[g] = q[g]
  BY <1>1, <1>3 DEF IsPackage
<1>6. \A g \in Marks \cup Counts : g \in DOMAIN q /\ g # "version"
  BY <1>3 DEF IsPackage, Marks, Counts
<1>7. q.version \in Nat
  BY <1>3 DEF IsPackage
<1>8. \A g \in Marks \cup Counts : package'[g] = q[g]
  BY <1>5, <1>6
<1>9. \A g \in {"provenance", "maintainers", "url", "advisories", "age", "hooks", "ranges", "size",
                "maintainerChange", "downloads", "trend", "intel", "repo"} : package'[g] = q[g]
  BY <1>3, <1>5 DEF IsPackage
<1>10. IsPackage(package')
  BY <1>3, <1>5, <1>7, <1>8, <1>9 DEF IsPackage
<1>11. Graver(package, package')
  BY <1>3, <1>8, <1>9 DEF Graver
<1> QED  BY <1>4, <1>5, <1>10, <1>11

-----------------------------------------------------------------------------
(***************************************************************************)
(* The risk of an upgrade.                                                 *)
(***************************************************************************)

LEMMA HighMore ==
  ASSUME NEW b, NEW p, NEW q, IsPackage(b), IsPackage(p), IsPackage(q), Graver(p, q)
  PROVE  High(b, p) \subseteq High(b, q)
<1>1. /\ (p.malicious => q.malicious) /\ (p.mutated => q.mutated) /\ (p.fetchExec => q.fetchExec)
      /\ p.scriptFindings <= q.scriptFindings
      /\ p.scriptFindings \in Nat /\ q.scriptFindings \in Nat /\ b.scriptFindings \in Nat
      /\ p.hooks \subseteq q.hooks
  BY DEF Graver, IsPackage, Marks, Counts
<1>2. Moved(b, p) \subseteq Moved(b, q)
  BY DEF Moved, Graver
<1> SUFFICES ASSUME NEW why \in High(b, p) PROVE why \in High(b, q)
  OBVIOUS
<1>3. CASE why = "malicious"
  BY <1>1, <1>3 DEF High
<1>4. CASE why = "hard block"
  BY <1>1, <1>4 DEF High, HardBlocked
<1>5. CASE why = "lifecycle script"
  BY <1>1, <1>5 DEF High
<1>6. CASE why = "script finding"
  <2>1. p.scriptFindings > b.scriptFindings => q.scriptFindings > b.scriptFindings
    BY <1>1
  <2> QED  BY <1>6, <2>1 DEF High
<1>7. CASE why = "outside the registry"
  BY <1>2, <1>7 DEF High
<1> QED  BY <1>3, <1>4, <1>5, <1>6, <1>7 DEF High

LEMMA MediumMore ==
  ASSUME NEW b, NEW p, NEW q, IsPackage(b), IsPackage(p), IsPackage(q), Graver(b, p), Graver(p, q)
  PROVE  Medium(b, p) \subseteq Medium(b, q)
<1>1. /\ (p.deprecated => q.deprecated) /\ (p.native => q.native) /\ (p.binaries => q.binaries)
      /\ (p.osvUnavailable => q.osvUnavailable) /\ (q.provenance => p.provenance)
      /\ (p.size = "large" => q.size = "large")
  BY DEF Graver, Marks
<1>2. /\ p.permissions \in Nat /\ q.permissions \in Nat /\ b.permissions \in Nat
      /\ p.permissions <= q.permissions
  BY DEF Graver, IsPackage, Counts
<1>3. /\ p.maintainers \in Nat /\ q.maintainers \in Nat /\ b.maintainers \in Nat
      /\ p.maintainers <= b.maintainers /\ q.maintainers <= p.maintainers
  BY DEF Graver, IsPackage
<1>4. p.url \in {b.url, 0} /\ q.url \in {p.url, 0}
  BY DEF Graver
<1>5. Added(b, p) \subseteq Added(b, q)
  BY DEF Added, Graver
<1>6. /\ DOMAIN q.advisories = DOMAIN p.advisories /\ DOMAIN b.advisories = DOMAIN p.advisories
      /\ \A s \in DOMAIN p.advisories :
           /\ p.advisories[s] \in Nat /\ q.advisories[s] \in Nat /\ b.advisories[s] \in Nat
           /\ p.advisories[s] <= q.advisories[s]
  BY DEF Graver, IsPackage
<1>7. /\ ComputeSecurityScore(b) \in Nat /\ ComputeSecurityScore(p) \in Nat /\ ComputeSecurityScore(q) \in Nat
      /\ ComputeSecurityScore(q) <= ComputeSecurityScore(p)
  BY ScoreFalls
<1> SUFFICES ASSUME NEW why \in Medium(b, p) PROVE why \in Medium(b, q)
  OBVIOUS
<1>8. CASE why = "dependencies"
  BY <1>5, <1>8 DEF Medium
<1>9. CASE why = "maintainers"
  BY <1>3, <1>9 DEF Medium
<1>10. CASE why = "repository"
  BY <1>4, <1>10 DEF Medium
<1>11. CASE why \in {"provenance", "deprecated", "OSV", "size"}
  BY <1>1, <1>11 DEF Medium
<1>12. CASE why = "native surface"
  <2>1. p.permissions > b.permissions => q.permissions > b.permissions
    BY <1>2
  <2> QED  BY <1>1, <1>12, <2>1 DEF Medium
<1>13. CASE why = "advisories"
  BY <1>6, <1>13 DEF Medium
<1>14. CASE why = "score"
  BY <1>7, <1>14 DEF Medium
<1> QED  BY <1>8, <1>9, <1>10, <1>11, <1>12, <1>13, <1>14 DEF Medium

(* The other way round nothing is new. *)
LEMMA NothingHigh ==
  ASSUME NEW p, NEW q, IsPackage(p), IsPackage(q), Graver(p, q)
  PROVE  High(q, p) = {}
<1>1. /\ (p.malicious => q.malicious) /\ (p.mutated => q.mutated) /\ (p.fetchExec => q.fetchExec)
      /\ p.scriptFindings <= q.scriptFindings
      /\ p.scriptFindings \in Nat /\ q.scriptFindings \in Nat
      /\ p.hooks \subseteq q.hooks
  BY DEF Graver, IsPackage, Marks, Counts
<1>2. Moved(q, p) = {}
  BY DEF Moved, Graver
<1>3. ~(p.malicious /\ ~q.malicious) /\ ~(HardBlocked(p) /\ ~HardBlocked(q))
  BY <1>1 DEF HardBlocked
<1>4. ~(p.scriptFindings > q.scriptFindings)
  BY <1>1
<1> QED  BY <1>1, <1>2, <1>3, <1>4 DEF High

LEMMA NothingMedium ==
  ASSUME NEW p, NEW q, IsPackage(p), IsPackage(q), Graver(p, q),
         p.url = q.url, p.maintainers = q.maintainers, ~p.osvUnavailable, ~q.osvUnavailable
  PROVE  Medium(q, p) = {}
<1>1. /\ (p.deprecated => q.deprecated) /\ (p.native => q.native) /\ (p.binaries => q.binaries)
      /\ (q.provenance => p.provenance) /\ (p.size = "large" => q.size = "large")
  BY DEF Graver, Marks
<1>2. ~(p.permissions > q.permissions)
  BY DEF Graver, IsPackage, Counts
<1>3. Added(q, p) = {}
  BY DEF Added, Graver
<1>4. \A s \in DOMAIN p.advisories : ~(p.advisories[s] > q.advisories[s])
  BY DEF Graver, IsPackage
<1>5. ~(ComputeSecurityScore(q) - ComputeSecurityScore(p) >= 15)
  BY ScoreFalls
<1> SUFFICES ASSUME NEW why \in Medium(q, p) PROVE FALSE
  OBVIOUS
<1>6. CASE why = "dependencies"
  BY <1>3, <1>6 DEF Medium
<1>7. CASE why \in {"maintainers", "repository", "OSV"}
  BY <1>7 DEF Medium
<1>8. CASE why \in {"provenance", "deprecated", "size"}
  BY <1>1, <1>8 DEF Medium
<1>9. CASE why = "native surface"
  BY <1>1, <1>2, <1>9 DEF Medium
<1>10. CASE why = "advisories"
  BY <1>4, <1>10 DEF Medium
<1>11. CASE why = "score"
  BY <1>5, <1>11 DEF Medium
<1> QED  BY <1>6, <1>7, <1>8, <1>9, <1>10, <1>11 DEF Medium

(* More reasons never make the risk lower. *)
LEMMA RiskMore ==
  ASSUME NEW H, NEW K, H \subseteq K, NEW M, NEW N, M \subseteq N, IsFiniteSet(N)
  PROVE  /\ RiskRank[RiskOfReasons(H, M)] \in Nat /\ RiskRank[RiskOfReasons(K, N)] \in Nat
         /\ RiskRank[RiskOfReasons(H, M)] <= RiskRank[RiskOfReasons(K, N)]
<1>1. /\ Cardinality(M) \in Nat /\ Cardinality(N) \in Nat /\ Cardinality(M) <= Cardinality(N)
  BY FS_Subset, FS_CardinalityType
<1>2. RiskRank["low"] = 0 /\ RiskRank["medium"] = 1 /\ RiskRank["high"] = 2
  BY DEF RiskRank
<1>3. Cardinality(M) >= 2 => Cardinality(N) >= 2
  BY <1>1
<1> QED  BY <1>2, <1>3 DEF RiskOfReasons

LEMMA MediumFinite == ASSUME NEW b, NEW p PROVE IsFiniteSet(Medium(b, p))
<1> DEFINE A == {"dependencies", "maintainers", "repository", "provenance", "deprecated", "native surface",
                 "advisories"}
           B == {"size", "score", "OSV", "OSV", "OSV", "OSV", "OSV"}
<1>1. IsFiniteSet(A) /\ IsFiniteSet(B)
  BY Seven
<1>2. Medium(b, p) \subseteq A \cup B
  BY DEF Medium
<1> HIDE DEF A, B
<1> QED  BY <1>1, <1>2, FS_Union, FS_Subset

-----------------------------------------------------------------------------
DiffInv ==
  /\ IsPackage(Sound) /\ IsPackage(package) /\ Graver(Sound, package)
  /\ package.version >= Sound.version

LEMMA DiffInitially == DiffInit => DiffInv
<1> SUFFICES ASSUME DiffInit PROVE DiffInv
  OBVIOUS
<1>1. IsPackage(Sound) /\ package = Sound
  BY DiffAssumption DEF DiffInit
<1>2. Sound.version \in Nat
  BY <1>1 DEF IsPackage
<1> QED  BY <1>1, <1>2, NothingGraver DEF DiffInv

LEMMA DiffStep ==
  ASSUME DiffInv, Worsen
  PROVE  DiffInv'
<1>1. IsPackage(package') /\ Graver(package, package') /\ package'.version = package.version + 1
  BY WorsenIsGraver DEF DiffInv
<1>2. Graver(Sound, package')
  BY <1>1, EvenGraver DEF DiffInv
<1>3. package.version \in Nat /\ Sound.version \in Nat
  BY DEF DiffInv, IsPackage
<1> QED  BY <1>1, <1>2, <1>3 DEF DiffInv

(* Only Worsen touches the package. *)
LEMMA DiffSteps == [DiffNext]_<<package, lock>> => [Worsen]_package
BY DEF DiffNext, List

LEMMA DiffInvariance == DiffSpec => []DiffInv
<1>1. DiffInv /\ [DiffNext]_<<package, lock>> => DiffInv'
  BY DiffSteps, DiffStep DEF DiffInv
<1> QED  BY <1>1, DiffInitially, PTL DEF DiffSpec

THEOREM ScoreOnlyFalls == DiffSpec => ScoreNeverRises
<1>1. DiffInv /\ [DiffNext]_<<package, lock>>
        => [ComputeSecurityScore(package') <= ComputeSecurityScore(package)]_package
  <2> SUFFICES ASSUME DiffInv, Worsen
               PROVE  ComputeSecurityScore(package') <= ComputeSecurityScore(package)
    BY DiffSteps
  <2> QED  BY WorsenIsGraver, ScoreFalls DEF DiffInv
<1> QED  BY <1>1, DiffInvariance, PTL DEF DiffSpec, ScoreNeverRises

LEMMA UpgradeFails ==
  ASSUME DiffInv, Worsen, NEW failOn \in DOMAIN RiskRank
  PROVE  DiffExitCode(Sound, package, failOn) <= DiffExitCode(Sound, package', failOn)
<1>1. IsPackage(package') /\ Graver(package, package') /\ package'.version = package.version + 1
  BY WorsenIsGraver DEF DiffInv
<1>2. package.version \in Nat /\ Sound.version \in Nat /\ package.version >= Sound.version
  BY DEF DiffInv, IsPackage
<1>3. High(Sound, package) \subseteq High(Sound, package')
  BY <1>1, HighMore DEF DiffInv
<1>4. Medium(Sound, package) \subseteq Medium(Sound, package')
  BY <1>1, MediumMore DEF DiffInv
<1>5. /\ RiskRank[DiffRisk(Sound, package)] \in Nat /\ RiskRank[DiffRisk(Sound, package')] \in Nat
      /\ RiskRank[DiffRisk(Sound, package)] <= RiskRank[DiffRisk(Sound, package')]
  BY <1>3, <1>4, RiskMore, MediumFinite DEF DiffRisk
<1>6. RiskRank[failOn] \in Nat
  BY DEF RiskRank
<1>7. Sound.version # package'.version
  BY <1>1, <1>2
<1>8. RiskRank[DiffRisk(Sound, package)] >= RiskRank[failOn]
        => RiskRank[DiffRisk(Sound, package')] >= RiskRank[failOn]
  BY <1>5, <1>6
<1> QED  BY <1>7, <1>8 DEF DiffExitCode

LEMMA DowngradePasses ==
  ASSUME DiffInv, Worsen, package.url = package'.url, package.maintainers = package'.maintainers,
         ~package.osvUnavailable, ~package'.osvUnavailable
  PROVE  DiffExitCode(package', package, "medium") = 0
<1>1. IsPackage(package) /\ IsPackage(package') /\ Graver(package, package')
  BY WorsenIsGraver DEF DiffInv
<1>2. High(package', package) = {}
  BY <1>1, NothingHigh
<1>3. Medium(package', package) = {}
  BY <1>1, NothingMedium
<1>4. DiffRisk(package', package) = "low"
  BY <1>2, <1>3, FS_EmptySet DEF DiffRisk, RiskOfReasons
<1> QED  BY <1>4 DEF DiffExitCode, RiskRank

THEOREM RiskFollowsTheChange == DiffSpec => DiffRiskFollows
<1> DEFINE Follows ==
      LET same == package.url = package'.url /\ package.maintainers = package'.maintainers
          known == ~package.osvUnavailable /\ ~package'.osvUnavailable
      IN /\ \A failOn \in DOMAIN RiskRank :
              DiffExitCode(Sound, package, failOn) <= DiffExitCode(Sound, package', failOn)
         /\ same /\ known => DiffExitCode(package', package, "medium") = 0
<1>1. DiffInv /\ [DiffNext]_<<package, lock>> => [Follows]_package
  <2> SUFFICES ASSUME DiffInv, Worsen PROVE Follows
    BY DiffSteps
  <2>1. \A failOn \in DOMAIN RiskRank :
          DiffExitCode(Sound, package, failOn) <= DiffExitCode(Sound, package', failOn)
    BY UpgradeFails
  <2> QED  BY <2>1, DowngradePasses
<1> QED  BY <1>1, DiffInvariance, PTL DEF DiffSpec, DiffRiskFollows
-----------------------------------------------------------------------------
(***************************************************************************)
(* Folds over a sequence.  Of all sets of positions, those that matter are *)
(* 1..i, whose last position is i.                                         *)
(***************************************************************************)

LEMMA LastOf ==
  ASSUME NEW n \in Nat, NEW T, T \subseteq 1..n, T # {}
  PROVE  Max(T) \in T /\ \A x \in T : x <= Max(T)
<1> DEFINE U == {m \in Nat : \A x \in T : x <= m}
<1>1. U \subseteq Nat /\ U # {}
  <2>1. n \in U
    OBVIOUS
  <2> QED  BY <2>1
<1>2. PICK m \in U : \A j \in U : ~(j < m)
  <2> HIDE DEF U
  <2> QED  BY <1>1, LeastNumber
<1>3. m \in T
  <2>1. SUFFICES ASSUME m \notin T PROVE FALSE
    OBVIOUS
  <2>2. PICK y \in T : TRUE
    OBVIOUS
  <2>3. m - 1 \in Nat /\ \A x \in T : x <= m - 1
    <3>1. m \in Nat /\ y \in 1..n /\ y <= m
      OBVIOUS
    <3>2. ASSUME NEW x \in T PROVE x <= m - 1
      <4>1. x \in 1..n /\ x <= m /\ x # m
        BY <2>1
      <4> QED  BY <3>1, <4>1
    <3> QED  BY <3>1, <3>2
  <2>4. m - 1 \in U
    BY <2>3
  <2> QED  BY <1>2, <2>3, <2>4
<1>4. \A x \in T : m >= x
  OBVIOUS
<1>5. Max(T) \in T /\ \A x \in T : Max(T) >= x
  BY <1>3, <1>4 DEF Max
<1> QED  BY <1>5

LEMMA LastOfAll ==
  ASSUME NEW n \in Nat \ {0}
  PROVE  Max(1..n) = n /\ (1..n) \ {n} = 1..(n - 1)
<1>1. 1..n # {} /\ n \in 1..n
  OBVIOUS
<1>2. Max(1..n) \in 1..n /\ n <= Max(1..n)
  BY <1>1, LastOf
<1> QED  BY <1>2

(* What recurs from the last position down exists: F is what is done at each. *)
Folds(k, n, base, F) ==
  \A s \in SUBSET (1..n) : k[s] = IF s = {} THEN base ELSE F[<<k[s \ {Max(s)}], Max(s)>>]

LEMMA FoldExists ==
  ASSUME NEW n \in Nat, NEW V, NEW base \in V, NEW F \in [V \X (1..n) -> V]
  PROVE  \E k \in [SUBSET (1..n) -> V] : Folds(k, n, base, F)
<1> DEFINE B == {m \in 0..n : ~\E k \in [SUBSET (1..m) -> V] : Folds(k, m, base, F)}
<1>0. n \in 0..n
  OBVIOUS
<1>1. SUFFICES ASSUME B # {} PROVE FALSE
  BY <1>0
<1>2. B \subseteq Nat
  OBVIOUS
<1>3. PICK m \in B : \A j \in B : ~(j < m)
  <2> HIDE DEF B
  <2> QED  BY <1>1, <1>2, LeastNumber
<1>4. m # 0
  <2>1. SUFFICES ASSUME m = 0 PROVE FALSE
    OBVIOUS
  <2> DEFINE k == [s \in SUBSET (1..m) |-> base]
  <2>2. \A s \in SUBSET (1..m) : s = {}
    BY <2>1
  <2>3. k \in [SUBSET (1..m) -> V] /\ Folds(k, m, base, F)
    BY <2>2 DEF Folds
  <2> QED  BY <2>3
<1>5. m - 1 \in 0..n /\ m - 1 < m /\ m \in 1..n /\ m \in Nat
  BY <1>4
<1>6. m - 1 \notin B
  BY <1>3, <1>5
<1>7. PICK k \in [SUBSET (1..(m - 1)) -> V] : Folds(k, m - 1, base, F)
  BY <1>5, <1>6
<1> DEFINE h == [s \in SUBSET (1..m) |-> IF m \in s THEN F[<<k[s \ {m}], m>>] ELSE k[s]]
<1>8. ASSUME NEW s \in SUBSET (1..m)
      PROVE  h[s] \in V /\ h[s] = IF s = {} THEN base ELSE F[<<h[s \ {Max(s)}], Max(s)>>]
  <2>1. CASE m \in s
    <3>1. s \ {m} \in SUBSET (1..(m - 1)) /\ s \ {m} \in SUBSET (1..m) /\ m \notin s \ {m}
      BY <1>5
    <3>2. Max(s) = m
      <4>1. Max(s) \in s /\ m <= Max(s)
        <5>1. m \in Nat /\ s \subseteq 1..m /\ s # {}
          BY <2>1, <1>5
        <5> HIDE DEF B, h
        <5> QED  BY <2>1, <5>1, LastOf
      <4>2. Max(s) \in 1..m
        BY <4>1
      <4> QED  BY <1>5, <4>1, <4>2
    <3>3. k[s \ {m}] \in V
      BY <3>1
    <3>4. h[s] = F[<<k[s \ {m}], m>>] /\ h[s \ {m}] = k[s \ {m}]
      BY <2>1, <3>1
    <3>5. F[<<k[s \ {m}], m>>] \in V
      BY <3>3, <1>5
    <3> QED  BY <2>1, <3>2, <3>4, <3>5
  <2>2. CASE m \notin s
    <3>1. s \in SUBSET (1..(m - 1))
      BY <1>5, <2>2
    <3>2. k[s] \in V /\ h[s] = k[s]
      BY <2>2, <3>1
    <3>3. CASE s = {}
      BY <1>7, <3>1, <3>2, <3>3 DEF Folds
    <3>4. CASE s # {}
      <4>1. Max(s) \in s
        <5>1. m \in Nat /\ s \subseteq 1..m
          BY <1>5
        <5> HIDE DEF B, h
        <5> QED  BY <3>4, <5>1, LastOf
      <4>2. s \ {Max(s)} \in SUBSET (1..m) /\ m \notin s \ {Max(s)}
        BY <2>2
      <4>3. h[s \ {Max(s)}] = k[s \ {Max(s)}]
        BY <4>2
      <4>4. k[s] = F[<<k[s \ {Max(s)}], Max(s)>>]
        BY <1>7, <3>1, <3>4 DEF Folds
      <4> QED  BY <3>2, <3>4, <4>3, <4>4
    <3> QED  BY <3>3, <3>4
  <2> QED  BY <2>1, <2>2
<1>9. h \in [SUBSET (1..m) -> V] /\ Folds(h, m, base, F)
  <2> HIDE DEF h
  <2>1. h = [s \in SUBSET (1..m) |-> h[s]]
    BY DEF h
  <2> QED  BY <1>8, <2>1 DEF Folds
<1>10. m \notin B
  BY <1>9
<1> QED  BY <1>10

(***************************************************************************)
(* The artifacts of a lockfile, entry by entry.                            *)
(***************************************************************************)

Listing(es) == Len(es) \in Nat /\ DOMAIN es = 1..Len(es)

Finds(es) ==
  [st: {"ok", ConflictError},
   integrity: UNION {[K -> {es[i].integrity : i \in DOMAIN es} \cup {Absent}] :
                       K \in SUBSET {KeyOf(es[i]) : i \in DOMAIN es}}]

LEMMA MergeTyped ==
  ASSUME NEW es, NEW found \in Finds(es), NEW i \in DOMAIN es
  PROVE  MergeArtifact(found, es[i]) \in Finds(es)
<1> DEFINE I == {es[j].integrity : j \in DOMAIN es} \cup {Absent}
           Ks == {KeyOf(es[j]) : j \in DOMAIN es}
           k == KeyOf(es[i])
<1>1. found.st \in {"ok", ConflictError}
  BY DEF Finds
<1>2. PICK K \in SUBSET Ks : found.integrity \in [K -> I]
  BY DEF Finds
<1>3. Throw(ConflictError) \in Finds(es)
  <2>1. [x \in {} |-> Absent] \in [{} -> I] /\ {} \in SUBSET Ks
    OBVIOUS
  <2> QED  BY <2>1 DEF Throw, Finds
<1>4. ASSUME NEW v \in I PROVE KeepIntegrity(found, k, v) \in Finds(es)
  <2> DEFINE f == [x \in DOMAIN found.integrity \cup {k} |-> IF x = k THEN v ELSE found.integrity[x]]
  <2>1. k \in Ks /\ K \cup {k} \in SUBSET Ks
    OBVIOUS
  <2>2. f \in [K \cup {k} -> I]
    BY <1>2, <1>4
  <2>3. f \in UNION {[L -> I] : L \in SUBSET Ks}
    BY <2>1, <2>2
  <2>4. found \in [st: {"ok", ConflictError}, integrity: UNION {[L -> I] : L \in SUBSET Ks}]
    BY DEF Finds
  <2>5. KeepIntegrity(found, k, v) = [found EXCEPT !.integrity = f]
    BY <2>4 DEF KeepIntegrity
  <2> HIDE DEF I, Ks, k, f
  <2>6. [found EXCEPT !.integrity = f] \in [st: {"ok", ConflictError}, integrity: UNION {[L -> I] : L \in SUBSET Ks}]
    BY <2>3, <2>4
  <2> QED  BY <2>5, <2>6 DEF Finds, I, Ks
<1>5. Previous(found, k) \in I /\ es[i].integrity \in I /\ Absent \in I
  BY <1>2 DEF Previous
<1> HIDE DEF I
<1> QED  BY <1>3, <1>4, <1>5 DEF MergeArtifact

(* What the fold has found after each entry. *)
Found(g, es) ==
  /\ g[0] = NoArtifacts
  /\ \A i \in 1..Len(es) : g[i] = MergeArtifact(g[i - 1], es[i])
  /\ FoldLeft(MergeArtifact, NoArtifacts, es) = g[Len(es)]

LEMMA FoundStepwise ==
  ASSUME NEW es, Listing(es)
  PROVE  \E g : Found(g, es)
<1> DEFINE n == Len(es)
           P(h) == h = [s \in SUBSET DOMAIN es |-> IF s = {} THEN NoArtifacts
                                                   ELSE MergeArtifact(h[s \ {Max(s)}], es[Max(s)])]
           F == [x \in Finds(es) \X (1..n) |-> MergeArtifact(x[1], es[x[2]])]
<1>1. n \in Nat /\ DOMAIN es = 1..n
  BY DEF Listing
<1>2. NoArtifacts \in Finds(es)
  <2>1. [x \in {} |-> Absent] \in [{} -> {es[j].integrity : j \in DOMAIN es} \cup {Absent}]
    OBVIOUS
  <2>2. {} \in SUBSET {KeyOf(es[j]) : j \in DOMAIN es}
    OBVIOUS
  <2> QED  BY <2>1, <2>2 DEF NoArtifacts, Finds
<1>3. F \in [Finds(es) \X (1..n) -> Finds(es)]
  BY <1>1, MergeTyped
<1>4. PICK k \in [SUBSET (1..n) -> Finds(es)] : Folds(k, n, NoArtifacts, F)
  <2> HIDE DEF F, n
  <2> QED  BY <1>1, <1>2, <1>3, FoldExists
<1>5. P(k)
  <2>1. ASSUME NEW s \in SUBSET (1..n)
        PROVE  k[s] = IF s = {} THEN NoArtifacts ELSE MergeArtifact(k[s \ {Max(s)}], es[Max(s)])
    <3>1. CASE s = {}
      BY <1>4, <3>1 DEF Folds
    <3>2. CASE s # {}
      <4>1. Max(s) \in 1..n
        <5> HIDE DEF n
        <5> QED  BY <1>1, <3>2, LastOf
      <4>2. k[s \ {Max(s)}] \in Finds(es)
        OBVIOUS
      <4>3. F[<<k[s \ {Max(s)}], Max(s)>>] = MergeArtifact(k[s \ {Max(s)}], es[Max(s)])
        BY <4>1, <4>2
      <4> QED  BY <1>4, <3>2, <4>3 DEF Folds
    <3> QED  BY <3>1, <3>2
  <2>2. k = [s \in SUBSET (1..n) |-> k[s]]
    OBVIOUS
  <2> HIDE DEF n
  <2> QED  BY <1>1, <2>1, <2>2
<1> DEFINE h == CHOOSE x : P(x)
<1>6. P(h)
  BY <1>5
<1>7. FoldLeft(MergeArtifact, NoArtifacts, es) = h[DOMAIN es]
  BY Zenon DEF FoldLeft, MapThenFoldSet
<1> HIDE DEF h, n
<1> DEFINE g == [i \in 0..n |-> h[1..i]]
<1>8. g[0] = NoArtifacts
  <2>1. 1..0 = {} /\ {} \in SUBSET DOMAIN es
    OBVIOUS
  <2>2. h[{}] = NoArtifacts
    BY <1>6, <2>1
  <2> QED  BY <1>1, <2>1, <2>2
<1>9. ASSUME NEW i \in 1..n
      PROVE  g[i] = MergeArtifact(g[i - 1], es[i])
  <2>1. i \in Nat \ {0} /\ 1..i \in SUBSET DOMAIN es /\ 1..i # {} /\ i - 1 \in 0..n /\ i \in 0..n
    BY <1>1
  <2>2. Max(1..i) = i /\ (1..i) \ {i} = 1..(i - 1)
    BY <2>1, LastOfAll
  <2>3. h[1..i] = MergeArtifact(h[(1..i) \ {Max(1..i)}], es[Max(1..i)])
    BY <1>6, <2>1
  <2> QED  BY <2>1, <2>2, <2>3
<1>10. FoldLeft(MergeArtifact, NoArtifacts, es) = g[n]
  BY <1>1, <1>7
<1> HIDE DEF g
<1> QED  BY <1>8, <1>9, <1>10 DEF Found, n

KeysUpTo(es, i) == {KeyOf(es[j]) : j \in 1..i}

(* The entries of a key that no empty integrity of it hides. *)
Shown(es, i, k) ==
  {x \in 1..i : KeyOf(es[x]) = k /\ \A y \in x..i : KeyOf(es[y]) = k => es[y].integrity # Empty}
IntegritiesUpTo(es, i, k) == {es[j].integrity : j \in Shown(es, i, k)} \ {Absent}
Conflict(es, i) == \E m \in 1..i : \E a, b \in IntegritiesUpTo(es, m, KeyOf(es[m])) : a # b

(* The artifacts found are those listed, and a conflict has been noticed. *)
FoundIs(found, es, i) ==
  IF Conflict(es, i) THEN found = Throw(ConflictError)
  ELSE /\ found.st = "ok" /\ DOMAIN found.integrity = KeysUpTo(es, i)
       /\ \A k \in KeysUpTo(es, i) : {found.integrity[k]} \ {Absent} = IntegritiesUpTo(es, i, k)

LEMMA OneMore ==
  ASSUME NEW es, NEW i \in Nat \ {0}
  PROVE  /\ KeysUpTo(es, i) = KeysUpTo(es, i - 1) \cup {KeyOf(es[i])}
         /\ \A k : k # KeyOf(es[i]) => IntegritiesUpTo(es, i, k) = IntegritiesUpTo(es, i - 1, k)
         /\ IntegritiesUpTo(es, i, KeyOf(es[i])) =
              IF es[i].integrity = Empty THEN {}
              ELSE IntegritiesUpTo(es, i - 1, KeyOf(es[i])) \cup ({es[i].integrity} \ {Absent})
         /\ \A k : k \notin KeysUpTo(es, i - 1) => IntegritiesUpTo(es, i - 1, k) = {}
         /\ \A k : Empty \notin IntegritiesUpTo(es, i - 1, k)
<1>1. 1..i = 1..(i - 1) \cup {i}
  OBVIOUS
<1>2. KeysUpTo(es, i) = KeysUpTo(es, i - 1) \cup {KeyOf(es[i])}
  BY <1>1 DEF KeysUpTo
<1>3. ASSUME NEW x \in 1..(i - 1) PROVE x..i = x..(i - 1) \cup {i}
  OBVIOUS
<1>4. ASSUME NEW k, k # KeyOf(es[i]) PROVE Shown(es, i, k) = Shown(es, i - 1, k)
  BY <1>1, <1>3, <1>4 DEF Shown
<1>5. ASSUME es[i].integrity = Empty PROVE Shown(es, i, KeyOf(es[i])) = {}
  <2>1. \A x \in 1..i : i \in x..i
    OBVIOUS
  <2> QED  BY <1>5, <2>1 DEF Shown
<1>6. ASSUME es[i].integrity # Empty
      PROVE  Shown(es, i, KeyOf(es[i])) = Shown(es, i - 1, KeyOf(es[i])) \cup {i}
  <2>1. i..i = {i}
    OBVIOUS
  <2> QED  BY <1>1, <1>3, <1>6, <2>1 DEF Shown
<1>7. ASSUME NEW k, k \notin KeysUpTo(es, i - 1) PROVE IntegritiesUpTo(es, i - 1, k) = {}
  BY <1>7 DEF KeysUpTo, Shown, IntegritiesUpTo
<1>8. ASSUME NEW k PROVE Empty \notin IntegritiesUpTo(es, i - 1, k)
  <2>1. \A x \in 1..(i - 1) : x \in x..(i - 1)
    OBVIOUS
  <2> QED  BY <2>1 DEF Shown, IntegritiesUpTo
<1>9. IntegritiesUpTo(es, i, KeyOf(es[i])) =
        IF es[i].integrity = Empty THEN {}
        ELSE IntegritiesUpTo(es, i - 1, KeyOf(es[i])) \cup ({es[i].integrity} \ {Absent})
  BY <1>5, <1>6 DEF IntegritiesUpTo
<1> QED  BY <1>2, <1>4, <1>7, <1>8, <1>9 DEF IntegritiesUpTo

LEMMA MergeIs ==
  ASSUME NEW es, NEW i \in Nat \ {0}, NEW found, FoundIs(found, es, i - 1),
         found = [st |-> found.st, integrity |-> found.integrity]
  PROVE  FoundIs(MergeArtifact(found, es[i]), es, i)
<1> DEFINE k == KeyOf(es[i])
           v == es[i].integrity
           new == MergeArtifact(found, es[i])
           Had == IntegritiesUpTo(es, i - 1, k)
           Has == IntegritiesUpTo(es, i, k)
<1>1. /\ KeysUpTo(es, i) = KeysUpTo(es, i - 1) \cup {k}
      /\ Has = IF v = Empty THEN {} ELSE Had \cup ({v} \ {Absent})
      /\ \A x : x # k => IntegritiesUpTo(es, i, x) = IntegritiesUpTo(es, i - 1, x)
      /\ k \notin KeysUpTo(es, i - 1) => Had = {}
      /\ Empty \notin Had
  BY OneMore
<1>2. Conflict(es, i) <=> Conflict(es, i - 1) \/ \E a, b \in Has : a # b
  <2>1. 1..i = 1..(i - 1) \cup {i}
    OBVIOUS
  <2> QED  BY <2>1 DEF Conflict
<1>3. CASE Conflict(es, i - 1)
  <2>1. found = Throw(ConflictError)
    BY <1>3 DEF FoundIs
  <2>2. found.st # "ok"
    BY <2>1 DEF Throw, ConflictError
  <2>3. new = found
    BY <2>2 DEF MergeArtifact
  <2> QED  BY <1>2, <1>3, <2>1, <2>3 DEF FoundIs
<1>4. CASE ~Conflict(es, i - 1)
  <2>1. /\ found.st = "ok" /\ DOMAIN found.integrity = KeysUpTo(es, i - 1)
        /\ \A x \in KeysUpTo(es, i - 1) : {found.integrity[x]} \ {Absent} = IntegritiesUpTo(es, i - 1, x)
    BY <1>4 DEF FoundIs
  <2> DEFINE previous == Previous(found, k)
             w == IF v # Absent THEN v ELSE previous
             stored == IF w = Empty THEN Absent ELSE w
  <2>2. {previous} \ {Absent} = Had
    <3>1. CASE k \in KeysUpTo(es, i - 1)
      BY <2>1, <3>1 DEF Previous
    <3>2. CASE k \notin KeysUpTo(es, i - 1)
      BY <1>1, <2>1, <3>2 DEF Previous
    <3> QED  BY <3>1, <3>2
  <2>3. new = IF Conflicting(previous, v) THEN Throw(ConflictError) ELSE KeepIntegrity(found, k, stored)
    BY <2>1 DEF MergeArtifact
  <2> HIDE DEF previous, k, v, Had, Has
  <2>4. Conflict(es, i) <=> Conflicting(previous, v)
    <3>1. (\E a, b \in Has : a # b) <=> Conflicting(previous, v)
      BY <1>1, <2>2, LockfileAssumption DEF Conflicting, LockfileAssumption
    <3> QED  BY <1>2, <1>4, <3>1 DEF Has
  <2>5. CASE Conflict(es, i)
    BY <2>3, <2>4, <2>5 DEF FoundIs
  <2>6. CASE ~Conflict(es, i)
    <3> DEFINE f == [x \in DOMAIN found.integrity \cup {k} |-> IF x = k THEN stored ELSE found.integrity[x]]
    <3>1. new = [found EXCEPT !.integrity = f]
      BY <2>3, <2>4, <2>6 DEF KeepIntegrity
    <3>2. {stored} \ {Absent} = Has
      <4>1. v # Empty /\ ~Conflicting(previous, v) => {stored} \ {Absent} = Had \cup ({v} \ {Absent})
        BY <1>1, <2>2 DEF Conflicting
      <4> QED  BY <1>1, <2>4, <2>6, <4>1, LockfileAssumption DEF LockfileAssumption
    <3> HIDE DEF stored
    <3>3. DOMAIN f = KeysUpTo(es, i)
      BY <1>1, <2>1
    <3>4. \A x \in KeysUpTo(es, i) : {f[x]} \ {Absent} = IntegritiesUpTo(es, i, x)
      <4> TAKE x \in KeysUpTo(es, i)
      <4>1. CASE x = k
        <5>1. f[x] = stored
          BY <2>1, <4>1
        <5> QED  BY <3>2, <4>1, <5>1 DEF Has
      <4>2. CASE x # k
        <5>1. x \in KeysUpTo(es, i - 1) /\ IntegritiesUpTo(es, i, x) = IntegritiesUpTo(es, i - 1, x)
          BY <1>1, <4>2
        <5>2. f[x] = found.integrity[x]
          BY <2>1, <4>2, <5>1
        <5> QED  BY <2>1, <5>1, <5>2
      <4> QED  BY <4>1, <4>2
    <3> HIDE DEF f, new
    <3>5. new.st = "ok" /\ new.integrity = f
      <4>1. new = [[st |-> found.st, integrity |-> found.integrity] EXCEPT !.integrity = f]
        BY <3>1
      <4> QED  BY <2>1, <4>1
    <3> QED  BY <2>6, <3>3, <3>4, <3>5 DEF FoundIs, new
  <2> QED  BY <2>5, <2>6
<1> QED  BY <1>3, <1>4

(* What is found in a whole lockfile. *)
LEMMA ArtifactsFound ==
  ASSUME NEW es, Listing(es)
  PROVE  FoundIs(FoldLeft(MergeArtifact, NoArtifacts, es), es, Len(es))
<1>1. PICK g : Found(g, es)
  BY FoundStepwise
<1>2. Len(es) \in Nat
  BY DEF Listing
<1> DEFINE Right(i) == FoundIs(g[i], es, i) /\ g[i] = [st |-> g[i].st, integrity |-> g[i].integrity]
           B == {i \in 0..Len(es) : ~Right(i)}
<1>3. B = {}
  <2>1. SUFFICES ASSUME B # {} PROVE FALSE
    OBVIOUS
  <2>2. PICK i \in B : \A j \in B : ~(j < i)
    <3>1. B \subseteq Nat
      BY <1>2
    <3> HIDE DEF B
    <3> QED  BY <2>1, <3>1, LeastNumber
  <2>3. CASE i = 0
    <3>1. g[0] = NoArtifacts
      BY <1>1 DEF Found
    <3>2. KeysUpTo(es, 0) = {}
      BY DEF KeysUpTo
    <3>3. FoundIs(NoArtifacts, es, 0)
      BY <3>2 DEF FoundIs, Conflict, NoArtifacts
    <3>4. NoArtifacts = [st |-> NoArtifacts.st, integrity |-> NoArtifacts.integrity]
      BY DEF NoArtifacts
    <3>5. Right(0)
      BY <3>1, <3>3, <3>4
    <3> HIDE DEF Right
    <3> QED  BY <2>2, <2>3, <3>5
  <2>4. CASE i # 0
    <3>1. i \in Nat \ {0} /\ i \in 1..Len(es) /\ i - 1 \in 0..Len(es) /\ i - 1 < i
      BY <1>2, <2>4
    <3>2. Right(i - 1)
      BY <2>2, <3>1
    <3>3. g[i] = MergeArtifact(g[i - 1], es[i])
      BY <1>1, <3>1 DEF Found
    <3>4. FoundIs(g[i], es, i)
      BY <3>1, <3>2, <3>3, MergeIs
    <3>5. g[i] = [st |-> g[i].st, integrity |-> g[i].integrity]
      <4> DEFINE p == g[i - 1]
                 q == MergeArtifact(p, es[i])
      <4>1. p = [st |-> p.st, integrity |-> p.integrity]
        BY <3>2
      <4> HIDE DEF p
      <4>2. q = p \/ q = Throw(ConflictError) \/ \E f : q = [p EXCEPT !.integrity = f]
        BY DEF MergeArtifact, KeepIntegrity
      <4>3. \A f : [p EXCEPT !.integrity = f] = [st |-> p.st, integrity |-> f]
        BY <4>1
      <4> HIDE DEF q
      <4>4. q = [st |-> q.st, integrity |-> q.integrity]
        BY <4>1, <4>2, <4>3 DEF Throw
      <4> QED  BY <3>3, <4>4 DEF p, q
    <3>6. Right(i)
      BY <3>4, <3>5
    <3> HIDE DEF Right
    <3> QED  BY <2>2, <3>6
  <2> QED  BY <2>3, <2>4
<1>4. Right(Len(es))
  <2>1. Len(es) \in 0..Len(es)
    BY <1>2
  <2> HIDE DEF Right
  <2> QED  BY <1>3, <2>1
<1> QED  BY <1>1, <1>4 DEF Found

-----------------------------------------------------------------------------
(***************************************************************************)
(* The order of versions, position by position.                            *)
(***************************************************************************)

PreBelow(p, q) == IF (p = 0) = (q = 0) THEN p < q ELSE q = 0

SemverBelow(a, b) ==
  \/ a.core[1] < b.core[1]
  \/ a.core[1] = b.core[1] /\ a.core[2] < b.core[2]
  \/ a.core[1] = b.core[1] /\ a.core[2] = b.core[2] /\ a.core[3] < b.core[3]
  \/ a.core = b.core /\ PreBelow(a.pre, b.pre)

LEMMA SignOf ==
  ASSUME NEW m \in Int, NEW n \in Int
  PROVE  (Sign(m - n) < 0 <=> m < n) /\ (Sign(m - n) > 0 <=> n < m)
BY DEF Sign

LEMMA VersionParts ==
  ASSUME NEW a \in Versions
  PROVE  /\ a.core[1] \in Nat /\ a.core[2] \in Nat /\ a.core[3] \in Nat /\ a.pre \in Nat
         /\ a.core = <<a.core[1], a.core[2], a.core[3]>> /\ a = [core |-> a.core, pre |-> a.pre]
BY DEF Versions

LEMMA SemverOrder ==
  ASSUME NEW a \in Versions, NEW b \in Versions
  PROVE  (CompareSemver(a, b) < 0 <=> SemverBelow(a, b)) /\ (CompareSemver(a, b) > 0 <=> SemverBelow(b, a))
<1> DEFINE differ == {i \in 1 .. 3 : a.core[i] # b.core[i]}
           first == CHOOSE i \in differ : \A j \in differ : i <= j
<1>1. /\ a.core[1] \in Nat /\ a.core[2] \in Nat /\ a.core[3] \in Nat /\ a.pre \in Nat
      /\ b.core[1] \in Nat /\ b.core[2] \in Nat /\ b.core[3] \in Nat /\ b.pre \in Nat
      /\ (a.core = b.core <=> a.core[1] = b.core[1] /\ a.core[2] = b.core[2] /\ a.core[3] = b.core[3])
  BY VersionParts
<1>2. CompareSemver(a, b) = IF differ # {} THEN Sign(a.core[first] - b.core[first]) ELSE ComparePre(a.pre, b.pre)
  BY DEF CompareSemver
<1>3. ASSUME NEW i \in differ, \A j \in differ : i <= j
      PROVE  first = i
  <2>1. first \in differ /\ \A j \in differ : first <= j
    BY <1>3
  <2>2. first <= i /\ i <= first /\ first \in 1..3 /\ i \in 1..3
    BY <1>3, <2>1
  <2> HIDE DEF first
  <2> QED  BY <2>2
<1> HIDE DEF first
<1>4. CASE a.core[1] # b.core[1]
  <2>1. 1 \in differ /\ \A j \in differ : 1 <= j
    BY <1>4
  <2>2. CompareSemver(a, b) = Sign(a.core[1] - b.core[1])
    BY <1>2, <1>3, <2>1
  <2> QED  BY <1>1, <1>4, <2>2, SignOf DEF SemverBelow
<1>5. CASE a.core[1] = b.core[1] /\ a.core[2] # b.core[2]
  <2>1. 2 \in differ /\ \A j \in differ : 2 <= j
    BY <1>5
  <2>2. CompareSemver(a, b) = Sign(a.core[2] - b.core[2])
    BY <1>2, <1>3, <2>1
  <2> QED  BY <1>1, <1>5, <2>2, SignOf DEF SemverBelow
<1>6. CASE a.core[1] = b.core[1] /\ a.core[2] = b.core[2] /\ a.core[3] # b.core[3]
  <2>1. 3 \in differ /\ \A j \in differ : 3 <= j
    BY <1>6
  <2>2. CompareSemver(a, b) = Sign(a.core[3] - b.core[3])
    BY <1>2, <1>3, <2>1
  <2> QED  BY <1>1, <1>6, <2>2, SignOf DEF SemverBelow
<1>7. CASE a.core = b.core
  <2>1. CompareSemver(a, b) = ComparePre(a.pre, b.pre)
    BY <1>2, <1>7
  <2>2. /\ (ComparePre(a.pre, b.pre) < 0 <=> PreBelow(a.pre, b.pre))
        /\ (ComparePre(a.pre, b.pre) > 0 <=> PreBelow(b.pre, a.pre))
    <3>1. CASE (a.pre = 0) = (b.pre = 0)
      <4>1. ComparePre(a.pre, b.pre) = Sign(a.pre - b.pre)
        BY <3>1 DEF ComparePre
      <4>2. (PreBelow(a.pre, b.pre) <=> a.pre < b.pre) /\ (PreBelow(b.pre, a.pre) <=> b.pre < a.pre)
        BY <3>1 DEF PreBelow
      <4>3. a.pre \in Int /\ b.pre \in Int
        BY <1>1
      <4> QED  BY <4>1, <4>2, <4>3, SignOf
    <3>2. CASE a.pre = 0 /\ b.pre # 0
      <4>1. ComparePre(a.pre, b.pre) = 1
        BY <3>2 DEF ComparePre
      <4> QED  BY <3>2, <4>1 DEF PreBelow
    <3>3. CASE a.pre # 0 /\ b.pre = 0
      <4>1. ComparePre(a.pre, b.pre) = -1
        BY <3>3 DEF ComparePre
      <4> QED  BY <3>3, <4>1 DEF PreBelow
    <3> QED  BY <3>1, <3>2, <3>3
  <2>3. /\ (SemverBelow(a, b) <=> PreBelow(a.pre, b.pre))
        /\ (SemverBelow(b, a) <=> PreBelow(b.pre, a.pre))
    BY <1>1, <1>7 DEF SemverBelow
  <2> QED  BY <2>1, <2>2, <2>3
<1> QED  BY <1>1, <1>4, <1>5, <1>6, <1>7

LEMMA BelowIsOrder ==
  ASSUME NEW a \in Versions, NEW b \in Versions, NEW c \in Versions
  PROVE  /\ ~SemverBelow(a, a)
         /\ SemverBelow(a, b) /\ SemverBelow(b, c) => SemverBelow(a, c)
         /\ SemverBelow(a, b) \/ SemverBelow(b, a) \/ a = b
         /\ ~(SemverBelow(a, b) /\ SemverBelow(b, a))
<1>1. /\ a.core[1] \in Nat /\ a.core[2] \in Nat /\ a.core[3] \in Nat /\ a.pre \in Nat
      /\ b.core[1] \in Nat /\ b.core[2] \in Nat /\ b.core[3] \in Nat /\ b.pre \in Nat
      /\ c.core[1] \in Nat /\ c.core[2] \in Nat /\ c.core[3] \in Nat /\ c.pre \in Nat
  BY VersionParts
<1>2. /\ (a.core = b.core <=> a.core[1] = b.core[1] /\ a.core[2] = b.core[2] /\ a.core[3] = b.core[3])
      /\ (c.core = b.core <=> c.core[1] = b.core[1] /\ c.core[2] = b.core[2] /\ c.core[3] = b.core[3])
      /\ (a.core = c.core <=> a.core[1] = c.core[1] /\ a.core[2] = c.core[2] /\ a.core[3] = c.core[3])
      /\ (a = b <=> a.core = b.core /\ a.pre = b.pre)
  BY VersionParts
<1> QED  BY <1>1, <1>2 DEF SemverBelow, PreBelow

(* What After asserts of two versions. *)
LEMMA AfterIsAbove ==
  ASSUME NEW a \in Versions, NEW b \in Versions, After(a, b)
  PROVE  SemverBelow(b, a)
<1>1. /\ a.core[1] \in Nat /\ b.core[1] \in Nat /\ a.pre \in Nat /\ b.pre \in Nat
  BY VersionParts
<1> QED  BY <1>1 DEF After, SemverBelow, PreBelow

(***************************************************************************)
(* The order of a report: a set that is strictly and totally ordered has a *)
(* sorted listing.                                                         *)
(***************************************************************************)

StrictOrder(R, S) ==
  /\ \A x \in S : <<x, x>> \notin R
  /\ \A x, y, z \in S : <<x, y>> \in R /\ <<y, z>> \in R => <<x, z>> \in R
  /\ \A x, y \in S : <<x, y>> \in R \/ <<y, x>> \in R \/ x = y

Sorted(R, s) == \A i \in DOMAIN s : \A j \in 1 .. i - 1 : <<s[j], s[i]>> \in R

LEMMA TopExists ==
  ASSUME NEW R, NEW S, StrictOrder(R, S), IsFiniteSet(S), S # {}
  PROVE  \E v \in S : \A w \in S : <<v, w>> \notin R
<1> DEFINE Topped(T) == \E v \in T : \A w \in T : <<v, w>> \notin R
           B == {T \in SUBSET S : T # {} /\ ~Topped(T)}
<1>1. SUFFICES ASSUME B # {} PROVE FALSE
  OBVIOUS
<1>2. \A T \in B : IsFiniteSet(T)
  BY FS_Subset
<1>3. PICK T \in B : \A U \in B : ~(U \subseteq T /\ U # T)
  <2> HIDE DEF B
  <2> QED  BY <1>1, <1>2, LeastSet
<1>4. PICK x \in T : TRUE
  OBVIOUS
<1>5. x \in S /\ <<x, x>> \notin R
  BY DEF StrictOrder
<1>6. T # {x}
  BY <1>5
<1>7. Topped(T \ {x})
  <2>1. T \ {x} # {} /\ T \ {x} \in SUBSET S /\ T \ {x} \subseteq T /\ T \ {x} # T
    BY <1>4, <1>6
  <2> QED  BY <1>3, <2>1
<1>8. PICK m \in T \ {x} : \A w \in T \ {x} : <<m, w>> \notin R
  BY <1>7
<1>9. Topped(T)
  <2>1. CASE <<m, x>> \in R
    <3>1. \A w \in T : <<x, w>> \notin R
      <4> TAKE w \in T
      <4>1. m \in S /\ w \in S
        OBVIOUS
      <4>2. <<x, w>> \in R => <<m, w>> \in R
        BY <1>5, <2>1, <4>1 DEF StrictOrder
      <4> QED  BY <1>5, <1>8, <4>2
    <3> QED  BY <3>1
  <2>2. CASE <<m, x>> \notin R
    BY <1>8, <2>2
  <2> QED  BY <2>1, <2>2
<1> QED  BY <1>9

LEMMA SortedExists ==
  ASSUME NEW R, NEW L, StrictOrder(R, L), IsFiniteSet(L)
  PROVE  \E s \in SetToSeqs(L) : Sorted(R, s)
<1> DEFINE Listed(S) == \E s \in SetToSeqs(S) : Sorted(R, s)
           B == {S \in SUBSET L : ~Listed(S)}
<1>1. SUFFICES ASSUME B # {} PROVE FALSE
  OBVIOUS
<1>2. \A S \in B : IsFiniteSet(S)
  BY FS_Subset
<1>3. PICK S \in B : \A T \in B : ~(T \subseteq S /\ T # S)
  <2> HIDE DEF B
  <2> QED  BY <1>1, <1>2, LeastSet
<1>4. StrictOrder(R, S) /\ IsFiniteSet(S)
  BY <1>2 DEF StrictOrder
<1>5. CASE S = {}
  <2> DEFINE s == [i \in 1 .. 0 |-> i]
  <2>1. Cardinality(S) = 0
    BY <1>5, FS_EmptySet
  <2>2. s \in SetToSeqs(S) /\ Sorted(R, s)
    BY <2>1 DEF SetToSeqs, Sorted
  <2> QED  BY <2>2
<1>6. CASE S # {}
  <2>1. PICK m \in S : \A w \in S : <<m, w>> \notin R
    BY <1>4, <1>6, TopExists
  <2> DEFINE T == S \ {m}
             n == Cardinality(T)
  <2>2. n \in Nat /\ Cardinality(S) = n + 1
    <3>1. IsFiniteSet(T) /\ S = T \cup {m} /\ m \notin T
      BY <1>4, FS_Subset
    <3> HIDE DEF T
    <3> QED  BY <3>1, FS_AddElement, FS_CardinalityType
  <2>3. PICK s \in SetToSeqs(T) : Sorted(R, s)
    <3>1. T \in SUBSET L /\ T \subseteq S /\ T # S
      OBVIOUS
    <3> QED  BY <1>3, <3>1
  <2>4. s \in [1 .. n -> T] /\ \A i, j \in 1 .. n : i # j => s[i] # s[j]
    BY DEF SetToSeqs
  <2> HIDE DEF n
  <2> DEFINE t == [i \in 1 .. n + 1 |-> IF i = n + 1 THEN m ELSE s[i]]
  <2>5. t[n + 1] = m /\ \A i \in 1 .. n : t[i] = s[i] /\ t[i] \in T
    BY <2>2, <2>4
  <2>6. t \in SetToSeqs(S)
    <3>1. \A i \in 1 .. n + 1 : i = n + 1 \/ i \in 1 .. n
      BY <2>2
    <3>2. t \in [1 .. n + 1 -> S]
      <4>1. \A i \in 1 .. n + 1 : t[i] \in S
        BY <2>5, <3>1
      <4> QED  BY <4>1
    <3>3. \A i, j \in 1 .. n + 1 : i # j => t[i] # t[j]
      <4> TAKE i, j \in 1 .. n + 1
      <4> HIDE DEF t
      <4> QED  BY <2>4, <2>5, <3>1
    <3> QED  BY <2>2, <3>2, <3>3 DEF SetToSeqs
  <2>7. Sorted(R, t)
    <3> SUFFICES ASSUME NEW i \in 1 .. n + 1, NEW j \in 1 .. i - 1
                 PROVE  <<t[j], t[i]>> \in R
      BY DEF Sorted
    <3>1. j \in 1 .. n /\ t[j] = s[j] /\ s[j] \in T
      BY <2>2, <2>5
    <3>2. CASE i = n + 1
      <4>1. <<s[j], m>> \in R
        BY <1>4, <2>1, <3>1 DEF StrictOrder
      <4> QED  BY <2>5, <3>1, <3>2, <4>1
    <3>3. CASE i # n + 1
      <4>1. i \in DOMAIN s /\ t[i] = s[i]
        BY <2>2, <2>4, <2>5, <3>3
      <4> QED  BY <2>3, <3>1, <4>1 DEF Sorted
    <3> QED  BY <3>2, <3>3
  <2> QED  BY <2>6, <2>7
<1> QED  BY <1>5, <1>6

Ascending(s) == \A i \in DOMAIN s : \A j \in 1 .. i - 1 : CompareSemver(s[j], s[i]) < 0

LEMMA AscendingExists ==
  ASSUME NEW L, L \subseteq Versions, IsFiniteSet(L)
  PROVE  \E s \in SetToSeqs(L) : Ascending(s)
<1> DEFINE R == {p \in L \X L : SemverBelow(p[1], p[2])}
<1>1. \A v, w \in L : <<v, w>> \in R <=> SemverBelow(v, w)
  OBVIOUS
<1> HIDE DEF R
<1>2. StrictOrder(R, L)
  <2>1. \A v \in L : <<v, v>> \notin R
    BY <1>1, BelowIsOrder
  <2>2. \A v, w, x \in L : <<v, w>> \in R /\ <<w, x>> \in R => <<v, x>> \in R
    <3> TAKE v, w, x \in L
    <3>1. v \in Versions /\ w \in Versions /\ x \in Versions
      OBVIOUS
    <3> QED  BY <1>1, <3>1, BelowIsOrder
  <2>3. \A v, w \in L : <<v, w>> \in R \/ <<w, v>> \in R \/ v = w
    <3> TAKE v, w \in L
    <3>1. v \in Versions /\ w \in Versions
      OBVIOUS
    <3> QED  BY <1>1, <3>1, BelowIsOrder
  <2> QED  BY <2>1, <2>2, <2>3 DEF StrictOrder
<1>3. PICK s \in SetToSeqs(L) : Sorted(R, s)
  BY <1>2, SortedExists
<1>4. Ascending(s)
  <2> SUFFICES ASSUME NEW i \in DOMAIN s, NEW j \in 1 .. i - 1
               PROVE  CompareSemver(s[j], s[i]) < 0
    BY DEF Ascending
  <2>1. <<s[j], s[i]>> \in R
    BY <1>3 DEF Sorted
  <2>2. s[j] \in L /\ s[i] \in L /\ SemverBelow(s[j], s[i])
    BY <2>1 DEF R
  <2> QED  BY <2>2, SemverOrder
<1> QED  BY <1>4

(* A listing of a set misses none of its elements. *)
LEMMA ListsAll ==
  ASSUME NEW L, IsFiniteSet(L), NEW s \in SetToSeqs(L)
  PROVE  /\ s \in Seq(L) /\ Len(s) = Cardinality(L) /\ Len(s) \in Nat /\ DOMAIN s = 1 .. Len(s)
         /\ \A v \in L : \E i \in 1 .. Len(s) : s[i] = v
<1> DEFINE n == Cardinality(L)
<1>1. n \in Nat
  BY FS_CardinalityType
<1>2. s \in [1 .. n -> L] /\ \A i, j \in 1 .. n : i # j => s[i] # s[j]
  BY DEF SetToSeqs
<1> HIDE DEF n
<1>3. s \in Seq(L) /\ Len(s) = n
  <2>1. s \in Seq(L)
    BY <1>1, <1>2, SeqDef
  <2>2. DOMAIN s = 1 .. Len(s) /\ Len(s) \in Nat
    BY <2>1, LenProperties
  <2>3. 1 .. n = 1 .. Len(s)
    BY <1>2, <2>2
  <2>4. ASSUME NEW x \in Nat, NEW y \in Nat, 1 .. x = 1 .. y PROVE x = y
    BY <2>4, FS_Interval
  <2> QED  BY <1>1, <2>1, <2>2, <2>3, <2>4
<1>4. s \in Injection(1 .. n, L)
  BY <1>2 DEF Injection, IsInjective
<1>5. IsFiniteSet(1 .. n) /\ Cardinality(1 .. n) = n
  BY <1>1, FS_Interval
<1>6. s \in Surjection(1 .. n, L)
  BY <1>4, <1>5, FS_Injection DEF n
<1>7. \A v \in L : \E i \in 1 .. n : s[i] = v
  BY <1>6 DEF Surjection
<1>8. DOMAIN s = 1 .. n
  BY <1>2
<1> QED  BY <1>1, <1>3, <1>7, <1>8 DEF n

LEMMA VersionsListed ==
  ASSUME NEW lockfile, NEW name,
         NEW L, L = {k[2] : k \in {x \in ExtractLockfileEntries(lockfile) : x[1] = name}},
         L \subseteq Versions, IsFiniteSet(L)
  PROVE  /\ VersionsOf(lockfile, name) \in SetToSeqs(L)
         /\ Ascending(VersionsOf(lockfile, name))
<1> DEFINE P(s) == \A i \in DOMAIN s : \A j \in 1 .. i - 1 : CompareSemver(s[j], s[i]) < 0
<1>1. \E s \in SetToSeqs(L) : P(s)
  BY AscendingExists DEF Ascending
<1>2. VersionsOf(lockfile, name) = CHOOSE s \in SetToSeqs(L) : P(s)
  BY DEF VersionsOf
<1>3. P(VersionsOf(lockfile, name)) /\ VersionsOf(lockfile, name) \in SetToSeqs(L)
  <2> HIDE DEF P
  <2> QED  BY <1>1, <1>2
<1> QED  BY <1>3 DEF Ascending

(* The versions a lockfile lists, for the formats whose entries are seen. *)
LEMMA EntriesFinite ==
  ASSUME NEW lockfile, Listing(lockfile.entries), NEW name
  PROVE  IsFiniteSet({k[2] : k \in {x \in ExtractLockfileEntries(lockfile) : x[1] = name}})
<1> DEFINE es == lockfile.entries
           L == {k[2] : k \in {x \in ExtractLockfileEntries(lockfile) : x[1] = name}}
           All == {es[i].version : i \in DOMAIN es}
           f == [i \in DOMAIN es |-> es[i].version]
<1>1. f \in Surjection(DOMAIN es, All)
  BY DEF Surjection
<1>2. IsFiniteSet(DOMAIN es)
  BY FS_Interval DEF Listing
<1>3. IsFiniteSet(All)
  <2> HIDE DEF f, All, es
  <2> QED  BY <1>1, <1>2, FS_Surjection
<1>4. L \subseteq All
  BY DEF ExtractLockfileEntries, KeyOf
<1> HIDE DEF L, All
<1>5. IsFiniteSet(L)
  BY <1>3, <1>4, FS_Subset
<1> QED  BY <1>5 DEF L

(* The last of an ascending list. *)
LEMMA LastHighest ==
  ASSUME NEW L, L \subseteq Versions, IsFiniteSet(L), NEW s \in SetToSeqs(L), Ascending(s), Len(s) # 0
  PROVE  /\ Last(s) \in L
         /\ \A v \in L : ~SemverBelow(Last(s), v)
<1>1. /\ s \in Seq(L) /\ Len(s) \in Nat /\ DOMAIN s = 1 .. Len(s)
      /\ \A v \in L : \E i \in 1 .. Len(s) : s[i] = v
  BY ListsAll
<1>2. Last(s) = s[Len(s)] /\ Len(s) \in 1 .. Len(s)
  BY <1>1 DEF Last
<1>3. Last(s) \in L
  BY <1>1, <1>2, ElementOfSeq
<1>4. ASSUME NEW v \in L PROVE ~SemverBelow(Last(s), v)
  <2>1. PICK i \in 1 .. Len(s) : s[i] = v
    BY <1>1
  <2>2. CASE i = Len(s)
    BY <1>2, <1>3, <2>1, <2>2, BelowIsOrder
  <2>3. CASE i # Len(s)
    <3>1. i \in 1 .. Len(s) - 1
      <4>1. Len(s) \in Nat /\ i \in 1 .. Len(s)
        BY <1>1
      <4> QED  BY <2>3, <4>1
    <3>2. CompareSemver(v, Last(s)) < 0
      BY <1>1, <1>2, <2>1, <3>1 DEF Ascending
    <3>3. SemverBelow(v, Last(s))
      BY <1>3, <3>2, SemverOrder
    <3> QED  BY <1>3, <3>3, BelowIsOrder
  <2> QED  BY <2>2, <2>3
<1> QED  BY <1>3, <1>4

LEMMA UpTo ==
  ASSUME NEW n \in Nat, NEW i \in 1..n
  PROVE  i \in Nat \ {0} /\ 1..i \subseteq 1..n /\ 1..i # {} /\ i - 1 \in 0..n /\ i \in 0..n
OBVIOUS

(* The fold of Higher over a list, step by step. *)
LEMMA HigherStepwise ==
  ASSUME NEW es \in Seq(Versions), NEW first \in Versions
  PROVE  \E g \in [0 .. Len(es) -> Versions] :
           /\ g[0] = first
           /\ \A i \in 1 .. Len(es) : g[i] = Higher(es[i], g[i - 1])
           /\ FoldLeft(LAMBDA max, v : Higher(v, max), first, es) = g[Len(es)]
<1> DEFINE n == Len(es)
           P(h) == h = [s \in SUBSET DOMAIN es |-> IF s = {} THEN first
                                                   ELSE Higher(es[Max(s)], h[s \ {Max(s)}])]
           F == [x \in Versions \X (1..n) |-> Higher(es[x[2]], x[1])]
<1>1. n \in Nat /\ DOMAIN es = 1..n /\ \A i \in 1..n : es[i] \in Versions
  BY LenProperties, ElementOfSeq
<1>3. F \in [Versions \X (1..n) -> Versions]
  BY <1>1 DEF Higher
<1>4. PICK k \in [SUBSET (1..n) -> Versions] : Folds(k, n, first, F)
  <2> HIDE DEF F, n
  <2> QED  BY <1>1, <1>3, FoldExists
<1>5. P(k)
  <2>1. ASSUME NEW s \in SUBSET (1..n)
        PROVE  k[s] = IF s = {} THEN first ELSE Higher(es[Max(s)], k[s \ {Max(s)}])
    <3>1. CASE s = {}
      BY <1>4, <3>1 DEF Folds
    <3>2. CASE s # {}
      <4>1. Max(s) \in 1..n
        <5> HIDE DEF n
        <5> QED  BY <1>1, <3>2, LastOf
      <4>2. k[s \ {Max(s)}] \in Versions
        OBVIOUS
      <4>3. F[<<k[s \ {Max(s)}], Max(s)>>] = Higher(es[Max(s)], k[s \ {Max(s)}])
        BY <4>1, <4>2
      <4> QED  BY <1>4, <3>2, <4>3 DEF Folds
    <3> QED  BY <3>1, <3>2
  <2>2. k = [s \in SUBSET (1..n) |-> k[s]]
    OBVIOUS
  <2> HIDE DEF n
  <2> QED  BY <1>1, <2>1, <2>2
<1> DEFINE h == CHOOSE x : P(x)
           fold == FoldLeft(LAMBDA max, v : Higher(v, max), first, es)
<1>6. P(h)
  BY <1>5
<1>7. fold = h[DOMAIN es]
  BY Zenon DEF FoldLeft, MapThenFoldSet
<1> HIDE DEF h, n, fold
<1> DEFINE g == [i \in 0..n |-> h[1..i]]
<1>8. g[0] = first
  <2>1. 1..0 = {} /\ {} \in SUBSET DOMAIN es
    OBVIOUS
  <2>2. h[{}] = first
    BY <1>6, <2>1
  <2> QED  BY <1>1, <2>1, <2>2
<1>9. ASSUME NEW i \in 1..n
      PROVE  g[i] = Higher(es[i], g[i - 1])
  <2>1. n \in Nat
    BY <1>1
  <2>2. i \in Nat \ {0} /\ 1..i \subseteq 1..n /\ 1..i # {} /\ i - 1 \in 0..n /\ i \in 0..n
    BY <2>1, UpTo
  <2>3. 1..i \in SUBSET DOMAIN es
    BY <1>1, <2>2
  <2>4. Max(1..i) = i /\ (1..i) \ {i} = 1..(i - 1)
    BY <2>2, LastOfAll
  <2>5. h[1..i] = Higher(es[Max(1..i)], h[(1..i) \ {Max(1..i)}])
    BY <1>6, <2>2, <2>3
  <2> QED  BY <2>2, <2>4, <2>5
<1>10. fold = g[n]
  BY <1>1, <1>7
<1>11. g \in [0..n -> Versions]
  <2> DEFINE B == {i \in 0..n : g[i] \notin Versions}
  <2>1. SUFFICES ASSUME B # {} PROVE FALSE
    OBVIOUS
  <2>2. PICK i \in B : \A j \in B : ~(j < i)
    <3>1. B \subseteq Nat
      BY <1>1
    <3> HIDE DEF B
    <3> QED  BY <2>1, <3>1, LeastNumber
  <2> HIDE DEF g
  <2>3. i # 0
    BY <1>8, <2>2
  <2>4. i \in 1..n /\ i - 1 \in 0..n /\ i - 1 < i
    BY <1>1, <2>2, <2>3
  <2>5. g[i - 1] \in Versions
    BY <2>2, <2>4
  <2> QED  BY <1>1, <1>9, <2>2, <2>4, <2>5 DEF Higher
<1> HIDE DEF g
<1> QED  BY <1>8, <1>9, <1>10, <1>11 DEF n, fold

(* The highest of a list, in whatever order. *)
LEMMA HighestIs ==
  ASSUME NEW s \in Seq(Versions), s # <<>>
  PROVE  /\ \E i \in 1 .. Len(s) : HighestSemver(s) = s[i]
         /\ HighestSemver(s) \in Versions
         /\ \A i \in 1 .. Len(s) : ~SemverBelow(HighestSemver(s), s[i])
<1> DEFINE es == Tail(s)
           first == Head(s)
<1>1. /\ first \in Versions /\ first = s[1] /\ es \in Seq(Versions) /\ Len(es) = Len(s) - 1
      /\ \A i \in 1 .. Len(es) : es[i] = s[i + 1]
      /\ Len(s) \in Nat \ {0} /\ Len(es) \in Nat /\ \A i \in 1 .. Len(s) : s[i] \in Versions
  BY HeadTailProperties, EmptySeq, LenProperties, ElementOfSeq
<1>2. PICK g \in [0 .. Len(es) -> Versions] :
           /\ g[0] = first
           /\ \A i \in 1 .. Len(es) : g[i] = Higher(es[i], g[i - 1])
           /\ FoldLeft(LAMBDA max, v : Higher(v, max), first, es) = g[Len(es)]
  <2> HIDE DEF es, first
  <2> QED  BY <1>1, HigherStepwise
<1>3. HighestSemver(s) = g[Len(es)]
  <2>1. HighestSemver(s) = FoldLeft(LAMBDA max, v : Higher(v, max), first, es)
    BY Zenon DEF HighestSemver
  <2> DEFINE fold == FoldLeft(LAMBDA max, v : Higher(v, max), first, es)
  <2>2. HighestSemver(s) = fold /\ fold = g[Len(es)]
    BY <1>2, <2>1, Zenon
  <2> HIDE DEF fold
  <2> QED  BY <2>2
<1> HIDE DEF es, first
<1> DEFINE Right(i) == /\ \E j \in 1 .. i + 1 : g[i] = s[j]
                       /\ \A j \in 1 .. i + 1 : ~SemverBelow(g[i], s[j])
           B == {i \in 0 .. Len(es) : ~Right(i)}
<1>4. B = {}
  <2>1. SUFFICES ASSUME B # {} PROVE FALSE
    OBVIOUS
  <2>2. PICK i \in B : \A j \in B : ~(j < i)
    <3>1. B \subseteq Nat
      BY <1>1
    <3> HIDE DEF B
    <3> QED  BY <2>1, <3>1, LeastNumber
  <2>3. CASE i = 0
    <3>1. g[0] = s[1] /\ s[1] \in Versions
      BY <1>1, <1>2
    <3>2. ~SemverBelow(s[1], s[1])
      BY <3>1, BelowIsOrder
    <3>3. \A j : j \in 1 .. 0 + 1 <=> j = 1
      OBVIOUS
    <3> QED  BY <2>2, <2>3, <3>1, <3>2, <3>3
  <2>4. CASE i # 0
    <3>1. i \in 1 .. Len(es) /\ i - 1 \in 0 .. Len(es) /\ i - 1 < i /\ i \in Nat
      BY <1>1, <2>2, <2>4
    <3>2. Right(i - 1) /\ (i - 1) + 1 = i
      BY <2>2, <3>1
    <3>3. g[i] = Higher(s[i + 1], g[i - 1])
      BY <1>1, <1>2, <3>1
    <3>4. i + 1 \in 1 .. Len(s) /\ 1 .. i \subseteq 1 .. Len(s)
      BY <1>1, <3>1
    <3>5. s[i + 1] \in Versions /\ g[i - 1] \in Versions /\ \A j \in 1 .. i : s[j] \in Versions
      BY <1>1, <1>2, <3>1, <3>4
    <3>6. \A j : j \in 1 .. i + 1 <=> j \in 1 .. i \/ j = i + 1
      BY <3>1
    <3>7. /\ \E j \in 1 .. i : g[i - 1] = s[j]
          /\ \A j \in 1 .. i : ~SemverBelow(g[i - 1], s[j])
      BY <3>2
    <3> HIDE DEF Right, B
    <3>8. CASE CompareSemver(s[i + 1], g[i - 1]) > 0
      <4>1. g[i] = s[i + 1]
        BY <3>3, <3>8 DEF Higher
      <4>2. SemverBelow(g[i - 1], s[i + 1])
        BY <3>5, <3>8, SemverOrder
      <4>3. ASSUME NEW j \in 1 .. i PROVE ~SemverBelow(s[i + 1], s[j])
        <5>1. s[j] \in Versions /\ ~SemverBelow(g[i - 1], s[j])
          BY <3>5, <3>7
        <5> QED  BY <3>5, <4>2, <5>1, BelowIsOrder
      <4>4. ~SemverBelow(s[i + 1], s[i + 1])
        BY <3>5, BelowIsOrder
      <4>5. Right(i)
        BY <3>6, <4>1, <4>3, <4>4 DEF Right
      <4> QED  BY <2>2, <4>5 DEF B
    <3>9. CASE ~(CompareSemver(s[i + 1], g[i - 1]) > 0)
      <4>1. g[i] = g[i - 1]
        BY <3>3, <3>9 DEF Higher
      <4>2. ~SemverBelow(g[i - 1], s[i + 1])
        BY <3>5, <3>9, SemverOrder
      <4>3. Right(i)
        BY <3>6, <3>7, <4>1, <4>2 DEF Right
      <4> QED  BY <2>2, <4>3 DEF B
    <3> QED  BY <3>8, <3>9
  <2> QED  BY <2>3, <2>4
<1>5. Right(Len(es))
  <2>1. Len(es) \in 0 .. Len(es)
    BY <1>1
  <2> HIDE DEF Right
  <2> QED  BY <1>4, <2>1
<1>6. Len(es) + 1 = Len(s)
  BY <1>1
<1> QED  BY <1>1, <1>3, <1>5, <1>6

-----------------------------------------------------------------------------
(***************************************************************************)
(* The lockfile of the machine.                                            *)
(***************************************************************************)

LockInv == lock \in Seq(Entries)

LEMMA LockInvariance == DiffSpec => []LockInv
<1>1. DiffInit => LockInv
  BY EmptySeq DEF DiffInit, LockInv
<1>2. LockInv /\ [DiffNext]_<<package, lock>> => LockInv'
  BY AppendProperties DEF DiffNext, Worsen, List, LockInv
<1> QED  BY <1>1, <1>2, PTL DEF DiffSpec

LEMMA ConflictIsCaught == LockInv => ConflictCaught
<1> SUFFICES ASSUME LockInv PROVE ConflictCaught
  OBVIOUS
<1> DEFINE n == Len(lock)
           found == ExtractLockfileArtifacts(Locked)
           keys == {KeyOf(lock[i]) : i \in DOMAIN lock}
<1>1. n \in Nat /\ DOMAIN lock = 1 .. n
  BY LenProperties DEF LockInv
<1>2. Listing(lock)
  BY <1>1 DEF Listing
<1>3. found = FoldLeft(MergeArtifact, NoArtifacts, lock)
  BY DEF ExtractLockfileArtifacts, Locked, Document, TooDeep
<1>4. FoundIs(found, lock, n)
  BY <1>2, <1>3, ArtifactsFound
<1>5. keys = KeysUpTo(lock, n)
  BY <1>1 DEF KeysUpTo
<1>6. \A k : Integrities(k) = IntegritiesUpTo(lock, n, k)
  <2> TAKE k
  <2>1. {j \in EntriesOf(k) : \A x \in EntriesOf(k) : x >= j => lock[x].integrity # Empty} = Shown(lock, n, k)
    BY <1>1 DEF EntriesOf, Shown
  <2> QED  BY <2>1 DEF Integrities, IntegritiesUpTo
<1>7. ASSUME NEW k, Contradicts(k) PROVE Conflict(lock, n)
  <2>1. PICK i \in EntriesOf(k), j \in EntriesOf(k) :
          /\ {lock[i].integrity, lock[j].integrity} \cap {Absent, Empty} = {}
          /\ i < j /\ lock[i].integrity # lock[j].integrity
          /\ \A x \in EntriesOf(k) : x \in i .. j => lock[x].integrity # Empty
    BY <1>7 DEF Contradicts
  <2>2. /\ i \in 1 .. n /\ j \in 1 .. n /\ KeyOf(lock[i]) = k /\ KeyOf(lock[j]) = k
        /\ \A x \in 1 .. n : KeyOf(lock[x]) = k => x \in EntriesOf(k)
    BY <1>1 DEF EntriesOf
  <2>3. \A x \in i .. j : KeyOf(lock[x]) = k => lock[x].integrity # Empty
    BY <1>1, <2>1, <2>2
  <2>4. i \in Shown(lock, j, k) /\ j \in Shown(lock, j, k)
    BY <1>1, <2>1, <2>2, <2>3 DEF Shown
  <2>5. {lock[i].integrity, lock[j].integrity} \subseteq IntegritiesUpTo(lock, j, k)
    BY <2>1, <2>4 DEF IntegritiesUpTo
  <2> QED  BY <2>1, <2>2, <2>5 DEF Conflict
<1>8. ASSUME Conflict(lock, n) PROVE \E k \in keys : Contradicts(k)
  <2>1. PICK m \in 1 .. n : \E a, b \in IntegritiesUpTo(lock, m, KeyOf(lock[m])) : a # b
    BY <1>8 DEF Conflict
  <2> DEFINE k == KeyOf(lock[m])
  <2>2. PICK i \in Shown(lock, m, k), j \in Shown(lock, m, k) :
          /\ lock[i].integrity # Absent /\ lock[j].integrity # Absent
          /\ lock[i].integrity # lock[j].integrity /\ i < j
    <3>1. PICK i \in Shown(lock, m, k), j \in Shown(lock, m, k) :
            /\ lock[i].integrity # Absent /\ lock[j].integrity # Absent
            /\ lock[i].integrity # lock[j].integrity
      BY <2>1 DEF IntegritiesUpTo
    <3>2. i \in Int /\ j \in Int /\ i # j
      BY <3>1 DEF Shown
    <3> QED  BY <3>1, <3>2
  <2>3. i \in EntriesOf(k) /\ j \in EntriesOf(k)
    BY <1>1 DEF Shown, EntriesOf
  <2>4. \A x \in i .. m : KeyOf(lock[x]) = k => lock[x].integrity # Empty
    BY DEF Shown
  <2>5. i \in 1 .. m /\ j \in 1 .. m /\ i \in i .. m /\ j \in i .. m /\ i .. j \subseteq i .. m
    BY <1>1, <2>2 DEF Shown
  <2>6. /\ \A x \in EntriesOf(k) : x \in i .. j => lock[x].integrity # Empty
        /\ lock[i].integrity # Empty /\ lock[j].integrity # Empty
    BY <2>3, <2>4, <2>5 DEF EntriesOf
  <2>7. Contradicts(k)
    BY <2>2, <2>3, <2>6 DEF Contradicts
  <2>8. k \in keys
    BY <1>1
  <2> QED  BY <2>7, <2>8
<1>9. CASE Conflict(lock, n)
  <2>1. found.st = ConflictError
    BY <1>4, <1>9 DEF FoundIs, Throw
  <2> QED  BY <1>8, <1>9, <2>1 DEF ConflictCaught
<1>10. CASE ~Conflict(lock, n)
  <2>1. /\ found.st = "ok" /\ DOMAIN found.integrity = keys
        /\ \A k \in keys : {found.integrity[k]} \ {Absent} = Integrities(k)
    BY <1>4, <1>5, <1>6, <1>10 DEF FoundIs
  <2> QED  BY <1>7, <1>10, <2>1 DEF ConflictCaught
<1> QED  BY <1>9, <1>10

LEMMA HighestIsPicked == LockInv => HighestPicked
<1> SUFFICES ASSUME LockInv, NEW k \in {KeyOf(lock[i]) : i \in DOMAIN lock}, NEW pin \in {e.version : e \in Entries}
             PROVE  LET versions == {x[2] : x \in {y \in ExtractLockfileEntries(Locked) : y[1] = k[1]}}
                        picked == ResolveInstalledVersion(k[1], pin, Locked).version
                        from == FromVersion(k[1], Locked)
                    IN /\ {picked, from} \subseteq versions
                       /\ IF pin \in versions THEN picked = pin ELSE ~\E v \in versions : After(v, picked)
                       /\ ~\E v \in versions : After(v, from)
  BY DEF HighestPicked
<1> DEFINE L == {x[2] : x \in {y \in ExtractLockfileEntries(Locked) : y[1] = k[1]}}
           s == VersionsOf(Locked, k[1])
           picked == ResolveInstalledVersion(k[1], pin, Locked).version
           from == FromVersion(k[1], Locked)
<1>1. Len(lock) \in Nat /\ DOMAIN lock = 1 .. Len(lock) /\ \A i \in DOMAIN lock : lock[i] \in Entries
  BY LenProperties, ElementOfSeq DEF LockInv
<1>2. Listing(Locked.entries) /\ ExtractLockfileEntries(Locked) = {KeyOf(lock[i]) : i \in DOMAIN lock}
  BY <1>1 DEF Listing, Locked, Document, ExtractLockfileEntries, EntriesSeen
<1>3. IsFiniteSet(L)
  BY <1>2, EntriesFinite
<1>4. L \subseteq Versions
  BY <1>1, <1>2, DiffAssumption DEF KeyOf
<1>5. L # {}
  BY <1>2
<1>6. s \in SetToSeqs(L) /\ Ascending(s)
  <2> HIDE DEF s
  <2> QED  BY <1>3, <1>4, VersionsListed DEF s
<1> HIDE DEF L, s
<1>7. /\ s \in Seq(L) /\ Len(s) = Cardinality(L) /\ Len(s) \in Nat /\ DOMAIN s = 1 .. Len(s)
      /\ \A v \in L : \E i \in 1 .. Len(s) : s[i] = v
  BY <1>3, <1>6, ListsAll
<1>8. Len(s) # 0
  BY <1>5, <1>7
<1>9. \A i \in 1 .. Len(s) : s[i] \in L
  BY <1>7, ElementOfSeq
<1>10. Last(s) \in L /\ \A v \in L : ~SemverBelow(Last(s), v)
  BY <1>3, <1>4, <1>6, <1>8, LastHighest
<1>11. Range(s) = L
  BY <1>7, <1>9 DEF Range
<1>12. from \in L /\ \A v \in L : ~SemverBelow(from, v)
  <2>1. s # <<>> /\ s \in Seq(Versions)
    BY <1>4, <1>7, <1>8, SeqMonotonic
  <2>2. from = HighestSemver(s)
    BY <2>1 DEF FromVersion, s
  <2> QED  BY <1>7, <1>9, <2>1, <2>2, HighestIs
<1>13. CASE Len(s) = 1
  <2>1. picked = s[1]
    BY <1>13 DEF ResolveInstalledVersion, s
  <2>2. Last(s) = s[1]
    BY <1>7, <1>13 DEF Last
  <2>3. L = {s[1]}
    BY <1>7, <1>9, <1>13
  <2>4. picked = Last(s) /\ (pin \in L => picked = pin)
    BY <2>1, <2>2, <2>3
  <2> HIDE DEF picked, from
  <2> QED  BY <1>4, <1>10, <1>12, <2>4, AfterIsAbove DEF L, picked, from
<1>14. CASE Len(s) > 1 /\ pin \in L
  <2>1. picked = pin
    BY <1>7, <1>11, <1>14 DEF ResolveInstalledVersion, s
  <2> HIDE DEF picked, from
  <2> QED  BY <1>4, <1>12, <1>14, <2>1, AfterIsAbove DEF L, picked, from
<1>15. CASE Len(s) > 1 /\ pin \notin L
  <2>1. picked = Last(s)
    BY <1>7, <1>11, <1>15 DEF ResolveInstalledVersion, s
  <2> HIDE DEF picked, from
  <2> QED  BY <1>4, <1>10, <1>12, <1>15, <2>1, AfterIsAbove DEF L, picked, from
<1>16. Len(s) = 1 \/ Len(s) > 1
  BY <1>7, <1>8
<1> QED  BY <1>13, <1>14, <1>15, <1>16

THEOREM LockfileIsRead == DiffSpec => []LockfileRead
<1>1. LockInv => LockfileRead
  BY ConflictIsCaught, HighestIsPicked DEF LockfileRead
<1> QED  BY <1>1, LockInvariance, PTL

-----------------------------------------------------------------------------
(***************************************************************************)
(* The exit code, outcome by outcome.                                      *)
(***************************************************************************)

LEMMA ExitStepwise ==
  ASSUME NEW os, Listing(os)
  PROVE  \E g : /\ g[0] = 0
                /\ \A i \in 1 .. Len(os) : g[i] = ExitAfter(g[i - 1], os[i])
                /\ FoldLeft(ExitAfter, 0, os) = g[Len(os)]
<1> DEFINE n == Len(os)
           V == {0, 1, 2}
           P(h) == h = [s \in SUBSET DOMAIN os |-> IF s = {} THEN 0
                                                   ELSE ExitAfter(h[s \ {Max(s)}], os[Max(s)])]
           F == [x \in V \X (1..n) |-> ExitAfter(x[1], os[x[2]])]
<1>1. n \in Nat /\ DOMAIN os = 1..n
  BY DEF Listing
<1>2. \A o : \A e \in V : ExitAfter(e, o) \in V
  BY DEF ExitAfter
<1>3. F \in [V \X (1..n) -> V] /\ 0 \in V
  <2> HIDE DEF n
  <2> QED  BY <1>2
<1>4. PICK k \in [SUBSET (1..n) -> V] : Folds(k, n, 0, F)
  <2> HIDE DEF F, n, V
  <2> QED  BY <1>1, <1>3, FoldExists
<1>5. P(k)
  <2>1. ASSUME NEW s \in SUBSET (1..n)
        PROVE  k[s] = IF s = {} THEN 0 ELSE ExitAfter(k[s \ {Max(s)}], os[Max(s)])
    <3>1. CASE s = {}
      BY <1>4, <3>1 DEF Folds
    <3>2. CASE s # {}
      <4>1. Max(s) \in 1..n
        <5> HIDE DEF n
        <5> QED  BY <1>1, <3>2, LastOf
      <4>2. k[s \ {Max(s)}] \in V
        OBVIOUS
      <4>3. F[<<k[s \ {Max(s)}], Max(s)>>] = ExitAfter(k[s \ {Max(s)}], os[Max(s)])
        BY <4>1, <4>2
      <4> QED  BY <1>4, <3>2, <4>3 DEF Folds
    <3> QED  BY <3>1, <3>2
  <2>2. k = [s \in SUBSET (1..n) |-> k[s]]
    OBVIOUS
  <2> HIDE DEF n
  <2> QED  BY <1>1, <2>1, <2>2
<1> DEFINE h == CHOOSE x : P(x)
<1>6. P(h)
  BY <1>5
<1>7. FoldLeft(ExitAfter, 0, os) = h[DOMAIN os]
  BY Zenon DEF FoldLeft, MapThenFoldSet
<1> HIDE DEF h, n
<1> DEFINE g == [i \in 0..n |-> h[1..i]]
<1>8. g[0] = 0
  <2>1. 1..0 = {} /\ {} \in SUBSET DOMAIN os
    OBVIOUS
  <2>2. h[{}] = 0
    BY <1>6, <2>1
  <2> QED  BY <1>1, <2>1, <2>2
<1>9. ASSUME NEW i \in 1..n
      PROVE  g[i] = ExitAfter(g[i - 1], os[i])
  <2>1. n \in Nat
    BY <1>1
  <2>2. i \in Nat \ {0} /\ 1..i \subseteq 1..n /\ 1..i # {} /\ i - 1 \in 0..n /\ i \in 0..n
    BY <2>1, UpTo
  <2>3. 1..i \in SUBSET DOMAIN os
    BY <1>1, <2>2
  <2>4. Max(1..i) = i /\ (1..i) \ {i} = 1..(i - 1)
    BY <2>2, LastOfAll
  <2>5. h[1..i] = ExitAfter(h[(1..i) \ {Max(1..i)}], os[Max(1..i)])
    BY <1>6, <2>2, <2>3
  <2> QED  BY <2>2, <2>4, <2>5
<1>10. FoldLeft(ExitAfter, 0, os) = g[n]
  BY <1>1, <1>7
<1> HIDE DEF g
<1> QED  BY <1>8, <1>9, <1>10 DEF n

(* No outcome is forgotten, and a failure is not overwritten. *)
LEMMA ExitTells ==
  ASSUME NEW os, Listing(os), NEW i \in 1 .. Len(os)
  PROVE  /\ os[i] = "unresolved" => FoldLeft(ExitAfter, 0, os) = 2
         /\ os[i] = "error" => FoldLeft(ExitAfter, 0, os) \in {1, 2}
<1>1. Len(os) \in Nat
  BY DEF Listing
<1>2. PICK g : /\ g[0] = 0
               /\ \A j \in 1 .. Len(os) : g[j] = ExitAfter(g[j - 1], os[j])
               /\ FoldLeft(ExitAfter, 0, os) = g[Len(os)]
  BY ExitStepwise
<1> DEFINE Right(j) == /\ g[j] \in {0, 1, 2}
                       /\ \A m \in 1 .. j : /\ os[m] = "unresolved" => g[j] = 2
                                            /\ os[m] = "error" => g[j] \in {1, 2}
           B == {j \in 0 .. Len(os) : ~Right(j)}
<1>3. B = {}
  <2>1. SUFFICES ASSUME B # {} PROVE FALSE
    OBVIOUS
  <2>2. PICK j \in B : \A m \in B : ~(m < j)
    <3>1. B \subseteq Nat
      BY <1>1
    <3> HIDE DEF B
    <3> QED  BY <2>1, <3>1, LeastNumber
  <2>3. CASE j = 0
    BY <1>2, <2>2, <2>3
  <2>4. CASE j # 0
    <3>1. j \in 1 .. Len(os) /\ j - 1 \in 0 .. Len(os) /\ j - 1 < j /\ j \in Nat
      BY <1>1, <2>2, <2>4
    <3>2. Right(j - 1)
      BY <2>2, <3>1
    <3>3. g[j] = ExitAfter(g[j - 1], os[j])
      BY <1>2, <3>1
    <3>4. \A m \in 1 .. j : m = j \/ m \in 1 .. j - 1
      BY <3>1
    <3>5. g[j - 1] \in {0, 1, 2}
      BY <3>2
    <3>6. /\ g[j] \in {0, 1, 2}
          /\ os[j] = "unresolved" => g[j] = 2
          /\ os[j] = "error" => g[j] \in {1, 2}
          /\ g[j - 1] = 2 => g[j] = 2
          /\ g[j - 1] = 1 => g[j] \in {1, 2}
      BY <3>3, <3>5 DEF ExitAfter
    <3>7. Right(j)
      BY <3>2, <3>4, <3>6
    <3> HIDE DEF Right
    <3> QED  BY <2>2, <3>7
  <2> QED  BY <2>3, <2>4
<1>4. Right(Len(os))
  <2>1. Len(os) \in 0 .. Len(os)
    BY <1>1
  <2> HIDE DEF Right
  <2> QED  BY <1>3, <2>1
<1> QED  BY <1>2, <1>4

-----------------------------------------------------------------------------
(***************************************************************************)
(* What a pull request holds comes from the facts.                         *)
(***************************************************************************)

PullFields == {"base", "head", "lock", "baseLock", "approvals", "requireSigned", "signers",
               "failOnOsvError", "policy"}
PinsOf(side) == {c[2] : c \in {x \in Pins : x[1] = side}}

ManifestTraced(m, side) ==
  /\ DOMAIN m = Sections
  /\ \A s \in Sections : /\ IsFiniteSet(DOMAIN m[s])
                         /\ \A n \in DOMAIN m[s] : <<side, s, n, m[s][n]>> \in Changes
LockTraced(l, side) ==
  /\ DOMAIN l = {"format", "parses", "entries"}
  /\ l.entries \in Seq(PinsOf(side)) /\ (~l.parses => l.entries = <<>>)

PullInv ==
  /\ DOMAIN pr = PullFields /\ pr.policy = EmptyPull.policy
  /\ \A side \in {"base", "head"} : ManifestTraced(pr[side], side)
  /\ \A side \in {"lock", "baseLock"} : LockTraced(pr[side], side)

LEMMA PullInitially == PullInit => PullInv
<1> SUFFICES ASSUME PullInit PROVE PullInv
  OBVIOUS
<1>1. DOMAIN pr = PullFields /\ pr.policy = EmptyPull.policy
  BY CiAssumption DEF PullInit, PullFields
<1>2. \A side \in {"base", "head"} : ManifestTraced(pr[side], side)
  BY CiAssumption, FS_EmptySet DEF PullInit, ManifestTraced
<1>3. ASSUME NEW side \in {"lock", "baseLock"} PROVE LockTraced(pr[side], side)
  <2>1. PICK format \in Formats : pr[side] = Document(format, <<>>)
    BY CiAssumption DEF PullInit
  <2> QED  BY <2>1, EmptySeq DEF Document, LockTraced
<1> QED  BY <1>1, <1>2, <1>3 DEF PullInv

LEMMA PullStep ==
  ASSUME PullInv, PullNext
  PROVE  PullInv'
<1>1. CASE \E c \in Changes : ChangeManifest(c)
  <2>1. PICK c \in Changes : ChangeManifest(c)
    BY <1>1
  <2>2. c = <<c[1], c[2], c[3], c[4]>> /\ c[1] \in {"base", "head"} /\ c[2] \in Sections
    BY CiAssumption
  <2> DEFINE m == pr[c[1]]
             s == c[2]
             f == With(m[s], c[3], c[4])
  <2>3. pr' = [pr EXCEPT ![c[1]] = [m EXCEPT ![s] = f]]
    BY <2>1 DEF ChangeManifest
  <2>4. ManifestTraced(m, c[1])
    BY <2>2 DEF PullInv
  <2>5. IsFiniteSet(DOMAIN f) /\ \A n \in DOMAIN f : <<c[1], s, n, f[n]>> \in Changes
    <3>1. DOMAIN f = DOMAIN m[s] \cup {c[3]}
      BY DEF With
    <3>2. IsFiniteSet(DOMAIN m[s])
      BY <2>2, <2>4 DEF ManifestTraced
    <3>3. IsFiniteSet(DOMAIN f)
      BY <3>1, <3>2, FS_AddElement
    <3>4. ASSUME NEW n \in DOMAIN f PROVE <<c[1], s, n, f[n]>> \in Changes
      <4>1. CASE n = c[3]
        BY <2>2, <4>1 DEF With
      <4>2. CASE n # c[3]
        BY <2>2, <2>4, <3>1, <4>2 DEF With, ManifestTraced
      <4> QED  BY <4>1, <4>2
    <3> QED  BY <3>3, <3>4
  <2> HIDE DEF f, s, m
  <2>6. ManifestTraced([m EXCEPT ![s] = f], c[1])
    BY <2>2, <2>4, <2>5 DEF ManifestTraced, s
  <2>7. DOMAIN pr' = DOMAIN pr /\ pr'[c[1]] = [m EXCEPT ![s] = f]
        /\ \A x \in PullFields \ {c[1]} : pr'[x] = pr[x]
    BY <2>2, <2>3 DEF PullInv, PullFields
  <2>8. \A x \in {"lock", "baseLock", "policy"} : pr'[x] = pr[x]
    BY <2>2, <2>7 DEF PullFields
  <2>9. \A side \in {"base", "head"} : side = c[1] \/ pr'[side] = pr[side]
    BY <2>7 DEF PullFields
  <2> QED  BY <2>6, <2>7, <2>8, <2>9 DEF PullInv
<1>2. CASE \E c \in Pins : ListPin(c)
  <2>1. PICK c \in Pins : ListPin(c)
    BY <1>2
  <2>2. c = <<c[1], c[2]>> /\ c[1] \in {"lock", "baseLock"}
    BY CiAssumption
  <2> DEFINE l == pr[c[1]]
             k == [l EXCEPT !.entries = Append(@, c[2])]
  <2>3. pr' = [pr EXCEPT ![c[1]] = k] /\ l.parses
    BY <2>1 DEF ListPin
  <2>4. LockTraced(l, c[1])
    BY <2>2 DEF PullInv
  <2>5. c[2] \in PinsOf(c[1])
    BY <2>2 DEF PinsOf
  <2>6. Append(l.entries, c[2]) \in Seq(PinsOf(c[1]))
    BY <2>4, <2>5, AppendProperties DEF LockTraced
  <2> HIDE DEF l
  <2>7. LockTraced(k, c[1])
    BY <2>3, <2>4, <2>6 DEF LockTraced
  <2> HIDE DEF k
  <2>8. DOMAIN pr' = DOMAIN pr /\ pr'[c[1]] = k /\ \A x \in PullFields \ {c[1]} : pr'[x] = pr[x]
    BY <2>2, <2>3 DEF PullInv, PullFields
  <2>9. \A x \in {"base", "head", "policy"} : pr'[x] = pr[x]
    BY <2>2, <2>8 DEF PullFields
  <2>10. \A side \in {"lock", "baseLock"} : side = c[1] \/ pr'[side] = pr[side]
    BY <2>8 DEF PullFields
  <2> QED  BY <2>7, <2>8, <2>9, <2>10 DEF PullInv
<1>3. CASE \E side \in {"lock", "baseLock"} : Corrupt(side)
  <2>1. PICK side \in {"lock", "baseLock"} : Corrupt(side)
    BY <1>3
  <2> DEFINE k == Garbage(pr[side].format)
  <2>2. pr' = [pr EXCEPT ![side] = k]
    BY <2>1 DEF Corrupt
  <2>3. LockTraced(k, side)
    BY EmptySeq DEF Garbage, LockTraced
  <2> HIDE DEF k
  <2>4. DOMAIN pr' = DOMAIN pr /\ pr'[side] = k /\ \A x \in PullFields \ {side} : pr'[x] = pr[x]
    BY <2>2 DEF PullInv, PullFields
  <2>5. \A x \in {"base", "head", "policy"} : pr'[x] = pr[x]
    BY <2>4 DEF PullFields
  <2>6. \A other \in {"lock", "baseLock"} : other = side \/ pr'[other] = pr[other]
    BY <2>4 DEF PullFields
  <2> QED  BY <2>3, <2>4, <2>5, <2>6 DEF PullInv
<1>4. CASE (\E c \in Committed : Commit(c)) \/ RequireSigned
  <2>1. DOMAIN pr' = DOMAIN pr /\ \A x \in PullFields \ {"approvals", "requireSigned"} : pr'[x] = pr[x]
    BY <1>4 DEF PullInv, PullFields, Commit, RequireSigned
  <2>2. \A x \in {"base", "head", "lock", "baseLock", "policy"} : pr'[x] = pr[x]
    BY <2>1 DEF PullFields
  <2> QED  BY <2>1, <2>2 DEF PullInv
<1> QED  BY <1>1, <1>2, <1>3, <1>4 DEF PullNext

LEMMA PullInvariance == PullSpec => []PullInv
<1>1. PullInv /\ [PullNext]_pr => PullInv'
  BY PullStep DEF PullInv
<1> QED  BY <1>1, PullInitially, PTL DEF PullSpec

-----------------------------------------------------------------------------
(***************************************************************************)
(* The decision without an AI.                                             *)
(***************************************************************************)

LEMMA StricterKeepsHumans ==
  ASSUME NEW d \in Decisions, NEW e \in Decisions
  PROVE  /\ Stricter(d, e) \in Decisions
         /\ NeedsHuman(d) \/ NeedsHuman(e) => NeedsHuman(Stricter(d, e))
BY DEF Severity, Stricter, Decisions, NeedsHuman

(* Only the list of known packages stands for a human. *)
LEMMA HumanStillNeeded ==
  ASSUME NEW s \in Signals, NEW p \in Policies, NEW failClosed,
         NeedsHuman(EvaluateRules(s)), ~IsHardBlock(s),
         ~("allowKnownPackages" \in p.lists /\ ~s.degraded)
  PROVE  NeedsHuman(FinalizeAssessment(s, AssessRisk(s, "no_ai"), failClosed, p))
<1> DEFINE d == ApplyOsvFailurePolicy(EvaluateRules(s), s, failClosed)
<1>1. EvaluateRules(s) \in Decisions /\ {"require_approval", "block"} \subseteq Decisions
  BY DEF EvaluateRules, Decisions
<1>2. d \in Decisions /\ NeedsHuman(d)
  BY <1>1, StricterKeepsHumans DEF ApplyOsvFailurePolicy
<1>3. p.asks \in Decisions
  BY DEF Policies, Decisions
<1>4. FinalizeAssessment(s, AssessRisk(s, "no_ai"), failClosed, p) = ApplyPolicy(d, s, p)
  BY DEF FinalizeAssessment, AssessRisk
<1> HIDE DEF d
<1>5. ~s.malicious
  BY DEF IsHardBlock
<1> QED  BY <1>1, <1>2, <1>3, <1>4, <1>5, StricterKeepsHumans DEF ApplyPolicy

-----------------------------------------------------------------------------
(***************************************************************************)
(* A lockfile that was read, and one of its keys.                          *)
(***************************************************************************)

LEMMA IntegrityIsNamed ==
  ASSUME NEW l, NEW key, Listing(l.entries), ExtractLockfileArtifacts(l).st = "ok"
  PROVE  {IntegrityIn(l, key)} \ {Absent} = NamedBy(l, key)
<1> DEFINE es == l.entries
           found == ExtractLockfileArtifacts(l)
           n == Len(es)
<1>1. found = FoldLeft(MergeArtifact, NoArtifacts, es)
  BY DEF ExtractLockfileArtifacts, Throw, LockfileParseError
<1>2. FoundIs(found, es, n)
  BY <1>1, ArtifactsFound
<1>3. DOMAIN es = 1 .. n
  BY DEF Listing
<1>4. NamedBy(l, key) = IntegritiesUpTo(es, n, key)
  <2> DEFINE listing == {j \in DOMAIN es : KeyOf(es[j]) = key}
  <2>1. n \in Nat
    BY DEF Listing
  <2>2. {j \in listing : \A x \in listing : x >= j => es[x].integrity # Empty} = Shown(es, n, key)
    BY <1>3, <2>1 DEF Shown
  <2>3. NamedBy(l, key)
          = {es[i].integrity : i \in {j \in listing : \A x \in listing : x >= j => es[x].integrity # Empty}} \ {Absent}
    BY DEF NamedBy
  <2> QED  BY <2>2, <2>3 DEF IntegritiesUpTo
<1>5. ~Conflict(es, n)
  BY <1>2 DEF FoundIs, Throw, ConflictError
<1>6. IntegrityIn(l, key) = Previous(found, key)
  BY DEF IntegrityIn
<1> HIDE DEF found, n
<1>7. CASE key \in KeysUpTo(es, n)
  BY <1>2, <1>4, <1>5, <1>6, <1>7 DEF FoundIs, Previous
<1>8. CASE key \notin KeysUpTo(es, n)
  <2>1. IntegritiesUpTo(es, n, key) = {}
    BY <1>8 DEF KeysUpTo, Shown, IntegritiesUpTo
  <2>2. IntegrityIn(l, key) = Absent
    BY <1>2, <1>5, <1>6, <1>8 DEF FoundIs, Previous
  <2> QED  BY <1>4, <2>1, <2>2
<1> QED  BY <1>7, <1>8

(* One that could not be read vouches for nothing. *)
LEMMA UnreadIsAbsent ==
  ASSUME NEW l, NEW key, Listing(l.entries), ExtractLockfileArtifacts(l).st # "ok"
  PROVE  IntegrityIn(l, key) = Absent
<1> DEFINE found == ExtractLockfileArtifacts(l)
<1>1. \E error : found = Throw(error)
  <2>1. FoundIs(FoldLeft(MergeArtifact, NoArtifacts, l.entries), l.entries, Len(l.entries))
    BY ArtifactsFound
  <2> QED  BY <2>1 DEF ExtractLockfileArtifacts, FoundIs
<1> QED  BY <1>1 DEF IntegrityIn, Previous, Throw

LEMMA PinsListed ==
  ASSUME PullInv, NEW side \in {"lock", "baseLock"}
  PROVE  /\ Listing(pr[side].entries)
         /\ \A i \in DOMAIN pr[side].entries : <<side, pr[side].entries[i]>> \in Pins
<1>1. pr[side].entries \in Seq(PinsOf(side))
  BY DEF PullInv, LockTraced
<1>2. Listing(pr[side].entries) /\ \A i \in DOMAIN pr[side].entries : pr[side].entries[i] \in PinsOf(side)
  BY <1>1, LenProperties, ElementOfSeq DEF Listing
<1>3. \A e \in PinsOf(side) : <<side, e>> \in Pins
  BY CiAssumption DEF PinsOf
<1> QED  BY <1>2, <1>3

(* A checksum that the base ref had is one that every entry names. *)
LEMMA VerifiedIsVouched ==
  ASSUME PullInv, NEW key, pr.lock.parses, ExtractLockfileArtifacts(pr.lock).st = "ok", LockfileTrusted(pr, key)
  PROVE  pr.baseLock.parses /\ NamedBy(pr.baseLock, key) # {} /\ NamedBy(pr.baseLock, key) = NamedBy(pr.lock, key)
<1>1. IntegrityIn(pr.lock, key) # Absent /\ IntegrityIn(pr.baseLock, key) = IntegrityIn(pr.lock, key)
  BY DEF LockfileTrusted
<1>2. Listing(pr.lock.entries) /\ Listing(pr.baseLock.entries)
  BY PinsListed
<1>3. ExtractLockfileArtifacts(pr.baseLock).st = "ok"
  BY <1>1, <1>2, UnreadIsAbsent
<1>4. /\ {IntegrityIn(pr.lock, key)} \ {Absent} = NamedBy(pr.lock, key)
      /\ {IntegrityIn(pr.baseLock, key)} \ {Absent} = NamedBy(pr.baseLock, key)
  BY <1>2, <1>3, IntegrityIsNamed
<1>5. NamedBy(pr.baseLock, key) # {} /\ NamedBy(pr.baseLock, key) = NamedBy(pr.lock, key)
  BY <1>1, <1>4
<1>6. pr.baseLock.parses
  <2>1. SUFFICES ASSUME ~pr.baseLock.parses PROVE FALSE
    OBVIOUS
  <2>2. pr.baseLock.entries = <<>>
    BY <2>1 DEF PullInv, LockTraced
  <2> QED  BY <1>5, <2>2 DEF NamedBy
<1> QED  BY <1>5, <1>6

-----------------------------------------------------------------------------
(***************************************************************************)
(* One change.                                                             *)
(***************************************************************************)

Installed(c) ==
  LET listed == {k[2] : k \in {x \in ExtractLockfileEntries(pr.lock) : x[1] = c[2]}}
      pin == pr.head[c[1]][c[2]].pin
  IN IF listed = {} THEN {pin, Published.latest[c[2]]} \ {Absent}
     ELSE IF pin \in listed THEN {pin} ELSE listed

(* Of a change the manifest says what is wanted. *)
LEMMA ChangeTraced ==
  ASSUME PullInv, NEW c \in DiffDependencies(pr.base, pr.head)
  PROVE  /\ c = <<c[1], c[2]>> /\ c[1] \in Sections /\ c[2] \in DOMAIN pr.head[c[1]]
         /\ <<"head", c[1], c[2], pr.head[c[1]][c[2]]>> \in Changes
<1>1. c \in UNION {{<<s, n>> : n \in DOMAIN pr.head[s]} : s \in Sections}
  BY DEF DiffDependencies
<1>2. PICK s \in Sections : c \in {<<s, n>> : n \in DOMAIN pr.head[s]}
  BY <1>1
<1>3. PICK n \in DOMAIN pr.head[s] : c = <<s, n>>
  BY <1>2
<1>4. <<"head", s, n, pr.head[s][n]>> \in Changes
  BY DEF PullInv, ManifestTraced
<1> QED  BY <1>2, <1>3, <1>4

LEMMA ChangesFinite ==
  ASSUME PullInv
  PROVE  IsFiniteSet(DiffDependencies(pr.base, pr.head))
<1> DEFINE N == DOMAIN pr.head["dependencies"] \cup DOMAIN pr.head["devDependencies"]
<1>1. IsFiniteSet(DOMAIN pr.head["dependencies"]) /\ IsFiniteSet(DOMAIN pr.head["devDependencies"])
  BY DEF PullInv, ManifestTraced, Sections
<1>2. IsFiniteSet(N)
  BY <1>1, FS_Union
<1>3. IsFiniteSet(Sections)
  <2>1. IsFiniteSet({"dependencies"})
    BY FS_Singleton
  <2>2. IsFiniteSet({"dependencies"} \cup {"devDependencies"})
    BY <2>1, FS_AddElement
  <2>3. Sections = {"dependencies"} \cup {"devDependencies"}
    BY DEF Sections
  <2> QED  BY <2>2, <2>3
<1>4. \A s \in Sections : DOMAIN pr.head[s] \subseteq N
  BY DEF Sections
<1>5. DiffDependencies(pr.base, pr.head) \subseteq Sections \X N
  <2> SUFFICES ASSUME NEW c \in DiffDependencies(pr.base, pr.head) PROVE c \in Sections \X N
    OBVIOUS
  <2>1. c = <<c[1], c[2]>> /\ c[1] \in Sections /\ c[2] \in DOMAIN pr.head[c[1]]
    BY ChangeTraced
  <2> HIDE DEF N
  <2> QED  BY <1>4, <2>1
<1> HIDE DEF N
<1>6. IsFiniteSet(Sections \X N)
  BY <1>2, <1>3, FS_Product
<1> QED  BY <1>5, <1>6, FS_Subset

(* The version analysed is the installed one, and it is published. *)
LEMMA VersionInstalled ==
  ASSUME PullInv, NEW c \in DiffDependencies(pr.base, pr.head)
  PROVE  /\ VersionOf(c, pr, Published) \in Installed(c)
         /\ <<c[2], VersionOf(c, pr, Published)>> \in DOMAIN Published.packages
         /\ EmptyPull.policy[c[2]] \in Policies
<1> DEFINE name == c[2]
           pin == pr.head[c[1]][name].pin
           L == {k[2] : k \in {x \in ExtractLockfileEntries(pr.lock) : x[1] = name}}
           s == VersionsOf(pr.lock, name)
           picked == ResolveInstalledVersion(name, pin, pr.lock).version
           latest == Published.latest[name]
           v == VersionOf(c, pr, Published)
           change == <<"head", c[1], name, pr.head[c[1]][name]>>
<1>1. change \in Changes /\ change[3] = name /\ change[4].pin = pin
  BY ChangeTraced
<1>2. /\ EmptyPull.policy[name] \in Policies
      /\ \A w \in PinnedBy(name) \cup {latest} : w # Absent => <<name, w>> \in DOMAIN Published.packages
      /\ latest # Absent
  <2> HIDE DEF change
  <2> QED  BY <1>1, CiAssumption
<1>3. pin \in PinnedBy(name)
  <2> HIDE DEF change
  <2> QED  BY <1>1 DEF PinnedBy
<1>4. \A w \in L : w \in PinnedBy(name) /\ w \in Versions /\ w # Absent
  <2> SUFFICES ASSUME NEW w \in L PROVE w \in PinnedBy(name) /\ w \in Versions /\ w # Absent
    OBVIOUS
  <2>1. PICK i \in DOMAIN pr.lock.entries : KeyOf(pr.lock.entries[i]) = <<name, w>>
    BY DEF ExtractLockfileEntries, KeyOf
  <2> DEFINE p == <<"lock", pr.lock.entries[i]>>
  <2>2. p \in Pins /\ p[2].name = name /\ p[2].version = w
    BY <2>1, PinsListed DEF KeyOf
  <2> HIDE DEF p, name
  <2> QED  BY <2>2, CiAssumption DEF PinnedBy
<1>5. IsFiniteSet(L)
  BY PinsListed, EntriesFinite
<1>6. s \in SetToSeqs(L)
  <2>1. L \subseteq Versions
    BY <1>4
  <2> HIDE DEF s
  <2> QED  BY <1>5, <2>1, VersionsListed DEF s
<1> HIDE DEF L, s
<1>7. /\ s \in Seq(L) /\ Len(s) \in Nat /\ DOMAIN s = 1 .. Len(s)
      /\ \A w \in L : \E i \in 1 .. Len(s) : s[i] = w
      /\ \A i \in 1 .. Len(s) : s[i] \in L
  BY <1>5, <1>6, ListsAll, ElementOfSeq
<1>8. Range(s) = L
  BY <1>7 DEF Range
<1>9. v = IF picked = Absent THEN latest ELSE picked
  BY DEF VersionOf
<1>10. Installed(c) = IF L = {} THEN {pin, latest} \ {Absent} ELSE IF pin \in L THEN {pin} ELSE L
  BY DEF Installed, L
<1>11. v \in Installed(c) /\ v # Absent /\ v \in PinnedBy(name) \cup {latest}
  <2>1. CASE Len(s) = 0
    <3>1. L = {}
      BY <1>7, <2>1
    <3>2. picked = pin
      BY <2>1 DEF ResolveInstalledVersion, s
    <3> HIDE DEF picked, v, pin, latest
    <3> QED  BY <1>2, <1>3, <1>9, <1>10, <3>1, <3>2
  <2>2. CASE Len(s) = 1
    <3>1. picked = s[1] /\ L = {s[1]}
      BY <1>7, <2>2 DEF ResolveInstalledVersion, s
    <3> HIDE DEF picked, v, pin, latest
    <3> QED  BY <1>4, <1>9, <1>10, <3>1
  <2>3. CASE Len(s) > 1 /\ pin \in L
    <3>1. picked = pin
      <4>1. Len(s) # 1 /\ Len(s) > 1 /\ pin \in Range(s)
        BY <1>7, <1>8, <2>3
      <4> HIDE DEF pin
      <4> QED  BY <4>1 DEF ResolveInstalledVersion, s
    <3> HIDE DEF picked, v, pin, latest
    <3> QED  BY <1>4, <1>9, <1>10, <2>3, <3>1
  <2>4. CASE Len(s) > 1 /\ pin \notin L
    <3>1. picked = s[Len(s)]
      BY <1>7, <1>8, <2>4 DEF ResolveInstalledVersion, s, Last
    <3>2. picked \in L
      BY <1>7, <2>4, <3>1
    <3> HIDE DEF picked, v, pin, latest
    <3> QED  BY <1>4, <1>9, <1>10, <2>4, <3>2
  <2> QED  BY <1>7, <2>1, <2>2, <2>3, <2>4
<1> QED  BY <1>2, <1>11

LEMMA ResolvedIsPassable ==
  ASSUME PullInv, NEW c \in DiffDependencies(pr.base, pr.head), pr.lock.parses,
         ExtractLockfileArtifacts(pr.lock).st = "ok",
         NEW key, key = <<c[2], VersionOf(c, pr, Published)>>,
         ~Published.packages[key].fails, OutcomeOf(c, pr, Published) # "unresolved"
  PROVE  Passable(key)
<1> DEFINE p == Published.packages[key]
           s == SignalsOf(pr, key, p)
           policy == pr.policy[key[1]]
           d == FinalizeAssessment(s, AssessRisk(s, "no_ai"), pr.failOnOsvError, policy)
           approvals == ApplySignedApprovalsPolicy(pr.approvals, pr.requireSigned, pr.signers)
           approval == IF key \in DOMAIN approvals THEN "normal" ELSE "none"
           locked == IntegrityIn(pr.lock, key)
           verified == locked = p.bytes /\ LockfileTrusted(pr, key)
           vouched == pr.baseLock.parses /\ NamedBy(pr.baseLock, key) # {}
                        /\ NamedBy(pr.baseLock, key) = NamedBy(pr.lock, key)
           known == "allowKnownPackages" \in policy.lists /\ ~p.signals.degraded
<1>1. key \in DOMAIN Published.packages /\ policy \in Policies /\ key[1] = c[2]
  BY VersionInstalled DEF PullInv
<1>2. p.signals \in Signals /\ ~p.signals.mutated
  BY <1>1, CiAssumption
<1>3. ~ResolvePackageTrust(d, IsHardBlock(s), approval).unresolved
  BY DEF OutcomeOf
<1>4. ~IsHardBlock(s) /\ (NeedsHuman(d) => key \in DOMAIN approvals)
  <2> HIDE DEF d, s, approvals
  <2> QED  BY <1>3 DEF ResolvePackageTrust
<1>5. {locked} \ {Absent} = NamedBy(pr.lock, key)
  BY PinsListed, IntegrityIsNamed
<1>6. verified => vouched
  BY VerifiedIsVouched
<1> HIDE DEF locked, vouched
<1>7. /\ s \in Signals /\ s.malicious = p.signals.malicious /\ s.fetchExec = p.signals.fetchExec
      /\ s.degraded = p.signals.degraded /\ s.osvDown = p.signals.osvDown
      /\ s.mutated = (locked # Absent /\ locked # p.bytes)
      /\ s.concern = IF verified \/ p.signals.concern = "soft" THEN p.signals.concern
                     ELSE IF p.native THEN "review"
                     ELSE IF p.signals.concern = "none" THEN "warning" ELSE p.signals.concern
  <2>1. s = [p.signals EXCEPT
              !.mutated = locked # Absent /\ locked # p.bytes,
              !.concern = IF verified \/ p.signals.concern = "soft" THEN p.signals.concern
                          ELSE IF p.native THEN "review"
                          ELSE IF p.signals.concern = "none" THEN "warning" ELSE p.signals.concern]
    BY DEF SignalsOf, locked
  <2> DEFINE m == locked # Absent /\ locked # p.bytes
             e == IF verified \/ p.signals.concern = "soft" THEN p.signals.concern
                  ELSE IF p.native THEN "review"
                  ELSE IF p.signals.concern = "none" THEN "warning" ELSE p.signals.concern
  <2>2. m \in BOOLEAN /\ e \in Concerns
    BY <1>2 DEF Signals, Concerns
  <2>3. s = [p.signals EXCEPT !.mutated = m, !.concern = e]
    BY <2>1
  <2> HIDE DEF m, e, s, p, verified
  <2>4. /\ s \in Signals /\ s.malicious = p.signals.malicious /\ s.fetchExec = p.signals.fetchExec
        /\ s.degraded = p.signals.degraded /\ s.osvDown = p.signals.osvDown
        /\ s.mutated = m /\ s.concern = e
    BY <1>2, <2>2, <2>3 DEF Signals
  <2> QED  BY <2>4 DEF m, e
<1> HIDE DEF s, p, verified, approvals, policy
<1>8. NamedBy(pr.lock, key) \subseteq {p.bytes}
  BY <1>4, <1>5, <1>7 DEF IsHardBlock
<1>9. ~IsHardBlock(p.signals)
  BY <1>2, <1>4, <1>7 DEF IsHardBlock
<1>10. ASSUME ~known, NeedsHuman(EvaluateRules(p.signals)) \/ (p.native /\ ~vouched)
       PROVE  key \in DOMAIN approvals
  <2>1. NeedsHuman(EvaluateRules(s))
    <3>1. CASE NeedsHuman(EvaluateRules(p.signals))
      <4>1. p.signals.degraded \/ p.signals.concern \in {"soft", "review", "critical"}
        BY <1>9, <3>1 DEF EvaluateRules, NeedsHuman, IsHardBlock
      <4>2. s.degraded \/ s.concern \in {"soft", "review", "critical"}
        BY <1>7, <4>1
      <4> QED  BY <4>2 DEF EvaluateRules, NeedsHuman
    <3>2. CASE p.native /\ ~vouched
      <4>1. s.concern \in {"soft", "review"}
        BY <1>6, <1>7, <3>2
      <4> QED  BY <4>1 DEF EvaluateRules, NeedsHuman
    <3> QED  BY <1>10, <3>1, <3>2
  <2>2. ~("allowKnownPackages" \in policy.lists /\ ~s.degraded)
    BY <1>7, <1>10
  <2>3. NeedsHuman(d)
    BY <1>1, <1>4, <1>7, <2>1, <2>2, HumanStillNeeded
  <2> QED  BY <1>4, <2>3
<1>11. key \in DOMAIN approvals
         => /\ key \in DOMAIN pr.approvals
            /\ pr.requireSigned => /\ pr.approvals[key].signer \in pr.signers
                                   /\ pr.approvals[key].covers = key
  <2> SUFFICES ASSUME key \in DOMAIN approvals
               PROVE  /\ key \in DOMAIN pr.approvals
                      /\ pr.requireSigned => /\ pr.approvals[key].signer \in pr.signers
                                             /\ pr.approvals[key].covers = key
    OBVIOUS
  <2>1. CASE ~pr.requireSigned
    BY <2>1 DEF approvals, ApplySignedApprovalsPolicy
  <2>2. CASE pr.requireSigned
    <3>1. key \in DOMAIN pr.approvals /\ VerifyApprovalSignature(key, pr.approvals[key], pr.signers) = "valid"
      BY <2>2 DEF approvals, ApplySignedApprovalsPolicy, EnforceSignedApprovals, Restrict
    <3> QED  BY <3>1 DEF VerifyApprovalSignature
  <2> QED  BY <2>1, <2>2
<1>12. Passable(key)
         <=> /\ ~p.fails
             /\ NamedBy(pr.lock, key) \subseteq {p.bytes}
             /\ ~IsHardBlock(p.signals)
             /\ ~known /\ (NeedsHuman(EvaluateRules(p.signals)) \/ (p.native /\ ~vouched)) =>
                  /\ key \in DOMAIN pr.approvals
                  /\ pr.requireSigned => /\ pr.approvals[key].signer \in pr.signers
                                         /\ pr.approvals[key].covers = key
  BY Zenon DEF Passable, p, policy, vouched
<1>13. ~p.fails
  BY DEF p
<1> HIDE DEF known
<1> QED  BY <1>8, <1>9, <1>10, <1>11, <1>12, <1>13

LEMMA ExitIsEarned == PullInv => CiPassEarned
<1> DEFINE altered == DiffDependencies(pr.base, pr.head)
<1> SUFFICES ASSUME PullInv, NEW order \in SetToSeqs(altered), RunCiCheck(order, pr, Published) # 2,
                    pr.lock.parses, ExtractLockfileArtifacts(pr.lock).st = "ok", NEW c \in altered
             PROVE  \E v \in Installed(c) :
                      IF Published.packages[<<c[2], v>>].fails THEN RunCiCheck(order, pr, Published) = 1
                      ELSE Passable(<<c[2], v>>)
  BY DEF CiPassEarned, Installed
<1> DEFINE os == [i \in DOMAIN order |-> OutcomeOf(order[i], pr, Published)]
           exit == RunCiCheck(order, pr, Published)
           v == VersionOf(c, pr, Published)
<1>1. /\ order \in Seq(altered) /\ Len(order) \in Nat /\ DOMAIN order = 1 .. Len(order)
      /\ \E i \in 1 .. Len(order) : order[i] = c
  BY ChangesFinite, ListsAll
<1>2. PICK i \in 1 .. Len(order) : order[i] = c
  BY <1>1
<1>3. Listing(os) /\ i \in 1 .. Len(os) /\ os[i] = OutcomeOf(c, pr, Published)
  <2>1. DOMAIN os = 1 .. Len(order)
    BY <1>1
  <2>2. os \in Seq({OutcomeOf(order[j], pr, Published) : j \in DOMAIN order})
    <3>1. os \in [1 .. Len(order) -> {OutcomeOf(order[j], pr, Published) : j \in DOMAIN order}]
      BY <1>1
    <3> QED  BY <1>1, <3>1, SeqDef
  <2>3. Len(os) \in Nat /\ DOMAIN os = 1 .. Len(os)
    BY <2>2, LenProperties
  <2> QED  BY <1>1, <1>2, <2>1, <2>3 DEF Listing
<1>4. exit = FoldLeft(ExitAfter, 0, os)
  BY DEF RunCiCheck
<1> HIDE DEF os, exit
<1>5. /\ OutcomeOf(c, pr, Published) # "unresolved"
      /\ OutcomeOf(c, pr, Published) = "error" => exit = 1
  <2>1. exit # 2
    BY DEF exit
  <2> QED  BY <1>3, <1>4, <2>1, ExitTells
<1>6. v \in Installed(c)
  BY VersionInstalled
<1>7. CASE Published.packages[<<c[2], v>>].fails
  <2>1. OutcomeOf(c, pr, Published) = "error"
    BY <1>7 DEF OutcomeOf
  <2> QED  BY <1>5, <1>6, <1>7, <2>1 DEF exit
<1>8. CASE ~Published.packages[<<c[2], v>>].fails
  <2>1. Passable(<<c[2], v>>)
    BY <1>5, <1>8, ResolvedIsPassable
  <2> QED  BY <1>6, <1>8, <2>1
<1> QED  BY <1>7, <1>8

THEOREM CiExitIsEarned == PullSpec => []CiPassEarned
BY ExitIsEarned, PullInvariance, PTL

-----------------------------------------------------------------------------
(***************************************************************************)
(* The recommendations.                                                    *)
(***************************************************************************)

AnyHit == {Hit(n, d) : n \in Nat, d \in Nat}

(* What the search and the AI can have said. *)
RecommendInv ==
  /\ hits \in Seq(AnyHit)
  /\ names \subseteq Nat /\ IsFiniteSet(names)

LEMMA RecommendInvariance == RecommendSpec => []RecommendInv
<1> USE RecommendAssumption DEF RecommendInv
<1>1. RecommendInit => RecommendInv
  BY FS_EmptySet DEF RecommendInit
<1>2. RecommendInv /\ [RecommendNext]_<<hits, names>> => RecommendInv'
  <2> SUFFICES ASSUME RecommendInv, [RecommendNext]_<<hits, names>> PROVE RecommendInv'
    OBVIOUS
  <2>1. ASSUME NEW n \in DOMAIN Registry \cup Suggested, NEW d \in Downloads, Search(n, d) PROVE RecommendInv'
    <3>1. Hit(n, d) \in AnyHit
      BY DEF AnyHit
    <3>2. Append(hits, Hit(n, d)) \in Seq(AnyHit)
      BY <3>1, AppendProperties
    <3> QED  BY <2>1, <3>2 DEF Search
  <2>2. ASSUME NEW n \in Suggested, Suggest(n) PROVE RecommendInv'
    BY <2>2, FS_AddElement DEF Suggest
  <2>3. CASE UNCHANGED <<hits, names>>
    BY <2>3
  <2> QED  BY <2>1, <2>2, <2>3 DEF RecommendNext
<1> QED  BY <1>1, <1>2, PTL DEF RecommendSpec

(* What the command makes of the hits. *)
Taken == SubSeq(hits, 1, Bounded(Len(hits), 0, LimitOf(0)))
TakenNames == {h.name : h \in Range(Taken)}

LEMMA TakenTyped ==
  ASSUME RecommendInv
  PROVE  /\ Taken \in Seq(AnyHit)
         /\ IsFiniteSet(TakenNames) /\ TakenNames \subseteq Nat
<1> DEFINE m == Bounded(Len(hits), 0, LimitOf(0))
<1>1. hits \in Seq(AnyHit) /\ Len(hits) \in Nat
  BY LenProperties DEF RecommendInv
<1>2. LimitOf(0) \in Nat
  BY RecommendAssumption DEF LimitOf, Bounded
<1>3. m \in 0 .. Len(hits)
  BY <1>1, <1>2 DEF Bounded
<1> HIDE DEF m
<1>4. Taken \in Seq(AnyHit)
  BY <1>1, <1>3, SubSeqProperties DEF Taken, m
<1>5. Len(Taken) \in Nat /\ DOMAIN Taken = 1 .. Len(Taken) /\ \A i \in DOMAIN Taken : Taken[i] \in AnyHit
  BY <1>4, LenProperties, ElementOfSeq
<1>6. TakenNames \subseteq Nat
  BY <1>5 DEF TakenNames, Range, AnyHit, Hit
<1>7. IsFiniteSet(TakenNames)
  <2> DEFINE f == [i \in DOMAIN Taken |-> Taken[i].name]
  <2>1. IsFiniteSet(DOMAIN Taken)
    BY <1>5, FS_Interval
  <2>2. f \in Surjection(DOMAIN Taken, TakenNames)
    BY DEF Surjection, TakenNames, Range
  <2> HIDE DEF f
  <2> QED  BY <2>1, <2>2, FS_Surjection
<1> QED  BY <1>4, <1>6, <1>7

(* The candidate of a name, when the AI suggests some. *)
Places(n) == {i \in DOMAIN Taken : Taken[i].name = n}
Candidate(n, suggested) ==
  [name |-> n,
   downloads |-> IF Places(n) = {} THEN 0 ELSE Taken[Max(Places(n))].downloads,
   source |-> IF Places(n) = {} THEN "ai" ELSE IF n \in suggested THEN "both" ELSE "npm-search"]
Candidates(suggested) == {Candidate(n, suggested) : n \in suggested \cup TakenNames}

LEMMA CandidatesAre ==
  ASSUME NEW suggested
  PROVE  MergeCandidates(Taken, suggested) = Candidates(suggested)
BY DEF MergeCandidates, Candidates, Candidate, Places, TakenNames

LEMMA CandidateTyped ==
  ASSUME RecommendInv, NEW n \in Nat, NEW suggested
  PROVE  /\ Candidate(n, suggested).name = n
         /\ Candidate(n, suggested).downloads \in Nat
         /\ Candidate(n, suggested).downloads = Candidate(n, {}).downloads
         /\ n \in TakenNames <=> Places(n) # {}
<1>1. n \in TakenNames <=> Places(n) # {}
  BY DEF TakenNames, Places, Range
<1>2. ASSUME Places(n) # {} PROVE Taken[Max(Places(n))].downloads \in Nat
  <2>1. /\ Taken \in Seq(AnyHit)
        /\ DOMAIN Taken = 1 .. Len(Taken) /\ Len(Taken) \in Nat
    BY TakenTyped, LenProperties
  <2>2. \E x \in Places(n) : \A y \in Places(n) : x >= y
    <3> DEFINE U == {k \in 0 .. Len(Taken) : \A y \in Places(n) : k >= y}
    <3>1. Places(n) \subseteq 1 .. Len(Taken)
      BY <2>1 DEF Places
    <3>2. U \subseteq Nat /\ Len(Taken) \in U
      BY <2>1, <3>1
    <3>3. PICK k \in U : \A j \in U : ~(j < k)
      <4> HIDE DEF U
      <4> QED  BY <3>2, LeastNumber
    <3>4. k \in Places(n)
      <4>1. SUFFICES ASSUME k \notin Places(n) PROVE FALSE
        OBVIOUS
      <4>2. PICK y \in Places(n) : TRUE
        BY <1>2
      <4>3. k >= y /\ y \in 1 .. Len(Taken) /\ k \in 0 .. Len(Taken)
        BY <3>1
      <4>4. k - 1 \in 0 .. Len(Taken)
        BY <2>1, <4>3
      <4>5. \A z \in Places(n) : k - 1 >= z
        BY <2>1, <3>1, <4>1
      <4>6. k - 1 \in U
        BY <4>4, <4>5
      <4>7. ~(k - 1 < k)
        BY <3>3, <4>6
      <4> QED  BY <4>3, <4>7
    <3> QED  BY <3>4
  <2>3. Max(Places(n)) \in Places(n)
    BY <2>2 DEF Max
  <2>4. Max(Places(n)) \in 1 .. Len(Taken)
    BY <2>1, <2>3 DEF Places
  <2>5. Taken[Max(Places(n))] \in AnyHit
    BY <2>1, <2>4, ElementOfSeq
  <2> QED  BY <2>5 DEF AnyHit, Hit
<1> QED  BY <1>1, <1>2 DEF Candidate

(* What becomes of a package does not depend on who else proposed it. *)
LEMMA OutcomeOfHit ==
  ASSUME RecommendInv, NEW n \in TakenNames, NEW suggested
  PROVE  /\ Outcome(Candidate(n, suggested), Registry, FALSE) = Outcome(Candidate(n, {}), Registry, FALSE)
         /\ Candidate(n, suggested).name = n
         /\ Candidate(n, suggested).downloads = Candidate(n, {}).downloads
<1>1. n \in Nat
  BY TakenTyped
<1>2. Places(n) # {}
  BY <1>1, CandidateTyped
<1>3. /\ Candidate(n, suggested).name = n /\ Candidate(n, {}).name = n
      /\ Candidate(n, suggested).source # "ai" /\ Candidate(n, {}).source # "ai"
  BY <1>2 DEF Candidate
<1> QED  BY <1>1, <1>3, CandidateTyped DEF Outcome

Chosen(suggested) == {c \in Candidates(suggested) : Outcome(c, Registry, FALSE) = "recommended"}
BeforePairs(S) == {p \in S \X S : Before(p[1], p[2], Registry)}

LEMMA ChosenOrdered ==
  ASSUME RecommendInv, NEW suggested \in SUBSET Nat, IsFiniteSet(suggested)
  PROVE  /\ IsFiniteSet(Chosen(suggested))
         /\ StrictOrder(BeforePairs(Chosen(suggested)), Chosen(suggested))
<1> DEFINE queried == suggested \cup TakenNames
           C == Candidates(suggested)
           S == Chosen(suggested)
<1>1. queried \subseteq Nat /\ IsFiniteSet(queried)
  <2>1. IsFiniteSet(TakenNames) /\ TakenNames \subseteq Nat
    BY TakenTyped
  <2> QED  BY <2>1, FS_Union
<1>2. IsFiniteSet(C)
  <2> DEFINE f == [n \in queried |-> Candidate(n, suggested)]
  <2>1. f \in Surjection(queried, C)
    BY DEF Surjection, Candidates
  <2> HIDE DEF f, C, queried
  <2> QED  BY <1>1, <2>1, FS_Surjection
<1>3. IsFiniteSet(S)
  BY <1>2, FS_Subset DEF Chosen
<1>4. \A c \in S : /\ c.name \in queried /\ c.downloads \in Nat /\ c = Candidate(c.name, suggested)
                   /\ Registry[c.name].score \in Nat
  <2> TAKE c \in S
  <2>1. PICK n \in queried : c = Candidate(n, suggested)
    BY DEF Chosen, Candidates
  <2>2. c.name = n /\ c.downloads \in Nat
    BY <1>1, <2>1, CandidateTyped
  <2>3. c.name \in DOMAIN Registry
    BY DEF Chosen, Outcome
  <2> QED  BY <2>1, <2>2, <2>3, RecommendAssumption
<1>5. \A c, d \in S : <<c, d>> \in BeforePairs(S) <=> Before(c, d, Registry)
  BY DEF BeforePairs
<1> HIDE DEF S
<1>6. \A x \in S : ~Before(x, x, Registry)
  <2> TAKE x \in S
  <2>1. x.name \in Nat /\ x.downloads \in Nat /\ Registry[x.name].score \in Nat
    BY <1>1, <1>4
  <2> QED  BY <2>1 DEF Before
<1>7. \A x, y, z \in S : Before(x, y, Registry) /\ Before(y, z, Registry) => Before(x, z, Registry)
  <2> TAKE x, y, z \in S
  <2>1. /\ x.name \in Nat /\ x.downloads \in Nat /\ Registry[x.name].score \in Nat
        /\ y.name \in Nat /\ y.downloads \in Nat /\ Registry[y.name].score \in Nat
        /\ z.name \in Nat /\ z.downloads \in Nat /\ Registry[z.name].score \in Nat
    BY <1>1, <1>4
  <2> QED  BY <2>1 DEF Before
<1>8. \A x, y \in S : Before(x, y, Registry) \/ Before(y, x, Registry) \/ x = y
  <2> TAKE x, y \in S
  <2>1. /\ x.name \in Nat /\ x.downloads \in Nat /\ Registry[x.name].score \in Nat
        /\ y.name \in Nat /\ y.downloads \in Nat /\ Registry[y.name].score \in Nat
        /\ (x.name = y.name => x = y)
    BY <1>1, <1>4
  <2> QED  BY <2>1 DEF Before
<1> QED  BY <1>3, <1>5, <1>6, <1>7, <1>8 DEF StrictOrder, S

(* The report lists whom it chose, and in that order. *)
LEMMA ReportIs ==
  ASSUME RecommendInv, NEW suggested \in SUBSET Nat, IsFiniteSet(suggested), NEW among,
         NEW report, report = Recommended(suggested)
  PROVE  /\ report.analyzed = Candidates(suggested)
         /\ report.rejected = {<<c.name, Outcome(c, Registry, FALSE)>> :
                                 c \in Candidates(suggested) \ Chosen(suggested)}
         /\ Order(report, among) =
              {x \in among \X among : \E c, d \in Chosen(suggested) :
                 (c = d \/ Before(c, d, Registry)) /\ x = <<c.name, d.name>>}
<1> DEFINE S == Chosen(suggested)
           P(s) == \A i \in DOMAIN s : \A j \in 1 .. i - 1 : Before(s[j], s[i], Registry)
           r == report.recommendations
<1>1. /\ report.analyzed = Candidates(suggested)
      /\ report.rejected = {<<c.name, Outcome(c, Registry, FALSE)>> : c \in Candidates(suggested) \ S}
      /\ r = RankRecommendations(S, Registry)
  BY CandidatesAre DEF Recommended, RecommendPackages, SearchFound, GatherAiSuggestions, Taken, Chosen
<1>2. IsFiniteSet(S) /\ StrictOrder(BeforePairs(S), S)
  BY ChosenOrdered
<1> HIDE DEF S
<1>3. PICK s \in SetToSeqs(S) : Sorted(BeforePairs(S), s)
  BY <1>2, SortedExists
<1>4. P(s)
  BY <1>3 DEF Sorted, BeforePairs
<1>5. r \in SetToSeqs(S) /\ P(r)
  <2>1. r = CHOOSE t \in SetToSeqs(S) : P(t)
    BY <1>1 DEF RankRecommendations
  <2> HIDE DEF P, r
  <2> QED  BY <1>3, <1>4, <2>1
<1> HIDE DEF r
<1>6. /\ r \in Seq(S) /\ Len(r) \in Nat /\ DOMAIN r = 1 .. Len(r)
      /\ \A c \in S : \E i \in DOMAIN r : r[i] = c
      /\ \A i \in DOMAIN r : r[i] \in S
  <2>1. /\ r \in Seq(S) /\ Len(r) \in Nat /\ DOMAIN r = 1 .. Len(r)
        /\ \A c \in S : \E i \in 1 .. Len(r) : r[i] = c
    BY <1>2, <1>5, ListsAll
  <2>2. \A i \in 1 .. Len(r) : r[i] \in S
    BY <2>1, ElementOfSeq
  <2> QED  BY <2>1, <2>2
<1>7. \A c, d \in S : ~(Before(c, d, Registry) /\ (c = d \/ Before(d, c, Registry)))
  <2> TAKE c, d \in S
  <2>1. \A x, y \in S : <<x, y>> \in BeforePairs(S) <=> Before(x, y, Registry)
    BY DEF BeforePairs
  <2> QED  BY <1>2, <2>1 DEF StrictOrder
<1>8. ASSUME NEW i \in DOMAIN r, NEW j \in DOMAIN r
      PROVE  i <= j => r[i] = r[j] \/ Before(r[i], r[j], Registry)
  <2>1. i \in Nat /\ j \in Nat /\ i >= 1
    BY <1>6
  <2>2. CASE i < j
    <3>1. i \in 1 .. j - 1
      BY <2>1, <2>2
    <3> QED  BY <1>5, <3>1
  <2> QED  BY <2>1, <2>2
<1>9. ASSUME NEW c \in S, NEW d \in S, c = d \/ Before(c, d, Registry)
      PROVE  \E i, j \in DOMAIN r : i <= j /\ r[i] = c /\ r[j] = d
  <2>1. PICK i \in DOMAIN r : r[i] = c
    BY <1>6
  <2>2. PICK j \in DOMAIN r : r[j] = d
    BY <1>6
  <2>3. i \in Nat /\ j \in Nat /\ j >= 1
    BY <1>6
  <2>4. CASE c = d
    BY <2>1, <2>3, <2>4
  <2>5. CASE Before(c, d, Registry)
    <3>1. CASE j < i
      <4>1. j \in 1 .. i - 1
        BY <2>3, <3>1
      <4>2. Before(d, c, Registry)
        BY <1>5, <2>1, <2>2, <4>1
      <4> QED  BY <1>7, <2>5, <4>2
    <3>2. CASE i <= j
      BY <2>1, <2>2, <3>2
    <3> QED  BY <2>3, <3>1, <3>2
  <2> QED  BY <1>9, <2>4, <2>5
<1>10. Order(report, among) = {x \in among \X among : \E c, d \in S :
                                 (c = d \/ Before(c, d, Registry)) /\ x = <<c.name, d.name>>}
  <2>1. Order(report, among) = {x \in among \X among : \E i, j \in DOMAIN r : i <= j /\ x = <<r[i].name, r[j].name>>}
    BY DEF Order, r
  <2>2. ASSUME NEW x PROVE (\E i, j \in DOMAIN r : i <= j /\ x = <<r[i].name, r[j].name>>)
                             => \E c, d \in S : (c = d \/ Before(c, d, Registry)) /\ x = <<c.name, d.name>>
    BY <1>6, <1>8
  <2>3. ASSUME NEW x PROVE (\E c, d \in S : (c = d \/ Before(c, d, Registry)) /\ x = <<c.name, d.name>>)
                             => \E i, j \in DOMAIN r : i <= j /\ x = <<r[i].name, r[j].name>>
    BY <1>9
  <2> QED  BY <2>1, <2>2, <2>3
<1> QED  BY <1>1, <1>10 DEF S

(* With the suggestions of the AI or without, a hit fares the same. *)
LEMMA AiAddsOnly ==
  ASSUME RecommendInv
  PROVE  AiOnlyAdds
<1> DEFINE without == Recommended({})
           with == Recommended(names)
           found == {c.name : c \in without.analyzed}
           Ordered(s) == {x \in TakenNames \X TakenNames : \E c, d \in Chosen(s) :
                            (c = d \/ Before(c, d, Registry)) /\ x = <<c.name, d.name>>}
<1>1. names \in SUBSET Nat /\ IsFiniteSet(names) /\ {} \in SUBSET Nat /\ IsFiniteSet({})
  BY FS_EmptySet DEF RecommendInv
<1>2. without.analyzed = Candidates({}) /\ with.analyzed = Candidates(names)
  BY <1>1, ReportIs
<1>3. ASSUME NEW s \in SUBSET Nat
      PROVE  {c.name : c \in Candidates(s)} = s \cup TakenNames
  <2>1. \A n \in s \cup TakenNames : Candidate(n, s).name = n
    BY DEF Candidate
  <2> QED  BY <2>1 DEF Candidates
<1>4. found = TakenNames /\ {c.name : c \in with.analyzed} = names \cup TakenNames
  <2> HIDE DEF without, with
  <2>1. {c.name : c \in Candidates({})} = {} \cup TakenNames
    BY <1>1, <1>3
  <2>2. {c.name : c \in Candidates(names)} = names \cup TakenNames
    BY <1>1, <1>3
  <2> QED  BY <1>2, <2>1, <2>2
<1>5. Order(without, TakenNames) = Ordered({}) /\ Order(with, TakenNames) = Ordered(names)
  BY <1>1, ReportIs
<1>6. ASSUME NEW s, NEW t, NEW n \in TakenNames
      PROVE  /\ Candidate(n, s) \in Candidates(s) /\ Candidate(n, s).name = n
             /\ Outcome(Candidate(n, s), Registry, FALSE) = Outcome(Candidate(n, t), Registry, FALSE)
             /\ Candidate(n, s).downloads = Candidate(n, t).downloads
  BY OutcomeOfHit DEF Candidates
<1>7. ASSUME NEW s, NEW c \in Candidates(s), c.name \in TakenNames
      PROVE  c = Candidate(c.name, s)
  BY DEF Candidates, Candidate
<1>8. ASSUME NEW s, NEW t
      PROVE  Ordered(s) \subseteq Ordered(t)
  <2> SUFFICES ASSUME NEW x \in Ordered(s) PROVE x \in Ordered(t)
    OBVIOUS
  <2>1. PICK c, d \in Chosen(s) : (c = d \/ Before(c, d, Registry)) /\ x = <<c.name, d.name>>
    OBVIOUS
  <2>2. x \in TakenNames \X TakenNames /\ c.name \in TakenNames /\ d.name \in TakenNames
    BY <2>1
  <2> DEFINE c1 == Candidate(c.name, t)
             d1 == Candidate(d.name, t)
  <2>3. ASSUME NEW e \in Chosen(s), e.name \in TakenNames
        PROVE  /\ Candidate(e.name, t) \in Chosen(t) /\ Candidate(e.name, t).name = e.name
               /\ Candidate(e.name, t).downloads = e.downloads
    <3>1. e = Candidate(e.name, s)
      BY <1>7, <2>3 DEF Chosen
    <3>2. /\ Candidate(e.name, t) \in Candidates(t) /\ Candidate(e.name, t).name = e.name
          /\ Outcome(Candidate(e.name, t), Registry, FALSE) = Outcome(Candidate(e.name, s), Registry, FALSE)
          /\ Candidate(e.name, t).downloads = Candidate(e.name, s).downloads
      BY <1>6, <2>3
    <3>3. Outcome(e, Registry, FALSE) = "recommended"
      BY DEF Chosen
    <3> QED  BY <3>1, <3>2, <3>3 DEF Chosen
  <2>4. /\ c1 \in Chosen(t) /\ c1.name = c.name /\ c1.downloads = c.downloads
        /\ d1 \in Chosen(t) /\ d1.name = d.name /\ d1.downloads = d.downloads
    BY <2>2, <2>3
  <2>5. c = d => c1 = d1
    OBVIOUS
  <2>6. Before(c, d, Registry) => Before(c1, d1, Registry)
    <3> HIDE DEF c1, d1
    <3> QED  BY <2>4 DEF Before
  <2> HIDE DEF c1, d1
  <2> QED  BY <2>1, <2>2, <2>4, <2>5, <2>6
<1>9. Order(with, found) = Order(without, found)
  <2>1. Ordered({}) = Ordered(names)
    BY <1>8
  <2> HIDE DEF Ordered, with, without
  <2> QED  BY <1>4, <1>5, <2>1
<1> DEFINE Turned(s) == {<<c.name, Outcome(c, Registry, FALSE)>> : c \in Candidates(s) \ Chosen(s)}
<1>10. without.rejected = Turned({}) /\ with.rejected = Turned(names)
  BY <1>1, ReportIs
<1>11. {r \in Turned(names) : r[1] \in TakenNames} = Turned({})
  <2>1. ASSUME NEW r \in Turned(names), r[1] \in TakenNames PROVE r \in Turned({})
    <3>1. PICK c \in Candidates(names) \ Chosen(names) : r = <<c.name, Outcome(c, Registry, FALSE)>>
      OBVIOUS
    <3>2. c = Candidate(c.name, names) /\ c.name \in TakenNames
      BY <1>7, <2>1, <3>1
    <3> DEFINE c1 == Candidate(c.name, {})
    <3>3. /\ c1 \in Candidates({}) /\ c1.name = c.name
          /\ Outcome(c1, Registry, FALSE) = Outcome(c, Registry, FALSE)
      BY <1>6, <3>2
    <3>4. c1 \notin Chosen({})
      BY <3>1, <3>3 DEF Chosen
    <3> HIDE DEF c1
    <3> QED  BY <3>1, <3>3, <3>4
  <2>2. ASSUME NEW r \in Turned({}) PROVE r \in Turned(names) /\ r[1] \in TakenNames
    <3>1. PICK c \in Candidates({}) \ Chosen({}) : r = <<c.name, Outcome(c, Registry, FALSE)>>
      OBVIOUS
    <3>2. c.name \in TakenNames
      BY <3>1 DEF Candidates, Candidate
    <3>3. c = Candidate(c.name, {})
      BY <1>7, <3>1, <3>2
    <3> DEFINE c1 == Candidate(c.name, names)
    <3>4. /\ c1 \in Candidates(names) /\ c1.name = c.name
          /\ Outcome(c1, Registry, FALSE) = Outcome(c, Registry, FALSE)
      BY <1>6, <3>2, <3>3
    <3>5. c1 \notin Chosen(names)
      BY <3>1, <3>4 DEF Chosen
    <3> HIDE DEF c1
    <3> QED  BY <3>1, <3>2, <3>4, <3>5
  <2> QED  BY <2>1, <2>2
<1> HIDE DEF with, without, found, Turned
<1>12. {c.name : c \in with.analyzed} = found \cup names
  BY <1>4
<1>13. {r \in with.rejected : r[1] \in found} = without.rejected
  BY <1>4, <1>10, <1>11
<1> QED  BY <1>9, <1>12, <1>13 DEF AiOnlyAdds, with, without, found

(* AiOnlyAdds, for every registry, every run of hits and every suggestion: the
   AI adds candidates and takes nothing from what the search found.          *)
THEOREM AiAddsCandidatesOnly == RecommendSpec => []AiOnlyAdds
BY RecommendInvariance, AiAddsOnly, PTL

-----------------------------------------------------------------------------
(***************************************************************************)
(* The filtered graph.  A closure is what the last round of a recursive    *)
(* function finds: such a function exists, finds nothing that the closed   *)
(* sets around its start miss, and has no more to find in the end, since   *)
(* each round before adds a node.                                          *)
(***************************************************************************)

Rounds(f, step, found, n) ==
  f = [i \in 0 .. n |-> IF i = 0 THEN found ELSE f[i - 1] \cup UNION {step[id] : id \in f[i - 1]}]

LEMMA RoundsExist ==
  ASSUME NEW step, NEW found, NEW n \in Nat
  PROVE  \E f : Rounds(f, step, found, n)
<1> DEFINE B == {m \in Nat : ~\E f : Rounds(f, step, found, m)}
<1>1. SUFFICES ASSUME B # {} PROVE FALSE
  OBVIOUS
<1>2. PICK m \in B : \A j \in B : ~(j < m)
  <2> HIDE DEF B
  <2>1. B \subseteq Nat
    BY DEF B
  <2> QED  BY <1>1, <2>1, LeastNumber
<1>3. CASE m = 0
  <2> DEFINE f == [i \in 0 .. 0 |-> found]
  <2>1. \A i \in 0 .. 0 : i = 0
    OBVIOUS
  <2>2. Rounds(f, step, found, 0)
    BY <2>1 DEF Rounds
  <2> QED  BY <1>3, <2>2
<1>4. CASE m # 0
  <2>1. m - 1 \in Nat /\ m - 1 < m
    BY <1>4
  <2>2. PICK f : Rounds(f, step, found, m - 1)
    BY <1>2, <2>1
  <2> DEFINE g == [i \in 0 .. m |-> IF i = m THEN f[m - 1] \cup UNION {step[id] : id \in f[m - 1]} ELSE f[i]]
             h == [i \in 0 .. m |-> IF i = 0 THEN found ELSE g[i - 1] \cup UNION {step[id] : id \in g[i - 1]}]
  <2>3. ASSUME NEW i \in 0 .. m PROVE g[i] = h[i]
    <3>1. CASE i = m
      <4>1. g[i - 1] = f[m - 1]
        BY <2>1, <3>1
      <4> QED  BY <1>4, <3>1, <4>1
    <3>2. CASE i # m
      <4>1. i \in 0 .. m - 1 /\ g[i] = f[i]
        BY <3>2
      <4>2. i # 0 => i - 1 \in 0 .. m - 1 /\ i - 1 # m /\ i - 1 \in 0 .. m
        BY <4>1
      <4>3. i # 0 => g[i - 1] = f[i - 1]
        BY <4>2
      <4>4. f[i] = IF i = 0 THEN found ELSE f[i - 1] \cup UNION {step[id] : id \in f[i - 1]}
        BY <2>2, <4>1 DEF Rounds
      <4> QED  BY <4>1, <4>3, <4>4
    <3> QED  BY <3>1, <3>2
  <2>4. g = h
    BY <2>3
  <2>5. Rounds(g, step, found, m)
    <3> HIDE DEF g
    <3> QED  BY <2>4 DEF Rounds
  <2> QED  BY <2>5
<1> QED  BY <1>3, <1>4

LEMMA ClosureIs ==
  ASSUME NEW D, IsFiniteSet(D), NEW step \in [D -> SUBSET D], NEW found \in SUBSET D
  PROVE  /\ found \subseteq Closure(step, found)
         /\ Closure(step, found) \subseteq D
         /\ \A id \in Closure(step, found) : step[id] \subseteq Closure(step, found)
         /\ \A S : found \subseteq S /\ (\A id \in S \cap D : step[id] \subseteq S)
                   => Closure(step, found) \subseteq S
<1> DEFINE n == Cardinality(D)
           r == CHOOSE f : Rounds(f, step, found, n)
           Closed(S) == \A id \in S : step[id] \subseteq S
<1>1. n \in Nat
  BY FS_CardinalityType
<1>2. Closure(step, found) = r[n]
  <2>1. DOMAIN step = D
    OBVIOUS
  <2> QED  BY <2>1, Zenon DEF Closure, Rounds
<1>3. Rounds(r, step, found, n)
  <2> HIDE DEF n
  <2> QED  BY <1>1, RoundsExist
<1> HIDE DEF r, n
<1>4. r[0] = found
  BY <1>1, <1>3 DEF Rounds
<1>5. ASSUME NEW i \in Nat, i < n
      PROVE  r[i + 1] = r[i] \cup UNION {step[id] : id \in r[i]}
  <2>1. i + 1 \in 0 .. n /\ i + 1 # 0 /\ i + 1 - 1 = i
    BY <1>1, <1>5
  <2>2. ASSUME NEW j \in 0 .. n, j # 0 PROVE r[j] = r[j - 1] \cup UNION {step[id] : id \in r[j - 1]}
    <3>1. r[j] = IF j = 0 THEN found ELSE r[j - 1] \cup UNION {step[id] : id \in r[j - 1]}
      BY <1>3, Zenon DEF Rounds
    <3> QED  BY <2>2, <3>1
  <2>3. r[i + 1] = r[i + 1 - 1] \cup UNION {step[id] : id \in r[i + 1 - 1]}
    BY <2>1, <2>2
  <2> QED  BY <2>1, <2>3
\* A property of the start that each round keeps is one of the end.
<1> DEFINE Kept(P) == 0 \in P /\ \A i \in Nat : i < n /\ i \in P => i + 1 \in P
<1>6. ASSUME NEW P, Kept(P) PROVE \A i \in 0 .. n : i \in P
  <2> DEFINE B == {i \in 0 .. n : i \notin P}
  <2>1. SUFFICES ASSUME B # {} PROVE FALSE
    OBVIOUS
  <2>2. PICK i \in B : \A j \in B : ~(j < i)
    <3> HIDE DEF B
    <3>1. B \subseteq Nat
      BY <1>1 DEF B
    <3> QED  BY <2>1, <3>1, LeastNumber
  <2>3. i \in Nat /\ i <= n /\ i # 0
    BY <1>1, <1>6
  <2>4. i - 1 \in Nat /\ i - 1 < n /\ i - 1 + 1 = i /\ i - 1 \in 0 .. n /\ i - 1 < i
    BY <1>1, <2>3
  <2>5. i - 1 \in P
    BY <2>2, <2>4
  <2> QED  BY <1>6, <2>2, <2>4, <2>5
<1> HIDE DEF Kept
<1>7. \A i \in 0 .. n : r[i] \subseteq D
  <2> DEFINE P == {i \in Nat : r[i] \subseteq D}
  <2>1. Kept(P)
    BY <1>4, <1>5 DEF Kept
  <2> QED  BY <1>6, <2>1
<1>8. \A i \in 0 .. n : found \subseteq r[i]
  <2> DEFINE P == {i \in Nat : found \subseteq r[i]}
  <2>1. Kept(P)
    BY <1>4, <1>5 DEF Kept
  <2> QED  BY <1>6, <2>1
<1>9. ASSUME NEW S, found \subseteq S, \A id \in S \cap D : step[id] \subseteq S
      PROVE  \A i \in 0 .. n : r[i] \subseteq S
  <2> DEFINE P == {i \in Nat : r[i] \subseteq S}
  <2>1. Kept(P)
    <3>1. 0 \in P
      BY <1>4, <1>9
    <3>2. ASSUME NEW i \in Nat, i < n, i \in P PROVE i + 1 \in P
      <4>1. r[i] \subseteq S /\ r[i] \subseteq D
        BY <1>1, <1>7, <3>2
      <4> QED  BY <1>5, <1>9, <3>2, <4>1
    <3> QED  BY <3>1, <3>2 DEF Kept
  <2> QED  BY <1>6, <2>1
<1>10. \A i \in 0 .. n : Closed(r[i]) \/ Cardinality(r[i]) >= i
  <2> DEFINE P == {i \in 0 .. n : Closed(r[i]) \/ Cardinality(r[i]) >= i}
  <2>1. 0 \in P
    <3>1. Cardinality(r[0]) \in Nat
      BY <1>4, FS_Subset, FS_CardinalityType
    <3> QED  BY <1>1, <3>1
  <2>2. ASSUME NEW i \in Nat, i < n, i \in P PROVE i + 1 \in P
    <3>1. i + 1 \in 0 .. n /\ r[i + 1] = r[i] \cup UNION {step[id] : id \in r[i]}
      BY <1>1, <1>5, <2>2
    <3>2. CASE Closed(r[i])
      <4>1. r[i + 1] = r[i]
        BY <3>1, <3>2
      <4> QED  BY <3>1, <3>2, <4>1
    <3>3. CASE ~Closed(r[i])
      <4>1. r[i] \subseteq r[i + 1] /\ r[i] # r[i + 1]
        BY <3>1, <3>3
      <4>2. IsFiniteSet(r[i + 1]) /\ IsFiniteSet(r[i])
        BY <1>1, <1>7, <2>2, <3>1, FS_Subset
      <4>3. /\ Cardinality(r[i]) \in Nat /\ Cardinality(r[i + 1]) \in Nat
            /\ Cardinality(r[i]) <= Cardinality(r[i + 1]) /\ Cardinality(r[i]) # Cardinality(r[i + 1])
        BY <4>1, <4>2, FS_Subset, FS_CardinalityType
      <4>4. Cardinality(r[i]) >= i
        BY <2>2, <3>3
      <4>5. Cardinality(r[i + 1]) >= i + 1
        BY <4>3, <4>4
      <4> QED  BY <3>1, <4>5
    <3> QED  BY <3>2, <3>3
  <2>3. Kept(P)
    <3> HIDE DEF P
    <3> QED  BY <2>1, <2>2 DEF Kept
  <2> QED  BY <1>6, <2>3
<1>11. Closed(r[n])
  <2>1. n \in 0 .. n
    BY <1>1
  <2>2. CASE Cardinality(r[n]) >= n
    <3>1. /\ r[n] \subseteq D /\ IsFiniteSet(r[n]) /\ Cardinality(r[n]) <= n
          /\ (Cardinality(r[n]) = n => r[n] = D)
      BY <1>7, <2>1, FS_Subset DEF n
    <3>2. Cardinality(r[n]) \in Nat
      BY <3>1, FS_CardinalityType
    <3>3. r[n] = D
      BY <1>1, <2>2, <3>1, <3>2
    <3> QED  BY <3>3
  <2> QED  BY <1>10, <2>1, <2>2
<1>12. n \in 0 .. n
  BY <1>1
<1> QED  BY <1>2, <1>7, <1>8, <1>9, <1>11, <1>12

-----------------------------------------------------------------------------
(* A graph whose edges lead between its nodes. *)
IsGraph(g) ==
  /\ g = [roots |-> g.roots, nodes |-> g.nodes, edges |-> g.edges]
  /\ IsFiniteSet(Ids(g))
  /\ \A e \in g.edges : e[1] \in Ids(g) /\ e[2] \in Ids(g)

(* What is reachable follows the edges, and only them. *)
LEMMA ReachableIs ==
  ASSUME NEW g, IsGraph(g), NEW start
  PROVE  /\ Children(g, start) \subseteq ReachableFrom(g, start)
         /\ ReachableFrom(g, start) \subseteq Ids(g)
         /\ \A id \in ReachableFrom(g, start) : Children(g, id) \subseteq ReachableFrom(g, start)
         /\ \A S : Children(g, start) \subseteq S /\ (\A id \in S \cap Ids(g) : Children(g, id) \subseteq S)
                   => ReachableFrom(g, start) \subseteq S
<1> DEFINE D == Ids(g)
           step == [id \in D |-> Children(g, id)]
<1>1. \A id : Children(g, id) \subseteq D
  BY DEF IsGraph, Children
<1>2. IsFiniteSet(D) /\ step \in [D -> SUBSET D] /\ Children(g, start) \in SUBSET D
  BY <1>1 DEF IsGraph
<1>3. ReachableFrom(g, start) = Closure(step, Children(g, start))
  BY DEF ReachableFrom
<1>4. \A id \in D : step[id] = Children(g, id)
  OBVIOUS
<1> HIDE DEF D, step
<1>5. /\ Children(g, start) \subseteq Closure(step, Children(g, start))
      /\ Closure(step, Children(g, start)) \subseteq D
      /\ \A id \in Closure(step, Children(g, start)) : step[id] \subseteq Closure(step, Children(g, start))
      /\ \A S : Children(g, start) \subseteq S /\ (\A id \in S \cap D : step[id] \subseteq S)
                => Closure(step, Children(g, start)) \subseteq S
  BY <1>2, ClosureIs
<1> QED  BY <1>3, <1>4, <1>5 DEF D

UpFrom(g, matching) == Closure([id \in Ids(g) |-> ParentsOf(g, id) \ g.roots], matching)

UpFromClosed(g, matching) ==
  LET K == UpFrom(g, matching)
  IN /\ matching \subseteq K /\ K \subseteq Ids(g)
     /\ \A id \in K : ParentsOf(g, id) \ g.roots \subseteq K
     /\ \A S : matching \subseteq S /\ (\A id \in S \cap Ids(g) : ParentsOf(g, id) \ g.roots \subseteq S)
               => K \subseteq S

LEMMA UpFromIs ==
  ASSUME NEW g, IsGraph(g), NEW matching \in SUBSET Ids(g)
  PROVE  UpFromClosed(g, matching)
<1> DEFINE D == Ids(g)
           step == [id \in D |-> ParentsOf(g, id) \ g.roots]
<1>1. \A id : ParentsOf(g, id) \subseteq D
  BY DEF IsGraph, ParentsOf
<1>2. IsFiniteSet(D) /\ step \in [D -> SUBSET D]
  BY <1>1 DEF IsGraph
<1>3. UpFrom(g, matching) = Closure(step, matching)
  BY DEF UpFrom
<1>4. \A id \in D : step[id] = ParentsOf(g, id) \ g.roots
  OBVIOUS
<1> HIDE DEF D, step
<1>5. /\ matching \subseteq Closure(step, matching)
      /\ Closure(step, matching) \subseteq D
      /\ \A id \in Closure(step, matching) : step[id] \subseteq Closure(step, matching)
      /\ \A S : matching \subseteq S /\ (\A id \in S \cap D : step[id] \subseteq S)
                => Closure(step, matching) \subseteq S
  BY <1>2, ClosureIs DEF D
<1> QED  BY <1>3, <1>4, <1>5 DEF D, UpFromClosed

(* What a filter leaves, in any graph. *)
LEMMA FilterLeaves ==
  ASSUME NEW g, IsGraph(g), NEW filter,
         NEW left, left = FilterGraph(g, {filter}),
         NEW matching, matching = Matching(g, {filter})
  PROVE  /\ matching \subseteq Ids(left)
         /\ Ids(left) \cap FromRoots(g) \subseteq FromRoots(left)
         /\ \A id \in Ids(left) \ g.roots : id \in matching \/ ReachableFrom(left, id) \cap matching # {}
<1> DEFINE K == UpFrom(g, matching)
           kept == g.roots \cup K
<1>1. matching \in SUBSET Ids(g)
  BY DEF Matching, Ids
<1>2. UpFromClosed(g, matching)
  BY <1>1, UpFromIs
<1>3. /\ matching \subseteq K /\ K \subseteq Ids(g)
      /\ \A id \in K : ParentsOf(g, id) \ g.roots \subseteq K
      /\ \A S : matching \subseteq S /\ (\A id \in S \cap Ids(g) : ParentsOf(g, id) \ g.roots \subseteq S)
                => K \subseteq S
  BY <1>2 DEF UpFromClosed
<1>4. /\ left = [roots |-> left.roots, nodes |-> left.nodes, edges |-> left.edges]
      /\ left.roots = g.roots /\ left.nodes = {n \in g.nodes : n.id \in kept}
      /\ left.edges = {e \in g.edges : e[1] \in kept /\ e[2] \in kept}
  <2>1. left = [g EXCEPT !.nodes = {n \in g.nodes : n.id \in kept},
                         !.edges = {e \in g.edges : e[1] \in kept /\ e[2] \in kept}]
    BY DEF FilterGraph, Keep, UpFrom
  <2> HIDE DEF kept
  <2>2. left = [roots |-> g.roots, nodes |-> {n \in g.nodes : n.id \in kept},
                edges |-> {e \in g.edges : e[1] \in kept /\ e[2] \in kept}]
    BY <2>1 DEF IsGraph
  <2> DEFINE ns == {n \in g.nodes : n.id \in kept}
             es == {e \in g.edges : e[1] \in kept /\ e[2] \in kept}
  <2>3. left = [roots |-> g.roots, nodes |-> ns, edges |-> es]
    BY <2>2
  <2> HIDE DEF ns, es
  <2>4. /\ left = [roots |-> left.roots, nodes |-> left.nodes, edges |-> left.edges]
        /\ left.roots = g.roots /\ left.nodes = ns /\ left.edges = es
    BY <2>3
  <2> QED  BY <2>4 DEF ns, es
<1> HIDE DEF K
<1>5. left.roots = g.roots /\ Ids(left) = Ids(g) \cap kept
  <2>1. left.roots = g.roots /\ left.nodes = {n \in g.nodes : n.id \in kept}
    BY <1>4
  <2> HIDE DEF kept
  <2> QED  BY <2>1 DEF Ids
<1>6. ASSUME NEW p, NEW x
      PROVE  x \in Children(left, p) <=> x \in Children(g, p) /\ p \in kept /\ x \in kept
  <2>1. left.edges = {e \in g.edges : e[1] \in kept /\ e[2] \in kept}
    BY <1>4
  <2> HIDE DEF kept
  <2> QED  BY <2>1 DEF Children
<1>7. IsGraph(left)
  <2>1. IsFiniteSet(Ids(left))
    BY <1>5, FS_Subset DEF IsGraph
  <2>2. \A e \in left.edges : e[1] \in Ids(left) /\ e[2] \in Ids(left)
    <3>1. left.edges = {e \in g.edges : e[1] \in kept /\ e[2] \in kept}
      BY <1>4
    <3> HIDE DEF kept
    <3> QED  BY <1>5, <3>1 DEF IsGraph
  <2> QED  BY <1>4, <2>1, <2>2 DEF IsGraph
<1>8. ASSUME NEW p, NEW x \in K, x \in Children(g, p)
      PROVE  p \in kept
  <2>1. p \in ParentsOf(g, x)
    BY <1>8 DEF Children, ParentsOf
  <2> QED  BY <1>3, <2>1
<1>9. matching \subseteq Ids(left)
  BY <1>1, <1>3, <1>5
\* What a root reaches in the graph and is kept, it reaches in what is left.
<1>10. Ids(left) \cap FromRoots(g) \subseteq FromRoots(left)
  <2> DEFINE T == {x \in Ids(g) : x \in kept => x \in FromRoots(left)}
  <2>1. g.roots \subseteq FromRoots(left)
    BY <1>5 DEF FromRoots
  <2>2. ASSUME NEW p \in FromRoots(left), p \in kept, NEW x \in Children(g, p), x \in kept
        PROVE  x \in FromRoots(left)
    <3>1. x \in Children(left, p)
      BY <1>6, <2>2
    <3>2. CASE p \in g.roots
      <4>1. x \in ReachableFrom(left, p)
        BY <1>7, <3>1, ReachableIs
      <4> QED  BY <1>5, <3>2, <4>1 DEF FromRoots
    <3>3. CASE p \notin g.roots
      <4>1. PICK r \in left.roots : p \in ReachableFrom(left, r)
        BY <1>5, <3>3 DEF FromRoots
      <4>2. x \in ReachableFrom(left, r)
        BY <1>7, <3>1, <4>1, ReachableIs
      <4> QED  BY <4>1, <4>2 DEF FromRoots
    <3> QED  BY <3>2, <3>3
  <2>3. ASSUME NEW r \in g.roots PROVE ReachableFrom(g, r) \subseteq T
    <3>1. Children(g, r) \subseteq T
      <4> SUFFICES ASSUME NEW x \in Children(g, r) PROVE x \in T
        OBVIOUS
      <4>1. x \in Ids(g)
        BY DEF Children, IsGraph
      <4>2. r \in kept /\ r \in FromRoots(left)
        BY <2>1, <2>3
      <4> QED  BY <2>2, <4>1, <4>2
    <3>2. ASSUME NEW p \in T, NEW x \in Children(g, p) PROVE x \in T
      <4>1. x \in Ids(g)
        BY DEF Children, IsGraph
      <4>2. CASE x \in g.roots
        BY <2>1, <4>1, <4>2
      <4>3. CASE x \in K
        <5>1. p \in kept
          BY <1>8, <4>3
        <5>2. p \in FromRoots(left)
          BY <5>1
        <5> QED  BY <2>2, <4>1, <5>1, <5>2
      <4>4. CASE x \notin kept
        BY <4>1, <4>4
      <4> QED  BY <4>2, <4>3, <4>4
    <3> HIDE DEF T
    <3>3. \A id \in T \cap Ids(g) : Children(g, id) \subseteq T
      BY <3>2
    <3> QED  BY <3>1, <3>3, ReachableIs
  <2>4. ASSUME NEW x \in Ids(left), x \in FromRoots(g) PROVE x \in FromRoots(left)
    <3>1. x \in kept
      BY <1>5
    <3>2. CASE x \in g.roots
      BY <2>1, <3>2
    <3>3. CASE x \notin g.roots
      <4>1. PICK r \in g.roots : x \in ReachableFrom(g, r)
        BY <2>4, <3>3 DEF FromRoots
      <4>2. x \in T
        BY <2>3, <4>1
      <4> QED  BY <3>1, <4>2
    <3> QED  BY <3>2, <3>3
  <2> QED  BY <2>4
\* The packages that lead to a match are closed under the walk up.
<1>11. \A id \in Ids(left) \ g.roots : id \in matching \/ ReachableFrom(left, id) \cap matching # {}
  <2> DEFINE S == {x \in K : x \in matching \/ ReachableFrom(left, x) \cap matching # {}}
  <2>1. ASSUME NEW x \in S, NEW p \in ParentsOf(g, x) \ g.roots PROVE p \in S
    <3>1. x \in Children(g, p) /\ p \in K
      BY <1>3 DEF Children, ParentsOf
    <3>2. x \in Children(left, p)
      BY <1>6, <3>1
    <3>3. x \in ReachableFrom(left, p)
      BY <1>7, <3>2, ReachableIs
    <3>4. ReachableFrom(left, x) \subseteq ReachableFrom(left, p)
      <4> DEFINE R == ReachableFrom(left, p)
      <4>1. \A id \in R : Children(left, id) \subseteq R
        BY <1>7, ReachableIs
      <4>2. Children(left, x) \subseteq R
        BY <3>3, <4>1
      <4> HIDE DEF R
      <4>3. ReachableFrom(left, x) \subseteq R
        BY <1>7, <4>1, <4>2, ReachableIs
      <4> QED  BY <4>3 DEF R
    <3> QED  BY <3>1, <3>3, <3>4
  <2>2. matching \subseteq S
    BY <1>3
  <2>3. K \subseteq S
    <3> HIDE DEF S
    <3>1. \A id \in S \cap Ids(g) : ParentsOf(g, id) \ g.roots \subseteq S
      BY <2>1
    <3> QED  BY <1>3, <2>2, <3>1
  <2> QED  BY <1>5, <2>3
<1> QED  BY <1>9, <1>10, <1>11

(* A project's graph: roots on top, packages below them. *)
RootIds == {r.id : r \in Roots}

IsProject(g) ==
  /\ IsGraph(g)
  /\ g.roots = RootIds /\ Ids(g) = RootIds \cup TreeKeys /\ PackageIds(g) = TreeKeys
  /\ \A e \in g.edges : e = <<e[1], e[2]>> /\ e[2] \in TreeKeys /\ e[1] # e[2]

LEMMA ProjectIs == IsProject(Project) /\ {x.id : x \in ProjectRoots} = RootIds
<1> DEFINE roots == ProjectRoots
           failed == TreeKeys \ DOMAIN Analysis
           inner == UNION {{<<from, to>> : to \in PresentVersions(TreeKeys, Analysis[from].declared)} :
                             from \in TreeKeys \ failed}
           outer == UNION {{<<r.id, to>> : to \in PresentVersions(TreeKeys, r.deps)} : r \in roots}
           known == {Overlaid(PackageNode(key, Analysis[key]), Snapshots) : key \in TreeKeys \ failed}
           bare == {BareNode(r.id, "root", FALSE) : r \in roots}
           broken == {BareNode(key, "package", TRUE) : key \in failed}
<1>1. roots # {} /\ {x.id : x \in roots} = RootIds
  <2>1. ASSUME NEW r \in Roots PROVE [r EXCEPT !.deps = needed[r]].id = r.id
    <3>1. r = Root(r.id[1], r.id[2], {})
      BY GraphAssumption
    <3>2. r = [id |-> <<r.id[1], r.id[2]>>, deps |-> {}]
      BY <3>1 DEF Root
    <3>3. "id" \in DOMAIN r
      BY <3>2
    <3> QED  BY <3>3
  <2>2. Roots # {}
    BY GraphAssumption
  <2> QED  BY <2>1, <2>2 DEF ProjectRoots, RootIds
<1>2. /\ Project = [roots |-> Project.roots, nodes |-> Project.nodes, edges |-> Project.edges]
      /\ Project.roots = {r.id : r \in roots}
      /\ Project.nodes = bare \cup broken \cup known
      /\ Project.edges = {e \in inner \cup outer : e[1] # e[2]}
  <2> HIDE DEF roots
  <2> QED  BY <1>1 DEF Project, BuildDependencyGraph, roots
<1>3. ASSUME NEW key, NEW kind, NEW error
      PROVE  BareNode(key, kind, error).id = key /\ BareNode(key, kind, error).kind = kind
  BY DEF BareNode
<1>4. ASSUME NEW key, NEW a
      PROVE  /\ Overlaid(PackageNode(key, a), Snapshots).id = key
             /\ Overlaid(PackageNode(key, a), Snapshots).kind = "package"
  BY DEF Overlaid, PackageNode, BareNode
<1>5. /\ \A n \in bare : n.kind = "root"
      /\ \A n \in broken \cup known : n.kind = "package"
      /\ {n.id : n \in bare} = RootIds
      /\ {n.id : n \in broken} = failed
      /\ {n.id : n \in known} = TreeKeys \ failed
  <2>1. (\A n \in bare : n.kind = "root") /\ {n.id : n \in bare} = RootIds
    <3> HIDE DEF roots
    <3>1. \A r \in roots : BareNode(r.id, "root", FALSE).id = r.id /\ BareNode(r.id, "root", FALSE).kind = "root"
      BY <1>3
    <3> QED  BY <1>1, <3>1
  <2>2. (\A n \in broken : n.kind = "package") /\ {n.id : n \in broken} = failed
    <3> HIDE DEF failed
    <3>1. \A key \in failed : BareNode(key, "package", TRUE).id = key /\ BareNode(key, "package", TRUE).kind = "package"
      BY <1>3
    <3> QED  BY <3>1
  <2>3. (\A n \in known : n.kind = "package") /\ {n.id : n \in known} = TreeKeys \ failed
    <3> HIDE DEF failed
    <3> QED  BY <1>4
  <2> QED  BY <2>1, <2>2, <2>3
<1>6. Ids(Project) = RootIds \cup TreeKeys /\ PackageIds(Project) = TreeKeys
  <2> HIDE DEF bare, broken, known, roots, inner, outer
  <2>1. Ids(Project) = RootIds \cup failed \cup (TreeKeys \ failed)
    BY <1>2, <1>5 DEF Ids
  <2>2. {n \in Project.nodes : n.kind = "package"} = broken \cup known
    BY <1>2, <1>5
  <2>3. PackageIds(Project) = failed \cup (TreeKeys \ failed)
    BY <1>5, <2>2 DEF PackageIds
  <2> QED  BY <2>1, <2>3
<1>7. IsFiniteSet(Ids(Project))
  <2> DEFINE f == [r \in Roots |-> r.id]
  <2>1. f \in Surjection(Roots, RootIds)
    BY DEF Surjection, RootIds
  <2> HIDE DEF f
  <2>2. IsFiniteSet(RootIds) /\ IsFiniteSet(TreeKeys)
    BY <2>1, FS_Surjection, GraphAssumption
  <2> QED  BY <1>6, <2>2, FS_Union
<1>8. \A e \in inner \cup outer : e = <<e[1], e[2]>> /\ e[1] \in RootIds \cup TreeKeys /\ e[2] \in TreeKeys
  <2>1. \A e \in inner : e = <<e[1], e[2]>> /\ e[1] \in RootIds \cup TreeKeys /\ e[2] \in TreeKeys
    BY DEF PresentVersions
  <2>2. \A e \in outer : e = <<e[1], e[2]>> /\ e[1] \in RootIds \cup TreeKeys /\ e[2] \in TreeKeys
    <3> HIDE DEF roots
    <3> QED  BY <1>1 DEF PresentVersions
  <2> QED  BY <2>1, <2>2
<1>9. \A e \in Project.edges : /\ e = <<e[1], e[2]>> /\ e[1] # e[2]
                              /\ e[1] \in Ids(Project) /\ e[2] \in TreeKeys
  <2> HIDE DEF inner, outer
  <2> QED  BY <1>2, <1>6, <1>8
<1> QED  BY <1>1, <1>2, <1>6, <1>7, <1>9 DEF IsGraph, IsProject

LEMMA FilteredExplains == FilterExplains
<1> DEFINE g == Project
<1>1. ASSUME NEW filter
      PROVE  /\ Matching(g, {filter}) \subseteq Ids(FilterGraph(g, {filter}))
             /\ Ids(FilterGraph(g, {filter})) \cap FromRoots(g) \subseteq FromRoots(FilterGraph(g, {filter}))
             /\ \A id \in Ids(FilterGraph(g, {filter})) \ g.roots :
                  \/ id \in Matching(g, {filter})
                  \/ ReachableFrom(FilterGraph(g, {filter}), id) \cap Matching(g, {filter}) # {}
  BY ProjectIs, FilterLeaves DEF IsProject
<1> HIDE DEF g
<1> QED  BY <1>1 DEF FilterExplains, g

(* FilterExplains, for every tree and every set of roots: a filtered graph
   still shows how each match got into the tree.                             *)
THEOREM FilterStillExplains == GraphSpec => []FilterExplains
BY FilteredExplains, PTL

-----------------------------------------------------------------------------
(* A path down the edges that comes to no node twice. *)
IsPath(g, p) ==
  /\ p \in Seq(Ids(g)) /\ Len(p) # 0
  /\ IsInjective(p)
  /\ \A i \in 1 .. Len(p) - 1 : <<p[i], p[i + 1]>> \in g.edges

LEMMA PathParts ==
  ASSUME NEW g, NEW p, IsPath(g, p)
  PROVE  /\ Len(p) \in Nat \ {0} /\ DOMAIN p = 1 .. Len(p)
         /\ p[1] \in Ids(g) /\ Last(p) \in Ids(g) /\ Last(p) = p[Len(p)]
         /\ \A i \in 1 .. Len(p) : p[i] \in Ids(g)
         /\ \A i, j \in 1 .. Len(p) : p[i] = p[j] => i = j
<1>1. Len(p) \in Nat \ {0} /\ DOMAIN p = 1 .. Len(p)
  BY LenProperties DEF IsPath
<1>2. \A i \in 1 .. Len(p) : p[i] \in Ids(g)
  BY ElementOfSeq DEF IsPath
<1> QED  BY <1>1, <1>2 DEF IsPath, IsInjective, Last

(* A longer sequence that starts with another element. *)
LEMMA Prepended ==
  ASSUME NEW S, NEW x \in S, NEW p \in Seq(S)
  PROVE  /\ <<x>> \o p \in Seq(S) /\ Len(<<x>> \o p) = Len(p) + 1
         /\ (<<x>> \o p)[1] = x /\ \A i \in 1 .. Len(p) : (<<x>> \o p)[i + 1] = p[i]
<1>1. <<x>> \in Seq(S) /\ Len(<<x>>) = 1 /\ <<x>>[1] = x
  OBVIOUS
<1>2. Len(p) \in Nat
  BY LenProperties
<1>3. /\ <<x>> \o p \in Seq(S) /\ Len(<<x>> \o p) = 1 + Len(p)
      /\ \A i \in 1 .. 1 + Len(p) : (<<x>> \o p)[i] = IF i <= 1 THEN <<x>>[i] ELSE p[i - 1]
  <2> DEFINE s == <<x>>
  <2> HIDE DEF s
  <2>1. s \in Seq(S) /\ Len(s) = 1
    BY <1>1 DEF s
  <2>2. /\ s \o p \in Seq(S) /\ Len(s \o p) = Len(s) + Len(p)
        /\ \A i \in 1 .. Len(s) + Len(p) : (s \o p)[i] = IF i <= Len(s) THEN s[i] ELSE p[i - Len(s)]
    BY <2>1, ConcatProperties
  <2> QED  BY <2>1, <2>2 DEF s
<1>4. ASSUME NEW i \in 1 .. Len(p) PROVE (<<x>> \o p)[i + 1] = p[i]
  <2>1. i + 1 \in 1 .. 1 + Len(p) /\ ~(i + 1 <= 1) /\ i + 1 - 1 = i
    BY <1>2
  <2> QED  BY <1>3, <2>1
<1>5. (<<x>> \o p)[1] = x
  <2>1. 1 \in 1 .. 1 + Len(p)
    BY <1>2
  <2> QED  BY <1>1, <1>3, <2>1
<1> QED  BY <1>2, <1>3, <1>4, <1>5

LEMMA LongerPath ==
  ASSUME NEW g, NEW p, IsPath(g, p), NEW x \in Ids(g), x \notin Range(p), <<x, p[1]>> \in g.edges
  PROVE  IsPath(g, <<x>> \o p) /\ Last(<<x>> \o p) = Last(p)
<1> DEFINE q == <<x>> \o p
<1>1. /\ Len(p) \in Nat \ {0} /\ DOMAIN p = 1 .. Len(p)
      /\ \A i, j \in 1 .. Len(p) : p[i] = p[j] => i = j
  BY PathParts
<1>2. p \in Seq(Ids(g)) /\ \A i \in 1 .. Len(p) - 1 : <<p[i], p[i + 1]>> \in g.edges
  BY DEF IsPath
<1>3. /\ q \in Seq(Ids(g)) /\ Len(q) = Len(p) + 1
      /\ q[1] = x /\ \A i \in 1 .. Len(p) : q[i + 1] = p[i]
  BY <1>2, Prepended
<1> HIDE DEF q
<1>4. \A i \in 1 .. Len(p) : p[i] # x
  BY <1>1 DEF Range
<1>5. \A i \in 1 .. Len(q) : i = 1 \/ (i - 1 \in 1 .. Len(p) /\ q[i] = p[i - 1])
  <2> TAKE i \in 1 .. Len(q)
  <2>1. CASE i # 1
    <3>1. i - 1 \in 1 .. Len(p) /\ i - 1 + 1 = i
      BY <1>1, <1>3, <2>1
    <3> QED  BY <1>3, <3>1
  <2> QED  BY <2>1
<1>6. IsInjective(q)
  <2>1. DOMAIN q = 1 .. Len(q)
    BY <1>3, LenProperties
  <2>2. ASSUME NEW i \in 1 .. Len(q), NEW j \in 1 .. Len(q), q[i] = q[j] PROVE i = j
    <3>1. CASE i = 1 /\ j # 1
      BY <1>3, <1>4, <1>5, <2>2, <3>1
    <3>2. CASE i # 1 /\ j = 1
      BY <1>3, <1>4, <1>5, <2>2, <3>2
    <3>3. CASE i # 1 /\ j # 1
      <4>1. i - 1 = j - 1
        BY <1>1, <1>5, <2>2, <3>3
      <4>2. i \in Int /\ j \in Int
        OBVIOUS
      <4> QED  BY <4>1, <4>2
    <3> QED  BY <3>1, <3>2, <3>3
  <2> QED  BY <2>1, <2>2 DEF IsInjective
<1>7. ASSUME NEW i \in 1 .. Len(q) - 1 PROVE <<q[i], q[i + 1]>> \in g.edges
  <2>1. i \in 1 .. Len(p) /\ q[i + 1] = p[i]
    BY <1>1, <1>3
  <2>2. CASE i = 1
    BY <1>3, <2>1, <2>2
  <2>3. CASE i # 1
    <3>1. i - 1 \in 1 .. Len(p) - 1 /\ i - 1 + 1 = i /\ i \in 1 .. Len(q)
      BY <1>1, <1>3, <2>1, <2>3
    <3>2. q[i] = p[i - 1]
      BY <1>5, <2>3, <3>1
    <3>3. <<p[i - 1], p[i - 1 + 1]>> \in g.edges
      BY <1>2, <3>1
    <3> QED  BY <2>1, <3>1, <3>2, <3>3
  <2> QED  BY <2>2, <2>3
<1>8. Last(q) = Last(p)
  <2>1. Len(p) \in 1 .. Len(p)
    BY <1>1
  <2> QED  BY <1>3, <2>1 DEF Last
<1> QED  BY <1>1, <1>3, <1>6, <1>7, <1>8 DEF IsPath, q

LEMMA ShorterPath ==
  ASSUME NEW g, NEW p, IsPath(g, p), NEW n \in 1 .. Len(p)
  PROVE  IsPath(g, SubSeq(p, 1, n)) /\ SubSeq(p, 1, n)[1] = p[1] /\ Last(SubSeq(p, 1, n)) = p[n]
<1> DEFINE q == SubSeq(p, 1, n)
<1>1. /\ Len(p) \in Nat \ {0}
      /\ \A i \in 1 .. Len(p) : p[i] \in Ids(g)
      /\ \A i, j \in 1 .. Len(p) : p[i] = p[j] => i = j
  BY PathParts
<1>2. n \in Nat /\ 1 <= n /\ \A i \in 1 .. n : i \in 1 .. Len(p)
  BY <1>1
<1>3. q \in Seq(Ids(g)) /\ Len(q) = n /\ \A i \in 1 .. n : q[i] = p[i]
  <2>1. \A i \in 1 .. n : p[i] \in Ids(g)
    BY <1>1, <1>2
  <2>2. /\ q \in Seq(Ids(g)) /\ Len(q) = IF 1 <= n THEN n - 1 + 1 ELSE 0
        /\ \A i \in 1 .. n - 1 + 1 : q[i] = p[1 + i - 1]
    BY <1>2, <2>1, SubSeqProperties
  <2>3. n - 1 + 1 = n /\ \A i \in 1 .. n : 1 + i - 1 = i
    BY <1>2
  <2> QED  BY <1>2, <2>2, <2>3
<1> HIDE DEF q
<1>4. IsInjective(q)
  <2>1. DOMAIN q = 1 .. n
    BY <1>3, LenProperties
  <2> QED  BY <1>1, <1>2, <1>3, <2>1 DEF IsInjective
<1>5. ASSUME NEW i \in 1 .. n - 1 PROVE <<q[i], q[i + 1]>> \in g.edges
  <2>1. i \in 1 .. n /\ i + 1 \in 1 .. n /\ i \in 1 .. Len(p) - 1
    BY <1>1, <1>2
  <2> QED  BY <1>3, <2>1 DEF IsPath
<1> QED  BY <1>2, <1>3, <1>4, <1>5 DEF IsPath, Last, q

LEMMA PathOn ==
  ASSUME NEW g, NEW p, IsPath(g, p), NEW x \in Ids(g), x \notin Range(p), <<Last(p), x>> \in g.edges
  PROVE  IsPath(g, Append(p, x)) /\ Append(p, x)[1] = p[1] /\ Last(Append(p, x)) = x
<1> DEFINE q == Append(p, x)
<1>1. /\ Len(p) \in Nat \ {0} /\ DOMAIN p = 1 .. Len(p) /\ Last(p) = p[Len(p)]
      /\ \A i, j \in 1 .. Len(p) : p[i] = p[j] => i = j
  BY PathParts
<1>2. p \in Seq(Ids(g)) /\ \A i \in 1 .. Len(p) - 1 : <<p[i], p[i + 1]>> \in g.edges
  BY DEF IsPath
<1>3. /\ q \in Seq(Ids(g)) /\ Len(q) = Len(p) + 1
      /\ (\A i \in 1 .. Len(p) : q[i] = p[i]) /\ q[Len(p) + 1] = x
  BY <1>2, AppendProperties
<1> HIDE DEF q
<1>4. \A i \in 1 .. Len(p) : p[i] # x
  BY <1>1 DEF Range
<1>5. IsInjective(q)
  <2>1. DOMAIN q = 1 .. Len(p) + 1
    BY <1>3, LenProperties
  <2>2. \A i \in 1 .. Len(p) + 1 : i \in 1 .. Len(p) \/ i = Len(p) + 1
    BY <1>1
  <2> QED  BY <1>1, <1>3, <1>4, <2>1, <2>2 DEF IsInjective
<1>6. ASSUME NEW i \in 1 .. Len(q) - 1 PROVE <<q[i], q[i + 1]>> \in g.edges
  <2>1. i \in 1 .. Len(p) /\ q[i] = p[i]
    BY <1>1, <1>3
  <2>2. CASE i = Len(p)
    BY <1>1, <1>3, <2>1, <2>2
  <2>3. CASE i # Len(p)
    <3>1. i \in Nat /\ Len(p) \in Nat /\ 1 <= i /\ i <= Len(p)
      BY <1>1, <2>1
    <3>2. i \in 1 .. Len(p) - 1 /\ i + 1 \in 1 .. Len(p)
      BY <2>3, <3>1
    <3> QED  BY <1>2, <1>3, <2>1, <3>2
  <2> QED  BY <2>2, <2>3
<1>7. q[1] = p[1] /\ Last(q) = x /\ Len(q) # 0
  BY <1>1, <1>3 DEF Last
<1> QED  BY <1>3, <1>5, <1>6, <1>7 DEF IsPath, q

(* What is reachable is at the end of a path. *)
LEMMA ReachablePath ==
  ASSUME NEW g, IsGraph(g), \A e \in g.edges : e = <<e[1], e[2]>>,
         NEW start \in Ids(g), NEW id \in ReachableFrom(g, start)
  PROVE  \E p : IsPath(g, p) /\ p[1] = start /\ Last(p) = id
<1> DEFINE S == {x \in Ids(g) : \E p : IsPath(g, p) /\ p[1] = start /\ Last(p) = x}
<1>1. start \in S
  <2> DEFINE p == <<start>>
  <2>1. p \in Seq(Ids(g)) /\ Len(p) = 1 /\ p[1] = start /\ Last(p) = start
    BY DEF Last
  <2>2. IsInjective(p) /\ 1 .. Len(p) - 1 = {}
    BY <2>1 DEF IsInjective
  <2>3. IsPath(g, p)
    BY <2>1, <2>2 DEF IsPath
  <2> HIDE DEF p
  <2> QED  BY <2>1, <2>3
<1>2. ASSUME NEW x \in S, NEW y \in Children(g, x) PROVE y \in S
  <2>1. PICK p : IsPath(g, p) /\ p[1] = start /\ Last(p) = x
    OBVIOUS
  <2>2. <<x, y>> \in g.edges /\ y \in Ids(g)
    BY DEF Children, IsGraph
  <2>3. CASE y \in Range(p)
    <3>1. PICK n \in 1 .. Len(p) : p[n] = y
      BY <2>1, <2>3, PathParts DEF Range
    <3>2. /\ IsPath(g, SubSeq(p, 1, n)) /\ SubSeq(p, 1, n)[1] = p[1]
          /\ Last(SubSeq(p, 1, n)) = y
      BY <2>1, <3>1, ShorterPath
    <3> QED  BY <2>1, <2>2, <3>2
  <2>4. CASE y \notin Range(p)
    <3>1. IsPath(g, Append(p, y)) /\ Append(p, y)[1] = p[1] /\ Last(Append(p, y)) = y
      BY <2>1, <2>2, <2>4, PathOn
    <3> QED  BY <2>1, <2>2, <3>1
  <2> QED  BY <2>3, <2>4
<1>3. ReachableFrom(g, start) \subseteq S
  <2> HIDE DEF S
  <2>1. Children(g, start) \subseteq S /\ \A x \in S \cap Ids(g) : Children(g, x) \subseteq S
    BY <1>1, <1>2
  <2> QED  BY <2>1, ReachableIs
<1> QED  BY <1>3

(* And what a path comes to is reachable from where it starts. *)
LEMMA PathReaches ==
  ASSUME NEW g, IsGraph(g), NEW p, IsPath(g, p), NEW n \in 2 .. Len(p)
  PROVE  p[n] \in ReachableFrom(g, p[1])
<1> DEFINE B == {i \in 2 .. Len(p) : p[i] \notin ReachableFrom(g, p[1])}
<1>1. SUFFICES ASSUME B # {} PROVE FALSE
  OBVIOUS
<1>2. Len(p) \in Nat
  BY PathParts
<1>3. PICK i \in B : \A j \in B : ~(j < i)
  <2>1. B \subseteq Nat
    BY <1>2
  <2> HIDE DEF B
  <2> QED  BY <1>1, <2>1, LeastNumber
<1>4. i - 1 \in 1 .. Len(p) - 1 /\ i - 1 + 1 = i
  BY <1>2
<1>5. <<p[i - 1], p[i]>> \in g.edges
  BY <1>4 DEF IsPath
<1>6. p[i] \in Children(g, p[i - 1])
  BY <1>5 DEF Children
<1>7. CASE i = 2
  <2>1. p[i] \in Children(g, p[1])
    BY <1>6, <1>7
  <2> QED  BY <2>1, ReachableIs
<1>8. CASE i # 2
  <2>1. i - 1 \in 2 .. Len(p) /\ i - 1 < i
    BY <1>2, <1>8
  <2>2. p[i - 1] \in ReachableFrom(g, p[1])
    BY <1>3, <2>1
  <2> QED  BY <1>6, <2>2, ReachableIs
<1> QED  BY <1>7, <1>8
-----------------------------------------------------------------------------
(* `targate why`: what is told and what is left to tell. *)
IsWalk(g, name, p) == IsPath(g, p) /\ Last(p) \in TreeKeys /\ Last(p)[1] = name

Top(g, id) == id \in g.roots \/ ParentsOf(g, id) = {}

Ends(p, c) == \E k \in Nat : Len(c) = k + Len(p) /\ \A i \in 1 .. Len(p) : p[i] = c[k + i]

(* Every walk from a top is told, or the way up is open, or the report is cut. *)
Told(g, name, todo, done, cut) ==
  /\ todo \in Seq(Seq(Ids(g))) /\ done \in Seq(Seq(Ids(g)))
  /\ \A i \in 1 .. Len(todo) : IsWalk(g, name, todo[i])
  /\ \A i \in 1 .. Len(done) : IsWalk(g, name, done[i]) /\ Top(g, done[i][1])
  /\ cut => Len(done) >= WhyMaxChains
  /\ ~cut => \A c \in Seq(Ids(g)) : IsWalk(g, name, c) /\ Top(g, c[1]) =>
       \/ \E i \in 1 .. Len(done) : done[i] = c
       \/ \E i \in 1 .. Len(todo) : Ends(todo[i], c)

LEMMA TailIs ==
  ASSUME NEW S, NEW s \in Seq(S), s # <<>>
  PROVE  /\ Head(s) = s[1] /\ Head(s) \in S /\ Tail(s) \in Seq(S)
         /\ Len(s) \in Nat \ {0} /\ Len(Tail(s)) = Len(s) - 1
         /\ \A i \in 1 .. Len(s) - 1 : Tail(s)[i] = s[i + 1]
         /\ \A i \in 1 .. Len(s) : i = 1 \/ (i - 1 \in 1 .. Len(s) - 1 /\ Tail(s)[i - 1] = s[i])
<1>1. /\ Head(s) = s[1] /\ Head(s) \in S /\ Tail(s) \in Seq(S)
      /\ Len(s) \in Nat /\ Len(Tail(s)) = Len(s) - 1
      /\ \A i \in 1 .. Len(s) - 1 : Tail(s)[i] = s[i + 1]
  <2>1. Head(s) \in S /\ Tail(s) \in Seq(S) /\ Len(Tail(s)) = Len(s) - 1
    BY HeadTailProperties
  <2>2. \A i \in 1 .. Len(Tail(s)) : Tail(s)[i] = s[i + 1]
    BY HeadTailProperties
  <2> QED  BY <2>1, <2>2, LenProperties
<1>2. Len(s) # 0
  BY EmptySeq
<1>3. \A i \in 1 .. Len(s) : i = 1 \/ (i - 1 \in 1 .. Len(s) - 1 /\ i - 1 + 1 = i)
  BY <1>1
<1> QED  BY <1>1, <1>2, <1>3

LEMMA WhyTells ==
  ASSUME NEW g, IsProject(g), NEW name,
         NEW todo \in SetToSeqs({<<id>> : id \in {x \in PackageIds(g) : x[1] = name}})
  PROVE  Told(g, name, todo, <<>>, FALSE)
<1> DEFINE versions == {x \in PackageIds(g) : x[1] = name}
           L == {<<id>> : id \in versions}
<1>1. versions \subseteq TreeKeys /\ TreeKeys \subseteq Ids(g) /\ \A x \in TreeKeys : x[1] = name => x \in versions
  BY DEF IsProject
<1>2. IsFiniteSet(L)
  <2> DEFINE f == [x \in versions |-> <<x>>]
  <2>1. f \in Surjection(versions, L)
    BY DEF Surjection
  <2>2. IsFiniteSet(versions)
    BY <1>1, GraphAssumption, FS_Subset
  <2> HIDE DEF f, L, versions
  <2> QED  BY <2>1, <2>2, FS_Surjection
<1>3. /\ todo \in Seq(L) /\ Len(todo) \in Nat
      /\ \A v \in L : \E i \in 1 .. Len(todo) : todo[i] = v
  BY <1>2, ListsAll
<1>4. ASSUME NEW id \in versions
      PROVE  <<id>> \in Seq(Ids(g)) /\ IsWalk(g, name, <<id>>)
  <2> DEFINE p == <<id>>
  <2>1. id \in Ids(g) /\ id \in TreeKeys /\ id[1] = name
    BY <1>1
  <2>2. p \in Seq(Ids(g)) /\ Len(p) = 1 /\ p[1] = id /\ Last(p) = id
    BY <2>1 DEF Last
  <2>3. IsInjective(p) /\ 1 .. Len(p) - 1 = {}
    BY <2>2 DEF IsInjective
  <2> HIDE DEF p
  <2>4. IsWalk(g, name, p)
    BY <2>1, <2>2, <2>3 DEF IsPath, IsWalk
  <2> QED  BY <2>2, <2>4 DEF p
<1>5. \A i \in 1 .. Len(todo) : todo[i] \in L
  BY <1>3, ElementOfSeq
<1>6. \A i \in 1 .. Len(todo) : todo[i] \in Seq(Ids(g)) /\ IsWalk(g, name, todo[i])
  BY <1>4, <1>5
<1>7. todo \in Seq(Seq(Ids(g)))
  <2>1. L \subseteq Seq(Ids(g))
    BY <1>4
  <2> HIDE DEF L
  <2> QED  BY <1>3, <2>1
<1>8. ASSUME NEW c \in Seq(Ids(g)), IsWalk(g, name, c)
      PROVE  \E i \in 1 .. Len(todo) : Ends(todo[i], c)
  <2>1. Last(c) \in versions /\ Last(c) = c[Len(c)] /\ Len(c) \in Nat \ {0}
    BY <1>1, <1>8, PathParts DEF IsWalk
  <2>2. PICK i \in 1 .. Len(todo) : todo[i] = <<Last(c)>>
    BY <1>3, <2>1
  <2>3. Ends(<<Last(c)>>, c)
    <3> DEFINE p == <<Last(c)>>
               k == Len(c) - 1
    <3>1. Len(p) = 1 /\ p[1] = Last(c)
      OBVIOUS
    <3> HIDE DEF p
    <3>2. k \in Nat /\ Len(c) = k + 1 /\ k + 1 = Len(c)
      BY <2>1
    <3>3. \A j \in 1 .. 1 : j = 1
      OBVIOUS
    <3> HIDE DEF k
    <3>4. Len(c) = k + Len(p) /\ \A j \in 1 .. Len(p) : p[j] = c[k + j]
      BY <2>1, <3>1, <3>2, <3>3
    <3>5. Ends(p, c)
      BY <3>2, <3>4 DEF Ends
    <3> QED  BY <3>5 DEF p
  <2> QED  BY <2>2, <2>3
<1>9. <<>> \in Seq(Seq(Ids(g))) /\ Len(<<>>) = 0 /\ 1 .. 0 = {}
  OBVIOUS
<1> HIDE DEF L, versions
<1> QED  BY <1>6, <1>7, <1>8, <1>9 DEF Told

LEMMA LeaveOutTells ==
  ASSUME NEW g, NEW name, NEW todo, NEW done, NEW cut, Told(g, name, todo, done, cut),
         todo # <<>>, Len(done) >= WhyMaxChains
  PROVE  Told(g, name, Tail(todo), done, TRUE)
<1>1. /\ Tail(todo) \in Seq(Seq(Ids(g))) /\ Len(todo) \in Nat \ {0} /\ Len(Tail(todo)) = Len(todo) - 1
      /\ \A i \in 1 .. Len(todo) - 1 : Tail(todo)[i] = todo[i + 1]
  BY TailIs DEF Told
<1>2. \A i \in 1 .. Len(todo) - 1 : i + 1 \in 1 .. Len(todo)
  BY <1>1
<1>3. \A i \in 1 .. Len(Tail(todo)) : IsWalk(g, name, Tail(todo)[i])
  BY <1>1, <1>2 DEF Told
<1> QED  BY <1>1, <1>3 DEF Told

(* Nothing leads to a top. *)
LEMMA TopIsTop ==
  ASSUME NEW g, IsProject(g), NEW id, Top(g, id), NEW from
  PROVE  <<from, id>> \notin g.edges
<1>1. ASSUME <<from, id>> \in g.edges PROVE FALSE
  <2>1. from \in ParentsOf(g, id)
    BY <1>1 DEF ParentsOf
  <2>2. id \in TreeKeys
    BY <1>1 DEF IsProject
  <2>3. id \notin RootIds
    BY <2>2, GraphAssumption DEF RootIds
  <2> QED  BY <2>1, <2>3 DEF Top, IsProject
<1> QED  BY <1>1

LEMMA ArriveTells ==
  ASSUME NEW g, IsProject(g), NEW name, NEW todo, NEW done, NEW cut, Told(g, name, todo, done, cut),
         todo # <<>>, Top(g, Head(todo)[1])
  PROVE  Told(g, name, Tail(todo), Append(done, Head(todo)), cut)
<1> DEFINE p == Head(todo)
           rest == Tail(todo)
           found == Append(done, p)
<1>1. /\ p = todo[1] /\ p \in Seq(Ids(g)) /\ rest \in Seq(Seq(Ids(g)))
      /\ Len(todo) \in Nat \ {0} /\ Len(rest) = Len(todo) - 1
      /\ \A i \in 1 .. Len(todo) - 1 : rest[i] = todo[i + 1]
      /\ \A i \in 1 .. Len(todo) : i = 1 \/ (i - 1 \in 1 .. Len(todo) - 1 /\ rest[i - 1] = todo[i])
  BY TailIs DEF Told
<1>2. /\ found \in Seq(Seq(Ids(g))) /\ Len(found) = Len(done) + 1 /\ Len(done) \in Nat
      /\ (\A i \in 1 .. Len(done) : found[i] = done[i]) /\ found[Len(done) + 1] = p
  BY <1>1, AppendProperties, LenProperties DEF Told
<1>3. IsWalk(g, name, p) /\ Top(g, p[1])
  <2>1. 1 \in 1 .. Len(todo)
    BY <1>1
  <2> QED  BY <1>1, <2>1 DEF Told
<1> HIDE DEF p, rest, found
<1>4. \A i \in 1 .. Len(rest) : IsWalk(g, name, rest[i])
  <2>1. \A i \in 1 .. Len(todo) - 1 : i + 1 \in 1 .. Len(todo)
    BY <1>1
  <2> QED  BY <1>1, <2>1 DEF Told
<1>5. \A i \in 1 .. Len(found) : i \in 1 .. Len(done) \/ i = Len(done) + 1
  BY <1>2
<1>6. \A i \in 1 .. Len(found) : IsWalk(g, name, found[i]) /\ Top(g, found[i][1])
  BY <1>2, <1>3, <1>5 DEF Told
<1>7. cut => Len(found) >= WhyMaxChains
  BY <1>2, GraphAssumption DEF Told
<1>8. ASSUME NEW c \in Seq(Ids(g)), IsWalk(g, name, c), Top(g, c[1]), Ends(p, c) PROVE c = p
  <2>1. PICK k \in Nat : Len(c) = k + Len(p) /\ \A i \in 1 .. Len(p) : p[i] = c[k + i]
    BY <1>8 DEF Ends
  <2>2. Len(p) \in Nat \ {0} /\ 1 \in 1 .. Len(p)
    BY <1>3, PathParts DEF IsWalk
  <2>3. CASE k # 0
    <3>1. k \in 1 .. Len(c) - 1
      BY <2>1, <2>2, <2>3
    <3>2. <<c[k], c[k + 1]>> \in g.edges
      BY <1>8, <3>1 DEF IsWalk, IsPath
    <3> QED  BY <1>3, <2>1, <2>2, <3>2, TopIsTop
  <2>4. CASE k = 0
    <3>1. Len(c) = Len(p) /\ \A i \in 1 .. Len(p) : p[i] = c[i]
      <4>1. \A i \in 1 .. Len(p) : 0 + i = i
        OBVIOUS
      <4> QED  BY <2>1, <2>2, <2>4, <4>1
    <3> QED  BY <1>1, <3>1, SeqEqual
  <2> QED  BY <2>3, <2>4
<1>9. ASSUME ~cut, NEW c \in Seq(Ids(g)), IsWalk(g, name, c), Top(g, c[1])
      PROVE  \/ \E i \in 1 .. Len(found) : found[i] = c
             \/ \E i \in 1 .. Len(rest) : Ends(rest[i], c)
  <2>1. CASE \E i \in 1 .. Len(done) : done[i] = c
    <3>1. \A i \in 1 .. Len(done) : i \in 1 .. Len(found)
      BY <1>2
    <3> QED  BY <1>2, <2>1, <3>1
  <2>2. CASE \E i \in 1 .. Len(todo) : Ends(todo[i], c)
    <3>1. PICK i \in 1 .. Len(todo) : Ends(todo[i], c)
      BY <2>2
    <3>2. CASE i = 1
      <4>1. Len(done) + 1 \in 1 .. Len(found)
        BY <1>2
      <4> QED  BY <1>1, <1>2, <1>8, <1>9, <3>1, <3>2, <4>1
    <3>3. CASE i # 1
      BY <1>1, <3>1, <3>3
    <3> QED  BY <3>2, <3>3
  <2> QED  BY <1>9, <2>1, <2>2 DEF Told
<1>10. Told(g, name, rest, found, cut)
  BY <1>1, <1>2, <1>4, <1>6, <1>7, <1>9 DEF Told
<1> QED  BY <1>10 DEF p, rest, found

LEMMA ClimbTells ==
  ASSUME NEW g, IsProject(g), NEW name, NEW todo, NEW done, NEW cut, Told(g, name, todo, done, cut),
         todo # <<>>, ~Top(g, Head(todo)[1]),
         NEW higher \in SetToSeqs({<<q>> \o Head(todo) : q \in ParentsOf(g, Head(todo)[1]) \ Range(Head(todo))})
  PROVE  Told(g, name, higher \o Tail(todo), done, cut)
<1> DEFINE p == Head(todo)
           rest == Tail(todo)
           from == ParentsOf(g, p[1]) \ Range(p)
           L == {<<q>> \o p : q \in from}
           all == higher \o rest
<1>1. /\ p = todo[1] /\ p \in Seq(Ids(g)) /\ rest \in Seq(Seq(Ids(g)))
      /\ Len(todo) \in Nat \ {0} /\ Len(rest) = Len(todo) - 1
      /\ \A i \in 1 .. Len(todo) - 1 : rest[i] = todo[i + 1]
      /\ \A i \in 1 .. Len(todo) : i = 1 \/ (i - 1 \in 1 .. Len(todo) - 1 /\ rest[i - 1] = todo[i])
  BY TailIs DEF Told
<1>2. IsWalk(g, name, p)
  <2>1. 1 \in 1 .. Len(todo)
    BY <1>1
  <2> QED  BY <1>1, <2>1 DEF Told
<1>3. \A q \in from : q \in Ids(g) /\ q \notin Range(p) /\ <<q, p[1]>> \in g.edges
  BY DEF ParentsOf, IsProject, IsGraph
<1>4. IsFiniteSet(L)
  <2> DEFINE f == [q \in from |-> <<q>> \o p]
  <2>1. f \in Surjection(from, L)
    BY DEF Surjection
  <2>2. IsFiniteSet(Ids(g)) /\ from \subseteq Ids(g)
    BY <1>3 DEF IsProject, IsGraph
  <2> HIDE DEF f, L, from
  <2>3. IsFiniteSet(from)
    BY <2>2, FS_Subset
  <2> QED  BY <2>1, <2>3, FS_Surjection
<1>5. /\ higher \in Seq(L) /\ Len(higher) \in Nat
      /\ \A v \in L : \E i \in 1 .. Len(higher) : higher[i] = v
  <2>1. higher \in SetToSeqs(L)
    OBVIOUS
  <2> HIDE DEF L
  <2> QED  BY <1>4, <2>1, ListsAll
<1>6. ASSUME NEW q \in from
      PROVE  <<q>> \o p \in Seq(Ids(g)) /\ IsWalk(g, name, <<q>> \o p)
  <2>1. q \in Ids(g) /\ q \notin Range(p) /\ <<q, p[1]>> \in g.edges
    BY <1>3
  <2>2. IsPath(g, p)
    BY <1>2 DEF IsWalk
  <2> HIDE DEF p
  <2>3. IsPath(g, <<q>> \o p) /\ Last(<<q>> \o p) = Last(p)
    BY <2>1, <2>2, LongerPath
  <2> QED  BY <1>2, <2>3 DEF IsWalk, IsPath
<1> HIDE DEF p, rest, from
<1>7. \A v \in L : v \in Seq(Ids(g)) /\ IsWalk(g, name, v)
  BY <1>6
<1>8. \A i \in 1 .. Len(higher) : IsWalk(g, name, higher[i])
  <2> HIDE DEF L
  <2> QED  BY <1>5, <1>7, ElementOfSeq
<1>9. higher \in Seq(Seq(Ids(g)))
  <2> HIDE DEF L
  <2> QED  BY <1>5, <1>7
<1>10. /\ all \in Seq(Seq(Ids(g))) /\ Len(all) = Len(higher) + Len(rest)
       /\ \A i \in 1 .. Len(higher) + Len(rest) : all[i] = IF i <= Len(higher) THEN higher[i] ELSE rest[i - Len(higher)]
  BY <1>1, <1>9, ConcatProperties
<1> HIDE DEF all
<1>11. /\ \A i \in 1 .. Len(higher) : i \in 1 .. Len(all) /\ all[i] = higher[i]
       /\ \A i \in 1 .. Len(rest) : Len(higher) + i \in 1 .. Len(all) /\ all[Len(higher) + i] = rest[i]
  <2>1. Len(rest) \in Nat
    BY <1>1
  <2>2. ASSUME NEW i \in 1 .. Len(higher)
        PROVE  i \in 1 .. Len(all) /\ all[i] = higher[i]
    <3>1. i \in 1 .. Len(higher) + Len(rest) /\ i <= Len(higher)
      BY <1>5, <2>1
    <3> QED  BY <1>10, <3>1
  <2>3. ASSUME NEW i \in 1 .. Len(rest)
        PROVE  Len(higher) + i \in 1 .. Len(all) /\ all[Len(higher) + i] = rest[i]
    <3>1. Len(higher) + i \in 1 .. Len(higher) + Len(rest) /\ ~(Len(higher) + i <= Len(higher)) /\ Len(higher) + i - Len(higher) = i
      BY <1>5, <2>1
    <3> QED  BY <1>10, <3>1
  <2> QED  BY <2>2, <2>3
<1>12. ASSUME NEW i \in 1 .. Len(all) PROVE IsWalk(g, name, all[i])
  <2>1. CASE i <= Len(higher)
    <3>1. i \in 1 .. Len(higher)
      BY <1>5, <2>1
    <3> QED  BY <1>8, <1>11, <3>1
  <2>2. CASE ~(i <= Len(higher))
    <3>1. i - Len(higher) \in 1 .. Len(rest) /\ Len(higher) + (i - Len(higher)) = i
      BY <1>1, <1>5, <1>10, <2>2
    <3>2. i - Len(higher) \in 1 .. Len(todo) - 1 /\ i - Len(higher) + 1 \in 1 .. Len(todo)
      BY <1>1, <3>1
    <3>3. all[i] = todo[i - Len(higher) + 1]
      BY <1>1, <1>11, <3>1, <3>2
    <3> QED  BY <3>2, <3>3 DEF Told
  <2> QED  BY <2>1, <2>2
<1>13. ASSUME NEW c \in Seq(Ids(g)), IsWalk(g, name, c), Top(g, c[1]), Ends(p, c)
       PROVE  \E v \in L : Ends(v, c)
  <2>1. PICK k \in Nat : Len(c) = k + Len(p) /\ \A i \in 1 .. Len(p) : p[i] = c[k + i]
    BY <1>13 DEF Ends
  <2>2. Len(p) \in Nat \ {0} /\ DOMAIN p = 1 .. Len(p) /\ 1 \in 1 .. Len(p)
    BY <1>2, PathParts DEF IsWalk
  <2>3. k # 0
    <3>1. CASE k = 0
      <4>1. p[1] = c[0 + 1] /\ 0 + 1 = 1
        BY <2>1, <2>2, <3>1
      <4> QED  BY <1>13, <4>1 DEF p
    <3> QED  BY <3>1
  <2>4. k \in 1 .. Len(c) - 1 /\ k \in 1 .. Len(c) /\ k - 1 \in Nat
    BY <2>1, <2>2, <2>3
  <2>5. <<c[k], c[k + 1]>> \in g.edges
    BY <1>13, <2>4 DEF IsWalk, IsPath
  <2>6. <<c[k], p[1]>> \in g.edges /\ c[k] \in ParentsOf(g, p[1])
    BY <2>1, <2>2, <2>5 DEF ParentsOf
  <2>7. c[k] \notin Range(p)
    <3>1. ASSUME NEW i \in 1 .. Len(p) PROVE p[i] # c[k]
      <4>1. k + i \in 1 .. Len(c) /\ k + i # k
        BY <2>1, <2>2
      <4>2. \A a, b \in 1 .. Len(c) : c[a] = c[b] => a = b
        BY <1>13, PathParts DEF IsWalk
      <4> QED  BY <2>1, <2>4, <4>1, <4>2
    <3> QED  BY <2>2, <3>1 DEF Range
  <2> DEFINE v == <<c[k]>> \o p
  <2>8. v \in L
    BY <2>6, <2>7 DEF from
  <2>9. c[k] \in Ids(g)
    BY <1>3, <2>6, <2>7 DEF from
  <2>10. Len(v) = Len(p) + 1 /\ v[1] = c[k] /\ \A i \in 1 .. Len(p) : v[i + 1] = p[i]
    BY <1>1, <2>9, Prepended
  <2> HIDE DEF v
  <2>11. ASSUME NEW i \in 1 .. Len(v) PROVE v[i] = c[k - 1 + i]
    <3>1. CASE i = 1
      <4>1. k - 1 + 1 = k
        OBVIOUS
      <4> QED  BY <2>10, <3>1, <4>1
    <3>2. CASE i # 1
      <4>1. i - 1 \in 1 .. Len(p) /\ i - 1 + 1 = i /\ k + (i - 1) = k - 1 + i
        BY <2>2, <2>10, <3>2
      <4>2. v[i] = p[i - 1] /\ p[i - 1] = c[k + (i - 1)]
        BY <2>1, <2>10, <4>1
      <4> QED  BY <4>1, <4>2
    <3> QED  BY <3>1, <3>2
  <2>12. Len(c) = k - 1 + Len(v)
    BY <2>1, <2>2, <2>10
  <2> QED  BY <2>4, <2>8, <2>11, <2>12 DEF Ends
<1>14. ASSUME ~cut, NEW c \in Seq(Ids(g)), IsWalk(g, name, c), Top(g, c[1])
       PROVE  \/ \E i \in 1 .. Len(done) : done[i] = c
              \/ \E i \in 1 .. Len(all) : Ends(all[i], c)
  <2>1. CASE \E i \in 1 .. Len(todo) : Ends(todo[i], c)
    <3>1. PICK i \in 1 .. Len(todo) : Ends(todo[i], c)
      BY <2>1
    <3>2. CASE i = 1
      <4>1. Ends(p, c)
        BY <1>1, <3>1, <3>2
      <4>2. PICK v \in L : Ends(v, c)
        BY <1>13, <1>14, <4>1
      <4> HIDE DEF L
      <4>3. PICK j \in 1 .. Len(higher) : higher[j] = v
        BY <1>5
      <4> QED  BY <1>11, <4>2, <4>3
    <3>3. CASE i # 1
      <4>1. i - 1 \in 1 .. Len(rest) /\ rest[i - 1] = todo[i]
        BY <1>1, <3>3
      <4> QED  BY <1>11, <3>1, <4>1
    <3> QED  BY <3>2, <3>3
  <2> QED  BY <1>14, <2>1 DEF Told
<1>15. Told(g, name, all, done, cut)
  BY <1>10, <1>12, <1>14 DEF Told
<1> QED  BY <1>15 DEF all, rest
-----------------------------------------------------------------------------
(* What is told when nothing is open explains the package. *)
LEMMA WithoutIs ==
  ASSUME NEW g, IsProject(g), NEW id
  PROVE  /\ IsGraph(Without(g, id)) /\ Without(g, id).roots = g.roots /\ Ids(Without(g, id)) = Ids(g)
         /\ Without(g, id).edges = {e \in g.edges : id # e[1] /\ id # e[2]}
<1>1. g = [roots |-> g.roots, nodes |-> g.nodes, edges |-> g.edges]
  BY DEF IsProject, IsGraph
<1>2. Without(g, id) = [roots |-> g.roots, nodes |-> g.nodes,
                        edges |-> {e \in g.edges : id \notin {e[1], e[2]}}]
  <2> DEFINE r == g.roots  n == g.nodes  d == g.edges
             h == [roots |-> r, nodes |-> n, edges |-> d]
  <2>1. [h EXCEPT !.edges = {e \in @ : id \notin {e[1], e[2]}}]
          = [roots |-> r, nodes |-> n, edges |-> {e \in d : id \notin {e[1], e[2]}}]
    <3> HIDE DEF r, n, d
    <3> QED  OBVIOUS
  <2>2. g = h
    BY <1>1
  <2> QED  BY <2>1, <2>2 DEF Without
<1>3. /\ Without(g, id).roots = g.roots /\ Without(g, id).nodes = g.nodes
      /\ Without(g, id).edges = {e \in g.edges : id # e[1] /\ id # e[2]}
      /\ Without(g, id) = [roots |-> Without(g, id).roots, nodes |-> Without(g, id).nodes,
                           edges |-> Without(g, id).edges]
  BY <1>2
<1>4. Ids(Without(g, id)) = Ids(g)
  BY <1>3 DEF Ids
<1> QED  BY <1>3, <1>4 DEF IsProject, IsGraph

(* A parent the roots reach is at the end of a path that leaves the package out. *)
LEMMA ParentPath ==
  ASSUME NEW g, IsProject(g), NEW id \in TreeKeys,
         NEW p \in ParentsOf(g, id) \cap FromRoots(Without(g, id))
  PROVE  \E q : IsPath(g, q) /\ q[1] \in g.roots /\ Last(q) = p /\ id \notin Range(q)
<1> DEFINE h == Without(g, id)
<1>1. /\ IsGraph(h) /\ h.roots = g.roots /\ Ids(h) = Ids(g)
      /\ h.edges = {e \in g.edges : id # e[1] /\ id # e[2]}
  BY WithoutIs
<1> HIDE DEF h
<1>2. \A e \in h.edges : e = <<e[1], e[2]>>
  BY <1>1 DEF IsProject
<1>3. g.roots \subseteq Ids(g) /\ id \notin g.roots
  BY GraphAssumption DEF IsProject, RootIds
<1>4. \E q : IsPath(h, q) /\ q[1] \in g.roots /\ Last(q) = p
  <2>1. p \in g.roots \/ \E r \in g.roots : p \in ReachableFrom(h, r)
    BY <1>1 DEF FromRoots, h
  <2>2. CASE p \in g.roots
    <3> DEFINE q == <<p>>
    <3>1. p \in Ids(h)
      BY <1>1, <1>3, <2>2
    <3>2. q \in Seq(Ids(h)) /\ Len(q) = 1 /\ q[1] = p /\ Last(q) = p
      BY <3>1 DEF Last
    <3>3. IsInjective(q) /\ 1 .. Len(q) - 1 = {}
      BY <3>2 DEF IsInjective
    <3> HIDE DEF q
    <3>4. IsPath(h, q)
      BY <3>2, <3>3 DEF IsPath
    <3> QED  BY <2>2, <3>2, <3>4
  <2>3. ASSUME NEW r \in g.roots, p \in ReachableFrom(h, r)
        PROVE  \E q : IsPath(h, q) /\ q[1] \in g.roots /\ Last(q) = p
    <3>1. r \in Ids(h)
      BY <1>1, <1>3
    <3> QED  BY <1>1, <1>2, <2>3, <3>1, ReachablePath
  <2> QED  BY <2>1, <2>2, <2>3
<1>5. PICK q : IsPath(h, q) /\ q[1] \in g.roots /\ Last(q) = p
  BY <1>4
<1>6. IsPath(g, q)
  BY <1>1, <1>5 DEF IsPath
<1>7. Len(q) \in Nat \ {0} /\ DOMAIN q = 1 .. Len(q)
  BY <1>6, PathParts
<1>8. ASSUME NEW i \in 1 .. Len(q) PROVE q[i] # id
  <2>1. CASE i # 1
    <3>1. i - 1 \in 1 .. Len(q) - 1 /\ i - 1 + 1 = i
      BY <1>7, <2>1
    <3>2. <<q[i - 1], q[i]>> \in h.edges
      BY <1>5, <3>1 DEF IsPath
    <3> QED  BY <1>1, <3>2
  <2> QED  BY <1>3, <1>5, <2>1
<1> QED  BY <1>5, <1>6, <1>7, <1>8 DEF Range

LEMMA ToldExplains ==
  ASSUME NEW g, IsProject(g), NEW name, NEW done, NEW cut, Told(g, name, <<>>, done, cut)
  PROVE  /\ \A i \in DOMAIN done : IsChain(g, done[i]) /\ Last(done[i])[1] = name
         /\ cut => Len(done) >= WhyMaxChains
         /\ ~cut => \A c : IsWalk(g, name, c) /\ c[1] \in g.roots => c \in Range(done)
         /\ \A c \in Range(done) : IsWalk(g, name, c)
<1>1. Len(done) \in Nat /\ DOMAIN done = 1 .. Len(done)
  BY LenProperties DEF Told
<1>2. \A i \in DOMAIN done : IsWalk(g, name, done[i]) /\ Top(g, done[i][1])
  BY <1>1 DEF Told
<1>3. ASSUME NEW c, IsWalk(g, name, c), Top(g, c[1])
      PROVE  IsChain(g, c) /\ Last(c)[1] = name
  <2>1. \A i \in 1 .. Len(c) - 1 : <<c[i], c[i + 1]>> \in g.edges /\ c[i + 1] \notin g.roots
    <3>1. TAKE i \in 1 .. Len(c) - 1
    <3>2. <<c[i], c[i + 1]>> \in g.edges
      BY <1>3 DEF IsWalk, IsPath
    <3>3. c[i + 1] \in TreeKeys
      BY <3>2 DEF IsProject
    <3> QED  BY <3>2, <3>3, GraphAssumption DEF IsProject, RootIds
  <2> QED  BY <1>3, <2>1 DEF IsChain, IsWalk, IsPath, Top
<1>4. cut => Len(done) >= WhyMaxChains
  BY DEF Told
<1>5. ASSUME ~cut, NEW c, IsWalk(g, name, c), c[1] \in g.roots PROVE c \in Range(done)
  <2>1. c \in Seq(Ids(g))
    BY <1>5 DEF IsWalk, IsPath
  <2>2. Len(<<>>) = 0 /\ 1 .. 0 = {}
    OBVIOUS
  <2>3. \E i \in 1 .. Len(done) : done[i] = c
    BY <1>5, <2>1, <2>2 DEF Told, Top
  <2> QED  BY <1>1, <2>3 DEF Range
<1> QED  BY <1>2, <1>3, <1>4, <1>5 DEF Range

(* The part of WhyExplains about one version. *)
Explained(g, roots, id, mine) ==
  /\ id \in Direct(g) <=> \E c \in mine : Len(c) = 2 /\ c[1] \in g.roots
  /\ \A p \in ParentsOf(g, id) \cap FromRoots(Without(g, id)) : \E c \in mine : c[Len(c) - 1] = p
  /\ WorkspacesOf(g, roots, id) = {r.id : r \in {x \in roots :
        IsWorkspace(x) /\ \E c \in mine : c[1] = x.id}}

LEMMA WalksExplain ==
  ASSUME NEW g, IsProject(g), NEW roots, {x.id : x \in roots} = RootIds, NEW id \in TreeKeys, NEW mine,
         \A c \in mine : IsPath(g, c) /\ Last(c) = id,
         \A c : IsPath(g, c) /\ Last(c) = id /\ c[1] \in g.roots => c \in mine
  PROVE  Explained(g, roots, id, mine)
<1>1. /\ IsGraph(g) /\ g.roots = RootIds /\ Ids(g) = RootIds \cup TreeKeys /\ id \notin g.roots
      /\ \A e \in g.edges : e = <<e[1], e[2]>>
  BY GraphAssumption DEF IsProject, RootIds
<1>2. ASSUME NEW r \in g.roots, <<r, id>> \in g.edges
      PROVE  \E c \in mine : Len(c) = 2 /\ c[1] \in g.roots
  <2> DEFINE c == <<r, id>>
  <2>1. c \in Seq(Ids(g)) /\ Len(c) = 2 /\ c[1] = r /\ c[2] = id /\ Last(c) = id
    BY <1>1 DEF Last
  <2>2. r # id
    BY <1>1
  <2>3. IsInjective(c)
    <3>1. DOMAIN c = {1, 2}
      BY <2>1, LenProperties
    <3> HIDE DEF c
    <3> QED  BY <2>1, <2>2, <3>1 DEF IsInjective
  <2>4. \A i \in 1 .. 2 - 1 : i = 1 /\ i + 1 = 2
    OBVIOUS
  <2>5. IsPath(g, c)
    <3>1. <<c[1], c[2]>> \in g.edges
      BY <1>2, <2>1
    <3> HIDE DEF c
    <3> QED  BY <2>1, <2>3, <2>4, <3>1 DEF IsPath
  <2> HIDE DEF c
  <2> QED  BY <2>1, <2>5
<1>3. ASSUME NEW c \in mine, Len(c) = 2, c[1] \in g.roots PROVE <<c[1], id>> \in g.edges
  <2>1. c[2] = id
    BY <1>3 DEF Last
  <2>2. 1 \in 1 .. 2 - 1 /\ 1 + 1 = 2
    OBVIOUS
  <2>3. <<c[1], c[2]>> \in g.edges
    BY <1>3, <2>2 DEF IsPath
  <2> QED  BY <2>1, <2>3
<1>4. id \in Direct(g) <=> \E r \in g.roots : <<r, id>> \in g.edges
  <2>1. ASSUME NEW r PROVE id \in Children(g, r) <=> <<r, id>> \in g.edges
    BY <1>1 DEF Children
  <2>2. id \in PackageIds(g)
    BY DEF IsProject
  <2> QED  BY <2>1, <2>2 DEF Direct
<1>5. ASSUME NEW p \in ParentsOf(g, id) \cap FromRoots(Without(g, id))
      PROVE  \E c \in mine : c[Len(c) - 1] = p
  <2>1. PICK q : IsPath(g, q) /\ q[1] \in g.roots /\ Last(q) = p /\ id \notin Range(q)
    BY ParentPath
  <2>2. id \in Ids(g) /\ <<Last(q), id>> \in g.edges
    BY <1>1, <2>1 DEF ParentsOf
  <2>3. IsPath(g, Append(q, id)) /\ Append(q, id)[1] = q[1] /\ Last(Append(q, id)) = id
    BY <2>1, <2>2, PathOn
  <2>4. Append(q, id) \in mine
    BY <2>1, <2>3
  <2>5. q \in Seq(Ids(g)) /\ Len(q) \in Nat \ {0} /\ Last(q) = q[Len(q)]
    BY <2>1, PathParts DEF IsPath
  <2>6. Len(Append(q, id)) = Len(q) + 1 /\ \A i \in 1 .. Len(q) : Append(q, id)[i] = q[i]
    BY <2>2, <2>5, AppendProperties
  <2>7. Len(q) + 1 - 1 = Len(q) /\ Len(q) \in 1 .. Len(q)
    BY <2>5
  <2>8. Append(q, id)[Len(Append(q, id)) - 1] = p
    BY <2>1, <2>5, <2>6, <2>7
  <2> QED  BY <2>4, <2>8
<1>6. ASSUME NEW x \in roots
      PROVE  id \in ReachableFrom(g, x.id) <=> \E c \in mine : c[1] = x.id
  <2>1. x.id \in g.roots /\ x.id \in Ids(g)
    BY <1>1
  <2>2. ASSUME id \in ReachableFrom(g, x.id) PROVE \E c \in mine : c[1] = x.id
    <3>1. PICK c : IsPath(g, c) /\ c[1] = x.id /\ Last(c) = id
      BY <1>1, <2>1, <2>2, ReachablePath
    <3> QED  BY <2>1, <3>1
  <2>3. ASSUME NEW c \in mine, c[1] = x.id PROVE id \in ReachableFrom(g, x.id)
    <3>1. IsPath(g, c) /\ Last(c) = id /\ Len(c) \in Nat \ {0} /\ Last(c) = c[Len(c)]
      BY PathParts
    <3>2. Len(c) # 1
      BY <1>1, <2>1, <2>3, <3>1
    <3>3. Len(c) \in 2 .. Len(c)
      <4>1. \A n \in Nat \ {0} : n # 1 => n \in 2 .. n
        OBVIOUS
      <4> QED  BY <3>1, <3>2, <4>1
    <3> QED  BY <1>1, <2>3, <3>1, <3>3, PathReaches
  <2> QED  BY <2>2, <2>3
<1>7. WorkspacesOf(g, roots, id) = {r.id : r \in {x \in roots : IsWorkspace(x) /\ \E c \in mine : c[1] = x.id}}
  BY <1>6 DEF WorkspacesOf
<1> QED  BY <1>2, <1>3, <1>4, <1>5, <1>7 DEF Explained

-----------------------------------------------------------------------------
(* Of the question asked, so much is told. *)
WhyInvariant ==
  /\ asked = {} => open = <<>> /\ chains = <<>> /\ truncated = FALSE
  /\ \A name \in asked : asked = {name} /\ Told(Project, name, open, chains, truncated)

LEMMA WhyInit == GraphInit => WhyInvariant
BY DEF GraphInit, WhyInvariant

LEMMA WhyStep == WhyInvariant /\ [GraphNext]_<<project, walk>> => WhyInvariant'
<1> SUFFICES ASSUME WhyInvariant, [GraphNext]_<<project, walk>> PROVE WhyInvariant'
  OBVIOUS
<1>1. ASSUME UNCHANGED project PROVE Project' = Project
  BY <1>1 DEF project, Project, ProjectRoots, Analysis
<1>2. CASE UNCHANGED <<project, walk>>
  BY <1>1, <1>2 DEF walk, WhyInvariant
<1>3. CASE Learn
  BY <1>3 DEF Learn, walk, WhyInvariant
<1>4. ASSUME NEW name \in TreeNames, Why(name) PROVE WhyInvariant'
  <2>1. Project' = Project /\ chains' = <<>> /\ truncated' = FALSE /\ asked' = {name}
    BY <1>1, <1>4 DEF Why, WhyInvariant
  <2>2. open' \in SetToSeqs({<<id>> : id \in {x \in PackageIds(Project) : x[1] = name}})
    BY <1>4 DEF Why
  <2>3. Told(Project, name, open', <<>>, FALSE)
    BY <2>2, ProjectIs, WhyTells
  <2> QED  BY <2>1, <2>3 DEF WhyInvariant
<1>5. ASSUME NEW name \in asked
      PROVE  asked = {name} /\ asked # {} /\ Told(Project, name, open, chains, truncated)
  BY DEF WhyInvariant
<1>6. open # <<>> => \E name \in asked : TRUE
  BY DEF WhyInvariant
<1>7. CASE LeaveOut
  <2>1. PICK name \in asked : TRUE
    BY <1>6, <1>7 DEF LeaveOut
  <2>2. Told(Project, name, Tail(open), chains, TRUE)
    BY <1>5, <1>7, LeaveOutTells DEF LeaveOut, Full
  <2> QED  BY <1>1, <1>5, <1>7, <2>2 DEF LeaveOut, WhyInvariant
<1>8. CASE Arrive
  <2>1. PICK name \in asked : TRUE
    BY <1>6, <1>8 DEF Arrive
  <2>2. open # <<>> /\ Top(Project, Head(open)[1])
    BY <1>8 DEF Arrive, IsTop, Top
  <2>3. Told(Project, name, Tail(open), Append(chains, Head(open)), truncated)
    BY <1>5, <2>2, ProjectIs, ArriveTells
  <2> QED  BY <1>1, <1>5, <1>8, <2>3 DEF Arrive, WhyInvariant
<1>9. CASE Climb
  <2>1. PICK name \in asked : TRUE
    BY <1>6, <1>9 DEF Climb
  <2>2. open # <<>> /\ ~Top(Project, Head(open)[1])
    BY <1>9 DEF Climb, IsTop, Top
  <2>3. PICK higher \in SetToSeqs({<<p>> \o Head(open) : p \in Onward(Head(open))}) : open' = higher \o Tail(open)
    BY <1>9 DEF Climb
  <2>4. higher \in SetToSeqs({<<q>> \o Head(open) : q \in ParentsOf(Project, Head(open)[1]) \ Range(Head(open))})
    BY DEF Onward
  <2>5. Told(Project, name, higher \o Tail(open), chains, truncated)
    BY <1>5, <2>2, <2>4, ProjectIs, ClimbTells
  <2> QED  BY <1>1, <1>5, <1>9, <2>3, <2>5 DEF Climb, WhyInvariant
<1> QED  BY <1>2, <1>3, <1>4, <1>7, <1>8, <1>9 DEF GraphNext, Explain

LEMMA WhyInvariantExplains == WhyInvariant => WhyExplains
<1> SUFFICES ASSUME WhyInvariant, open = <<>>, NEW name \in asked
             PROVE  LET g == Project IN
    /\ \A i \in DOMAIN chains : IsChain(g, chains[i]) /\ Last(chains[i])[1] = name
    /\ truncated => Len(chains) >= WhyMaxChains
    /\ ~truncated =>
         \A id \in {x \in TreeKeys : x[1] = name} :
           LET mine == {c \in Range(chains) : Last(c) = id}
           IN /\ id \in Direct(g) <=> \E c \in mine : Len(c) = 2 /\ c[1] \in g.roots
              /\ \A p \in ParentsOf(g, id) \cap FromRoots(Without(g, id)) : \E c \in mine : c[Len(c) - 1] = p
              /\ WorkspacesOf(g, ProjectRoots, id) = {r.id : r \in {x \in ProjectRoots :
                    IsWorkspace(x) /\ \E c \in mine : c[1] = x.id}}
  BY DEF WhyExplains
<1> DEFINE g == Project
<1>1. IsProject(g) /\ {x.id : x \in ProjectRoots} = RootIds
  BY ProjectIs
<1>2. Told(g, name, <<>>, chains, truncated)
  BY DEF WhyInvariant
<1> HIDE DEF g
<1>3. /\ \A i \in DOMAIN chains : IsChain(g, chains[i]) /\ Last(chains[i])[1] = name
      /\ truncated => Len(chains) >= WhyMaxChains
      /\ ~truncated => \A c : IsWalk(g, name, c) /\ c[1] \in g.roots => c \in Range(chains)
      /\ \A c \in Range(chains) : IsWalk(g, name, c)
  BY <1>1, <1>2, ToldExplains
<1>4. ASSUME ~truncated, NEW id \in TreeKeys, id[1] = name
      PROVE  LET mine == {c \in Range(chains) : Last(c) = id}
             IN /\ id \in Direct(g) <=> \E c \in mine : Len(c) = 2 /\ c[1] \in g.roots
                /\ \A p \in ParentsOf(g, id) \cap FromRoots(Without(g, id)) : \E c \in mine : c[Len(c) - 1] = p
                /\ WorkspacesOf(g, ProjectRoots, id) = {r.id : r \in {x \in ProjectRoots :
                      IsWorkspace(x) /\ \E c \in mine : c[1] = x.id}}
  <2> DEFINE mine == {c \in Range(chains) : Last(c) = id}
  <2>1. \A c \in mine : IsPath(g, c) /\ Last(c) = id
    BY <1>3 DEF IsWalk
  <2>2. \A c : IsPath(g, c) /\ Last(c) = id /\ c[1] \in g.roots => c \in mine
    BY <1>3, <1>4 DEF IsWalk
  <2> HIDE DEF mine
  <2>3. Explained(g, ProjectRoots, id, mine)
    BY <1>1, <2>1, <2>2, WalksExplain
  <2> QED  BY <2>3 DEF mine, Explained
<1>5. ~truncated =>
         \A id \in {x \in TreeKeys : x[1] = name} :
           LET mine == {c \in Range(chains) : Last(c) = id}
           IN /\ id \in Direct(g) <=> \E c \in mine : Len(c) = 2 /\ c[1] \in g.roots
              /\ \A p \in ParentsOf(g, id) \cap FromRoots(Without(g, id)) : \E c \in mine : c[Len(c) - 1] = p
              /\ WorkspacesOf(g, ProjectRoots, id) = {r.id : r \in {x \in ProjectRoots :
                    IsWorkspace(x) /\ \E c \in mine : c[1] = x.id}}
  BY <1>4
<1> QED  BY <1>3, <1>5 DEF g

(* `targate why` explains a package and all of it (whyChains, graph.ts:514-545),
   in whatever order the edges and the versions of the package come.          *)
THEOREM WhyIsExplained == GraphSpec => []WhyExplains
<1>1. GraphSpec => []WhyInvariant
  BY WhyInit, WhyStep, PTL DEF GraphSpec
<1> QED  BY <1>1, WhyInvariantExplains, PTL

-----------------------------------------------------------------------------
(* The advisory commands together: nothing that one of them learns or computes
   touches what another does, so that what is shown of each holds of all.     *)
THEOREM AdviceIsEach == AdviceSpec => GraphSpec /\ RecommendSpec /\ DiffSpec /\ PullSpec
<1>1. AdviceInit => GraphInit /\ RecommendInit /\ DiffInit /\ PullInit
  BY DEF AdviceInit
<1>2. ASSUME [AdviceNext]_adviceVars
      PROVE  /\ [GraphNext]_<<project, walk>>
             /\ [RecommendNext]_<<hits, names>>
             /\ [DiffNext]_<<package, lock>>
             /\ [PullNext]_pr
  <2>1. CASE Graph
    BY <2>1 DEF Graph, GraphNext, searchVars
  <2>2. CASE Ask
    BY <2>2 DEF Ask, GraphNext, searchVars
  <2>3. CASE Suggestions
    BY <2>3 DEF Suggestions, graphVars
  <2>4. CASE Diff
    BY <2>4 DEF Diff, DiffNext, graphVars, searchVars
  <2>5. CASE \E e \in Entries : Lockfiles(e)
    BY <2>5 DEF Lockfiles, DiffNext, graphVars, searchVars
  <2>6. CASE Pull
    BY <2>6 DEF Pull, graphVars, searchVars
  <2>7. CASE UNCHANGED adviceVars
    BY <2>7 DEF adviceVars, graphVars, searchVars
  <2> QED  BY <1>2, <2>1, <2>2, <2>3, <2>4, <2>5, <2>6, <2>7 DEF AdviceNext
<1> QED  BY <1>1, <1>2, PTL DEF AdviceSpec, GraphSpec, RecommendSpec, DiffSpec, PullSpec
=============================================================================
