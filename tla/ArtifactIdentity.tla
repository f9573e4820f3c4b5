--------------------------- MODULE ArtifactIdentity ---------------------------
(***************************************************************************)
(* What the bytes of a tarball are checked against: checkTarballIntegrity  *)
(* and verifyArtifactIdentity of src/src/quarantine.ts, the public evidence*)
(* of fetchArtifactEvidence (src/src/registry.ts), and the comparison of   *)
(* the manifest inside the tarball with the registry's metadata            *)
(* (bindMetadataToTarball, src/src/pipeline.ts).                           *)
(*                                                                         *)
(* Bytes are abstract values and a checksum names the bytes it was made of,*)
(* so two different tarballs never share one.                              *)
(***************************************************************************)
EXTENDS Naturals, Sequences

CONSTANT NoBytes   \* the bytes no checksum names

(* SRI_ALGORITHMS, the strongest first. *)
Strength == <<"sha512", "sha384", "sha256", "sha1">>
SriAlgorithms == {Strength[i] : i \in DOMAIN Strength}

(* Checksums: the entries of an SRI string in their order, <<>> when there is
   no such string or it is the empty one (blank), and the legacy shasum.     *)
NoChecksums == [integrity |-> <<>>, blank |-> FALSE, shasum |-> NoBytes]

(* The strongest algorithm the SRI string names, if any. *)
Named(cs) == {a \in SriAlgorithms : \E i \in DOMAIN cs.integrity : cs.integrity[i].algorithm = a}
Strongest(cs) ==
  Strength[CHOOSE i \in DOMAIN Strength :
             /\ Strength[i] \in Named(cs)
             /\ \A j \in 1..(i - 1) : Strength[j] \notin Named(cs)]
(* Of several entries of that algorithm, the first is the one compared. *)
Compared(cs) ==
  cs.integrity[CHOOSE i \in DOMAIN cs.integrity :
                 /\ cs.integrity[i].algorithm = Strongest(cs)
                 /\ \A j \in 1..(i - 1) : cs.integrity[j].algorithm # Strongest(cs)]

CheckTarballIntegrity(bytes, cs) ==
  IF Named(cs) # {} THEN [ok |-> Compared(cs).of = bytes, algorithm |-> Strongest(cs)]
  ELSE IF cs.shasum # NoBytes THEN [ok |-> cs.shasum = bytes, algorithm |-> "shasum"]
  ELSE [ok |-> TRUE, algorithm |-> "none"]

(* An empty string is not nullish, so the shasum beside it is not asked for;
   and it is falsy, so the source counts as one that declares nothing.       *)
Declared(cs) == cs.integrity # <<>> \/ (~cs.blank /\ cs.shasum # NoBytes)

(* A checksum nobody declared says nothing; one that cannot be computed
   counts as a mismatch.                                                     *)
VerifyEvidence(bytes, cs) ==
  LET check == CheckTarballIntegrity(bytes, cs)
  IN IF ~Declared(cs) THEN "absent"
     ELSE IF check.ok /\ check.algorithm # "none" THEN "match" ELSE "mismatch"

(* PublicArtifactEvidence: what the anonymous request to the public registry
   came to.                                                                  *)
PublicStatus == {"available", "not-found", "unavailable", "skipped"}

Trusts == {"public-equivalent", "lockfile-verified", "history-verified", "registry-consistent",
           "private-only", "unverified", "public-unavailable", "mutated"}

(* The evidence of one artifact: the registry's and the lockfile's checksums,
   the digest of the ledger (NoBytes when it has none), the public registry. *)
History(o) == [integrity |-> IF o.history = NoBytes THEN <<>>
                             ELSE <<[algorithm |-> "sha512", of |-> o.history]>>,
               blank |-> FALSE, shasum |-> NoBytes]
Public(o) == IF o.public = "available" THEN o.publicChecksums ELSE NoChecksums

(* The answers of the four sources about these bytes. *)
Answers(bytes, o) ==
  [registry |-> VerifyEvidence(bytes, o.registry),
   lockfile |-> VerifyEvidence(bytes, o.lockfile),
   history  |-> VerifyEvidence(bytes, History(o)),
   public   |-> VerifyEvidence(bytes, Public(o))]

VerifyBestFirst(bytes, o) ==
  LET a == Answers(bytes, o)
  IN IF a.public = "match" THEN "public-equivalent"
     ELSE IF a.lockfile = "match" /\ o.lockfileTrusted THEN "lockfile-verified"
     ELSE IF a.history = "match" THEN "history-verified"
     ELSE IF "mismatch" \in {a.registry, a.lockfile, a.public} THEN "mutated"
     ELSE IF a.registry = "match" THEN "registry-consistent" ELSE "unverified"

VerifyArtifactIdentity(bytes, o) ==
  LET a == Answers(bytes, o)
  IN IF "mismatch" \in {a.registry, a.lockfile, a.history, a.public} THEN "mutated"
     ELSE IF a.public = "match" THEN "public-equivalent"
     ELSE IF a.lockfile = "match" /\ o.lockfileTrusted THEN "lockfile-verified"
     ELSE IF a.history = "match" THEN "history-verified"
     ELSE IF o.public = "unavailable" THEN "public-unavailable"
     ELSE IF o.public = "not-found"
          THEN IF Declared(o.registry) THEN "private-only" ELSE "unverified"
     ELSE IF a.registry = "match" THEN "registry-consistent"
     ELSE "unverified"

IsChecksumVerified(trust) ==
  trust \in {"public-equivalent", "lockfile-verified", "history-verified",
             "registry-consistent", "private-only"}

(* How the manifest in the tarball and the registry's metadata disagree. *)
Disagreements == {"unreadable", "identity", "hidden_hook", "declared_hook", "dependencies"}

Mutations == {"unreadable", "identity", "hidden_hook"}

(* A hook only the metadata declares and other dependencies are drift on bytes
   that a checksum vouches for, and a mutation otherwise.                    *)
BindMetadata(trust, disagree) ==
  LET drifts == disagree \ Mutations # {} /\ IsChecksumVerified(trust)
  IN IF disagree \cap Mutations # {} THEN [trust |-> "mutated", drift |-> FALSE]
     ELSE [trust |-> IF disagree = {} \/ drifts THEN trust ELSE "mutated", drift |-> drifts]
=============================================================================
