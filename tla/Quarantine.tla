------------------------------ MODULE Quarantine ------------------------------
(***************************************************************************)
(* One package on its way through the quarantine: fetchArtifactGuarded and *)
(* readResponseBuffer of src/src/network.ts, quarantineTarball of          *)
(* src/src/quarantine.ts, and the steps of buildPackageSignals             *)
(* (src/src/pipeline.ts) that use what it extracted.                       *)
(*                                                                         *)
(* The registry chooses every answer: redirects, statuses, sizes, what the *)
(* archive holds.  Sizes are in units.                                     *)
(***************************************************************************)
EXTENDS ArtifactIdentity, FiniteSetsExt, Functions

CONSTANTS
  Origins,            \* servers a redirect may lead to
  Home,               \* the one of the tarball URL
  Unsafe,             \* those assertSafeArtifactUrl or assertHostResolvesPublic refuse
  Archives,           \* what a tarball may be
  Evidence,           \* what the bytes may be checked against
  MaxHops,            \* redirects followed
  MaxTarballBytes, MaxExtractedBytes, MaxFiles, MaxFileBytes   \* ResolvedResourceLimits

Limits == {MaxTarballBytes, MaxExtractedBytes, MaxFiles, MaxFileBytes}

ASSUME QuarantineAssumption ==
  /\ Home \in Origins /\ Unsafe \subseteq Origins
  /\ {MaxHops} \cup Limits \subseteq Nat
  /\ \A x \in Archives : /\ x.size \in Nat /\ x.inflated \in Nat
                         /\ Len(x.entries) \in Nat
                         /\ \A i \in 1..Len(x.entries) : x.entries[i].size \in Nat
  /\ \A o \in Evidence : \A cs \in {o.registry, o.lockfile, o.publicChecksums} :
       Len(cs.integrity) \in Nat /\ DOMAIN cs.integrity = 1..Len(cs.integrity)

VARIABLES
  pc,         \* where the analysis of the package is
  archive,    \* the tarball the registry serves
  evidence,   \* what its bytes are checked against
  at,         \* the origin asked now
  hop,        \* redirects followed
  credential, \* whether the next request carries the Authorization header
  sent,       \* the origins that were sent the credential
  root,       \* the temporary directory exists
  next,       \* the next entry of the archive
  extracted,  \* the entries written to disk
  counted,    \* archiveFiles and archiveBytes
  breach,     \* archiveFailure
  result,     \* what buildPackageSignals made of it
  scanning    \* the static scan is running

request == <<at, hop, credential, sent>>
disk    == <<root, next, extracted, counted, breach>>
vars == <<pc, archive, evidence, request, disk, result, scanning>>

Ended == {"analysed", "degraded", "failed"}
NoResult == [trust |-> "none", drift |-> FALSE]

Init ==
  /\ pc = "request"
  /\ archive \in Archives
  /\ evidence \in Evidence
  /\ at = Home /\ hop = 0
  /\ credential \in BOOLEAN     \* .npmrc has one for this registry
  /\ sent = {}
  /\ root = TRUE
  /\ next = 1
  /\ extracted = {}
  /\ counted = [files |-> 0, bytes |-> 0]
  /\ breach = FALSE
  /\ result = NoResult
  /\ scanning = FALSE

Goto(from, to) == pc = from /\ pc' = to

RejectsLeaving(from, to) ==
  /\ Goto(from, to)
  /\ result' = NoResult
  /\ root' = (to = "degraded")
  /\ UNCHANGED <<archive, evidence, request, next, extracted, counted, breach, scanning>>

(* Every failure of the quarantine removes its directory first; an identity
   that was established is lost with it.                                     *)
CleanUp == root' = FALSE
Rejects(from, to) ==
  /\ Goto(from, to)
  /\ CleanUp
  /\ result' = NoResult
  /\ UNCHANGED <<archive, evidence, request, next, extracted, counted, breach, scanning>>

-----------------------------------------------------------------------------
(* The download. *)

(* Every hop is checked before it is asked. *)
Send ==
  /\ Goto("request", "response")
  /\ at \notin Unsafe
  /\ sent' = IF credential THEN sent \cup {at} ELSE sent
  /\ UNCHANGED <<archive, evidence, at, hop, credential, disk, result, scanning>>

RefuseHost == at \in Unsafe /\ Rejects("request", "failed")

FollowRedirectKeeping(o) ==
  /\ Goto("response", "request")
  /\ hop < MaxHops
  /\ at' = o
  /\ hop' = hop + 1
  /\ UNCHANGED <<archive, evidence, credential, sent, disk, result, scanning>>

FollowRedirectUncounted(o) ==
  /\ Goto("response", "request")
  /\ hop < MaxHops
  /\ at' = o
  /\ credential' = (credential /\ o = at)
  /\ UNCHANGED <<archive, evidence, hop, sent, disk, result, scanning>>

(* The header is dropped when a redirect leaves the origin that was asked. *)
FollowRedirect(o) ==
  /\ Goto("response", "request")
  /\ hop < MaxHops
  /\ at' = o
  /\ hop' = hop + 1
  /\ credential' = (credential /\ o = at)
  /\ UNCHANGED <<archive, evidence, sent, disk, result, scanning>>

TooManyRedirects == hop >= MaxHops /\ Rejects("response", "failed")

(* The server has failed, or answers with a status that is no success. *)
BadStatus == Rejects("response", "failed")

Answer ==
  /\ Goto("response", "body")
  /\ UNCHANGED <<archive, evidence, request, disk, result, scanning>>

(* The time limit of the request covers its body. *)
TimeOut ==
  \/ Rejects("response", "degraded")
  \/ Rejects("body", "degraded")

ReadBody ==
  /\ Goto("body", "identify")
  /\ archive.size <= MaxTarballBytes
  /\ UNCHANGED <<archive, evidence, request, disk, result, scanning>>

TarballTooLarge == archive.size > MaxTarballBytes /\ Rejects("body", "degraded")

-----------------------------------------------------------------------------
(* Identity and extraction. *)

(* The verdict on the bytes is reached before the archive is opened. *)
Identify ==
  /\ Goto("identify", "store")
  /\ result' = [trust |-> VerifyArtifactIdentity(archive.content, evidence), drift |-> FALSE]
  /\ UNCHANGED <<archive, evidence, request, disk, scanning>>

Store ==
  /\ Goto("store", "inflate")
  /\ UNCHANGED <<archive, evidence, request, disk, result, scanning>>

(* A full disk: nothing catches the failure of this write. *)
StoreFails ==
  /\ Goto("store", "failed")
  /\ result' = NoResult
  /\ UNCHANGED <<archive, evidence, request, disk, scanning>>

StreamCap == MaxExtractedBytes + MaxFiles

Inflate ==
  /\ Goto("inflate", "extract")
  /\ archive.inflated <= StreamCap
  /\ UNCHANGED <<archive, evidence, request, disk, result, scanning>>

DecompressionBomb == archive.inflated > StreamCap /\ Rejects("inflate", "degraded")

Entry == archive.entries[next]
More == next <= Len(archive.entries)

BreaksSingly(e) ==
  \/ e.escapes
  \/ e.kind # "link" /\ (counted.files + 1 > MaxFiles \/ e.size > MaxFileBytes)

(* The filter of the extraction: a link is left out, an entry beyond a limit
   or outside of the directory ends it, and every later entry is left out.   *)
Breaks(e) ==
  \/ e.escapes
  \/ /\ e.kind # "link"
     /\ \/ counted.files + 1 > MaxFiles
        \/ e.size > MaxFileBytes
        \/ counted.bytes + e.size > MaxExtractedBytes

Skip ==
  /\ pc = "extract" /\ More
  /\ breach \/ Breaks(Entry) \/ Entry.kind = "link"
  /\ breach' = (breach \/ Breaks(Entry))
  /\ next' = next + 1
  /\ UNCHANGED <<pc, archive, evidence, request, root, extracted, counted, result, scanning>>

Extract ==
  /\ pc = "extract" /\ More
  /\ ~breach /\ ~Breaks(Entry) /\ Entry.kind # "link"
  /\ extracted' = extracted \cup {next}
  /\ counted' = [files |-> counted.files + 1, bytes |-> counted.bytes + Entry.size]
  /\ next' = next + 1
  /\ UNCHANGED <<pc, archive, evidence, request, root, breach, result, scanning>>

ExtractionEnds ==
  /\ ~More /\ ~breach
  /\ Goto("extract", "verify")
  /\ UNCHANGED <<archive, evidence, request, disk, result, scanning>>

ExtractionBreached == ~More /\ breach /\ Rejects("extract", "degraded")

(* node-tar is strict: a corrupt archive fails at any entry. *)
CorruptArchive == archive.corrupt /\ Rejects("extract", "failed")

(* The one top-level directory, or "package" when there is not exactly one. *)
Tops == {archive.entries[i].top : i \in extracted}
PackageDir == IF Cardinality(Tops) = 1 THEN CHOOSE t \in Tops : TRUE ELSE "package"

(* verifyExtractedTree counts what is below the package directory again, the
   directories that no entry names among it.                                 *)
Below == {i \in extracted : archive.entries[i].top = PackageDir}
Parents == MapThenSumSet(LAMBDA i : archive.entries[i].parents, Below)
TreeTooLarge == Cardinality(Below) + Parents > MaxFiles

VerifyTree ==
  /\ Goto("verify", "bind")
  /\ ~TreeTooLarge
  /\ UNCHANGED <<archive, evidence, request, disk, result, scanning>>

TreeBreached == TreeTooLarge /\ Rejects("verify", "degraded")

-----------------------------------------------------------------------------
(* What the pipeline does with the quarantined package. *)

(* With no single top-level directory there may be no manifest to read. *)
Manifest == IF \E i \in Below : archive.entries[i].kind = "manifest" THEN archive.disagree
            ELSE {"unreadable"}

Bind ==
  /\ Goto("bind", "scan")
  /\ result' = BindMetadata(result.trust, Manifest)
  /\ scanning' = TRUE
  /\ UNCHANGED <<archive, evidence, request, disk>>

(* Reading the files, the fingerprint, the selection for the audit; the
   directory is removed whatever comes of it.                                *)
ScanEnds ==
  /\ Goto("scan", "analysed")
  /\ scanning' = FALSE
  /\ CleanUp
  /\ UNCHANGED <<archive, evidence, request, next, extracted, counted, breach, result>>

(* Out of time: the scan goes on without anybody waiting for it. *)
ScanBudget ==
  /\ Goto("scan", "degraded")
  /\ CleanUp
  /\ UNCHANGED <<archive, evidence, request, next, extracted, counted, breach, result, scanning>>

LateScan ==
  /\ pc = "degraded" /\ scanning
  /\ scanning' = FALSE
  /\ UNCHANGED <<pc, archive, evidence, request, disk, result>>

ScanFails ==
  /\ Goto("scan", "failed")
  /\ scanning' = FALSE
  /\ result' = NoResult
  /\ CleanUp
  /\ UNCHANGED <<archive, evidence, request, next, extracted, counted, breach>>

-----------------------------------------------------------------------------
Local ==
  \/ Send \/ RefuseHost \/ TarballTooLarge
  \/ Identify \/ Store \/ StoreFails \/ Inflate \/ DecompressionBomb
  \/ Skip \/ Extract \/ ExtractionEnds \/ ExtractionBreached \/ CorruptArchive
  \/ VerifyTree \/ TreeBreached \/ Bind
  \/ ScanEnds \/ ScanBudget \/ ScanFails \/ LateScan

Server ==
  \/ \E o \in Origins : FollowRedirect(o)
  \/ TooManyRedirects \/ BadStatus \/ Answer \/ ReadBody

Next == Local \/ Server \/ TimeOut

Spec == Init /\ [][Next]_vars

(* The server owes nothing: what makes the analysis end are its own steps and
   the time limits.                                                          *)
FairSpec == Spec /\ WF_vars(Local) /\ WF_vars(TimeOut)

-----------------------------------------------------------------------------
(* The registry's credential is sent to no server but the registry's own,
   however its redirects lead away and back again (fetchArtifactGuarded).    *)
CredentialStaysHome == sent \subseteq {Home}

SizeOf(entries, S) == SumFunctionOnSet([i \in 1..Len(entries) |-> entries[i].size], S)

(* Whatever an archive declares, and in whatever order: what has been written
   at any moment is within the limits, inside of the directory, and no link. *)
DiskBounded ==
  /\ Cardinality(extracted) <= MaxFiles
  /\ SizeOf(archive.entries, extracted) <= MaxExtractedBytes
  /\ \A i \in extracted : /\ ~archive.entries[i].escapes
                          /\ archive.entries[i].kind # "link"
                          /\ archive.entries[i].size <= MaxFileBytes

(* The analysis never leaves an extracted package in the temporary directory,
   except when storing the tarball itself fails, which nothing catches.      *)
QuarantineRemoved == [][pc' \in Ended /\ root' => StoreFails]_vars

Names(cs, bytes) == bytes \in {cs.shasum} \cup {cs.integrity[i].of : i \in DOMAIN cs.integrity}

(* A package is reported as verified only when some source names exactly these
   bytes, no source that declares a checksum names others, and what npm would run
   from the tarball is what the registry showed, also when the scan was cut short. *)
TrustJustified ==
  pc \in Ended /\ IsChecksumVerified(result.trust) =>
    LET sources == {evidence.registry, evidence.lockfile, History(evidence), Public(evidence)}
    IN /\ \A cs \in sources : Declared(cs) => Names(cs, archive.content)
       /\ \E cs \in sources : Names(cs, archive.content)
       /\ Manifest \cap Mutations = {}

(* Servers that stall, redirect for ever or send junk: the analysis ends. *)
QuarantineEnds == <>(pc \in Ended)
=============================================================================
