------------------------------ MODULE ProxyVet ------------------------------
(***************************************************************************)
(* The vetting path of the registry proxy: src/src/proxy.ts (Semaphore,    *)
(* singleFlight, resolveTarballUrl, fetchAndVet, the tarball branch of     *)
(* handleRequest, the control API), src/src/proxy-approvals.ts             *)
(* (PendingApprovals) and src/src/proxy-cache.ts (ProxyVerdictCache).      *)
(*                                                                         *)
(* Client connections ask for the tarball of a package (a name@version)    *)
(* under a credential.  Requests with the same vetKey share one FLIGHT.  A *)
(* flight waits for a slot of the vet gate, learns the tarball URL (from   *)
(* the memo, or from a packument it fetches), downloads the bytes, looks   *)
(* their digest up in the verdict cache, and on a miss analyses them.  An  *)
(* analysis that ends in require_approval gives its slot back and waits in *)
(* PendingApprovals for a human or for the hold timer.                     *)
(*                                                                         *)
(* One action is one macrotask of the Node event loop: it runs from the    *)
(* completion of one await to the next await that cannot complete at once. *)
(* The continuation of a settled hold is a microtask; it is the action     *)
(* Resume, and no macrotask starts before every such continuation has run  *)
(* (MicrotasksDrained).  A digest stands for the bytes it is the SHA-512   *)
(* of.                                                                     *)
(***************************************************************************)
EXTENDS Naturals, Sequences, FiniteSets

CONSTANTS
  Clients,      \* client connections, each with at most one open request
  Packages,     \* name@version
  Creds,        \* upstream credentials (an uplink's, or the one the client sent)
  Digests,      \* tarball contents
  NoDigest,     \* "no bytes"
  NoKey,        \* "no request"
  Keys,         \* the pairs of package and credential that clients ask with
  Upstream,     \* Upstream[p, c]: contents the registry may return for p to c
  Rating,       \* Rating[d]: decisions evaluateRules may reach on the bytes d
  MaxVets,      \* MAX_CONCURRENT_VETS
  MaxHolds,     \* PendingApprovals.maxConcurrent
  MaxCached,    \* ProxyVerdictCache.maxEntries
  MaxMemo,      \* MAX_TARBALL_MEMO
  DiskMayFail   \* whether ProxyVerdictCache.persist may throw

(* The verdicts, and those whose bytes may be served (ALLOWED). *)
Decisions == {"allow", "allow_with_warnings", "require_approval", "block"}
ALLOWED == {"allow", "allow_with_warnings"}

(* What identifies a flight: requests with different credentials never share
   bytes.  The upstream origin is a function of the package (targetFor).     *)
VetKeyIgnoringCredential(k) == CHOOSE j \in Keys : j[1] = k[1]
VetKey(k) == k

ASSUME ProxyAssumption ==
  /\ NoDigest \notin Digests /\ NoKey \notin Keys
  /\ Upstream \in [Keys -> SUBSET Digests]
  /\ Rating \in [Digests -> SUBSET Decisions]
  /\ MaxVets \in Nat \ {0}
  /\ MaxHolds \in Nat
  /\ MaxCached \in Nat \ {0}
  /\ MaxMemo \in Nat \ {0}
  /\ DiskMayFail \in BOOLEAN
  /\ Keys \in SUBSET (Packages \X Creds) /\ Keys # {}
  /\ IsFiniteSet(Keys) /\ IsFiniteSet(Digests)

VARIABLES
  reply,      \* reply[c]: "idle", "waiting", or how the last request ended
  asked,      \* asked[c]: the package and credential of c's open or served request
  received,   \* received[c]: the bytes it was served
  phase,      \* phase[k]: where the flight of k is, "none" when there is none
  bytes,      \* bytes[k]: the digest of the body the flight of k buffers
  outcome,    \* outcome[k]: how the hold of k was settled, while "resumed"
  slots,      \* Semaphore.available
  waiters,    \* Semaphore.waiters
  holds,      \* PendingApprovals.entries: the flights chained on each digest
  memo,       \* tarballUrlMemo
  verdict,    \* ProxyVerdictCache.entries, "none" when absent
  order,      \* insertion order of those entries
  disk,       \* proxy-verdicts.json
  cleared,    \* history: bytes an analysis or a human has allowed
  condemned   \* history: bytes an analysis or a human has blocked

clientVars == <<reply, asked, received>>
flightVars == <<phase, bytes, outcome>>
gateVars   == <<slots, waiters>>
cacheVars  == <<verdict, order, disk>>
history    == <<cleared, condemned>>
vars == <<clientVars, flightVars, gateVars, holds, memo, cacheVars, history>>

Replies == {"idle", "waiting", "served", "refused", "error"}
Phases  == {"none", "queued", "packument", "tarball", "deciding", "held", "resumed"}
InGate  == {"packument", "tarball", "deciding"}   \* phases that own a slot
Outcomes == {"none", "approve", "deny", "timeout"}
Verdicts == ALLOWED \cup {"block", "none"}

TypeOK ==
  /\ reply \in [Clients -> Replies]
  /\ asked \in [Clients -> Keys \cup {NoKey}]
  /\ received \in [Clients -> Digests \cup {NoDigest}]
  /\ phase \in [Keys -> Phases]
  /\ bytes \in [Keys -> Digests \cup {NoDigest}]
  /\ outcome \in [Keys -> Outcomes]
  /\ slots \in Nat
  /\ waiters \in Seq(Keys)
  /\ holds \in [Digests -> Seq(Keys)]
  /\ memo \in SUBSET Packages
  /\ verdict \in [Digests -> Verdicts]
  /\ order \in Seq(Digests)
  /\ disk \in [verdict : [Digests -> Verdicts], order : Seq(Digests)]
  /\ cleared \in SUBSET Digests
  /\ condemned \in SUBSET Digests

-----------------------------------------------------------------------------
(* The event loop. *)

MicrotasksDrained == \A k \in Keys : phase[k] # "resumed"

-----------------------------------------------------------------------------
(* Semaphore. *)

(* A released slot is handed to the first waiter, whose flight goes on at
   once to resolveTarballUrl: to the tarball when the memo knows the URL.    *)
AfterAcquire(k) == IF k[1] \in memo THEN "tarball" ELSE "packument"

Woken == IF waiters = <<>> THEN {} ELSE {Head(waiters)}

ReleaseKeepsQueue ==
  /\ slots' = IF waiters = <<>> THEN slots + 1 ELSE slots
  /\ UNCHANGED waiters

ReleaseTwice ==
  /\ slots' = slots + 1
  /\ waiters' = IF waiters = <<>> THEN waiters ELSE Tail(waiters)

Release ==
  /\ slots' = IF waiters = <<>> THEN slots + 1 ELSE slots
  /\ waiters' = IF waiters = <<>> THEN waiters ELSE Tail(waiters)

LeaveGateLosingWakeup(k, next) ==
  /\ slots' = slots + 1
  /\ phase' = [phase EXCEPT ![k] = next]
  /\ UNCHANGED waiters

(* The flight of k gives its slot back and moves to phase next. *)
LeaveGate(k, next) ==
  /\ Release
  /\ phase' = [j \in Keys |-> IF j = k THEN next
                              ELSE IF j \in Woken THEN AfterAcquire(j)
                              ELSE phase[j]]

-----------------------------------------------------------------------------
(* ProxyVerdictCache. *)

CacheGet(d) == verdict[d]

SetInMemoryUnbounded(d, v) ==
  /\ order' = IF verdict[d] = "none" THEN Append(order, d) ELSE order
  /\ verdict' = [verdict EXCEPT ![d] = v]

(* entries.set keeps the place of a digest it overwrites; past the bound the
   oldest entry goes.                                                        *)
SetInMemory(d, v) ==
  LET grown == IF verdict[d] = "none" THEN Append(order, d) ELSE order
      over  == Len(grown) > MaxCached
  IN /\ order' = IF over THEN Tail(grown) ELSE grown
     /\ verdict' = [e \in Digests |-> IF over /\ e = Head(grown) THEN "none"
                                      ELSE IF e = d THEN v ELSE verdict[e]]

Persist == disk' = [verdict |-> verdict', order |-> order']

CacheSet(d, v) == SetInMemory(d, v) /\ Persist

(* persist() throws after the map has changed. *)
CacheSetThrows(d, v) == DiskMayFail /\ SetInMemory(d, v) /\ UNCHANGED disk

-----------------------------------------------------------------------------
(* Answering: every request coalesced on k gets the result of its flight.   *)

CoalescedFirstOnly(k) ==
  LET C == {c \in Clients : reply[c] = "waiting" /\ VetKey(asked[c]) = k}
  IN {c \in C : c = CHOOSE any \in C : TRUE}

Coalesced(k) == {c \in Clients : reply[c] = "waiting" /\ VetKey(asked[c]) = k}

Serve(k, d) ==
  /\ reply' = [c \in Clients |-> IF c \in Coalesced(k) THEN "served" ELSE reply[c]]
  /\ received' = [c \in Clients |-> IF c \in Coalesced(k) THEN d ELSE received[c]]
  /\ UNCHANGED asked

TurnAway(C, how) ==
  /\ reply' = [c \in Clients |-> IF c \in C THEN how ELSE reply[c]]
  /\ asked' = [c \in Clients |-> IF c \in C THEN NoKey ELSE asked[c]]
  /\ UNCHANGED received

AnswerError(k) == TurnAway(Coalesced(k), "error")

AnswerWithoutCheck(k, d, v) == Serve(k, d)

AnswerDecision(k, d, v) ==
  IF v \in ALLOWED THEN Serve(k, d) ELSE TurnAway(Coalesced(k), "refused")

ForgetFlight(k) ==
  /\ bytes' = [bytes EXCEPT ![k] = NoDigest]
  /\ outcome' = [outcome EXCEPT ![k] = "none"]

FailSilently(k) ==
  /\ LeaveGate(k, "none")
  /\ ForgetFlight(k)
  /\ UNCHANGED clientVars

(* The flight of k rejects: a 502 for all, and the slot is given back. *)
FailFromGate(k) ==
  /\ AnswerError(k)
  /\ LeaveGate(k, "none")
  /\ ForgetFlight(k)

-----------------------------------------------------------------------------
Init ==
  /\ reply = [c \in Clients |-> "idle"]
  /\ asked = [c \in Clients |-> NoKey]
  /\ received = [c \in Clients |-> NoDigest]
  /\ phase = [k \in Keys |-> "none"]
  /\ bytes = [k \in Keys |-> NoDigest]
  /\ outcome = [k \in Keys |-> "none"]
  /\ slots = MaxVets
  /\ waiters = <<>>
  /\ holds = [d \in Digests |-> <<>>]
  /\ memo = {}
  /\ verdict = [d \in Digests |-> "none"]
  /\ order = <<>>
  /\ disk = [verdict |-> verdict, order |-> order]
  /\ cleared = {}
  /\ condemned = {}

(* handleRequest, tarball branch: join the flight of the vetKey, or start one
   and acquire the gate.                                                     *)
JoinFlight(k) ==
  /\ phase[k] # "none"
  /\ UNCHANGED <<flightVars, gateVars>>

StartFlight(k) ==
  /\ phase[k] = "none"
  /\ IF slots > 0
     THEN /\ slots' = slots - 1
          /\ phase' = [phase EXCEPT ![k] = AfterAcquire(k)]
          /\ UNCHANGED waiters
     ELSE /\ waiters' = Append(waiters, k)
          /\ phase' = [phase EXCEPT ![k] = "queued"]
          /\ UNCHANGED slots
  /\ UNCHANGED <<bytes, outcome>>

RequestTarball(c, k) ==
  /\ MicrotasksDrained
  /\ reply[c] # "waiting"
  /\ reply' = [reply EXCEPT ![c] = "waiting"]
  /\ asked' = [asked EXCEPT ![c] = k]
  /\ received' = [received EXCEPT ![c] = NoDigest]
  /\ JoinFlight(VetKey(k)) \/ StartFlight(VetKey(k))
  /\ UNCHANGED <<holds, memo, cacheVars, history>>

(* A client aborts its request (npm's fetch-timeout).  Nothing in the server
   listens for that: the flight goes on, and its answer goes nowhere.        *)
ClientGivesUp(c) ==
  /\ MicrotasksDrained
  /\ reply[c] = "waiting"
  /\ TurnAway({c}, "idle")
  /\ UNCHANGED <<flightVars, gateVars, holds, memo, cacheVars, history>>

(* rememberTarballUrl: a full memo is dropped wholesale. *)
Remember(p) == memo' = IF Cardinality(memo) >= MaxMemo THEN {p} ELSE memo \cup {p}

(* handleRequest, packument branch: serving a packument fills the memo. *)
ServePackument(p) ==
  /\ MicrotasksDrained
  /\ Remember(p)
  /\ UNCHANGED <<clientVars, flightVars, gateVars, holds, cacheVars, history>>

(* resolveTarballUrl after a memo miss: the packument names a tarball on the
   same origin; or it does not arrive or lacks the version, or it points
   elsewhere (which is remembered all the same), and the flight rejects.     *)
PackumentFetched(k) ==
  /\ MicrotasksDrained
  /\ phase[k] = "packument"
  /\ Remember(k[1])
  /\ phase' = [phase EXCEPT ![k] = "tarball"]
  /\ UNCHANGED <<clientVars, bytes, outcome, gateVars, holds, cacheVars, history>>

PackumentFailed(k) ==
  /\ MicrotasksDrained
  /\ phase[k] = "packument"
  /\ UNCHANGED memo \/ Remember(k[1])
  /\ FailFromGate(k)
  /\ UNCHANGED <<holds, cacheVars, history>>

(* The tarball arrives with the bytes d; a cached verdict on d decides. *)
TarballFetched(k, d) ==
  /\ MicrotasksDrained
  /\ phase[k] = "tarball"
  /\ d \in Upstream[k]
  /\ IF CacheGet(d) # "none"
     THEN /\ AnswerDecision(k, d, CacheGet(d))
          /\ LeaveGate(k, "none")
          /\ ForgetFlight(k)
     ELSE /\ phase' = [phase EXCEPT ![k] = "deciding"]
          /\ bytes' = [bytes EXCEPT ![k] = d]
          /\ UNCHANGED <<clientVars, outcome, gateVars>>
  /\ UNCHANGED <<holds, memo, cacheVars, history>>

(* Upstream's own error is passed through, a network failure or a remembered
   URL on another origin is a 502, and none of them is a verdict.            *)
TarballFailed(k) ==
  /\ MicrotasksDrained
  /\ phase[k] = "tarball"
  /\ FailFromGate(k)
  /\ UNCHANGED <<holds, memo, cacheVars, history>>

(* decide ended in a verdict that needs no human: record it and answer.  The
   guard on the analysed digest can only turn a verdict into block, which
   Rating may contain for every digest.                                      *)
DecisionFinal(k, v) ==
  /\ MicrotasksDrained
  /\ phase[k] = "deciding"
  /\ v \in Rating[bytes[k]] \ {"require_approval"}
  /\ \/ CacheSet(bytes[k], v) /\ AnswerDecision(k, bytes[k], v)
     \/ CacheSetThrows(bytes[k], v) /\ AnswerError(k)
  /\ LeaveGate(k, "none")
  /\ ForgetFlight(k)
  /\ cleared' = IF v \in ALLOWED THEN cleared \cup {bytes[k]} ELSE cleared
  /\ condemned' = IF v \in ALLOWED THEN condemned ELSE condemned \cup {bytes[k]}
  /\ UNCHANGED <<holds, memo>>

(* buildPackageSignals threw. *)
DecisionFailed(k) ==
  /\ MicrotasksDrained
  /\ phase[k] = "deciding"
  /\ FailFromGate(k)
  /\ UNCHANGED <<holds, memo, cacheVars, history>>

(* PendingApprovals.atCapacity. *)
Held == {d \in Digests : holds[d] # <<>>}
AtCapacity == Cardinality(Held) >= MaxHolds

(* PendingApprovals.register: open a hold on d, or chain on the one there. *)
Register(k, d) == holds' = [holds EXCEPT ![d] = Append(@, k)]

NeedsApproval(k) ==
  /\ MicrotasksDrained
  /\ phase[k] = "deciding"
  /\ "require_approval" \in Rating[bytes[k]]

(* The approval queue is full: refuse, and record nothing. *)
ApprovalQueueFull(k) ==
  /\ NeedsApproval(k)
  /\ AtCapacity
  /\ AnswerDecision(k, bytes[k], "block")
  /\ LeaveGate(k, "none")
  /\ ForgetFlight(k)
  /\ UNCHANGED <<holds, memo, cacheVars, history>>

(* Give the slot back, then wait for the human. *)
HoldForApproval(k) ==
  /\ NeedsApproval(k)
  /\ ~AtCapacity
  /\ LeaveGate(k, "held")
  /\ Register(k, bytes[k])
  /\ UNCHANGED <<clientVars, bytes, outcome, memo, cacheVars, history>>

(* entry.settle(o) on the holds of D: the whole chain is resolved. *)
ChainOf(d) == {holds[d][i] : i \in DOMAIN holds[d]}

Settle(K, o) ==
  /\ phase' = [k \in Keys |-> IF k \in K THEN "resumed" ELSE phase[k]]
  /\ outcome' = [k \in Keys |-> IF k \in K THEN o ELSE outcome[k]]
  /\ UNCHANGED bytes

DeleteNone(D) == UNCHANGED holds
Delete(D) == holds' = [d \in Digests |-> IF d \in D THEN <<>> ELSE holds[d]]

(* The control API's decide on a name@version: every hold whose FIRST flight
   was for it.                                                               *)
HoldsFor(p) == {d \in Held : Head(holds[d])[1] = p}

HumanDecides(p, o) ==
  /\ MicrotasksDrained
  /\ HoldsFor(p) # {}
  /\ Settle(UNION {ChainOf(d) : d \in HoldsFor(p)}, o)
  /\ Delete(HoldsFor(p))
  /\ cleared' = IF o = "approve" THEN cleared \cup HoldsFor(p) ELSE cleared
  /\ condemned' = IF o = "deny" THEN condemned \cup HoldsFor(p) ELSE condemned
  /\ UNCHANGED <<clientVars, gateVars, memo, cacheVars>>

(* The hold timer deletes the entry and resolves the promise of the flight
   that opened it, `resolve("timeout")`; it does not call entry.settle, so
   the flights chained behind it are not resolved.                           *)
HoldTimesOut(d) ==
  /\ MicrotasksDrained
  /\ d \in Held
  /\ Settle({Head(holds[d])}, "timeout")
  /\ Delete({d})
  /\ UNCHANGED <<clientVars, gateVars, memo, cacheVars, history>>

(* The rest of fetchAndVet once the hold is settled. *)
EnforcedFailOpen(o) == IF o = "deny" THEN "block" ELSE "allow"
EnforcedAsRated(o) == IF o = "approve" THEN "allow" ELSE "require_approval"
Enforced(o) == IF o = "approve" THEN "allow" ELSE "block"
PersistAlways(o) == TRUE
PersistOutcome(o) == o # "timeout"

Resume(k) ==
  /\ phase[k] = "resumed"
  /\ LET d == bytes[k]
         v == Enforced(outcome[k])
     IN \/ PersistOutcome(outcome[k]) /\ CacheSet(d, v) /\ AnswerDecision(k, d, v)
        \/ PersistOutcome(outcome[k]) /\ CacheSetThrows(d, v) /\ AnswerError(k)
        \/ ~PersistOutcome(outcome[k]) /\ UNCHANGED cacheVars /\ AnswerDecision(k, d, v)
  /\ phase' = [phase EXCEPT ![k] = "none"]
  /\ ForgetFlight(k)
  /\ UNCHANGED <<gateVars, holds, memo, history>>

(* The daemon dies and is started again: connections break, holds and
   flights are gone, the verdict cache is what the file says.                *)
Restart ==
  /\ TurnAway({c \in Clients : reply[c] = "waiting"}, "error")
  /\ phase' = [k \in Keys |-> "none"]
  /\ bytes' = [k \in Keys |-> NoDigest]
  /\ outcome' = [k \in Keys |-> "none"]
  /\ slots' = MaxVets
  /\ waiters' = <<>>
  /\ holds' = [d \in Digests |-> <<>>]
  /\ memo' = {}
  /\ verdict' = disk.verdict
  /\ order' = disk.order
  /\ UNCHANGED <<disk, history>>

-----------------------------------------------------------------------------
FlightStep(k) ==
  \/ PackumentFetched(k) \/ PackumentFailed(k)
  \/ \E d \in Digests : TarballFetched(k, d)
  \/ TarballFailed(k)
  \/ \E v \in Decisions : DecisionFinal(k, v)
  \/ DecisionFailed(k)
  \/ ApprovalQueueFull(k) \/ HoldForApproval(k)
  \/ Resume(k)

Next ==
  \/ \E c \in Clients, k \in Keys : RequestTarball(c, k)
  \/ \E c \in Clients : ClientGivesUp(c)
  \/ \E p \in Packages : ServePackument(p)
  \/ \E k \in Keys : FlightStep(k)
  \/ \E p \in Packages, o \in {"approve", "deny"} : HumanDecides(p, o)
  \/ \E d \in Digests : HoldTimesOut(d)
  \/ Restart

Spec == Init /\ [][Next]_vars

(* Fetches and analyses run under timeouts and budgets, so each ends; the
   hold timer fires.  Both are macrotasks that other work only delays, hence
   strong fairness; a microtask cannot be delayed.  Clients, humans and
   restarts owe nothing.                                                     *)
Fairness ==
  /\ \A k \in Keys : WF_vars(Resume(k)) /\ SF_vars(FlightStep(k))
  /\ \A d \in Digests : SF_vars(HoldTimesOut(d))

FairSpec == Spec /\ Fairness
-----------------------------------------------------------------------------
(* Safety. *)

(* Fail closed (proxy.ts, ALLOWED; docs/proxy.md "it fails closed"): bytes
   reach a client only after an analysis or a human has allowed exactly those
   bytes, whichever flight, cache entry, hold or restart they came through.  *)
FailClosed ==
  \A c \in Clients : reply[c] = "served" => received[c] \in cleared

(* A shared proxy never serves one caller bytes that caller's own credential
   could not have fetched (the comment on inflightVets).                     *)
OwnBytes ==
  \A c \in Clients : reply[c] = "served" => received[c] \in Upstream[asked[c]]

(* The verdict cache and its file hold final judgements only: an allow was
   given by an analysis or a human, and so was a block.  A hold that timed
   out or found the queue full leaves no verdict (persist = false).          *)
Justified(cached) ==
  \A d \in Digests : /\ cached[d] \in ALLOWED => d \in cleared
                     /\ cached[d] = "block" => d \in condemned
VerdictsJustified == Justified(verdict) /\ Justified(disk.verdict)

(* The gate neither leaks nor invents slots: free slots and flights that
   fetch or analyse always add up to MAX_CONCURRENT_VETS, a flight that waits
   for a human owns none, and nobody queues while a slot is free.            *)
GateConserved ==
  /\ Cardinality({k \in Keys : phase[k] \in InGate}) + slots = MaxVets
  /\ waiters # <<>> => slots = 0

(* No wakeup is lost and none is given twice: the flights that wait for the
   gate are exactly those in its queue, each once.                           *)
NoLostWaiter ==
  /\ \A k \in Keys : phase[k] = "queued" <=> \E i \in DOMAIN waiters : waiters[i] = k
  /\ \A i, j \in DOMAIN waiters : waiters[i] = waiters[j] => i = j

(* Holds stay within their cap, and every flight chained on a hold waits for
   a human on exactly the bytes of that hold, once.                          *)
HoldsWellFormed ==
  /\ Cardinality(Held) <= MaxHolds
  /\ \A d \in Digests : \A i \in DOMAIN holds[d] :
       /\ phase[holds[d][i]] = "held" /\ bytes[holds[d][i]] = d
       /\ \A j \in DOMAIN holds[d] : holds[d][i] = holds[d][j] => i = j

(* A client that waits has a flight that will answer it (singleFlight deletes
   its entry no earlier than it settles).                                    *)
NoForgottenRequest ==
  \A c \in Clients : reply[c] = "waiting" => phase[VetKey(asked[c])] # "none"

(* Nothing gets lost on the way of a request through flights, gate and holds: no
   request without a flight, no slot, no waiter, no flight on a hold.         *)
NothingLost == NoForgottenRequest /\ GateConserved /\ NoLostWaiter /\ HoldsWellFormed

(* The cache stays within maxEntries and its order lists exactly its entries,
   in memory and in the file.                                                *)
Bounded(cached, listed) ==
  /\ Len(listed) <= MaxCached
  /\ {listed[i] : i \in DOMAIN listed} = {d \in Digests : cached[d] # "none"}
  /\ \A i, j \in DOMAIN listed : listed[i] = listed[j] => i = j
CacheBounded == Bounded(verdict, order) /\ Bounded(disk.verdict, disk.order)

-----------------------------------------------------------------------------
(* Liveness. *)

(* Holds never starve the gate: a flight that queues for it gets on, however
   long humans take (the comment on releaseGate).                            *)
GateNotStarved ==
  \A k \in Keys : phase[k] = "queued" ~> phase[k] # "queued"

(* The only request that may wait for ever is one whose flight was chained
   behind another flight's hold when that hold timed out.                    *)
Stranded(k) == phase[k] = "held" /\ k \notin ChainOf(bytes[k])

AnsweredOrStranded ==
  \A c \in Clients : reply[c] = "waiting" ~>
    reply[c] # "waiting" \/ Stranded(VetKey(asked[c]))

(* What the code promises of a hold: "Resolves when a decision arrives or the
   hold times out" (src/src/proxy-approvals.ts:48).                          *)
HoldsResolve ==
  \A k \in Keys : phase[k] = "held" ~> phase[k] # "held"

-----------------------------------------------------------------------------
(* The proxy implements what it promises its clients: every step of a flight,
   the gate, the caches or a hold is one the promise allows, or changes nothing
   a client could see.                                                       *)
Promise == INSTANCE VetPromise
  WITH Clients <- Clients, Keys <- Keys, Digests <- Digests, NoDigest <- NoDigest, NoKey <- NoKey,
       Upstream <- Upstream, reply <- reply, asked <- asked, received <- received,
       cleared <- cleared, condemned <- condemned
KeepsPromise == Promise!Spec
=============================================================================
