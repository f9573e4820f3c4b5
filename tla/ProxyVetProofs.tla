--------------------------- MODULE ProxyVetProofs ---------------------------
(***************************************************************************)
(* Proofs about ProxyVet, for every set of clients, packages, credentials  *)
(* and contents and every bound.                                           *)
(***************************************************************************)
EXTENDS ProxyVet, SequenceTheorems, FiniteSetTheorems, TLAPS

(***************************************************************************)
(* What the parts shared by several actions do to the types.               *)
(***************************************************************************)
LEMMA LeaveGateTypes ==
  ASSUME TypeOK, NEW k \in Keys, NEW next \in Phases, LeaveGate(k, next)
  PROVE  /\ slots' \in Nat /\ waiters' \in Seq(Keys)
         /\ phase' \in [Keys -> Phases]
<1>1. AfterAcquire(k) \in Phases /\ \A j \in Keys : AfterAcquire(j) \in Phases
  BY DEF AfterAcquire, Phases
<1>2. waiters # <<>> => Tail(waiters) \in Seq(Keys)
  BY DEF TypeOK
<1> QED
  BY <1>1, <1>2 DEF TypeOK, LeaveGate, Release

LEMMA CacheTypes ==
  ASSUME ProxyAssumption, TypeOK, NEW d \in Digests, NEW v \in Verdicts,
         CacheSet(d, v) \/ CacheSetThrows(d, v)
  PROVE  /\ verdict' \in [Digests -> Verdicts] /\ order' \in Seq(Digests)
         /\ disk' \in [verdict : [Digests -> Verdicts], order : Seq(Digests)]
<1> DEFINE grown == IF verdict[d] = "none" THEN Append(order, d) ELSE order
<1>1. grown \in Seq(Digests)
  BY DEF TypeOK
<1>2. SetInMemory(d, v)
  BY DEF CacheSet, CacheSetThrows
<1>3. order' \in Seq(Digests)
  <2>1. CASE Len(grown) > MaxCached
    <3>1. grown # <<>>
      BY <2>1 DEF ProxyAssumption
    <3> QED  BY <1>1, <1>2, <2>1, <3>1 DEF SetInMemory
  <2>2. CASE ~(Len(grown) > MaxCached)
    BY <1>1, <1>2, <2>2 DEF SetInMemory
  <2> QED  BY <2>1, <2>2
<1>4. verdict' \in [Digests -> Verdicts]
  BY <1>2 DEF SetInMemory, TypeOK, Verdicts
<1> QED
  BY <1>3, <1>4 DEF CacheSet, CacheSetThrows, Persist, TypeOK

LEMMA AnswerTypes ==
  ASSUME TypeOK, NEW k \in Keys, NEW d \in Digests, NEW v,
         AnswerDecision(k, d, v) \/ AnswerError(k)
  PROVE  /\ reply' \in [Clients -> Replies]
         /\ asked' \in [Clients -> Keys \cup {NoKey}]
         /\ received' \in [Clients -> Digests \cup {NoDigest}]
BY DEF TypeOK, AnswerDecision, AnswerError, Serve, TurnAway, Replies

LEMMA ErrorTypes ==
  ASSUME TypeOK, NEW k \in Keys, AnswerError(k)
  PROVE  /\ reply' \in [Clients -> Replies]
         /\ asked' \in [Clients -> Keys \cup {NoKey}]
         /\ received' \in [Clients -> Digests \cup {NoDigest}]
BY DEF TypeOK, AnswerError, TurnAway, Replies

LEMMA ForgetTypes ==
  ASSUME TypeOK, NEW k \in Keys, ForgetFlight(k)
  PROVE  bytes' \in [Keys -> Digests \cup {NoDigest}] /\ outcome' \in [Keys -> Outcomes]
BY DEF TypeOK, ForgetFlight, Outcomes

-----------------------------------------------------------------------------
(***************************************************************************)
(* The inductive invariant.  FailClosed and VerdictsJustified are not      *)
(* inductive: a served request takes its bytes from a flight, whose bytes  *)
(* and hold were filled steps earlier.                                     *)
(***************************************************************************)
Phased(k) ==
  /\ phase[k] \in {"deciding", "held", "resumed"} => bytes[k] \in Upstream[k]
  /\ phase[k] = "resumed" =>
       /\ outcome[k] \in {"approve", "deny", "timeout"}
       /\ outcome[k] = "approve" => bytes[k] \in cleared
       /\ outcome[k] = "deny" => bytes[k] \in condemned
FlightsCoherent == \A k \in Keys : Phased(k)

ChainsHeld ==
  \A d \in Digests : \A i \in DOMAIN holds[d] :
    phase[holds[d][i]] = "held" /\ bytes[holds[d][i]] = d

QueueCoherent ==
  \A i \in DOMAIN waiters :
    /\ phase[waiters[i]] = "queued"
    /\ \A j \in DOMAIN waiters : waiters[i] = waiters[j] => i = j

ClientsCoherent ==
  \A c \in Clients :
    /\ reply[c] \in {"waiting", "served"} => asked[c] \in Keys
    /\ reply[c] = "waiting" => received[c] = NoDigest

Gated == {k \in Keys : phase[k] \in InGate}

AllQueued == \A k \in Keys : phase[k] = "queued" => \E i \in DOMAIN waiters : waiters[i] = k

GateInv ==
  /\ Cardinality(Gated) + slots = MaxVets
  /\ waiters # <<>> => slots = 0
  /\ AllQueued

IInv ==
  /\ TypeOK /\ FlightsCoherent /\ ChainsHeld /\ QueueCoherent /\ ClientsCoherent
  /\ FailClosed /\ OwnBytes /\ VerdictsJustified /\ NoForgottenRequest /\ GateInv

LEMMA UpstreamBytes ==
  ASSUME ProxyAssumption, NEW k \in Keys, NEW d \in Upstream[k]
  PROVE  d \in Digests
BY DEF ProxyAssumption

LEMMA RememberTypes ==
  ASSUME TypeOK, NEW p \in Packages, Remember(p)
  PROVE  memo' \in SUBSET Packages
BY DEF Remember, TypeOK

LEMMA TypeStep ==
  ASSUME ProxyAssumption, TypeOK, FlightsCoherent, ChainsHeld, [Next]_vars
  PROVE  TypeOK'
<1> USE DEF Replies, Phases, Outcomes
<1>1. ASSUME NEW c \in Clients, NEW k \in Keys, RequestTarball(c, k) PROVE TypeOK'
  <2>1. /\ phase' \in [Keys -> Phases] /\ slots' \in Nat /\ waiters' \in Seq(Keys)
        /\ UNCHANGED <<bytes, outcome>>
    <3>1. CASE JoinFlight(VetKey(k))
      <4>1. UNCHANGED <<phase, bytes, outcome, slots, waiters>>
        BY <3>1 DEF JoinFlight, flightVars, gateVars
      <4> QED  BY <4>1 DEF TypeOK
    <3>2. CASE StartFlight(VetKey(k))
      <4>1. AfterAcquire(k) \in Phases
        BY DEF AfterAcquire
      <4>2. CASE slots > 0
        BY <3>2, <4>1, <4>2 DEF StartFlight, VetKey, TypeOK
      <4>3. CASE ~(slots > 0)
        <5>1. /\ waiters' = Append(waiters, k) /\ phase' = [phase EXCEPT ![k] = "queued"]
              /\ UNCHANGED <<slots, bytes, outcome>>
          BY <3>2, <4>3 DEF StartFlight, VetKey
        <5> QED  BY <5>1 DEF TypeOK
      <4> QED  BY <4>2, <4>3
    <3> QED  BY <1>1, <3>1, <3>2 DEF RequestTarball
  <2> QED
    BY <1>1, <2>1 DEF RequestTarball, TypeOK, cacheVars, history
<1>2. ASSUME NEW c \in Clients, ClientGivesUp(c) PROVE TypeOK'
  BY <1>2 DEF ClientGivesUp, TurnAway, TypeOK, flightVars, gateVars, cacheVars, history
<1>3. ASSUME NEW p \in Packages, ServePackument(p) PROVE TypeOK'
  <2>1. memo' \in SUBSET Packages
    BY <1>3, RememberTypes DEF ServePackument
  <2> QED
    BY <1>3, <2>1 DEF ServePackument, TypeOK, clientVars, flightVars, gateVars, cacheVars, history
<1>4. ASSUME NEW k \in Keys, FlightStep(k) PROVE TypeOK'
  <2>1. CASE PackumentFetched(k)
    <3>1. k[1] \in Packages
      BY DEF ProxyAssumption
    <3>2. memo' \in SUBSET Packages
      BY <2>1, <3>1, RememberTypes DEF PackumentFetched
    <3> QED
      BY <2>1, <3>2 DEF PackumentFetched, TypeOK, clientVars, gateVars, cacheVars, history
  <2>2. CASE PackumentFailed(k) \/ TarballFailed(k) \/ DecisionFailed(k)
    <3>1. memo' \in SUBSET Packages
      <4>1. k[1] \in Packages
        BY DEF ProxyAssumption
      <4>2. memo' = memo \/ Remember(k[1])
        BY <2>2 DEF PackumentFailed, TarballFailed, DecisionFailed
      <4> QED  BY <4>1, <4>2, RememberTypes DEF TypeOK
    <3> QED
      BY <2>2, <3>1, LeaveGateTypes, ErrorTypes, ForgetTypes
      DEF PackumentFailed, TarballFailed, DecisionFailed, FailFromGate, TypeOK, cacheVars, history
  <2>3. ASSUME NEW d \in Digests, TarballFetched(k, d) PROVE TypeOK'
    <3>1. CASE CacheGet(d) # "none"
      BY <2>3, <3>1, LeaveGateTypes, AnswerTypes, ForgetTypes
      DEF TarballFetched, TypeOK, cacheVars, history
    <3>2. CASE CacheGet(d) = "none"
      <4>1. phase' \in [Keys -> Phases] /\ bytes' \in [Keys -> Digests \cup {NoDigest}]
        <5>1. phase' = [phase EXCEPT ![k] = "deciding"] /\ bytes' = [bytes EXCEPT ![k] = d]
          BY <2>3, <3>2 DEF TarballFetched
        <5> QED  BY <5>1 DEF TypeOK
      <4> QED
        BY <2>3, <3>2, <4>1 DEF TarballFetched, TypeOK, cacheVars, history, gateVars, clientVars
    <3> QED  BY <3>1, <3>2
  <2>4. ASSUME NEW v \in Decisions, DecisionFinal(k, v) PROVE TypeOK'
    <3>1. v \in Verdicts
      BY <2>4 DEF DecisionFinal, Decisions, Verdicts, ALLOWED
    <3>2. bytes[k] \in Digests
      BY <2>4, UpstreamBytes DEF DecisionFinal, FlightsCoherent, Phased
    <3>3. CacheSet(bytes[k], v) \/ CacheSetThrows(bytes[k], v)
      BY <2>4 DEF DecisionFinal
    <3>4. /\ verdict' \in [Digests -> Verdicts] /\ order' \in Seq(Digests)
          /\ disk' \in [verdict : [Digests -> Verdicts], order : Seq(Digests)]
      BY <3>1, <3>2, <3>3, CacheTypes
    <3>5. AnswerDecision(k, bytes[k], v) \/ AnswerError(k)
      BY <2>4 DEF DecisionFinal
    <3> QED
      BY <2>4, <3>2, <3>4, <3>5, LeaveGateTypes, AnswerTypes, ForgetTypes DEF DecisionFinal, TypeOK
  <2>5. CASE ApprovalQueueFull(k)
    <3>1. bytes[k] \in Digests
      BY <2>5, UpstreamBytes DEF ApprovalQueueFull, NeedsApproval, FlightsCoherent, Phased
    <3> QED
      BY <2>5, <3>1, LeaveGateTypes, AnswerTypes, ForgetTypes
      DEF ApprovalQueueFull, TypeOK, cacheVars, history
  <2>6. CASE HoldForApproval(k)
    <3>1. bytes[k] \in Digests
      BY <2>6, UpstreamBytes DEF HoldForApproval, NeedsApproval, FlightsCoherent, Phased
    <3>2. holds' \in [Digests -> Seq(Keys)]
      BY <2>6, <3>1 DEF HoldForApproval, Register, TypeOK
    <3> QED
      BY <2>6, <3>2, LeaveGateTypes
      DEF HoldForApproval, TypeOK, clientVars, cacheVars, history
  <2>7. CASE Resume(k)
    <3>1. bytes[k] \in Digests
      BY <2>7, UpstreamBytes DEF Resume, FlightsCoherent, Phased
    <3>2. Enforced(outcome[k]) \in Verdicts
      BY DEF Enforced, Verdicts, ALLOWED
    <3>3. /\ verdict' \in [Digests -> Verdicts] /\ order' \in Seq(Digests)
          /\ disk' \in [verdict : [Digests -> Verdicts], order : Seq(Digests)]
      BY <2>7, <3>1, <3>2, CacheTypes DEF Resume, TypeOK, cacheVars
    <3>4. AnswerDecision(k, bytes[k], Enforced(outcome[k])) \/ AnswerError(k)
      BY <2>7 DEF Resume
    <3> QED
      BY <2>7, <3>1, <3>3, <3>4, AnswerTypes, ForgetTypes
      DEF Resume, TypeOK, gateVars, history
  <2> QED  BY <1>4, <2>1, <2>2, <2>3, <2>4, <2>5, <2>6, <2>7 DEF FlightStep
<1>5. ASSUME NEW p \in Packages, NEW o \in {"approve", "deny"}, HumanDecides(p, o) PROVE TypeOK'
  BY <1>5 DEF HumanDecides, Settle, Delete, HoldsFor, Held, TypeOK,
    clientVars, gateVars, cacheVars
<1>6. ASSUME NEW d \in Digests, HoldTimesOut(d) PROVE TypeOK'
  BY <1>6 DEF HoldTimesOut, Settle, Delete, TypeOK, clientVars, gateVars, cacheVars, history
<1>7. CASE Restart
  BY <1>7 DEF Restart, TurnAway, TypeOK, ProxyAssumption, history
<1>8. CASE UNCHANGED vars
  BY <1>8 DEF vars, clientVars, flightVars, gateVars, cacheVars, history, TypeOK
<1> QED
  BY <1>1, <1>2, <1>3, <1>4, <1>5, <1>6, <1>7, <1>8 DEF Next

-----------------------------------------------------------------------------
(***************************************************************************)
(* Flights: what they buffer, which hold they are chained on, who queues.  *)
(***************************************************************************)
LEMMA LeaveGateShift ==
  ASSUME TypeOK, QueueCoherent, NEW k \in Keys, NEW next \in Phases \ {"queued"},
         phase[k] \in InGate, LeaveGate(k, next)
  PROVE  /\ phase'[k] = next
         /\ \A j \in Keys \ {k} :
             \/ phase'[j] = phase[j]
             \/ phase[j] = "queued" /\ phase'[j] \in {"packument", "tarball"}
         /\ QueueCoherent'
<1>1. waiters # <<>> => Head(waiters) \in Keys /\ phase[Head(waiters)] = "queued"
  BY DEF TypeOK, QueueCoherent
<1>2. phase'[k] = next
  BY DEF LeaveGate
<1>3. ASSUME NEW j \in Keys \ {k}
      PROVE  \/ phase'[j] = phase[j]
             \/ phase[j] = "queued" /\ phase'[j] \in {"packument", "tarball"}
  BY <1>1, <1>3 DEF LeaveGate, Woken, AfterAcquire
<1>4. QueueCoherent'
  <2>1. CASE waiters = <<>>
    BY <2>1 DEF LeaveGate, Release, QueueCoherent
  <2>2. CASE waiters # <<>>
    <3>1. waiters' = Tail(waiters) /\ Len(waiters) \in Nat /\ Len(waiters) > 0
      BY <2>2 DEF LeaveGate, Release, TypeOK
    <3>2. DOMAIN waiters' = 1..(Len(waiters) - 1) /\ DOMAIN waiters = 1..Len(waiters)
      BY <3>1, <2>2 DEF TypeOK
    <3>3. \A i \in DOMAIN waiters' : waiters'[i] = waiters[i + 1] /\ waiters[i + 1] \in Keys
      BY <3>1, <3>2, <2>2 DEF TypeOK
    <3>4. ASSUME NEW i \in DOMAIN waiters' PROVE phase'[waiters'[i]] = "queued"
      <4>1. i + 1 \in DOMAIN waiters /\ i + 1 # 1 /\ 1 \in DOMAIN waiters
        BY <3>1, <3>2, <3>4
      <4>2. phase[waiters[i + 1]] = "queued" /\ waiters[i + 1] # waiters[1]
        BY <4>1 DEF QueueCoherent
      <4>3. waiters[i + 1] # k
        BY <4>2 DEF InGate
      <4> QED
        BY <4>2, <4>3, <3>3, <3>4, <2>2 DEF LeaveGate, Woken
    <3>5. ASSUME NEW i \in DOMAIN waiters', NEW j \in DOMAIN waiters', waiters'[i] = waiters'[j]
          PROVE  i = j
      <4>1. i + 1 \in DOMAIN waiters /\ j + 1 \in DOMAIN waiters
        BY <3>1, <3>2, <3>5
      <4>2. i + 1 = j + 1
        BY <4>1, <3>3, <3>5 DEF QueueCoherent
      <4> QED  BY <4>2, <3>2, <3>1
    <3> QED  BY <3>4, <3>5 DEF QueueCoherent
  <2> QED  BY <2>1, <2>2
<1> QED  BY <1>2, <1>3, <1>4

(* A client that still waits after a flight has ended waits for another one. *)
LEMMA AnswerEffect ==
  ASSUME NEW k \in Keys, NEW d, NEW v, AnswerDecision(k, d, v) \/ AnswerError(k)
  PROVE  \A c \in Clients : reply'[c] = "waiting" =>
           reply[c] = "waiting" /\ asked'[c] = asked[c] /\ asked[c] # k
BY DEF AnswerDecision, AnswerError, Serve, TurnAway, Coalesced, VetKey

Coherent == FlightsCoherent /\ ChainsHeld /\ QueueCoherent

(* A flight that fetches or analyses ends: the slot moves on, the rest stays. *)
LEMMA FlightEnds ==
  ASSUME TypeOK, Coherent, ClientsCoherent, NoForgottenRequest,
         NEW k \in Keys, phase[k] \in InGate, LeaveGate(k, "none"), ForgetFlight(k),
         NEW d, NEW v, AnswerDecision(k, d, v) \/ AnswerError(k),
         UNCHANGED holds, cleared \subseteq cleared', condemned \subseteq condemned'
  PROVE  Coherent' /\ NoForgottenRequest'
<1>1. /\ phase'[k] = "none"
      /\ \A j \in Keys \ {k} :
           \/ phase'[j] = phase[j]
           \/ phase[j] = "queued" /\ phase'[j] \in {"packument", "tarball"}
      /\ QueueCoherent'
  BY LeaveGateShift DEF Coherent, Phases
<1>2. \A j \in Keys \ {k} : bytes'[j] = bytes[j] /\ outcome'[j] = outcome[j]
  BY DEF ForgetFlight, TypeOK
<1>3. FlightsCoherent'
  <2>1. ASSUME NEW j \in Keys PROVE Phased(j)'
    <3>1. CASE j = k
      BY <1>1, <3>1 DEF Phased
    <3>2. CASE j # k
      BY <1>1, <1>2, <3>2 DEF Phased, Coherent, FlightsCoherent
    <3> QED  BY <3>1, <3>2
  <2> QED  BY <2>1 DEF FlightsCoherent
<1>4. ChainsHeld'
  <2>1. ASSUME NEW e \in Digests, NEW i \in DOMAIN holds[e]
        PROVE  phase'[holds[e][i]] = "held" /\ bytes'[holds[e][i]] = e
    <3>1. holds[e][i] \in Keys /\ phase[holds[e][i]] = "held" /\ bytes[holds[e][i]] = e
      BY DEF TypeOK, Coherent, ChainsHeld
    <3> QED  BY <1>1, <1>2, <3>1 DEF InGate
  <2> QED  BY <2>1 DEF ChainsHeld
<1>5. NoForgottenRequest'
  <2>1. ASSUME NEW c \in Clients, reply'[c] = "waiting" PROVE phase'[VetKey(asked'[c])] # "none"
    <3>1. reply[c] = "waiting" /\ asked'[c] = asked[c] /\ asked[c] \in Keys \ {k}
      BY <2>1, AnswerEffect DEF ClientsCoherent
    <3> QED  BY <1>1, <3>1 DEF NoForgottenRequest, VetKey
  <2> QED  BY <2>1 DEF NoForgottenRequest, VetKey
<1> QED  BY <1>1, <1>3, <1>4, <1>5 DEF Coherent

LEMMA CoherentStep ==
  ASSUME ProxyAssumption, TypeOK, Coherent, ClientsCoherent, NoForgottenRequest, [Next]_vars
  PROVE  Coherent' /\ NoForgottenRequest'
<1>1. ASSUME NEW c \in Clients, NEW k \in Keys, RequestTarball(c, k)
      PROVE  Coherent' /\ NoForgottenRequest'
  <2>1. /\ UNCHANGED <<bytes, outcome, holds, cleared, condemned>>
        /\ reply' = [reply EXCEPT ![c] = "waiting"] /\ asked' = [asked EXCEPT ![c] = k]
    BY <1>1 DEF RequestTarball, JoinFlight, StartFlight, flightVars, history
  <2>2. /\ phase'[k] # "none" /\ \A j \in Keys \ {k} : phase'[j] = phase[j]
        /\ \/ phase'[k] = phase[k]
           \/ phase[k] = "none" /\ phase'[k] \in {"packument", "tarball", "queued"}
        /\ QueueCoherent'
    <3>1. CASE JoinFlight(VetKey(k))
      <4>1. phase[k] # "none" /\ UNCHANGED <<phase, waiters>>
        BY <3>1 DEF JoinFlight, flightVars, gateVars, VetKey
      <4>2. QueueCoherent'
        BY <4>1 DEF QueueCoherent, Coherent
      <4> QED  BY <4>1, <4>2
    <3>2. CASE StartFlight(VetKey(k)) /\ slots > 0
      <4>1. /\ phase[k] = "none" /\ phase' = [phase EXCEPT ![k] = AfterAcquire(k)]
            /\ UNCHANGED waiters
        BY <3>2 DEF StartFlight, VetKey
      <4>2. \A i \in DOMAIN waiters : waiters[i] \in Keys /\ waiters[i] # k
        BY <4>1 DEF TypeOK, QueueCoherent, Coherent
      <4>3. AfterAcquire(k) \in {"packument", "tarball"}
        BY DEF AfterAcquire
      <4> QED  BY <4>1, <4>2, <4>3 DEF QueueCoherent, Coherent, TypeOK
    <3>3. CASE StartFlight(VetKey(k)) /\ ~(slots > 0)
      <4>1. /\ phase[k] = "none" /\ phase' = [phase EXCEPT ![k] = "queued"]
            /\ waiters' = Append(waiters, k)
        BY <3>3 DEF StartFlight, VetKey
      <4>2. \A i \in DOMAIN waiters : waiters[i] \in Keys /\ waiters[i] # k
        BY <4>1 DEF TypeOK, QueueCoherent, Coherent
      <4>3. /\ DOMAIN waiters' = DOMAIN waiters \cup {Len(waiters) + 1}
            /\ \A i \in DOMAIN waiters : waiters'[i] = waiters[i]
            /\ waiters'[Len(waiters) + 1] = k
        BY <4>1 DEF TypeOK
      <4>4. phase'[k] = "queued" /\ \A j \in Keys \ {k} : phase'[j] = phase[j]
        BY <4>1 DEF TypeOK
      <4>5. QueueCoherent'
        BY <4>2, <4>3, <4>4 DEF QueueCoherent, Coherent
      <4> QED  BY <4>1, <4>4, <4>5
    <3> QED  BY <1>1, <3>1, <3>2, <3>3 DEF RequestTarball
  <2>3. FlightsCoherent'
    BY <2>1, <2>2 DEF Coherent, FlightsCoherent, Phased
  <2>4. ChainsHeld'
    <3>1. \A d \in Digests : \A i \in DOMAIN holds[d] : holds[d][i] \in Keys
      BY DEF TypeOK
    <3> QED  BY <2>1, <2>2, <3>1 DEF Coherent, ChainsHeld
  <2>5. NoForgottenRequest'
    BY <2>1, <2>2 DEF NoForgottenRequest, ClientsCoherent, VetKey, TypeOK
  <2> QED  BY <2>2, <2>3, <2>4, <2>5 DEF Coherent
<1>2. ASSUME NEW c \in Clients, ClientGivesUp(c) PROVE Coherent' /\ NoForgottenRequest'
  <2>1. /\ UNCHANGED <<phase, bytes, outcome, waiters, holds, cleared, condemned>>
        /\ \A b \in Clients : reply'[b] = "waiting" => reply[b] = "waiting" /\ asked'[b] = asked[b]
    BY <1>2 DEF ClientGivesUp, TurnAway, flightVars, gateVars, history
  <2> QED
    BY <2>1 DEF Coherent, FlightsCoherent, Phased, ChainsHeld, QueueCoherent,
      NoForgottenRequest, VetKey
<1>3. ASSUME NEW p \in Packages, ServePackument(p) PROVE Coherent' /\ NoForgottenRequest'
  BY <1>3 DEF ServePackument, Coherent, FlightsCoherent, Phased, ChainsHeld, QueueCoherent,
    NoForgottenRequest, VetKey, clientVars, flightVars, gateVars, history
<1>4. ASSUME NEW k \in Keys, FlightStep(k) PROVE Coherent' /\ NoForgottenRequest'
  <2>1. CASE PackumentFetched(k)
    <3>1. /\ phase[k] = "packument" /\ phase' = [phase EXCEPT ![k] = "tarball"]
          /\ UNCHANGED <<reply, asked, bytes, outcome, waiters, holds, cleared, condemned>>
      BY <2>1 DEF PackumentFetched, clientVars, gateVars, history
    <3>2. /\ \A i \in DOMAIN waiters : waiters[i] \in Keys
          /\ \A d \in Digests : \A i \in DOMAIN holds[d] : holds[d][i] \in Keys
      BY DEF TypeOK
    <3>3. FlightsCoherent' /\ ChainsHeld' /\ QueueCoherent'
      BY <3>1, <3>2 DEF TypeOK, Coherent, FlightsCoherent, Phased, ChainsHeld, QueueCoherent
    <3>4. NoForgottenRequest'
      BY <3>1 DEF TypeOK, NoForgottenRequest, ClientsCoherent, VetKey
    <3> QED  BY <3>3, <3>4 DEF Coherent
  <2>2. CASE PackumentFailed(k) \/ TarballFailed(k) \/ DecisionFailed(k)
    BY <2>2, FlightEnds
    DEF PackumentFailed, TarballFailed, DecisionFailed, FailFromGate, InGate, history
  <2>3. ASSUME NEW d \in Digests, TarballFetched(k, d) PROVE Coherent' /\ NoForgottenRequest'
    <3>1. CASE CacheGet(d) # "none"
      BY <2>3, <3>1, FlightEnds DEF TarballFetched, InGate, history
    <3>2. CASE CacheGet(d) = "none"
      <4>1. /\ phase[k] = "tarball" /\ d \in Upstream[k]
            /\ phase' = [phase EXCEPT ![k] = "deciding"] /\ bytes' = [bytes EXCEPT ![k] = d]
            /\ UNCHANGED <<reply, asked, outcome, waiters, holds, cleared, condemned>>
        BY <2>3, <3>2 DEF TarballFetched, clientVars, gateVars, history
      <4>2. /\ \A i \in DOMAIN waiters : waiters[i] \in Keys
            /\ \A e \in Digests : \A i \in DOMAIN holds[e] : holds[e][i] \in Keys
        BY DEF TypeOK
      <4>3. FlightsCoherent' /\ ChainsHeld' /\ QueueCoherent'
        BY <4>1, <4>2 DEF TypeOK, Coherent, FlightsCoherent, Phased, ChainsHeld, QueueCoherent
      <4>4. NoForgottenRequest'
        BY <4>1 DEF TypeOK, NoForgottenRequest, ClientsCoherent, VetKey
      <4> QED  BY <4>3, <4>4 DEF Coherent
    <3> QED  BY <3>1, <3>2
  <2>4. ASSUME NEW v \in Decisions, DecisionFinal(k, v) PROVE Coherent' /\ NoForgottenRequest'
    <3>1. /\ phase[k] \in InGate /\ LeaveGate(k, "none") /\ ForgetFlight(k) /\ UNCHANGED holds
          /\ AnswerDecision(k, bytes[k], v) \/ AnswerError(k)
          /\ cleared \subseteq cleared' /\ condemned \subseteq condemned'
      BY <2>4 DEF DecisionFinal, InGate
    <3> QED  BY <3>1, FlightEnds
  <2>5. CASE ApprovalQueueFull(k)
    BY <2>5, FlightEnds DEF ApprovalQueueFull, NeedsApproval, InGate, history
  <2>6. CASE HoldForApproval(k)
    <3>1. /\ phase[k] = "deciding" /\ LeaveGate(k, "held")
          /\ holds' = [holds EXCEPT ![bytes[k]] = Append(@, k)]
          /\ UNCHANGED <<reply, asked, bytes, outcome, cleared, condemned>>
      BY <2>6 DEF HoldForApproval, NeedsApproval, Register, clientVars, history
    <3>2. /\ phase'[k] = "held"
          /\ \A j \in Keys \ {k} :
               \/ phase'[j] = phase[j]
               \/ phase[j] = "queued" /\ phase'[j] \in {"packument", "tarball"}
          /\ QueueCoherent'
      BY <3>1, LeaveGateShift DEF Coherent, Phases, InGate
    <3>3. FlightsCoherent'
      BY <3>1, <3>2 DEF Coherent, FlightsCoherent, Phased
    <3>4. ChainsHeld'
      <4>1. ASSUME NEW d \in Digests, NEW i \in DOMAIN holds'[d]
            PROVE  phase'[holds'[d][i]] = "held" /\ bytes'[holds'[d][i]] = d
        <5>1. holds[d] \in Seq(Keys)
          BY DEF TypeOK
        <5>2. \A n \in DOMAIN holds[d] : phase'[holds[d][n]] = "held" /\ bytes[holds[d][n]] = d
          BY <3>2, <5>1 DEF Coherent, ChainsHeld
        <5>3. CASE d = bytes[k]
          <6>1. holds'[d] = Append(holds[d], k)
            BY <3>1, <5>3 DEF TypeOK
          <6>2. (i \in DOMAIN holds[d] /\ holds'[d][i] = holds[d][i]) \/ holds'[d][i] = k
            BY <5>1, <6>1, <4>1
          <6> QED  BY <3>1, <3>2, <5>2, <5>3, <6>2
        <5>4. CASE d # bytes[k]
          BY <3>1, <4>1, <5>2, <5>4 DEF TypeOK
        <5> QED  BY <5>3, <5>4
      <4> QED  BY <4>1 DEF ChainsHeld
    <3>5. NoForgottenRequest'
      BY <3>1, <3>2 DEF NoForgottenRequest, ClientsCoherent, VetKey
    <3> QED  BY <3>2, <3>3, <3>4, <3>5 DEF Coherent
  <2>7. CASE Resume(k)
    <3>1. /\ phase[k] = "resumed" /\ phase' = [phase EXCEPT ![k] = "none"] /\ ForgetFlight(k)
          /\ UNCHANGED <<waiters, holds, cleared, condemned>>
          /\ AnswerDecision(k, bytes[k], Enforced(outcome[k])) \/ AnswerError(k)
      BY <2>7 DEF Resume, gateVars, history
    <3>2. /\ \A i \in DOMAIN waiters : waiters[i] \in Keys
          /\ \A e \in Digests : \A i \in DOMAIN holds[e] : holds[e][i] \in Keys
      BY DEF TypeOK
    <3>3. \A j \in Keys \ {k} : phase'[j] = phase[j] /\ bytes'[j] = bytes[j] /\ outcome'[j] = outcome[j]
      BY <3>1 DEF ForgetFlight, TypeOK
    <3>4. phase'[k] = "none"
      BY <3>1 DEF TypeOK
    <3>5. FlightsCoherent'
      <4>1. ASSUME NEW j \in Keys PROVE Phased(j)'
        <5>1. CASE j = k
          BY <3>4, <5>1 DEF Phased
        <5>2. CASE j # k
          BY <3>1, <3>3, <5>2 DEF Phased, Coherent, FlightsCoherent
        <5> QED  BY <5>1, <5>2
      <4> QED  BY <4>1 DEF FlightsCoherent
    <3>6. ChainsHeld' /\ QueueCoherent'
      BY <3>1, <3>2, <3>3 DEF Coherent, ChainsHeld, QueueCoherent
    <3>7. ASSUME NEW c \in Clients, reply'[c] = "waiting" PROVE phase'[asked'[c]] # "none"
      <4>1. reply[c] = "waiting" /\ asked'[c] = asked[c] /\ asked[c] \in Keys \ {k}
        BY <3>1, <3>7, AnswerEffect DEF ClientsCoherent
      <4> QED  BY <3>3, <4>1 DEF NoForgottenRequest, VetKey
    <3> QED  BY <3>5, <3>6, <3>7 DEF Coherent, NoForgottenRequest, VetKey
  <2> QED  BY <1>4, <2>1, <2>2, <2>3, <2>4, <2>5, <2>6, <2>7 DEF FlightStep
<1>5. ASSUME NEW p \in Packages, NEW o \in {"approve", "deny"}, HumanDecides(p, o)
      PROVE  Coherent' /\ NoForgottenRequest'
  <2> DEFINE K == UNION {ChainOf(d) : d \in HoldsFor(p)}
  <2>1. /\ UNCHANGED <<reply, asked, bytes, waiters>>
        /\ phase' = [k \in Keys |-> IF k \in K THEN "resumed" ELSE phase[k]]
        /\ outcome' = [k \in Keys |-> IF k \in K THEN o ELSE outcome[k]]
        /\ holds' = [d \in Digests |-> IF d \in HoldsFor(p) THEN <<>> ELSE holds[d]]
        /\ cleared' = IF o = "approve" THEN cleared \cup HoldsFor(p) ELSE cleared
        /\ condemned' = IF o = "deny" THEN condemned \cup HoldsFor(p) ELSE condemned
    BY <1>5 DEF HumanDecides, Settle, Delete, clientVars, gateVars
  <2>2. \A k \in K : phase[k] = "held" /\ bytes[k] \in HoldsFor(p)
    <3>1. \A d \in HoldsFor(p) : d \in Digests
      BY DEF HoldsFor, Held
    <3>2. \A d \in HoldsFor(p) : \A k \in ChainOf(d) : phase[k] = "held" /\ bytes[k] = d
      BY <3>1 DEF ChainOf, Coherent, ChainsHeld
    <3> QED  BY <3>2
  <2> HIDE DEF K
  <2>3. FlightsCoherent'
    <3>1. ASSUME NEW k \in Keys PROVE Phased(k)'
      <4>1. CASE k \in K
        BY <2>1, <2>2, <4>1 DEF Phased, Coherent, FlightsCoherent
      <4>2. CASE k \notin K
        BY <2>1, <4>2 DEF Phased, Coherent, FlightsCoherent
      <4> QED  BY <4>1, <4>2
    <3> QED  BY <3>1 DEF FlightsCoherent
  <2>4. ChainsHeld'
    <3>1. ASSUME NEW d \in Digests, NEW i \in DOMAIN holds'[d]
          PROVE  phase'[holds'[d][i]] = "held" /\ bytes'[holds'[d][i]] = d
      <4>1. d \notin HoldsFor(p) /\ holds'[d] = holds[d]
        BY <2>1, <3>1
      <4>2. holds[d][i] \in Keys /\ phase[holds[d][i]] = "held" /\ bytes[holds[d][i]] = d
        BY <3>1, <4>1 DEF TypeOK, Coherent, ChainsHeld
      <4> QED  BY <2>1, <2>2, <4>1, <4>2
    <3> QED  BY <3>1 DEF ChainsHeld
  <2>5. QueueCoherent'
    <3>1. \A i \in DOMAIN waiters : waiters[i] \in Keys
      BY DEF TypeOK
    <3> QED  BY <2>1, <2>2, <3>1 DEF Coherent, QueueCoherent
  <2>6. NoForgottenRequest'
    BY <2>1 DEF NoForgottenRequest, ClientsCoherent, VetKey
  <2> QED  BY <2>3, <2>4, <2>5, <2>6 DEF Coherent
<1>6. ASSUME NEW d \in Digests, HoldTimesOut(d) PROVE Coherent' /\ NoForgottenRequest'
  <2> DEFINE h == Head(holds[d])
  <2>1. /\ UNCHANGED <<reply, asked, bytes, waiters, cleared, condemned>>
        /\ phase' = [k \in Keys |-> IF k = h THEN "resumed" ELSE phase[k]]
        /\ outcome' = [k \in Keys |-> IF k = h THEN "timeout" ELSE outcome[k]]
        /\ holds' = [e \in Digests |-> IF e = d THEN <<>> ELSE holds[e]]
    BY <1>6 DEF HoldTimesOut, Settle, Delete, clientVars, gateVars, history
  <2>2. h \in Keys /\ phase[h] = "held" /\ bytes[h] = d
    <3>1. holds[d] \in Seq(Keys) /\ holds[d] # <<>>
      BY <1>6 DEF HoldTimesOut, Held, TypeOK
    <3>2. 1 \in DOMAIN holds[d] /\ h = holds[d][1]
      BY <3>1
    <3> QED  BY <3>1, <3>2 DEF Coherent, ChainsHeld
  <2> HIDE DEF h
  <2>3. FlightsCoherent'
    BY <2>1, <2>2 DEF Phased, Coherent, FlightsCoherent
  <2>4. ChainsHeld'
    <3>1. \A e \in Digests : \A i \in DOMAIN holds[e] : holds[e][i] \in Keys
      BY DEF TypeOK
    <3> QED  BY <2>1, <2>2, <3>1 DEF Coherent, ChainsHeld
  <2>5. QueueCoherent'
    <3>1. \A i \in DOMAIN waiters : waiters[i] \in Keys
      BY DEF TypeOK
    <3> QED  BY <2>1, <2>2, <3>1 DEF Coherent, QueueCoherent
  <2>6. NoForgottenRequest'
    BY <2>1 DEF NoForgottenRequest, ClientsCoherent, VetKey
  <2> QED  BY <2>3, <2>4, <2>5, <2>6 DEF Coherent
<1>7. CASE Restart
  <2>1. /\ phase' = [k \in Keys |-> "none"] /\ waiters' = <<>>
        /\ holds' = [d \in Digests |-> <<>>]
        /\ \A c \in Clients : reply'[c] # "waiting"
    BY <1>7 DEF Restart, TurnAway
  <2> QED
    BY <2>1 DEF Coherent, FlightsCoherent, Phased, ChainsHeld, QueueCoherent, NoForgottenRequest
<1>8. CASE UNCHANGED vars
  BY <1>8 DEF vars, clientVars, flightVars, gateVars, history, Coherent, FlightsCoherent, Phased,
    ChainsHeld, QueueCoherent, NoForgottenRequest, VetKey
<1> QED
  BY <1>1, <1>2, <1>3, <1>4, <1>5, <1>6, <1>7, <1>8 DEF Next

-----------------------------------------------------------------------------
(***************************************************************************)
(* The gate: slots and queue.                                              *)
(***************************************************************************)
LEMMA GatedFinite ==
  ASSUME ProxyAssumption PROVE IsFiniteSet(Gated) /\ Cardinality(Gated) \in Nat
<1>1. Gated \subseteq Keys
  BY DEF Gated
<1> QED  BY <1>1, FS_Subset, FS_CardinalityType DEF ProxyAssumption

(* Nothing that concerns the gate happens. *)
LEMMA GateUntouched ==
  ASSUME ProxyAssumption, TypeOK, GateInv, UNCHANGED <<slots, waiters>>,
         \A j \in Keys : /\ phase'[j] \in InGate <=> phase[j] \in InGate
                         /\ phase'[j] = "queued" => phase[j] = "queued"
  PROVE  GateInv'
<1>1. Gated' = Gated
  BY DEF Gated
<1>2. AllQueued'
  BY DEF AllQueued, GateInv
<1>3. Cardinality(Gated') = Cardinality(Gated)
  BY <1>1
<1> QED  BY <1>2, <1>3 DEF GateInv

(* A flight leaves the gate: its slot is free, or passes to the first waiter. *)
LEMMA GateLeft ==
  ASSUME ProxyAssumption, TypeOK, QueueCoherent, GateInv,
         NEW k \in Keys, phase[k] \in InGate, NEW next \in {"none", "held"}, LeaveGate(k, next)
  PROVE  GateInv'
<1>1. k \in Gated /\ next \notin InGate
  BY DEF Gated, InGate
<1>2. IsFiniteSet(Gated \ {k}) /\ Cardinality(Gated \ {k}) = Cardinality(Gated) - 1
      /\ Cardinality(Gated) \in Nat
  BY <1>1, GatedFinite, FS_RemoveElement
<1>3. phase' = [j \in Keys |-> IF j = k THEN next ELSE IF j \in Woken THEN AfterAcquire(j) ELSE phase[j]]
  BY DEF LeaveGate
<1>4. CASE waiters = <<>>
  <2>1. slots' = slots + 1 /\ waiters' = <<>> /\ Woken = {}
    BY <1>4 DEF LeaveGate, Release, Woken
  <2>2. Gated' = Gated \ {k}
    BY <1>1, <1>3, <2>1 DEF Gated
  <2>3. Cardinality(Gated)' = Cardinality(Gated) - 1
    BY <1>2, <2>2
  <2>4. AllQueued'
    BY <1>3, <1>4, <2>1 DEF AllQueued, GateInv
  <2>5. Cardinality(Gated)' + slots' = MaxVets
    BY <1>2, <2>1, <2>3 DEF GateInv, TypeOK
  <2> QED  BY <2>1, <2>4, <2>5 DEF GateInv
<1>5. CASE waiters # <<>>
  <2> DEFINE h == Head(waiters)
  <2>1. /\ slots' = slots /\ waiters' = Tail(waiters) /\ Woken = {h} /\ slots = 0
        /\ Len(waiters) \in Nat \ {0} /\ h = waiters[1] /\ 1 \in DOMAIN waiters
    BY <1>5 DEF LeaveGate, Release, Woken, TypeOK, GateInv
  <2>2. h \in Keys /\ phase[h] = "queued"
    BY <2>1 DEF TypeOK, QueueCoherent
  <2>3. h \notin Gated /\ h # k /\ AfterAcquire(h) \in InGate /\ AfterAcquire(h) # "queued"
    BY <2>2 DEF Gated, InGate, AfterAcquire
  <2>4. Gated' = (Gated \ {k}) \cup {h}
    BY <1>1, <1>3, <2>1, <2>2, <2>3 DEF Gated
  <2>5. Cardinality(Gated)' = Cardinality(Gated)
    <3>1. h \notin Gated \ {k}
      BY <2>3
    <3>2. Cardinality((Gated \ {k}) \cup {h}) = Cardinality(Gated \ {k}) + 1
      BY <1>2, <3>1, FS_AddElement
    <3>3. Cardinality((Gated \ {k}) \cup {h}) = Cardinality(Gated)
      BY <1>2, <3>2
    <3> QED  BY <2>4, <3>3
  <2>6. AllQueued'
    <3>1. ASSUME NEW j \in Keys, phase'[j] = "queued"
          PROVE  \E i \in DOMAIN waiters' : waiters'[i] = j
      <4>1. phase[j] = "queued" /\ j # h
        BY <1>3, <2>1, <2>3, <3>1
      <4>2. PICK n \in DOMAIN waiters : waiters[n] = j
        BY <4>1 DEF AllQueued, GateInv
      <4>3. n \in 2..Len(waiters)
        BY <2>1, <4>1, <4>2 DEF TypeOK
      <4>4. n - 1 \in DOMAIN waiters' /\ waiters'[n - 1] = j
        BY <2>1, <1>5, <4>2, <4>3 DEF TypeOK
      <4> QED  BY <4>4
    <3> QED  BY <3>1 DEF AllQueued
  <2> QED
    BY <2>1, <2>5, <2>6 DEF GateInv
<1> QED  BY <1>4, <1>5

LEMMA GateStep ==
  ASSUME ProxyAssumption, TypeOK, Coherent, GateInv, [Next]_vars
  PROVE  GateInv'
<1> USE DEF InGate
<1>1. ASSUME NEW c \in Clients, NEW k \in Keys, RequestTarball(c, k) PROVE GateInv'
  <2>1. CASE JoinFlight(k)
    BY <2>1, GateUntouched DEF JoinFlight, flightVars, gateVars
  <2>2. CASE StartFlight(k) /\ slots > 0
    <3>1. /\ phase[k] = "none" /\ slots' = slots - 1 /\ UNCHANGED waiters
          /\ phase' = [phase EXCEPT ![k] = AfterAcquire(k)]
      BY <2>2 DEF StartFlight
    <3>2. AfterAcquire(k) \in {"packument", "tarball"}
      BY DEF AfterAcquire
    <3>3. k \notin Gated /\ Gated' = Gated \cup {k}
      BY <3>1, <3>2 DEF Gated, TypeOK
    <3>4. Cardinality(Gated)' = Cardinality(Gated) + 1 /\ Cardinality(Gated) \in Nat
      BY <3>3, GatedFinite, FS_AddElement
    <3>5. AllQueued'
      BY <3>1, <3>2 DEF AllQueued, GateInv, TypeOK
    <3>6. Cardinality(Gated)' + slots' = MaxVets /\ waiters = <<>>
      BY <2>2, <3>1, <3>4 DEF GateInv, TypeOK
    <3> QED  BY <3>1, <3>5, <3>6 DEF GateInv
  <2>3. CASE StartFlight(k) /\ ~(slots > 0)
    <3>1. /\ phase[k] = "none" /\ slots' = slots /\ slots = 0
          /\ waiters' = Append(waiters, k) /\ phase' = [phase EXCEPT ![k] = "queued"]
      BY <2>3 DEF StartFlight, TypeOK
    <3>2. Gated' = Gated
      BY <3>1 DEF Gated, TypeOK
    <3>3. /\ \A i \in DOMAIN waiters : i \in DOMAIN waiters' /\ waiters'[i] = waiters[i]
          /\ Len(waiters) + 1 \in DOMAIN waiters' /\ waiters'[Len(waiters) + 1] = k
      BY <3>1 DEF TypeOK
    <3>4. AllQueued'
      BY <3>1, <3>3 DEF AllQueued, GateInv, TypeOK
    <3>5. Cardinality(Gated)' = Cardinality(Gated)
      BY <3>2
    <3> QED  BY <3>1, <3>4, <3>5 DEF GateInv
  <2> QED  BY <1>1, <2>1, <2>2, <2>3 DEF RequestTarball, VetKey
<1>2. ASSUME NEW k \in Keys, FlightStep(k) PROVE GateInv'
  <2>1. CASE /\ phase[k] \in InGate
             /\ \E next \in {"none", "held"} : LeaveGate(k, next)
    BY <2>1, GateLeft DEF Coherent
  <2>2. CASE \/ PackumentFailed(k) \/ TarballFailed(k) \/ DecisionFailed(k)
             \/ ApprovalQueueFull(k) \/ HoldForApproval(k)
             \/ \E v \in Decisions : DecisionFinal(k, v)
    BY <2>1, <2>2 DEF PackumentFailed, TarballFailed, DecisionFailed, FailFromGate,
      ApprovalQueueFull, HoldForApproval, NeedsApproval, DecisionFinal
  <2>3. CASE PackumentFetched(k) \/ Resume(k)
    <3>1. /\ UNCHANGED <<slots, waiters>>
          /\ \/ phase[k] = "packument" /\ phase' = [phase EXCEPT ![k] = "tarball"]
             \/ phase[k] = "resumed" /\ phase' = [phase EXCEPT ![k] = "none"]
      BY <2>3 DEF PackumentFetched, Resume, gateVars
    <3>2. \A j \in Keys : /\ phase'[j] \in InGate <=> phase[j] \in InGate
                          /\ phase'[j] = "queued" => phase[j] = "queued"
      BY <3>1 DEF TypeOK
    <3> QED  BY <3>1, <3>2, GateUntouched
  <2>4. ASSUME NEW d \in Digests, TarballFetched(k, d) PROVE GateInv'
    <3>1. CASE CacheGet(d) # "none"
      BY <2>1, <2>4, <3>1 DEF TarballFetched
    <3>2. CASE CacheGet(d) = "none"
      <4>1. /\ UNCHANGED <<slots, waiters>>
            /\ phase[k] = "tarball" /\ phase' = [phase EXCEPT ![k] = "deciding"]
        BY <2>4, <3>2 DEF TarballFetched, gateVars
      <4>2. \A j \in Keys : /\ phase'[j] \in InGate <=> phase[j] \in InGate
                            /\ phase'[j] = "queued" => phase[j] = "queued"
        BY <4>1 DEF TypeOK
      <4> QED  BY <4>1, <4>2, GateUntouched
    <3> QED  BY <3>1, <3>2
  <2> QED  BY <1>2, <2>2, <2>3, <2>4 DEF FlightStep
<1>3. ASSUME NEW p \in Packages, NEW o \in {"approve", "deny"}, HumanDecides(p, o) PROVE GateInv'
  <2> DEFINE K == UNION {ChainOf(d) : d \in HoldsFor(p)}
  <2>1. /\ UNCHANGED <<slots, waiters>>
        /\ phase' = [j \in Keys |-> IF j \in K THEN "resumed" ELSE phase[j]]
    BY <1>3 DEF HumanDecides, Settle, gateVars
  <2>2. \A j \in K : phase[j] = "held"
    BY DEF ChainOf, HoldsFor, Held, Coherent, ChainsHeld
  <2> HIDE DEF K
  <2> QED  BY <2>1, <2>2, GateUntouched
<1>4. ASSUME NEW d \in Digests, HoldTimesOut(d) PROVE GateInv'
  <2>1. /\ UNCHANGED <<slots, waiters>>
        /\ phase' = [j \in Keys |-> IF j \in {Head(holds[d])} THEN "resumed" ELSE phase[j]]
    BY <1>4 DEF HoldTimesOut, Settle, gateVars
  <2>2. holds[d] \in Seq(Keys) /\ holds[d] # <<>>
    BY <1>4 DEF HoldTimesOut, Held, TypeOK
  <2>3. 1 \in DOMAIN holds[d] /\ Head(holds[d]) = holds[d][1]
    BY <2>2
  <2>4. phase[Head(holds[d])] = "held"
    BY <2>3 DEF Coherent, ChainsHeld
  <2> QED  BY <2>1, <2>4, GateUntouched
<1>5. CASE Restart
  <2>1. phase' = [j \in Keys |-> "none"] /\ slots' = MaxVets /\ waiters' = <<>>
    BY <1>5 DEF Restart
  <2>2. Gated' = {}
    BY <2>1 DEF Gated
  <2>3. Cardinality(Gated)' = 0
    BY <2>2, FS_EmptySet
  <2> QED  BY <2>1, <2>3 DEF GateInv, AllQueued, ProxyAssumption
<1>6. CASE UNCHANGED <<phase, slots, waiters>>
  BY <1>6, GateUntouched
<1> QED
  BY <1>1, <1>2, <1>3, <1>4, <1>5, <1>6
  DEF Next, ClientGivesUp, ServePackument, vars, flightVars, gateVars

-----------------------------------------------------------------------------
(***************************************************************************)
(* Judgements: the cache only holds what an analysis or a human said.      *)
(***************************************************************************)

LEMMA CacheEffect ==
  ASSUME TypeOK, NEW d \in Digests, NEW v, SetInMemory(d, v)
  PROVE  \A e \in Digests : verdict'[e] \in {"none", verdict[e]} \/ (e = d /\ verdict'[e] = v)
BY DEF SetInMemory, TypeOK

LEMMA CacheJustified ==
  ASSUME TypeOK, VerdictsJustified, NEW d \in Digests, NEW v \in ALLOWED \cup {"block"},
         CacheSet(d, v) \/ CacheSetThrows(d, v),
         cleared \subseteq cleared', condemned \subseteq condemned',
         v \in ALLOWED => d \in cleared', v = "block" => d \in condemned'
  PROVE  VerdictsJustified'
<1>1. \A e \in Digests : verdict'[e] \in {"none", verdict[e]} \/ (e = d /\ verdict'[e] = v)
  BY CacheEffect DEF CacheSet, CacheSetThrows
<1>2. disk'.verdict = verdict' \/ disk' = disk
  BY DEF CacheSet, CacheSetThrows, Persist
<1>3. \A e \in Digests : /\ verdict'[e] \in ALLOWED => e \in cleared'
                         /\ verdict'[e] = "block" => e \in condemned'
  BY <1>1 DEF VerdictsJustified, Justified, ALLOWED
<1> QED
  BY <1>2, <1>3 DEF VerdictsJustified, Justified

(* What is judged is never forgotten. *)
LEMMA HistoryGrows ==
  ASSUME ProxyAssumption, TypeOK, FlightsCoherent, [Next]_vars
  PROVE  cleared \subseteq cleared' /\ condemned \subseteq condemned'
<1>1. ASSUME NEW k \in Keys, FlightStep(k)
      PROVE  cleared \subseteq cleared' /\ condemned \subseteq condemned'
  BY <1>1 DEF FlightStep, PackumentFetched, PackumentFailed, TarballFetched, TarballFailed,
    DecisionFinal, DecisionFailed, ApprovalQueueFull, HoldForApproval, Resume, history
<1>2. ASSUME NEW p \in Packages, NEW o \in {"approve", "deny"}, HumanDecides(p, o)
      PROVE  cleared \subseteq cleared' /\ condemned \subseteq condemned'
  BY <1>2 DEF HumanDecides
<1> QED
  BY <1>1, <1>2 DEF Next, RequestTarball, ClientGivesUp, ServePackument, HoldTimesOut, Restart,
    vars, history

LEMMA JustifiedStep ==
  ASSUME ProxyAssumption, TypeOK, FlightsCoherent, VerdictsJustified, [Next]_vars
  PROVE  VerdictsJustified'
<1>1. cleared \subseteq cleared' /\ condemned \subseteq condemned'
  BY HistoryGrows
<1>2. CASE UNCHANGED <<verdict, disk>>
  BY <1>1, <1>2 DEF VerdictsJustified, Justified
<1>3. ASSUME NEW k \in Keys, FlightStep(k) PROVE VerdictsJustified'
  <2>1. ASSUME NEW v \in Decisions, DecisionFinal(k, v) PROVE VerdictsJustified'
    <3>1. bytes[k] \in Digests
      BY <2>1, UpstreamBytes DEF DecisionFinal, FlightsCoherent, Phased
    <3>2. /\ v \in ALLOWED \cup {"block"} /\ (v \in ALLOWED => bytes[k] \in cleared')
          /\ (v = "block" => bytes[k] \in condemned')
          /\ CacheSet(bytes[k], v) \/ CacheSetThrows(bytes[k], v)
      BY <2>1 DEF DecisionFinal, Decisions, ALLOWED
    <3> QED  BY <1>1, <3>1, <3>2, CacheJustified
  <2>2. CASE Resume(k)
    <3> DEFINE v == Enforced(outcome[k])
    <3>1. /\ bytes[k] \in Upstream[k] /\ bytes[k] \in Digests
          /\ outcome[k] = "approve" => bytes[k] \in cleared
          /\ outcome[k] = "deny" => bytes[k] \in condemned
          /\ outcome[k] \in {"approve", "deny", "timeout"}
      BY <2>2, UpstreamBytes DEF Resume, FlightsCoherent, Phased
    <3>2. CASE UNCHANGED cacheVars
      BY <1>1, <3>2 DEF cacheVars, VerdictsJustified, Justified
    <3>3. CASE /\ PersistOutcome(outcome[k])
               /\ CacheSet(bytes[k], v) \/ CacheSetThrows(bytes[k], v)
      <4>1. /\ v \in ALLOWED \cup {"block"} /\ (v \in ALLOWED => bytes[k] \in cleared)
            /\ (v = "block" => bytes[k] \in condemned)
        BY <3>1, <3>3 DEF Enforced, PersistOutcome, ALLOWED
      <4> QED  BY <1>1, <3>1, <3>3, <4>1, CacheJustified
    <3> QED  BY <2>2, <3>2, <3>3 DEF Resume
  <2>3. CASE ~Resume(k) /\ \A v \in Decisions : ~DecisionFinal(k, v)
    BY <1>2, <1>3, <2>3 DEF FlightStep, PackumentFetched, PackumentFailed, TarballFetched,
      TarballFailed, DecisionFailed, ApprovalQueueFull, HoldForApproval, cacheVars
  <2> QED  BY <2>1, <2>2, <2>3
<1>4. CASE Restart
  BY <1>4 DEF Restart, VerdictsJustified, Justified, history
<1> QED
  BY <1>2, <1>3, <1>4 DEF Next, RequestTarball, ClientGivesUp, ServePackument, HumanDecides,
    HoldTimesOut, vars, cacheVars

-----------------------------------------------------------------------------
(***************************************************************************)
(* Clients: every step of the proxy is one its promise allows.             *)
(***************************************************************************)
Kept(c) == Promise!Untouched(c) \/ Promise!Served(c) \/ Promise!TurnedAway(c)

LEMMA AnswersKept ==
  ASSUME TypeOK, ClientsCoherent, NEW k \in Keys, NEW d, NEW v,
         AnswerDecision(k, d, v) \/ AnswerError(k),
         v \in ALLOWED => d \in cleared' /\ d \in Upstream[k]
  PROVE  \A c \in Clients : Kept(c)
<1>1. ASSUME NEW C, NEW how \in {"refused", "error"}, C \subseteq Coalesced(k), TurnAway(C, how)
      PROVE  \A c \in Clients : Kept(c)
  BY <1>1 DEF TurnAway, Coalesced, Kept, Promise!Untouched, Promise!TurnedAway,
    ClientsCoherent, TypeOK
<1>2. CASE v \in ALLOWED /\ Serve(k, d)
  BY <1>2 DEF Serve, Coalesced, VetKey, Kept, Promise!Untouched, Promise!Served
<1> QED
  BY <1>1, <1>2 DEF AnswerDecision, AnswerError

LEMMA PromiseStep ==
  ASSUME ProxyAssumption, IInv, TypeOK', [Next]_vars
  PROVE  [Promise!Next]_(Promise!vars)
<1> USE DEF IInv
<1>1. /\ cleared \subseteq cleared' /\ condemned \subseteq condemned'
      /\ cleared' \subseteq Digests /\ condemned' \subseteq Digests
  BY HistoryGrows DEF TypeOK
<1>2. ASSUME \A c \in Clients : Kept(c) PROVE Promise!Judge
  BY <1>1, <1>2 DEF Promise!Judge, Kept
<1>3. UNCHANGED clientVars => \A c \in Clients : Kept(c)
  BY DEF clientVars, Kept, Promise!Untouched
<1>4. ASSUME NEW c \in Clients, NEW k \in Keys, RequestTarball(c, k) PROVE Promise!Ask(c, k)
  BY <1>4 DEF RequestTarball, Promise!Ask, history
<1>5. ASSUME NEW c \in Clients, ClientGivesUp(c) PROVE \A b \in Clients : Kept(b)
  BY <1>5 DEF ClientGivesUp, TurnAway, Kept, Promise!Untouched, Promise!TurnedAway,
    ClientsCoherent, TypeOK
<1>6. ASSUME NEW k \in Keys, FlightStep(k) PROVE \A c \in Clients : Kept(c)
  <2>1. CASE PackumentFetched(k) \/ HoldForApproval(k)
    BY <1>3, <2>1 DEF PackumentFetched, HoldForApproval
  <2>2. CASE PackumentFailed(k) \/ TarballFailed(k) \/ DecisionFailed(k)
    <3>1. AnswerError(k)
      BY <2>2 DEF PackumentFailed, TarballFailed, DecisionFailed, FailFromGate
    <3>2. "none" \notin ALLOWED
      BY DEF ALLOWED
    <3> QED  BY <3>1, <3>2, AnswersKept
  <2>3. ASSUME NEW d \in Digests, TarballFetched(k, d) PROVE \A c \in Clients : Kept(c)
    <3>1. CASE CacheGet(d) # "none"
      <4>1. AnswerDecision(k, d, verdict[d]) /\ d \in Upstream[k]
        BY <2>3, <3>1 DEF TarballFetched, CacheGet
      <4>2. verdict[d] \in ALLOWED => d \in cleared'
        BY <1>1, <2>3 DEF VerdictsJustified, Justified
      <4> QED  BY <4>1, <4>2, AnswersKept
    <3>2. CASE CacheGet(d) = "none"
      BY <1>3, <2>3, <3>2 DEF TarballFetched
    <3> QED  BY <3>1, <3>2
  <2>4. ASSUME NEW v \in Decisions, DecisionFinal(k, v) PROVE \A c \in Clients : Kept(c)
    <3>1. AnswerDecision(k, bytes[k], v) \/ AnswerError(k)
      BY <2>4 DEF DecisionFinal
    <3>2. v \in ALLOWED => bytes[k] \in cleared' /\ bytes[k] \in Upstream[k]
      BY <2>4 DEF DecisionFinal, FlightsCoherent, Phased
    <3> QED  BY <3>1, <3>2, AnswersKept
  <2>5. CASE ApprovalQueueFull(k)
    <3>1. AnswerDecision(k, bytes[k], "block") /\ "block" \notin ALLOWED
      BY <2>5 DEF ApprovalQueueFull, ALLOWED
    <3> QED  BY <3>1, AnswersKept
  <2>6. CASE Resume(k)
    <3>1. AnswerDecision(k, bytes[k], Enforced(outcome[k])) \/ AnswerError(k)
      BY <2>6 DEF Resume
    <3>2. Enforced(outcome[k]) \in ALLOWED => bytes[k] \in cleared' /\ bytes[k] \in Upstream[k]
      BY <1>1, <2>6 DEF Resume, Enforced, ALLOWED, FlightsCoherent, Phased
    <3> QED  BY <3>1, <3>2, AnswersKept
  <2> QED  BY <1>6, <2>1, <2>2, <2>3, <2>4, <2>5, <2>6 DEF FlightStep
<1>7. ASSUME Restart PROVE \A c \in Clients : Kept(c)
  <2>1. TurnAway({c \in Clients : reply[c] = "waiting"}, "error")
    BY <1>7 DEF Restart
  <2> QED
    BY <2>1 DEF TurnAway, Kept, Promise!Untouched, Promise!TurnedAway, ClientsCoherent
<1>8. CASE UNCHANGED clientVars
  BY <1>2, <1>3, <1>8 DEF Promise!Next
<1> QED
  BY <1>2, <1>4, <1>5, <1>6, <1>7, <1>8
  DEF Next, Promise!Next, ServePackument, HumanDecides, HoldTimesOut, vars

(* What the promise preserves about clients. *)
LEMMA PromisePreserves ==
  ASSUME ProxyAssumption, TypeOK, ClientsCoherent, FailClosed, OwnBytes,
         [Promise!Next]_(Promise!vars)
  PROVE  ClientsCoherent' /\ FailClosed' /\ OwnBytes'
<1> USE DEF ClientsCoherent, FailClosed, OwnBytes
<1>1. ASSUME NEW c \in Clients, NEW k \in Keys, Promise!Ask(c, k)
      PROVE  ClientsCoherent' /\ FailClosed' /\ OwnBytes'
  BY <1>1 DEF Promise!Ask, TypeOK
<1>2. CASE Promise!Judge
  BY <1>2 DEF Promise!Judge, Promise!Untouched, Promise!Served, Promise!TurnedAway
<1>3. CASE UNCHANGED Promise!vars
  BY <1>3 DEF Promise!vars
<1> QED  BY <1>1, <1>2, <1>3 DEF Promise!Next

-----------------------------------------------------------------------------
(***************************************************************************)
(* The invariant is inductive, and what follows from it.                   *)
(***************************************************************************)

LEMMA IInvInit == ASSUME ProxyAssumption, Init PROVE IInv
<1>1. TypeOK
  BY DEF Init, TypeOK, ProxyAssumption, Replies, Phases, Outcomes, Verdicts
<1>2. /\ FlightsCoherent /\ ChainsHeld /\ QueueCoherent /\ ClientsCoherent
      /\ FailClosed /\ OwnBytes /\ NoForgottenRequest
  BY DEF Init, FlightsCoherent, Phased, ChainsHeld, QueueCoherent, ClientsCoherent,
    FailClosed, OwnBytes, NoForgottenRequest
<1>3. VerdictsJustified
  BY DEF Init, VerdictsJustified, Justified, ALLOWED
<1>4. GateInv
  <2>1. Gated = {} /\ slots = MaxVets /\ waiters = <<>> /\ AllQueued
    BY DEF Init, Gated, InGate, AllQueued
  <2>2. Cardinality(Gated) = 0
    BY <2>1, FS_EmptySet
  <2> QED  BY <2>1, <2>2 DEF GateInv, ProxyAssumption
<1> QED  BY <1>1, <1>2, <1>3, <1>4 DEF IInv

LEMMA IInvStep == ASSUME ProxyAssumption, IInv, [Next]_vars PROVE IInv'
<1>1. TypeOK'
  BY TypeStep DEF IInv
<1>2. Coherent' /\ NoForgottenRequest'
  BY CoherentStep DEF IInv, Coherent
<1>3. VerdictsJustified'
  BY JustifiedStep DEF IInv
<1>4. ClientsCoherent' /\ FailClosed' /\ OwnBytes'
  BY <1>1, PromiseStep, PromisePreserves DEF IInv
<1>5. GateInv'
  BY GateStep DEF IInv, Coherent
<1> QED  BY <1>1, <1>2, <1>3, <1>4, <1>5 DEF IInv, Coherent

(* The inductive invariant: no request, timer, human or restart leads out of the
   states in which the bookkeeping of flights, gate, holds and cache agrees.   *)
THEOREM Invariance == Spec => []IInv
BY IInvInit, IInvStep, ProxyAssumption, PTL DEF Spec

(* Every variable keeps its type; the cache never holds require_approval and
   the free slots of the gate are never negative.                            *)
THEOREM TypeCorrect == Spec => []TypeOK
BY Invariance, PTL DEF IInv

(* Bytes reach a client only once an analysis or a human has allowed them. *)
THEOREM ProxyFailsClosed == Spec => []FailClosed
BY Invariance, PTL DEF IInv

(* A client only receives bytes its own credential could have fetched. *)
THEOREM ProxyServesOwnBytes == Spec => []OwnBytes
BY Invariance, PTL DEF IInv

(* The verdict cache, in memory and on disk, repeats what was judged. *)
THEOREM CacheRepeatsJudgements == Spec => []VerdictsJustified
BY Invariance, PTL DEF IInv

(* A waiting client always has a flight that can answer it. *)
THEOREM NoRequestForgotten == Spec => []NoForgottenRequest
BY Invariance, PTL DEF IInv

(* Free slots and flights in the gate always add up to MAX_CONCURRENT_VETS,
   and nobody queues while a slot is free.                                   *)
THEOREM GateKeepsItsSlots == Spec => []GateConserved
<1>1. IInv => GateConserved
  BY DEF IInv, GateInv, GateConserved, Gated
<1> QED  BY <1>1, Invariance, PTL

(* The queue of the gate holds exactly the flights that wait for it. *)
THEOREM GateLosesNoWaiter == Spec => []NoLostWaiter
<1>1. IInv => NoLostWaiter
  BY DEF IInv, GateInv, AllQueued, QueueCoherent, NoLostWaiter, TypeOK
<1> QED  BY <1>1, Invariance, PTL

(* The proxy implements its promise: each initial state and each step of the
   proxy is one VetPromise allows.                                           *)
THEOREM ProxyKeepsPromise == Spec => KeepsPromise
<1>1. Init => Promise!Init
  BY DEF Init, Promise!Init
<1>2. IInv /\ IInv' /\ [Next]_vars => [Promise!Next]_(Promise!vars)
  BY ProxyAssumption, PromiseStep DEF IInv
<1> QED
  BY <1>1, <1>2, Invariance, PTL DEF Spec, KeepsPromise, Promise!Spec

-----------------------------------------------------------------------------
(***************************************************************************)
(* The verdict cache.                                                      *)
(***************************************************************************)
LEMMA OldestGoes ==
  ASSUME ProxyAssumption,
         NEW V \in [Digests -> Verdicts], NEW S \in Seq(Digests), Bounded(V, S),
         NEW d \in Digests, V[d] = "none",
         NEW v \in Verdicts \ {"none"}, Len(S) + 1 > MaxCached,
         NEW V1, V1 = [e \in Digests |-> IF e = Head(Append(S, d)) THEN "none"
                                         ELSE IF e = d THEN v ELSE V[e]]
  PROVE  Bounded(V1, Tail(Append(S, d)))
<1> DEFINE g == Append(S, d)  t == Tail(g)
<1>1. Len(S) = MaxCached /\ Len(S) \in Nat \ {0}
  BY DEF Bounded, ProxyAssumption
<1>2. /\ g \in Seq(Digests) /\ Len(g) = Len(S) + 1 /\ g # <<>>
      /\ \A i \in 1 .. Len(S) : g[i] = S[i]
      /\ g[Len(S) + 1] = d
      /\ Head(g) = g[1]
  BY <1>1
<1>3. \A i, j \in 1 .. Len(g) : g[i] = g[j] => i = j
  <2>1. \A i \in 1 .. Len(S) : S[i] # d
    BY DEF Bounded
  <2> QED  BY <1>1, <1>2, <2>1 DEF Bounded
<1>4. t \in Seq(Digests) /\ Len(t) = Len(S) /\ \A i \in 1 .. Len(t) : t[i] = g[i + 1]
  <2>1. /\ Tail(g) \in Seq(Digests) /\ Len(Tail(g)) = Len(g) - 1
        /\ \A i \in 1 .. Len(Tail(g)) : Tail(g)[i] = g[i + 1]
    <3> HIDE DEF g
    <3> QED  BY <1>2, HeadTailProperties
  <2> QED  BY <1>1, <1>2, <2>1
<1>5. Len(t) <= MaxCached /\ DOMAIN t = 1 .. Len(S)
  BY <1>1, <1>4
<1>6. \A i, j \in DOMAIN t : t[i] = t[j] => i = j
  BY <1>1, <1>2, <1>3, <1>4, <1>5
<1>7. ASSUME NEW e \in Digests
      PROVE  (\E i \in DOMAIN t : t[i] = e) <=> V1[e] # "none"
  <2>1. (\E i \in DOMAIN t : t[i] = e) <=> \E i \in 2 .. Len(g) : g[i] = e
    <3>1. ASSUME NEW i \in DOMAIN t, t[i] = e  PROVE  \E j \in 2 .. Len(g) : g[j] = e
      <4>1. i + 1 \in 2 .. Len(g) /\ g[i + 1] = e
        BY <1>1, <1>2, <1>4, <1>5, <3>1
      <4> QED  BY <4>1
    <3>2. ASSUME NEW j \in 2 .. Len(g), g[j] = e  PROVE  \E i \in DOMAIN t : t[i] = e
      <4>1. j - 1 \in DOMAIN t /\ t[j - 1] = g[j]
        BY <1>1, <1>2, <1>4, <1>5
      <4> QED  BY <3>2, <4>1
    <3> QED  BY <3>1, <3>2
  <2>2. (\E i \in 2 .. Len(g) : g[i] = e) <=> e # g[1] /\ \E i \in 1 .. Len(g) : g[i] = e
    BY <1>1, <1>2, <1>3
  <2>3. (\E i \in 1 .. Len(g) : g[i] = e) <=> e = d \/ \E i \in 1 .. Len(S) : S[i] = e
    BY <1>1, <1>2
  <2>4. (\E i \in 1 .. Len(S) : S[i] = e) <=> V[e] # "none"
    BY DEF Bounded
  <2>5. V1[e] # "none" <=> e # g[1] /\ (e = d \/ V[e] # "none")
    BY <1>2
  <2> QED  BY <2>1, <2>2, <2>3, <2>4, <2>5
<1>8. {t[i] : i \in DOMAIN t} = {e \in Digests : V1[e] # "none"}
  <2>1. \A i \in DOMAIN t : t[i] \in Digests
    BY <1>4
  <2>2. \A e \in Digests : (\E i \in DOMAIN t : t[i] = e) <=> V1[e] # "none"
    BY <1>7
  <2> HIDE DEF t
  <2> QED  BY <2>1, <2>2
<1> QED  BY <1>5, <1>6, <1>8 DEF Bounded

LEMMA RoomLeft ==
  ASSUME ProxyAssumption,
         NEW V \in [Digests -> Verdicts], NEW S \in Seq(Digests), Bounded(V, S),
         NEW d \in Digests, V[d] = "none",
         NEW v \in Verdicts \ {"none"}, Len(S) + 1 <= MaxCached
  PROVE  Bounded([V EXCEPT ![d] = v], Append(S, d))
<1> DEFINE g == Append(S, d)  V1 == [V EXCEPT ![d] = v]
<1>1. /\ g \in Seq(Digests) /\ Len(g) = Len(S) + 1 /\ DOMAIN g = 1 .. (Len(S) + 1)
      /\ \A i \in 1 .. Len(S) : g[i] = S[i]
      /\ g[Len(S) + 1] = d
  OBVIOUS
<1>2. \A i \in 1 .. Len(S) : S[i] # d
  BY DEF Bounded
<1>3. \A i, j \in DOMAIN g : g[i] = g[j] => i = j
  BY <1>1, <1>2 DEF Bounded
<1>4. \A e \in Digests : (\E i \in DOMAIN g : g[i] = e) <=> e = d \/ \E i \in 1 .. Len(S) : S[i] = e
  BY <1>1
<1>5. \A e \in Digests : (\E i \in 1 .. Len(S) : S[i] = e) <=> V[e] # "none"
  BY DEF Bounded
<1>6. {g[i] : i \in DOMAIN g} = {e \in Digests : V1[e] # "none"}
  <2>1. \A i \in DOMAIN g : g[i] \in Digests
    BY <1>1
  <2>2. \A e \in Digests : V1[e] # "none" <=> e = d \/ V[e] # "none"
    OBVIOUS
  <2> QED  BY <1>4, <1>5, <2>1, <2>2
<1> QED  BY <1>1, <1>3, <1>6 DEF Bounded

LEMMA SetKeepsBound ==
  ASSUME ProxyAssumption, TypeOK, Bounded(verdict, order),
         NEW d \in Digests, NEW v \in Verdicts \ {"none"}, SetInMemory(d, v)
  PROVE  Bounded(verdict', order')
<1> DEFINE grown == IF verdict[d] = "none" THEN Append(order, d) ELSE order
           over == Len(grown) > MaxCached
<1>1. order' = IF over THEN Tail(grown) ELSE grown
  BY DEF SetInMemory
<1>2. verdict' = [e \in Digests |-> IF over /\ e = Head(grown) THEN "none"
                                    ELSE IF e = d THEN v ELSE verdict[e]]
  BY DEF SetInMemory
<1>3. verdict \in [Digests -> Verdicts] /\ order \in Seq(Digests)
  BY DEF TypeOK
<1>4. CASE verdict[d] # "none"
  <2>1. ~over /\ order' = order
    BY <1>1, <1>4 DEF Bounded, ProxyAssumption, TypeOK
  <2>2. \A e \in Digests : verdict'[e] # "none" <=> verdict[e] # "none"
    BY <1>2, <1>4, <2>1
  <2> QED  BY <2>1, <2>2 DEF Bounded
<1>5. CASE verdict[d] = "none" /\ over
  <2>1. Len(order) + 1 > MaxCached /\ order' = Tail(Append(order, d))
    BY <1>1, <1>3, <1>5 DEF ProxyAssumption
  <2>2. verdict' = [e \in Digests |-> IF e = Head(Append(order, d)) THEN "none"
                                      ELSE IF e = d THEN v ELSE verdict[e]]
    BY <1>2, <1>5
  <2> QED  BY <1>3, <1>5, <2>1, <2>2, OldestGoes
<1>6. CASE verdict[d] = "none" /\ ~over
  <2>1. Len(order) + 1 <= MaxCached /\ order' = Append(order, d)
    BY <1>1, <1>3, <1>6 DEF ProxyAssumption
  <2>2. verdict' = [verdict EXCEPT ![d] = v]
    BY <1>2, <1>3, <1>6
  <2> QED  BY <1>3, <1>6, <2>1, <2>2, RoomLeft
<1> QED  BY <1>4, <1>5, <1>6

LEMMA CacheStep ==
  ASSUME ProxyAssumption, IInv, CacheBounded, [Next]_vars
  PROVE  CacheBounded'
<1>1. TypeOK
  BY DEF IInv
<1>2. ASSUME NEW d \in Digests, NEW v \in Verdicts \ {"none"},
             CacheSet(d, v) \/ CacheSetThrows(d, v)
      PROVE  CacheBounded'
  <2>1. Bounded(verdict', order')
    BY <1>1, <1>2, SetKeepsBound DEF CacheBounded, CacheSet, CacheSetThrows
  <2>2. Bounded(disk'.verdict, disk'.order)
    BY <1>2, <2>1 DEF CacheBounded, CacheSet, CacheSetThrows, Persist
  <2> QED  BY <2>1, <2>2 DEF CacheBounded
<1>3. CASE UNCHANGED cacheVars
  BY <1>3 DEF CacheBounded, cacheVars
<1>4. CASE Restart
  BY <1>4 DEF CacheBounded, Restart
<1>5. ASSUME NEW k \in Keys, NEW v \in Decisions, DecisionFinal(k, v)
      PROVE  CacheBounded'
  <2>1. bytes[k] \in Digests /\ v \in Verdicts \ {"none"}
    BY <1>5, UpstreamBytes DEF IInv, FlightsCoherent, Phased, DecisionFinal, Verdicts, ALLOWED, Decisions
  <2> QED  BY <1>2, <1>5, <2>1 DEF DecisionFinal
<1>6. ASSUME NEW k \in Keys, Resume(k)
      PROVE  CacheBounded'
  <2>1. bytes[k] \in Digests /\ Enforced(outcome[k]) \in Verdicts \ {"none"}
    BY <1>6, UpstreamBytes DEF IInv, FlightsCoherent, Phased, Resume, Enforced, Verdicts, ALLOWED
  <2> QED  BY <1>2, <1>3, <1>6, <2>1 DEF Resume
<1>7. CASE UNCHANGED vars
  BY <1>3, <1>7 DEF vars
<1> QED
  BY <1>3, <1>4, <1>5, <1>6, <1>7
     DEF Next, FlightStep, RequestTarball, ClientGivesUp, ServePackument, PackumentFetched,
         PackumentFailed, TarballFetched, TarballFailed, DecisionFailed, ApprovalQueueFull,
         HoldForApproval, HumanDecides, HoldTimesOut

(* The verdict cache and its file stay within maxEntries, list exactly their
   entries, and evict the oldest, across rewrites, failed writes and restarts. *)
THEOREM CacheStaysBounded == Spec => []CacheBounded
<1>1. Init => CacheBounded
  BY ProxyAssumption DEF Init, CacheBounded, Bounded, ProxyAssumption
<1>2. IInv /\ CacheBounded /\ [Next]_vars => CacheBounded'
  BY ProxyAssumption, CacheStep
<1> QED  BY <1>1, <1>2, Invariance, PTL DEF Spec

-----------------------------------------------------------------------------
(***************************************************************************)
(* The pending approvals.                                                  *)
(***************************************************************************)
HoldsBounded == Cardinality(Held) <= MaxHolds

ChainsDistinct ==
  \A d \in Digests : \A i, j \in DOMAIN holds[d] : holds[d][i] = holds[d][j] => i = j

HoldsInv == HoldsBounded /\ ChainsDistinct

LEMMA HeldFinite ==
  ASSUME ProxyAssumption
  PROVE  IsFiniteSet(Held) /\ Cardinality(Held) \in Nat
<1>1. IsFiniteSet(Digests) /\ Held \subseteq Digests
  BY DEF ProxyAssumption, Held
<1> QED  BY <1>1, FS_Subset, FS_CardinalityType

(* Settling, timing out and restarting only drop holds, each with its chain. *)
LEMMA HoldsDropped ==
  ASSUME ProxyAssumption, HoldsInv,
         \A d \in Digests : holds'[d] \in {holds[d], <<>>}
  PROVE  HoldsInv'
<1>1. Held' \subseteq Held
  BY DEF Held
<1>2. HoldsBounded'
  <2>1. IsFiniteSet(Held) /\ Cardinality(Held) \in Nat
    BY HeldFinite
  <2>2. Cardinality(Held') <= Cardinality(Held) /\ Cardinality(Held') \in Nat
    BY <1>1, <2>1, FS_Subset, FS_CardinalityType
  <2> QED  BY <2>1, <2>2 DEF HoldsInv, HoldsBounded, ProxyAssumption
<1>3. ChainsDistinct'
  BY DEF HoldsInv, ChainsDistinct
<1> QED  BY <1>2, <1>3 DEF HoldsInv

(* A flight registers once: while it analyses it is on no chain. *)
LEMMA HoldsRegistered ==
  ASSUME ProxyAssumption, TypeOK, ChainsHeld, HoldsInv,
         NEW k \in Keys, NEW d \in Digests, phase[k] = "deciding", ~AtCapacity, Register(k, d)
  PROVE  HoldsInv'
<1>1. holds' = [holds EXCEPT ![d] = Append(holds[d], k)] /\ holds[d] \in Seq(Keys)
  BY DEF Register, TypeOK
<1>2. \A e \in Digests \ {d} : holds'[e] = holds[e]
  BY <1>1 DEF TypeOK
<1>3. /\ holds'[d] = Append(holds[d], k) /\ Len(holds[d]) \in Nat
      /\ DOMAIN holds[d] = 1 .. Len(holds[d]) /\ DOMAIN holds'[d] = 1 .. (Len(holds[d]) + 1)
      /\ \A i \in DOMAIN holds[d] : holds'[d][i] = holds[d][i]
      /\ holds'[d][Len(holds[d]) + 1] = k
  BY <1>1 DEF TypeOK
<1>4. HoldsBounded'
  <2>1. Held' = Held \cup {d}
    BY <1>2, <1>3 DEF Held
  <2>2. IsFiniteSet(Held) /\ Cardinality(Held) \in Nat
    BY HeldFinite
  <2>3. Cardinality(Held \cup {d}) = IF d \in Held THEN Cardinality(Held) ELSE Cardinality(Held) + 1
    BY <2>2, FS_AddElement
  <2>4. Cardinality(Held') = Cardinality(Held \cup {d})
    BY <2>1
  <2> QED
    BY <2>2, <2>3, <2>4 DEF AtCapacity, HoldsBounded, ProxyAssumption
<1>5. ChainsDistinct'
  <2>1. \A i \in DOMAIN holds[d] : holds[d][i] # k
    BY DEF ChainsHeld
  <2>2. \A i, j \in DOMAIN holds'[d] : holds'[d][i] = holds'[d][j] => i = j
    BY <1>3, <2>1 DEF HoldsInv, ChainsDistinct
  <2> QED  BY <1>2, <2>2 DEF HoldsInv, ChainsDistinct
<1> QED  BY <1>4, <1>5 DEF HoldsInv

LEMMA HoldsStep ==
  ASSUME ProxyAssumption, IInv, HoldsInv, [Next]_vars
  PROVE  HoldsInv'
<1>1. CASE UNCHANGED holds
  BY <1>1, HoldsDropped
<1>2. ASSUME NEW k \in Keys, HoldForApproval(k)
      PROVE  HoldsInv'
  <2>1. /\ phase[k] = "deciding" /\ ~AtCapacity /\ Register(k, bytes[k])
        /\ bytes[k] \in Digests
    BY <1>2, UpstreamBytes DEF HoldForApproval, NeedsApproval, IInv, FlightsCoherent, Phased
  <2> QED  BY <2>1, HoldsRegistered DEF IInv
<1>3. ASSUME NEW p \in Packages, NEW o \in {"approve", "deny"}, HumanDecides(p, o)
      PROVE  HoldsInv'
  BY <1>3, HoldsDropped DEF HumanDecides, Delete
<1>4. ASSUME NEW d \in Digests, HoldTimesOut(d)
      PROVE  HoldsInv'
  BY <1>4, HoldsDropped DEF HoldTimesOut, Delete
<1>5. CASE Restart
  BY <1>5, HoldsDropped DEF Restart
<1> QED
  BY <1>1, <1>2, <1>3, <1>4, <1>5
     DEF Next, FlightStep, RequestTarball, ClientGivesUp, ServePackument, PackumentFetched,
         PackumentFailed, TarballFetched, TarballFailed, DecisionFinal, DecisionFailed,
         ApprovalQueueFull, Resume, vars

(* Open holds stay within maxConcurrent, and each chains flights that wait for a
   human on exactly its bytes, none of them twice.                           *)
THEOREM HoldsStayWellFormed == Spec => []HoldsWellFormed
<1>1. Init => HoldsInv
  <2>1. Init => Held = {} /\ ChainsDistinct
    BY DEF Init, Held, ChainsDistinct
  <2>2. Cardinality({}) = 0 /\ 0 <= MaxHolds
    BY FS_EmptySet, ProxyAssumption DEF ProxyAssumption
  <2>3. Held = {} => Cardinality(Held) <= MaxHolds
    BY <2>2
  <2> QED  BY <2>1, <2>3 DEF HoldsInv, HoldsBounded
<1>2. IInv /\ HoldsInv /\ [Next]_vars => HoldsInv'
  BY ProxyAssumption, HoldsStep
<1>3. IInv /\ HoldsInv => HoldsWellFormed
  BY DEF IInv, HoldsInv, HoldsBounded, ChainsDistinct, ChainsHeld, HoldsWellFormed
<1> QED  BY <1>1, <1>2, <1>3, Invariance, PTL DEF Spec

(* No request, slot, waiter or held flight is ever lost. *)
THEOREM NothingIsLost == Spec => []NothingLost
BY NoRequestForgotten, GateKeepsItsSlots, GateLosesNoWaiter, HoldsStayWellFormed, PTL
   DEF NothingLost
=============================================================================
