-------------------------- MODULE TrustStoreProofs --------------------------
(***************************************************************************)
(* Proofs about TrustStore, for every number of versions, processes,       *)
(* commands and broken files.                                              *)
(***************************************************************************)
EXTENDS TrustStore, SequenceTheorems, TLAPS

(***************************************************************************)
(* The inductive invariant: what the writes still to be made and the       *)
(* contents they start from are.                                           *)
(***************************************************************************)

(* The write after the n-th of s clears the opposite entry of its version. *)
Followed(s, n, op) ==
  n + 1 \in DOMAIN s /\ s[n + 1].op = op /\ s[n + 1].v = s[n].v

(* An approval waiting to be written was given by a human; one of a triage is
   followed by its removal from the denials, and a denial by its removal
   from the approvals.                                                       *)
PendingOk(s, given, spoilt) ==
  \A n \in DOMAIN s :
    /\ s[n].op = "approve" => /\ s[n].mode \in given[s[n].v]
                              /\ s[n].v \in spoilt \/ Followed(s, n, "undeny")
    /\ s[n].op = "deny" => Followed(s, n, "unapprove")

AllPending == \A i \in Procs : PendingOk(todo[i], recorded, marred)

(* A process that holds the content of a file holds one the file had. *)
SnapSound(i) ==
  Busy(i) /\ snap[i] # Unread =>
    /\ OnBuilds(Current(i)) => snap[i].only \cap snap[i].ignored = {}
    /\ OnApprovals(Current(i)) => \A v \in Versions : snap[i][v] \in {"none"} \cup recorded[v]

AllSound == \A i \in Procs : SnapSound(i)

IdleRecordsNothing == \A i \in Procs : kind[i] = "idle" => choice[i] = Skips

Clearing(i, v) == Busy(i) /\ Current(i).v = v /\ Current(i).op \in {"undeny", "unapprove"}

(* Both approved and denied only while the write that ends that is next. *)
Both(v) ==
  /\ denials # Broken /\ v \in denials
  /\ approvals # Broken /\ approvals[v] # "none"

SoonExclusive ==
  \A v \in Versions : Both(v) => v \in marred \/ \E i \in Procs : Clearing(i, v)

Domains == DOMAIN todo = Procs /\ DOMAIN snap = Procs

IInv ==
  /\ TypeOK /\ Domains /\ IdleRecordsNothing /\ AllPending /\ AllSound
  /\ BuildsExclusive /\ NothingInvented /\ SoonExclusive

(***************************************************************************)
(* Sequences of writes.                                                    *)
(***************************************************************************)
LEMMA FirstAndRest ==
  ASSUME NEW s \in Seq(Writes), s # <<>>
  PROVE  /\ Head(s) = s[1] /\ 1 \in DOMAIN s /\ Head(s) \in Writes
         /\ Tail(s) \in Seq(Writes) /\ Len(Tail(s)) = Len(s) - 1 /\ Tail(s) # s
         /\ DOMAIN Tail(s) = 1 .. (Len(s) - 1) /\ DOMAIN s = 1 .. Len(s)
         /\ \A n \in DOMAIN Tail(s) : Tail(s)[n] = s[n + 1] /\ n + 1 \in DOMAIN s
<1>1. /\ Head(s) \in Writes /\ Tail(s) \in Seq(Writes) /\ Len(Tail(s)) = Len(s) - 1
      /\ \A n \in 1 .. Len(Tail(s)) : Tail(s)[n] = s[n + 1]
  BY HeadTailProperties
<1>2. Len(s) \in Nat /\ Len(s) > 0 /\ DOMAIN s = 1 .. Len(s) /\ Head(s) = s[1]
  OBVIOUS
<1>3. DOMAIN Tail(s) = 1 .. (Len(s) - 1)
  BY <1>1
<1>4. Tail(s) # s
  <2>1. \A t \in Seq(Writes) : Len(t) = Len(s) - 1 => t # s
    BY <1>2
  <2> QED  BY ONLY <1>1, <2>1
<1>5. \A n \in DOMAIN Tail(s) : Tail(s)[n] = s[n + 1] /\ n + 1 \in DOMAIN s
  BY <1>1, <1>2, <1>3
<1>6. 1 \in DOMAIN s
  BY <1>2
<1> QED  BY <1>1, <1>2, <1>3, <1>4, <1>5, <1>6

LEMMA RestPending ==
  ASSUME NEW s \in Seq(Writes), s # <<>>, NEW given, NEW spoilt, PendingOk(s, given, spoilt)
  PROVE  PendingOk(Tail(s), given, spoilt)
<1>1. ASSUME NEW n \in DOMAIN Tail(s), NEW op, Followed(s, n + 1, op)
      PROVE  Followed(Tail(s), n, op)
  <2>1. n \in Nat /\ n >= 1 /\ n + 2 <= Len(s) /\ Len(s) \in Nat
    BY <1>1, FirstAndRest DEF Followed
  <2>2. n + 1 \in DOMAIN Tail(s) /\ Tail(s)[n + 1] = s[n + 2] /\ Tail(s)[n] = s[n + 1]
    <3>1. n + 1 \in DOMAIN Tail(s)
      BY <2>1, FirstAndRest
    <3>2. Tail(s)[n + 1] = s[(n + 1) + 1] /\ (n + 1) + 1 = n + 2
      BY <2>1, <3>1, FirstAndRest
    <3> QED  BY <3>1, <3>2, FirstAndRest
  <2>3. (n + 1) + 1 = n + 2
    BY <2>1
  <2> QED  BY <1>1, <2>2, <2>3 DEF Followed
<1>2. ASSUME NEW n \in DOMAIN Tail(s)
      PROVE  n + 1 \in DOMAIN s /\ Tail(s)[n] = s[n + 1]
  BY FirstAndRest
<1> QED  BY <1>1, <1>2 DEF PendingOk

LEMMA PendingGrows ==
  ASSUME NEW s \in Seq(Writes), NEW given, NEW spoilt, NEW given2, NEW spoilt2,
         PendingOk(s, given, spoilt), spoilt \subseteq spoilt2,
         \A v \in Versions : given[v] \subseteq given2[v]
  PROVE  PendingOk(s, given2, spoilt2)
<1>1. \A n \in DOMAIN s : s[n].v \in Versions
  <2>1. \A n \in DOMAIN s : s[n] \in Writes
    OBVIOUS
  <2> QED  BY <2>1 DEF Writes
<1> QED  BY <1>1 DEF PendingOk

(* What recordTriageDecisions, recordNoScriptsApprovals and approveCommand write. *)
LEMMA WritesOf ==
  ASSUME NEW v \in Versions, NEW mode \in Modes, NEW asked \in BOOLEAN,
         NEW given, NEW spoilt, mode \in given[v]
  PROVE  /\ TriageDenial(v) \in Seq(Writes) /\ Len(TriageDenial(v)) = 2
         /\ PendingOk(TriageDenial(v), given, spoilt)
         /\ TriageApproval(v, mode) \in Seq(Writes) /\ Len(TriageApproval(v, mode)) <= 3
         /\ PendingOk(TriageApproval(v, mode), given, spoilt)
         /\ VouchApproval(v, mode, asked) \in Seq(Writes) /\ Len(VouchApproval(v, mode, asked)) <= 3
         /\ v \in spoilt => PendingOk(VouchApproval(v, mode, asked), given, spoilt)
<1> DEFINE a == Write("approve", v, mode)  u == Write("undeny", v, mode)
           b == Write("build", v, mode)
           d == Write("deny", v, "no-scripts")  r == Write("unapprove", v, "no-scripts")
<1>1. /\ a \in Writes /\ a.op = "approve" /\ a.v = v /\ a.mode = mode
      /\ u \in Writes /\ u.op = "undeny" /\ u.v = v
      /\ b \in Writes /\ b.op = "build" /\ b.v = v
      /\ d \in Writes /\ d.op = "deny" /\ d.v = v
      /\ r \in Writes /\ r.op = "unapprove" /\ r.v = v
  BY DEF Write, Writes, Modes
<1>2. TriageDenial(v) = <<d, r>>
  BY DEF TriageDenial
<1> HIDE DEF a, u, b, d, r
<1>3. /\ <<d, r>> \in Seq(Writes) /\ Len(<<d, r>>) = 2
      /\ <<a, u>> \in Seq(Writes) /\ Len(<<a, u>>) = 2
      /\ <<a, u, b>> \in Seq(Writes) /\ Len(<<a, u, b>>) = 3
      /\ <<a>> \in Seq(Writes) /\ Len(<<a>>) = 1
      /\ <<a, b>> \in Seq(Writes) /\ Len(<<a, b>>) = 2
  BY <1>1
<1>4. TriageApproval(v, mode) \in {<<a, u>>, <<a, u, b>>}
  <2>1. TriageApproval(v, mode) = <<a, u>> \o (IF Pnpm THEN <<b>> ELSE <<>>)
    BY DEF TriageApproval, BuildWrites, a, u, b
  <2>2. <<a, u>> \o <<>> = <<a, u>>
    BY <1>3, ConcatEmptySeq
  <2>3. <<a, u>> \o <<b>> = Append(<<a, u>>, b)
    BY <1>1, <1>3, AppendIsConcat
  <2>4. Append(<<a, u>>, b) = <<a, u, b>>
    <3>1. /\ Append(<<a, u>>, b) \in Seq(Writes) /\ Len(Append(<<a, u>>, b)) = 3
          /\ \A i \in 1 .. 3 : Append(<<a, u>>, b)[i] = <<a, u, b>>[i]
      BY <1>1, <1>3
    <3> QED  BY <1>3, <3>1, SeqEqual
  <2> QED  BY <2>1, <2>2, <2>3, <2>4
<1>5. VouchApproval(v, mode, asked) \in {<<a>>, <<a, b>>}
  <2>1. VouchApproval(v, mode, asked) = <<a>> \o (IF Pnpm /\ asked THEN <<b>> ELSE <<>>)
    BY DEF VouchApproval, BuildWrites, a, b
  <2>2. <<a>> \o <<>> = <<a>>
    BY <1>3, ConcatEmptySeq
  <2>3. <<a>> \o <<b>> = Append(<<a>>, b)
    BY <1>1, <1>3, AppendIsConcat
  <2>4. Append(<<a>>, b) = <<a, b>>
    <3>1. /\ Append(<<a>>, b) \in Seq(Writes) /\ Len(Append(<<a>>, b)) = 2
          /\ \A i \in 1 .. 2 : Append(<<a>>, b)[i] = <<a, b>>[i]
      BY <1>1, <1>3
    <3> QED  BY <1>3, <3>1, SeqEqual
  <2> QED  BY <2>1, <2>2, <2>3, <2>4
<1>6. PendingOk(<<d, r>>, given, spoilt)
  BY <1>1 DEF PendingOk, Followed
<1>7. PendingOk(<<a, u>>, given, spoilt) /\ PendingOk(<<a, u, b>>, given, spoilt)
  BY <1>1 DEF PendingOk, Followed
<1>8. v \in spoilt => PendingOk(<<a>>, given, spoilt) /\ PendingOk(<<a, b>>, given, spoilt)
  BY <1>1 DEF PendingOk, Followed
<1>9. /\ TriageDenial(v) \in Seq(Writes) /\ Len(TriageDenial(v)) = 2
      /\ PendingOk(TriageDenial(v), given, spoilt)
  BY <1>2, <1>3, <1>6
<1>10. /\ TriageApproval(v, mode) \in Seq(Writes) /\ Len(TriageApproval(v, mode)) <= 3
       /\ PendingOk(TriageApproval(v, mode), given, spoilt)
  <2>1. \A s \in {<<a, u>>, <<a, u, b>>} :
          s \in Seq(Writes) /\ Len(s) <= 3 /\ PendingOk(s, given, spoilt)
    <3>1. Len(<<a, u>>) <= 3 /\ Len(<<a, u, b>>) <= 3
      OBVIOUS
    <3> QED  BY <1>3, <1>7, <3>1, Zenon
  <2> QED  BY <1>4, <2>1, Zenon
<1>11. /\ VouchApproval(v, mode, asked) \in Seq(Writes) /\ Len(VouchApproval(v, mode, asked)) <= 3
       /\ v \in spoilt => PendingOk(VouchApproval(v, mode, asked), given, spoilt)
  <2>1. \A s \in {<<a>>, <<a, b>>} :
          /\ s \in Seq(Writes) /\ Len(s) <= 3
          /\ v \in spoilt => PendingOk(s, given, spoilt)
    <3>1. Len(<<a>>) <= 3 /\ Len(<<a, b>>) <= 3
      OBVIOUS
    <3> QED  BY <1>3, <1>8, <3>1, Zenon
  <2> QED  BY <1>5, <2>1, Zenon
<1> QED  BY <1>9, <1>10, <1>11

LEMMA PickIsVouch ==
  ASSUME NEW v, NEW mode
  PROVE  PickApproval(v, mode) = VouchApproval(v, mode, TRUE)
BY DEF PickApproval, VouchApproval

-----------------------------------------------------------------------------
(***************************************************************************)
(* What a write is about, and what it starts from.                         *)
(***************************************************************************)
ContentsFor(w) == IF OnApprovals(w) THEN Approvals
                  ELSE IF OnDenials(w) THEN SUBSET Versions ELSE Builds

Queue(i) ==
  /\ todo[i] \in Seq(Writes) /\ Len(todo[i]) <= 3
  /\ ~Busy(i) => snap[i] = Unread
  /\ Busy(i) => snap[i] \in {Unread} \cup ContentsFor(Current(i))

LEMMA Queues ==
  ASSUME TypeOK, NEW i \in Procs
  PROVE  Queue(i)
BY DEF TypeOK, Queue, ContentsFor

LEMMA CurrentWrite ==
  ASSUME TypeOK, NEW i \in Procs, Busy(i)
  PROVE  /\ Current(i) \in Writes /\ Current(i) = todo[i][1] /\ 1 \in DOMAIN todo[i]
         /\ Tail(todo[i]) \in Seq(Writes) /\ Len(Tail(todo[i])) <= 3 /\ Tail(todo[i]) # todo[i]
<1>1. todo[i] \in Seq(Writes) /\ todo[i] # <<>> /\ Len(todo[i]) <= 3 /\ Len(todo[i]) \in Nat
  BY Queues DEF Queue, Busy
<1>2. /\ Head(todo[i]) = todo[i][1] /\ 1 \in DOMAIN todo[i] /\ Head(todo[i]) \in Writes
      /\ Tail(todo[i]) \in Seq(Writes) /\ Len(Tail(todo[i])) = Len(todo[i]) - 1
      /\ Tail(todo[i]) # todo[i]
  BY <1>1, FirstAndRest
<1>3. Len(todo[i]) - 1 <= 3
  BY <1>1
<1> QED  BY <1>2, <1>3 DEF Current

LEMMA WriteKinds ==
  ASSUME NEW w \in Writes
  PROVE  /\ w.v \in Versions /\ w.mode \in Modes
         /\ w.op \in {"approve", "undeny", "build", "deny", "unapprove"}
         /\ OnBuilds(w) <=> ~OnApprovals(w) /\ ~OnDenials(w)
         /\ OnApprovals(w) => ~OnDenials(w)
BY DEF Writes, OnBuilds, OnApprovals, OnDenials

LEMMA LoadedTypes ==
  ASSUME TrustAssumption, TypeOK, NEW w \in Writes
  PROVE  Loaded(w, ContentOf(w)) \in ContentsFor(w)
<1>1. CASE OnApprovals(w)
  BY <1>1 DEF TypeOK, Loaded, ContentOf, ContentsFor, Nobody, Approvals
<1>2. CASE ~OnApprovals(w) /\ OnDenials(w)
  <2>1. Loaded(w, ContentOf(w)) = IF denials # Broken THEN denials ELSE {}
    BY <1>2 DEF Loaded, ContentOf
  <2>2. denials \in (SUBSET Versions) \cup {Broken}
    BY DEF TypeOK
  <2>3. (IF denials # Broken THEN denials ELSE {}) \in SUBSET Versions
    BY <2>2
  <2> QED  BY <1>2, <2>1, <2>3 DEF ContentsFor
<1>3. CASE ~OnApprovals(w) /\ ~OnDenials(w)
  <2>1. builds # Broken
    BY DEF TrustAssumption, TypeOK
  <2> QED  BY <1>3, <2>1 DEF TypeOK, Loaded, ContentOf, ContentsFor
<1> QED  BY <1>1, <1>2, <1>3

LEMMA BuildTypes ==
  ASSUME TrustAssumption, NEW w \in Writes, NEW b \in Builds, b.only \cap b.ignored = {}
  PROVE  /\ BuildMoved(b, w) \in Builds
         /\ BuildMoved(b, w).only \cap BuildMoved(b, w).ignored = {}
<1>1. NameOf[w.v] \in Names
  BY WriteKinds DEF TrustAssumption
<1> QED  BY <1>1 DEF BuildMoved, Builds

(***************************************************************************)
(* Types, and the writes still to be made.                                 *)
(***************************************************************************)
Frame == TypeOK /\ Domains /\ IdleRecordsNothing /\ AllPending

LEMMA TakeUpFrame ==
  ASSUME IInv, NEW i \in Procs, NEW v \in Versions, TakeUp(i, v)
  PROVE  Frame'
<1> USE DEF IInv
<1> DEFINE mode == choice[i][v]
           spoilt == marred'
           given == recorded'
<1>1. /\ ~Busy(i) /\ (mode \in Modes \/ mode = "deny") /\ kind[i] # "idle"
      /\ UNCHANGED <<files, kind, offered, snap, bounds>>
  <2>1. ~Busy(i) /\ (mode \in Modes \/ mode = "deny") /\ UNCHANGED <<files, kind, offered, snap, bounds>>
    BY DEF TakeUp
  <2>2. choice[i] # Skips
    BY <2>1 DEF Skips, Modes
  <2> QED  BY <2>1, <2>2 DEF IdleRecordsNothing
<1>2. /\ recorded' \in [Versions -> SUBSET Modes] /\ marred' \in SUBSET Versions
      /\ \A u \in Versions : recorded[u] \subseteq recorded'[u]
      /\ marred \subseteq marred'
      /\ mode \in Modes => mode \in recorded'[v]
      /\ kind[i] # "triage" => v \in marred'
  BY <1>1 DEF TakeUp, TypeOK, Modes
<1>3. choice' \in [Procs -> [Versions -> Choices]] /\ \A j \in Procs \ {i} : choice'[j] = choice[j]
  BY DEF TakeUp, TypeOK, Choices
<1>4. PICK scripts \in BOOLEAN :
        todo' = [todo EXCEPT ![i] =
                   CASE choice[i][v] = "deny" -> TriageDenial(v)
                     [] choice[i][v] # "deny" /\ kind[i] = "triage" -> TriageApproval(v, choice[i][v])
                     [] choice[i][v] # "deny" /\ kind[i] = "pick" -> PickApproval(v, choice[i][v])
                     [] choice[i][v] # "deny" /\ kind[i] = "vouch" ->
                          VouchApproval(v, choice[i][v], scripts)]
  BY DEF TakeUp
<1>5. /\ DOMAIN todo' = Procs /\ \A j \in Procs \ {i} : todo'[j] = todo[j]
      /\ todo'[i] \in Seq(Writes) /\ Len(todo'[i]) <= 3
      /\ PendingOk(todo'[i], recorded', marred')
  <2>1. DOMAIN todo' = Procs /\ \A j \in Procs \ {i} : todo'[j] = todo[j]
    BY <1>4 DEF Domains
  <2>2. CASE mode = "deny"
    <3>1. todo'[i] = TriageDenial(v)
      BY <1>4, <2>2 DEF Domains
    <3>2. /\ TriageDenial(v) \in Seq(Writes) /\ Len(TriageDenial(v)) = 2
          /\ PendingOk(TriageDenial(v), [u \in Versions |-> Modes], marred')
      <4>1. "normal" \in Modes
        BY DEF Modes
      <4> QED  BY <4>1, WritesOf
    <3>3. PendingOk(TriageDenial(v), recorded', marred')
      <4>1. \A n \in DOMAIN TriageDenial(v) : TriageDenial(v)[n].op # "approve"
        BY DEF TriageDenial, Write
      <4> QED  BY <3>2, <4>1 DEF PendingOk
    <3> QED  BY <2>1, <3>1, <3>2, <3>3
  <2>3. CASE mode \in Modes /\ kind[i] = "triage"
    <3>1. todo'[i] = TriageApproval(v, mode)
      BY <1>4, <2>3 DEF Domains, Modes
    <3> QED  BY <1>2, <2>1, <2>3, <3>1, WritesOf
  <2>4. CASE mode \in Modes /\ kind[i] = "pick"
    <3>1. todo'[i] = VouchApproval(v, mode, TRUE)
      BY <1>4, <2>4, PickIsVouch DEF Domains, Modes
    <3> QED  BY <1>2, <2>1, <2>4, <3>1, WritesOf
  <2>5. CASE mode \in Modes /\ kind[i] = "vouch"
    <3>1. todo'[i] = VouchApproval(v, mode, scripts)
      BY <1>4, <2>5 DEF Domains, Modes
    <3> QED  BY <1>2, <2>1, <2>5, <3>1, WritesOf
  <2> QED  BY <1>1, <2>2, <2>3, <2>4, <2>5 DEF TypeOK
<1>6. \A j \in Procs : Queue(j)'
  <2>1. ASSUME NEW j \in Procs PROVE Queue(j)'
    <3>1. CASE j = i
      <4>1. snap'[i] = Unread
        BY <1>1, Queues DEF Queue
      <4> QED  BY <1>5, <3>1, <4>1 DEF Queue
    <3>2. CASE j # i
      BY <1>1, <1>5, <3>2, Queues DEF Queue, Busy, Current
    <3> QED  BY <3>1, <3>2
  <2> QED  BY <2>1
<1>7. AllPending'
  <2>1. ASSUME NEW j \in Procs PROVE PendingOk(todo'[j], recorded', marred')
    <3>1. CASE j = i
      BY <1>5, <3>1
    <3>2. CASE j # i
      <4>1. todo[j] \in Seq(Writes) /\ PendingOk(todo[j], recorded, marred) /\ todo'[j] = todo[j]
        BY <1>5, <3>2, Queues DEF AllPending, Queue
      <4> QED  BY <1>2, <4>1, PendingGrows
    <3> QED  BY <3>1, <3>2
  <2> QED  BY <2>1 DEF AllPending
<1>8. IdleRecordsNothing'
  BY <1>1, <1>3 DEF IdleRecordsNothing
<1>9. TypeOK' /\ Domains'
  BY <1>1, <1>2, <1>3, <1>5, <1>6 DEF TypeOK, Domains, Queue, ContentsFor, files, bounds
<1> QED  BY <1>7, <1>8, <1>9 DEF Frame

(* A process moves its queue on, or reads, or drops everything. *)
LEMMA QueueFrame ==
  ASSUME TypeOK, Domains, AllPending, NEW i \in Procs,
         DOMAIN todo' = Procs, DOMAIN snap' = Procs, recorded' = recorded,
         marred \subseteq marred', marred' \in SUBSET Versions,
         \A j \in Procs \ {i} : todo'[j] = todo[j] /\ snap'[j] = snap[j],
         \/ todo'[i] = <<>> /\ snap'[i] = Unread
         \/ Busy(i) /\ todo'[i] = Tail(todo[i]) /\ snap'[i] = Unread
         \/ Busy(i) /\ todo'[i] = todo[i] /\ snap'[i] \in ContentsFor(Current(i))
  PROVE  Domains' /\ AllPending' /\ \A j \in Procs : Queue(j)'
<1>1. ASSUME NEW j \in Procs PROVE Queue(j)' /\ PendingOk(todo'[j], recorded', marred')
  <2>1. Queue(j) /\ PendingOk(todo[j], recorded, marred) /\ todo[j] \in Seq(Writes)
    BY Queues DEF AllPending, Queue
  <2>2. \A v \in Versions : recorded[v] \subseteq recorded'[v]
    OBVIOUS
  <2>3. CASE todo'[j] = todo[j] /\ snap'[j] = snap[j]
    <3>1. Queue(j)'
      BY <2>1, <2>3 DEF Queue, Busy, Current
    <3> QED  BY <2>1, <2>2, <2>3, <3>1, PendingGrows
  <2>4. CASE todo'[j] = <<>> /\ snap'[j] = Unread
    BY <2>4 DEF Queue, Busy, PendingOk
  <2>5. CASE Busy(j) /\ todo'[j] = Tail(todo[j]) /\ snap'[j] = Unread
    <3>1. Tail(todo[j]) \in Seq(Writes) /\ Len(Tail(todo[j])) <= 3
      BY <2>5, CurrentWrite
    <3>2. PendingOk(Tail(todo[j]), recorded, marred)
      BY <2>1, <2>5, RestPending DEF Busy
    <3>3. PendingOk(Tail(todo[j]), recorded', marred')
      BY <2>2, <3>1, <3>2, PendingGrows
    <3> QED  BY <2>5, <3>1, <3>3 DEF Queue
  <2>6. CASE Busy(j) /\ todo'[j] = todo[j] /\ snap'[j] \in ContentsFor(Current(j))
    <3>1. Queue(j)'
      BY <2>1, <2>6 DEF Queue, Busy, Current, ContentsFor, OnApprovals, OnDenials
    <3> QED  BY <2>1, <2>2, <2>6, <3>1, PendingGrows
  <2> QED  BY <2>3, <2>4, <2>5, <2>6
<1> QED  BY <1>1 DEF Domains, AllPending

LEMMA ReadFrame ==
  ASSUME TrustAssumption, IInv, NEW i \in Procs, Read(i)
  PROVE  Frame'
<1> USE DEF IInv
<1> DEFINE content == Loaded(Current(i), ContentOf(Current(i)))
<1>1. /\ Busy(i) /\ snap[i] = Unread
      /\ UNCHANGED <<files, kind, offered, choice, history, bounds>>
      /\ \/ todo' = [todo EXCEPT ![i] = Tail(todo[i])] /\ snap' = snap
         \/ snap' = [snap EXCEPT ![i] = content] /\ todo' = todo
  BY DEF Read
<1>2. content \in ContentsFor(Current(i))
  BY <1>1, CurrentWrite, LoadedTypes
<1> HIDE DEF content
<1>3. /\ DOMAIN todo' = Procs /\ DOMAIN snap' = Procs
      /\ \A j \in Procs \ {i} : todo'[j] = todo[j] /\ snap'[j] = snap[j]
      /\ \/ todo'[i] = Tail(todo[i]) /\ snap'[i] = Unread
         \/ todo'[i] = todo[i] /\ snap'[i] = content
  BY <1>1 DEF Domains
<1>4. recorded' = recorded /\ marred' = marred /\ marred \in SUBSET Versions
  BY <1>1 DEF history, TypeOK
<1>5. Domains' /\ AllPending' /\ \A j \in Procs : Queue(j)'
  BY <1>1, <1>2, <1>3, <1>4, QueueFrame
<1>6. TypeOK' /\ IdleRecordsNothing'
  BY <1>1, <1>4, <1>5 DEF TypeOK, IdleRecordsNothing, Queue, ContentsFor, files, history, bounds
<1> QED  BY <1>5, <1>6 DEF Frame

LEMMA StoreFrame ==
  ASSUME TrustAssumption, IInv, NEW i \in Procs, Store(i)
  PROVE  Frame'
<1> USE DEF IInv
<1> DEFINE w == Current(i)
<1>1. /\ Busy(i) /\ snap[i] # Unread
      /\ approvals' = IF OnApprovals(w) THEN ApprovalSet(snap[i], w) ELSE approvals
      /\ denials' = IF OnDenials(w) THEN DenialSet(snap[i], w) ELSE denials
      /\ builds' = IF OnBuilds(w) THEN BuildMoved(snap[i], w) ELSE builds
      /\ marred' = marred \cup Spoilt(i, w)
      /\ todo' = [todo EXCEPT ![i] = Tail(todo[i])]
      /\ snap' = [snap EXCEPT ![i] = Unread]
      /\ UNCHANGED <<kind, offered, choice, recorded, bounds>>
  BY DEF Store
<1>2. w \in Writes /\ snap[i] \in ContentsFor(w)
  BY <1>1, CurrentWrite, Queues DEF Queue
<1> HIDE DEF w
<1>3. /\ DOMAIN todo' = Procs /\ DOMAIN snap' = Procs
      /\ \A j \in Procs \ {i} : todo'[j] = todo[j] /\ snap'[j] = snap[j]
      /\ todo'[i] = Tail(todo[i]) /\ snap'[i] = Unread
  BY <1>1 DEF Domains
<1>4. Spoilt(i, w) \in SUBSET Versions
  BY DEF Spoilt
<1>5. marred \subseteq marred' /\ marred' \in SUBSET Versions
  BY <1>1, <1>4 DEF TypeOK
<1>6. Domains' /\ AllPending' /\ \A j \in Procs : Queue(j)'
  BY <1>1, <1>3, <1>5, QueueFrame
<1>7. approvals' \in Approvals \cup {Broken}
  <2>1. CASE OnApprovals(w)
    <3>1. snap[i] \in Approvals
      BY <1>2, <2>1 DEF ContentsFor
    <3>2. ApprovalSet(snap[i], w) \in Approvals
      BY <1>2, <3>1, WriteKinds DEF ApprovalSet, Approvals
    <3> QED  BY <1>1, <2>1, <3>2
  <2>2. CASE ~OnApprovals(w)
    BY <1>1, <2>2 DEF TypeOK
  <2> QED  BY <2>1, <2>2
<1>8. denials' \in (SUBSET Versions) \cup {Broken}
  <2>1. CASE OnDenials(w)
    <3>1. snap[i] \in SUBSET Versions
      BY <1>2, <2>1, WriteKinds DEF ContentsFor
    <3>2. DenialSet(snap[i], w) \in SUBSET Versions
      BY <1>2, <3>1, WriteKinds DEF DenialSet
    <3> QED  BY <1>1, <2>1, <3>2
  <2>2. CASE ~OnDenials(w)
    BY <1>1, <2>2 DEF TypeOK
  <2> QED  BY <2>1, <2>2
<1>9. builds' \in Builds
  <2>1. CASE OnBuilds(w)
    <3>1. snap[i] \in Builds /\ snap[i].only \cap snap[i].ignored = {}
      BY <1>1, <1>2, <2>1, WriteKinds DEF ContentsFor, AllSound, SnapSound, w
    <3> QED  BY <1>1, <1>2, <2>1, <3>1, BuildTypes
  <2>2. CASE ~OnBuilds(w)
    BY <1>1, <2>2 DEF TypeOK
  <2> QED  BY <2>1, <2>2
<1>10. TypeOK' /\ IdleRecordsNothing'
  BY <1>1, <1>5, <1>6, <1>7, <1>8, <1>9 DEF TypeOK, IdleRecordsNothing, Queue, ContentsFor, bounds
<1> QED  BY <1>6, <1>10 DEF Frame

LEMMA CrashFrame ==
  ASSUME IInv, NEW i \in Procs, Crash(i)
  PROVE  Frame'
<1> USE DEF IInv
<1>1. marred \subseteq marred' /\ marred' \in SUBSET Versions
  BY CurrentWrite, WriteKinds DEF Crash, TypeOK
<1>2. /\ DOMAIN todo' = Procs /\ DOMAIN snap' = Procs
      /\ \A j \in Procs \ {i} : todo'[j] = todo[j] /\ snap'[j] = snap[j]
      /\ todo'[i] = <<>> /\ snap'[i] = Unread /\ recorded' = recorded
  BY DEF Crash, Domains
<1>3. Domains' /\ AllPending' /\ \A j \in Procs : Queue(j)'
  BY <1>1, <1>2, QueueFrame
<1>4. TypeOK' /\ IdleRecordsNothing'
  <2>1. Skips \in [Versions -> Choices]
    BY DEF Skips, Choices
  <2>2. /\ UNCHANGED <<files, bounds>>
        /\ kind' = [kind EXCEPT ![i] = "idle"] /\ offered' = [offered EXCEPT ![i] = {}]
        /\ choice' = [choice EXCEPT ![i] = Skips]
    BY DEF Crash
  <2>3. IdleRecordsNothing'
    BY <2>2 DEF IdleRecordsNothing, TypeOK
  <2> QED  BY <1>1, <1>2, <1>3, <2>1, <2>2, <2>3 DEF TypeOK, Queue, ContentsFor, files, bounds
<1> QED  BY <1>3, <1>4 DEF Frame

LEMMA FrameStep ==
  ASSUME TrustAssumption, IInv, [Next]_vars
  PROVE  Frame'
<1>1. CASE UNCHANGED <<todo, snap, history>> /\ TypeOK' /\ IdleRecordsNothing'
  BY <1>1 DEF IInv, Frame, Domains, AllPending, history
<1>2. ASSUME NEW i \in Procs, ProcessNext(i) PROVE Frame'
  <2>1. ASSUME NEW k \in {"triage", "pick", "vouch"}, NEW V \in SUBSET Versions, Offer(i, k, V)
        PROVE  Frame'
    <3>1. /\ UNCHANGED <<todo, snap, history, files, choice, conflicts>> /\ commands' = commands + 1
          /\ kind' = [kind EXCEPT ![i] = k] /\ offered' = [offered EXCEPT ![i] = V]
      BY <2>1 DEF Offer
    <3>2. TypeOK'
      BY <3>1 DEF IInv, TypeOK, files, history, Busy, Current
    <3>3. IdleRecordsNothing'
      BY <3>1 DEF IInv, IdleRecordsNothing, TypeOK
    <3> QED  BY <1>1, <3>1, <3>2, <3>3
  <2>2. CASE StartTriage(i) \/ StartPick(i) \/ StartVouch(i)
    <3>1. /\ Unapproved \in SUBSET Versions /\ Unapproved \ DeniedNow \in SUBSET Versions
          /\ \A v \in Versions : {v} \in SUBSET Versions
      BY DEF Unapproved
    <3>2. PICK k \in {"triage", "pick", "vouch"}, V \in SUBSET Versions : Offer(i, k, V)
      BY <2>2, <3>1, Zenon DEF StartTriage, StartPick, StartVouch
    <3> QED  BY <2>1, <3>2
  <2>3. ASSUME NEW c \in [Versions -> Choices], Decide(i, c) PROVE Frame'
    <3>1. /\ UNCHANGED <<todo, snap, history, files, kind, bounds>> /\ kind[i] # "idle"
          /\ choice' = [choice EXCEPT ![i] = c] /\ offered' = [offered EXCEPT ![i] = {}]
      BY <2>3 DEF Decide
    <3>2. TypeOK'
      BY <3>1 DEF IInv, TypeOK, files, history, bounds, Busy, Current
    <3>3. IdleRecordsNothing'
      BY <3>1 DEF IInv, IdleRecordsNothing, TypeOK
    <3> QED  BY <1>1, <3>1, <3>2, <3>3
  <2>4. CASE Truncate(i)
    <3>1. UNCHANGED <<todo, snap, history, kind, offered, choice, approvals, denials, bounds>>
          /\ builds' = NoBuilds
      BY <2>4 DEF Truncate, process
    <3>2. TypeOK' /\ IdleRecordsNothing'
      BY <3>1 DEF IInv, TypeOK, IdleRecordsNothing, history, bounds, Busy, Current, NoBuilds, Builds
    <3> QED  BY <1>1, <3>1, <3>2
  <2>5. CASE Finish(i)
    <3>1. /\ UNCHANGED <<todo, snap, history, files, offered, choice, bounds>>
          /\ kind' = [kind EXCEPT ![i] = "idle"] /\ choice[i] = Skips
      BY <2>5 DEF Finish
    <3>2. TypeOK'
      BY <3>1 DEF IInv, TypeOK, files, history, bounds, Busy, Current
    <3>3. IdleRecordsNothing'
      BY <3>1 DEF IInv, IdleRecordsNothing, TypeOK
    <3> QED  BY <1>1, <3>1, <3>2, <3>3
  <2> QED
    BY <1>2, <2>2, <2>3, <2>4, <2>5, TakeUpFrame, ReadFrame, StoreFrame, CrashFrame DEF ProcessNext
<1>3. CASE BreakFile
  <2>1. /\ UNCHANGED <<todo, snap, history, kind, offered, choice, builds, commands>>
        /\ conflicts' = conflicts + 1
        /\ approvals' \in {approvals, Broken} /\ denials' \in {denials, Broken}
    BY <1>3 DEF BreakFile, process
  <2>2. TypeOK' /\ IdleRecordsNothing'
    BY <2>1 DEF IInv, TypeOK, IdleRecordsNothing, history, Busy, Current
  <2> QED  BY <1>1, <2>1, <2>2
<1>4. CASE UNCHANGED vars
  <2>1. TypeOK' /\ IdleRecordsNothing'
    BY <1>4 DEF IInv, TypeOK, IdleRecordsNothing, vars, files, process, history, bounds, Busy, Current
  <2> QED  BY <1>1, <1>4, <2>1 DEF vars, process
<1> QED  BY <1>2, <1>3, <1>4 DEF Next

-----------------------------------------------------------------------------
(***************************************************************************)
(* The build lists exclude each other, and no approval is made up.         *)
(***************************************************************************)
LEMMA SoundStep ==
  ASSUME TrustAssumption, IInv, [Next]_vars
  PROVE  AllSound' /\ BuildsExclusive' /\ NothingInvented'
<1> USE DEF IInv
<1>1. ASSUME UNCHANGED <<todo, snap, recorded>>,
             approvals' \in {approvals, Broken}, builds' \in {builds, NoBuilds}
      PROVE  AllSound' /\ BuildsExclusive' /\ NothingInvented'
  <2>1. AllSound'
    BY <1>1 DEF AllSound, SnapSound, Busy, Current
  <2>2. BuildsExclusive'
    BY <1>1 DEF BuildsExclusive, NoBuilds
  <2>3. NothingInvented'
    BY <1>1 DEF NothingInvented
  <2> QED  BY <2>1, <2>2, <2>3
<1>2. ASSUME NEW i \in Procs, NEW v \in Versions, TakeUp(i, v)
      PROVE  AllSound' /\ BuildsExclusive' /\ NothingInvented'
  <2>1. /\ ~Busy(i) /\ UNCHANGED <<approvals, builds, snap>>
        /\ \A j \in Procs \ {i} : todo'[j] = todo[j]
        /\ \A u \in Versions : recorded[u] \subseteq recorded'[u]
    BY <1>2 DEF TakeUp, files, Domains, TypeOK
  <2>2. AllSound'
    <3>1. ASSUME NEW j \in Procs PROVE SnapSound(j)'
      <4>1. CASE j = i
        <5>1. snap'[i] = Unread
          BY <2>1, Queues DEF Queue
        <5> QED  BY <4>1, <5>1 DEF SnapSound
      <4>2. CASE j # i
        <5>1. SnapSound(j) /\ todo'[j] = todo[j] /\ snap'[j] = snap[j]
          BY <2>1, <4>2 DEF AllSound
        <5> QED  BY <2>1, <5>1 DEF SnapSound, Busy, Current
      <4> QED  BY <4>1, <4>2
    <3> QED  BY <3>1 DEF AllSound
  <2>3. BuildsExclusive' /\ NothingInvented'
    BY <2>1 DEF BuildsExclusive, NothingInvented
  <2> QED  BY <2>2, <2>3
<1>3. ASSUME NEW i \in Procs, Read(i)
      PROVE  AllSound' /\ BuildsExclusive' /\ NothingInvented'
  <2> DEFINE w == Current(i)
  <2>1. /\ Busy(i) /\ snap[i] = Unread /\ UNCHANGED <<approvals, builds, recorded>>
        /\ \A j \in Procs \ {i} : todo'[j] = todo[j] /\ snap'[j] = snap[j]
        /\ \/ snap'[i] = Unread
           \/ todo'[i] = todo[i] /\ snap'[i] = Loaded(w, ContentOf(w))
    BY <1>3 DEF Read, files, history, Domains
  <2>2. w \in Writes
    BY <2>1, CurrentWrite
  <2>3. SnapSound(i)'
    <3>1. CASE snap'[i] = Unread
      BY <3>1 DEF SnapSound
    <3>2. CASE todo'[i] = todo[i] /\ snap'[i] = Loaded(w, ContentOf(w))
      <4>1. Busy(i)' /\ Current(i)' = w
        BY <2>1, <3>2 DEF Busy, Current
      <4>2. OnBuilds(w) => snap'[i] = builds
        <5>1. builds # Broken
          BY DEF TrustAssumption, TypeOK
        <5> QED  BY <2>2, <3>2, <5>1, WriteKinds DEF Loaded, ContentOf
      <4>3. OnApprovals(w) => snap'[i] = IF approvals # Broken THEN approvals ELSE Nobody
        BY <3>2 DEF Loaded, ContentOf
      <4>4. OnApprovals(w) => \A u \in Versions : snap'[i][u] \in {"none"} \cup recorded[u]
        BY <4>3 DEF NothingInvented, Nobody
      <4>5. OnBuilds(w) => snap'[i].only \cap snap'[i].ignored = {}
        BY <4>2 DEF BuildsExclusive
      <4> HIDE DEF w
      <4>6. /\ OnBuilds(Current(i))' => OnBuilds(w)
            /\ OnApprovals(Current(i))' => OnApprovals(w)
        BY <4>1 DEF OnBuilds, OnApprovals
      <4> QED  BY <2>1, <4>4, <4>5, <4>6 DEF SnapSound
    <3> QED  BY <2>1, <3>1, <3>2
  <2>4. AllSound'
    <3>1. ASSUME NEW j \in Procs \ {i} PROVE SnapSound(j)'
      BY <2>1, <3>1 DEF AllSound, SnapSound, Busy, Current
    <3> QED  BY <2>3, <3>1 DEF AllSound
  <2> QED  BY <2>1, <2>4 DEF BuildsExclusive, NothingInvented
<1>4. ASSUME NEW i \in Procs, Store(i)
      PROVE  AllSound' /\ BuildsExclusive' /\ NothingInvented'
  <2> DEFINE w == Current(i)
  <2>1. /\ Busy(i) /\ snap[i] # Unread /\ recorded' = recorded
        /\ approvals' = IF OnApprovals(w) THEN ApprovalSet(snap[i], w) ELSE approvals
        /\ builds' = IF OnBuilds(w) THEN BuildMoved(snap[i], w) ELSE builds
        /\ snap'[i] = Unread
        /\ \A j \in Procs \ {i} : todo'[j] = todo[j] /\ snap'[j] = snap[j]
    BY <1>4 DEF Store, Domains
  <2>2. w \in Writes /\ snap[i] \in ContentsFor(w) /\ SnapSound(i) /\ w = todo[i][1] /\ 1 \in DOMAIN todo[i]
    BY <2>1, CurrentWrite, Queues DEF Queue, AllSound
  <2>3. AllSound'
    <3>1. ASSUME NEW j \in Procs PROVE SnapSound(j)'
      BY <2>1 DEF AllSound, SnapSound, Busy, Current
    <3> QED  BY <3>1 DEF AllSound
  <2>4. BuildsExclusive'
    <3>1. CASE OnBuilds(w)
      <4>1. snap[i] \in Builds /\ snap[i].only \cap snap[i].ignored = {}
        BY <2>1, <2>2, <3>1, WriteKinds DEF ContentsFor, SnapSound
      <4> QED  BY <2>1, <2>2, <3>1, <4>1, BuildTypes DEF BuildsExclusive
    <3>2. CASE ~OnBuilds(w)
      BY <2>1, <3>2 DEF BuildsExclusive
    <3> QED  BY <3>1, <3>2
  <2>5. NothingInvented'
    <3>1. CASE OnApprovals(w)
      <4>1. snap[i] \in Approvals /\ \A u \in Versions : snap[i][u] \in {"none"} \cup recorded[u]
        BY <2>1, <2>2, <3>1 DEF ContentsFor, SnapSound
      <4>2. w.op = "approve" => w.mode \in recorded[w.v]
        BY <2>2 DEF AllPending, PendingOk
      <4> HIDE DEF w
      <4>3. approvals' = [snap[i] EXCEPT ![w.v] = IF w.op = "approve" THEN w.mode ELSE "none"]
        BY <2>1, <3>1 DEF ApprovalSet
      <4>4. \A u \in Versions : approvals'[u] \in {"none"} \cup recorded[u]
        BY <4>1, <4>2, <4>3 DEF Approvals
      <4> QED  BY <2>1, <4>4 DEF NothingInvented
    <3>2. CASE ~OnApprovals(w)
      BY <2>1, <3>2 DEF NothingInvented
    <3> QED  BY <3>1, <3>2
  <2> QED  BY <2>3, <2>4, <2>5
<1>5. ASSUME NEW i \in Procs, Crash(i)
      PROVE  AllSound' /\ BuildsExclusive' /\ NothingInvented'
  <2>1. /\ UNCHANGED <<approvals, builds, recorded>> /\ snap'[i] = Unread
        /\ \A j \in Procs \ {i} : todo'[j] = todo[j] /\ snap'[j] = snap[j]
    BY <1>5 DEF Crash, files, Domains
  <2>2. ASSUME NEW j \in Procs PROVE SnapSound(j)'
    BY <2>1 DEF AllSound, SnapSound, Busy, Current
  <2> QED  BY <2>1, <2>2 DEF AllSound, BuildsExclusive, NothingInvented
<1>6. ASSUME NEW i \in Procs,
             \/ StartTriage(i) \/ StartPick(i) \/ StartVouch(i)
             \/ \E c \in [Versions -> Choices] : Decide(i, c)
             \/ Truncate(i) \/ Finish(i)
      PROVE  AllSound' /\ BuildsExclusive' /\ NothingInvented'
  BY <1>1, <1>6 DEF Offer, StartTriage, StartPick, StartVouch, Decide, Truncate, Finish, files,
    process, history
<1>7. CASE BreakFile \/ UNCHANGED vars
  BY <1>1, <1>7 DEF BreakFile, vars, files, process, history
<1> QED  BY <1>2, <1>3, <1>4, <1>5, <1>6, <1>7 DEF Next, ProcessNext

-----------------------------------------------------------------------------
(***************************************************************************)
(* Approvals and denials exclude each other.                               *)
(***************************************************************************)

(* An entry that nobody spoilt comes out of a write as from the file as it is:
   if the write is about another version, it was there before.               *)
LEMMA StoredEntries ==
  ASSUME TrustAssumption, IInv, NEW i \in Procs, Store(i), NEW v \in Versions, v \notin marred'
  PROVE  /\ v # Current(i).v /\ Both(v)' => Both(v)
         /\ v = Current(i).v /\ Both(v)' =>
              Current(i).op \notin {"undeny", "unapprove"}
         /\ Current(i).op = "build" /\ Both(v)' => Both(v)
<1> USE DEF IInv
<1> DEFINE w == Current(i)
           now == Loaded(w, ContentOf(w))
<1>1. /\ Busy(i) /\ snap[i] # Unread
      /\ approvals' = IF OnApprovals(w) THEN ApprovalSet(snap[i], w) ELSE approvals
      /\ denials' = IF OnDenials(w) THEN DenialSet(snap[i], w) ELSE denials
      /\ v \notin Spoilt(i, w)
  BY DEF Store
<1>2. w \in Writes /\ snap[i] \in ContentsFor(w) /\ now \in ContentsFor(w)
  BY <1>1, CurrentWrite, Queues, LoadedTypes DEF Queue
<1>3. CASE OnApprovals(w)
  <2>1. snap[i] \in Approvals /\ now \in Approvals
    BY <1>2, <1>3 DEF ContentsFor
  <2>2. now = IF approvals # Broken THEN approvals ELSE Nobody
    BY <1>3 DEF Loaded, ContentOf
  <2>3. ApprovalSet(snap[i], w)[v] = ApprovalSet(now, w)[v]
    BY <1>1, <1>3 DEF Spoilt
  <2>4. approvals'[v] = ApprovalSet(now, w)[v] /\ denials' = denials
    BY <1>1, <1>2, <1>3, <2>3, WriteKinds
  <2> HIDE DEF w, now
  <2>5. v # w.v /\ approvals'[v] # "none" => approvals # Broken /\ approvals[v] # "none"
    BY <2>1, <2>2, <2>4 DEF ApprovalSet, Nobody, Approvals
  <2>6. v = w.v /\ approvals'[v] # "none" => w.op = "approve"
    BY <2>1, <2>4 DEF ApprovalSet, Approvals
  <2>7. w.op # "build"
    BY <1>3 DEF OnApprovals
  <2> QED  BY <2>4, <2>5, <2>6, <2>7 DEF Both, w
<1>4. CASE OnDenials(w)
  <2>1. snap[i] \in SUBSET Versions /\ now \in SUBSET Versions
    BY <1>2, <1>4, WriteKinds DEF ContentsFor
  <2>2. now = IF denials # Broken THEN denials ELSE {}
    BY <1>2, <1>4, WriteKinds DEF Loaded, ContentOf
  <2>3. v \in DenialSet(snap[i], w) <=> v \in DenialSet(now, w)
    BY <1>1, <1>2, <1>4, WriteKinds DEF Spoilt
  <2>4. (v \in denials' <=> v \in DenialSet(now, w)) /\ approvals' = approvals
    BY <1>1, <1>2, <1>4, <2>3, WriteKinds
  <2> HIDE DEF w, now
  <2>5. v # w.v /\ v \in denials' => denials # Broken /\ v \in denials
    BY <2>2, <2>4 DEF DenialSet
  <2>6. v = w.v /\ v \in denials' => w.op = "deny"
    BY <2>4 DEF DenialSet
  <2>7. w.op # "build"
    BY <1>4 DEF OnDenials
  <2> QED  BY <2>4, <2>5, <2>6, <2>7 DEF Both, w
<1>5. CASE OnBuilds(w)
  <2>1. approvals' = approvals /\ denials' = denials /\ w.op = "build"
    BY <1>1, <1>2, <1>5, WriteKinds DEF OnBuilds
  <2> QED  BY <2>1 DEF Both
<1> QED  BY <1>2, <1>3, <1>4, <1>5, WriteKinds

LEMMA ExclusiveStep ==
  ASSUME TrustAssumption, IInv, [Next]_vars
  PROVE  SoonExclusive'
<1> USE DEF IInv
<1>1. ASSUME approvals' \in {approvals, Broken}, denials' \in {denials, Broken},
             marred \subseteq marred',
             \A i \in Procs : Busy(i) => todo'[i] = todo[i]
      PROVE  SoonExclusive'
  <2>1. ASSUME NEW v \in Versions, Both(v)', v \notin marred'
        PROVE  \E i \in Procs : Clearing(i, v)'
    <3>1. Both(v) /\ v \notin marred
      BY <1>1, <2>1 DEF Both
    <3>2. PICK i \in Procs : Clearing(i, v)
      BY <3>1 DEF SoonExclusive
    <3> QED  BY <1>1, <3>2 DEF Clearing, Busy, Current
  <2> QED  BY <2>1 DEF SoonExclusive
<1>2. ASSUME NEW i \in Procs, NEW v \in Versions, TakeUp(i, v) PROVE SoonExclusive'
  <2>1. /\ ~Busy(i) /\ UNCHANGED files /\ marred \subseteq marred'
        /\ \A j \in Procs \ {i} : todo'[j] = todo[j]
    BY <1>2 DEF TakeUp, Domains
  <2> QED  BY <1>1, <2>1 DEF files
<1>3. ASSUME NEW i \in Procs, Read(i) PROVE SoonExclusive'
  <2> DEFINE w == Current(i)
             content == Loaded(w, ContentOf(w))
  <2>1. /\ Busy(i) /\ UNCHANGED <<approvals, denials, marred>>
        /\ \A j \in Procs \ {i} : todo'[j] = todo[j]
        /\ todo'[i] = todo[i] \/ Nothing(w, content)
    BY <1>3 DEF Read, files, history, Domains
  <2>2. w \in Writes
    BY <2>1, CurrentWrite
  <2>3. CASE todo'[i] = todo[i]
    <3>1. \A j \in Procs : todo'[j] = todo[j]
      BY <2>1, <2>3
    <3> QED  BY <1>1, <2>1, <3>1
  <2>4. CASE Nothing(w, content)
    <3>1. ~Both(w.v)
      <4>1. CASE w.op = "unapprove" /\ content[w.v] = "none"
        BY <4>1 DEF Loaded, ContentOf, OnApprovals, Both
      <4>2. CASE w.op = "undeny" /\ w.v \notin content
        <5>1. content = IF denials # Broken THEN denials ELSE {}
          BY <4>2 DEF Loaded, ContentOf, OnApprovals, OnDenials
        <5> QED  BY <4>2, <5>1 DEF Both
      <4> QED  BY <2>4, <4>1, <4>2 DEF Nothing
    <3>2. ASSUME NEW v \in Versions, Both(v)', v \notin marred'
          PROVE  \E j \in Procs : Clearing(j, v)'
      <4>1. Both(v) /\ v \notin marred
        BY <2>1, <3>2 DEF Both
      <4>2. PICK j \in Procs : Clearing(j, v)
        BY <4>1 DEF SoonExclusive
      <4>3. j # i
        BY <3>1, <4>1, <4>2 DEF Clearing
      <4> QED  BY <2>1, <4>2, <4>3 DEF Clearing, Busy, Current
    <3> QED  BY <3>2 DEF SoonExclusive
  <2> QED  BY <2>1, <2>3, <2>4
<1>4. ASSUME NEW i \in Procs, Store(i) PROVE SoonExclusive'
  <2> DEFINE w == Current(i)
  <2>1. /\ Busy(i) /\ marred \subseteq marred' /\ todo'[i] = Tail(todo[i])
        /\ \A j \in Procs \ {i} : todo'[j] = todo[j]
    BY <1>4 DEF Store, Domains
  <2>2. /\ w \in Writes /\ w = todo[i][1] /\ 1 \in DOMAIN todo[i]
        /\ todo[i] \in Seq(Writes) /\ todo[i] # <<>>
    BY <2>1, CurrentWrite, Queues DEF Queue, Busy
  <2>3. ASSUME NEW v \in Versions, Both(v)', v \notin marred'
        PROVE  \E j \in Procs : Clearing(j, v)'
    <3>1. CASE Both(v) /\ (v # w.v \/ w.op = "build")
      <4>1. PICK j \in Procs : Clearing(j, v)
        BY <2>1, <2>3, <3>1 DEF SoonExclusive
      <4>2. j # i
        BY <3>1, <4>1 DEF Clearing
      <4> QED  BY <2>1, <4>1, <4>2 DEF Clearing, Busy, Current
    <3>2. CASE v = w.v /\ w.op \in {"approve", "deny"}
      <4> DEFINE op == IF w.op = "approve" THEN "undeny" ELSE "unapprove"
      <4>1. Followed(todo[i], 1, op)
        BY <2>1, <2>2, <2>3, <3>2 DEF AllPending, PendingOk
      <4>2. 2 \in DOMAIN todo[i] /\ todo[i][2].op = op /\ todo[i][2].v = v
        BY <2>2, <3>2, <4>1 DEF Followed
      <4>3. Tail(todo[i]) # <<>> /\ Head(Tail(todo[i])) = todo[i][2]
        <5>1. /\ Tail(todo[i]) \in Seq(Writes) /\ DOMAIN Tail(todo[i]) = 1 .. (Len(todo[i]) - 1)
              /\ DOMAIN todo[i] = 1 .. Len(todo[i]) /\ Len(Tail(todo[i])) = Len(todo[i]) - 1
              /\ \A n \in DOMAIN Tail(todo[i]) : Tail(todo[i])[n] = todo[i][n + 1]
          BY <2>2, FirstAndRest
        <5>2. 1 \in DOMAIN Tail(todo[i]) /\ 1 + 1 = 2
          BY <2>2, <4>2, <5>1
        <5>3. Tail(todo[i])[1] = todo[i][2]
          BY <5>1, <5>2, Zenon
        <5>4. \A t \in Seq(Writes) : 1 \in DOMAIN t => t # <<>>
          OBVIOUS
        <5>5. Tail(todo[i]) # <<>>
          BY <5>1, <5>2, <5>4, Zenon
        <5> QED  BY <5>1, <5>3, <5>5, FirstAndRest
      <4>4. Clearing(i, v)'
        BY <2>1, <4>2, <4>3 DEF Clearing, Busy, Current
      <4> QED  BY <4>4
    <3>3. /\ v # w.v => Both(v)
          /\ v = w.v => w.op \notin {"undeny", "unapprove"}
          /\ w.op = "build" => Both(v)
      BY <1>4, <2>3, StoredEntries
    <3>4. w.op \in {"approve", "undeny", "build", "deny", "unapprove"}
      BY <2>2, WriteKinds
    <3> QED  BY <3>1, <3>2, <3>3, <3>4
  <2> QED  BY <2>3 DEF SoonExclusive
<1>5. ASSUME NEW i \in Procs, Crash(i) PROVE SoonExclusive'
  <2>1. /\ UNCHANGED files /\ marred \subseteq marred'
        /\ Busy(i) => Current(i).v \in marred'
        /\ \A j \in Procs \ {i} : todo'[j] = todo[j]
    BY <1>5 DEF Crash, Domains
  <2>2. ASSUME NEW v \in Versions, Both(v)', v \notin marred'
        PROVE  \E j \in Procs : Clearing(j, v)'
    <3>1. Both(v) /\ v \notin marred
      BY <2>1, <2>2 DEF Both, files
    <3>2. PICK j \in Procs : Clearing(j, v)
      BY <3>1 DEF SoonExclusive
    <3>3. j # i
      BY <2>1, <2>2, <3>2 DEF Clearing
    <3> QED  BY <2>1, <3>2, <3>3 DEF Clearing, Busy, Current
  <2> QED  BY <2>2 DEF SoonExclusive
<1>6. ASSUME NEW i \in Procs,
             \/ StartTriage(i) \/ StartPick(i) \/ StartVouch(i)
             \/ \E c \in [Versions -> Choices] : Decide(i, c)
             \/ Truncate(i) \/ Finish(i)
      PROVE  SoonExclusive'
  BY <1>1, <1>6 DEF Offer, StartTriage, StartPick, StartVouch, Decide, Truncate, Finish, files,
    process, history
<1>7. CASE BreakFile \/ UNCHANGED vars
  BY <1>1, <1>7 DEF BreakFile, vars, files, process, history
<1> QED  BY <1>2, <1>3, <1>4, <1>5, <1>6, <1>7 DEF Next, ProcessNext

-----------------------------------------------------------------------------
(***************************************************************************)
(* Entries change by their own writes.                                     *)
(***************************************************************************)
OwnOrStale(v) ==
  \/ Broken \in {approvals, approvals', denials, denials'}
  \/ approvals'[v] = approvals[v] /\ (v \in denials' <=> v \in denials)
  \/ \E i \in Procs : /\ Busy(i) /\ todo'[i] # todo[i]
                      /\ \/ Current(i).v = v
                         \/ snap[i] # Loaded(Current(i), ContentOf(Current(i)))

LEMMA EntryStep ==
  ASSUME TrustAssumption, IInv, [Next]_vars, NEW v \in Versions
  PROVE  OwnOrStale(v)
<1> USE DEF IInv
<1>1. CASE UNCHANGED <<approvals, denials>>
  BY <1>1 DEF OwnOrStale
<1>2. ASSUME NEW i \in Procs, Store(i) PROVE OwnOrStale(v)
  <2> DEFINE w == Current(i)
             now == Loaded(w, ContentOf(w))
  <2>1. /\ Busy(i)
        /\ approvals' = IF OnApprovals(w) THEN ApprovalSet(snap[i], w) ELSE approvals
        /\ denials' = IF OnDenials(w) THEN DenialSet(snap[i], w) ELSE denials
        /\ todo'[i] = Tail(todo[i])
    BY <1>2 DEF Store, Domains
  <2>2. w \in Writes /\ now \in ContentsFor(w) /\ todo'[i] # todo[i]
    BY <2>1, CurrentWrite, LoadedTypes
  <2>3. ASSUME approvals # Broken, denials # Broken, w.v # v, snap[i] = now
        PROVE  approvals'[v] = approvals[v] /\ (v \in denials' <=> v \in denials)
    <3>1. CASE OnApprovals(w)
      <4>1. now = approvals /\ denials' = denials /\ now \in Approvals
        BY <2>1, <2>2, <2>3, <3>1, WriteKinds DEF Loaded, ContentOf, ContentsFor
      <4>2. approvals' = ApprovalSet(approvals, w)
        BY <2>1, <2>3, <3>1, <4>1
      <4> HIDE DEF w, now
      <4> QED  BY <2>3, <4>1, <4>2 DEF ApprovalSet, Approvals
    <3>2. CASE OnDenials(w)
      <4>1. now = denials /\ approvals' = approvals
        BY <2>1, <2>2, <2>3, <3>2, WriteKinds DEF Loaded, ContentOf
      <4>2. denials' = DenialSet(denials, w)
        BY <2>1, <2>3, <3>2, <4>1
      <4> HIDE DEF w, now
      <4> QED  BY <2>3, <4>1, <4>2 DEF DenialSet
    <3>3. CASE ~OnApprovals(w) /\ ~OnDenials(w)
      BY <2>1, <3>3
    <3> QED  BY <3>1, <3>2, <3>3
  <2> QED  BY <2>1, <2>2, <2>3 DEF OwnOrStale
<1>3. CASE BreakFile
  BY <1>3 DEF BreakFile, OwnOrStale
<1>4. ASSUME NEW i \in Procs,
             \/ StartTriage(i) \/ StartPick(i) \/ StartVouch(i)
             \/ \E c \in [Versions -> Choices] : Decide(i, c)
             \/ \E u \in Versions : TakeUp(i, u)
             \/ Read(i) \/ Truncate(i) \/ Finish(i) \/ Crash(i)
      PROVE  OwnOrStale(v)
  BY <1>1, <1>4 DEF Offer, StartTriage, StartPick, StartVouch, Decide, TakeUp, Read, Truncate,
    Finish, Crash, files
<1>5. CASE UNCHANGED vars
  BY <1>1, <1>5 DEF vars, files
<1> QED  BY <1>2, <1>3, <1>4, <1>5 DEF Next, ProcessNext

-----------------------------------------------------------------------------
(***************************************************************************)
(* The invariant is inductive, and what follows from it.                   *)
(***************************************************************************)
LEMMA IInvInit == ASSUME TrustAssumption, Init PROVE IInv
<1>1. \A i \in Procs : ~Busy(i) /\ todo[i] = <<>> /\ snap[i] = Unread
  BY DEF Init, Busy
<1>2. approvals \in Approvals /\ denials = {} /\ builds = NoBuilds
  BY DEF Init, TrustAssumption
<1>3. recorded \in [Versions -> SUBSET Modes]
      /\ \A v \in Versions : approvals[v] \in {"none"} \cup recorded[v]
  BY <1>2 DEF Init, Approvals
<1>4. TypeOK
  <2>1. Skips \in [Versions -> Choices] /\ NoBuilds \in Builds
    BY DEF Skips, Choices, NoBuilds, Builds
  <2>2. \A i \in Procs : todo[i] \in Seq(Writes) /\ Len(todo[i]) <= 3
    <3>1. <<>> \in Seq(Writes) /\ Len(<<>>) <= 3
      OBVIOUS
    <3> QED  BY <1>1, <3>1
  <2> QED  BY <1>1, <1>2, <1>3, <2>1, <2>2 DEF Init, TypeOK
<1>5. Domains /\ IdleRecordsNothing /\ AllPending /\ AllSound
  BY <1>1 DEF Init, Domains, IdleRecordsNothing, AllPending, PendingOk, AllSound, SnapSound
<1>6. BuildsExclusive /\ NothingInvented /\ SoonExclusive
  BY <1>2, <1>3 DEF BuildsExclusive, NoBuilds, NothingInvented, SoonExclusive, Both
<1> QED  BY <1>4, <1>5, <1>6 DEF IInv

LEMMA IInvStep == ASSUME TrustAssumption, IInv, [Next]_vars PROVE IInv'
BY FrameStep, SoundStep, ExclusiveStep DEF IInv, Frame

(* Queued writes, the contents they start from and the files agree, whichever processes
   overwrite each other or die, and whatever a merge breaks.                  *)
THEOREM TrustInvariance == Spec => []IInv
BY IInvInit, IInvStep, TrustAssumption, PTL DEF Spec

(* Every file is broken or has its format; a queue never grows past the three
   writes of one decision.                                                    *)
THEOREM TrustTypeCorrect == Spec => []TypeOK
BY TrustInvariance, PTL DEF IInv

(* A package is never both approved and ignored for builds. *)
THEOREM BuildListsExclusive == Spec => []BuildsExclusive
BY TrustInvariance, PTL DEF IInv

(* Every approval in the file is one a human gave that version in that mode. *)
THEOREM ApprovalsAreHuman == Spec => []NothingInvented
BY TrustInvariance, PTL DEF IInv

(* Triages leave no version both approved and denied, unless they raced for it
   or one died over it.                                                       *)
THEOREM TriageKeepsExclusive == Spec => []TriageExclusive
<1>1. IInv => TriageExclusive
  <2>1. ASSUME IInv, NEW v \in DeniedNow, ApprovedNow[v]
        PROVE  v \in marred \/ \E i \in Procs : Busy(i) /\ Current(i).v = v
    <3>1. v \in Versions /\ denials # Broken /\ v \in denials
      BY <2>1 DEF IInv, TypeOK, DeniedNow
    <3>2. approvals # Broken /\ approvals[v] # "none"
      BY <2>1, <3>1 DEF ApprovedNow
    <3> QED  BY <2>1, <3>1, <3>2 DEF IInv, SoonExclusive, Both, Clearing
  <2> QED  BY <2>1 DEF TriageExclusive
<1> QED  BY <1>1, TrustInvariance, PTL

(* The lists hold no approval nobody gave and do not contradict each other. *)
THEOREM ListsStaySound == Spec => []ListsSound
BY BuildListsExclusive, TriageKeepsExclusive, ApprovalsAreHuman, PTL DEF ListsSound

(* An entry changes only by a write about its version, or by one whose process
   read the file before somebody else changed it.                             *)
THEOREM EntriesOnlyByOwnWrites == Spec => EntriesKept
<1>1. IInv /\ [Next]_vars => [\A v \in Versions : OwnOrStale(v)]_vars
  BY TrustAssumption, EntryStep
<1>2. [\A v \in Versions : OwnOrStale(v)]_vars
      => [\A v \in Versions :
       \/ Broken \in {approvals, approvals', denials, denials'}
       \/ approvals'[v] = approvals[v] /\ (v \in denials' <=> v \in denials)
       \/ \E i \in Procs : /\ Busy(i) /\ todo'[i] # todo[i]
                           /\ \/ Current(i).v = v
                              \/ snap[i] # Loaded(Current(i), ContentOf(Current(i)))]_vars
  BY DEF OwnOrStale
<1> QED  BY <1>1, <1>2, TrustInvariance, PTL DEF Spec, EntriesKept
=============================================================================
