--------------------------- MODULE WorkflowProofs ---------------------------
(***************************************************************************)
(* Proofs about Workflow, for every approval mode, every reading of a      *)
(* task, every flow and every number of retries, corrections, resumes and  *)
(* cancellations.                                                          *)
(***************************************************************************)
EXTENDS Workflow, SequenceTheorems, TLAPS

(***************************************************************************)
(* The inductive invariant.  Four copies of the metadata are about: the     *)
(* file, the one runFlow read, the one the orchestrator and the one a       *)
(* cancellation are about to write.                                         *)
(***************************************************************************)
Running == {"flow", "working", "hung", "correct", "recheck", "finalize"}

(* Where the orchestrator is, or goes once it has written. *)
Stage == IF pc = "write" THEN after ELSE pc

(* An orchestrator knows its worker and its cycle, and has a file. *)
StageOk ==
  /\ Stage \in WorkerStarts => worker \in WorkerIds
  /\ Stage = "recheck" => cycle >= 1
  /\ pc # "idle" => meta.status # "created"
  /\ pc = "write" => copy.status # "created"

(* What any copy of the file says is true: a pause that it shows is one, a human gave
   the approval it has, and a worker completed each role that it has completed.      *)
Truthful(m) ==
  /\ m.status = "awaiting-approval" => m.required /\ ~m.approved
  /\ m.approved => vouched
  /\ Completed(m) \subseteq done
FilesTruthful == Truthful(meta) /\ Truthful(seen) /\ Truthful(copy) /\ Truthful(cancel)

(* A copy lacks an approval that a human gave only if something undid it. *)
ApprovalKnown ==
  /\ vouched /\ ~meta.approved => lost \/ Recording
  /\ pc = "write" /\ vouched /\ ~copy.approved => lost
  /\ Stage \in Running /\ vouched /\ ~seen.approved => lost

(* All copies of one run's file ask for an approval, or none does. *)
RequirementKnown ==
  /\ Stage \in Running => (seen.required <=> meta.required)
  /\ pc = "write" => (copy.required <=> meta.required)
  /\ cancel.status = "cancelled" => (cancel.required <=> meta.required)

Unstarted ==
  meta.status = "created" => wrote = {} /\ done = {} /\ ~vouched /\ cancel.status # "cancelled"

ReviewKnown == "reviewer" \in got.roles => (got.severe <=> reviewed)

CompletionKnown ==
  /\ pc = "done" /\ meta.status = "completed" => ~got.failed /\ ~got.severe
  /\ pc = "write" /\ after = "done" /\ copy.status = "completed" => ~got.failed /\ ~got.severe

IInv ==
  /\ TypeOK /\ StageOk /\ FilesTruthful /\ ApprovalKnown /\ RequirementKnown
  /\ Unstarted /\ ReviewKnown /\ CompletionKnown /\ FlowWritersApproved /\ SkipsOnlyDone

(***************************************************************************)
(* The metadata file.                                                      *)
(***************************************************************************)
LEMMA NoMetadataFacts ==
  /\ NoMetadata \in Metadata /\ Completed(NoMetadata) = {}
  /\ NoMetadata.status = "created" /\ NoMetadata.approved = FALSE
BY DEF NoMetadata, Metadata, Completed

LEMMA WorkersEntry ==
  ASSUME NEW m \in Metadata, NEW ws \in SUBSET WorkerIds
  PROVE  LET n == [m EXCEPT !.workers = ws]
         IN /\ n \in Metadata /\ n.workers = ws
            /\ n.status = m.status /\ n.required = m.required /\ n.approved = m.approved
BY DEF Metadata

LEMMA StatusEntry ==
  ASSUME NEW m \in Metadata,
         NEW s \in {"created", "running", "awaiting-approval", "completed", "failed", "cancelled"}
  PROVE  LET n == [m EXCEPT !.status = s]
         IN /\ n \in Metadata
            /\ n.status = s /\ n.required = m.required /\ n.approved = m.approved
            /\ n.workers = m.workers /\ Completed(n) = Completed(m)
BY DEF Metadata, Completed

LEMMA CompletedRoles ==
  ASSUME NEW m \in Metadata PROVE Completed(m) \subseteq Roles
BY DEF Completed, WorkerIds, Metadata

LEMMA FlowTypes ==
  ASSUME WorkflowAssumption, NEW s \in Signals, NEW override \in Flows
  PROVE  FlowOf(s, override) \in Seq(Roles) /\ ApprovalRequired(s) \in BOOLEAN
<1>1. override \in Seq(Roles) /\ s \in SignalRecords
  BY DEF WorkflowAssumption
<1>2. /\ "implementer" \in Roles /\ "discovery" \in Roles /\ "tester" \in Roles
  BY DEF Roles
<1>3. SuggestedFlow(s) \in Seq(Roles)
  BY <1>2 DEF SuggestedFlow
<1>4. ApprovalRequired(s) \in BOOLEAN
  BY <1>1 DEF ApprovalRequired, Mandatory, SignalRecords
<1> QED  BY <1>1, <1>3, <1>4 DEF FlowOf

-----------------------------------------------------------------------------
LEMMA IInvInit == WorkflowAssumption /\ Init => IInv
<1> SUFFICES ASSUME WorkflowAssumption, Init PROVE IInv
  OBVIOUS
<1>1. /\ NoMetadata \in Metadata /\ Completed(NoMetadata) = {}
      /\ NoMetadata.status = "created" /\ NoMetadata.approved = FALSE
  BY NoMetadataFacts
<1>2. TypeOK
  <2>1. NoResults \in Results /\ <<>> \in Seq(Roles)
    BY DEF NoResults, Results
  <2>2. attempt \in 0 .. MaxRetries + 1 /\ cycle \in 0 .. MaxCorrections
        /\ resumes \in 0 .. MaxResumes /\ cancels \in 0 .. MaxCancels
    BY DEF Init, WorkflowAssumption
  <2>3. wrote \subseteq Parts /\ skip \subseteq Roles /\ done \subseteq Roles
        /\ pc \in Places /\ after \in Places
    BY DEF Init, Places
  <2> QED  BY <1>1, <2>1, <2>2, <2>3, Zenon DEF Init, TypeOK
<1>3. /\ StageOk /\ FilesTruthful /\ ApprovalKnown /\ RequirementKnown /\ Unstarted
      /\ ReviewKnown /\ CompletionKnown
  BY <1>1 DEF Init, StageOk, FilesTruthful, Truthful, ApprovalKnown, RequirementKnown, Unstarted,
              ReviewKnown, CompletionKnown, Running, Stage, WorkerStarts, NoResults
<1>4. FlowWritersApproved /\ SkipsOnlyDone
  BY <1>1 DEF Init, FlowWritersApproved, SkipsOnlyDone
<1> QED  BY <1>2, <1>3, <1>4 DEF IInv

(***************************************************************************)
(* Where the orchestrator stays within its memory: the file, the copies     *)
(* about to be written and the history are as they were.                    *)
(***************************************************************************)
Quiet == UNCHANGED <<meta, copy, after, got, resumes, cancellation, approval, work>>

LEMMA QuietStep ==
  ASSUME WorkflowAssumption, IInv, Quiet, TypeOK', pc # "write",
         pc \notin {"idle", "done", "write"}, pc' \notin {"idle", "done", "write", "recheck"},
         pc' \in WorkerStarts => worker' \in WorkerIds,
         Truthful(seen'), skip' \subseteq done,
         seen'.required <=> meta.required,
         vouched /\ ~seen'.approved => lost
  PROVE  IInv'
<1>1. Stage' = pc' /\ StageOk'
  BY DEF Quiet, IInv, StageOk, Stage
<1>2. FilesTruthful'
  BY DEF Quiet, cancellation, approval, work, IInv, FilesTruthful, Truthful, Completed
<1>3. ApprovalKnown' /\ RequirementKnown'
  BY <1>1 DEF Quiet, cancellation, approval, work, IInv, ApprovalKnown, RequirementKnown, Recording
<1>4. Unstarted' /\ ReviewKnown' /\ CompletionKnown'
  BY DEF Quiet, cancellation, approval, work, IInv, Unstarted, ReviewKnown, CompletionKnown
<1>5. FlowWritersApproved' /\ SkipsOnlyDone'
  BY DEF Quiet, cancellation, approval, work, IInv, FlowWritersApproved, SkipsOnlyDone
<1> QED  BY <1>1, <1>2, <1>3, <1>4, <1>5 DEF IInv

LEMMA ReadMetadataStep ==
  ASSUME WorkflowAssumption, IInv, ReadMetadata PROVE IInv'
<1>1. TypeOK'
  BY DEF ReadMetadata, Settled, IInv, TypeOK, Places, cancellation, approval, work
<1>2. /\ pc = "begin" /\ pc' = "flow" /\ seen' = meta /\ skip' = skip /\ Quiet
  BY DEF ReadMetadata, Settled, Quiet
<1>3. Truthful(seen') /\ skip' \subseteq done
  BY <1>2 DEF IInv, FilesTruthful, SkipsOnlyDone, Truthful, Completed
<1>4. vouched /\ ~seen'.approved => lost
  BY <1>2 DEF IInv, ApprovalKnown, Recording
<1> QED  BY <1>1, <1>2, <1>3, <1>4, QuietStep DEF WorkerStarts

(* A step within the flow that leaves what runFlow read alone. *)
LEMMA FlowStep ==
  ASSUME WorkflowAssumption, IInv, Quiet, TypeOK', pc \in Running, UNCHANGED <<seen, skip>>,
         pc' \in Running \ {"recheck"}, pc' \in WorkerStarts => worker' \in WorkerIds
  PROVE  IInv'
<1>1. pc # "write" /\ Stage = pc /\ pc \notin {"idle", "done", "write"}
      /\ pc' \notin {"idle", "done", "write", "recheck"}
  BY DEF Running, Stage
<1>2. Truthful(seen') /\ skip' \subseteq done
  BY DEF IInv, FilesTruthful, SkipsOnlyDone, Truthful, Completed
<1>3. (seen'.required <=> meta.required) /\ (vouched /\ ~seen'.approved => lost)
  BY <1>1 DEF IInv, ApprovalKnown, RequirementKnown
<1> QED  BY <1>1, <1>2, <1>3, QuietStep

LEMMA QueueTail ==
  ASSUME NEW q \in Seq(Roles), q # <<>>
  PROVE  Head(q) \in Roles /\ Tail(q) \in Seq(Roles)
BY HeadTailProperties

LEMMA SkipStep ==
  ASSUME WorkflowAssumption, IInv, Skip PROVE IInv'
<1>1. flow' \in Seq(Roles)
  BY QueueTail DEF Skip, IInv, TypeOK
<1>2. TypeOK'
  BY <1>1 DEF Skip, Settled, IInv, TypeOK, Places, cancellation, approval, work
<1>3. pc = "flow" /\ pc' = "flow" /\ UNCHANGED <<seen, skip>> /\ Quiet
  BY DEF Skip, Settled, Quiet
<1> QED  BY <1>2, <1>3, FlowStep DEF Running, WorkerStarts

LEMMA RetryStep ==
  ASSUME WorkflowAssumption, IInv, Retry PROVE IInv'
<1>1. attempt' \in 0 .. MaxRetries + 1
  BY DEF Retry, MayRetry, IInv, TypeOK, WorkflowAssumption
<1>2. TypeOK'
  BY <1>1 DEF Retry, Settled, IInv, TypeOK, Places, WorkerStarts, cancellation, approval, work
<1>3. /\ pc = "working" /\ pc' \in WorkerStarts /\ UNCHANGED <<seen, skip>> /\ Quiet
      /\ worker' = worker
  BY DEF Retry, Settled, Quiet
<1>4. worker' \in WorkerIds
  BY <1>3 DEF IInv, StageOk, Stage, WorkerStarts
<1> QED  BY <1>2, <1>3, <1>4, FlowStep DEF Running, WorkerStarts

LEMMA PipesCloseStep ==
  ASSUME WorkflowAssumption, IInv, PipesClose PROVE IInv'
<1>1. TypeOK'
  BY DEF PipesClose, Settled, IInv, TypeOK, Places, cancellation, approval, work
<1>2. /\ pc = "hung" /\ pc' = "working" /\ UNCHANGED <<seen, skip>> /\ Quiet
      /\ worker' = worker
  BY DEF PipesClose, Settled, Quiet
<1>3. worker' \in WorkerIds
  BY <1>2 DEF IInv, StageOk, Stage, WorkerStarts
<1> QED  BY <1>1, <1>2, <1>3, FlowStep DEF Running, WorkerStarts

LEMMA CorrectionEndsStep ==
  ASSUME WorkflowAssumption, IInv, CorrectionEnds PROVE IInv'
<1>1. TypeOK'
  BY DEF CorrectionEnds, Settled, IInv, TypeOK, Places, cancellation, approval, work,
         WorkflowAssumption
<1>2. pc = "correct" /\ pc' = "flow" /\ UNCHANGED <<seen, skip>> /\ Quiet
  BY DEF CorrectionEnds, Settled, Quiet
<1> QED  BY <1>1, <1>2, FlowStep DEF Running, WorkerStarts

LEMMA FlowEndsStep ==
  ASSUME WorkflowAssumption, IInv, FlowEnds PROVE IInv'
<1>1. TypeOK'
  BY DEF FlowEnds, Settled, IInv, TypeOK, Places, cancellation, approval, work
<1>2. pc = "flow" /\ pc' = "finalize" /\ UNCHANGED <<seen, skip>> /\ Quiet
  BY DEF FlowEnds, Settled, Quiet
<1> QED  BY <1>1, <1>2, FlowStep DEF Running, WorkerStarts

(***************************************************************************)
(* Where the orchestrator reads the file in order to write it back.        *)
(***************************************************************************)
LEMMA WriteBackStep ==
  ASSUME WorkflowAssumption, IInv, TypeOK',
         NEW m \in Metadata, NEW place \in Places, WriteBack(m, place),
         UNCHANGED <<meta, resumes, cancellation, approval>>,
         pc \in Running,
         m.status # "created", m.status = "awaiting-approval" => meta.status = "awaiting-approval",
         m.required = meta.required, m.approved = meta.approved,
         Completed(m) \subseteq done', done \subseteq done', skip' \subseteq done',
         \/ seen' = seen
         \/ seen' = NoMetadata /\ place \notin Running,
         place \in WorkerStarts => worker' \in WorkerIds,
         place = "recheck" => cycle' >= 1,
         "flow" \in wrote' => "flow" \in wrote \/ ~meta.required \/ vouched,
         "reviewer" \in got'.roles => (got'.severe <=> reviewed'),
         place = "done" /\ m.status = "completed" => ~got'.failed /\ ~got'.severe
  PROVE  IInv'
<1>1. /\ pc' = "write" /\ after' = place /\ copy' = m /\ meta' = meta /\ cancel' = cancel
      /\ vouched' = vouched /\ lost' = lost
  BY DEF WriteBack, cancellation, approval
<1>2. /\ Stage = pc /\ Stage' = place /\ pc # "write" /\ pc # "idle" /\ ~Recording
      /\ meta.status # "created"
  BY <1>1 DEF Stage, Running, Recording, IInv, StageOk
<1>3. StageOk' /\ Unstarted' /\ ReviewKnown' /\ CompletionKnown' /\ SkipsOnlyDone'
  BY <1>1, <1>2 DEF StageOk, Unstarted, ReviewKnown, CompletionKnown, SkipsOnlyDone
<1>4. FilesTruthful'
  <2>1. Completed(meta)' = Completed(meta) /\ Completed(cancel)' = Completed(cancel)
        /\ Completed(copy)' = Completed(m) /\ Completed(seen)' = Completed(seen')
    BY <1>1 DEF Completed
  <2>2. Truthful(meta)' /\ Truthful(cancel)'
    BY <1>1, <2>1 DEF IInv, FilesTruthful, Truthful
  <2>3. Truthful(copy)'
    BY <1>1, <2>1 DEF IInv, FilesTruthful, Truthful
  <2>4. Truthful(seen)'
    BY <1>1, <2>1, NoMetadataFacts DEF IInv, FilesTruthful, Truthful
  <2> QED  BY <2>2, <2>3, <2>4 DEF FilesTruthful
<1>5. ApprovalKnown'
  BY <1>1, <1>2 DEF IInv, ApprovalKnown, Recording
<1>6. RequirementKnown'
  BY <1>1, <1>2 DEF IInv, RequirementKnown
<1>7. FlowWritersApproved'
  BY <1>1 DEF IInv, FlowWritersApproved
<1> QED  BY <1>3, <1>4, <1>5, <1>6, <1>7 DEF IInv

(* A worker is launched: the gate let it pass, or it is no part of the flow. *)
LEMMA LaunchStep ==
  ASSUME WorkflowAssumption, IInv, NEW w \in WorkerIds, Launch(w),
         pc \in Running, flow' \in Seq(Roles), cycle' \in 0 .. MaxCorrections,
         UNCHANGED <<seen, skip, got, resumes, cancellation, approval, reviewed, done>>,
         w.part = "flow" /\ w.role \notin ReadOnly => ~meta.required \/ vouched
  PROVE  IInv'
<1>1. PICK place \in WorkerStarts : WriteBack(meta, place)
  BY DEF Launch
<1>2. /\ worker' = w /\ attempt' = 1 /\ meta' = meta
      /\ wrote' = IF w.role \in ReadOnly THEN wrote ELSE wrote \cup {w.part}
  BY DEF Launch
<1>3. /\ pc # "idle" /\ pc # "write" /\ meta.status # "created" /\ meta \in Metadata
      /\ w.part \in Parts
  BY DEF Running, IInv, StageOk, TypeOK, WorkerIds
<1>4. TypeOK'
  <2>1. attempt' \in 0 .. MaxRetries + 1
    BY <1>2 DEF WorkflowAssumption
  <2>2. pc' \in Places \cup {"write"} /\ after' \in Places /\ copy' \in Metadata
    BY <1>1, <1>3 DEF WriteBack, WorkerStarts, Places
  <2>3. wrote' \subseteq Parts /\ worker' \in WorkerIds \cup {NoWorker}
    BY <1>2, <1>3 DEF IInv, TypeOK
  <2> QED  BY <1>2, <2>1, <2>2, <2>3 DEF IInv, TypeOK, cancellation, approval
<1>5. Completed(meta) \subseteq done' /\ skip' \subseteq done'
  BY DEF IInv, FilesTruthful, Truthful, SkipsOnlyDone
<1>6. "reviewer" \in got'.roles => (got'.severe <=> reviewed')
  BY DEF IInv, ReviewKnown
<1>7. "flow" \in wrote' => "flow" \in wrote \/ ~meta.required \/ vouched
  BY <1>2
<1>8. place \in Places /\ place \notin {"recheck", "done"}
  BY DEF WorkerStarts, Places
<1> QED  BY <1>1, <1>2, <1>3, <1>4, <1>5, <1>6, <1>7, <1>8, WriteBackStep

LEMMA RunRoleStep ==
  ASSUME WorkflowAssumption, IInv, RunRole PROVE IInv'
<1> DEFINE w == [role |-> Head(flow), part |-> "flow",
                 n |-> IF Head(flow) \in got.roles THEN 2 ELSE 1]
<1>1. Head(flow) \in Roles /\ flow' \in Seq(Roles)
  BY QueueTail DEF RunRole, IInv, TypeOK
<1>2. w \in WorkerIds /\ w.part = "flow" /\ w.role = Head(flow)
  BY <1>1 DEF WorkerIds, Parts, WorkflowAssumption
<1>3. /\ pc = "flow" /\ Launch(w) /\ ~Gated
      /\ UNCHANGED <<seen, skip, got, cycle, resumes, cancellation, approval, reviewed, done>>
  BY DEF RunRole
<1>4. Head(flow) \notin ReadOnly => ~meta.required \/ vouched
  BY <1>3 DEF Gated, IInv, RequirementKnown, FilesTruthful, Truthful, Running, Stage
<1>5. cycle' \in 0 .. MaxCorrections /\ pc \in Running
  BY <1>3 DEF IInv, TypeOK, Running
<1> HIDE DEF w
<1> QED  BY <1>1, <1>2, <1>3, <1>4, <1>5, LaunchStep

LEMMA FixStep ==
  ASSUME WorkflowAssumption, IInv, Fix PROVE IInv'
<1> DEFINE w == [role |-> "implementer", part |-> "fix", n |-> cycle + 1]
<1>1. /\ pc = "correct" /\ Launch(w) /\ cycle < MaxCorrections /\ cycle' = cycle + 1
      /\ UNCHANGED <<seen, flow, skip, got, resumes, cancellation, approval, reviewed, done>>
  BY DEF Fix
<1>2. cycle' \in 0 .. MaxCorrections /\ cycle + 1 \in 1 .. MaxCorrections + 2
  BY <1>1 DEF IInv, TypeOK, WorkflowAssumption
<1>3. w \in WorkerIds /\ w.part # "flow"
  BY <1>2 DEF WorkerIds, Parts, Roles
<1>4. flow' \in Seq(Roles) /\ pc \in Running
  BY <1>1 DEF IInv, TypeOK, Running
<1> HIDE DEF w
<1> QED  BY <1>1, <1>2, <1>3, <1>4, LaunchStep

LEMMA RecheckStep ==
  ASSUME WorkflowAssumption, IInv, Recheck PROVE IInv'
<1> DEFINE w == [role |-> "reviewer", part |-> "fix", n |-> cycle]
<1>1. /\ pc = "recheck" /\ Launch(w)
      /\ UNCHANGED <<seen, flow, skip, got, cycle, resumes, cancellation, approval, reviewed, done>>
  BY DEF Recheck
<1>2. cycle' \in 0 .. MaxCorrections /\ cycle \in 1 .. MaxCorrections + 2
  BY <1>1 DEF IInv, TypeOK, StageOk, Stage, WorkflowAssumption
<1>3. w \in WorkerIds /\ w.part # "flow"
  BY <1>2 DEF WorkerIds, Parts, Roles
<1>4. flow' \in Seq(Roles) /\ pc \in Running
  BY <1>1 DEF IInv, TypeOK, Running
<1> HIDE DEF w
<1> QED  BY <1>1, <1>2, <1>3, <1>4, LaunchStep

LEMMA WorkerReturnsStep ==
  ASSUME WorkflowAssumption, IInv, NEW status \in WorkerStatus, NEW severe \in BOOLEAN,
         WorkerReturns(status, severe)
  PROVE  IInv'
<1> DEFINE r == [role |-> worker.role, status |-> status, severe |-> severe]
           ws == IF status = "completed" THEN meta.workers \cup {worker}
                                         ELSE meta.workers \ {worker}
           n == [meta EXCEPT !.workers = ws]
<1>1. /\ pc = "working" /\ got' = Got(r) /\ WriteBack(n, NextPc(r))
      /\ cycle' = IF NextPc(r) = "flow" THEN 0 ELSE cycle
      /\ worker' = NoWorker /\ attempt' = 0
      /\ reviewed' = IF r.role = "reviewer" THEN severe ELSE reviewed
      /\ done' = IF status = "completed" THEN done \cup {r.role} ELSE done
      /\ UNCHANGED <<meta, seen, flow, skip, resumes, cancellation, approval, wrote>>
  BY DEF WorkerReturns
<1>2. /\ worker \in WorkerIds /\ worker.role \in Roles /\ meta \in Metadata
      /\ meta.status # "created" /\ pc \in Running
  BY <1>1 DEF IInv, TypeOK, StageOk, Stage, WorkerStarts, WorkerIds, Running
<1>3. ws \in SUBSET WorkerIds
  BY <1>2 DEF Metadata
<1>4. r.role = worker.role /\ r.status = status /\ r.severe = severe
  OBVIOUS
<1>5. Completed(meta) \subseteq done
  BY DEF IInv, FilesTruthful, Truthful
<1>6. \A x \in ws : x.role \in done'
  BY <1>1, <1>4, <1>5 DEF Completed
<1> HIDE DEF r, ws
<1>7. /\ n \in Metadata /\ n.workers = ws
      /\ n.status = meta.status /\ n.required = meta.required /\ n.approved = meta.approved
  BY <1>2, <1>3, WorkersEntry, Zenon
<1> HIDE DEF n
<1>8. Completed(n) \subseteq done' /\ done \subseteq done' /\ skip' \subseteq done'
  BY <1>1, <1>6, <1>7 DEF Completed, IInv, SkipsOnlyDone
<1>9. /\ got' \in Results /\ got'.roles = got.roles \cup {r.role}
      /\ got'.severe = IF r.role = "reviewer" THEN severe ELSE got.severe
  BY <1>1, <1>2, <1>4 DEF Got, Results, IInv, TypeOK
<1>10. NextPc(r) \in {"flow", "recheck", "correct", "finalize"}
       /\ (NextPc(r) = "recheck" => cycle > 0)
  BY DEF NextPc
<1>11. TypeOK'
  <2>1. cycle' \in 0 .. MaxCorrections /\ attempt' \in 0 .. MaxRetries + 1
    BY <1>1 DEF IInv, TypeOK, WorkflowAssumption
  <2>2. done' \subseteq Roles /\ reviewed' \in BOOLEAN
    BY <1>1, <1>2, <1>4 DEF IInv, TypeOK
  <2>3. pc' \in Places \cup {"write"} /\ after' \in Places /\ copy' \in Metadata
    BY <1>1, <1>7, <1>10 DEF WriteBack, Places
  <2> QED  BY <1>1, <1>9, <2>1, <2>2, <2>3 DEF IInv, TypeOK, cancellation, approval
<1>12. NextPc(r) = "recheck" => cycle' >= 1
  <2>1. cycle \in Nat
    BY DEF IInv, TypeOK, WorkflowAssumption
  <2> QED  BY <1>1, <1>10, <2>1
<1>13. "reviewer" \in got'.roles => (got'.severe <=> reviewed')
  BY <1>1, <1>9 DEF IInv, ReviewKnown
<1>14. NextPc(r) \in Places \ (WorkerStarts \cup {"done"})
  BY <1>10 DEF Places, WorkerStarts
<1> QED  BY <1>1, <1>2, <1>7, <1>8, <1>11, <1>12, <1>13, <1>14, WriteBackStep

(* The run ends, and completed only if what its workers returned is clean. *)
LEMMA FinalizeStep ==
  ASSUME WorkflowAssumption, IInv, Finalize PROVE IInv'
<1> DEFINE s == IF got.failed \/ got.severe THEN "failed" ELSE "completed"
           n == [meta EXCEPT !.status = s]
<1>1. /\ pc = "finalize" /\ Forget /\ UNCHANGED <<meta, got, resumes, cancellation, approval, work>>
      /\ \/ meta.status = "awaiting-approval" /\ pc' = "done" /\ UNCHANGED <<copy, after>>
         \/ meta.status # "awaiting-approval" /\ WriteBack(n, "done")
  BY DEF Finalize, Settled
<1>2. meta \in Metadata /\ meta.status # "created" /\ pc \in Running
  BY <1>1 DEF IInv, TypeOK, StageOk, Running
<1>3. s \in {"failed", "completed"} /\ (s = "completed" => ~got.failed /\ ~got.severe)
  OBVIOUS
<1> HIDE DEF s
<1>4. s \in {"created", "running", "awaiting-approval", "completed", "failed", "cancelled"}
  BY <1>3
<1>5. /\ n \in Metadata /\ n.status = s
      /\ n.required = meta.required /\ n.approved = meta.approved
      /\ Completed(n) = Completed(meta)
  BY <1>2, <1>4, StatusEntry, Zenon
<1> HIDE DEF n
<1>6. /\ seen' = NoMetadata /\ flow' = <<>> /\ skip' = {} /\ worker' = NoWorker
      /\ attempt' = 0 /\ cycle' = 0
  BY <1>1 DEF Forget
<1>7. TypeOK'
  <2>1. attempt' \in 0 .. MaxRetries + 1 /\ cycle' \in 0 .. MaxCorrections
    BY <1>6 DEF WorkflowAssumption
  <2>2. flow' \in Seq(Roles) /\ skip' \subseteq Roles /\ worker' \in WorkerIds \cup {NoWorker}
    BY <1>6
  <2>3. pc' \in Places \cup {"write"} /\ after' \in Places /\ copy' \in Metadata
    BY <1>1, <1>5 DEF WriteBack, Places, IInv, TypeOK
  <2> QED  BY <1>1, <1>6, <2>1, <2>2, <2>3, NoMetadataFacts
           DEF IInv, TypeOK, cancellation, approval, work
<1>8. CASE meta.status # "awaiting-approval"
  <2>1. Completed(n) \subseteq done' /\ done \subseteq done' /\ skip' \subseteq done'
    BY <1>1, <1>5, <1>6 DEF IInv, FilesTruthful, Truthful, work
  <2>2. "reviewer" \in got'.roles => (got'.severe <=> reviewed')
    BY <1>1 DEF IInv, ReviewKnown, work
  <2>3. "done" \in Places \ (WorkerStarts \cup {"recheck"} \cup Running)
    BY DEF Places, WorkerStarts, Running
  <2>4. "flow" \in wrote' => "flow" \in wrote
    BY <1>1 DEF work
  <2>5. got'.failed = got.failed /\ got'.severe = got.severe
    BY <1>1
  <2> QED  BY <1>1, <1>2, <1>3, <1>5, <1>6, <1>7, <1>8, <2>1, <2>2, <2>3, <2>4, <2>5, WriteBackStep
<1>9. CASE meta.status = "awaiting-approval"
  <2>1. pc' = "done" /\ UNCHANGED <<meta, copy, after, got, resumes, cancellation, approval, work>>
    BY <1>1, <1>9
  <2>2. Stage' = "done" /\ StageOk' /\ Unstarted' /\ ReviewKnown' /\ CompletionKnown'
    BY <1>1, <1>2, <1>9, <2>1 DEF IInv, Stage, StageOk, WorkerStarts, Unstarted, ReviewKnown,
                                  CompletionKnown, cancellation, approval, work
  <2>3. FilesTruthful' /\ SkipsOnlyDone'
    BY <1>6, <2>1, NoMetadataFacts DEF IInv, FilesTruthful, Truthful, Completed, SkipsOnlyDone,
                                       cancellation, approval, work
  <2>4. ApprovalKnown' /\ RequirementKnown'
    BY <1>1, <2>1, <2>2 DEF IInv, ApprovalKnown, RequirementKnown, Recording, Running,
                            cancellation, approval, work
  <2>5. FlowWritersApproved'
    BY <2>1 DEF IInv, FlowWritersApproved, approval, work
  <2> QED  BY <1>7, <2>2, <2>3, <2>4, <2>5 DEF IInv
<1> QED  BY <1>8, <1>9

(***************************************************************************)
(* The steps that write the file.                                          *)
(***************************************************************************)
LEMMA WriteStep ==
  ASSUME WorkflowAssumption, IInv, Write PROVE IInv'
<1>1. /\ pc = "write" /\ meta' = copy /\ pc' = after /\ copy' = NoMetadata /\ after' = "idle"
      /\ UNCHANGED <<seen, flow, skip, got, worker, attempt, cycle, resumes, cancellation,
                     approval, work>>
  BY DEF Write
<1>2. Stage = after /\ after # "write" /\ Stage' = after
  BY <1>1 DEF Stage, IInv, TypeOK, Places
<1>3. TypeOK'
  BY <1>1, NoMetadataFacts DEF IInv, TypeOK, Places, cancellation, approval, work
<1>4. StageOk' /\ Unstarted' /\ ReviewKnown' /\ CompletionKnown' /\ SkipsOnlyDone'
  BY <1>1, <1>2 DEF IInv, StageOk, Unstarted, ReviewKnown, CompletionKnown, SkipsOnlyDone,
                    cancellation, approval, work
<1>5. FilesTruthful'
  BY <1>1, NoMetadataFacts DEF IInv, FilesTruthful, Truthful, Completed, cancellation, approval,
                               work
<1>6. ApprovalKnown' /\ RequirementKnown'
  BY <1>1, <1>2 DEF IInv, ApprovalKnown, RequirementKnown, cancellation, approval
<1>7. FlowWritersApproved'
  BY <1>1 DEF IInv, FlowWritersApproved, RequirementKnown, approval, work
<1> QED  BY <1>3, <1>4, <1>5, <1>6, <1>7 DEF IInv

LEMMA AwaitApprovalStep ==
  ASSUME WorkflowAssumption, IInv, AwaitApproval PROVE IInv'
<1>1. /\ pc = "flow" /\ pc' = "finalize" /\ meta' = [seen EXCEPT !.status = "awaiting-approval"]
      /\ UNCHANGED <<copy, after, seen, flow, skip, got, worker, attempt, cycle, resumes,
                     cancellation, approval, work>>
      /\ seen.required /\ ~seen.approved
  BY DEF AwaitApproval, Gated, Settled
<1>2. seen \in Metadata
  BY DEF IInv, TypeOK
<1>3. /\ meta' \in Metadata /\ meta'.status = "awaiting-approval"
      /\ meta'.required = seen.required /\ meta'.approved = seen.approved
      /\ Completed(meta') = Completed(seen)
  BY <1>1, <1>2, StatusEntry
<1>4. /\ Stage = "flow" /\ Stage' = "finalize" /\ Stage \in Running
      /\ (seen.required <=> meta.required) /\ (vouched => lost)
  BY <1>1 DEF IInv, ApprovalKnown, RequirementKnown, Running, Stage
<1>5. TypeOK'
  BY <1>1, <1>3 DEF IInv, TypeOK, Places, cancellation, approval, work
<1>6. StageOk' /\ Unstarted' /\ ReviewKnown' /\ CompletionKnown' /\ SkipsOnlyDone'
  BY <1>1, <1>3, <1>4 DEF IInv, StageOk, WorkerStarts, Unstarted, ReviewKnown, CompletionKnown,
                          SkipsOnlyDone, work
<1>7. FilesTruthful'
  <2>1. Completed(meta)' = Completed(seen) /\ Completed(cancel)' = Completed(cancel)
        /\ Completed(copy)' = Completed(copy) /\ Completed(seen)' = Completed(seen)
    BY <1>1, <1>3 DEF Completed, cancellation
  <2> QED  BY <1>1, <1>3, <2>1 DEF IInv, FilesTruthful, Truthful, cancellation, approval, work
<1>8. ApprovalKnown' /\ RequirementKnown'
  BY <1>1, <1>3, <1>4 DEF IInv, ApprovalKnown, RequirementKnown, cancellation, approval
<1>9. FlowWritersApproved'
  BY <1>1, <1>3, <1>4 DEF IInv, FlowWritersApproved, approval, work
<1> QED  BY <1>5, <1>6, <1>7, <1>8, <1>9 DEF IInv

LEMMA StartStep ==
  ASSUME WorkflowAssumption, IInv,
         NEW s \in Signals, NEW override \in Flows, NEW approve \in BOOLEAN,
         StartWorkflow(s, override, approve)
  PROVE  IInv'
<1> DEFINE m == [NoMetadata EXCEPT !.status = "running", !.required = ApprovalRequired(s),
                                   !.approved = approve]
<1>1. FlowOf(s, override) \in Seq(Roles) /\ ApprovalRequired(s) \in BOOLEAN
  BY FlowTypes
<1>2. /\ m \in Metadata /\ m.status = "running" /\ m.approved = approve
      /\ m.workers = NoMetadata.workers
  BY <1>1, NoMetadataFacts DEF Metadata
<1>3. Completed(m) = {}
  BY <1>2, NoMetadataFacts DEF Completed
<1>4. /\ meta.status = "created" /\ meta' = m /\ vouched' = approve /\ pc' = "begin"
      /\ flow' = FlowOf(s, override) /\ skip' = {} /\ got' = NoResults /\ worker' = NoWorker
      /\ attempt' = 0 /\ cycle' = 0
      /\ UNCHANGED <<copy, after, seen, resumes, lost, cancellation, work>>
  BY DEF StartWorkflow, Begin, Settled
<1>5. wrote = {} /\ ~vouched /\ cancel.status # "cancelled"
  BY <1>4 DEF IInv, Unstarted
<1> HIDE DEF m
<1>6. TypeOK'
  <2>1. attempt' \in 0 .. MaxRetries + 1 /\ cycle' \in 0 .. MaxCorrections /\ got' \in Results
        /\ worker' \in WorkerIds \cup {NoWorker}
    BY <1>4 DEF WorkflowAssumption, NoResults, Results
  <2> QED  BY <1>1, <1>2, <1>4, <2>1 DEF IInv, TypeOK, Places, cancellation, work
<1>7. Stage' = "begin" /\ StageOk' /\ Unstarted' /\ ReviewKnown' /\ CompletionKnown' /\ SkipsOnlyDone'
  BY <1>2, <1>4 DEF Stage, StageOk, WorkerStarts, Unstarted, ReviewKnown, NoResults,
                    CompletionKnown, SkipsOnlyDone
<1>8. FilesTruthful'
  <2>1. Completed(meta)' = {} /\ Completed(cancel)' = Completed(cancel)
        /\ Completed(copy)' = Completed(copy) /\ Completed(seen)' = Completed(seen)
    BY <1>3, <1>4 DEF Completed, cancellation
  <2> QED  BY <1>2, <1>4, <1>5, <2>1 DEF IInv, FilesTruthful, Truthful, cancellation, work
<1>9. ApprovalKnown' /\ RequirementKnown'
  BY <1>2, <1>4, <1>5, <1>7 DEF ApprovalKnown, RequirementKnown, Running, Recording, cancellation
<1>10. FlowWritersApproved'
  BY <1>4, <1>5 DEF FlowWritersApproved, work
<1> QED  BY <1>6, <1>7, <1>8, <1>9, <1>10 DEF IInv

LEMMA ResumeStep ==
  ASSUME WorkflowAssumption, IInv,
         NEW s \in Signals, NEW override \in Flows, NEW approve \in BOOLEAN,
         ResumeWorkflow(s, override, approve)
  PROVE  IInv'
<1> DEFINE m == Resumed(meta, approve)
<1>1. FlowOf(s, override) \in Seq(Roles)
  BY FlowTypes
<1>2. meta \in Metadata /\ meta.status # "created" /\ pc # "write"
  BY DEF IInv, TypeOK, ResumeWorkflow, Ended
<1>3. /\ m \in Metadata /\ m.status \notin {"created", "awaiting-approval"}
      /\ m.approved = (meta.approved \/ approve) /\ m.required = meta.required
      /\ m.workers = meta.workers
  BY <1>2 DEF Resumed, Metadata
<1>4. Completed(m) = Completed(meta) /\ Completed(meta) \subseteq done
      /\ Completed(meta) \subseteq Roles
  BY <1>2, <1>3, CompletedRoles DEF Completed, IInv, FilesTruthful, Truthful
<1>5. /\ pc' = "write" /\ after' = "begin" /\ copy' = m /\ meta' = meta
      /\ vouched' = (vouched \/ approve) /\ lost' = (lost /\ ~approve)
      /\ flow' = FlowOf(s, override) /\ skip' = Completed(meta) /\ got' = NoResults
      /\ worker' = NoWorker /\ attempt' = 0 /\ cycle' = 0
      /\ resumes' = resumes + 1 /\ resumes < MaxResumes
      /\ UNCHANGED <<seen, cancellation, work>>
  BY DEF ResumeWorkflow, Begin, WriteBack
<1>6. vouched \in BOOLEAN /\ lost \in BOOLEAN /\ meta.approved \in BOOLEAN
  BY <1>2 DEF IInv, TypeOK, Metadata
<1> HIDE DEF m
<1>7. TypeOK'
  <2>1. attempt' \in 0 .. MaxRetries + 1 /\ cycle' \in 0 .. MaxCorrections /\ got' \in Results
        /\ worker' \in WorkerIds \cup {NoWorker} /\ resumes' \in 0 .. MaxResumes
    BY <1>5 DEF WorkflowAssumption, NoResults, Results, IInv, TypeOK
  <2>2. vouched' \in BOOLEAN /\ lost' \in BOOLEAN
    BY <1>5
  <2> QED  BY <1>1, <1>3, <1>4, <1>5, <2>1, <2>2 DEF IInv, TypeOK, Places, cancellation, work
<1>8. /\ Stage' = "begin" /\ StageOk' /\ Unstarted' /\ ReviewKnown' /\ CompletionKnown'
      /\ SkipsOnlyDone'
  BY <1>2, <1>3, <1>4, <1>5 DEF Stage, StageOk, WorkerStarts, Unstarted, ReviewKnown, NoResults,
                                CompletionKnown, SkipsOnlyDone, work
<1>9. FilesTruthful'
  <2>1. Completed(meta)' = Completed(meta) /\ Completed(cancel)' = Completed(cancel)
        /\ Completed(copy)' = Completed(m) /\ Completed(seen)' = Completed(seen)
    BY <1>5 DEF Completed, cancellation
  <2> QED  BY <1>3, <1>4, <1>5, <1>6, <2>1 DEF IInv, FilesTruthful, Truthful, cancellation, work
<1>10. ApprovalKnown'
  <2>1. Recording' <=> m.approved
    BY <1>5 DEF Recording
  <2> QED  BY <1>2, <1>3, <1>5, <1>6, <1>8, <2>1 DEF IInv, ApprovalKnown, Recording, Running
<1>11. RequirementKnown'
  BY <1>3, <1>5, <1>8 DEF IInv, RequirementKnown, Running, cancellation
<1>12. FlowWritersApproved'
  BY <1>5, <1>6 DEF IInv, FlowWritersApproved, work
<1> QED  BY <1>7, <1>8, <1>9, <1>10, <1>11, <1>12 DEF IInv

-----------------------------------------------------------------------------
LEMMA CrashStep ==
  ASSUME WorkflowAssumption, IInv, Crash PROVE IInv'
<1>1. /\ pc' = "idle" /\ copy' = NoMetadata /\ after' = "idle" /\ got' = NoResults
      /\ UNCHANGED <<meta, resumes, cancellation, vouched, work>>
      /\ lost' = (lost \/ (copy.approved /\ ~meta.approved))
      /\ seen' = NoMetadata /\ flow' = <<>> /\ skip' = {} /\ worker' = NoWorker
      /\ attempt' = 0 /\ cycle' = 0
  BY DEF Crash, Forget
<1>2. lost' \in BOOLEAN
  BY <1>1 DEF IInv, TypeOK, Metadata
<1>3. TypeOK'
  <2>1. attempt' \in 0 .. MaxRetries + 1 /\ cycle' \in 0 .. MaxCorrections
    BY <1>1 DEF WorkflowAssumption
  <2>2. flow' \in Seq(Roles) /\ skip' \subseteq Roles /\ worker' \in WorkerIds \cup {NoWorker}
    BY <1>1
  <2>3. got' \in Results
    BY <1>1 DEF NoResults, Results
  <2> QED  BY <1>1, <1>2, <2>1, <2>2, <2>3, NoMetadataFacts DEF IInv, TypeOK, Places, cancellation,
                                                                 work
<1>4. /\ Stage' = "idle" /\ StageOk' /\ Unstarted' /\ ReviewKnown' /\ CompletionKnown'
      /\ SkipsOnlyDone'
  BY <1>1 DEF IInv, Stage, StageOk, WorkerStarts, Unstarted, ReviewKnown, NoResults,
              CompletionKnown, SkipsOnlyDone, cancellation, work
<1>5. FilesTruthful'
  BY <1>1, NoMetadataFacts DEF IInv, FilesTruthful, Truthful, Completed, cancellation, work
<1>6. ApprovalKnown' /\ RequirementKnown'
  BY <1>1, <1>4 DEF IInv, ApprovalKnown, RequirementKnown, Recording, Running, cancellation
<1>7. FlowWritersApproved'
  BY <1>1 DEF IInv, FlowWritersApproved, work
<1> QED  BY <1>3, <1>4, <1>5, <1>6, <1>7 DEF IInv

(* A cancellation reads the file. *)
LEMMA CancelReadsStep ==
  ASSUME WorkflowAssumption, IInv, CancelReads PROVE IInv'
<1>1. /\ meta.status # "created" /\ cancel' = [meta EXCEPT !.status = "cancelled"]
      /\ cancels < MaxCancels /\ cancels' = cancels + 1
      /\ UNCHANGED <<meta, orchestrator, resumes, approval, work>>
  BY DEF CancelReads
<1>2. /\ cancel' \in Metadata /\ cancel'.status = "cancelled"
      /\ cancel'.required = meta.required /\ cancel'.approved = meta.approved
      /\ Completed(cancel') = Completed(meta)
  BY <1>1, StatusEntry DEF IInv, TypeOK
<1>3. TypeOK'
  BY <1>1, <1>2 DEF IInv, TypeOK, orchestrator, approval, work, WorkflowAssumption
<1>4. StageOk' /\ Unstarted' /\ ReviewKnown' /\ CompletionKnown' /\ SkipsOnlyDone'
  BY <1>1 DEF IInv, Stage, StageOk, Unstarted, ReviewKnown, CompletionKnown, SkipsOnlyDone,
              orchestrator, work
<1>5. FilesTruthful'
  <2>1. Completed(meta)' = Completed(meta) /\ Completed(cancel)' = Completed(meta)
        /\ Completed(copy)' = Completed(copy) /\ Completed(seen)' = Completed(seen)
    BY <1>1, <1>2 DEF Completed, orchestrator
  <2> QED  BY <1>1, <1>2, <2>1 DEF IInv, FilesTruthful, Truthful, orchestrator, approval, work
<1>6. ApprovalKnown' /\ RequirementKnown'
  BY <1>1, <1>2 DEF IInv, ApprovalKnown, RequirementKnown, Recording, Stage, orchestrator, approval
<1>7. FlowWritersApproved'
  BY <1>1 DEF IInv, FlowWritersApproved, approval, work
<1> QED  BY <1>3, <1>4, <1>5, <1>6, <1>7 DEF IInv

(* It writes back what it read, whatever was written since. *)
LEMMA CancelWritesStep ==
  ASSUME WorkflowAssumption, IInv, CancelWrites PROVE IInv'
<1>1. /\ cancel.status = "cancelled" /\ meta' = cancel /\ cancel' = NoMetadata
      /\ lost' = (lost \/ (meta.approved /\ ~cancel.approved))
      /\ UNCHANGED <<orchestrator, resumes, cancels, vouched, work>>
  BY DEF CancelWrites
<1>2. lost' \in BOOLEAN
  BY <1>1 DEF IInv, TypeOK, Metadata
<1>3. TypeOK'
  BY <1>1, <1>2, NoMetadataFacts DEF IInv, TypeOK, orchestrator, work
<1>4. StageOk' /\ Unstarted' /\ ReviewKnown' /\ CompletionKnown' /\ SkipsOnlyDone'
  BY <1>1 DEF IInv, Stage, StageOk, Unstarted, ReviewKnown, CompletionKnown, SkipsOnlyDone,
              orchestrator, work
<1>5. FilesTruthful'
  BY <1>1, NoMetadataFacts DEF IInv, FilesTruthful, Truthful, Completed, orchestrator, work
<1>6. ApprovalKnown' /\ RequirementKnown'
  BY <1>1, NoMetadataFacts DEF IInv, ApprovalKnown, RequirementKnown, Recording, Stage, orchestrator
<1>7. FlowWritersApproved'
  BY <1>1 DEF IInv, FlowWritersApproved, RequirementKnown, work
<1> QED  BY <1>3, <1>4, <1>5, <1>6, <1>7 DEF IInv

LEMMA StutterStep ==
  ASSUME IInv, UNCHANGED vars PROVE IInv'
<1> USE DEF vars, orchestrator, cancellation, approval, work
<1>1. TypeOK' /\ StageOk' /\ Unstarted' /\ ReviewKnown' /\ CompletionKnown' /\ SkipsOnlyDone'
  BY DEF IInv, TypeOK, Stage, StageOk, Unstarted, ReviewKnown, CompletionKnown, SkipsOnlyDone
<1>2. FilesTruthful'
  BY DEF IInv, FilesTruthful, Truthful, Completed
<1>3. ApprovalKnown' /\ RequirementKnown' /\ FlowWritersApproved'
  BY DEF IInv, ApprovalKnown, RequirementKnown, Recording, Stage, FlowWritersApproved
<1> QED  BY <1>1, <1>2, <1>3 DEF IInv

-----------------------------------------------------------------------------
LEMMA IInvNext == WorkflowAssumption /\ IInv /\ [Next]_vars => IInv'
<1> SUFFICES ASSUME WorkflowAssumption, IInv, [Next]_vars PROVE IInv'
  OBVIOUS
<1>1. CASE Orchestrate
  <2>1. CASE Write BY <2>1, WriteStep
  <2>2. CASE ReadMetadata BY <2>2, ReadMetadataStep
  <2>3. CASE Skip BY <2>3, SkipStep
  <2>4. CASE AwaitApproval BY <2>4, AwaitApprovalStep
  <2>5. CASE RunRole BY <2>5, RunRoleStep
  <2>6. CASE Retry BY <2>6, RetryStep
  <2>7. CASE \E status \in WorkerStatus, severe \in BOOLEAN : WorkerReturns(status, severe)
    BY <2>7, WorkerReturnsStep
  <2>8. CASE CorrectionEnds BY <2>8, CorrectionEndsStep
  <2>9. CASE Fix BY <2>9, FixStep
  <2>10. CASE Recheck BY <2>10, RecheckStep
  <2>11. CASE FlowEnds BY <2>11, FlowEndsStep
  <2>12. CASE Finalize BY <2>12, FinalizeStep
  <2> QED  BY <1>1, <2>1, <2>2, <2>3, <2>4, <2>5, <2>6, <2>7, <2>8, <2>9, <2>10, <2>11, <2>12
           DEF Orchestrate
<1>2. CASE Command
  BY <1>2, StartStep, ResumeStep DEF Command
<1>3. CASE PipesClose BY <1>3, PipesCloseStep
<1>4. CASE Crash BY <1>4, CrashStep
<1>5. CASE CancelReads BY <1>5, CancelReadsStep
<1>6. CASE CancelWrites BY <1>6, CancelWritesStep
<1>7. CASE UNCHANGED vars BY <1>7, StutterStep
<1> QED  BY <1>1, <1>2, <1>3, <1>4, <1>5, <1>6, <1>7 DEF Next

(* The inductive invariant of a run: what the metadata file, the three copies of it
   that are read before and written after other writes, and what really happened say
   of each other, after any crashes, resumes and cancellations
   (orchestrator.ts:231-447, run-store.ts:109-116, cli.ts:256-268).               *)
THEOREM WorkflowInvariance == Spec => []IInv
<1>1. Init => IInv
  BY IInvInit, WorkflowAssumption
<1>2. IInv /\ [Next]_vars => IInv'
  BY IInvNext, WorkflowAssumption
<1> QED  BY <1>1, <1>2, PTL DEF Spec

(* Retries, corrections and resumes stay within their bounds, and the metadata
   file and the orchestrator keep their shapes (policy.ts, run-store.ts).     *)
THEOREM WorkflowTypeCorrect == Spec => []TypeOK
<1>1. IInv => TypeOK
  BY DEF IInv
<1> QED  BY <1>1, WorkflowInvariance, PTL

(* The approval gate: the flow starts no writer without the approval the policy
   asks for, whatever crashes and resumes come between (orchestrator.ts:338-349). *)
THEOREM GateHolds == Spec => []FlowWritersApproved
<1>1. IInv => FlowWritersApproved
  BY DEF IInv
<1> QED  BY <1>1, WorkflowInvariance, PTL

(* A paused run needs an approval its file does not have, and if a human gave one, a
   write of the file was lost (orchestrator.ts:282-294, 438, cli.ts:262-265).     *)
THEOREM PauseIsTrue == Spec => []PausedUnapproved
<1>1. IInv => PausedUnapproved
  BY DEF IInv, FilesTruthful, Truthful, ApprovalKnown, PausedUnapproved
<1> QED  BY <1>1, WorkflowInvariance, PTL

(* A resume skips only roles that a worker completed (orchestrator.ts:298). *)
THEOREM ResumeSkipsOnlyDone == Spec => []SkipsOnlyDone
<1>1. IInv => SkipsOnlyDone
  BY DEF IInv
<1> QED  BY <1>1, WorkflowInvariance, PTL

(* An orchestrator that marks its run completed saw nothing fail and left no severe
   finding of its own reviewer open (orchestrator.ts:380-447).                *)
THEOREM CompletedRunsAreClean == Spec => []CompletionIsClean
<1>1. IInv => CompletionIsClean
  BY DEF IInv, CompletionKnown, ReviewKnown, CompletionIsClean
<1> QED  BY <1>1, WorkflowInvariance, PTL

(* The approval binds across pauses, crashes, resumes and cancellations. *)
THEOREM ApprovalDoesBind == Spec => []ApprovalBinds
BY GateHolds, PauseIsTrue, PTL DEF ApprovalBinds

(* A completed run is clean and skipped nothing that was not done. *)
THEOREM CompletionIsEarned == Spec => []CompletionEarned
BY CompletedRunsAreClean, ResumeSkipsOnlyDone, PTL DEF CompletionEarned
=============================================================================
