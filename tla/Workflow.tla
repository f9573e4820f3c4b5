------------------------------- MODULE Workflow -------------------------------
(***************************************************************************)
(* One workflow run of the local agents tool                               *)
(* (src/tools/local-agents/src/orchestrator.ts, run-store.ts, policy.ts,   *)
(* and the cancel command of cli.ts): a flow of roles, each played by a    *)
(* worker process, an approval gate before the first role that writes, a   *)
(* bounded correction loop after a review, and a metadata file from which  *)
(* the run is resumed after a pause or a crash.                            *)
(*                                                                         *)
(* One orchestrator runs at a time.  Whoever changes the metadata reads the *)
(* whole file, waits, and writes the whole file back: the orchestrator in  *)
(* every step that does so, and `workflow cancel` beside it.  The          *)
(* orchestrator may die between any two steps.                             *)
(***************************************************************************)
EXTENDS Naturals, Sequences

CONSTANTS
  Mode,           \* approval.mode of the configuration
  Signals,        \* the reads of a task a lead may give
  Flows,          \* the values of --flow it may give; <<>> for none
  MaxRetries,     \* maxTransientRetries
  MaxCorrections, \* maxCorrectionCycles
  MaxResumes,     \* bound on the resumes of the run
  MaxCancels      \* bound on its cancellations

SignalRecords == [grave: BOOLEAN,        \* architectural, security, execution, API or CI
                  dependency: BOOLEAN, destructive: BOOLEAN,
                  uncertain: BOOLEAN, explanatory: BOOLEAN,
                  files: {"few", "several", "many"}]  \* up to 3, up to 8, more
Roles == {"discovery", "implementer", "tester", "reviewer"}
ReadOnly == {"discovery", "reviewer"}

ASSUME WorkflowAssumption ==
  /\ Mode \in {"always", "never", "adaptive"}
  /\ Signals \in SUBSET SignalRecords
  /\ Flows \in SUBSET Seq(Roles)
  /\ MaxRetries \in Nat /\ MaxCorrections \in Nat /\ MaxResumes \in Nat /\ MaxCancels \in Nat

VARIABLES
  meta,      \* metadata.json
  pc,        \* where the orchestrator is
  copy,      \* the metadata it read, changed, and is about to write back
  after,     \* where it goes then
  seen,      \* the metadata runFlow read when it began
  flow,      \* the roles of the flow still to play
  skip,      \* the roles a resume finds completed
  got,       \* what the workers of this orchestrator returned
  worker,    \* the worker in flight: its role and id
  attempt,   \* how often it was started
  cycle,     \* the correction cycle, 0 outside of the loop
  resumes,
  cancel,    \* the metadata a cancellation read and is about to write back
  cancels,
  vouched,   \* history: a human gave an approval
  lost,      \* history: since it was last given, something undid what the file says of it
  wrote,     \* history: the writers launched, of the "flow" and to "fix" findings
  reviewed,  \* history: the last review of the run found something severe
  done       \* history: the roles a worker of which completed

orchestrator == <<pc, copy, after, seen, flow, skip, got, worker, attempt, cycle>>
cancellation == <<cancel, cancels>>
approval == <<vouched, lost>>
work == <<wrote, reviewed, done>>
vars == <<meta, orchestrator, resumes, cancellation, approval, work>>

WorkerStatus == {"completed", "partial", "failed"}  \* blocked is treated as failed everywhere
Parts == {"flow", "fix"}   \* a role of the flow, or of its correction loop
WorkerIds == [role: Roles, part: Parts, n: 1 .. MaxCorrections + 2]
NoWorker == [role |-> "none", part |-> "flow", n |-> 0]
Results == [roles: SUBSET Roles,  \* the roles that returned
            failed: BOOLEAN,      \* one of them failed or was blocked
            severe: BOOLEAN]      \* the last review has a critical or high finding
NoResults == [roles |-> {}, failed |-> FALSE, severe |-> FALSE]
(* Of the entries of the workers only a status "completed" is ever told from another
   status or none; that a worker is running, and plannedFlow, are only shown.       *)
Metadata == [status: {"created", "running", "awaiting-approval", "completed", "failed", "cancelled"},
             required: BOOLEAN, approved: BOOLEAN,
             workers: SUBSET WorkerIds]  \* those completed

-----------------------------------------------------------------------------
(* policy.ts *)

Tier(s) ==
  CASE s.explanatory -> "trivial"
    [] ~s.explanatory /\ (s.grave \/ s.files = "many") -> "large"
    [] ~s.explanatory /\ ~s.grave /\ (s.dependency \/ s.uncertain \/ s.files = "several") -> "medium"
    [] OTHER -> "small"

Mandatory(s) == s.grave \/ s.destructive \/ s.dependency

ApprovalRequired(s) ==
  \/ Mode = "always"
  \/ Mode = "adaptive" /\ (Mandatory(s) \/ Tier(s) = "large" \/ s.uncertain)

SuggestedFlow(s) ==
  CASE Tier(s) = "trivial" -> <<>>
    [] Tier(s) = "small" -> <<"implementer">>
    [] OTHER -> <<"discovery", "implementer", "tester">>

FlowOf(s, override) == IF override = <<>> THEN SuggestedFlow(s) ELSE override

-----------------------------------------------------------------------------
NoMetadata == [status |-> "created", required |-> FALSE, approved |-> FALSE,
               workers |-> {}]

Init ==
  /\ meta = NoMetadata
  /\ pc = "idle" /\ after = "idle"
  /\ copy = NoMetadata /\ seen = NoMetadata /\ cancel = NoMetadata
  /\ flow = <<>> /\ skip = {} /\ got = NoResults
  /\ worker = NoWorker
  /\ attempt = 0 /\ cycle = 0 /\ resumes = 0 /\ cancels = 0
  /\ vouched = FALSE /\ lost = FALSE /\ wrote = {} /\ reviewed = FALSE /\ done = {}

Ended == pc \in {"idle", "done"}

(* The orchestrator has read the metadata; it will write m and go on to place. *)
WriteBack(m, place) ==
  /\ copy' = m
  /\ after' = place
  /\ pc' = "write"

Settled == UNCHANGED <<copy, after>>

(* Nothing looks at what was read and written in between. *)
Write ==
  /\ pc = "write"
  /\ meta' = copy
  /\ pc' = after
  /\ copy' = NoMetadata /\ after' = "idle"
  /\ UNCHANGED <<seen, flow, skip, got, worker, attempt, cycle, resumes, cancellation, approval, work>>

(* A new orchestrator, with the roles to play and those it takes for completed. *)
Begin(roles, completed) ==
  /\ flow' = roles /\ skip' = completed /\ got' = NoResults
  /\ worker' = NoWorker /\ attempt' = 0 /\ cycle' = 0
  /\ UNCHANGED <<seen, cancellation, work>>

(* startWorkflow: the file is new, so nothing is read before it is written. *)
StartWorkflow(s, override, approve) ==
  /\ meta.status = "created" /\ Ended
  /\ meta' = [NoMetadata EXCEPT !.status = "running", !.required = ApprovalRequired(s),
                                !.approved = approve]
  /\ Begin(FlowOf(s, override), {})
  /\ pc' = "begin" /\ Settled
  /\ vouched' = approve
  /\ UNCHANGED <<resumes, lost>>

Completed(m) == {w.role : w \in m.workers}

ResumedAsLeft(m, approve) == [m EXCEPT !.approved = @ \/ approve]
Resumed(m, approve) ==
  [m EXCEPT !.approved = @ \/ approve,
            !.status = IF @ = "awaiting-approval" THEN "running" ELSE @]

(* resumeWorkflow: the flow comes from this command's own flags. *)
ResumeWorkflow(s, override, approve) ==
  /\ meta.status # "created" /\ Ended
  /\ resumes < MaxResumes
  /\ resumes' = resumes + 1
  /\ WriteBack(Resumed(meta, approve), "begin")
  /\ Begin(FlowOf(s, override), Completed(meta))
  /\ vouched' = (vouched \/ approve)
  /\ lost' = (lost /\ ~approve)
  /\ UNCHANGED meta

(* runFlow reads the metadata once, when it begins. *)
ReadMetadata ==
  /\ pc = "begin"
  /\ seen' = meta
  /\ pc' = "flow" /\ Settled
  /\ UNCHANGED <<meta, flow, skip, got, worker, attempt, cycle, resumes, cancellation, approval, work>>

-----------------------------------------------------------------------------
(* The flow. *)

Skip ==
  /\ pc = "flow" /\ flow # <<>> /\ Head(flow) \in skip
  /\ flow' = Tail(flow) /\ Settled
  /\ UNCHANGED <<meta, pc, seen, skip, got, worker, attempt, cycle, resumes, cancellation, approval, work>>

GateOpen == FALSE
Gated == Head(flow) \notin ReadOnly /\ seen.required /\ ~seen.approved

(* Pause before a writer: the metadata read at the beginning is written. *)
AwaitApproval ==
  /\ pc = "flow" /\ flow # <<>> /\ Head(flow) \notin skip
  /\ Gated
  /\ meta' = [seen EXCEPT !.status = "awaiting-approval"]
  /\ pc' = "finalize" /\ Settled
  /\ UNCHANGED <<seen, flow, skip, got, worker, attempt, cycle, resumes, cancellation, approval, work>>

(* A started worker may leave something behind that keeps its output open: it is
   hung, whether its work is done or its time is up, until that closes.          *)
WorkerStarts == {"working", "hung"}

(* upsertWorker, then the worker runs.  The entry is merged: one that an earlier
   orchestrator left keeps its status until the worker returns.                  *)
Launch(w) ==
  /\ worker' = w
  /\ attempt' = 1
  /\ \E place \in WorkerStarts : WriteBack(meta, place)
  /\ wrote' = IF w.role \in ReadOnly THEN wrote ELSE wrote \cup {w.part}
  /\ UNCHANGED meta

RunRole ==
  /\ pc = "flow" /\ flow # <<>> /\ Head(flow) \notin skip
  /\ ~Gated
  /\ Launch([role |-> Head(flow), part |-> "flow",
             n |-> IF Head(flow) \in got.roles THEN 2 ELSE 1])
  /\ flow' = Tail(flow)
  /\ UNCHANGED <<seen, skip, got, cycle, resumes, cancellation, approval, reviewed, done>>

(* A transient failure is retried a bounded number of times. *)
RetryForever == TRUE
MayRetry == attempt <= MaxRetries

Retry ==
  /\ pc = "working" /\ MayRetry
  /\ attempt' = attempt + 1
  /\ pc' \in WorkerStarts /\ Settled
  /\ UNCHANGED <<meta, seen, flow, skip, got, worker, cycle, resumes, cancellation, approval, work>>

(* What the worker left behind closes its output; nothing makes it. *)
PipesClose ==
  /\ pc = "hung"
  /\ pc' = "working" /\ Settled
  /\ UNCHANGED <<meta, seen, flow, skip, got, worker, attempt, cycle, resumes, cancellation, approval, work>>

ReviewUntilClean(r) ==
  CASE cycle = 0 /\ r.status = "failed" -> "finalize"
    [] cycle = 0 /\ r.role = "reviewer" /\ r.severe /\ r.status # "failed" -> "correct"
    [] cycle > 0 /\ r.severe -> "recheck"
    [] OTHER -> "flow"

(* Where the orchestrator goes after the result r. *)
NextPc(r) ==
  IF cycle > 0
  THEN IF worker.role = "implementer" /\ r.status = "failed" THEN "flow"
       ELSE IF worker.role = "implementer" THEN "recheck" ELSE "correct"
  ELSE IF r.status = "failed" THEN "finalize"
  ELSE IF r.role = "reviewer" /\ r.severe THEN "correct" ELSE "flow"

GotLast(r) == [roles |-> got.roles \cup {r.role},
               failed |-> got.failed \/ r.status = "failed",
               severe |-> r.severe]
Got(r) == [roles |-> got.roles \cup {r.role},
           failed |-> got.failed \/ r.status = "failed",
           severe |-> IF r.role = "reviewer" THEN r.severe ELSE got.severe]

WorkerReturns(status, severe) ==
  LET r == [role |-> worker.role, status |-> status, severe |-> severe]
  IN /\ pc = "working"
     /\ got' = Got(r)
     /\ WriteBack([meta EXCEPT !.workers = IF status = "completed" THEN @ \cup {worker}
                                                                ELSE @ \ {worker}],
                  NextPc(r))
     /\ cycle' = IF NextPc(r) = "flow" THEN 0 ELSE cycle
     /\ worker' = NoWorker
     /\ attempt' = 0
     /\ reviewed' = IF r.role = "reviewer" THEN severe ELSE reviewed
     /\ done' = IF status = "completed" THEN done \cup {r.role} ELSE done
     /\ UNCHANGED <<meta, seen, flow, skip, resumes, cancellation, approval, wrote>>

(* The correction loop: fix, review again, at most MaxCorrections times, until
   the last review has no severe finding.                                     *)
CorrectionEnds ==
  /\ pc = "correct"
  /\ ~got.severe \/ cycle >= MaxCorrections
  /\ pc' = "flow" /\ Settled
  /\ cycle' = 0
  /\ UNCHANGED <<meta, seen, flow, skip, got, worker, attempt, resumes, cancellation, approval, work>>

Fix ==
  /\ pc = "correct" /\ got.severe /\ cycle < MaxCorrections
  /\ cycle' = cycle + 1
  /\ Launch([role |-> "implementer", part |-> "fix", n |-> cycle + 1])
  /\ UNCHANGED <<seen, flow, skip, got, resumes, cancellation, approval, reviewed, done>>

Recheck ==
  /\ pc = "recheck"
  /\ Launch([role |-> "reviewer", part |-> "fix", n |-> cycle])
  /\ UNCHANGED <<seen, flow, skip, got, cycle, resumes, cancellation, approval, reviewed, done>>

FlowEnds ==
  /\ pc = "flow" /\ flow = <<>>
  /\ pc' = "finalize" /\ Settled
  /\ UNCHANGED <<meta, seen, flow, skip, got, worker, attempt, cycle, resumes, cancellation, approval, work>>

Forget ==
  /\ seen' = NoMetadata /\ flow' = <<>> /\ skip' = {}
  /\ worker' = NoWorker /\ attempt' = 0 /\ cycle' = 0

Finalize ==
  /\ pc = "finalize"
  /\ \/ /\ meta.status = "awaiting-approval"
        /\ pc' = "done" /\ Settled
     \/ /\ meta.status # "awaiting-approval"
        /\ WriteBack([meta EXCEPT !.status = IF got.failed \/ got.severe THEN "failed" ELSE "completed"],
                     "done")
  /\ Forget
  /\ UNCHANGED <<meta, got, resumes, cancellation, approval, work>>

-----------------------------------------------------------------------------
(* The process dies; what it was about to write is lost with it. *)
Crash ==
  /\ ~Ended
  /\ pc' = "idle" /\ copy' = NoMetadata /\ after' = "idle"
  /\ Forget /\ got' = NoResults
  /\ lost' = (lost \/ (copy.approved /\ ~meta.approved))
  /\ UNCHANGED <<meta, resumes, cancellation, vouched, work>>

(* `workflow cancel` reads the whole metadata, and writes all of it back later with
   another status.  One that wrote nothing before the next one read has died.      *)
CancelReads ==
  /\ meta.status # "created"
  /\ cancels < MaxCancels
  /\ cancels' = cancels + 1
  /\ cancel' = [meta EXCEPT !.status = "cancelled"]
  /\ UNCHANGED <<meta, orchestrator, resumes, approval, work>>

CancelWrites ==
  /\ cancel.status = "cancelled"
  /\ meta' = cancel
  /\ cancel' = NoMetadata
  /\ lost' = (lost \/ (meta.approved /\ ~cancel.approved))
  /\ UNCHANGED <<orchestrator, resumes, cancels, vouched, work>>

Orchestrate ==
  \/ Write
  \/ ReadMetadata
  \/ Skip \/ AwaitApproval \/ RunRole
  \/ Retry \/ \E status \in WorkerStatus, severe \in BOOLEAN : WorkerReturns(status, severe)
  \/ CorrectionEnds \/ Fix \/ Recheck
  \/ FlowEnds \/ Finalize

Command ==
  \E s \in Signals, override \in Flows, approve \in BOOLEAN :
    StartWorkflow(s, override, approve) \/ ResumeWorkflow(s, override, approve)

Next == Orchestrate \/ PipesClose \/ Command \/ Crash \/ CancelReads \/ CancelWrites

Spec == Init /\ [][Next]_vars

(* The orchestrator is a program: while it lives it goes on, and a worker whose time
   is up is killed.  What keeps a worker's output open owes nothing: the signals
   reach the worker's own process only, and the orchestrator waits for "close".    *)
FairSpec == Spec /\ WF_vars(Orchestrate)

-----------------------------------------------------------------------------
Places == {"idle", "begin", "flow", "working", "hung", "correct", "recheck", "finalize", "done"}

(* The variables have the shapes above. *)
TypeOK ==
  /\ meta \in Metadata /\ seen \in Metadata /\ copy \in Metadata /\ cancel \in Metadata
  /\ pc \in Places \cup {"write"} /\ after \in Places
  /\ flow \in Seq(Roles) /\ skip \subseteq Roles /\ got \in Results
  /\ worker \in WorkerIds \cup {NoWorker}
  /\ attempt \in 0 .. MaxRetries + 1 /\ cycle \in 0 .. MaxCorrections
  /\ resumes \in 0 .. MaxResumes /\ cancels \in 0 .. MaxCancels
  /\ vouched \in BOOLEAN /\ lost \in BOOLEAN /\ wrote \subseteq Parts /\ reviewed \in BOOLEAN
  /\ done \subseteq Roles

(* When the policy asks for an approval, the flow starts no role that writes
   before a human gave one, however often the run crashes and is resumed with
   other signals, and whatever a cancellation writes back (orchestrator.ts:338-349). *)
FlowWritersApproved == meta.required /\ ~vouched => "flow" \notin wrote

(* A resume is about to write an approval down. *)
Recording == pc = "write" /\ copy.approved

(* A run shown as awaiting approval needs one that its file does not have.  If a
   human gave one, then the command that brought it died before it wrote it down, or
   a cancellation wrote back a file it had read before (orchestrator.ts:282-294, 438,
   cli.ts:262-265): no pause, resume or crash after the record undoes it.            *)
PausedUnapproved ==
  meta.status = "awaiting-approval" =>
    meta.required /\ ~meta.approved /\ (vouched => lost \/ Recording)

(* A resume skips no role that never completed, although what it knows comes from
   a file that a crashed orchestrator left or a cancellation set back
   (orchestrator.ts:298).                                                      *)
SkipsOnlyDone == skip \subseteq done

(* An orchestrator that marks its run completed saw no worker fail, and if it had
   the work reviewed, the last review found nothing severe, whatever ended the
   correction loop (orchestrator.ts:380-447).                                 *)
CompletionIsClean ==
  pc = "done" /\ meta.status = "completed" =>
    ~got.failed /\ ("reviewer" \in got.roles => ~reviewed)

(* The approval binds across pauses and resumes: nothing of the flow is written
   before it, and a pause is shown only while the file lacks it, which after it was
   given takes a lost write.                                                   *)
ApprovalBinds == FlowWritersApproved /\ PausedUnapproved

(* A completed run earned it: nothing failed or was found severe at the end, and
   what a resume took for done was done.                                      *)
CompletionEarned == CompletionIsClean /\ SkipsOnlyDone

(* orchestrator.ts:307-309, "A reviewer finding of critical/high blocks
   completion": a run is not marked completed while its last review found
   something severe.                                                          *)
ReviewBlocksCompletion == pc = "done" /\ meta.status = "completed" => ~reviewed

(* orchestrator.ts:218-222, "gates on approval before the first writer role": no
   role that writes starts unapproved, in the correction loop neither.         *)
WritersApproved == meta.required /\ ~vouched => wrote = {}

(* Every orchestrator ends, if its process does not die before, or waits for good
   for the output of a worker that something else keeps open: retries and
   corrections are bounded, and a cancellation does not hold it up
   (orchestrator.ts:311-458, worker.ts:306-336).                               *)
RunEnds == ~Ended ~> (Ended \/ [](pc = "hung"))
=============================================================================
