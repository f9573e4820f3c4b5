# TLA+ specifications of targate

targate vets npm packages before they run: a registry proxy that serves only vetted tarballs,
install commands that review a dependency tree before a package manager executes it, committed
trust decisions, a monitor, a CI check, and, for its own development, a tool that drives local
agents through gated workflows. This directory holds TLA+ models of the parts where ordering,
concurrency, failure and stale state decide whether that works, TLC configurations that check
them, and proofs for TLAPS.

All paths below are relative to `src/` (the repository); `PROJECT.json` maps every definition to
the lines it stands for.

## 1. Inventory of the system

| Component | State it keeps | Operations | What is hard | What makes it correct |
|---|---|---|---|---|
| **Registry proxy** `src/proxy.ts`, `proxy-approvals.ts`, `proxy-cache.ts` | flights in progress (`inflightVets`), the vet gate (`Semaphore`), tarball URL memo, pending holds, verdict cache and its file | tarball and packument requests, `fetchAndVet`, control API approve/deny, hold timer, restart | requests coalesce on flights, slots change owner, holds outlive slots, humans race timers, the disk may fail | fail closed; a caller gets only bytes its own credential could fetch; slots and waiters are never lost; nobody is forgotten |
| **Proxy daemon** `src/proxy-daemon.ts`, `commands/proxy.ts` | `proxy.json` (pid, port, token), uplinks, TLS and env files, the process | start, ensure, stop, status, setup, teardown, exec | check-then-spawn, a state file removed by somebody else's stale read, pid reuse | a running daemon can be found and stopped; what a command reports is so |
| **Verdict** `src/rules.ts`, `policy.ts`, `ai.ts` (`assessRisk`), `pipeline.ts`, `trust-decision.ts` | none | rules, OSV failure policy, AI clamp, team policy, source audit fold, trust resolution | six layers raise and lower one decision; the order is the security property | deterministic rules are a floor; a hard block is not negotiable |
| **targate install** `src/commands/install.ts`, `full-install.ts`, `install-plan.ts`, `transitive.ts` | session (approvals, denials), reviewed plan, per-package results | plan, analyse, gate, triage, confirm, apply, verify, run, verify again | the project and the trust files may be edited at any await; the command may die; one analysis may fail | installs what was reviewed, and nothing unresolved |
| **targate add** `src/commands/check.ts`, `installer.ts`, `approval-orchestration.ts` | session, result, escalation | check, deep scan, picker, gated install, recording | an approval given before a deep scan raised the verdict; the registry changes what it serves | nothing is added that nobody vouched for; scripts stay off |
| **Artifact ledger** `src/artifact-ledger.ts` | digests per version | load, compare, record | unlocked read and write back; one mismatch refuses a batch | evidence is not lost |
| **Quarantine** `src/quarantine.ts`, `network.ts`, `resource-limits.ts` | a temporary directory, the credential of a request | guarded download, extraction, verification, scan, removal | redirects, archives that lie about their size, limits counted in a filter that cannot throw, a scan that outlives its budget | the credential stays at home; the limits hold at every moment; "verified" is justified; the directory goes |
| **Tree analysis** `src/transitive.ts`, `osv.ts`, `ai.ts`, `ai-cache.ts` | advisories, signals, assessments, the cache file and its write queue | batched OSV, scan pool, cache hits, AI batches, fallbacks, finalization | every request may fail or answer in part; results are put back by index | no failure makes a package look clean; nobody gets a neighbour's verdict |
| **Trust store** `src/approvals.ts`, `denials.ts`, `pnpm-builds.ts`, `approval-orchestration.ts`, `commands/approve.ts` | `.targate/approvals.json`, `denials.json`, pnpm's build allow list | record and remove by four commands | unlocked read, modify, write back by several processes; death between two files | an entry is never invented; triage leaves no version both approved and denied; not both built and ignored |
| **Signed approvals** `src/signing.ts` | none | sign, verify, filter a session's approvals | a signature copied to another entry | only a valid signature for this entry counts when signatures are required |
| **CI check** `src/ci.ts`, `commands/ci.ts` | exit code | diff of manifests, version judged, fold of verdicts | the pull request supplies its own evidence; a later error among failures | exit code 0 is earned by every change |
| **Monitor** `src/monitor.ts`, `commands/monitor.ts` | the baseline file | ask, compare, replace, report, exit code | lookups and single OSV records fail for some packages, runs overlap and die | nothing enters the baseline unreported; a clean exit is earned |
| **Lockfiles and versions** `src/lockfile.ts`, `semver.ts` | none | artifacts, entries, version index, installed version, order of versions | one version listed several times, several versions of one name | a conflict is an error (but see section 5); the version judged is the one installed |
| **Graph, score, diff, recommend** `src/graph.ts`, `score.ts`, `diff.ts`, `recommend.ts` and their commands | none | graph, filters, `why`; score; risk of an upgrade; candidates and ranking | cycles and cut-offs; caps, floors and thresholds; names the AI made up | explanations are complete; a fact against a package never helps it |
| **Local agents** `tools/local-agents/src/orchestrator.ts`, `run-store.ts`, `policy.ts`, `cli.ts` | `metadata.json` per run | start, resume, cancel, role, retry, correction loop, finalize | stale metadata written back, also by a cancellation beside the run, death at any step, resume from a file, a gate at one place, workers that leave something behind | no unapproved writer; completed means clean; every run ends, or waits for a worker's output |
| Detectors, AI providers, rendering, sandbox, command line, configuration, doctor, audit, explain and history, workers of the local agents | none or external | pure string processing and I/O | – | inputs of the models above, or not modelled |

How they interact: `targate install` and `targate add` load the trust store (filtered by the
signature policy), ask the pipeline for an assessment of each package (quarantine, identity of the
bytes, OSV, rules, AI, policy), resolve it against approvals and denials (*trust-decision*), record new
decisions through the trust store, call the package manager, and extend the ledger, which the next
analysis takes as evidence. `targate ci` asks the same pipeline about what a pull request changes. The
proxy runs the same rules on the bytes it downloads, but holds a request for a human in memory
instead of consulting the committed approvals. The daemon commands start and address the proxy
process through its state file and control API. The monitor's baseline also feeds the
`risk-increased` filter of the graph. The local agents tool is separate and shares nothing with the
rest but the repository.

The hazards, each at its line and with the properties that would notice it, are listed in
`PROJECT.json`.

## 2. Modules

| Module | What it is |
|---|---|
| `ProxyVet` | the proxy's vetting path, one action per event-loop step |
| `VetPromise` | what the proxy promises its clients, an abstract specification that `ProxyVet` implements |
| `ProxyVetProofs` | the inductive invariant of `ProxyVet`, the refinement, and the bounds of the cache and the holds |
| `ProxyDaemon`, `ProxyDaemonProofs` | the proxy as a background process, and the commands that start, find and stop it |
| `Verdict` | the decision algebra as pure operators |
| `InstallCommand`, `InstallCommandProofs` | `targate install` around `Verdict`, with its environment |
| `AddCommand`, `AddCommandProofs`, `ArtifactLedger` | `targate add` around `Verdict`, several at once, and the ledger they extend |
| `Quarantine`, `ArtifactIdentity` | the download and extraction of one package, and what its bytes are checked against |
| `TreeAnalysis`, `TreeAnalysisProofs`, `AiCache` | the review of a tree with OSV and an AI provider, and the file of its answers |
| `TrustStore`, `TrustStoreProofs` | concurrent recording of trust decisions |
| `Monitor` | overlapping runs of `targate monitor` and their baseline |
| `EvidenceProofs` | proofs about `Quarantine`, `ArtifactIdentity` and `Monitor`, and about the modules of the advisory commands; none of these share state |
| `Lockfile` | the two readers of a lockfile, and the order of versions |
| `DependencyGraph`, `SecurityScore`, `VersionDiff`, `Recommend`, `CiCheck` | the advisory commands: graph and `why`, score, risk of an upgrade, recommendations, the CI check; inputs that grow, and what must hold of the results |
| `Advice` | the machines of these five side by side (`AdviceSpec`), with bounds for TLC |
| `Workflow`, `WorkflowProofs` | a run of the local agents tool |
| `MC…` | the instances TLC checks |

`Verdict` is extended by `InstallCommand`, `AddCommand`, `TreeAnalysis`, `DependencyGraph`, `Recommend`
and `CiCheck`; `Lockfile` by `Monitor`, `VersionDiff` and `CiCheck`; `SecurityScore` by `VersionDiff`.

### ProxyVet and VetPromise

A *flight* is an entry of `inflightVets`, named by its package and credential (`vetKey`).
`phase[k]` is the await it stands at: `queued` (`Semaphore.acquire`), `packument`
(`resolveTarballUrl`), `tarball` (the download), `deciding` (`decide`), `held`
(`PendingApprovals.register`), `resumed` (the hold was settled, its continuation is a pending
microtask). An action is one macrotask. Microtasks run before the next macrotask, so every other
action waits for `MicrotasksDrained`. A digest stands for the bytes; `Upstream` says what a registry
may return to which credential, `Rating` what the rules may say of the bytes (an advisory may
appear between two analyses, so it is a set). `Restart` loses everything but `disk`.
`cleared` and `condemned` are history variables: what an analysis or a human has said of bytes.

`VetPromise` knows clients and judgements and nothing of flights, slots, holds or caches: a client that
asked is answered with bytes that its credential may fetch and that were cleared, is turned away, or
waits. `ProxyVet` implements it by `Promise == INSTANCE VetPromise WITH ...`, a refinement mapping from its
variables; `KeepsPromise` is `Promise!Spec`, a property of the run `proxy_vet` and a theorem.

### Verdict and InstallCommand

`Verdict` translates the layers in the order of `pipeline.ts`: `EvaluateRules`, `ClampDecision`,
`AssessRisk`, `ApplyOsvFailurePolicy`, `ApplyPolicy`, `FoldSourceAudit`, `ResolvePackageTrust`. A package
is a record of *signals*: what the rules can tell apart, not how a detector found it.
`InstallCommand` follows `installCommand` from await to await. `facts[p]` is what the bytes really
are; an analysis sees them whole (`AnalyzeFully`), cut short by a scan budget
(`ScanBudgetExceeded`), without the artifact after a resource limit (`QuarantineLimitExceeded`), or
not at all (`AnalysisFails`). The environment edits the manifest, the lockfile and the trust files between any two
steps; contents are numbers, and an edit always makes a new one. The triage records its approvals
in one step here; `TrustStore` opens that step up. Reading the manifest and the lockfile is one step.

### AddCommand and ArtifactLedger

Several `targate add` of one package run in one project. `session[a]` is what command `a` loaded,
`locked[a]` the digests of the plan that `--deep` resolves, `results[a]` its analyses: the decision, what
it is `shown` as after an approval, the digest of the bytes and what the ledger `known` of them. The
registry may serve other bytes at any time (`Swap`), so an analysis can differ from the plan and
the ledger. `Pick` is the picker over dependencies, `Refuse`, `Skip`, `ApproveNoScripts`, `ApproveFull` and
`ProceedAllowed` the exits of `gateInstall`. The ledger is a function from packages to digests; it is loaded,
extended and written back in two steps (`LoadLedger`, `WriteLedger`), between which others write.
Recording an approval is one step here; `TrustStore` opens it up. An approval that matches by
fingerprint counts as an approval. The source audit is in `InstallCommand` and not here.

### Quarantine and ArtifactIdentity

One package from its tarball request to the end of its analysis. `pc` is the await; the registry
chooses redirects, statuses and one of the `Archives`, whose entries have a kind, a size, a top-level
directory, directories that no entry names (`parents`), and may lead outside. Sizes are units. `Skip` and
`Extract` are the extraction filter, which counts and cannot throw; `VerifyTree` counts again on disk.
`Rejects` removes the directory, as the `catch` does; `StoreFails` is the one write that nothing catches.
`ScanBudget` answers while the scan goes on (`LateScan`). `ArtifactIdentity` is `verifyArtifactIdentity`
over four sources of evidence, and `BindMetadata` the comparison of the manifest in the tarball with
the registry's. A checksum names the bytes it was made of; a source whose integrity is the empty string
(`blank`) declares nothing, whatever shasum it gives (`quarantine.ts:107`).

### TreeAnalysis and AiCache

`pc` is the phase of `analyzeTreeBatched`; inside of a phase packages proceed by themselves. `built[p]`
holds the signals; `turn[i]` and `assessed[i]` are indexed by the place in `Ok`, the packages that were
built, as the arrays of the code are, so that an answer put back at a wrong index is visible. A batch may
leave packages out (`AnswerBatch`), fail (`BatchFails`), and what it leaves out is asked alone. The cache
is a function from contexts to entries; `queue` holds this process's writes, each a read and a
rename, of which only the first may begin (`MayBegin`); `Elsewhere` is another process. `said` remembers
what the AI answered for which context, `cut` about whom OSV answered too little.

### TrustStore

Three files, of which one is written in place (`pnpm-builds.ts:52`, `Truncate`) and two by rename.
Processes run the triage of install, the picker of add, or `targate approve`; each works through a list
of writes, and each write is a `Read` and a `Store`. A process may die between any two steps;
a merge conflict may break a file (`BreakFile`). `recorded` remembers which modes a human gave
a version, `marred` the versions on which writes raced or were cut off.

### Monitor

`world[k]` is what is true of a package and changes by itself, its `malicious` records and `advisories` among
it; a run asks OSV once for all its targets (`AskOsv`). The batch fails, or it answers with ids, and then each
record whose id does not tell that it is malware (`NeedDetail`) has to be fetched, once for all packages that
have it, and may fail: `OsvAnswer` is what is left of a package, known in part and marked `osvUnavailable`, as
in `osv.ts:233-283`. `lost` is the targets and records that failed. The run then looks each up (`LookUp`, `LookUpFails`), compares with the `baseline`
(`Compare`), replaces it by its snapshots (`WriteBaseline`), and then prints (`Report`). It may die
anywhere (`Crash`), and the file may lose entries (`LoseBaseline`). `told` and `missed` are history:
what was printed, and what entered the file without having been compared, or died unprinted. `bad` is
the targets and records of malware that have stood ever since a run began. (Its specification is called `MonitorSpec`, so that
`EvidenceProofs` can extend it beside `Quarantine`.)

### Advice: Lockfile, DependencyGraph, SecurityScore, VersionDiff, Recommend, CiCheck

The algorithms are operators: `Lockfile` over a format and a sequence of entries (whose integrity may be missing,
`Absent`, or the empty string, `Empty`, which `mergeArtifact` treats differently), `BuildDependencyGraph` and
`FilterGraph` over a set of resolved keys and declared names, `ComputeSecurityScore` over a record of what counts against a
package, `DiffRisk` over two of them, `RecommendPackages` over hits and names, `RunCiCheck` over what a
pull request's checkout and its base ref hold. Each is put to work by a small machine whose state is the
input and whose steps add one fact to it, with no bound on how many:

| Module | State | Steps |
|---|---|---|
| `DependencyGraph` (`GraphSpec`) | `declared`, `needed`, `outcome`: what packages and roots declare and what their analyses come to | `Learn` |
| `VersionDiff` (`DiffSpec`) | `package`, as it gets worse; `lock`, the entries of a lockfile | `Worsen`, `List` |
| `Recommend` (`RecommendSpec`) | `hits` of the search, `names` the AI suggested | `Search`, `Suggest` |
| `CiCheck` (`PullSpec`) | `pr`: manifests, lockfiles and approvals of a pull request | `ChangeManifest`, `ListPin`, `Corrupt`, `Commit`, `RequireSigned` |

`whyChains` is a machine too, since what it does depends on an order nobody chose (that of the edges, in which
analyses happened to end). Its recursion is `open`, the walks yet to be made: `Why` puts one path for each
version of the package there, `Climb` replaces the first path by one for each parent that is not on it,
`Arrive` reports it when it has reached a root or a package nothing depends on, and `LeaveOut` drops it when
`WHY_MAX_CHAINS` are reported.

The properties relate the results to definitions that say what is wanted and not how it is computed
(paths and reachability for the graph, every entry for the lockfile), or one result to that of the input with
a fact more. `Advice` chooses one `topic` and lets its input grow up to `MaxFacts[topic]`: each of its steps is a
step of one of the machines, and leaves the others alone (the theorem `AdviceIsEach`).

### Workflow

One run: `metadata.json` (`meta`), the orchestrator (`pc`, its flow, and `seen`, the
copy of the metadata `runFlow` keeps and writes back when it pauses), and what its workers
returned. Whoever changes the metadata reads the whole file, waits, and writes the whole file back: each such
step of the orchestrator ends in `WriteBack`, which holds what it will write in `copy`, and is followed by `Write`;
`workflow cancel`, another process, is `CancelReads` and `CancelWrites`, with `cancel` in between, so that either may
undo what the other wrote. `Crash` forgets the orchestrator with its `copy`, and `ResumeWorkflow` starts a new one
from `meta`. A worker that was started works, or is `hung`: it ended or was killed, and something it left behind keeps its
output open (`WorkerStarts`, `PipesClose`), for which `worker.ts:332` waits. `vouched`, `lost`, `wrote`,
`reviewed` and `done` are history; `lost` says that an approval was undone by a cancellation's write, or died with the
command that was about to write it.

### ProxyDaemon

`st[d]` is how far the process with pid `d` has come: `boot` (it loads TLS material and the uplinks),
`bind`, `bound`, `serve` (it has written the state file and installed its signal handlers), `closing`
(terminated, but requests it holds keep it), `dead`, or `stranger` (dead, and its pid belongs to
another program). `cmd[a]` is a command: its name, the place it stands at, and `why` it asked
`liveProxyState`. That function is two steps, `Look` and `ClearStale`, because another process may
write between its test and its removal; the polling loops of start and stop are `Look` again, `Polls` times. `exec`
becomes its client once it found a proxy, so nothing after that is modelled; `approvals`, `approve` and
`deny` look the proxy up as `status` does. `crossed` records the daemons whose entry in the state
file another process overwrote or removed, `clashed` that a setup or teardown began while another ran:
the properties say that nothing else goes wrong.

## 3. Runs

| Run | Instance | Shows |
|---|---|---|
| `proxy_vet` | 2 clients, 3 flights over 2 packages and 2 credentials, 2 digests, 1 slot, 2 holds, cache of 1 | `FailClosed`, `VerdictsJustified`, `NothingLost` (no slot, waiter, hold or request), and that `ProxyVet` implements `VetPromise` (`KeepsPromise`), over all interleavings |
| `proxy_live` | 1 client, 2 flights, failing disk, fairness | `GateNotStarved`, `AnsweredOrStranded` |
| `proxy_hold_timeout` | as above | `HoldsResolve`, **violated**: a deduplicated hold does not resolve at its timeout (`proxy-approvals.ts:64`) |
| `proxy_daemon` | 2 daemons, 2 ports, http and https, 2 processes, 3 commands, each poll once repeated | `ServingIsNamed`, and `CommandsTakeEffect`: what start, stop, the env file and setup report or leave is so |
| `trust_store` | 2 versions of 1 package, 2 processes, 2 commands, 1 conflict | `ListsSound` (what the lists say was decided by a human and does not contradict itself), `EntriesKept` |
| `install_gate` | 2 packages (one without advisories data, one allow-listed and soft or hard blocked), 3 command lines, 3 contents, 1 trust edit | `NothingUnresolvedInstalled`, `FloorHolds`, `InstalledAsReviewed`, `DecisionsBind` (committed denials and no-scripts approvals) |
| `add_command` | 2 commands, a package and a dependency that is a soft block, 2 digests, 1 swap | `NothingUnasked`, `ScriptsOffHonoured`, `KnownDigestRespected`, `LedgerKeepsEvidence` |
| `quarantine` | 3 servers of which one is unsafe, 2 redirects, 18 archives, 4 kinds of evidence, limits of 2 to 4 units | `CredentialStaysHome`, `DiskBounded`, `TrustJustified`, `QuarantineRemoved`, `QuarantineEnds` |
| `tree_analysis` | 3 packages (a MAL- record, a malware record by its text, one to review), batches of 2, a cache entry below the rules, 1 act of another process | `NeverSilentlyClean`, `OwnVerdict`, `CacheHonest`, `OwnAnswersKept`, `ReviewEnds` |
| `monitor` | 2 runs, 2 packages (one that may be taken over and get a `MAL-` record, one that may get a malware record which has to be fetched), 2 changes of the world or losses of the file | `NothingUnreported`, `CleanExitIsEarned`, with the OSV batch and each record failing or not |
| `advice` | a graph of 3 packages (two of them versions of one), a project and a workspace with 5 facts, and `why` about each name with at most 3 chains; 4 hits or suggestions; 3 facts against a package; 4 lockfile entries, also with an empty integrity; 5 facts of a pull request | `WhyExplains`, `FilterExplains`, `AiOnlyAdds`, `LockfileRead`, `CiPassEarned`, `ScoreNeverRises`, `DiffRiskFollows` |
| `workflow` | 2 readings of the task, default flows and reviewer-tester, 1 retry, 1 correction, 1 resume, 1 cancellation | `ApprovalBinds`, `CompletionEarned`, `RunEnds` |

`proxy_hold_timeout` states what a comment of the repository says; `findings` in `PROJECT.json` quotes
it. More configurations that end in a violation are described in section 5.

### Bounds, and why they are enough

- One slot (`MaxVets` is 6 in the code) makes every second flight queue; more slots only postpone
  it. Three flights give one holder and two waiters, the least with which a wakeup can go to the wrong
  one. The proofs cover every number. With two digests the cap on holds (2) is reached but could not
  be passed, so the holds' part of `NothingLost` is about chains rather than the cap there.
- A cache of one entry evicts at the second verdict.
- Two packages suffice for install: a tree is folded over its packages, and one exercises the
  absence of advisories, the other the allow list and both kinds of block. Three contents are an
  edit before and one after the review. `MaxTrustEdits = 1` lets somebody else change the trust
  files once.
- Two processes with two commands in all lose each other's updates, and a third could only repeat it.
  `MaxConflicts` bounds how often a merge breaks a file.
- Two `targate add` are what it takes to write back a ledger read before another's write, and one swap
  is what separates the plan, the analysis and the ledger.
- In the quarantine two redirects lead away and back; each archive stays within the limits or breaks one
  of them, at its first entry, at a later one, or only together with the others.
- Three packages in batches of two are a full batch and one that is not; a batch of one answer for two
  packages is the least that could be shifted. Another process acts once. The review is strict about OSV's
  failures and uses the cache, or is not and does without.
- Two runs of the monitor overlap, and a change and its reversal, or a change and a lost baseline, are
  what a comparison can miss. Two packages and two kinds of malware record are what it takes for OSV to answer
  about one package and not about the other, or about one in part.
- In `advice` every input of up to `MaxFacts` facts is examined. Five edges or marks make cycles, diamonds,
  orphans and chains over four nodes, and two roots that need a package of two versions have one chain more than may be shown; three facts pass a cap and both floors of the score, as the package starts with some suspicious files, permissions and
  native findings; four entries make two versions with a conflict behind a gap, or one
  behind an empty integrity that hides it; five facts about a pull
  request make an approval for another version, signed, in a project that requires signatures; one of the
  two packages is on the team's list of known ones.
- One correction and one retry are the loop's entry, its repetition and its exhaustion; one resume
  is the least that separates what a process knows from what the file says, and one cancellation
  the least that writes back a file it read before the other's write. Workers that are
  `blocked` are treated as failed in every branch, so the model has one status for both.
- Two daemons are what it takes to overwrite an entry, and two processes to remove one between another's
  test and its removal; three commands are a start, a second one that races it, and one that finds
  what they left. Polling more often (50 and 30 times in the code) only delays the answer.
- Symmetry is used where values are interchangeable and the properties are invariants or say something
  of single steps: clients in `proxy_vet`; daemons, ports and processes in `proxy_daemon`; commands and
  digests in `add_command`; runs in `monitor`.
- `CHECK_DEADLOCK FALSE` stands where requests, commands, runs, facts or resumes are bounded or a
  system at rest has nothing to do: an idle proxy, commands used up, an analysis or a run that ended.

### Fairness

- `ProxyVet`: weak fairness of `Resume` (a microtask runs), strong fairness of each flight's steps
  (Node serves every ready socket and timer, upstream requests have timeouts; strong since the
  microtask guard disables macrotasks again and again), strong fairness of the hold timer. Clients,
  humans and restarts owe nothing.
- `Quarantine`: weak fairness of the analysis's own steps and of its time limits. The server owes
  nothing: it may redirect, stall or stop at any point.
- `TreeAnalysis`: weak fairness of the review as a whole, since every request of it has a time limit
  and its pools run until they are empty. Other processes owe nothing.
- `Workflow`: weak fairness of the orchestrator's next step. A worker is killed when its time is
  up, so one whose output nothing else holds open returns. What a worker left behind owes nothing
  (`PipesClose`): the signals reach the worker's own process only, and `RunEnds` says that the run ends or waits
  there for good. Crashes, cancellations and commands owe nothing.
- No fairness is assumed elsewhere.

## 4. Proofs

TLAPS proves the following for every value of the constants that the named assumption of the module
allows.

`ProxyVetProofs`, under `ProxyAssumption` (finite keys and digests, positive
bounds):

| Theorem | States |
|---|---|
| `Invariance`, `TypeCorrect` | `Spec => []IInv`, `TypeOK` |
| `ProxyFailsClosed` | `FailClosed` |
| `ProxyServesOwnBytes` | `OwnBytes` |
| `CacheRepeatsJudgements` | `VerdictsJustified` |
| `NothingIsLost`, from `NoRequestForgotten`, `GateKeepsItsSlots`, `GateLosesNoWaiter` and `HoldsStayWellFormed` | `NothingLost` and its parts |
| `ProxyKeepsPromise` | `Spec => Promise!Spec`, the refinement |
| `CacheStaysBounded` | `CacheBounded` |

None of the properties is inductive alone. `IInv` adds:

- `FlightsCoherent`: a flight that decides, is held or resumes buffers bytes its own key may fetch, and
  a resuming one has an outcome that `cleared` or `condemned` confirms. Without it a flight could serve any bytes.
- `ChainsHeld`: flights chained on a digest are held and buffer that digest. It is what makes a
  human's decision about one digest a decision about the bytes each chained flight will serve.
- `QueueCoherent`: the flights in the queue are `queued`, each once. The counting argument of
  `GateInv` (slots plus owners equal `MaxVets`) needs it when a release hands a slot over: the owners
  lose one flight and gain the head of the queue, and that this is another flight is this conjunct.
- `ClientsCoherent`: what a client asked and received agrees with its reply.

The proof has one lemma per part and, within it, one step per action. Refinement is the same
invariant and a case analysis: every action answers some clients with cleared bytes, turns some
away, or leaves them alone, and judgements only grow.

The bounds rest on the same invariant: a flight registers a hold only while it is
`deciding`, and everyone on a chain is `held`, so no flight is chained twice; the queue of
eviction loses its head exactly when the map does.

`InstallCommandProofs`, under `InstallAssumption`, for every tree, policy, set of command lines and
number of edits:

| Theorem | States |
|---|---|
| `RulesAreAFloor` | no layer after the rules turns a decision that needs a human into one that does not, the allow list on bytes that are no hard block and were analysed whole aside |
| `InstallInvariance`, `InstallTypeCorrect` | `Spec => []IInv`, `TypeOK` |
| `FloorAlwaysHolds` | `FloorHolds` |
| `OnlyResolvedInstalled` | `NothingUnresolvedInstalled` |
| `ReviewedIsInstalled` | `InstalledAsReviewed` |
| `CommittedDecisionsBind`, from `DenialsRespected` and `CommittedModeBinds` | `DecisionsBind` |

Its `IInv` adds `ResultsVetted` (a verdict is what `resolveVetResult` makes of the session's decisions,
and the floor holds for it), `StagesInOrder` (no verdict before the session is loaded, one for every
package from the gate on, nobody triaged and no script run before the stage for it), `GatePassed`
(past the gate each package was fine or approved in the triage) and `LockTraced`. The last one is why the second
verification is enough: every edit has a new content, so a lockfile that is the plan's *after* the
package manager ran was the plan's when it ran.

`TrustStoreProofs`, under `TrustAssumption`, for every number of versions, processes, commands and
conflicts: `TrustTypeCorrect` (`TypeOK`), `ListsStaySound` (`ListsSound`, from `BuildListsExclusive`,
`ApprovalsAreHuman` and `TriageKeepsExclusive`) and `EntriesOnlyByOwnWrites` (the action property
`EntriesKept`). A file's content may be an old one that a process read long ago, so `IInv` (`TrustInvariance`) says of every content
held (`AllSound`) what it says of the files; and of every queue of writes (`AllPending`) that an approval in
it was given by a human, and that the removal of the opposite entry comes right behind it.
`SoonExclusive` is `TriageExclusive` made inductive: approved and denied at once only while the write that ends it is next.

`WorkflowProofs`, under `WorkflowAssumption`, for every approval mode, reading of the task, flow and
number of retries, corrections, resumes and cancellations: `WorkflowTypeCorrect` (`TypeOK`), `ApprovalDoesBind`
(`ApprovalBinds`, from `GateHolds` and `PauseIsTrue`) and `CompletionIsEarned` (`CompletionEarned`, from
`ResumeSkipsOnlyDone` and `CompletedRunsAreClean`). The theorems are about `Spec`, which the `FairSpec` of the
run implies. `IInv` (`WorkflowInvariance`) relates the file, the copies of it that somebody may still write back (`seen`
at a pause, `copy` of the orchestrator, `cancel` of a cancellation) and what really happened. `FilesTruthful` says of
each of them that what it says is so: a pause it shows is one, an approval it has was given, a worker it has completed
did; whichever is written last, the file tells no lie. It may tell too little, and `ApprovalKnown` says when: a copy
lacks an approval that was given only if something undid it, or if the resume that brought it is about to write it.
`RequirementKnown` (all copies agree on whether an approval is required) carries the gate across a file that was set back,
and `ReviewKnown` and `CompletionKnown` tie the results in memory to the last review and to the status about to be written.

`ProxyDaemonProofs`, under `DaemonAssumption`, for every number of daemons, ports, processes, commands and
polls: `DaemonInvariance`, `DaemonTypeCorrect` (`TypeOK`), `ServingDaemonFound` (`ServingIsNamed`) and `CommandsDoTakeEffect`
(`CommandsTakeEffect`, from `StartIsTrue`, `StopIsTrue`, `EnvIsBacked` and `SetupIsServed`). The argument is that
what a command remembers stays true: a pid it read from the file belongs to a
daemon that has published its entry and never binds again (`Past`), and a pid it found dead never
serves again (`Gone`), although a stranger may get it. So a removal of the file can only hurt
the daemon it was meant for or one it adds to `crossed`, and when the file is gone, whoever still
serves is in `crossed` (`Lost`); this is why stop may conclude from the missing file that its daemon
stopped. `Arranged` follows one setup or teardown at a time through its files.

`AddCommandProofs`, under `AddAssumption` and `LedgerAssumption`, for every number of commands,
packages, digests and changes of the registry:

| Theorem | States |
|---|---|
| `AddInvariance`, `AddTypeCorrect` | `Spec => []IInv`, `TypeOK` |
| `NeverInstalledUnasked` | `NothingUnasked` |
| `NoScriptsBinds` | `ScriptsOffHonoured` |
| `KnownDigestBinds` | `KnownDigestRespected` |
| `EvidenceKept` | `LedgerKeepsEvidence` |

The commands share files and the registry, but every conjunct of `Sound(a)` speaks of one command's own
books, which only its own steps change (`OthersKeep`); that is what makes any number of them no
harder than one. `Honest` carries the argument from the analysis to the gate: a verdict is shown as it
was reached unless an approval or a pick cleared it, and bytes that differ from the ledger's stay a
hard block that nothing clears (`AnalyzeDecides`). At the gate `TreeDecides` turns what holds of the
aggregate into what holds of each package. A write is checked against the very copy it extends, so the theorem
about it needs the types only.

`EvidenceProofs`, under `QuarantineAssumption`, for every registry, archive, evidence and limit:
`VerifiedMeansNamed` (what the comparison with four sources of checksums is worth, whatever algorithms they
name in whatever order), `CredentialKept` (`CredentialStaysHome`), `TrustIsJustified`
(`TrustJustified`), `DiskStaysBounded` (`DiskBounded`) and `DirectoryRemoved` (the action property
`QuarantineRemoved`). `Inv` (`QuarantineInvariance`) ties the credential to the server that is asked (`CredentialTied`) and says at
each stage what is known of the bytes (`ResultTraced`): nothing that was established survives a failure, and
what a scan that ran out of time leaves behind is what the manifest was compared with. `DiskCounted` says that
the filter's two counters are the number and the size of what was extracted, all of it entries already reached. A
size is a sum, a recursive function of the archive's entries, and that it grows by each entry
extracted is shown by the least position at which it would not. The theorems are about `Spec`, which the `FairSpec` of the run implies.

The same module, under `MonitorAssumption`, for every number of runs, lockfile, world, set of flags and changes:
`MonitorInvariance`, `NothingIsSilenced` (`NothingUnreported`) and `CleanExitEarned` (`CleanExitIsEarned`).
`MonitorInv` is stronger than both in three ways. Of a run that reached its comparison, `Sees` says, package by package, that
a record of malware that stood throughout is in the snapshot, or that it is among the `lost` ones and has no telling id, or
that the whole batch failed; and that a package with a lost record is marked as unknown. So an
event of severity "critical", or of "warn" in a strict run, follows whatever the baseline knew (`CompareEarns`). `Covered` says of what a run is
about to write that everything new in it, compared with what the file held when it was read, is among the run's own
events; that is why a baseline which another run replaced in between does no harm. And the facts of
the file are accounted for by runs that *update* it (`Printing`) only: a run that merely prints may die, and what
it printed is not counted on.

`TreeAnalysisProofs`, under `TreeAssumption`, for every tree, policy, set of advisories, batch size,
options and content of the cache file:

| Theorem | States |
|---|---|
| `TreeInvariance` | `Spec => []Inv` |
| `NothingPassesAsClean` | `NeverSilentlyClean` |
| `VerdictsAreOwn` | `OwnVerdict` |
| `CacheStaysHonest` | `CacheHonest` |
| `OwnAnswersStay` | `OwnAnswersKept` |

`Inv` says what is known at each phase. `AdvisoriesKept`: until signals are built OSV's answer stands as it
was given, each record it names is known by its kind or as an error, and the signals of a package with malware that the
answer did name say so or say that OSV was down. `Aligned`: the assessment at a place is what the rules alone, or an
answer the AI gave for the signals of the package *at that place*, come to; this is what
"positionally aligned" in `transitive.ts` means, and why a batch that leaves packages out shifts nobody. `FileHonest`
says of the file, of the answers waiting to be cached and of the copies read by queued writes that the AI gave each of
them; `FileKept` that only the first write in the queue has read the file, that its copy is still the file, and
that everything this process saved is in it and fresh, unless another process was about. `Delivered` ties the
results to signals and answers. That the places of `Ok` are the packages that were built, each once
(`Array.prototype.filter`, here the recursive function of `Among`), is shown by the least place at which
they would not be.

The rest of `EvidenceProofs` is about the advisory commands, for inputs with any number of facts:

| Theorem | About | States |
|---|---|---|
| `ScoreOnlyFalls`, `RiskFollowsTheChange` | `DiffSpec`, under `DiffAssumption` | `ScoreNeverRises`, `DiffRiskFollows` |
| `LockfileIsRead` | `DiffSpec`, under `DiffAssumption` | `LockfileRead` |
| `CiExitIsEarned` | `PullSpec`, under `CiAssumption` | `CiPassEarned` |
| `AiAddsCandidatesOnly` | `RecommendSpec`, under `RecommendAssumption` | `AiOnlyAdds` |
| `FilterStillExplains`, `WhyIsExplained` | `GraphSpec`, under `GraphAssumption` | `FilterExplains`, `WhyExplains` |

The theorems are about the machines one at a time; `AdviceIsEach` shows that `AdviceSpec` implies all four of their
specifications, so that they hold of the run `advice` too. What the proofs are made of:

- Score and risk. A score is the sum of capped categories and then a floor, so that it is enough that each deduction
  only grows; a sum of a function over a set is compared term by term. The risk depends on two sets of reasons, and one more
  fact only adds to either.
- Lockfile. `FoldLeft` over the entries is followed entry by entry: after some of them the fold has met a conflict, or it has
  for each version the one integrity that the entries so far name, those before an empty one of the version aside (`Shown`). The version picked is the last of a listing in
  ascending order; that there is such a listing of the versions, and that the fold over precedence picks a highest one, are
  lemmas of their own, from `CompareSemver` being a strict order.
- CI. `PullInv` says of each part of the pull request which change put it there. The exit code of the fold over
  the changes is 2 as soon as one of them is unresolved and 1 only when one failed (`ExitTells`); what is left is one change, its
  version (`VersionInstalled`) and its verdict (`ResolvedIsPassable`), for which the layers of `Verdict` are
  shown to keep "a human is needed" unless the team's list says otherwise (`StricterKeepsHumans`).
- Recommendations. A finite set under a strict order has a sorted listing (`SortedExists`), so the `CHOOSE` of
  `RankRecommendations` is one, and two candidates that the search found stand in it as their scores say (`ReportIs`), whoever
  else is ranked among them.
- Filters. `Closure` runs as many rounds as there are nodes; that this is enough is a counting argument (each round that changes
  anything adds a node), and from there reachability is the least set closed under a step (`ClosureIs`). What a
  filter keeps contains, with a node, all its parents up to a root, hence the way it was reached.
- `why`. The inductive invariant `WhyInvariant` says that `Told` holds of the project's graph: what is reported are walks from a top, what is open
  are walks that end at a version asked about, and unless the report is cut, every walk from a top *is
  reported or ends in one that is open*. `Climb` keeps this since a longer walk that ends in the open path comes
  to it through one of the parents, and that parent is not on the path as a walk repeats nothing; `Arrive`
  since no edge leads to a top. When nothing is open any more, every walk from a root is told, in
  whatever order they were found, and reachability turned into paths (`ReachablePath`, `PathReaches`) gives the three parts
  of the property. Leaving out parents seen in another chain, a natural optimization, breaks `Climb`.
Every invariant and every action property of the runs that pass is stated by one of these theorems. Only model-checked are
the liveness properties (`GateNotStarved`, `AnsweredOrStranded`, `QuarantineEnds`, `ReviewEnds` and `RunEnds`), since
fairness and ENABLED are out of this prover's reach.

## 5. Known limits of the models, and disagreements

### Where the code and its documents disagree

Each of these is a property that a document or comment of the repository states, with a configuration
that TLC ends in a violation: `tlc -config <name>.cfg <module>` (with `-continue` where one configuration has two).

| Configuration, module | Property | What happens |
|---|---|---|
| `trust_exclusive`, `MCTrustStore` | `RecordingRemovesTheOther` | recording an approval outside the triage keeps the denial (`commands/approve.ts:220`; `denials.ts:20`) |
| `install_noscripts`, `MCInstallCommand` | `NoScriptsBinding` | a no-scripts approval of this run's own triage does not bind it (`commands/install.ts:293`; `docs/transitive-and-install.md:58`) |
| `install_hardblock`, `MCInstallCommand` | `HardBlocksNeverInstalled` | a hard block whose archive breaks a resource limit can be approved, since what is left of it is no hard block (`pipeline.ts:540`; `docs/decisions.md:14`) |
| `add_hardblock`, `MCAddCommand` | `HardBlocksNeverAdded` | the root's approval turns a fetch-and-execute package whose analysis was cut short, and which is rated `require_approval`, into a warning (`approval-orchestration.ts:71`; `docs/decisions.md:14`) |
| `add_ledger`, `MCAddCommand` | `LedgerNeverOverwritten` | a command that loaded the ledger before another wrote it replaces or drops the entry (`artifact-ledger.ts:114`; `docs/team-workflow.md:55`) |
| `lockfile_conflict`, `MCAdvice` | `ConflictFails` | an entry with an empty integrity between two that name different bytes hides the conflict, as `??` keeps the empty string and it is then dropped (`lockfile.ts:57`; `:26-28`) |
| `workflow_claims`, `MCWorkflow` | `WritersApproved` | the correction loop starts an unapproved implementer (`orchestrator.ts:411`; `:219`) |
| `workflow_claims`, `MCWorkflow` | `ReviewBlocksCompletion` | a resume forgets a critical finding and completes (`orchestrator.ts:443`; `:308`) |

### What the models show and no property forbids

- Proxy: a flight that waits for a human keeps the bytes it downloaded after it has released the gate,
  so up to `maxConcurrent` buffers (the cap on holds) exist besides the `MAX_CONCURRENT_VETS` of the
  comment at `proxy.ts:374`.
- Daemon: a setup that finds a proxy running writes its env file although that proxy may serve plain
  http, on another port and with older uplinks (`commands/proxy.ts:154-158,294`; `proxy-daemon.ts:15`
  says "the proxy serves TLS after `setup`"), and a daemon in `crossed` serves on unnoticed.
- Install: an edit of the project between `install-plan.ts:238` and the writes below it is overwritten;
  what is installed is still what was reviewed.
- Add: a full approval under a no-scripts cap runs without scripts and is recorded as `normal`; an
  interactive yes for a dependency that raised the verdict records an approval of the root only; without
  `--deep` the package manager installs whatever the registry serves then.
- Quarantine: when storing the tarball fails, its directory stays (`StoreFails`). A source whose integrity is the
  empty string counts as one that declares nothing, and its shasum is not compared (`quarantine.ts:107`); as the
  same source could have left out its shasum, it gains nothing by this.
- Lockfile: the conflict of two integrities is thrown as a plain `Error` and not as a `LockfileParseError`
  (`lockfile.ts:54`). An entry with an empty integrity makes the ones before it forgotten; yarn's pattern
  (`lockfile.ts:192`) cannot find one. So `targate ci` checks the bytes against the entries since then.
- Tree: an OSV answer that names fewer ids than there are is taken at its word; the allow list overrides
  `--fail-on-osv-error`.
- Monitor: malware of which OSV has only records that must be fetched to be known as such is an event of severity
  "info", and the exit code 0, when the fetch fails and `--fail-on-osv-error` is not given. A target whose metadata cannot be fetched leaves the baseline, so that a change during the
  failure is adopted silently by the next run; errors of lookups do not change the exit code; a run
  without `--all` narrows a baseline that one with `--all` wrote. `extractLockfileEntries` finds nothing
  in lockfiles of npm's version 1 and pnpm's version 5.
- Graph: a package whose analysis failed loses its out-edges, so that its dependencies look like orphans,
  though `graph.ts` says of its edges that the approximation "never hides a real edge"; a package that only an unreachable cycle leads
  to has no chain.
- Score: a degraded analysis hides what it did not see, and may score higher than the whole one would.
- Diff: a new version whose scan was cut short, or whose existing hook newly fetches and reads, can be rated
  low by its points although the rules would stop it.
- CI: only changes of `package.json` are analysed, so a pull request that changes the lockfile alone
  passes, though the generated workflow is triggered by lockfiles too.
- Workflow: the metadata written by a pause drops the completed discovery, which a
  resume then plays again (`orchestrator.ts:342`); a resume without signals plays the default flow of
  a small task instead of `plannedFlow` (`orchestrator.ts:296-297`); a cancellation is overwritten by
  `finalize`, by the end of a worker that read the file before, and by a resume. One that read the file before a
  resume recorded an approval erases it (`cli.ts:262-265`): if the resume's flow begins after that, it pauses again
  although a human approved; it may also erase that a role completed, which is then played again. A run
  that was paused for an approval and cancelled before `finalize` read the file again ends as "completed" with the roles
  behind the gate never played (`orchestrator.ts:438-447`). `planChanged()` (`policy.ts`) and `repoRequiresApproval` are never consulted.

### What is abstracted or left out

- The proxy's metadata requests other than packuments, TLS and uplink selection are left out; an
  upstream origin is a function of the package.
- `ProxyDaemon` leaves out `proxy cert`, the single steps of openssl, the removal of an old block in
  `.npmrc`, the checks of host and client in setup, and torn writes of the state file.
- Detectors are inputs. That a malicious script is recognised is not a claim of these models.
- `TreeAnalysis` has the batched path with a provider; without one each package goes through
  `analyzePackage`, which `InstallCommand` has. Internal scopes are left out.
- In `Monitor` every target is asked about (internal scopes, which the code leaves out, are not there), and a batch
  answers about all of them; that an answer may be too short is in `TreeAnalysis`.
- Signatures are inputs of `CiCheck` (who signed what), not computed; the other commands' sessions take
  the approvals as they are after the signature policy.
- The graph's statistics, and the texts of every report, are left out. When `why` cuts its list, any
  `WhyMaxChains` chains may be the ones shown.
- Writes by rename and the small JSON writes of run metadata are atomic in the models. In the code
  `metadata.json` is written in place (`run-store.ts:95`), so a process that dies there leaves a run
  that cannot be resumed.
- In `Workflow`, two orchestrators never work on one run at a time, and a single `run <role>` is left out. A worker's
  timeout is not told from its answer: either way it returns, with a status of any kind. What metadata says of workers is
  kept as far as it is read again (which of them completed); times, events and results are left out.
- What is not modelled at all, and why, is listed under `components` in `PROJECT.json`: string processing
  without state (detectors, rendering, argument parsing, configuration), clients of external services
  (AI providers, containers, ssh-keygen), and the workers of the local agents.

## 6. Plan

In order of importance:

1. The worker processes of the local agents (`worker.ts`): a timeout that races the answer, and the output that
   is lost by it; torn metadata and a single `run <role>` in `Workflow`.
2. The signature policy as a filter in the sessions of `InstallCommand` and `AddCommand`.
3. The audit cache as a second instance of `AiCache` with lifetimes, and the concurrent path of
   `transitive.ts` without a provider.

Theorems to prove next: the safety of what item 1 adds, a worker's timeout and its answer; and, for the liveness properties, the
part of a termination argument that is safety (a measure that no step of a review or a run increases), of which fairness then is
the only part left to TLC.
