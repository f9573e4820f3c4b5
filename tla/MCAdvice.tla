------------------------------ MODULE MCAdvice ------------------------------
(* Instance of Advice for TLC: a workspace in a project, one dependency at two
   versions, four packages to recommend, one of them malicious and one that the
   team policy blocks.                                                       *)
EXTENDS Advice, TLC

CONSTANTS app, ui, a, b, sri1, sri2, lead, mallory

One == Version(1, 0, 0, 0)
Two == Version(2, 0, 0, 0)
Beta == Version(2, 0, 0, 1)

MCTree == {<<a, 1>>, <<b, 1>>, <<b, 2>>}
MCRoots == {Root("project", app, {}), Root("workspace", ui, {})}

Fine == [mutated |-> FALSE, malicious |-> FALSE, fetchExec |-> FALSE,
         degraded |-> FALSE, osvDown |-> FALSE, concern |-> "none"]
MCPlain == [declared |-> {}, signals |-> Fine, scripts |-> FALSE, native |-> FALSE, advisories |-> {},
            deprecated |-> FALSE, attested |-> TRUE]
MCGrave == [MCPlain EXCEPT !.signals.concern = "soft", !.scripts = TRUE, !.advisories = {"GHSA"}]
MCSnapshots == <<b, 2>> :> [malicious |-> FALSE, advisories |-> {}, deprecated |-> FALSE, attested |-> TRUE]

OpenPolicy == [lists |-> {}, asks |-> "allow"]
Offer(signals, score, policy) ==
  [signals |-> signals, score |-> score, policy |-> policy, deprecated |-> FALSE, failed |-> FALSE]
MCRegistry == <<Offer(Fine, 90, OpenPolicy), Offer(Fine, 90, OpenPolicy),
                Offer([Fine EXCEPT !.malicious = TRUE], 5, OpenPolicy),
                Offer(Fine, 95, [OpenPolicy EXCEPT !.lists = {"blockPackages"}])>>
MCSuggested == {1, 2, 3, 5}

MCSound ==
  [malicious |-> FALSE, advisories |-> [critical |-> 0, moderate |-> 0], osvUnavailable |-> FALSE,
   internalScope |-> FALSE, hooks |-> {}, scriptFindings |-> 0, degraded |-> FALSE,
   installTimeFindings |-> 0, evals |-> FALSE, minified |-> FALSE, suspiciousFiles |-> 2, age |-> "old",
   newVersion |-> FALSE, releaseGap |-> FALSE, maintainers |-> 2, maintainerChange |-> "none",
   downloads |-> "ok", lowAdoption |-> FALSE, trend |-> "stable", intel |-> "unestablished",
   repositoryMismatch |-> FALSE, repo |-> "ok", deprecated |-> FALSE,
   provenance |-> TRUE, native |-> FALSE, binaries |-> FALSE, permissions |-> 1,
   manyDependencies |-> FALSE, nativeFindings |-> 1, url |-> 1, ranges |-> {}, size |-> "small", version |-> 0, mutated |-> FALSE, fetchExec |-> FALSE]

Entry(version, integrity) == [name |-> a, version |-> version, integrity |-> integrity, depth |-> 0]
MCMaxFacts == [graph |-> 5, recommend |-> 4, score |-> 3, lockfile |-> 4, ci |-> 5]
MCLockFacts == [t \in DOMAIN MCMaxFacts |-> IF t = "lockfile" THEN 3 ELSE 0]

MCEntries == {Entry(One, i) : i \in {Absent, Empty, sri1, sri2}}
             \cup {Entry(Two, i) : i \in {sri1, sri2}} \cup {Entry(Beta, Absent)}

(* A pull request about a, of which one version has native code and another is
   a soft block, and about b, of which one fails and the other is malicious, and
   which the team knows.                                                      *)
Fetched(signals, native, fails) ==
  [signals |-> signals, native |-> native, fails |-> fails, bytes |-> sri1]
MCPublished ==
  [latest |-> (a :> Two) @@ (b :> One),
   packages |-> (<<a, One>> :> Fetched(Fine, TRUE, FALSE))
             @@ (<<a, Two>> :> Fetched([Fine EXCEPT !.concern = "soft"], FALSE, FALSE))
             @@ (<<b, One>> :> Fetched(Fine, FALSE, TRUE))
             @@ (<<b, Two>> :> Fetched([Fine EXCEPT !.malicious = TRUE], FALSE, FALSE))]

Nothing == [s \in Sections |-> [n \in {} |-> 0]]
MCEmptyPull ==
  [base |-> Nothing, head |-> Nothing, lock |-> Document("npm", <<>>), baseLock |-> Document("npm", <<>>),
   approvals |-> [k \in {} |-> 0], requireSigned |-> FALSE, signers |-> {lead}, failOnOsvError |-> TRUE,
   policy |-> (a :> OpenPolicy) @@ (b :> [OpenPolicy EXCEPT !.lists = {"allowKnownPackages"}])]

Caret == Wanted("^", One)
Star == Wanted("*", Absent)
Dev == "devDependencies"
MCChanges ==
  {<<"head", "dependencies", n, w>> : n \in {a, b}, w \in {Caret, Star}}
  \cup {<<"head", Dev, b, Wanted("=", Two)>>, <<"base", "dependencies", a, Caret>>, <<"base", Dev, b, Star>>}
Pin(name, version, integrity) == [name |-> name, version |-> version, integrity |-> integrity, depth |-> 0]
MCPins ==
  {<<"lock", Pin(a, v, sri1)>> : v \in {One, Two}}
  \cup {<<"lock", Pin(a, One, sri2)>>, <<"lock", Pin(a, One, Empty)>>, <<"lock", Pin(b, Two, Absent)>>,
        <<"baseLock", Pin(a, One, sri1)>>}
MCCommitted ==
  {<<<<a, v>>, Approval(lead, k)>> : v \in {One, Two}, k \in {<<a, One>>, <<a, Two>>}}
  \cup {<<<<a, Two>>, Approval(mallory, <<a, Two>>)>>, <<<<b, Two>>, Approval(lead, Absent)>>}
=============================================================================
