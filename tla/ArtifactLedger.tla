---------------------------- MODULE ArtifactLedger ----------------------------
(***************************************************************************)
(* The ledger of artifact digests, .targate/artifacts.json                 *)
(* (src/src/artifact-ledger.ts): a map from versions to the digest first   *)
(* installed.  It is loaded whole, extended, and written back by rename;   *)
(* nothing keeps two processes from doing so at once.                      *)
(***************************************************************************)
EXTENDS FiniteSets

CONSTANTS
  Packages,   \* name@versions, each of one registry
  Digests,    \* SHA-512 digests
  NoDigest    \* no entry; or bytes whose digest was not established

ASSUME LedgerAssumption == NoDigest \notin Digests

Ledgers == [Packages -> Digests \cup {NoDigest}]
EmptyLedger == [p \in Packages |-> NoDigest]

(* An observation of an artifact that is mutated or has no digest is skipped. *)
Recordable(observations) ==
  {p \in DOMAIN observations : ~observations[p].mutated /\ observations[p].digest # NoDigest}

(* One digest that differs from the recorded one, and the batch is refused. *)
Conflict(copy, observations) ==
  \E p \in Recordable(observations) :
    copy[p] # NoDigest /\ copy[p] # observations[p].digest

Extended(copy, observations) ==
  [p \in Packages |-> IF p \in Recordable(observations) THEN observations[p].digest ELSE copy[p]]
=============================================================================
