------------------------------- MODULE AiCache -------------------------------
(***************************************************************************)
(* A file of AI answers: src/src/ai-cache.ts, and with longer-lived        *)
(* findings under other keys src/src/source-audit-cache.ts.                *)
(*                                                                         *)
(* A key names the whole context an answer was given in: here the package  *)
(* and its signals, for one provider, model and endpoint.  The file is a   *)
(* function from keys to entries; it is read whole and replaced by rename. *)
(***************************************************************************)
EXTENDS FiniteSets

(* CacheKeyInput: any change of the signals makes another key. *)
CacheKey(package, signals) == [package |-> package, signals |-> signals]

Entry(answer) == [answer |-> answer, fresh |-> TRUE]

(* AiCacheSettings; refresh is --no-cache, which ignores but still writes. *)
Settings(Packages) == [enabled: BOOLEAN, refresh: BOOLEAN, exclude: SUBSET Packages]

(* readCachedAssessment: a missing, malformed, expired or excluded entry is
   a miss.                                                                   *)
Hit(file, key, settings) ==
  /\ settings.enabled /\ ~settings.refresh
  /\ key.package \notin settings.exclude
  /\ key \in DOMAIN file
  /\ file[key].fresh

(* What writeCachedAssessments leaves: what it read, without the expired
   entries, and the answers it was given, without those of excluded packages. *)
Eligible(answers, settings) ==
  {key \in DOMAIN answers : settings.enabled /\ key.package \notin settings.exclude}

Written(file, answers, settings) ==
  LET kept == {key \in DOMAIN file : file[key].fresh}
      new  == Eligible(answers, settings)
  IN [key \in kept \cup new |-> IF key \in new THEN Entry(answers[key]) ELSE file[key]]
=============================================================================
