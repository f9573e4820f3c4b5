---------------------------- MODULE MCTrustStore ----------------------------
(* Instance of TrustStore for TLC: two versions of one package. *)
EXTENDS TrustStore, TLC

CONSTANTS v1, v2, n1, a, b

MCNameOf == (v1 :> n1) @@ (v2 :> n1)
MCCommitted == {Nobody, (v1 :> "normal") @@ (v2 :> "none")}
MCNothing == {Nobody}

(* One process that runs to its end. *)
NoCrashNext == \E i \in Procs :
  \/ StartTriage(i) \/ StartPick(i) \/ StartVouch(i)
  \/ \E c \in [Versions -> Choices] : Decide(i, c)
  \/ \E v \in Versions : TakeUp(i, v)
  \/ Read(i) \/ Store(i) \/ Finish(i)
SequentialSpec == Init /\ [][NoCrashNext]_vars
=============================================================================
