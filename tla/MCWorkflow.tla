----------------------------- MODULE MCWorkflow -----------------------------
(* Instances of Workflow for TLC. *)
EXTENDS Workflow

Small == [grave |-> FALSE, dependency |-> FALSE, destructive |-> FALSE,
          uncertain |-> FALSE, explanatory |-> FALSE, files |-> "few"]
Grave == [Small EXCEPT !.grave = TRUE]

MCSignals == {Small, Grave}
MCFlows == {<<>>, <<"reviewer", "tester">>}
ReviewFlows == {<<"reviewer">>}
=============================================================================
