----------------------------- MODULE MCAnalysisRun -----------------------------
(* Values for the model checking of AnalysisRun: an analysis of monitored objects
   that is executed twice for the same date, and one of a grid that is stored to the
   same URI. *)
EXTENDS AnalysisRun, TLC

CONSTANTS e1, e2, e3, a1, a2, d1, u1

MCRuns == {e1, e2, e3}
MCAnalysis == e1 :> a1 @@ e2 :> a1 @@ e3 :> a2
MCDate == [r \in MCRuns |-> d1]
MCSize == a1 :> 3 @@ a2 :> 1
MCGrids == {a2}
MCTarget == a1 :> u1 @@ a2 :> u1
=============================================================================
