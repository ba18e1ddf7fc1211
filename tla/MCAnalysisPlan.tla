--------------------------- MODULE MCAnalysisPlan ---------------------------
(***************************************************************************)
(* Instances of AnalysisPlan for TLC: a role with one requirement and an   *)
(* analysis of it, with or without its plan.                               *)
(***************************************************************************)
EXTENDS AnalysisPlan, TLC

CONSTANTS role, need, report, plan

WithAnalysis == {role, need, report}
WithPlan == {role, need, report, plan}

Planning == Analyse \cup {"generate", "deleteRequirement"}
Tracking == {"updateStatus", "deleteTarget"}

\* Requests that have not arrived are interchangeable, and so are CV versions.
Symmetry == Permutations(Requests \ Seeded) \cup Permutations(CVs)
=============================================================================
