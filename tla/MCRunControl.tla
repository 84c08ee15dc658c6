---------------------------- MODULE MCRunControl ----------------------------
(* Instances of RunControl for TLC.                                        *)
EXTENDS RunControl, TLC

RunSymmetry == Permutations(Runs)

\* All variables but starved, a record of the past that no guard and, except for
\* ElevatedCommandsHaveWorker and OnlySharersStarve, no property reads.
WithoutHistory == <<appVars, pc, pbOf, ctxDone, trace, elevVars, reqVars>>
=============================================================================
