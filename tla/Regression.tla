----------------------------- MODULE Regression -----------------------------
(***************************************************************************)
(* The evaluation and the comparison its replays end in: what replaying    *)
(* a case may find is what comparing an answer with the result may yield.  *)
(* A comparison keeps no state, so one is looked at alone.                 *)
(***************************************************************************)
EXTENDS Evaluation, Compare

RegressionNext ==
  \/ comparison = NoComparison /\ EvaluationNext /\ UNCHANGED compareVars
  \/ stage = "idle" /\ CompareStep /\ UNCHANGED evaluationVars
RegressionInit == EvaluationInit /\ CompareInit
RegressionSpec == RegressionInit /\ [][RegressionNext]_<<evaluationVars, compareVars>>
=============================================================================
