----------------------------- MODULE Evaluation -----------------------------
(***************************************************************************)
(* RegressionEvaluator.evaluate with a ReplayCaseRunner, and the tables it *)
(* ends in.  Each case is replayed with a fresh model; the replay and its  *)
(* divergences are saved before it is scored, in a transaction of their    *)
(* own, and the report after all of them.  Either store may be missing;    *)
(* traces may be deleted meanwhile.                                        *)
(***************************************************************************)
EXTENDS Integers, Sequences, FiniteSets, SequencesExt

CONSTANTS Traces,
          Suites,            \* sequences of cases [trace, weight]
          RepetitionCounts,
          Findings,          \* Findings[suite]: sequences of divergences its replays may report
          Saveable,          \* those of Findings that are JSON
          Full,              \* the score 1.0: a score counts in 1/Full
          Scores,            \* Scores[suite]: what the scorer may return for them
          Timings,           \* Timings[suite]: how long the runs may take, one after the other
          EngineStores       \* whether engines have a result_store: some TRUE, some FALSE

ASSUME EvaluationAssumption ==
  /\ \A suite \in Suites : suite \in Seq([trace : Traces, weight : Nat \ {0}])
  /\ RepetitionCounts \subseteq Int
  /\ \A found \in UNION Range(Findings) : found \in Seq(Range(found))
  /\ Full \in Nat \ {0} /\ UNION Range(Scores) \subseteq Int
  /\ \A timing \in UNION Range(Timings) : timing \in Seq(Nat)
  /\ EngineStores \subseteq BOOLEAN

VARIABLES stage,             \* "idle", "replaying", "saving", "scoring", "reporting",
                             \* "storing", "reported", "returned" or "raised"
          suite, repetitions,
          timings,           \* how long the runs of this one take
          found,             \* the divergences of the replay under way
          observations,
          report,
          traces,            \* rows of traces
          replayRuns,        \* rows of replay_runs, by id, with their rows of divergences
          evaluationRuns, evaluationObservations

callVars == <<suite, repetitions, timings>>
resultVars == <<traces, replayRuns>>
reportVars == <<evaluationRuns, evaluationObservations>>
evaluationVars == <<stage, callVars, found, observations, report, resultVars, reportVars>>

EvaluationInit ==
  /\ stage = "idle" /\ suite = << >> /\ repetitions = 0 /\ timings = << >>
  /\ found = << >> /\ observations = << >> /\ report = << >>
  /\ traces = Traces /\ replayRuns = << >>
  /\ evaluationRuns = {} /\ evaluationObservations = {}

\* The loops over repetitions and cases: observation n is of this case and repetition.
CaseOf(n) == suite[((n - 1) % Len(suite)) + 1]
RepetitionOf(n) == (n - 1) \div Len(suite)
Planned == Len(suite) * repetitions
Current == Len(observations) + 1

Raise == stage' = "raised"

Evaluate(cases, times, timing) ==
  /\ stage = "idle"
  /\ suite' = cases /\ repetitions' = times
  /\ timings' = timing /\ timing \in Timings[cases] /\ Len(timing) >= Len(cases) * times
  /\ stage' = IF cases = << >> \/ times < 1 THEN "raised" ELSE "replaying"
  /\ UNCHANGED <<found, observations, report, resultVars, reportVars>>

\* ReplayEngine.replay up to its result: a trace that is gone raises KeyError.
ReplayCase(divergences) ==
  /\ stage = "replaying" /\ divergences \in Findings[suite]
  /\ IF CaseOf(Current).trace \in traces
     THEN stage' = "saving" /\ found' = divergences
     ELSE Raise /\ UNCHANGED found
  /\ UNCHANGED <<callVars, observations, report, resultVars, reportVars>>

\* PostgresReplayResultStore.save: one transaction; the trace must exist and what
\* diverged must be JSON.
SaveResult ==
  /\ stage = "saving" /\ TRUE \in EngineStores
  /\ IF CaseOf(Current).trace \in traces /\ found \in Saveable
     THEN /\ replayRuns' = [id \in DOMAIN replayRuns \cup {Current} |->
                              IF id = Current THEN [trace |-> CaseOf(Current).trace,
                                                  divergences |-> found]
                              ELSE replayRuns[id]]
          /\ stage' = "scoring"
     ELSE Raise /\ UNCHANGED replayRuns
  /\ UNCHANGED <<callVars, found, observations, report, traces, reportVars>>

\* An engine that engine_factory gave no result_store.
KeepNoResult ==
  /\ stage = "saving" /\ FALSE \in EngineStores
  /\ stage' = "scoring"
  /\ UNCHANGED <<callVars, found, observations, report, resultVars, reportVars>>

\* The replay, the scorer or the cost estimator raises, or a transaction does: nothing
\* is caught, and nothing of the transaction stays.
CallRaises ==
  /\ stage \in {"replaying", "saving", "scoring", "storing"} /\ Raise
  /\ UNCHANGED <<callVars, found, observations, report, resultVars, reportVars>>

\* The rest of ReplayCaseRunner: a score outside 0 .. 1 is no Observation.
Observe(score) ==
  /\ stage = "scoring" /\ score \in Scores[suite]
  /\ IF score \in 0 .. Full
     THEN /\ observations' = Append(observations,
               [trace |-> CaseOf(Current).trace, repetition |-> RepetitionOf(Current),
                solved |-> score >= Full, score |-> score,
                duration_ms |-> timings[Current],
                replay |-> Current, divergence_count |-> Len(found)])
          /\ stage' = IF Current = Planned THEN "reporting" ELSE "replaying"
     ELSE Raise /\ UNCHANGED observations
  /\ UNCHANGED <<callVars, found, report, resultVars, reportVars>>

\* Weights by trace: the last case of a trace decides.
WeightOf(trace) ==
  LET cases == {n \in 1 .. Len(suite) : suite[n].trace = trace}
  IN  suite[CHOOSE n \in cases : \A other \in cases : other <= n].weight

Total(terms) == FoldLeft(+, 0, terms)
\* Mutant of RepeatScore: the repetition is not looked at.
RepeatScoreOfAll(r) ==
  Total([n \in 1 .. Len(observations) |->
           observations[n].score * WeightOf(observations[n].trace)])

\* repeat_scores, times total_weight.
RepeatScore(r) ==
  Total([n \in 1 .. Len(observations) |->
           IF observations[n].repetition = r
           THEN observations[n].score * WeightOf(observations[n].trace) ELSE 0])

\* How far the floating point n * 0.95 + 0.999 is from the exact one, in ten-thousandths:
\* fewer than 10, for any n below 10^12.
Rounding == -9 .. 9

Clamped(index, n) == IF index < 0 THEN 0 ELSE IF index > n - 1 THEN n - 1 ELSE index

\* Mutant of P95Index: the indices from 1.
P95FromOne(n, error) == Clamped((9500 * n + 9990 + error) \div 10000, n)

\* max(0, min(n - 1, int(n * 0.95 + 0.999) - 1)).
P95Index(n, error) == Clamped((9500 * n + 9990 + error) \div 10000 - 1, n)

Durations == {observations[n].duration_ms : n \in 1 .. Len(observations)}
AtMost(duration) ==
  Cardinality({n \in 1 .. Len(observations) : observations[n].duration_ms <= duration})

\* sorted(...)[index]: the least one that more than index of them do not exceed.
SortedAt(index) ==
  CHOOSE duration \in Durations :
    /\ index < AtMost(duration)
    /\ \A other \in Durations : other < duration => AtMost(other) <= index

SolvedCount == Cardinality({n \in 1 .. Len(observations) : observations[n].solved})
ScoreTotal == Total([n \in 1 .. Len(observations) |-> observations[n].score])

\* The report: solve_rate and mean_score times the number of observations.
Report(error) ==
  /\ stage = "reporting"
  /\ report' = [repetitions |-> repetitions, case_count |-> Len(suite),
                solve_rate |-> SolvedCount, mean_score |-> ScoreTotal,
                repeat_scores |-> [r \in 0 .. repetitions - 1 |-> RepeatScore(r)],
                p95_duration_ms |-> SortedAt(P95Index(Len(observations), error))]
  /\ stage' = "storing"
  /\ UNCHANGED <<callVars, found, observations, resultVars, reportVars>>

\* Mutant of References: columns without REFERENCES.
ReferencesUnchecked(item) == TRUE

References(item) == item.trace \in traces /\ item.replay \in DOMAIN replayRuns

\* Mutant of RolledBack: what was inserted before the refused row stays.
InsertedSoFar ==
  /\ evaluationRuns' = {report}
  /\ evaluationObservations' = {item \in Range(observations) : References(item)}

RolledBack == UNCHANGED reportVars

\* PostgresEvaluationStore.save: one transaction over two tables with foreign keys.
SaveReport ==
  /\ stage = "storing"
  /\ IF \A item \in Range(observations) : References(item)
     THEN /\ evaluationRuns' = {report} /\ evaluationObservations' = Range(observations)
          /\ stage' = "reported"
     ELSE Raise /\ RolledBack
  /\ UNCHANGED <<callVars, found, observations, report, resultVars>>

\* An evaluator without a report_store.
ReturnReport ==
  /\ stage = "storing" /\ stage' = "returned"
  /\ UNCHANGED <<callVars, found, observations, report, resultVars, reportVars>>

\* DELETE FROM traces: replay runs, divergences and observations of the trace go with
\* it.  The reference from an observation to a run does not cascade: one that would be
\* left behind makes the statement fail.
Kept(trace) == {item \in evaluationObservations : item.trace # trace}
KeptRuns(trace) == {id \in DOMAIN replayRuns : replayRuns[id].trace # trace}
Deletable(trace) == \A item \in Kept(trace) : item.replay \in KeptRuns(trace)

DeleteTrace(trace) ==
  /\ trace \in traces /\ Deletable(trace)
  /\ traces' = traces \ {trace}
  /\ replayRuns' = [id \in KeptRuns(trace) |-> replayRuns[id]]
  /\ evaluationObservations' = Kept(trace)
  /\ UNCHANGED <<stage, callVars, found, observations, report, evaluationRuns>>

EvaluationStep ==
  \/ \E cases \in Suites, times \in RepetitionCounts, timing \in UNION Range(Timings) :
       Evaluate(cases, times, timing)
  \/ \E divergences \in UNION Range(Findings) : ReplayCase(divergences)
  \/ SaveResult \/ KeepNoResult \/ CallRaises
  \/ \E score \in UNION Range(Scores) : Observe(score)
  \/ \E error \in Rounding : Report(error)
  \/ SaveReport \/ ReturnReport

EvaluationNext == EvaluationStep \/ \E trace \in Traces : DeleteTrace(trace)
EvaluationSpec == EvaluationInit /\ [][EvaluationNext]_evaluationVars
----------------------------------------------------------------------------
\* Whatever is deleted and whenever, and whether or not an engine has a store, a stored
\* observation names a stored replay of its own trace, whose divergences are as many as
\* the observation says: the three tables are written by separate transactions and
\* joined by foreign keys only.
ObservationsLinked ==
  \A item \in evaluationObservations :
    /\ item.trace \in traces /\ item.replay \in DOMAIN replayRuns
    /\ replayRuns[item.replay].trace = item.trace
    /\ Len(replayRuns[item.replay].divergences) = item.divergence_count

\* A report is stored whole or not at all: afterwards it lacks exactly the observations
\* of traces deleted since, and one that raised, because a trace or a replay is not in its
\* table or for any other reason, leaves nothing in the tables of the report.
ReportWhole ==
  IF stage = "reported"
  THEN /\ Len(observations) = Planned
       /\ evaluationObservations = {item \in Range(observations) : item.trace \in traces}
  ELSE evaluationRuns = {} /\ evaluationObservations = {}

WeightsAgree ==
  \A m, n \in 1 .. Len(suite) : suite[m].trace = suite[n].trace => suite[m].weight = suite[n].weight

OwnWeights(r) ==
  Total([n \in 1 .. Len(suite) |-> observations[r * Len(suite) + n].score * suite[n].weight])

LastWeights(r) ==
  Total([n \in 1 .. Len(suite) |->
           observations[r * Len(suite) + n].score * WeightOf(suite[n].trace)])

\* Each repetition's score counts its own observations and no others, each with the
\* weight of the last case about its trace, and so with that of its own case if no two
\* cases give one trace different weights.
RepeatScoresWeighted ==
  stage \in {"reported", "returned"} =>
    \A r \in 0 .. repetitions - 1 :
      /\ report.repeat_scores[r] = LastWeights(r)
      /\ WeightsAgree => report.repeat_scores[r] = OwnWeights(r)

\* The p95 is a measured duration, the least that 95% of those measured do not exceed,
\* however they are ordered and many: with twenty it is not the largest any more.
P95IsNearestRank ==
  stage \in {"storing", "reported", "returned"} =>
    LET p95 == report.p95_duration_ms  n == Len(observations) IN
    /\ p95 \in Durations /\ 100 * AtMost(p95) >= 95 * n
    /\ \A other \in Durations : other < p95 => 100 * AtMost(other) < 95 * n
=============================================================================
