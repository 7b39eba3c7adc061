-------------------------- MODULE EvaluationProofs --------------------------
(***************************************************************************)
(* The tables of an evaluation, for any suites, findings, scores and       *)
(* deletions; the rank of the p95, for any number of observations; and the *)
(* comparison of any two values, at any depth.                             *)
(***************************************************************************)
EXTENDS Regression, SequenceTheorems, FiniteSetTheorems, WellFoundedInduction, TLAPS

Observation ==
  [trace : Traces, repetition : Int, solved : BOOLEAN, score : 0 .. Full,
   duration_ms : Nat, replay : Nat, divergence_count : Nat]

Busy == stage \in {"replaying", "saving", "scoring"}
Finished == stage \in {"reporting", "storing", "reported", "returned"}

Types ==
  /\ stage \in {"idle", "replaying", "saving", "scoring", "reporting", "storing",
                "reported", "returned", "raised"}
  /\ suite \in Seq([trace : Traces, weight : Nat \ {0}]) /\ repetitions \in Int
  /\ timings \in Seq(Nat) /\ observations \in Seq(Observation)
  /\ Len(found) \in Nat
  /\ traces \subseteq Traces

\* How far the loops are.
Progress ==
  /\ stage = "idle" => observations = << >>
  /\ Busy \/ Finished => suite # << >> /\ repetitions >= 1
  /\ Busy => Len(observations) < Planned /\ Planned <= Len(timings)
  /\ Finished => Len(observations) = Planned

\* If there is a row id of replay_runs, it is what an observation says of it.
Matches(id, trace, count) ==
  id \in DOMAIN replayRuns =>
    replayRuns[id].trace = trace /\ Len(replayRuns[id].divergences) = count

\* So it is for each observation, and for the one about to be made, which has no row
\* before its replay is saved.
Saved ==
  /\ \A n \in 1 .. Len(observations) :
       /\ observations[n].replay = n
       /\ Matches(n, observations[n].trace, observations[n].divergence_count)
  /\ stage = "scoring" => Matches(Current, CaseOf(Current).trace, Len(found))
  /\ stage # "scoring" /\ stage # "raised" => Current \notin DOMAIN replayRuns
  /\ \A id \in DOMAIN replayRuns : id \in 1 .. Current

\* Rows of a report that was stored have their replays.
Referred ==
  stage = "reported" =>
    \A n \in 1 .. Len(observations) :
      observations[n].trace \in traces => n \in DOMAIN replayRuns

Ranked ==
  stage \in {"storing", "reported", "returned"} =>
    \E error \in Rounding : report.p95_duration_ms = SortedAt(P95Index(Len(observations), error))

EInv == Types /\ Progress /\ Saved /\ Referred /\ Ranked /\ ReportWhole

\* The loops stay inside the suite.
LEMMA CaseTyped ==
  ASSUME Types, Progress, Busy
  PROVE  /\ Len(suite) \in Nat \ {0} /\ Current \in Nat \ {0}
         /\ CaseOf(Current) \in [trace : Traces, weight : Nat \ {0}]
         /\ RepetitionOf(Current) \in Int
<1>1. Len(suite) \in Nat \ {0} /\ Current \in Nat \ {0}
  BY DEF Types, Progress, Current
<1> DEFINE i == ((Current - 1) % Len(suite)) + 1
<1>2. i \in 1 .. Len(suite) /\ (Current - 1) \div Len(suite) \in Int
  BY <1>1
<1>3. suite[i] \in [trace : Traces, weight : Nat \ {0}]
  <2>1. suite \in Seq([trace : Traces, weight : Nat \ {0}])
    BY DEF Types
  <2> HIDE DEF i
  <2> QED BY <1>2, <2>1, ElementOfSeq
<1> QED BY <1>1, <1>2, <1>3 DEF CaseOf, RepetitionOf

LEMMA TimingTyped ==
  ASSUME Types, Progress, Busy
  PROVE  timings[Current] \in Nat
<1>1. Planned \in Int /\ Len(timings) \in Nat /\ Len(observations) \in Nat
  BY DEF Types, Progress, Planned
<1>2. Current \in 1 .. Len(timings)
  BY <1>1 DEF Progress, Current
<1> QED BY <1>2, ElementOfSeq DEF Types

\* A report stays the one made of the observations, while neither changes.
LEMMA RankKept ==
  ASSUME Ranked, UNCHANGED <<report, observations>>,
         stage' \in {"storing", "reported", "returned"} =>
           stage \in {"storing", "reported", "returned"}
  PROVE  Ranked'
<1>1. \A index : SortedAt(index)' = SortedAt(index)
  BY DEF SortedAt, Durations, AtMost
<1> QED BY <1>1 DEF Ranked

LEMMA EInit == EvaluationInit => EInv
<1> SUFFICES ASSUME EvaluationInit PROVE EInv
  OBVIOUS
<1> QED BY DEF EvaluationInit, EInv, Types, Progress, Saved, Referred, Ranked, ReportWhole, Busy,
           Finished, Current

LEMMA EvaluateKeeps ==
  ASSUME EInv, NEW cases \in Suites, NEW times \in RepetitionCounts, NEW timing \in UNION Range(Timings),
         Evaluate(cases, times, timing)
  PROVE  EInv'
<1>1. Types'
  BY EvaluationAssumption DEF EInv, Types, Evaluate, callVars, resultVars, reportVars
<1>2. observations' = observations /\ stage = "idle" /\ stage' \in {"raised", "replaying"}
  BY DEF Evaluate
<1>3. Progress'
  <2>1. CASE cases = << >> \/ times < 1
    BY <2>1, <1>2 DEF Evaluate, Progress, Busy, Finished
  <2>2. CASE cases # << >> /\ times >= 1
    <3>1. Len(cases) \in Nat \ {0} /\ times \in Nat \ {0}
      BY <2>2, EvaluationAssumption
    <3>2. Len(cases) * times >= 1
      BY <3>1
    <3>3. Len(observations) = 0
      BY <1>2 DEF EInv, Progress
    <3>4. /\ Planned' >= 1 /\ suite' # << >> /\ repetitions' >= 1
          /\ stage' = "replaying" /\ Len(observations') < Planned'
          /\ Planned' <= Len(timings')
      BY <2>2, <1>2, <3>1, <3>2, <3>3 DEF Evaluate, Planned
    <3> QED BY <3>4 DEF Progress, Busy, Finished
  <2> QED BY <2>1, <2>2, EvaluationAssumption
<1>4. Ranked'
  BY <1>2 DEF Ranked
<1> QED
  BY <1>1, <1>2, <1>3, <1>4 DEF EInv, Evaluate, callVars, resultVars, reportVars, Progress, Saved, Matches,
     Referred, ReportWhole, Current

LEMMA ReplayKeeps ==
  ASSUME EInv, NEW divergences \in UNION Range(Findings), ReplayCase(divergences)
  PROVE  EInv'
<1>1. Len(divergences) \in Nat
  BY EvaluationAssumption
<1>2. Types'
  BY <1>1 DEF EInv, Types, ReplayCase, callVars, resultVars, reportVars, Raise
<1>3. Ranked'
  BY DEF ReplayCase, Ranked, Raise
<1> QED BY <1>2, <1>3 DEF EInv, ReplayCase, callVars, resultVars, reportVars, Raise, Types, Progress,
           Saved, Referred, ReportWhole, Busy, Finished, Planned, CaseOf, Matches, Current

LEMMA SaveResultKeeps ==
  ASSUME EInv, SaveResult
  PROVE  EInv'
<1> USE DEF callVars, resultVars, reportVars, Raise
<1>1. Types' /\ Progress' /\ Referred' /\ Ranked' /\ ReportWhole'
  BY DEF EInv, SaveResult, Types, Progress, Referred, Ranked, ReportWhole, Busy, Finished, Planned
<1>2. Saved'
  <2>1. CASE UNCHANGED replayRuns /\ stage' = "raised"
    BY <2>1 DEF EInv, SaveResult, Saved, Matches, Current
  <2>2. CASE /\ replayRuns' = [id \in DOMAIN replayRuns \cup {Current} |->
                                IF id = Current THEN [trace |-> CaseOf(Current).trace,
                                                      divergences |-> found]
                                ELSE replayRuns[id]]
             /\ stage' = "scoring"
    <3>1. ASSUME NEW n \in 1 .. Len(observations), Matches(n, observations[n].trace,
                                                            observations[n].divergence_count)
          PROVE  Matches(n, observations[n].trace, observations[n].divergence_count)'
      <4>1. n # Current
        BY DEF Current, EInv, Types
      <4> QED BY <2>2, <3>1, <4>1 DEF SaveResult, Matches
    <3>2. Matches(Current, CaseOf(Current).trace, Len(found))'
      BY <2>2 DEF SaveResult, Matches, Current, CaseOf
    <3>3. \A id \in DOMAIN replayRuns' : id \in 1 .. Current
      BY <2>2 DEF EInv, Types, Saved, Current
    <3> QED BY <2>2, <3>1, <3>2, <3>3 DEF EInv, SaveResult, Saved, Current
  <2> QED BY <2>1, <2>2 DEF SaveResult
<1> QED BY <1>1, <1>2 DEF EInv

LEMMA KeepNoResultKeeps ==
  ASSUME EInv, KeepNoResult
  PROVE  EInv'
<1>1. Ranked'
  BY DEF KeepNoResult, Ranked
<1> QED BY <1>1 DEF EInv, KeepNoResult, callVars, resultVars, reportVars, Types, Progress, Saved,
           Referred, ReportWhole, Busy, Finished, Planned, CaseOf, Matches, Current

LEMMA CallRaisesKeeps ==
  ASSUME EInv, CallRaises
  PROVE  EInv'
<1>1. Ranked'
  BY DEF CallRaises, Ranked, Raise
<1> QED BY <1>1 DEF EInv, CallRaises, Raise, callVars, resultVars, reportVars, Types, Progress, Saved,
           Referred, ReportWhole, Busy, Finished, Planned, CaseOf, Matches, Current

LEMMA ObserveKeeps ==
  ASSUME EInv, NEW score \in UNION Range(Scores), Observe(score)
  PROVE  EInv'
<1> USE DEF callVars, resultVars, reportVars, Raise
<1>1. CASE score \notin 0 .. Full
  BY <1>1 DEF EInv, Observe, Types, Progress, Saved, Referred, Ranked, ReportWhole, Busy, Finished,
     Planned, CaseOf, Current, Matches
<1>2. CASE score \in 0 .. Full
  <2> DEFINE item == [trace |-> CaseOf(Current).trace, repetition |-> RepetitionOf(Current),
                      solved |-> score >= Full, score |-> score,
                      duration_ms |-> timings[Current], replay |-> Current, divergence_count |-> Len(found)]
  <2>1. Types /\ Progress /\ Saved /\ Busy
    BY DEF EInv, Observe, Busy
  <2>2. item \in Observation
    <3>1. CaseOf(Current).trace \in Traces
      BY CaseTyped, <2>1
    <3> QED BY CaseTyped, TimingTyped, <2>1, <1>2, <3>1 DEF Observation, Types
  <2>3. observations' = Append(observations, item)
    BY <1>2 DEF Observe
  <2> HIDE DEF item
  <2>4. /\ observations' \in Seq(Observation) /\ Len(observations') = Current
        /\ \A n \in 1 .. Len(observations) : observations'[n] = observations[n]
        /\ observations'[Current] = item
    BY <2>1, <2>2, <2>3 DEF Types, Current
  <2>5. Types'
    BY <2>4, <2>1 DEF Observe, Types
  <2>6. Progress'
    <3>1. Planned' = Planned /\ Current \in Nat /\ Current <= Planned
      BY <2>1, CaseTyped DEF Observe, Planned, Progress, Current, Types
    <3>2. UNCHANGED <<suite, repetitions, timings>> /\ suite # << >> /\ repetitions >= 1
      BY <2>1 DEF Observe, Progress
    <3>3. stage' = IF Current = Planned THEN "reporting" ELSE "replaying"
      BY <1>2 DEF Observe
    <3>4. Len(observations') = Current /\ Planned \in Int /\ Planned <= Len(timings)
      BY <2>1, <2>4 DEF Progress, Planned, Types
    <3> QED BY <3>1, <3>2, <3>3, <3>4 DEF Progress, Busy, Finished
  <2>7. Saved'
    <3>1. ASSUME NEW n \in 1 .. Len(observations')
          PROVE  /\ observations'[n].replay = n
                 /\ Matches(n, observations'[n].trace, observations'[n].divergence_count)
      <4>1. CASE n = Current
        BY <4>1, <2>1, <2>4 DEF item, Observe, Saved
      <4>2. CASE n # Current
        <5>1. n \in 1 .. Len(observations)
          BY <4>2, <2>4, <2>1 DEF Current, Types
        <5> QED BY <5>1, <2>4, <2>1 DEF Saved
      <4> QED BY <4>1, <4>2
    <3>2. traces' = traces /\ replayRuns' = replayRuns /\ stage' # "scoring"
      BY <1>2 DEF Observe
    <3>3. /\ Current' = Current + 1 /\ Current \in Nat
          /\ \A id \in DOMAIN replayRuns : id \in 1 .. Current
      BY <2>1, <2>4, CaseTyped DEF Saved, Current
    <3>4. Current' \notin DOMAIN replayRuns /\ \A id \in DOMAIN replayRuns : id \in 1 .. Current'
      BY <3>3
    <3> QED BY <3>1, <3>2, <3>4 DEF Saved, Matches
  <2> QED BY <1>2, <2>5, <2>6, <2>7 DEF EInv, Observe, Referred, Ranked, ReportWhole
<1> QED BY <1>1, <1>2

LEMMA ReportKeeps ==
  ASSUME EInv, NEW error \in Rounding, Report(error)
  PROVE  EInv'
<1> USE DEF callVars, resultVars, reportVars
<1>1. /\ report'.p95_duration_ms = SortedAt(P95Index(Len(observations), error))
      /\ observations' = observations /\ stage = "reporting" /\ stage' = "storing"
  BY DEF Report
<1>2. Ranked'
  <2>1. \A index : SortedAt(index)' = SortedAt(index)
    BY <1>1 DEF SortedAt, Durations, AtMost
  <2> QED BY <1>1, <2>1 DEF Ranked
<1> QED BY <1>1, <1>2 DEF EInv, Report, Types, Progress, Saved, Matches, Referred, ReportWhole,
           Busy, Finished, Planned, Current

\* What is stored is every observation, and each of their traces is there.
LEMMA SaveReportKeeps ==
  ASSUME EInv, SaveReport
  PROVE  EInv'
<1> USE DEF callVars, resultVars, reportVars, Raise, RolledBack
<1>1. Types' /\ Progress' /\ Saved'
  BY DEF EInv, SaveReport, Types, Progress, Saved, Matches, Busy, Finished, Planned, Current
<1>2. ReportWhole'
  <2>1. CASE \A item \in Range(observations) : References(item)
    BY <2>1 DEF EInv, SaveReport, ReportWhole, References, Progress, Finished, Planned
  <2>2. CASE ~ \A item \in Range(observations) : References(item)
    BY <2>2 DEF EInv, SaveReport, ReportWhole
  <2> QED BY <2>1, <2>2
<1>3. Referred'
  <2>1. SUFFICES ASSUME stage' = "reported", NEW n \in 1 .. Len(observations)
                 PROVE  n \in DOMAIN replayRuns
    BY DEF SaveReport, Referred
  <2>2. observations[n] \in Range(observations) /\ observations[n].replay = n
    BY DEF EInv, Saved, Types, Range
  <2>3. References(observations[n])
    BY <2>1, <2>2 DEF SaveReport
  <2> QED BY <2>2, <2>3 DEF References
<1>4. Ranked'
  BY RankKept DEF EInv, SaveReport
<1> QED BY <1>1, <1>2, <1>3, <1>4 DEF EInv

LEMMA ReturnReportKeeps ==
  ASSUME EInv, ReturnReport
  PROVE  EInv'
<1>1. Ranked'
  BY RankKept DEF EInv, ReturnReport
<1> QED BY <1>1 DEF EInv, ReturnReport, callVars, resultVars, reportVars, Types, Progress, Saved, Referred,
           ReportWhole, Busy, Finished, Planned, CaseOf, Matches, Current

LEMMA DeleteKeeps ==
  ASSUME EInv, NEW trace \in Traces, DeleteTrace(trace)
  PROVE  EInv'
<1> USE DEF callVars, resultVars, reportVars
<1>1. Types' /\ Progress'
  BY DEF EInv, DeleteTrace, Types, Progress, Busy, Finished, Planned
<1>2. \A id \in DOMAIN replayRuns :
        replayRuns[id].trace # trace => id \in DOMAIN replayRuns' /\ replayRuns'[id] = replayRuns[id]
  BY DEF DeleteTrace, KeptRuns
<1>3. Saved'
  <2>1. /\ UNCHANGED <<stage, suite, observations, found>> /\ traces' = traces \ {trace}
        /\ CaseOf(Current)' = CaseOf(Current) /\ Current' = Current
    BY DEF DeleteTrace, CaseOf, Current
  <2>2. \A id \in DOMAIN replayRuns' : id \in DOMAIN replayRuns /\ replayRuns'[id] = replayRuns[id]
    BY DEF DeleteTrace, KeptRuns
  <2> QED BY <2>1, <2>2 DEF EInv, Saved, Matches
<1>4. ReportWhole'
  BY DEF EInv, DeleteTrace, ReportWhole, Kept, Planned
<1>5. Referred'
  <2>1. SUFFICES ASSUME stage = "reported", NEW n \in 1 .. Len(observations),
                        observations[n].trace \in traces \ {trace}
                 PROVE  n \in DOMAIN replayRuns'
    BY DEF DeleteTrace, Referred
  <2>2. n \in DOMAIN replayRuns /\ replayRuns[n].trace = observations[n].trace
    BY <2>1 DEF EInv, Referred, Saved, Matches
  <2> QED BY <1>2, <2>1, <2>2
<1>6. Ranked'
  BY RankKept DEF EInv, DeleteTrace
<1> QED BY <1>1, <1>3, <1>4, <1>5, <1>6 DEF EInv

LEMMA ENext ==
  ASSUME EInv, [EvaluationNext]_evaluationVars
  PROVE  EInv'
<1>1. CASE UNCHANGED evaluationVars
  <2>1. Ranked'
    BY <1>1, RankKept DEF evaluationVars, EInv
  <2> QED BY <1>1, <2>1 DEF evaluationVars, callVars, resultVars, reportVars, EInv, Types, Progress,
     Saved, Matches, Referred, ReportWhole, Busy, Finished, Planned, Current, CaseOf
<1>2. CASE EvaluationStep
  BY <1>2, EvaluateKeeps, ReplayKeeps, SaveResultKeeps, KeepNoResultKeeps, CallRaisesKeeps, ObserveKeeps,
     ReportKeeps, SaveReportKeeps, ReturnReportKeeps DEF EvaluationStep
<1>3. CASE \E trace \in Traces : DeleteTrace(trace)
  BY <1>3, DeleteKeeps
<1> QED BY <1>1, <1>2, <1>3 DEF EvaluationNext

LEMMA EInvLinked == EInv => ObservationsLinked /\ \A trace \in traces : Deletable(trace)
<1> SUFFICES ASSUME EInv PROVE ObservationsLinked /\ \A trace \in traces : Deletable(trace)
  OBVIOUS
<1>1. \A item \in evaluationObservations :
        /\ stage = "reported" /\ item.trace \in traces
        /\ \E n \in 1 .. Len(observations) : item = observations[n]
  BY DEF EInv, ReportWhole, Range, Types
<1>2. ObservationsLinked
  BY <1>1 DEF EInv, Saved, Referred, Matches, ObservationsLinked
<1> QED BY <1>2 DEF ObservationsLinked, Deletable, Kept, KeptRuns

LEMMA EvaluationInvariant == EvaluationSpec => []EInv
<1> QED BY EInit, ENext, PTL DEF EvaluationSpec

\* A stored observation always names a stored replay of its own trace with as many
\* divergences as it says: deletion and the separate transactions of replays and report
\* never part them.
THEOREM Linked == EvaluationSpec => []ObservationsLinked
<1> QED BY EvaluationInvariant, EInvLinked, PTL

\* Reports are stored whole or not at all, and lose what deletion cascades to only.
THEOREM Whole == EvaluationSpec => []ReportWhole
<1>1. EInv => ReportWhole
  BY DEF EInv
<1> QED BY <1>1, EvaluationInvariant, PTL

\* The foreign key without a cascade never refuses the deletion of a trace.
THEOREM DeletionNeverRefused == EvaluationSpec => [](\A trace \in traces : Deletable(trace))
<1> QED BY EvaluationInvariant, EInvLinked, PTL

----------------------------------------------------------------------------
\* Sums.  What FoldLeft computes is a function on the sets of indices; it exists because
\* it does for the first k indices, for every k: the least k for which it did not would
\* have a predecessor.

LEMMA LeastOf ==
  ASSUME NEW T \in SUBSET Nat, T # {}
  PROVE  \E x \in T : \A y \in T : x <= y
<1>1. PICK x \in T : \A y \in T : ~(<<y, x>> \in OpToRel(<, Nat))
  BY WFMin, NatLessThanWellFounded, Zenon
<1>2. \A y \in T : ~(y < x)
  <2>1. \A y \in T : y < x => <<y, x>> \in OpToRel(<, Nat)
    BY Zenon DEF OpToRel
  <2> QED
    BY <1>1, <2>1
<1> QED
  BY <1>2

\* max(0, min(n - 1, int(n * 0.95 + 0.999) - 1)), whichever way the floating point errs, is
\* the least index such that 95% of n sorted durations are at it or before; neither clamp
\* matters.
THEOREM P95Rank ==
  \A n \in Nat \ {0}, error \in Rounding :
    LET index == P95Index(n, error) IN
    /\ index \in 0 .. n - 1
    /\ 100 * (index + 1) >= 95 * n /\ 100 * index < 95 * n
<1> SUFFICES ASSUME NEW n \in Nat \ {0}, NEW error \in Rounding
             PROVE  /\ P95Index(n, error) \in 0 .. n - 1
                    /\ 100 * (P95Index(n, error) + 1) >= 95 * n /\ 100 * P95Index(n, error) < 95 * n
  OBVIOUS
<1> DEFINE q == (9500 * n + 9990 + error) \div 10000
<1>1. /\ q \in Int /\ error \in Int /\ -9 <= error /\ error <= 9
      /\ 10000 * q <= 9500 * n + 9990 + error /\ 9500 * n + 9990 + error < 10000 * q + 10000
  BY DEF Rounding
<1>2. P95Index(n, error) = Clamped(q - 1, n)
  BY DEF P95Index
<1> HIDE DEF q
<1>3. 20 * q <= 19 * n + 19 /\ 20 * q >= 19 * n
  BY <1>1
<1>4. q >= 1 /\ q <= n
  BY <1>1, <1>3
<1>5. P95Index(n, error) = q - 1
  BY <1>1, <1>2, <1>4 DEF Clamped
<1> QED BY <1>1, <1>3, <1>4, <1>5

LEMMA AtMostTyped ==
  ASSUME Len(observations) \in Nat
  PROVE  \A duration \in Durations : AtMost(duration) \in Nat
<1>1. IsFiniteSet(1 .. Len(observations))
  BY FS_Interval
<1> QED BY <1>1, FS_Subset, FS_CardinalityType DEF AtMost

\* The largest of the first k values, which exists for every k: the least k for which it
\* did not would have a predecessor.
LEMMA LargestOf ==
  ASSUME NEW f, NEW k \in Nat \ {0}, \A n \in 1 .. k : f[n] \in Nat
  PROVE  \E m \in 1 .. k : \A n \in 1 .. k : f[n] <= f[m]
<1> DEFINE Without == {j \in Nat : j \in 1 .. k /\ ~ \E m \in 1 .. j : \A n \in 1 .. j : f[n] <= f[m]}
<1>1. SUFFICES ASSUME ~ \E m \in 1 .. k : \A n \in 1 .. k : f[n] <= f[m] PROVE FALSE
  OBVIOUS
<1>2. Without # {}
  <2>1. k \in Without
    BY <1>1
  <2> QED BY <2>1
<1>3. PICK j \in Without : \A other \in Without : j <= other
  <2>1. Without \in SUBSET Nat
    OBVIOUS
  <2> HIDE DEF Without
  <2> QED BY <1>2, <2>1, LeastOf
<1>4. CASE j = 1
  BY <1>3, <1>4
<1>5. CASE j > 1
  <2>1. j \in Nat /\ j - 1 \in Nat /\ j - 1 \in 1 .. k /\ ~(j <= j - 1)
    BY <1>3, <1>5
  <2>2. j - 1 \notin Without
    BY <1>3, <2>1
  <2>3. PICK m \in 1 .. j - 1 : \A n \in 1 .. j - 1 : f[n] <= f[m]
    BY <2>1, <2>2
  <2>4. f[j] \in Nat /\ f[m] \in Nat /\ \A n \in 1 .. j : n = j \/ n \in 1 .. j - 1
    BY <1>3, <2>1, <2>3
  <2>5. \A n \in 1 .. j - 1 : f[n] \in Nat
    BY <1>3, <2>1
  <2>6. CASE f[j] <= f[m]
    <3>1. m \in 1 .. j /\ \A n \in 1 .. j : f[n] <= f[m]
      BY <2>1, <2>3, <2>6, <2>4
    <3> QED BY <1>3, <3>1
  <2>7. CASE f[j] > f[m]
    <3>1. j \in 1 .. j /\ \A n \in 1 .. j : f[n] <= f[j]
      BY <2>1, <2>3, <2>7, <2>4, <2>5
    <3> QED BY <1>3, <3>1
  <2> QED BY <2>6, <2>7, <2>4
<1> QED BY <1>3, <1>4, <1>5

\* What sorted(...)[index] is: the durations that are not above the largest are all of them,
\* so there are durations that more than index do not exceed, and a least one of them.
LEMMA SortedIs ==
  ASSUME observations \in Seq(Observation), NEW index \in 0 .. Len(observations) - 1
  PROVE  /\ SortedAt(index) \in Durations /\ index < AtMost(SortedAt(index))
         /\ \A other \in Durations : other < SortedAt(index) => AtMost(other) <= index
<1>1. ASSUME NEW n \in 1 .. Len(observations) PROVE observations[n].duration_ms \in Nat
  <2>1. observations[n] \in Observation
    BY ElementOfSeq
  <2> QED BY <2>1 DEF Observation
<1>2. Len(observations) \in Nat /\ Len(observations) >= 1 /\ index \in Nat
  OBVIOUS
<1>3. Durations \in SUBSET Nat
  BY <1>1 DEF Durations
<1>4. \A duration \in Durations : AtMost(duration) \in Nat
  BY <1>2, AtMostTyped
<1> DEFINE Enough == {duration \in Durations : index < AtMost(duration)}
<1>5. PICK top \in Durations : \A other \in Durations : other <= top
  <2> DEFINE measured == [n \in 1 .. Len(observations) |-> observations[n].duration_ms]
  <2>1. \A n \in 1 .. Len(observations) : measured[n] \in Nat
    BY <1>1
  <2> HIDE DEF measured
  <2>2. Len(observations) \in Nat \ {0}
    BY <1>2
  <2>3. PICK m \in 1 .. Len(observations) :
           \A n \in 1 .. Len(observations) : measured[n] <= measured[m]
    BY <2>1, <2>2, LargestOf
  <2> QED BY <2>3 DEF measured, Durations
<1>6. top \in Enough
  <2>1. {n \in 1 .. Len(observations) : observations[n].duration_ms <= top} = 1 .. Len(observations)
    BY <1>5 DEF Durations
  <2>2. AtMost(top) = Len(observations)
    <3>1. Cardinality(1 .. Len(observations)) = Len(observations)
      BY <1>2, FS_Interval
    <3> QED BY <2>1, <3>1 DEF AtMost
  <2> QED BY <1>2, <1>5, <2>2
<1>7. PICK least \in Enough : \A other \in Enough : least <= other
  <2>1. Enough \in SUBSET Nat /\ Enough # {}
    BY <1>3, <1>6
  <2> HIDE DEF Enough
  <2> QED BY <2>1, LeastOf
<1>8. /\ least \in Durations /\ index < AtMost(least)
      /\ \A other \in Durations : other < least => AtMost(other) <= index
  BY <1>2, <1>3, <1>4, <1>7
<1> QED BY <1>8 DEF SortedAt

LEMMA EInvRanked == EInv => P95IsNearestRank
<1> SUFFICES ASSUME EInv, stage \in {"storing", "reported", "returned"}
             PROVE  LET p95 == report.p95_duration_ms  n == Len(observations) IN
                    /\ p95 \in Durations /\ 100 * AtMost(p95) >= 95 * n
                    /\ \A other \in Durations : other < p95 => 100 * AtMost(other) < 95 * n
  BY DEF P95IsNearestRank
<1>1. Len(observations) \in Nat \ {0} /\ observations \in Seq(Observation)
  <2>1. /\ Len(suite) \in Nat \ {0} /\ repetitions \in Nat \ {0}
        /\ Len(observations) = Len(suite) * repetitions
    BY DEF EInv, Types, Progress, Finished, Planned
  <2> QED BY <2>1 DEF EInv, Types
<1>2. PICK error \in Rounding : report.p95_duration_ms = SortedAt(P95Index(Len(observations), error))
  BY DEF EInv, Ranked
<1> DEFINE index == P95Index(Len(observations), error)
<1>3. /\ index \in 0 .. Len(observations) - 1
      /\ 100 * (index + 1) >= 95 * Len(observations) /\ 100 * index < 95 * Len(observations)
  BY <1>1, P95Rank
<1> HIDE DEF index
<1>4. /\ SortedAt(index) \in Durations /\ index < AtMost(SortedAt(index))
      /\ \A other \in Durations : other < SortedAt(index) => AtMost(other) <= index
  BY <1>1, <1>3, SortedIs
<1>5. \A duration \in Durations : AtMost(duration) \in Nat
  BY <1>1, AtMostTyped
<1>6. report.p95_duration_ms = SortedAt(index)
  BY <1>2 DEF index
<1> QED BY <1>1, <1>3, <1>4, <1>5, <1>6

\* The p95 of every report is the nearest rank of the durations measured, for any number
\* of observations and whatever they took.
THEOREM RankedReports == EvaluationSpec => []P95IsNearestRank
<1> QED BY EvaluationInvariant, EInvRanked, PTL

LEMMA MaxOf ==
  ASSUME NEW k \in Nat, NEW s \in SUBSET (1 .. k), s # {}
  PROVE  Max(s) \in s /\ \A y \in s : Max(s) >= y
<1> DEFINE T == {x \in Nat : k - x \in s}
<1>1. T # {}
  <2>1. PICK y : y \in s
    OBVIOUS
  <2>2. k - y \in T
    BY <2>1
  <2> QED
    BY <2>2
<1>2. PICK x \in T : \A y \in T : x <= y
  <2>1. T \in SUBSET Nat
    OBVIOUS
  <2> HIDE DEF T
  <2> QED
    BY <1>1, <2>1, LeastOf
<1>3. k - x \in s /\ \A y \in s : k - x >= y
  <2>1. ASSUME NEW y \in s PROVE k - x >= y
    <3>1. k - y \in T
      BY <2>1
    <3> QED
      BY <1>2, <3>1
  <2> QED
    BY <1>2, <2>1
<1> QED
  BY <1>3 DEF Max

\* The function of FoldLeft on the subsets of the first k indices.
Folding(it, f, k) ==
  it = [s \in SUBSET (1 .. k) |->
          IF s = {} THEN 0 ELSE it[s \ {Max(s)}] + f[Max(s)]]

LEMMA FoldingFrom ==
  ASSUME NEW f, NEW k \in Nat, NEW before, Folding(before, f, k)
  PROVE  \E it : Folding(it, f, k + 1)
<1> DEFINE it == [s \in SUBSET (1 .. k + 1) |->
                    IF k + 1 \in s THEN before[s \ {k + 1}] + f[k + 1] ELSE before[s]]
<1>1. before[{}] = 0
  BY DEF Folding
<1>2. ASSUME NEW s \in SUBSET (1 .. k + 1)
      PROVE  it[s] = IF s = {} THEN 0 ELSE it[s \ {Max(s)}] + f[Max(s)]
  <2>1. CASE s = {}
    BY <1>1, <2>1
  <2>2. CASE s # {} /\ k + 1 \notin s
    <3>1. s \in SUBSET (1 .. k)
      BY <2>2
    <3>2. Max(s) \in s
      BY <2>2, <3>1, MaxOf
    <3>3. before[s] = before[s \ {Max(s)}] + f[Max(s)]
      BY <2>2, <3>1 DEF Folding
    <3> QED
      BY <2>2, <3>2, <3>3
  <2>3. CASE k + 1 \in s
    <3>1. Max(s) = k + 1
      <4>1. k + 1 \in Nat /\ s # {}
        BY <2>3
      <4>2. Max(s) \in s /\ Max(s) >= k + 1
        BY <2>3, <4>1, MaxOf
      <4>3. \A m \in 1 .. k + 1 : m >= k + 1 => m = k + 1
        OBVIOUS
      <4>4. Max(s) \in 1 .. k + 1
        BY <4>2
      <4> QED
        BY <4>2, <4>3, <4>4, Zenon
    <3> QED
      BY <2>3, <3>1
  <2> QED
    BY <2>1, <2>2, <2>3
<1>3. it = [s \in SUBSET (1 .. k + 1) |->
              IF s = {} THEN 0 ELSE it[s \ {Max(s)}] + f[Max(s)]]
  BY <1>2
<1> HIDE DEF it
<1> QED
  BY <1>3 DEF Folding

LEMMA FoldingExists ==
  ASSUME NEW f, NEW n \in Nat
  PROVE  \E it : Folding(it, f, n)
<1> SUFFICES ASSUME \A it : ~Folding(it, f, n) PROVE FALSE
  OBVIOUS
<1> DEFINE T == {k \in Nat : \A it : ~Folding(it, f, k)}
<1>1. T \in SUBSET Nat /\ T # {}
  OBVIOUS
<1>2. PICK k \in T : \A m \in T : k <= m
  <2> HIDE DEF T
  <2> QED
    BY <1>1, LeastOf
<1>3. k # 0
  <2>1. Folding([s \in SUBSET (1 .. 0) |-> 0], f, 0)
    BY DEF Folding
  <2> QED
    BY <2>1
<1>4. k - 1 \in Nat /\ k - 1 \notin T
  BY <1>2, <1>3
<1>5. PICK before : Folding(before, f, k - 1)
  BY <1>4
<1>6. \E it : Folding(it, f, k)
  <2>1. \E it : Folding(it, f, (k - 1) + 1)
    BY <1>4, <1>5, FoldingFrom
  <2> QED
    BY <1>2, <2>1
<1> QED
  BY <1>2, <1>6

\* A total is reached by adding one term after the other.
LEMMA TotalSteps ==
  ASSUME NEW n \in Nat, NEW f, DOMAIN f = 1 .. n
  PROVE  \E sum : /\ sum[0] = 0 /\ sum[n] = Total(f)
                  /\ \A k \in 1 .. n : sum[k] = sum[k - 1] + f[k]
<1> DEFINE it == CHOOSE it : Folding(it, f, n)
           sum == [k \in 0 .. n |-> it[1 .. k]]
<1>1. Folding(it, f, n)
  BY FoldingExists
<1>2. Total(f) = it[1 .. n]
  <2>1. Total(f) = (CHOOSE g : Folding(g, f, n))[1 .. n]
    BY DEF Total, FoldLeft, MapThenFoldSet, Folding
  <2> QED
    BY <2>1
<1> HIDE DEF it
<1>3. sum[0] = 0
  BY <1>1 DEF Folding
<1>4. sum[n] = Total(f)
  BY <1>2
<1>5. ASSUME NEW k \in 1 .. n PROVE sum[k] = sum[k - 1] + f[k]
  <2>1. 1 .. k \in SUBSET (1 .. n) /\ 1 .. k \in SUBSET (1 .. k) /\ k \in 1 .. k /\ k \in Nat
    OBVIOUS
  <2>2. Max(1 .. k) = k
    <3>1. Max(1 .. k) \in 1 .. k /\ Max(1 .. k) >= k
      BY <2>1, MaxOf
    <3> QED
      BY <3>1
  <2>3. (1 .. k) \ {k} = 1 .. k - 1
    OBVIOUS
  <2>4. it[1 .. k] = it[1 .. k - 1] + f[k]
    BY <1>1, <2>1, <2>2, <2>3 DEF Folding
  <2> QED
    BY <2>4
<1> HIDE DEF sum
<1> QED
  BY <1>3, <1>4, <1>5

\* The n terms of f are those of g, l of them after the first a, and 0 elsewhere.
IsBlock(n, a, l, f, g) ==
  /\ n \in Nat /\ a \in Nat /\ l \in Nat /\ a + l <= n
  /\ DOMAIN f = 1 .. n /\ DOMAIN g = 1 .. l
  /\ \A k \in 1 .. n : f[k] \in Int
  /\ \A k \in 1 .. n : k <= a \/ k > a + l => f[k] = 0
  /\ \A k \in 1 .. l : f[a + k] = g[k]

\* Terms that are 0 but for a block of them add up to the total of the block.
LEMMA TotalOfBlock ==
  \A n, a, l, f, g : IsBlock(n, a, l, f, g) => Total(f) = Total(g)
<1> SUFFICES ASSUME NEW n, NEW a, NEW l, NEW f, NEW g, IsBlock(n, a, l, f, g)
             PROVE  Total(f) = Total(g)
  OBVIOUS
<1> USE DEF IsBlock
<1>1. PICK p : /\ p[0] = 0 /\ p[n] = Total(f)
               /\ \A k \in 1 .. n : p[k] = p[k - 1] + f[k]
  BY TotalSteps
<1>2. PICK q : /\ q[0] = 0 /\ q[l] = Total(g)
               /\ \A k \in 1 .. l : q[k] = q[k - 1] + g[k]
  BY TotalSteps
<1> DEFINE Summing(k) == /\ p[k] \in Int
                         /\ k <= a => p[k] = 0
                         /\ a <= k /\ k <= a + l => p[k] = q[k - a]
                         /\ a + l <= k => p[k] = q[l]
           T == {k \in 0 .. n : ~Summing(k)}
<1>3. ASSUME NEW k \in 1 .. n, Summing(k - 1) PROVE Summing(k)
  <2>1. p[k] = p[k - 1] + f[k] /\ f[k] \in Int /\ p[k - 1] \in Int
    BY <1>1, <1>3
  <2>2. CASE k <= a
    <3>1. p[k - 1] = 0 /\ f[k] = 0 /\ a \in Nat /\ l \in Nat
      BY <1>3, <2>2
    <3>2. p[k] = 0 /\ k - a <= 0
      BY <2>1, <2>2, <3>1
    <3>3. k = a => k - a = 0
      OBVIOUS
    <3>4. a + l <= k => l = 0
      BY <2>2
    <3> QED
      BY <1>2, <2>2, <3>2, <3>3, <3>4
  <2>3. CASE a < k /\ k <= a + l
    <3>1. k - a \in 1 .. l /\ a + (k - a) = k /\ (k - 1) - a = (k - a) - 1
      BY <2>3
    <3>2. p[k - 1] = q[(k - a) - 1]
      BY <1>3, <2>3, <3>1
    <3>3. f[k] = g[k - a] /\ q[k - a] = q[(k - a) - 1] + g[k - a]
      BY <1>2, <3>1
    <3>4. p[k] = q[k - a] /\ p[k] \in Int
      BY <2>1, <3>2, <3>3
    <3>5. a + l <= k => k - a = l
      BY <2>3
    <3> QED
      BY <2>3, <3>4, <3>5
  <2>4. CASE a + l < k
    <3>1. p[k - 1] = q[l] /\ f[k] = 0
      BY <1>3, <2>4
    <3>2. p[k] = q[l] /\ p[k] \in Int
      BY <2>1, <3>1
    <3> QED
      BY <2>4, <3>2
  <2> QED
    BY <2>2, <2>3, <2>4
<1>4. Summing(0)
  <2>1. a <= 0 /\ 0 <= a + l => 0 - a = 0
    OBVIOUS
  <2>2. a + l <= 0 => l = 0
    OBVIOUS
  <2> QED
    BY <1>1, <1>2, <2>1, <2>2
<1> HIDE DEF Summing
<1>5. T = {}
  <2> SUFFICES ASSUME T # {} PROVE FALSE
    OBVIOUS
  <2>1. PICK k \in T : \A m \in T : k <= m
    <3>1. T \in SUBSET Nat
      OBVIOUS
    <3> HIDE DEF T
    <3> QED
      BY <3>1, LeastOf
  <2>2. k \in 1 .. n /\ k - 1 \in 0 .. n /\ k - 1 \notin T
    BY <1>4, <2>1
  <2> QED
    BY <1>3, <2>1, <2>2
<1>6. Summing(n)
  BY <1>5
<1> QED
  BY <1>1, <1>2, <1>6 DEF Summing

\* Repetition r is observations r * l + 1 to r * l + l, in the order of the suite.
LEMMA BlockOf ==
  ASSUME NEW l \in Nat \ {0}, NEW r \in Nat, NEW k \in Nat \ {0}
  PROVE  /\ ((k - 1) \div l = r) <=> (r * l < k /\ k <= r * l + l)
         /\ k <= l => ((r * l + k) - 1) \div l = r /\ ((r * l + k) - 1) % l = k - 1
<1>1. ASSUME NEW j \in Nat
      PROVE  /\ j \div l \in Nat /\ j % l \in 0 .. l - 1
             /\ j = (j \div l) * l + (j % l)
  OBVIOUS
<1>2. ASSUME NEW x \in Nat, NEW y \in Nat, x < y PROVE x * l + l <= y * l
  <2>1. PICK d \in Nat : y = x + 1 + d
    <3>1. y - x - 1 \in Nat /\ y = x + 1 + (y - x - 1)
      BY <1>2
    <3> QED
      BY <3>1
  <2>2. y * l = x * l + l + d * l /\ d * l \in Nat
    BY <2>1
  <2>3. x * l \in Nat
    OBVIOUS
  <2> QED
    BY <2>2, <2>3
<1>3. ASSUME NEW j \in Nat PROVE (j \div l = r) <=> (r * l <= j /\ j < r * l + l)
  <2> DEFINE d == j \div l
  <2>1. d \in Nat /\ d * l <= j /\ j < d * l + l /\ d * l \in Nat /\ r * l \in Nat
    <3>1. d * l \in Nat
      BY <1>1
    <3> QED
      BY <1>1, <3>1
  <2> HIDE DEF d
  <2>2. r < d => r * l + l <= d * l
    BY <1>2, <2>1
  <2>3. d < r => d * l + l <= r * l
    BY <1>2, <2>1
  <2>4. d = r <=> (r * l <= j /\ j < r * l + l)
    BY <2>1, <2>2, <2>3
  <2> QED
    BY <2>4 DEF d
<1>4. r * l \in Nat /\ k - 1 \in Nat
  OBVIOUS
<1>5. ((k - 1) \div l = r) <=> (r * l < k /\ k <= r * l + l)
  <2>1. ((k - 1) \div l = r) <=> (r * l <= k - 1 /\ k - 1 < r * l + l)
    BY <1>3, <1>4
  <2> QED
    BY <1>4, <2>1
<1>6. ASSUME k <= l PROVE ((r * l + k) - 1) \div l = r /\ ((r * l + k) - 1) % l = k - 1
  <2> DEFINE j == (r * l + k) - 1
  <2>1. j \in Nat /\ r * l <= j /\ j < r * l + l
    BY <1>4, <1>6
  <2>2. j \div l = r
    BY <1>3, <2>1
  <2>3. j = (j \div l) * l + (j % l) /\ j % l \in 0 .. l - 1
    BY <1>1, <2>1
  <2>4. j % l = k - 1
    <3> DEFINE d == j \div l
               e == j % l
    <3>1. j = d * l + e /\ d = r /\ e \in 0 .. l - 1
      BY <2>2, <2>3
    <3> HIDE DEF d, e
    <3>2. j = r * l + e
      BY <3>1
    <3>3. e = k - 1
      BY <1>4, <3>1, <3>2
    <3> QED
      BY <3>3 DEF e
  <2> QED
    BY <2>2, <2>4
<1> QED
  BY <1>5, <1>6
----------------------------------------------------------------------------
\* Observations are made case after case, repetition after repetition.
Placed ==
  \A n \in 1 .. Len(observations) :
    observations[n].trace = CaseOf(n).trace /\ observations[n].repetition = RepetitionOf(n)

Summed ==
  stage \in {"storing", "reported", "returned"} =>
    report.repeat_scores = [r \in 0 .. repetitions - 1 |-> RepeatScore(r)]

LEMMA PlacedStep ==
  ASSUME EInv, Placed, Summed, [EvaluationNext]_evaluationVars
  PROVE  Placed' /\ Summed'
<1> USE DEF callVars, resultVars, reportVars, Raise
<1>1. ASSUME UNCHANGED <<suite, repetitions, observations, report>>,
             stage' \in {"storing", "reported", "returned"} =>
               stage \in {"storing", "reported", "returned"}
      PROVE  Placed' /\ Summed'
  <2>1. \A r : RepeatScore(r)' = RepeatScore(r)
    BY <1>1 DEF RepeatScore, WeightOf
  <2> QED
    BY <1>1, <2>1 DEF Placed, Summed, CaseOf, RepetitionOf
<1>2. ASSUME NEW cases \in Suites, NEW times \in RepetitionCounts, NEW timing \in UNION Range(Timings),
             Evaluate(cases, times, timing)
      PROVE  Placed' /\ Summed'
  <2>1. observations' = << >> /\ stage' \in {"raised", "replaying"}
    BY <1>2 DEF Evaluate, EInv, Progress
  <2> QED
    BY <2>1 DEF Placed, Summed
<1>3. ASSUME NEW divergences \in UNION Range(Findings), ReplayCase(divergences) PROVE Placed' /\ Summed'
  BY <1>1, <1>3 DEF ReplayCase
<1>4. CASE SaveResult \/ KeepNoResult \/ CallRaises \/ SaveReport \/ ReturnReport
  BY <1>1, <1>4 DEF SaveResult, KeepNoResult, CallRaises, SaveReport, ReturnReport
<1>5. ASSUME NEW score \in UNION Range(Scores), Observe(score) PROVE Placed' /\ Summed'
  <2>1. CASE score \notin 0 .. Full
    BY <1>1, <1>5, <2>1 DEF Observe
  <2>2. CASE score \in 0 .. Full
    <3> DEFINE item == [trace |-> CaseOf(Current).trace, repetition |-> RepetitionOf(Current),
                        solved |-> score >= Full, score |-> score,
                        duration_ms |-> timings[Current], replay |-> Current, divergence_count |-> Len(found)]
    <3>1. /\ observations' = Append(observations, item) /\ suite' = suite
          /\ stage' \in {"reporting", "replaying"}
      BY <1>5, <2>2 DEF Observe
    <3>2. item.trace = CaseOf(Current).trace /\ item.repetition = RepetitionOf(Current)
      OBVIOUS
    <3> HIDE DEF item
    <3>3. /\ Len(observations') = Current
          /\ \A n \in 1 .. Len(observations) : observations'[n] = observations[n]
          /\ observations'[Current] = item
      BY <3>1 DEF EInv, Types, Current
    <3>4. \A n \in 1 .. Current : n = Current \/ n \in 1 .. Len(observations)
      BY DEF Current, EInv, Types
    <3>5. Placed'
      BY <3>1, <3>2, <3>3, <3>4 DEF Placed, CaseOf, RepetitionOf
    <3> QED
      BY <3>1, <3>5 DEF Summed
  <2> QED
    BY <2>1, <2>2
<1>6. ASSUME NEW error \in Rounding, Report(error) PROVE Placed' /\ Summed'
  <2>1. /\ UNCHANGED <<suite, repetitions, observations>>
        /\ report'.repeat_scores = [r \in 0 .. repetitions - 1 |-> RepeatScore(r)]
    BY <1>6 DEF Report
  <2>2. \A r : RepeatScore(r)' = RepeatScore(r)
    BY <2>1 DEF RepeatScore, WeightOf
  <2> QED
    BY <2>1, <2>2 DEF Placed, Summed, CaseOf, RepetitionOf
<1>7. ASSUME NEW trace \in Traces, DeleteTrace(trace) PROVE Placed' /\ Summed'
  BY <1>1, <1>7 DEF DeleteTrace
<1>8. CASE UNCHANGED evaluationVars
  BY <1>1, <1>8 DEF evaluationVars
<1> QED
  BY <1>2, <1>3, <1>4, <1>5, <1>6, <1>7, <1>8 DEF EvaluationNext, EvaluationStep

\* The weight of a trace is that of one of its cases, and of each of them when they agree.
LEMMA WeightIs ==
  ASSUME Types, NEW k \in 1 .. Len(suite)
  PROVE  /\ WeightOf(suite[k].trace) \in Nat
         /\ WeightsAgree => WeightOf(suite[k].trace) = suite[k].weight
<1> DEFINE cases == {n \in 1 .. Len(suite) : suite[n].trace = suite[k].trace}
<1>1. Len(suite) \in Nat /\ suite \in Seq([trace : Traces, weight : Nat \ {0}])
  BY DEF Types
<1>2. \E n \in cases : \A other \in cases : other <= n
  <2>1. cases \in SUBSET (1 .. Len(suite)) /\ cases # {}
    OBVIOUS
  <2>2. \A other \in cases : other \in Int
    BY <1>1
  <2> HIDE DEF cases
  <2>3. Max(cases) \in cases /\ \A y \in cases : Max(cases) >= y
    BY <1>1, <2>1, MaxOf
  <2> QED
    BY <2>2, <2>3
<1> DEFINE n == CHOOSE n \in cases : \A other \in cases : other <= n
<1>3. n \in cases
  BY <1>2
<1>4. WeightOf(suite[k].trace) = suite[n].weight
  BY DEF WeightOf
<1> HIDE DEF n
<1>5. WeightsAgree => suite[n].weight = suite[k].weight
  BY <1>3 DEF WeightsAgree
<1>6. suite[n] \in [trace : Traces, weight : Nat \ {0}]
  BY <1>1, <1>3, ElementOfSeq
<1> QED
  BY <1>4, <1>5, <1>6

LEMMA ScoresFollow == EInv /\ Placed /\ Summed => RepeatScoresWeighted
<1> SUFFICES ASSUME EInv, Placed, Summed, stage \in {"reported", "returned"},
                    NEW r \in 0 .. repetitions - 1
             PROVE  /\ report.repeat_scores[r] = LastWeights(r)
                    /\ WeightsAgree => report.repeat_scores[r] = OwnWeights(r)
  BY DEF RepeatScoresWeighted
<1> DEFINE l == Len(suite)
           count == Len(observations)
           f == [n \in 1 .. count |->
                   IF observations[n].repetition = r
                   THEN observations[n].score * WeightOf(observations[n].trace) ELSE 0]
           g == [n \in 1 .. l |-> observations[r * l + n].score * WeightOf(suite[n].trace)]
<1>1. /\ l \in Nat \ {0} /\ repetitions \in Nat \ {0} /\ count = l * repetitions
      /\ count \in Nat /\ r \in Nat /\ r + 1 <= repetitions
      /\ observations \in Seq(Observation)
  BY DEF EInv, Types, Progress, Finished, Planned
<1>2. report.repeat_scores[r] = Total(f)
  BY DEF Summed, RepeatScore
<1>3. r * l \in Nat /\ r * l + l <= count
  <2>1. PICK d \in Nat : repetitions = r + 1 + d
    <3>1. repetitions - r - 1 \in Nat /\ repetitions = r + 1 + (repetitions - r - 1)
      BY <1>1
    <3> QED
      BY <3>1
  <2>2. count = r * l + l + d * l /\ d * l \in Nat /\ r * l \in Nat
    BY <1>1, <2>1
  <2> QED
    BY <2>2
<1>4. ASSUME NEW k \in 1 .. count
      PROVE  /\ observations[k].score \in Nat
             /\ observations[k].repetition = (k - 1) \div l
             /\ observations[k].trace = CaseOf(k).trace
             /\ CaseOf(k) = suite[((k - 1) % l) + 1] /\ ((k - 1) % l) + 1 \in 1 .. l
  <2>1. observations[k] \in Observation
    BY <1>1, ElementOfSeq
  <2>2. ((k - 1) % l) + 1 \in 1 .. l
    BY <1>1
  <2> QED
    <3>1. observations[k].score \in Nat
      BY <2>1, EvaluationAssumption DEF Observation
    <3> QED BY <2>2, <3>1 DEF Placed, RepetitionOf, CaseOf
<1>5. ASSUME NEW k \in 1 .. count
      PROVE  WeightOf(observations[k].trace) \in Nat
  <2>1. PICK i \in 1 .. l : observations[k].trace = suite[i].trace
    BY <1>4
  <2> QED
    BY <2>1, WeightIs DEF EInv
<1>6. ASSUME NEW k \in 1 .. count PROVE f[k] \in Int
  <2>1. observations[k].score * WeightOf(observations[k].trace) \in Int
    BY <1>4, <1>5
  <2> QED
    BY <2>1
<1>7. ASSUME NEW k \in 1 .. count, k <= r * l \/ k > r * l + l PROVE f[k] = 0
  <2>1. (k - 1) \div l # r
    <3>1. k \in Nat \ {0}
      BY <1>1
    <3>2. ((k - 1) \div l = r) <=> (r * l < k /\ k <= r * l + l)
      BY <1>1, <3>1, BlockOf
    <3> QED
      BY <1>3, <1>7, <3>1, <3>2
  <2> QED
    BY <1>4, <2>1
<1>8. ASSUME NEW k \in 1 .. l PROVE f[r * l + k] = g[k]
  <2> DEFINE i == r * l + k
  <2>1. i \in 1 .. count /\ k \in Nat \ {0} /\ k <= l
    BY <1>1, <1>3
  <2>2. (i - 1) \div l = r /\ (i - 1) % l = k - 1
    BY <1>1, <2>1, BlockOf
  <2>3. observations[i].repetition = r /\ observations[i].trace = suite[k].trace
    <3>1. ((i - 1) % l) + 1 = k
      BY <2>1, <2>2
    <3> QED
      BY <1>4, <2>1, <2>2, <3>1
  <2> QED
    BY <2>1, <2>3
<1>9. DOMAIN f = 1 .. count /\ DOMAIN g = 1 .. l
  OBVIOUS
<1>10. Total(g) = LastWeights(r) /\ (WeightsAgree => LastWeights(r) = OwnWeights(r))
  <2>1. ASSUME WeightsAgree, NEW k \in 1 .. l
        PROVE  WeightOf(suite[k].trace) = suite[k].weight
    BY <2>1, WeightIs DEF EInv
  <2> QED
    BY <2>1 DEF LastWeights, OwnWeights
<1> HIDE DEF f, g, count
<1>11. Total(f) = Total(g)
  <2>1. PICK a \in Nat : a = r * l
    BY <1>3
  <2>2. count \in Nat /\ l \in Nat /\ a + l <= count
    BY <1>1, <1>3, <2>1
  <2>3. \A k \in 1 .. count : f[k] \in Int
    BY <1>6
  <2>4. \A k \in 1 .. count : k <= a \/ k > a + l => f[k] = 0
    BY <1>7, <2>1
  <2>5. \A k \in 1 .. l : f[a + k] = g[k]
    BY <1>8, <2>1
  <2>6. IsBlock(count, a, l, f, g)
    BY <1>9, <2>2, <2>3, <2>4, <2>5 DEF IsBlock
  <2> QED
    BY <2>6, TotalOfBlock
<1> QED
  BY <1>2, <1>10, <1>11

\* For any suites, scores and numbers of repetitions: the score of a repetition is the
\* sum over its own observations, each with the weight of the last case about its trace,
\* which is its own when no two cases give one trace different weights.
THEOREM ScoresWeighted == EvaluationSpec => []RepeatScoresWeighted
<1>1. EvaluationInit => EInv /\ Placed /\ Summed
  BY EInit DEF EvaluationInit, Placed, Summed
<1>2. EInv /\ Placed /\ Summed /\ [EvaluationNext]_evaluationVars => (EInv /\ Placed /\ Summed)'
  BY ENext, PlacedStep
<1> QED
  BY <1>1, <1>2, ScoresFollow, PTL DEF EvaluationSpec
----------------------------------------------------------------------------
\* Positions.  One is within another when the other leads on from it.
Within(at, below) == Len(at) <= Len(below) /\ \A n \in 1 .. Len(at) : below[n] = at[n]

LEMMA ChildIs ==
  ASSUME NEW S, NEW at \in Seq(S), NEW key \in S
  PROVE  /\ Append(at, key) \in Seq(S) /\ Len(Append(at, key)) = Len(at) + 1
         /\ \A n \in 1 .. Len(at) : Append(at, key)[n] = at[n]
         /\ Append(at, key)[Len(at) + 1] = key
  BY AppendProperties

LEMMA WithinAbove ==
  ASSUME NEW S, NEW at \in Seq(S), NEW below \in Seq(S)
  PROVE  Within(at, below) <=> at \in Above(below) \cup {below}
<1>1. Len(at) \in Nat /\ Len(below) \in Nat
  OBVIOUS
<1>2. ASSUME Within(at, below) PROVE at \in Above(below) \cup {below}
  <2>1. CASE Len(at) = Len(below)
    <3>1. at = below
      BY <1>2, <2>1, SeqEqual DEF Within
    <3> QED
      BY <3>1
  <2>2. CASE Len(at) < Len(below)
    <3>1. Len(at) \in 0 .. Len(below) - 1
      BY <1>1, <2>2
    <3>2. /\ SubSeq(below, 1, Len(at)) \in Seq(S) /\ Len(SubSeq(below, 1, Len(at))) = Len(at)
          /\ \A n \in 1 .. Len(at) : SubSeq(below, 1, Len(at))[n] = below[n]
      BY <1>1, <3>1
    <3>3. SubSeq(below, 1, Len(at)) = at
      BY <1>2, <3>2, SeqEqual DEF Within
    <3> QED
      BY <3>1, <3>3 DEF Above
  <2> QED
    BY <1>1, <1>2, <2>1, <2>2 DEF Within
<1>3. ASSUME at \in Above(below) PROVE Within(at, below)
  <2>1. PICK n \in 0 .. Len(below) - 1 : at = SubSeq(below, 1, n)
    BY <1>3 DEF Above
  <2> QED
    BY <1>1, <2>1 DEF Within
<1> QED
  BY <1>1, <1>2, <1>3 DEF Within

\* What leads on from a position leads on by one step first.
LEMMA StepBelow ==
  ASSUME NEW S, NEW at \in Seq(S), NEW below \in Seq(S), Within(at, below), at # below
  PROVE  \E key \in S : Within(Append(at, key), below)
<1>1. Len(at) \in Nat /\ Len(below) \in Nat /\ Len(at) < Len(below)
  <2>1. Len(at) # Len(below)
    BY SeqEqual DEF Within
  <2> QED
    BY <2>1 DEF Within
<1>2. below[Len(at) + 1] \in S
  BY <1>1
<1>3. Within(Append(at, below[Len(at) + 1]), below)
  BY <1>1, <1>2, ChildIs DEF Within
<1> QED
  BY <1>2, <1>3

LEMMA OneStep ==
  ASSUME NEW S, NEW at \in Seq(S), NEW below \in Seq(S), NEW key \in S, NEW other \in S,
         Within(Append(at, key), below), Within(Append(at, other), below)
  PROVE  key = other
  BY ChildIs DEF Within

LEMMA WithinChild ==
  ASSUME NEW S, NEW at \in Seq(S), NEW below \in Seq(S), NEW key \in S,
         Within(Append(at, key), below)
  PROVE  Within(at, below) /\ at # below /\ Len(at) < Len(below)
  BY ChildIs DEF Within

LEMMA WithinItself ==
  ASSUME NEW S, NEW at \in Seq(S)
  PROVE  Within(at, at)
  BY DEF Within

LEMMA WithinWithin ==
  ASSUME NEW S, NEW at \in Seq(S), NEW between \in Seq(S), NEW below \in Seq(S),
         Within(at, between), Within(between, below)
  PROVE  Within(at, below)
  BY DEF Within

\* Above a child is its parent, and what is above that.
LEMMA AboveChild ==
  ASSUME NEW S, NEW at \in Seq(S), NEW key \in S
  PROVE  Above(Append(at, key)) = Above(at) \cup {at} /\ Parent(Append(at, key)) = at
<1> DEFINE child == Append(at, key)
<1>1. child \in Seq(S) /\ Len(child) = Len(at) + 1 /\ Len(at) \in Nat
  BY ChildIs
<1>2. ASSUME NEW n \in 0 .. Len(at) PROVE SubSeq(child, 1, n) = SubSeq(at, 1, n)
  <2>1. \A i \in 1 .. n : child[i] = at[i]
    BY <1>1, ChildIs
  <2>2. /\ SubSeq(child, 1, n) \in Seq(S) /\ SubSeq(at, 1, n) \in Seq(S)
        /\ Len(SubSeq(child, 1, n)) = n /\ Len(SubSeq(at, 1, n)) = n
        /\ \A i \in 1 .. n : SubSeq(child, 1, n)[i] = child[i] /\ SubSeq(at, 1, n)[i] = at[i]
    BY <1>1
  <2> QED
    BY <2>1, <2>2, SeqEqual
<1>3. SubSeq(at, 1, Len(at)) = at
  BY SubSeqFull
<1>4. Above(child) = {SubSeq(at, 1, n) : n \in 0 .. Len(at)}
  BY <1>1, <1>2 DEF Above
<1>5. 0 .. Len(at) = (0 .. Len(at) - 1) \cup {Len(at)}
  BY <1>1
<1>6. Above(child) = Above(at) \cup {at}
  BY <1>3, <1>4, <1>5 DEF Above
<1>7. Parent(child) = at
  BY <1>1, <1>2, <1>3 DEF Parent
<1> QED
  BY <1>6, <1>7
----------------------------------------------------------------------------
\* Calls of compare_values under way, and what is found.
Differs == [what : {"missing", "unexpected", "type", "length", "value"}, at : Seq(Steps)]
Calls == [at : Seq(Steps), missing : SUBSET Steps, unexpected : SUBSET Steps,
          shared : SUBSET Steps]

Valid(c) == IsValue(c.expected) /\ IsValue(c.actual) /\ c.policy.tolerance \in Int

\* A call is made for a position in both values only, below containers of one type.
Fits(at, c) ==
  /\ at \in Both(c)
  /\ \A up \in Above(at) : /\ ~Ignored(up, c) /\ up \in Both(c)
                           /\ c.expected[up].type = c.actual[up].type
                           /\ c.expected[up].type \in Containers

\* One that is under way has something left of the loops it set out on.
CallOK(f, c) ==
  LET all == Loops(f.at, c) IN
  /\ Fits(f.at, c) /\ ~Ignored(f.at, c)
  /\ c.expected[f.at].type = c.actual[f.at].type /\ c.expected[f.at].type \in Containers
  /\ f.missing \subseteq all.missing /\ f.unexpected \subseteq all.unexpected
  /\ f.shared \subseteq all.shared

\* It has made the call the position is in.
Left(f, at, c) ==
  \E key \in Loops(f.at, c).shared \ f.shared : Within(Append(f.at, key), at)

\* What it has yet to find.
Awaits(f, d) ==
  \/ d.what = "missing" /\ \E key \in f.missing : d.at = Append(f.at, key)
  \/ d.what = "unexpected" /\ \E key \in f.unexpected : d.at = Append(f.at, key)
  \/ d.what = "length" /\ d.at = f.at
  \/ \E key \in f.shared : Within(Append(f.at, key), d.at)

Stacked(c, calls) ==
  /\ calls \in Seq(Calls)
  /\ \A n \in 1 .. Len(calls) : CallOK(calls[n], c)
  /\ \A n, m \in 1 .. Len(calls) : n < m => Left(calls[m], calls[n].at, c)

Once(list) ==
  /\ list \in Seq(Differs)
  /\ \A n, m \in 1 .. Len(list) : list[n] = list[m] => n = m

Awaited(calls, d) == \E m \in 1 .. Len(calls) : Awaits(calls[m], d)
Found(list, d) == \E n \in 1 .. Len(list) : list[n] = d

\* Inductive: every difference was found, or a call under way will find it, not both.
Divides(c, calls, list) ==
  \A d \in Differs : Found(list, d) <=> d \in Differences(c) /\ ~Awaited(calls, d)

\* It has yet to sort the keys of the dictionaries at a position.
WillSort(f, x, c) ==
  \/ f.at = x /\ f.unexpected = Keys(c.actual, x) \ Keys(c.expected, x)
  \/ \E key \in f.shared : Within(Append(f.at, key), x)
Comes(calls, x, c) == \E m \in 1 .. Len(calls) : WillSort(calls[m], x, c)

\* Inductive too: keys that do not compare are still to come, or it has raised.
Sorts(c, calls) == \A x \in Unsorted(c) : Comes(calls, x, c)

ComparisonInv ==
  /\ Valid(comparison) /\ Once(differences) /\ raised \in BOOLEAN
  /\ ~raised => /\ Stacked(comparison, pending) /\ Sorts(comparison, pending)
                /\ Divides(comparison, pending, differences)
  /\ raised => pending = << >> /\ Unsorted(comparison) # {}
  /\ comparison = NoComparison => pending = << >> /\ differences = << >> /\ ~raised

\* The positions of a value.
LEMMA Positions ==
  ASSUME NEW c, Valid(c)
  PROVE  DOMAIN c.expected \subseteq Seq(Steps) /\ DOMAIN c.actual \subseteq Seq(Steps)
  BY DEF Valid, IsValue

LEMMA DifferencesTyped ==
  ASSUME NEW c, Valid(c), NEW d \in Differences(c)
  PROVE  /\ d \in Differs /\ Reached(d.at, c) /\ DifferAs(d.what, d.at, c)
         /\ d.at \in DOMAIN c.expected \cup DOMAIN c.actual
  BY Positions DEF Differences, Differs

\* A call that has made the call a difference is in does not wait for it any more.
LEMMA LeftBehind ==
  ASSUME NEW c, NEW f \in Calls, CallOK(f, c), NEW at \in Seq(Steps), Left(f, at, c),
         NEW d \in Differs, Within(at, d.at)
  PROVE  ~Awaits(f, d)
<1>1. PICK key \in Loops(f.at, c).shared \ f.shared : Within(Append(f.at, key), at)
  BY DEF Left
<1>2. /\ key \in Steps /\ f.at \in Seq(Steps) /\ d.at \in Seq(Steps)
      /\ key \notin f.missing /\ key \notin f.unexpected
      /\ f.missing \subseteq Steps /\ f.unexpected \subseteq Steps /\ f.shared \subseteq Steps
  BY <1>1 DEF Calls, CallOK, Loops, Keys, Differs
<1>3. Append(f.at, key) \in Seq(Steps)
  BY <1>2, ChildIs
<1>4. Within(Append(f.at, key), d.at)
  BY <1>1, <1>2, <1>3, WithinWithin
<1>5. ASSUME NEW other \in Steps, Within(Append(f.at, other), d.at) PROVE other = key
  BY <1>2, <1>4, <1>5, OneStep
<1>6. ASSUME NEW other \in Steps, d.at = Append(f.at, other) PROVE other = key
  <2>1. Within(Append(f.at, other), d.at)
    BY <1>2, <1>6, WithinItself
  <2> QED
    BY <1>5, <2>1
<1>7. d.at # f.at
  BY <1>2, <1>4, WithinChild
<1> QED
  BY <1>1, <1>2, <1>5, <1>6, <1>7 DEF Awaits

\* What is within a call is found by it, or awaited by the loops it sets out on.
LEMMA BelowCall ==
  ASSUME NEW c, Valid(c), NEW x \in Seq(Steps), Fits(x, c), NEW d \in Differences(c), Within(x, d.at)
  PROVE  /\ ~Ignored(x, c)
         /\ c.expected[x].type # c.actual[x].type => d = [what |-> "type", at |-> x]
         /\ c.expected[x].type = c.actual[x].type /\ c.expected[x].type \notin Containers
              => d = [what |-> "value", at |-> x] /\ DifferAs("value", x, c)
         /\ c.expected[x].type = c.actual[x].type /\ c.expected[x].type \in Containers
              => Awaits(Loops(x, c), d)
<1>1. /\ d \in Differs /\ Reached(d.at, c) /\ DifferAs(d.what, d.at, c) /\ d.at \in Seq(Steps)
      /\ d.at \in DOMAIN c.expected \cup DOMAIN c.actual
  BY DifferencesTyped DEF Differs
<1>2. x \in Above(d.at) \cup {d.at}
  BY <1>1, WithinAbove
<1>3. ~Ignored(x, c)
  BY <1>1, <1>2 DEF Reached
<1>4. d = [what |-> d.what, at |-> d.at]
  BY <1>1 DEF Differs
<1>5. x \in Both(c)
  BY DEF Fits
<1>6. d.what \in {"missing", "unexpected", "type", "length", "value"}
  BY <1>1 DEF Differs
<1>7. ASSUME c.expected[x].type # c.actual[x].type PROVE d = [what |-> "type", at |-> x]
  <2>1. d.at = x
    BY <1>1, <1>2, <1>7 DEF Reached
  <2>2. d.what = "type"
    BY <1>1, <1>5, <1>6, <1>7, <2>1 DEF DifferAs, Both
  <2> QED
    BY <1>4, <2>1, <2>2
<1>8. ASSUME c.expected[x].type = c.actual[x].type, c.expected[x].type \notin Containers
      PROVE  d = [what |-> "value", at |-> x] /\ DifferAs("value", x, c)
  <2>1. d.at = x
    BY <1>1, <1>2, <1>8 DEF Reached
  <2>2. d.what = "value"
    BY <1>1, <1>5, <1>6, <1>8, <2>1 DEF DifferAs, Both, Containers
  <2> QED
    BY <1>1, <1>4, <2>1, <2>2
<1>9. ASSUME c.expected[x].type = c.actual[x].type, c.expected[x].type \in Containers
      PROVE  Awaits(Loops(x, c), d)
  <2>1. CASE d.at = x
    <3>1. d.what = "length"
      BY <1>1, <1>5, <1>6, <1>9, <2>1 DEF DifferAs, Both
    <3> QED
      BY <2>1, <3>1 DEF Awaits, Loops
  <2>2. CASE d.at # x
    <3>1. PICK key \in Steps : Within(Append(x, key), d.at)
      BY <1>1, <2>2, StepBelow
    <3> DEFINE y == Append(x, key)
    <3>2. y \in Seq(Steps) /\ y \in Above(d.at) \cup {d.at} /\ Parent(y) = x
      BY <1>1, <3>1, ChildIs, WithinAbove, AboveChild
    <3>3. CASE y \in Both(c)
      <4>1. key \in Loops(x, c).shared
        BY <3>3 DEF Loops, Keys, Both
      <4> QED
        BY <3>1, <4>1 DEF Awaits, Loops
    <3>4. CASE y \notin Both(c)
      <4>1. d.at = y
        BY <1>1, <3>2, <3>4 DEF Reached
      <4>2. d.what \in {"missing", "unexpected"}
        BY <1>1, <1>6, <3>4, <4>1 DEF DifferAs
      <4>3. d.what = "missing" => key \in Loops(x, c).missing
        BY <1>1, <3>2, <4>1 DEF DifferAs, Loops, Keys
      <4>4. d.what = "unexpected" => key \in Loops(x, c).unexpected
        BY <1>1, <1>9, <3>2, <4>1 DEF DifferAs, Loops, Keys
      <4> QED
        BY <4>1, <4>2, <4>3, <4>4 DEF Awaits, Loops
    <3> QED
      BY <3>3, <3>4
  <2> QED
    BY <2>1, <2>2
<1> QED
  BY <1>3, <1>7, <1>8, <1>9

\* What a call waits for is within its position.
LEMMA AwaitsWithin ==
  ASSUME NEW f \in Calls, NEW d \in Differs, Awaits(f, d)
  PROVE  Within(f.at, d.at)
<1>1. /\ f.at \in Seq(Steps) /\ d.at \in Seq(Steps)
      /\ f.missing \subseteq Steps /\ f.unexpected \subseteq Steps /\ f.shared \subseteq Steps
  BY DEF Calls, Differs
<1>2. ASSUME NEW key \in Steps, Within(Append(f.at, key), d.at) PROVE Within(f.at, d.at)
  BY <1>1, <1>2, WithinChild
<1>3. ASSUME NEW key \in Steps, d.at = Append(f.at, key) PROVE Within(f.at, d.at)
  <2>1. Within(Append(f.at, key), d.at)
    BY <1>1, <1>3, WithinItself
  <2> QED
    BY <1>2, <2>1
<1>4. d.at = f.at => Within(f.at, d.at)
  BY <1>1, WithinItself
<1> QED
  BY <1>1, <1>2, <1>3, <1>4 DEF Awaits

LEMMA LoopsAre ==
  ASSUME NEW x \in Seq(Steps), NEW c
  PROVE  Loops(x, c) \in Calls /\ Loops(x, c).at = x
  BY DEF Loops, Calls, Keys

\* What a call finds by itself is a difference.
LEMMA FoundHere ==
  ASSUME NEW c, Valid(c), NEW x \in Seq(Steps), Fits(x, c), ~Ignored(x, c),
         NEW what \in {"type", "value", "length"}, DifferAs(what, x, c)
  PROVE  [what |-> what, at |-> x] \in Differences(c) /\ [what |-> what, at |-> x] \in Differs
<1>1. Reached(x, c)
  BY DEF Reached, Fits
<1>2. x \in DOMAIN c.expected \cup DOMAIN c.actual
  BY DEF Fits, Both
<1> QED
  BY <1>1, <1>2 DEF Differences, Differs
----------------------------------------------------------------------------
\* The calls under way and the position the next call is made for: each of them has
\* made the call that one is in.
Ready(x, c, calls) ==
  /\ x \in Seq(Steps) /\ Fits(x, c) /\ Stacked(c, calls)
  /\ \A m \in 1 .. Len(calls) : Left(calls[m], x, c)

\* Every difference is found, awaited by the calls under way, or within the position.
DividesAt(x, c, calls, list) ==
  \A d \in Differs :
    Found(list, d) <=> d \in Differences(c) /\ ~Awaited(calls, d) /\ ~Within(x, d.at)

LEMMA NotAwaited ==
  ASSUME NEW c, NEW x, NEW calls, Ready(x, c, calls), NEW d \in Differs, Within(x, d.at)
  PROVE  ~Awaited(calls, d)
<1> SUFFICES ASSUME NEW m \in 1 .. Len(calls) PROVE ~Awaits(calls[m], d)
  BY DEF Awaited
<1>1. calls[m] \in Calls /\ CallOK(calls[m], c) /\ Left(calls[m], x, c) /\ x \in Seq(Steps)
  BY DEF Ready, Stacked
<1> QED
  BY <1>1, LeftBehind

\* One more.
LEMMA OneMore ==
  ASSUME NEW list, Once(list), NEW e \in Differs
  PROVE  /\ \A d \in Differs : Found(Append(list, e), d) <=> Found(list, d) \/ d = e
         /\ ~Found(list, e) => Once(Append(list, e))
<1> DEFINE more == Append(list, e)
<1>1. /\ more \in Seq(Differs) /\ Len(more) = Len(list) + 1 /\ Len(list) \in Nat
      /\ \A n \in 1 .. Len(list) : more[n] = list[n]
      /\ more[Len(list) + 1] = e
  BY ChildIs DEF Once
<1> HIDE DEF more
<1>2. \A n \in 1 .. Len(more) : n \in 1 .. Len(list) \/ n = Len(list) + 1
  BY <1>1
<1>3. \A n \in 1 .. Len(list) : n \in 1 .. Len(more)
  BY <1>1
<1>4. Len(list) + 1 \in 1 .. Len(more)
  BY <1>1
<1>5. \A d \in Differs : Found(more, d) <=> Found(list, d) \/ d = e
  BY <1>1, <1>2, <1>3, <1>4 DEF Found
<1>6. ~Found(list, e) => Once(more)
  BY <1>1, <1>2 DEF Found, Once
<1> QED
  BY <1>5, <1>6 DEF more

\* One more call on the stack.
LEMMA OnTop ==
  ASSUME NEW c, NEW calls, NEW f \in Calls, CallOK(f, c), Ready(f.at, c, calls)
  PROVE  /\ Stacked(c, <<f>> \o calls)
         /\ \A d : Awaited(<<f>> \o calls, d) <=> Awaits(f, d) \/ Awaited(calls, d)
<1> DEFINE all == <<f>> \o calls
<1>1. /\ calls \in Seq(Calls) /\ all \in Seq(Calls) /\ Len(all) = Len(calls) + 1
      /\ all[1] = f /\ Len(calls) \in Nat
      /\ \A n \in 1 .. Len(calls) : all[n + 1] = calls[n]
  BY DEF Ready, Stacked
<1> HIDE DEF all
<1>2. \A n \in 1 .. Len(all) : n = 1 \/ (n - 1 \in 1 .. Len(calls) /\ all[n] = calls[n - 1])
  <2> SUFFICES ASSUME NEW n \in 1 .. Len(all), n # 1
               PROVE  n - 1 \in 1 .. Len(calls) /\ all[n] = calls[n - 1]
    OBVIOUS
  <2>1. n - 1 \in 1 .. Len(calls) /\ (n - 1) + 1 = n
    BY <1>1
  <2> QED
    BY <1>1, <2>1
<1>3. 1 \in 1 .. Len(all) /\ \A n \in 1 .. Len(calls) : n + 1 \in 1 .. Len(all)
  BY <1>1
<1>4. \A d : Awaited(all, d) <=> Awaits(f, d) \/ Awaited(calls, d)
  BY <1>1, <1>2, <1>3 DEF Awaited
<1>5. \A n \in 1 .. Len(all) : CallOK(all[n], c)
  BY <1>1, <1>2 DEF Ready, Stacked
<1>6. ASSUME NEW n \in 1 .. Len(all), NEW m \in 1 .. Len(all), n < m
      PROVE  Left(all[m], all[n].at, c)
  <2>1. m - 1 \in 1 .. Len(calls) /\ all[m] = calls[m - 1]
    BY <1>1, <1>2, <1>6
  <2>2. CASE n = 1
    BY <1>1, <2>1, <2>2 DEF Ready
  <2>3. CASE n # 1
    <3>1. n - 1 \in 1 .. Len(calls) /\ all[n] = calls[n - 1] /\ n - 1 < m - 1
      BY <1>1, <1>2, <1>6, <2>3
    <3> QED
      BY <2>1, <3>1 DEF Ready, Stacked
  <2> QED
    BY <2>2, <2>3
<1>7. Stacked(c, all)
  BY <1>1, <1>5, <1>6 DEF Stacked
<1> QED
  BY <1>4, <1>7 DEF all

\* A call keeps the division, whatever it finds.
LEMMA CallKeeps ==
  ASSUME NEW c, Valid(c), NEW x, NEW calls, Ready(x, c, calls), Once(differences),
         DividesAt(x, c, calls, differences), Call(x, c, calls)
  PROVE  Stacked(c, pending') /\ Once(differences') /\ Divides(c, pending', differences')
<1>1. x \in Seq(Steps) /\ Fits(x, c) /\ Stacked(c, calls) /\ x \in Both(c)
  BY DEF Ready, Fits
<1>2. ASSUME NEW d \in Differences(c), Within(x, d.at)
      PROVE  /\ ~Ignored(x, c)
             /\ c.expected[x].type # c.actual[x].type => d = [what |-> "type", at |-> x]
             /\ c.expected[x].type = c.actual[x].type /\ c.expected[x].type \notin Containers
                  => d = [what |-> "value", at |-> x] /\ DifferAs("value", x, c)
             /\ c.expected[x].type = c.actual[x].type /\ c.expected[x].type \in Containers
                  => Awaits(Loops(x, c), d)
  BY <1>1, <1>2, BelowCall
\* Nothing found, and nothing is within.
<1>3. ASSUME pending' = calls, UNCHANGED differences,
             \A d \in Differences(c) : ~Within(x, d.at)
      PROVE  Stacked(c, pending') /\ Once(differences') /\ Divides(c, pending', differences')
  BY <1>1, <1>3 DEF Divides, DividesAt
\* Found what is within.
<1>4. ASSUME NEW what \in {"type", "value"}, DifferAs(what, x, c), ~Ignored(x, c),
             pending' = calls, Add(what, x),
             \A d \in Differences(c) : Within(x, d.at) => d = [what |-> what, at |-> x]
      PROVE  Stacked(c, pending') /\ Once(differences') /\ Divides(c, pending', differences')
  <2> DEFINE e == [what |-> what, at |-> x]
  <2>1. e \in Differences(c) /\ e \in Differs
    BY <1>1, <1>4, FoundHere
  <2>2. Within(x, e.at)
    BY <1>1, WithinItself
  <2>3. differences' = Append(differences, e)
    BY <1>4 DEF Add
  <2>4. \A d \in Differences(c) : Within(x, d.at) => d = e
    BY <1>4
  <2> HIDE DEF e
  <2>5. ~Found(differences, e) /\ ~Awaited(calls, e)
    BY <2>1, <2>2, NotAwaited DEF DividesAt
  <2>6. /\ \A d \in Differs : Found(differences', d) <=> Found(differences, d) \/ d = e
        /\ Once(differences')
    BY <2>1, <2>3, <2>5, OneMore
  <2>7. Divides(c, calls, differences')
    BY <2>1, <2>2, <2>4, <2>5, <2>6 DEF Divides, DividesAt
  <2> QED
    BY <1>1, <1>4, <2>6, <2>7
<1>5. CASE Ignored(x, c) /\ pending' = calls /\ UNCHANGED differences
  BY <1>2, <1>3, <1>5
<1>6. CASE /\ ~Ignored(x, c) /\ c.expected[x].type # c.actual[x].type
           /\ pending' = calls /\ Add("type", x)
  <2>1. DifferAs("type", x, c)
    BY <1>1, <1>6 DEF DifferAs
  <2> QED
    BY <1>2, <1>4, <1>6, <2>1
<1>7. CASE /\ ~Ignored(x, c) /\ c.expected[x].type = c.actual[x].type
           /\ c.expected[x].type \in Containers
           /\ pending' = <<Loops(x, c)>> \o calls /\ UNCHANGED differences
  <2> DEFINE f == Loops(x, c)
  <2>1. f \in Calls /\ f.at = x
    BY <1>1, LoopsAre
  <2>2. CallOK(f, c)
    BY <1>1, <1>7, <2>1 DEF CallOK
  <2>3. pending' = <<f>> \o calls
    BY <1>7
  <2>4. \A d \in Differences(c) : Within(x, d.at) => Awaits(f, d)
    BY <1>2, <1>7
  <2> HIDE DEF f
  <2>5. \A d \in Differs : Awaits(f, d) => Within(x, d.at)
    BY <2>1, AwaitsWithin
  <2>6. /\ Stacked(c, pending')
        /\ \A d : Awaited(pending', d) <=> Awaits(f, d) \/ Awaited(calls, d)
    BY <2>1, <2>2, <2>3, OnTop
  <2>7. Divides(c, pending', differences')
    BY <1>7, <2>4, <2>5, <2>6 DEF Divides, DividesAt
  <2> QED
    BY <1>7, <2>6, <2>7
<1>8. CASE /\ ~Ignored(x, c) /\ c.expected[x].type = c.actual[x].type
           /\ c.expected[x].type \notin Containers
           /\ pending' = calls
           /\ IF Tolerated(c.expected[x], c.actual[x], c.policy) \/ c.expected[x] = c.actual[x]
              THEN UNCHANGED differences ELSE Add("value", x)
  <2>1. DifferAs("value", x, c) <=>
          ~(Tolerated(c.expected[x], c.actual[x], c.policy) \/ c.expected[x] = c.actual[x])
    <3>1. /\ c.expected[x].type \in {"int", "float"} =>
               c.expected[x].value \in Int /\ c.actual[x].value \in Int
          /\ c.policy.tolerance \in Int
      BY <1>1, <1>8 DEF Valid, IsValue, Both
    <3> QED
      BY <1>1, <1>8, <3>1 DEF DifferAs, Tolerated
  <2>2. CASE DifferAs("value", x, c)
    BY <1>2, <1>4, <1>8, <2>1, <2>2
  <2>3. CASE ~DifferAs("value", x, c)
    BY <1>2, <1>3, <1>8, <2>1, <2>3
  <2> QED
    BY <2>2, <2>3
<1> QED
  BY <1>5, <1>6, <1>7, <1>8 DEF Call

LEMMA TopOf ==
  ASSUME NEW c, NEW calls, Stacked(c, calls), calls # << >>
  PROVE  /\ Head(calls) \in Calls /\ CallOK(Head(calls), c)
         /\ Ready(Head(calls).at, c, Tail(calls))
         /\ \A d : Awaited(calls, d) <=> Awaits(Head(calls), d) \/ Awaited(Tail(calls), d)
<1> DEFINE top == Head(calls)
           rest == Tail(calls)
<1>1. /\ calls \in Seq(Calls) /\ Len(calls) \in Nat \ {0} /\ top = calls[1] /\ top \in Calls
      /\ rest \in Seq(Calls) /\ Len(rest) = Len(calls) - 1
      /\ \A n \in 1 .. Len(rest) : rest[n] = calls[n + 1]
  BY DEF Stacked
<1> HIDE DEF top, rest
<1>2. /\ 1 \in 1 .. Len(calls)
      /\ \A n \in 1 .. Len(rest) : n + 1 \in 1 .. Len(calls) /\ 1 < n + 1
  BY <1>1
<1>3. \A n \in 1 .. Len(calls) : n = 1 \/ (n - 1 \in 1 .. Len(rest) /\ calls[n] = rest[n - 1])
  <2> SUFFICES ASSUME NEW n \in 1 .. Len(calls), n # 1
               PROVE  n - 1 \in 1 .. Len(rest) /\ calls[n] = rest[n - 1]
    OBVIOUS
  <2>1. n - 1 \in 1 .. Len(rest) /\ (n - 1) + 1 = n
    BY <1>1
  <2> QED
    BY <1>1, <2>1
<1>4. CallOK(top, c) /\ Fits(top.at, c) /\ top.at \in Seq(Steps)
  BY <1>1, <1>2 DEF Stacked, CallOK, Calls
<1>5. \A m \in 1 .. Len(rest) : CallOK(rest[m], c) /\ Left(rest[m], top.at, c)
  BY <1>1, <1>2 DEF Stacked
<1>6. ASSUME NEW n \in 1 .. Len(rest), NEW m \in 1 .. Len(rest), n < m
      PROVE  Left(rest[m], rest[n].at, c)
  <2>1. n + 1 < m + 1
    BY <1>1, <1>6
  <2> QED
    BY <1>1, <1>2, <2>1 DEF Stacked
<1>7. Ready(top.at, c, rest)
  BY <1>1, <1>4, <1>5, <1>6 DEF Ready, Stacked
<1>8. \A d : Awaited(calls, d) <=> Awaits(top, d) \/ Awaited(rest, d)
  BY <1>1, <1>2, <1>3 DEF Awaited
<1> QED
  BY <1>1, <1>4, <1>7, <1>8 DEF top, rest

\* The call on top goes on with less to do.
LEMMA Replaced ==
  ASSUME NEW c, NEW calls, Stacked(c, calls), calls # << >>, NEW f \in Calls,
         f.at = Head(calls).at, f.missing \subseteq Head(calls).missing,
         f.unexpected \subseteq Head(calls).unexpected, f.shared \subseteq Head(calls).shared
  PROVE  /\ CallOK(f, c) /\ Ready(f.at, c, Tail(calls)) /\ Stacked(c, <<f>> \o Tail(calls))
         /\ \A d : Awaited(<<f>> \o Tail(calls), d) <=> Awaits(f, d) \/ Awaited(Tail(calls), d)
<1>1. CallOK(Head(calls), c) /\ Ready(f.at, c, Tail(calls))
  BY TopOf
<1>2. CallOK(f, c)
  BY <1>1 DEF CallOK
<1> QED
  BY <1>1, <1>2, OnTop

\* What one awaited difference less makes.
LEMMA TakenOff ==
  ASSUME NEW c, NEW before, NEW after, NEW list, NEW more, NEW e \in Differs,
         Once(list), Divides(c, before, list),
         \A d \in Differs : Awaited(before, d) <=> Awaited(after, d) \/ d = e,
         ~Awaited(after, e),
         IF e \in Differences(c) THEN more = Append(list, e) ELSE more = list
  PROVE  Once(more) /\ Divides(c, after, more)
<1>1. ~Found(list, e)
  BY DEF Divides
<1>2. CASE e \in Differences(c)
  <2>1. more = Append(list, e)
    BY <1>2
  <2>2. Once(more) /\ \A d \in Differs : Found(more, d) <=> Found(list, d) \/ d = e
    BY <1>1, <2>1, OneMore, Zenon
  <2> QED
    BY <1>2, <2>2 DEF Divides
<1>3. CASE e \notin Differences(c)
  BY <1>3 DEF Divides
<1> QED
  BY <1>2, <1>3

\* The least by rank.
LEMMA FirstIs ==
  ASSUME NEW keys \in SUBSET Steps, keys # {}
  PROVE  First(keys) \in keys
<1> DEFINE ranks == {Rank[key] : key \in keys}
<1>1. Rank \in [Steps -> Nat]
  BY CompareAssumption
<1>2. ranks \in SUBSET Nat /\ ranks # {}
  BY <1>1
<1>3. \E x \in ranks : \A y \in ranks : x <= y
  <2> HIDE DEF ranks
  <2> QED
    BY <1>2, LeastOf
<1>4. PICK key \in keys : \A other \in keys : Rank[key] <= Rank[other]
  BY <1>3
<1> QED
  BY <1>4 DEF First

\* The position of a child: the call on top has made the call it is in.
LEMMA ReadyBelow ==
  ASSUME NEW c, NEW f \in Calls, CallOK(f, c), NEW calls, Ready(f.at, c, calls),
         NEW key \in Loops(f.at, c).shared \ f.shared
  PROVE  Ready(Append(f.at, key), c, <<f>> \o calls)
<1> DEFINE x == Append(f.at, key)
           all == <<f>> \o calls
<1>1. key \in Steps /\ f.at \in Seq(Steps) /\ x \in Both(c)
  BY DEF Loops, Keys, Calls, Both
<1>2. x \in Seq(Steps) /\ Above(x) = Above(f.at) \cup {f.at} /\ Within(f.at, x) /\ Within(x, x)
  BY <1>1, ChildIs, AboveChild, WithinItself DEF Within
<1>3. Fits(x, c)
  BY <1>1, <1>2 DEF Fits, CallOK
<1>4. Stacked(c, all)
  BY OnTop
<1>5. Left(f, x, c)
  BY <1>2 DEF Left
<1>6. ASSUME NEW m \in 1 .. Len(calls) PROVE Left(calls[m], x, c)
  <2>1. calls[m] \in Calls /\ Left(calls[m], f.at, c)
    BY DEF Ready, Stacked
  <2>2. PICK other \in Loops(calls[m].at, c).shared \ calls[m].shared :
          Within(Append(calls[m].at, other), f.at)
    BY <2>1 DEF Left
  <2>3. other \in Steps /\ calls[m].at \in Seq(Steps)
    BY <2>1, <2>2 DEF Loops, Keys, Calls
  <2>4. Append(calls[m].at, other) \in Seq(Steps)
    BY <2>3, ChildIs
  <2>5. Within(Append(calls[m].at, other), x)
    BY <1>1, <1>2, <2>2, <2>4, WithinWithin
  <2> QED
    BY <2>2, <2>5 DEF Left
<1>7. ASSUME NEW m \in 1 .. Len(all) PROVE Left(all[m], x, c)
  <2>1. calls \in Seq(Calls)
    BY DEF Ready, Stacked
  <2>2. \/ m = 1 /\ all[m] = f
        \/ m # 1 /\ m - 1 \in 1 .. Len(calls) /\ all[m] = calls[m - 1]
    BY <2>1
  <2> QED
    BY <1>5, <1>6, <2>2
<1> QED
  BY <1>2, <1>3, <1>4, <1>7 DEF Ready
----------------------------------------------------------------------------
\* A key of one side less to go through, and the difference it is.
Less(f, what, key) == [f EXCEPT ![what] = @ \ {key}]
OneSide(f, what, key) == [what |-> what, at |-> Append(f.at, key)]

\* It is one unless ignored.
LEMMA SideIs ==
  ASSUME NEW c, Valid(c), NEW f \in Calls, CallOK(f, c), NEW key,
         NEW what \in {"missing", "unexpected"}, key \in f[what]
  PROVE  /\ OneSide(f, what, key) \in Differs
         /\ OneSide(f, what, key) \in Differences(c) <=> ~Ignored(Append(f.at, key), c)
<1> DEFINE y == Append(f.at, key)
           all == Loops(f.at, c)
<1>1. /\ f.at \in Seq(Steps) /\ f.missing \subseteq all.missing
      /\ f.unexpected \subseteq all.unexpected
  BY DEF Calls, CallOK
<1>2. CASE what = "missing"
  <2>1. key \in all.missing
    BY <1>1, <1>2
  <2>2. /\ key \in Steps /\ y \in DOMAIN c.expected \ DOMAIN c.actual
        /\ c.expected[f.at].type = "dict"
    BY <2>1 DEF Loops, Keys
  <2>3. y \in Seq(Steps) /\ Above(y) = Above(f.at) \cup {f.at} /\ Parent(y) = f.at
    BY <1>1, <2>2, ChildIs, AboveChild
  <2>4. DifferAs("missing", y, c)
    BY <2>2, <2>3 DEF DifferAs
  <2>5. Reached(y, c) <=> ~Ignored(y, c)
    BY <2>3 DEF Reached, CallOK, Fits
  <2> QED
    BY <1>2, <2>2, <2>3, <2>4, <2>5 DEF Differences, Differs, OneSide
<1>3. CASE what = "unexpected"
  <2>1. key \in all.unexpected
    BY <1>1, <1>3
  <2>2. /\ key \in Steps /\ y \in DOMAIN c.actual \ DOMAIN c.expected
        /\ c.actual[f.at].type = "dict"
    BY <2>1 DEF Loops, Keys, CallOK
  <2>3. y \in Seq(Steps) /\ Above(y) = Above(f.at) \cup {f.at} /\ Parent(y) = f.at
    BY <1>1, <2>2, ChildIs, AboveChild
  <2>4. DifferAs("unexpected", y, c)
    BY <2>2, <2>3 DEF DifferAs
  <2>5. Reached(y, c) <=> ~Ignored(y, c)
    BY <2>3 DEF Reached, CallOK, Fits
  <2> QED
    BY <1>3, <2>2, <2>3, <2>4, <2>5 DEF Differences, Differs, OneSide
<1> QED
  BY <1>2, <1>3

\* It and nothing else is awaited no more.
LEMMA SideLess ==
  ASSUME NEW f \in Calls, NEW key, NEW what \in {"missing", "unexpected"}, key \in f[what],
         NEW c, CallOK(f, c)
  PROVE  /\ Less(f, what, key) \in Calls /\ Less(f, what, key).at = f.at
         /\ Less(f, what, key).missing \subseteq f.missing
         /\ Less(f, what, key).unexpected \subseteq f.unexpected
         /\ Less(f, what, key).shared \subseteq f.shared
         /\ \A d \in Differs :
              Awaits(f, d) <=> Awaits(Less(f, what, key), d) \/ d = OneSide(f, what, key)
         /\ ~Awaits(Less(f, what, key), OneSide(f, what, key))
<1> DEFINE less == Less(f, what, key)
           e == OneSide(f, what, key)
<1>1. /\ f.at \in Seq(Steps) /\ f.missing \subseteq Steps /\ f.unexpected \subseteq Steps
      /\ f.shared \subseteq Steps /\ key \in Steps
      /\ f = [at |-> f.at, missing |-> f.missing, unexpected |-> f.unexpected,
              shared |-> f.shared]
  BY DEF Calls
<1>2. /\ less \in Calls /\ less.at = f.at /\ less.shared = f.shared
      /\ what = "missing" => less.missing = f.missing \ {key} /\ less.unexpected = f.unexpected
      /\ what = "unexpected" => less.unexpected = f.unexpected \ {key} /\ less.missing = f.missing
  BY <1>1 DEF Calls, Less
<1>3. e.what = what /\ e.at = Append(f.at, key) /\ e.at \in Seq(Steps) /\ e.at # f.at
      /\ Within(e.at, e.at)
  <2> DEFINE y == Append(f.at, key)
  <2>1. y \in Seq(Steps)
    BY <1>1, ChildIs
  <2>2. Within(y, y)
    BY <2>1, WithinItself
  <2>3. y # f.at
    BY <1>1, <2>1, <2>2, WithinChild
  <2> QED
    BY <2>1, <2>2, <2>3 DEF OneSide
<1>4. \A other \in Steps : Append(f.at, other) = e.at => other = key
  BY <1>1, <1>3, ChildIs
<1>5. \A other \in Steps : Within(Append(f.at, other), e.at) => other = key
  <2>1. Within(Append(f.at, key), e.at)
    BY <1>3
  <2> HIDE DEF e
  <2> QED
    BY <1>1, <1>3, <2>1, OneStep
<1>6. key \notin f.shared
  BY DEF CallOK, Loops
<1>7. \A d \in Differs : d = e <=> d.what = what /\ d.at = e.at
  BY <1>3 DEF Differs, OneSide
<1> HIDE DEF less, e
<1>8. \A d \in Differs : Awaits(f, d) <=> Awaits(less, d) \/ d = e
  BY <1>1, <1>2, <1>3, <1>7 DEF Awaits
<1>9. ~Awaits(less, e)
  <2>1. CASE what = "missing"
    BY <2>1, <1>1, <1>2, <1>3, <1>4, <1>5, <1>6 DEF Awaits
  <2>2. CASE what = "unexpected"
    BY <2>2, <1>1, <1>2, <1>3, <1>4, <1>5, <1>6 DEF Awaits
  <2> QED
    BY <2>1, <2>2
<1> QED
  BY <1>2, <1>8, <1>9 DEF less, e

LEMMA SideKeeps ==
  ASSUME ComparisonInv, NEW what \in {"missing", "unexpected"}, CompareSide(what)
  PROVE  /\ Stacked(comparison, pending') /\ Once(differences')
         /\ Divides(comparison, pending', differences')
<1> DEFINE c == comparison
           top == Head(pending)
           rest == Tail(pending)
           key == First(top[what])
           less == Less(top, what, key)
           child == Append(top.at, key)
           e == OneSide(top, what, key)
<1>1. /\ pending # << >> /\ top[what] # {} /\ pending' = <<less>> \o rest
      /\ IF Ignored(child, c) THEN differences' = differences
         ELSE differences' = Append(differences, e)
  BY DEF CompareSide, Add, Less, OneSide
<1>2. /\ top \in Calls /\ CallOK(top, c) /\ Ready(top.at, c, rest)
      /\ \A d : Awaited(pending, d) <=> Awaits(top, d) \/ Awaited(rest, d)
  BY <1>1, TopOf DEF ComparisonInv
<1>3. key \in top[what]
  <2>1. top[what] \in SUBSET Steps
    BY <1>2 DEF Calls
  <2> QED
    BY <1>1, <2>1, FirstIs
<1> HIDE DEF key, top, rest
<1>4. Valid(c)
  BY DEF ComparisonInv
<1>5. e \in Differs /\ (e \in Differences(c) <=> ~Ignored(child, c))
  BY <1>2, <1>3, <1>4, SideIs
<1>6. /\ less \in Calls /\ less.at = top.at /\ less.missing \subseteq top.missing
      /\ less.unexpected \subseteq top.unexpected /\ less.shared \subseteq top.shared
      /\ \A d \in Differs : Awaits(top, d) <=> Awaits(less, d) \/ d = e
      /\ ~Awaits(less, e)
  BY <1>2, <1>3, SideLess
<1> HIDE DEF less
<1>7. /\ Stacked(c, pending')
      /\ \A d : Awaited(pending', d) <=> Awaits(less, d) \/ Awaited(rest, d)
  BY <1>1, <1>6, Replaced DEF ComparisonInv, top, rest
<1>8. ~Awaited(rest, e)
  <2>1. Within(top.at, e.at)
    BY <1>2, <1>3, ChildIs DEF Calls, Within, OneSide
  <2> QED
    BY <1>2, <1>5, <2>1, NotAwaited
<1> HIDE DEF e
<1>9. /\ \A d \in Differs : Awaited(pending, d) <=> Awaited(pending', d) \/ d = e
      /\ ~Awaited(pending', e)
  BY <1>2, <1>5, <1>6, <1>7, <1>8
<1>10. IF e \in Differences(c) THEN differences' = Append(differences, e)
       ELSE differences' = differences
  BY <1>1, <1>5
<1>11. Once(differences) /\ Divides(c, pending, differences)
  BY <1>1 DEF ComparisonInv
<1>12. Once(differences') /\ Divides(c, pending', differences')
  <2> HIDE DEF c
  <2> QED
    BY <1>5, <1>9, <1>10, <1>11, TakenOff
<1> QED
  BY <1>7, <1>12

LEMMA SharedKeeps ==
  ASSUME ComparisonInv, CompareShared
  PROVE  /\ Stacked(comparison, pending') /\ Once(differences')
         /\ Divides(comparison, pending', differences')
<1> DEFINE c == comparison
           top == Head(pending)
           rest == Tail(pending)
           key == First(top.shared)
           less == [top EXCEPT !.shared = @ \ {key}]
           x == Append(top.at, key)
           calls == <<less>> \o rest
<1>1. pending # << >> /\ top.shared # {} /\ Call(x, c, calls)
  BY DEF CompareShared
<1>2. top.missing = {} /\ top.unexpected = {}
  BY DEF CompareShared
<1>3. /\ Valid(c) /\ Stacked(c, pending) /\ Once(differences)
      /\ Divides(c, pending, differences)
  BY <1>1 DEF ComparisonInv
<1>4. /\ top \in Calls /\ CallOK(top, c)
      /\ \A d : Awaited(pending, d) <=> Awaits(top, d) \/ Awaited(rest, d)
  BY <1>1, <1>3, TopOf
<1>5. key \in top.shared
  <2>1. top.shared \in SUBSET Steps
    BY <1>4 DEF Calls
  <2> QED
    BY <1>1, <2>1, FirstIs
<1> HIDE DEF key, top, rest
<1>6. /\ less \in Calls /\ less.at = top.at /\ less.missing = top.missing
      /\ less.unexpected = top.unexpected /\ less.shared = top.shared \ {key}
  BY <1>4 DEF Calls
<1> HIDE DEF less
<1>7. /\ CallOK(less, c) /\ Ready(less.at, c, rest) /\ Stacked(c, calls)
      /\ \A d : Awaited(calls, d) <=> Awaits(less, d) \/ Awaited(rest, d)
  BY <1>1, <1>3, <1>6, Replaced DEF top, rest
<1>8. key \in Loops(less.at, c).shared \ less.shared
  BY <1>4, <1>5, <1>6 DEF CallOK
<1>9. x = Append(less.at, key)
  BY <1>6
<1> HIDE DEF x
<1>10. Ready(x, c, calls)
  BY <1>6, <1>7, <1>8, <1>9, ReadyBelow
<1>11. ASSUME NEW d \in Differs
       PROVE  Awaits(top, d) <=> Awaits(less, d) \/ Within(x, d.at)
  <2>1. x = Append(top.at, key)
    BY <1>6, <1>9
  <2> QED
    BY <1>2, <1>5, <1>6, <2>1 DEF Awaits
<1>12. DividesAt(x, c, calls, differences)
  <2> SUFFICES ASSUME NEW d \in Differs
               PROVE  Found(differences, d)
                        <=> d \in Differences(c) /\ ~Awaited(calls, d) /\ ~Within(x, d.at)
    BY DEF DividesAt
  <2>1. Found(differences, d) <=> d \in Differences(c) /\ ~Awaited(pending, d)
    BY <1>3 DEF Divides
  <2>2. Awaited(pending, d) <=> Awaited(calls, d) \/ Within(x, d.at)
    BY <1>4, <1>7, <1>11
  <2> QED
    BY <2>1, <2>2
<1> HIDE DEF c, calls
<1>13. Stacked(c, pending') /\ Once(differences') /\ Divides(c, pending', differences')
  BY <1>1, <1>3, <1>10, <1>12, CallKeeps
<1> QED
  BY <1>13 DEF c

LEMMA ReturnKeeps ==
  ASSUME ComparisonInv, CompareReturn
  PROVE  /\ Stacked(comparison, pending') /\ Once(differences')
         /\ Divides(comparison, pending', differences')
<1> DEFINE c == comparison
           top == Head(pending)
           rest == Tail(pending)
           e == [what |-> "length", at |-> top.at]
<1>1. /\ pending # << >> /\ pending' = rest
      /\ top.missing = {} /\ top.unexpected = {} /\ top.shared = {}
      /\ IF c.expected[top.at].type = "list" /\ Keys(c.expected, top.at) # Keys(c.actual, top.at)
         THEN differences' = Append(differences, e) ELSE differences' = differences
  BY DEF CompareReturn, Add
<1>2. /\ Valid(c) /\ Stacked(c, pending) /\ Once(differences)
      /\ Divides(c, pending, differences)
  BY <1>1 DEF ComparisonInv
<1>3. /\ top \in Calls /\ CallOK(top, c) /\ Ready(top.at, c, rest)
      /\ \A d : Awaited(pending, d) <=> Awaits(top, d) \/ Awaited(rest, d)
  BY <1>1, <1>2, TopOf
<1> HIDE DEF top, rest
<1>4. top.at \in Seq(Steps) /\ Fits(top.at, c) /\ ~Ignored(top.at, c) /\ top.at \in Both(c)
  BY <1>3 DEF Calls, CallOK, Fits
<1>5. e \in Differs /\ Within(top.at, e.at)
  BY <1>4, WithinItself DEF Differs
<1>6. e \in Differences(c)
        <=> c.expected[top.at].type = "list" /\ Keys(c.expected, top.at) # Keys(c.actual, top.at)
  <2>1. DifferAs("length", top.at, c)
          <=> c.expected[top.at].type = "list" /\ Keys(c.expected, top.at) # Keys(c.actual, top.at)
    BY <1>3, <1>4 DEF DifferAs, CallOK
  <2>2. DifferAs("length", top.at, c) => e \in Differences(c)
    BY <1>2, <1>4, FoundHere
  <2>3. e \in Differences(c) => DifferAs("length", top.at, c)
    BY DEF Differences
  <2> QED
    BY <2>1, <2>2, <2>3
<1>7. \A d \in Differs : Awaits(top, d) <=> d = e
  BY <1>1 DEF Awaits, Differs
<1> HIDE DEF e
<1>8. /\ \A d \in Differs : Awaited(pending, d) <=> Awaited(pending', d) \/ d = e
      /\ ~Awaited(pending', e)
  <2>1. ~Awaited(rest, e)
    BY <1>3, <1>5, NotAwaited
  <2> QED
    BY <1>1, <1>3, <1>7, <2>1
<1>9. IF e \in Differences(c) THEN differences' = Append(differences, e)
      ELSE differences' = differences
  BY <1>1, <1>6
<1>10. Stacked(c, pending')
  BY <1>1, <1>3 DEF Ready
<1> HIDE DEF c
<1>11. Once(differences') /\ Divides(c, pending', differences')
  BY <1>2, <1>5, <1>8, <1>9, TakenOff
<1> QED
  BY <1>10, <1>11 DEF c

----------------------------------------------------------------------------
\* The keys that are sorted.
LEMMA ComesOnTop ==
  ASSUME NEW calls \in Seq(Calls), NEW f \in Calls, NEW x, NEW c
  PROVE  Comes(<<f>> \o calls, x, c) <=> WillSort(f, x, c) \/ Comes(calls, x, c)
<1> DEFINE all == <<f>> \o calls
<1>1. /\ Len(all) = Len(calls) + 1 /\ all[1] = f /\ Len(calls) \in Nat
      /\ \A n \in 1 .. Len(calls) : all[n + 1] = calls[n]
  OBVIOUS
<1> HIDE DEF all
<1>2. \A n \in 1 .. Len(all) : n = 1 \/ (n - 1 \in 1 .. Len(calls) /\ all[n] = calls[n - 1])
  <2> SUFFICES ASSUME NEW n \in 1 .. Len(all), n # 1
               PROVE  n - 1 \in 1 .. Len(calls) /\ all[n] = calls[n - 1]
    OBVIOUS
  <2>1. n - 1 \in 1 .. Len(calls) /\ (n - 1) + 1 = n
    BY <1>1
  <2> QED
    BY <1>1, <2>1
<1>3. 1 \in 1 .. Len(all) /\ \A n \in 1 .. Len(calls) : n + 1 \in 1 .. Len(all)
  BY <1>1
<1>4. Comes(all, x, c) <=> WillSort(f, x, c) \/ Comes(calls, x, c)
  BY <1>1, <1>2, <1>3 DEF Comes
<1> QED
  BY <1>4 DEF all

LEMMA ComesOffTop ==
  ASSUME NEW c, NEW calls, Stacked(c, calls), calls # << >>, NEW x
  PROVE  Comes(calls, x, c) <=> WillSort(Head(calls), x, c) \/ Comes(Tail(calls), x, c)
<1>1. /\ calls \in Seq(Calls) /\ Head(calls) \in Calls /\ Tail(calls) \in Seq(Calls)
      /\ calls = <<Head(calls)>> \o Tail(calls)
  BY DEF Stacked
<1> DEFINE top == Head(calls)
           rest == Tail(calls)
<1> HIDE DEF top, rest
<1>2. Comes(<<top>> \o rest, x, c) <=> WillSort(top, x, c) \/ Comes(rest, x, c)
  BY <1>1, ComesOnTop DEF top, rest
<1> QED
  BY <1>1, <1>2 DEF top, rest

\* What cannot be sorted is typed, reached and no empty set.
LEMMA UnsortedTyped ==
  ASSUME NEW c, Valid(c), NEW x \in Unsorted(c)
  PROVE  /\ x \in Seq(Steps) /\ x \in Both(c) /\ Reached(x, c)
         /\ c.expected[x].type = "dict" /\ c.actual[x].type = "dict"
         /\ ~Sortable(Keys(c.actual, x) \ Keys(c.expected, x))
  BY Positions DEF Unsorted, Both

\* A call that is made for a position does not lose what is within it.
LEMMA CallSorts ==
  ASSUME NEW c, Valid(c), NEW x \in Seq(Steps), NEW calls \in Seq(Calls), Call(x, c, calls),
         NEW y \in Unsorted(c), Within(x, y) \/ Comes(calls, y, c)
  PROVE  Comes(pending', y, c)
<1>1. /\ y \in Seq(Steps) /\ y \in Both(c) /\ Reached(y, c)
      /\ c.expected[y].type = "dict" /\ c.actual[y].type = "dict"
  BY UnsortedTyped
<1>2. Loops(x, c) \in Calls /\ Loops(x, c).at = x
  BY LoopsAre
<1>3. pending' \in {calls, <<Loops(x, c)>> \o calls}
  BY DEF Call
<1>4. CASE Comes(calls, y, c)
  <2>1. CASE pending' = calls
    BY <1>4, <2>1
  <2>2. CASE pending' = <<Loops(x, c)>> \o calls
    BY <1>2, <1>4, <2>2, ComesOnTop
  <2> QED
    BY <1>3, <2>1, <2>2
<1>5. CASE Within(x, y)
  <2>1. x \in Above(y) \cup {y}
    BY <1>1, <1>5, WithinAbove
  <2>2. /\ ~Ignored(x, c) /\ c.expected[x].type = c.actual[x].type
        /\ c.expected[x].type \in Containers
    BY <1>1, <2>1 DEF Reached, Containers
  <2>3. pending' = <<Loops(x, c)>> \o calls
    BY <2>2 DEF Call
  <2>4. WillSort(Loops(x, c), y, c)
    <3>1. CASE x = y
      BY <1>1, <3>1 DEF WillSort, Loops, Keys
    <3>2. CASE x # y
      <4>1. PICK key \in Steps : Within(Append(x, key), y)
        BY <1>1, <1>5, <3>2, StepBelow
      <4>2. Append(x, key) \in Seq(Steps)
        BY ChildIs
      <4>3. Append(x, key) \in Above(y) \cup {y}
        BY <1>1, <4>1, <4>2, WithinAbove
      <4>4. Append(x, key) \in Both(c)
        BY <1>1, <4>3 DEF Reached
      <4>5. key \in Loops(x, c).shared
        BY <4>4 DEF Loops, Keys, Both
      <4> QED
        BY <1>2, <4>1, <4>5 DEF WillSort
    <3> QED
      BY <3>1, <3>2
  <2> QED
    BY <1>2, <2>3, <2>4, ComesOnTop
<1> QED
  BY <1>4, <1>5

\* A step that does not raise takes nothing off that was still to be sorted.
LEMMA StepSorts ==
  ASSUME ComparisonInv, pending # << >>,
         \/ \E what \in {"missing", "unexpected"} : CompareSide(what)
         \/ CompareShared
         \/ CompareReturn
  PROVE  Sorts(comparison, pending')
<1> DEFINE c == comparison
           top == Head(pending)
           rest == Tail(pending)
<1>1. Valid(c) /\ Stacked(c, pending) /\ Sorts(c, pending)
  BY DEF ComparisonInv
<1>2. SUFFICES ASSUME NEW y \in Unsorted(c) PROVE Comes(pending', y, c)
  BY DEF Sorts
<1>3. WillSort(top, y, c) \/ Comes(rest, y, c)
  BY <1>1, ComesOffTop DEF Sorts
<1>4. top \in Calls /\ rest \in Seq(Calls)
  BY <1>1 DEF Stacked
<1>5. y \in Seq(Steps) /\ ~Sortable(Keys(c.actual, y) \ Keys(c.expected, y))
  BY <1>1, UnsortedTyped
<1>6. ASSUME Sortable(top.unexpected), WillSort(top, y, c)
      PROVE  \E key \in top.shared : Within(Append(top.at, key), y)
  BY <1>5, <1>6 DEF WillSort
<1>7. ASSUME NEW what \in {"missing", "unexpected"}, CompareSide(what) PROVE Comes(pending', y, c)
  <2> DEFINE key == First(top[what])
             less == Less(top, what, key)
  <2>1. pending' = <<less>> \o rest /\ (what = "unexpected" => Sortable(top.unexpected))
    BY <1>7 DEF CompareSide, Less
  <2>2. /\ less \in Calls /\ less.at = top.at /\ less.shared = top.shared
        /\ what = "missing" => less.unexpected = top.unexpected
    BY <1>4 DEF Calls, Less
  <2> HIDE DEF less, top, rest
  <2>3. WillSort(top, y, c) => WillSort(less, y, c)
    BY <1>6, <2>1, <2>2 DEF WillSort
  <2> QED
    BY <1>3, <1>4, <2>1, <2>2, <2>3, ComesOnTop
<1>8. CASE CompareShared
  <2> DEFINE key == First(top.shared)
             less == [top EXCEPT !.shared = @ \ {key}]
             x == Append(top.at, key)
  <2>1. /\ top.unexpected = {} /\ top.shared # {} /\ Call(x, c, <<less>> \o rest)
    BY <1>8 DEF CompareShared
  <2>2. key \in Steps /\ top.at \in Seq(Steps)
    <3>1. top.shared \in SUBSET Steps /\ top.at \in Seq(Steps)
      BY <1>4 DEF Calls
    <3> QED
      BY <2>1, <3>1, FirstIs
  <2>3. x \in Seq(Steps)
    BY <2>2, ChildIs
  <2>4. less \in Calls /\ less.at = top.at /\ less.shared = top.shared \ {key}
    BY <1>4 DEF Calls
  <2>5. Sortable(top.unexpected)
    BY <2>1 DEF Sortable
  <2> HIDE DEF less, top, rest, key
  <2>6. WillSort(top, y, c) => WillSort(less, y, c) \/ Within(x, y)
    BY <1>6, <2>4, <2>5 DEF WillSort
  <2>7. Within(x, y) \/ Comes(<<less>> \o rest, y, c)
    BY <1>3, <1>4, <2>4, <2>6, ComesOnTop
  <2>8. <<less>> \o rest \in Seq(Calls)
    BY <1>4, <2>4
  <2> HIDE DEF x, c
  <2> QED
    BY <1>1, <2>1, <2>3, <2>7, <2>8, CallSorts
<1>9. CASE CompareReturn
  <2>1. pending' = rest /\ top.unexpected = {} /\ top.shared = {}
    BY <1>9 DEF CompareReturn
  <2>2. ~WillSort(top, y, c)
    BY <1>6, <2>1 DEF Sortable
  <2> QED
    BY <1>3, <2>1, <2>2
<1> QED
  BY <1>7, <1>8, <1>9

\* It raises at a dictionary that cannot be sorted.
LEMMA RaiseKeeps ==
  ASSUME ComparisonInv, CompareRaise
  PROVE  ComparisonInv'
<1> DEFINE c == comparison
           top == Head(pending)
<1>1. /\ pending # << >> /\ c' = c /\ ~Sortable(top.unexpected)
      /\ pending' = << >> /\ differences' = << >> /\ raised' = TRUE
  BY DEF CompareRaise
<1>2. Valid(c) /\ Stacked(c, pending) /\ comparison # NoComparison
  BY <1>1 DEF ComparisonInv
<1>3. top \in Calls /\ CallOK(top, c)
  BY <1>1, <1>2, TopOf
<1> HIDE DEF top
<1>4. top.unexpected \subseteq Loops(top.at, c).unexpected
  BY <1>3 DEF CallOK
<1>5. Loops(top.at, c).unexpected \subseteq Keys(c.actual, top.at) \ Keys(c.expected, top.at)
  BY DEF Loops
<1>6. c.expected[top.at].type = "dict"
  <2>1. top.unexpected # {}
    BY <1>1 DEF Sortable
  <2> QED
    BY <1>4, <2>1 DEF Loops
<1>7. ~Sortable(Keys(c.actual, top.at) \ Keys(c.expected, top.at))
  BY <1>1, <1>4, <1>5 DEF Sortable
<1>8. Reached(top.at, c) /\ top.at \in Both(c) /\ c.actual[top.at].type = "dict"
  BY <1>3, <1>6 DEF CallOK, Fits, Reached
<1>9. top.at \in Unsorted(c)
  BY <1>6, <1>7, <1>8 DEF Unsorted
<1>10. Once(<< >>)
  BY DEF Once
<1> QED
  BY <1>1, <1>2, <1>9, <1>10 DEF ComparisonInv
----------------------------------------------------------------------------
\* The call from outside is for the whole of both.
LEMMA ReadyAtTop ==
  ASSUME NEW c, Valid(c)
  PROVE  /\ Ready(<< >>, c, << >>) /\ Once(<< >>) /\ DividesAt(<< >>, c, << >>, << >>)
<1>1. << >> \in Both(c)
  BY DEF Valid, IsValue, Both
<1>2. Above(<< >>) = {}
  BY DEF Above
<1>3. Ready(<< >>, c, << >>)
  BY <1>1, <1>2 DEF Ready, Fits, Stacked
<1>4. \A d \in Differs : Within(<< >>, d.at) /\ ~Found(<< >>, d)
  BY DEF Within, Found, Differs
<1> QED
  BY <1>3, <1>4 DEF Once, DividesAt

LEMMA StartKeeps ==
  ASSUME ComparisonInv, CompareStart
  PROVE  ComparisonInv'
<1>1. PICK expected \in Values, actual \in Answers, policy \in Policies :
        /\ comparison' = [expected |-> expected, actual |-> actual, policy |-> policy]
        /\ Call(<< >>, [expected |-> expected, actual |-> actual, policy |-> policy], << >>)
  BY DEF CompareStart
<1> DEFINE c == [expected |-> expected, actual |-> actual, policy |-> policy]
<1>2. Valid(c)
  BY CompareAssumption DEF Valid
<1>3. pending = << >> /\ differences = << >>
  BY DEF CompareStart, ComparisonInv
<1>4. comparison' = c /\ Call(<< >>, c, << >>)
  BY <1>1
<1>5. c = NoComparison => pending' = << >> /\ differences' = << >>
  BY <1>3, <1>4 DEF Call, NoComparison, Null, Ignored, Containers
<1> HIDE DEF c
<1>6. Stacked(c, pending') /\ Once(differences') /\ Divides(c, pending', differences')
  BY <1>2, <1>3, <1>4, ReadyAtTop, CallKeeps
<1>7. Sorts(c, pending')
  <2>1. << >> \in Seq(Steps) /\ << >> \in Seq(Calls) /\ \A y \in Unsorted(c) : Within(<< >>, y)
    BY <1>2, UnsortedTyped DEF Within
  <2> QED
    BY <1>2, <1>4, <2>1, CallSorts DEF Sorts
<1>8. raised' = FALSE
  BY DEF CompareStart, ComparisonInv
<1> QED
  BY <1>2, <1>4, <1>5, <1>6, <1>7, <1>8 DEF ComparisonInv

LEMMA ComparisonInitial == CompareInit => ComparisonInv
<1> SUFFICES ASSUME CompareInit PROVE ComparisonInv
  OBVIOUS
<1> DEFINE c == NoComparison
<1>1. comparison = c /\ pending = << >> /\ differences = << >> /\ raised = FALSE
  BY DEF CompareInit
<1>2. Valid(c)
  <2>1. << >> \in Seq(Steps)
    OBVIOUS
  <2> QED
    BY <2>1 DEF Valid, IsValue, NoComparison, Null
<1>3. ASSUME NEW d \in Differences(c) PROVE FALSE
  <2>1. d.at = << >> /\ DifferAs(d.what, d.at, c)
    BY <1>3 DEF Differences, NoComparison, Null
  <2> QED
    BY <2>1 DEF DifferAs, Both, NoComparison, Null
<1>4. Stacked(c, << >>) /\ Once(<< >>) /\ Divides(c, << >>, << >>)
  BY <1>3 DEF Stacked, Once, Divides, Found
<1>5. Sorts(c, << >>)
  <2>1. ASSUME NEW x \in Unsorted(c) PROVE FALSE
    <3>1. x = << >> /\ c.expected[x].type = "dict"
      BY DEF Unsorted, Both, NoComparison, Null
    <3> QED
      BY <3>1 DEF NoComparison, Null
  <2> QED
    BY <2>1 DEF Sorts
<1> QED
  BY <1>1, <1>2, <1>4, <1>5 DEF ComparisonInv

LEMMA ComparisonNext ==
  ASSUME ComparisonInv, CompareStep \/ UNCHANGED compareVars
  PROVE  ComparisonInv'
<1>1. ASSUME pending # << >>, UNCHANGED <<comparison, raised>>, Sorts(comparison, pending'),
             Stacked(comparison, pending') /\ Once(differences')
               /\ Divides(comparison, pending', differences')
      PROVE  ComparisonInv'
  BY <1>1 DEF ComparisonInv
<1>2. CASE CompareStart
  BY <1>2, StartKeeps
<1>3. ASSUME NEW what \in {"missing", "unexpected"}, CompareSide(what) PROVE ComparisonInv'
  <2>1. pending # << >> /\ UNCHANGED <<comparison, raised>>
    BY <1>3 DEF CompareSide
  <2>2. Sorts(comparison, pending')
    BY <1>3, <2>1, StepSorts
  <2> QED
    BY <1>1, <1>3, <2>1, <2>2, SideKeeps
<1>4. CASE CompareShared
  <2>1. pending # << >> /\ UNCHANGED <<comparison, raised>>
    BY <1>4 DEF CompareShared
  <2>2. Sorts(comparison, pending')
    BY <1>4, <2>1, StepSorts
  <2> QED
    BY <1>1, <1>4, <2>1, <2>2, SharedKeeps
<1>5. CASE CompareReturn
  <2>1. pending # << >> /\ UNCHANGED <<comparison, raised>>
    BY <1>5 DEF CompareReturn
  <2>2. Sorts(comparison, pending')
    BY <1>5, <2>1, StepSorts
  <2> QED
    BY <1>1, <1>5, <2>1, <2>2, ReturnKeeps
<1>6. CASE UNCHANGED compareVars
  BY <1>6 DEF compareVars, ComparisonInv
<1>7. CASE CompareRaise
  BY <1>7, RaiseKeeps
<1> QED
  BY <1>2, <1>3, <1>4, <1>5, <1>6, <1>7 DEF CompareStep

LEMMA InvIsExact == ComparisonInv => ComparisonExact
<1> SUFFICES ASSUME ComparisonInv, pending = << >> PROVE
       /\ raised <=> Unsorted(comparison) # {}
       /\ ~raised => {differences[n] : n \in DOMAIN differences} = Differences(comparison)
       /\ \A n, m \in DOMAIN differences : differences[n] = differences[m] => n = m
  BY DEF ComparisonExact
<1>1. /\ Valid(comparison) /\ Once(differences)
      /\ ~raised => Divides(comparison, pending, differences)
  BY DEF ComparisonInv
<1>2. differences \in Seq(Differs) /\ DOMAIN differences = 1 .. Len(differences)
  BY <1>1 DEF Once
<1>3. \A d : ~Awaited(pending, d)
  BY DEF Awaited
<1>4. ~raised => \A d \in Differs : Found(differences, d) <=> d \in Differences(comparison)
  BY <1>1, <1>3 DEF Divides
<1>5. Differences(comparison) \subseteq Differs
  BY <1>1, DifferencesTyped
<1>6. \A n \in DOMAIN differences : differences[n] \in Differs
  BY <1>2
<1>7. raised <=> Unsorted(comparison) # {}
  BY DEF ComparisonInv, Sorts, Comes
<1>8. ~raised => {differences[n] : n \in DOMAIN differences} = Differences(comparison)
  BY <1>1, <1>2, <1>4, <1>5, <1>6 DEF Found
<1> QED
  BY <1>1, <1>2, <1>7, <1>8 DEF Once

\* For any values, answers and policies, at any depth: compare_values raises if it meets
\* keys that sorted cannot order, and otherwise reports every place where the values
\* differ once, and nothing else.
THEOREM ComparisonCorrect == RegressionSpec => []ComparisonExact
<1>1. RegressionInit => ComparisonInv
  BY ComparisonInitial DEF RegressionInit
<1>2. ComparisonInv /\ [RegressionNext]_<<evaluationVars, compareVars>> => ComparisonInv'
  BY ComparisonNext DEF RegressionNext
<1> QED
  BY <1>1, <1>2, InvIsExact, PTL DEF RegressionSpec

\* What is proved of the evaluation holds with the comparisons of its replays.
THEOREM RegressionEvaluates == RegressionSpec => EvaluationSpec
<1>1. RegressionInit => EvaluationInit
  BY DEF RegressionInit
<1>2. [RegressionNext]_<<evaluationVars, compareVars>> => [EvaluationNext]_evaluationVars
  BY DEF RegressionNext
<1> QED
  BY <1>1, <1>2, PTL DEF RegressionSpec, EvaluationSpec
=============================================================================
