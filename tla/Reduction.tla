----------------------------- MODULE Reduction ------------------------------
(***************************************************************************)
(* FailureReducer.reduce: ddmin over the units of a package (fields of the *)
(* input, recorded tool returns, files), with its cache and the table of   *)
(* trials its sink (PostgresReductionStore.record_trial) writes.           *)
(*                                                                         *)
(* Units are numbered in the order of _units, so a candidate, a            *)
(* subsequence of them, is a set of numbers; it stands for its hash too.   *)
(* The oracle is external: each run of it may answer anything, the same    *)
(* for the same candidate or not, or raise.                                *)
(***************************************************************************)
EXTENDS Integers, FiniteSets

CONSTANTS Size,           \* units of the largest package
          Packages,       \* what callers reduce
          StabilityRuns,  \* FailureReducer.stability_runs
          Required,       \* FailureReducer.required_signature
          Answers,        \* what the oracle may return: signatures, or None
          MaxReductions   \* bound: calls of reduce on one reducer

Units == 1 .. Size
Candidates == SUBSET Units

ASSUME SizeAssumption == Size \in Nat /\ Packages \subseteq Candidates
\* With no runs at all() holds of nothing: see the hazards.
ASSUME RunsAssumption == StabilityRuns \in Nat \ {0}
ASSUME AnswersAssumption == Required \in Answers
ASSUME ReductionsAssumption == MaxReductions \in Nat

VARIABLES pc,          \* "idle", "baseline" or "candidate" (in a trial), "scan"
          current,     \* what ddmin has reduced the package to
          partitions,  \* how many chunks it is cut into
          start,       \* where the chunk to be left out next begins
          candidate,   \* what the trial is about
          observed,    \* the answers of its runs so far
          runs,        \* and their number
          cache,       \* cache[c]: "unknown", "reproduces" or "fails"
          trials,      \* trials of this reducer
          result,      \* of the last reduce: how it ended, and its package
          reductions,  \* calls of reduce so far
          table,       \* rows of reduction_trials
          heard        \* heard[c]: the answers in the latest trial of c

search == <<current, partitions, start>>
trial == <<candidate, observed, runs>>
memory == <<cache, trials, table, heard>>
vars == <<pc, search, trial, memory, result, reductions>>

NoResult == [status |-> "none", package |-> {}]

Init ==
  /\ pc = "idle" /\ current = {} /\ partitions = 2 /\ start = 0
  /\ candidate = {} /\ observed = {} /\ runs = 0
  /\ cache = [c \in Candidates |-> "unknown"]
  /\ heard = [c \in Candidates |-> {}]
  /\ trials = 0 /\ table = {} /\ reductions = 0
  /\ result = NoResult

Length == Cardinality(current)
\* math.ceil(len(current) / partitions)
ChunkSize == (Length + partitions - 1) \div partitions
Position(u) == Cardinality({v \in current : v < u})
Complement == {u \in current : Position(u) \notin start .. start + ChunkSize - 1}

StartTrial(c, for) ==
  /\ pc' = for
  /\ candidate' = c /\ observed' = {} /\ runs' = 0

Return(status, package) ==
  /\ pc' = "idle"
  /\ result' = [status |-> status, package |-> package]
----------------------------------------------------------------------------
\* reduce is called; an empty package is inconclusive, another one is tried
\* first whatever the cache says (bypass_cache).
Reduce(package) ==
  /\ pc = "idle"
  /\ reductions < MaxReductions /\ reductions' = reductions + 1
  /\ current' = package /\ partitions' = 2 /\ start' = 0
  /\ IF package = {}
     THEN Return("inconclusive", {}) /\ UNCHANGED trial
     ELSE StartTrial(package, "baseline") /\ result' = NoResult
  /\ UNCHANGED memory

InTrial == pc \in {"baseline", "candidate"}

\* One run in a newly restored workspace.
Run(answer) ==
  /\ InTrial /\ runs < StabilityRuns
  /\ observed' = observed \cup {answer} /\ runs' = runs + 1
  /\ UNCHANGED <<pc, search, candidate, memory, result, reductions>>

\* The oracle, or restoring the workspace, raises.
RunRaises ==
  /\ InTrial /\ runs < StabilityRuns
  /\ Return("raised", {})
  /\ UNCHANGED <<search, trial, memory, reductions>>

\* Mutant of Verdict: any() for all().
VerdictAny == IF Required \in observed THEN "reproduces" ELSE "fails"

Verdict == IF observed = {Required} THEN "reproduces" ELSE "fails"

\* record_trial: ON CONFLICT (job_id, candidate_hash) DO NOTHING.
Recorded ==
  IF \E row \in table : row.candidate = candidate THEN table
  ELSE table \cup {[candidate |-> candidate, verdict |-> Verdict]}

Remember ==
  /\ runs = StabilityRuns
  /\ cache' = [cache EXCEPT ![candidate] = Verdict]
  /\ heard' = [heard EXCEPT ![candidate] = observed]
  /\ trials' = trials + 1

\* What ddmin does with the answer for a candidate.
Shrink(c) ==
  /\ current' = c /\ start' = 0
  /\ partitions' = IF partitions > 3 THEN partitions - 1 ELSE 2
NextChunk == start' = start + ChunkSize /\ UNCHANGED <<current, partitions>>

JudgeBaseline ==
  /\ pc = "baseline" /\ Remember
  /\ table' = Recorded
  /\ IF Verdict = "reproduces"
     THEN pc' = "scan" /\ UNCHANGED result
     ELSE Return("inconclusive", {})
  /\ UNCHANGED <<search, trial, reductions>>

JudgeCandidate ==
  /\ pc = "candidate" /\ Remember
  /\ table' = Recorded
  /\ pc' = "scan"
  /\ IF Verdict = "reproduces" THEN Shrink(candidate) ELSE NextChunk
  /\ UNCHANGED <<trial, result, reductions>>

\* The trial is over and in the cache; the sink raises.
SinkRaises ==
  /\ InTrial /\ Remember
  /\ Return("raised", {})
  /\ UNCHANGED <<table, search, trial, reductions>>

Chunked == pc = "scan" /\ Length >= 2

\* Mutant of AskCandidate: the cache is not looked at.
AskUncached ==
  /\ Chunked /\ start < Length /\ Complement # {}
  /\ StartTrial(Complement, "candidate")
  /\ UNCHANGED <<search, memory, result, reductions>>

AskCandidate ==
  /\ Chunked /\ start < Length /\ Complement # {}
  /\ cache[Complement] = "unknown"
  /\ StartTrial(Complement, "candidate")
  /\ UNCHANGED <<search, memory, result, reductions>>

\* The cache answers.  (Nothing is left without the chunk: the next one.  With two
\* partitions or more that does not happen.)
CacheHit ==
  /\ Chunked /\ start < Length
  /\ Complement = {} \/ cache[Complement] # "unknown"
  /\ IF Complement # {} /\ cache[Complement] = "reproduces"
     THEN Shrink(Complement) ELSE NextChunk
  /\ UNCHANGED <<pc, trial, memory, result, reductions>>

\* Mutant of Refine: a new pass over the same chunks.
RefineSame ==
  /\ Chunked /\ start >= Length /\ partitions < Length
  /\ start' = 0
  /\ UNCHANGED <<pc, current, partitions, trial, memory, result, reductions>>

\* No chunk could be left out: smaller chunks.
Refine ==
  /\ Chunked /\ start >= Length /\ partitions < Length
  /\ partitions' = IF 2 * partitions < Length THEN 2 * partitions ELSE Length
  /\ start' = 0
  /\ UNCHANGED <<pc, current, trial, memory, result, reductions>>

\* Mutant of Conclude: after the first pass that reduces nothing.
ConcludeEarly ==
  /\ pc = "scan"
  /\ Length < 2 \/ start >= Length
  /\ Return("succeeded", current)
  /\ UNCHANGED <<search, trial, memory, reductions>>

Conclude ==
  /\ pc = "scan"
  /\ Length < 2 \/ (start >= Length /\ partitions >= Length)
  /\ Return("succeeded", current)
  /\ UNCHANGED <<search, trial, memory, reductions>>

Proceed ==
  \/ \E answer \in Answers : Run(answer)
  \/ RunRaises
  \/ JudgeBaseline
  \/ JudgeCandidate
  \/ SinkRaises
  \/ AskCandidate
  \/ CacheHit
  \/ Refine
  \/ Conclude

Next == (\E package \in Packages : Reduce(package)) \/ Proceed

\* A reduction that was called goes on; the oracle is assumed to return or raise.
Spec == Init /\ [][Next]_vars /\ WF_vars(Proceed)
----------------------------------------------------------------------------
TypeOK ==
  /\ pc \in {"idle", "baseline", "candidate", "scan"}
  /\ current \in Candidates /\ candidate \in Candidates
  /\ result.package \in Candidates
  /\ result.status \in {"none", "raised", "inconclusive", "succeeded"}
  /\ partitions \in Nat \ {0} /\ start \in Nat /\ runs \in 0 .. StabilityRuns
  /\ observed \subseteq Answers
  /\ cache \in [Candidates -> {"unknown", "reproduces", "fails"}]
  /\ heard \in [Candidates -> SUBSET Answers]

\* README "A candidate only reproduces when all stability runs return the original
\* normalized failure signature": the package of a reduction that succeeded was
\* tried, and every run of its latest trial returned the required signature, also
\* when ddmin took it from the cache and after earlier reductions that failed.
ResultReproduces ==
  result.status = "succeeded" => heard[result.package] = {Required}

\* What ddmin is for: no unit of the result can be left out.  Each package with
\* one unit less was tried, and some run did not return the signature.
OneMinimal ==
  result.status = "succeeded" =>
    \A u \in result.package :
      LET less == result.package \ {u} IN
      less # {} => heard[less] \notin {{}, {Required}}

\* Candidates that were tried, those of them whose trial has no row, and those whose
\* row has another verdict than the latest trial.
Known == {c \in Candidates : cache[c] # "unknown"}
Unstored == {c \in Known : \A row \in table : row.candidate # c}
Outdated == {c \in Known : \E row \in table : row.candidate = c /\ row.verdict # cache[c]}

\* None, or fewer than the calls of reduce.
Few(n) == n \in Nat /\ (n = 0 \/ n < reductions)

\* tests/integration/test_postgres.py asserts trials == result.trials of the rows of
\* a job, and the cache is what ddmin goes by: how far the two may be apart, however
\* often the reducer is used and its sink raises.  A candidate has one row at most,
\* and only after a trial.  A trial goes without a row only when the sink raised in it,
\* so at most one in each call of reduce; a candidate is tried again, and its row
\* outdated, only by the baseline of a later call.  In the first call nothing is
\* missing unless it raises.
TrialsStored ==
  /\ \A row \in table : row.candidate \in Known
  /\ \A q, r \in table : q.candidate = r.candidate => q = r
  /\ Few(trials - Cardinality(Known)) /\ Few(Cardinality(Outdated))
  /\ IF result.status = "raised"
     THEN Cardinality(Unstored) <= reductions
     ELSE Few(Cardinality(Unstored))

\* Every reduction ends, whatever the oracle answers.
ReductionEnds == pc # "idle" ~> pc = "idle"
============================================================================
