# A verification of ReplayScope

ReplayScope records the runs of AI agents: every call of a model or a tool becomes an event of a
*trace*, with its request and result kept in a content-addressed store (CAS). A trace is a hash
chain; it is replayed, compared, reduced and evaluated later. This directory holds TLA+ models of
the code in `src/src/replayscope/`, TLC runs on small instances, and proofs for all instances.

In short:

- the repository of traces keeps, in memory and over PostgreSQL, an append-only log that is closed
  once; the PostgreSQL transactions implement the in-memory repository (proved);
- a list of events that passes `verify_event_chain` is the list that was recorded (proved);
- a file of the CAS is whole or absent, whatever fails (proved), but a blob whose reference was
  handed out can be lost by a power failure (run `power_loss`);
- recording by any number of threads, with failures between any two calls, leaves a log whose
  references resolve, that begins with its preamble, accounts for every answered call and says how
  the trace ended (proved);
- what a reader accepts is one state of the trace, though it reads twice (proved);
- what a failure reduction returns reproduces and is one-minimal by the answers its oracle gave, also
  with a cache and an oracle that contradicts itself (proved), and every reduction ends (checked);
- a replay rebuilds, event by event, exactly what the recorded deltas say, in every mode; under which
  conditions a recorded replay matches and raises, and a faithful fresh replay matches, is stated and
  proved; what a replay reads and verifies first, and can raise on, is part of it;
- a bundle that is accepted holds all that a replay reads; writing one fails only on a lost blob, or on a
  reference that a request, a result or JSON they name holds and no capture does (proved);
- what an evaluation leaves in its tables when traces are deleted beside it, the p95, and the weighted
  score of each repetition when the cases of a trace agree on its weight, are as meant (proved);
- four places where the code does not do what its documents say (see *Findings*).

## The system

| Component | Keeps | Operations | Talks to |
|---|---|---|---|
| hash chain (`canonical.py`, `integrity.py`) | nothing | `event_hash`, `verify_event_chain` | called by the repository and by readers |
| trace repository (`repository.py`, `schema.sql`) | rows of `traces`, `trace_events`, `blobs` | `create_trace`, `register_blob`, `append_event`, `finish_trace`, `set_workspace_refs`, `get_trace`, `events` | in memory under an `RLock`, or PostgreSQL through a pool |
| content-addressed store (`cas.py`) | one file per digest | `put_bytes`, `put_json`, `get_bytes`, `get_json`, `has` | file system |
| recorder (`recorder.py`) | nothing of its own | `start`, `record_model_call`, `record_tool_call`, `capture_delta`, `finish` | CAS first, then the repository |
| workspace (`workspace.py`) | a directory tree | `capture_workspace`, `diff_manifests`, `restore_workspace`, `apply_delta` | CAS |
| replay engine (`replay.py`, `compare.py`) | two temporary workspaces, divergences | `replay` in three modes | repository, CAS, adapters, result store |
| failure reducer (`reduction.py`, `persistence.py`) | cache of candidates, trials | `reduce`: ddmin | CAS, an oracle, the trial store |
| evaluation (`evaluation.py`, `persistence.py`) | observations, a report | `evaluate`, `compare_reports` | replay engine, report store |
| bundles (`bundle.py`) | an archive | `export_trace`, `inspect_bundle`, `export_reduction` | repository, CAS |
| result stores (`results.py`, `persistence.py`) | replay runs, divergences | `save` | PostgreSQL |
| migration (`database.py`) | the schema version | `migrate` | PostgreSQL |

What is hard in it: clients that append to the same trace and wait for the lock of its row; a
transaction of two writes that may fail between them; readers that read twice; a write protocol on a
file system with two views, memory and disk; a recorder whose operations are sequences of calls on
two stores, any of which may fail or be interleaved with another thread's. What makes each part
correct:

- *hash chain*: verification passes on what was recorded and on nothing else;
- *repository*: a log only grows at its end, and only while its trace records; one outcome;
  every committed chain verifies; waiting appends are answered;
- *CAS*: a file is never torn; a reference is handed out only for a blob that is there; errors clean up;
- *recorder*: references in events and rows resolve at every moment; a trace begins with its
  environment and checkpoint; answered calls are logged; a closed row is explained by its log;
- *readers*: what is accepted is one state of the trace, and a finished trace is never refused
  because of the writers;
- *reducer*: the reduced package reproduced in every run of its trial, no unit of it can be left
  out, the stored trials are those ddmin went by, within stated limits, and ddmin ends;
- *workspace and replay*: applying what `diff` made of two captures to the first gives the second; a
  recorded replay matches exactly when finish captured what the deltas come to; a faithful fresh replay
  matches but for redaction; nothing is concluded from damaged bytes;
- *comparison*: each difference is reported once, at its place, and nothing else is; keys that do not
  compare raise;
- *bundles*: what is accepted holds all a replay reads; a failed export is not mistaken for one;
- *evaluation*: a report is stored whole or not at all, linked to the replays it is about; weights
  and percentile are the ones meant.

`PROJECT.json` lists the hazards at their lines, with the properties that watch them.

## The modules

| Module | Models | State | Actions |
|---|---|---|---|
| `Integrity` | `canonical.event_hash`, `_event_payload`, `TraceEvent`'s coercion and the JSONB column of the metadata (`Column`), `verify_event_chain` as a predicate | (operators) | |
| `TraceLog` | what the abstract class `TraceRepository` promises | `log`, `state`, `outcome` | `Create`, `Extend`, `Close` |
| `Repository` | `MemoryTraceRepository` | `traces`, `trace_events`, `refs`, `blobs` = `_traces`, `_events`, `_refs`, `_blobs` | one per operation; the `RLock` makes each atomic |
| `Inspect` | readers next to `Repository` | + `reader` | `GetTrace`, `GetEvents` (with the verdict), `Forget` |
| `PostgresRepository` | `PostgresTraceRepository` | + `lock` (row locks), `tx` (the open `append_event` of a client) | the statements of `append_event`, its refusal, its rollback, its commit; the other operations are single statements |
| `BlobStore` | what a content-addressed store promises | `stored`, `returned` | `Store`, `HandOut`, `PowerFails` |
| `CAS` | `LocalCAS.put_bytes`, `get_bytes` | `target` (the file a digest names), `disk` (as a power failure would leave it), `temp`, `pc`, `blob`, `orphans`, `returned` | one per system call; `RaiseError`, `UnlinkFails` (the unlink in `finally` fails too), `Die`, `WriteBack`, `PowerFailure` |
| `Recorder` | `Recorder` over `Repository` and a store | + `cas`, `captured`, `todo`, `subject`, `known`, `executed`, `answered` | the five operations, each a list of calls; one action per sort of call; `Abandon`, `AppendUnanswered` |
| `ChainAudit` | the loop of `verify_event_chain` on arbitrary lists | `row`, `authentic`, `events`, `position`, `previous`, `verdict` | `BeginAudit`, `CheckEvent`, `CheckHead` |
| `Verification` | a reader, or a call on an edited list | `Inspect` and `ChainAudit` | of either |
| `Reduction` | `FailureReducer.reduce` with `_ddmin` and `_reproduces`, and `record_trial` as its sink | `current`, `partitions`, `start` = the locals of `_ddmin`; `candidate`, `observed`, `runs` = those of `_reproduces`; `cache`, `trials`; `table` = `reduction_trials`; `heard` (history) | the call, a run of the oracle, the end of a trial, a chunk answered by the cache, smaller chunks, the end; oracle and sink may raise |
| `Workspace` | `capture_workspace`, `diff_manifests`, `restore_workspace`, `apply_delta` | (operators on trees: a function from paths to a file, link, directory or nothing; a manifest is one without directories) | |
| `Recording` | what `Recorder` logs of one run and its workspace, by contents | `tree`, `log`, `manifests` (what the caller can pass to `capture_delta`), `disturbances` | `StartRun`, `CallRecorded`, `DeltaCaptured`, `FinishRun`; `Disturb`: somebody changes a file between them |
| `Replay` | `ReplayEngine.replay` | `counted` (the `event_count` of the row it read), `workspace`, `expected`, `position`, `divergences`, `mode` = its locals; `pc`; `sound`, `damaged` (which blobs fail their digests); `faithful`, `interfered` (history) | `Begin` (the two reads, `verify_event_chain` and the check of referred payloads), one per sort of event, `RaiseStep`, `Conclude` |
| `Bundle` | `export_trace`, `_references`, `inspect_bundle` | `row`, `events` = its two reads; `left`, `nested`, `references` = what `_references` has still to search and has found; `archive` (what is at the destination), `lost`, `stage` | `ReadRow`, `ReadEvents`; `Search` of what an event refers to, `SearchNested` of JSON named there, `SearchFails`; `Open`, `AddBlob` per blob, `Close` |
| `Readers` | replay or export, beside the recording | all of these | |
| `Compare` | `compare_values` | `comparison` (its arguments), `pending` (the stack of its calls on containers, with what their loops have still to go through), `differences` (the list it returns), `raised` | `CompareStart`; `CompareSide`, `CompareShared`: a key of one side, of both; `CompareRaise`: the keys of one side cannot be sorted; `CompareReturn` |
| `Evaluation` | `RegressionEvaluator.evaluate`, `ReplayCaseRunner`, `PostgresReplayResultStore.save`, `PostgresEvaluationStore.save`, and the foreign keys of their tables | `suite`, `repetitions`, `observations`, `report` = its locals; `timings` (how long each run takes); `found` (the replay under way); `traces`, `replayRuns` (with the rows of `divergences`), `evaluationRuns`, `evaluationObservations` = tables; `stage` | `Evaluate`, then `ReplayCase`, `SaveResult` or `KeepNoResult`, `Observe` per case, `CallRaises` at any of them, `Report`, `SaveReport` or `ReturnReport`; `DeleteTrace` at any moment |
| `Regression` | an evaluation whose replays find what `Compare` says | both | |

They compose like this:

    TraceLog  <== Repository <== PostgresRepository       BlobStore <== CAS
                   |      |                                   :
                Inspect  Recorder  . . . . . . . . . . . . . .
    Integrity is extended by Repository and by ChainAudit          <==  implements
    Verification extends Inspect and ChainAudit
    Reduction stands alone: its oracle and its trial sink are arguments of the reducer

    Workspace <-- Recording <-- Replay <--+
                       ^                  +-- Readers      Compare <--+
                       +------- Bundle <--+             Evaluation <--+-- Regression
                                                               <--  is extended by

`Recorder` extends `Repository` and treats each call to it, and each `put`, as atomic. That is what
the two refinements on the right of the arrows justify: `PostgresRepository` implements
`Repository`, and `CAS` implements `BlobStore`, up to a power failure (see *Findings*).

Abstractions, and why they are safe here:

- a hash is the pair of what was hashed: two are equal exactly when payload and previous hash are;
- of an event's body two details are kept, because both may print otherwise when they are read again:
  its cost (`none`, `float`, `int`), which `TraceEvent` coerces after the hash was taken, and its
  metadata, of which a JSONB column keeps the value and not the form of a number (`Column`; in the
  memory repository the identity). `duration_ms` has the type of the cost; the recorder always passes a float;
- a list of events is a function on `0 .. n - 1`, as the code counts, so it is also the table
  `trace_events` keyed by `sequence`;
- a call that raises without changing anything is no step (`TraceNotFound`, `TraceClosed`,
  `BlobTooLarge`, `ValueError`);
- a blob stands for its digest; times, labels and names are left out, and media types but for one
  question, whether `_references` searches a content as JSON. Of a manifest, the files it refers to are kept;
- `Recorder` keeps of `redact`, `capture_environment` and `_store_error` only that they yield a document;
- `Reduction` numbers the units of a package in the order of `_units`. Every candidate of ddmin is a
  subsequence, so it is a set of numbers, and stands for its hash. Of an oracle's answers only
  whether they are the required signature matters; the oracle need not be a function;
- `set_workspace_refs` takes one name at a time, as every caller in the repository does;
- in `Recording` an operation is one step and never fails: `Recorder` shows that interleavings and
  failures leave a log that begins with its preamble, refers to what is stored, and accounts for the calls;
- a replay reads a log that stays as it is: `AcceptedIsSnapshot` shows that what is accepted is one
  state of it, and later events are not looked at. That the row was read
  earlier is `counted`. An export has no such check, so `Bundle` lets the recording go on;
- a payload stands for its reference, a content for its digest, and a request or a result for all of its
  fields but the references in it (`Mentions`: a content, whether with its size, whether as JSON) and
  whether redaction changes it. The documents of the environment and of errors name no contents;
- a path knows the directories it is in; `.git`, `.replayscope`, links to directories and unreadable
  files are left out. A manifest with an unsafe path cannot be one that `capture_workspace` made;
- an exception of an adapter is its signature; an adapter may change the directory it is given before it answers;
- in `Compare` a value is a function from the positions in it to nodes with a type, so that it may be nested
  to any depth; the constant `Text` says how a position prints. Nothing is assumed of `Text`; in the run
  a key `a.b` prints as the two segments of a nested key, which is the ambiguity of the code. Numbers are
  in tenths; NaN is left out. `Kind` says which keys `<` compares. A value that is no JSON is one leaf;
- in `Evaluation` a replay is the divergences it ends with and whether they are JSON; scores are multiples
  of `1/Full`, weights whole numbers, durations any naturals. The index of the p95 is computed in floating
  point: `Rounding` lets `n * 0.95 + 0.999` be off by less than a thousandth either way, far more than two
  roundings of numbers below 10^12 come to;
- PostgreSQL is modelled by what the code uses: a lock per row, taken by `FOR UPDATE` and `UPDATE`
  and held to the end of the transaction, atomic commit, rollback on any error or lost connection,
  the `UNIQUE` constraint, and READ COMMITTED, where an `UPDATE` sees the newest committed row.

## The runs

Run one with `tlc -workers 2 -config MCCAS.cfg MCCAS` in this directory.

| Run | Instance | Distinct states | Shows |
|---|---|---|---|
| `inspect` | 1 trace, 1 reader, 3 bodies (float cost, integer cost, metadata the column prints otherwise), 2 references of one digest, 3 events; and chains of at most 2 events over 2 bodies with every list of at most 3 events out of the recorded ones, the ones of other chains, and copies with another body or sequence | 423 thousand | `TypeOK`; `ChainVerifies`: a trace verifies iff all its events can be recomputed; `AcceptedIsSnapshot`, `ClosedReadsVerify`: the two reads; `DetectsEveryEdit`, `LoopAgrees`: edited lists; `ImplementsTraceLog` |
| `postgres` | 1 trace, 2 clients, 2 events | 7 thousand | `LockedRowUnchanged`: whoever writes holds the row as its `SELECT` read it; `ImplementsRepository`; `AppendAnswered` (liveness) |
| `cas` | 2 writers, 2 blobs, 2 crashes | 10 thousand | `NoTornBlob`, `OrphansFromDeaths`, `ImplementsBlobStore` |
| `recorder` | 2 threads, 1 trace, 4 operations, 5 events, one blob of each sort | 415 thousand | `EventRefsStored`, `RowRefsStored`, `PreambleFirst`, `CallsAccounted`, `ClosedByLog` |
| `reduction` | packages of 4, 2 and 0 units, 2 runs a trial, 2 reductions by one reducer | 432 thousand | `ResultReproduces`, `OneMinimal`, `TrialsStored`; `ReductionEnds` (liveness) |
| `replay` | paths `d` and `d/f`, 3 files and an escaping link, 5 changes, 2 results (one redacted), 1 signature, 1 call, 1 disturbance, 5 events, `d/f` damaged or not, any earlier row | 793 thousand | `TypeOK`, `ExpectedTracks`, `TreesAgree`; `RecordedVerdict`, `RaisesExactly`, `FaithfulMatches`: when a replay matches, raises, diverges; `ConcludesOnSound` |
| `export` | the same paths, 2 changes, 3 requests and a result that name contents captured, foreign, lost or gone, with a size or a wrong one, as JSON or not; 1 call, 5 events, 1 export | 559 thousand | `BundleReplays`, `ExportFailsExactly` |
| `evaluation` | 33 recorded values and 37 answers under 3 policies; 5 suites of up to 2 cases over 2 traces, up to 2 repetitions, 3 scores, 3 findings; stores there or not; and 1 case 1, 19 to 21 or 39 to 41 times, with durations that rise, fall or alternate and every rounding | 414 thousand | `ComparisonExact`; `ObservationsLinked`, `ReportWhole`: tables and deletions; `RepeatScoresWeighted`; `P95IsNearestRank` |
| `dir_to_file` | as `replay` | | violation of `RecordedReplayCompletes` |
| `integer_cost` | as `inspect` | | violation of `EveryChainVerifies` |
| `power_loss` | as `cas` | | violation of `ReturnedSurvives` |
| `closed_refs` | as `recorder`, 3 operations | | violation of `ClosedRefsFrozen` |

Why the bounds suffice:

- *One trace.* No operation reads one trace and writes another; only the registered blobs are
  shared, and they only grow. The theorems cover any number of traces. A second trace makes
  `postgres` too large for a routine run.
- *Three events* (`inspect`) are enough for a list that is longer and one that is shorter than the
  row, with an event between. *Two events* (`postgres`) let both clients commit and a third append
  meet the end of the counter; `MaxEvents` stands for the largest `INTEGER` there.
- *Two clients, writers, threads* show every conflict between two; conflicts here are pairwise,
  because each resource has one holder. The proofs hold for any number.
- *Four operations* let a start be followed by three others that overlap in pairs: two finishes and a
  call, or a call, a delta and a finish. *Five events* are the most that four operations append
  (a start appends two), so this bound never cuts a behaviour short there.
- *Two crashes*: a death and a power failure in either order, or two power failures.
- *Four units* are the least for which ddmin cuts into 2, refines to 4, and goes back to 3 and 2
  chunks, uneven ones among them. *Two reductions* make the cache answer for another package and let
  the baseline, which bypasses it, overturn it; with *two runs* a trial can be mixed.
- *Five events* (`replay`): environment and checkpoint, two deltas or a call and a delta, and the end.
  A third delta adds nothing: `ExpectedTracks` is about one delta after any captured tree, and the
  theorems cover any length. *One call* answers differently, is redacted, fails or writes. *One
  disturbance* puts a change before, between or after two captures. *Two paths*, one inside the other,
  have all the ways a directory, a file and a link replace each other.
- *One export*, at any moment of the recording; with blobs lost or not. What is asked and answered names
  contents that may or may not have been captured, and one that is JSON and names others, which is
  as deep as the search does anything new. A replay and an export share nothing but the recording, so
  each has a run of its own.
- *Two levels* of values have a container in a container, which is where paths, ignored prefixes and
  recursion meet; three keys, one of which renders like another one nested; lists of up to two.
- *Two cases and repetitions*: cases about one trace with equal and with different weights, about two
  traces, deleted before, between and after the replays.
- *Forty-one observations* (`evaluation`): below twenty the nearest rank is the last one, so an index that
  is always the last would pass; at 20 it is the last but one, at 40 the last but two.
  What its replays find no store can save, so only engines without one get that far: which of 41
  replays have a row is not what is asked, and would be 2^41 states.
- *Lists of three* (`inspect`): one longer than the longest chain, so that insertion is covered.

Deadlock is checked in `postgres` and `cas`. `inspect` stops when a call on an edited list has ended,
`recorder` when its operations are used up, `reduction` after its last call, `replay`, `export` and
`evaluation` with the verdict, the archive or the report, so their configurations say `CHECK_DEADLOCK FALSE`.
`recorder` uses symmetry of the threads, which are interchangeable; it checks no liveness.

Every property has a mutant, a definition named *Mutant of ...* that changes the code's action as a
plausible bug would (no `FOR UPDATE`, no `fsync`, no `finally`, the event before its blobs, the
caller answered before the log, ...) and that the run refutes.

### Fairness

`PgSpec` and the `Spec` of `Reduction` have fairness. In `Reduction` it is weak fairness on `Proceed`:
a call of `reduce` is one thread that goes on, and the oracle is assumed to return or raise. Which
answer it gives, and whether it raises, is left open, so `ReductionEnds` holds for a contradictory oracle too.

`PgSpec` has it only on the steps of a transaction that has begun: the client
executes its next statement (weak fairness), and a client that waits for a row gets it (strong
fairness on `AppendSelect`, as PostgreSQL queues the waiters of a row). Nothing makes a client
call, abort or finish. With that, `AppendAnswered` says a waiting append ends, by its commit, by
`TraceClosed` or by an error. Pool exhaustion and a client that hangs inside its transaction are
outside the model: `append_event` does nothing but its statements while it holds the lock.

## Findings

1. **Integer costs break verification** (run `integer_cost`). `append_event` hashes the caller's
   `cost_usd` (`1`) and stores the field of `TraceEvent`, a float (`1.0`, `models.py:82`);
   `verify_event_chain` hashes the field and refuses the untouched trace. `ChainVerifies` says what
   false alarms there are: this one and, over PostgreSQL, metadata with a number that JSONB prints
   otherwise (`repository.py:261`; the recorder passes strings only).
2. **References of a finished trace can change** (run `closed_refs`). `finish` sets the final
   reference (`recorder.py:137`) before `append_event` refuses the finished trace, and
   `set_workspace_refs` does not look at the status. `docs/architecture.md:28` calls observations immutable.
3. **A directory that becomes a file cannot be replayed** (run `dir_to_file`). The delta deletes the
   files and adds the file; `apply_delta` unlinks the files, leaves the directory, finds it in the
   way and calls `unlink` on it (`workspace.py:84`), which raises out of `replay`.
   `docs/architecture.md:22-23`: "Directories are implicit. [...] A recorded replay restores deltas".
   `RaisesExactly` says what else makes a recorded replay raise whose bytes are intact and whose deltas follow on
   each other: `verify_event_chain` (finding 1, or events appended between its reads) and links that lead out.
4. **A power failure can lose a referenced blob** (run `power_loss`). `put_bytes` syncs the file and
   not the directory (`cas.py:42`); `docs/architecture.md:17-18` says that a committed event never
   refers to bytes that were not durably written. What does hold is `NoTornBlob`.

Disagreements seen while modelling, without a run of their own:

- `README.md:115` says an evaluation reports a *weighted* score; `mean_score` (`evaluation.py:128`) is
  the plain mean, and weights enter the deviation between repetitions only.
- Cases about one trace share a weight: `evaluate` keeps weights by trace (`evaluation.py:114`), the last
  case deciding, and divides by the sum over cases (`evaluation.py:113`). With weights 1 and 3 two full
  scores give 1.5, and the deviation between repetitions is computed from such scores. `README.md:114-115`
  speaks of a weighted score; `RepeatScoresWeighted` says which weight counts, and when it is the right one.
- A faithful adapter diverges from a result that redaction changed, or that had a tuple in it, which
  is stored as a list (`FaithfulMatches`, `ComparisonExact`; `replay.py:183`).
- A recorded request or result with a `digest` and a `size` in it can make a trace impossible to export
  (`bundle.py:106`, `ExportFailsExactly`), after the archive at the destination was overwritten: the
  content was never stored, or it was and the `size` is wrong, since the first reference to a content is kept.
- An adapter that answers with new keys of mixed types makes `sorted` raise `TypeError` out of `replay`
  (`compare.py:43`, `ComparisonExact`): the result, with whatever had diverged before, is lost.
- A divergence whose value is no JSON makes `PostgresReplayResultStore.save` raise, so that the replay
  and the whole evaluation end without a result (`results.py:53`; a case of `SaveResult`).
- A damaged file of a manifest is found in the middle of a replay, after adapters have run
  (`replay.py:128` reads what events refer to, not what that refers to); no verdict is reached on it.
  Files that only `finish` captured are never read: their manifest is compared by digest, and a damaged one goes unnoticed until it is exported.

## The proofs

`tlapm RepositoryProofs.tla`, and so on. All hold for every value of the constants, under the
assumptions named in the modules: bodies are records with a cost of a known sort
(`BodiesAssumption`), what was read from the column of the metadata is read again as it is
(`ColumnAssumption`), bounds are naturals, the recorder's bodies and references are among those of the
repository and `None` is none of the other values (`CallerAssumption`), a program has finitely many
threads, and in `ChainAudit` the recorded chains verify, which `ChainsVerify` proves of what the
repository writes. Of the 36 properties that passing runs check, 34 are theorems.

- **`RepositoryProofs`**. `TypeCorrect`: `TypeOK` is inductive; it says that the table of a trace is a
  function on exactly the sequences its row counts. `ChainsVerify`: `ChainVerifies` is not inductive,
  since it says nothing of the hash of an event whose body prints otherwise; `Linked` is: each event holds
  its position, the hash before it, and the hash of a body of which its own body is the stored form, and
  the row holds the head. `LinkedVerifies` derives `ChainVerifies`. `LogImplemented` maps each step to
  one of `TraceLog` or to a stutter.
  *Readers.* What a reader holds is not the present but the past: `ReadersInv` says that the row it
  read counts events the log still begins with and has the hash of the last of them, that a finished
  row is still the row, and that the events it read are a beginning of the log. It
  gives `AcceptedSnapshot`, since a list that verifies has the length of the row, and `ClosedReads`.
  *Transactions.* `PgInv` adds to `LockedRowUnchanged` the types of `tx`. Hence `Commit` is exactly an `AppendEvent` of the
  repository, and every other statement changes no committed table: `TransactionsImplement`.
  `CommittedChains` carries both theorems on the repository over.
  `NoWaitingInCircles` is the safety part of `AppendAnswered`: a locked row is locked by a client that is writing it
  (`HeldByWriters`), and the next statement of that client waits for nobody and meets no duplicate key.
- **`CASProofs`**. `Durable`: what is about to be renamed is synced, and so is everything a digest names on either
  view. It gives `NeverTorn` and, with the blob of a writer at its return, `StoreImplemented`.
  `ErrorsCleanUp`: only a call that dies or whose unlink fails leaves a file, and each counts as a crash.
- **`RecorderProofs`**. An operation is the list of calls it has still to make. `Due(q)` pairs each call
  of such a list with those before it; a step that makes the first call takes it out of the pairs
  (`DueTail`), so each invariant below says of a call that is due what has happened or is due before it, and is
  checked once per operation and once per sort of call.
  `RecorderImplements`: a call is a repository operation, or none; so `RecordedChains`.
  `StoresInv` (`EventsResolve`, `RowsResolve`): what an event or a row is about to refer to is stored and
  registered, or due to be before it, and the files of a manifest are there once it was captured.
  `PreambleInv` (`PreambleComesFirst`): a trace whose `start` has not returned is one thread's business,
  whose calls keep the order environment, reference, checkpoint; any other operation appends neither.
  `ClosedInv` (`LogSaysHowItEnded`): a `finish` that is due has the event that says so before it or in the log;
  that the row may be closed by one thread between another's event and its `finish` is why the
  property speaks of some `run_finished` event and not of the last one.
  `CallsInv` (`EveryCallAccounted`): the calls made and not logged yet, and those logged and not answered
  yet, are counted by the threads that are about to do it; that takes `OneOutcome`, that an operation
  logs once and answers afterwards, once.
- **`ChainAuditProofs`**. `AuditInv`: so far the list is linked from the genesis hash. When the loop accepts, equal
  heads force equal last events, and so on down: `SameEvent` is that step, and the length of the two lists is
  equal by the row's count. It gives `EveryEditDetected` and `LoopDecides`.
  `BothVerify`: a step of the run is one of the readers and writers or one of the loop, so both sets of theorems hold of it.
- **`ReductionProofs`**. `SuccessReproduces` rests on `Agrees` (the cache says what the latest trial heard) and
  `Sound` (what ddmin is at reproduces by the cache). `SuccessMinimal` rests on `Passed`: once chunks are single
  units, each unit left behind in the pass was tried and is needed. `SmallestChunks` shows that ddmin stops
  only with such chunks, since `partitions >= len(current)`; `OneUnitChunk` that leaving out a chunk then
  leaves out one unit. A reduction that shrinks starts the pass again, which is why later answers
  cannot spoil earlier ones: within a pass the cache of an asked candidate does not change.
  `TrialsHaveRows` rests on `RowsInv`, which compares the table with the cache by counting: every trial adds a
  candidate to the cache or is one more repeated trial, which only the baseline of a later call can be, as it
  bypasses the cache; a row goes missing only with the sink's exception, which ends the call. So a first call
  that does not raise leaves no trial without its row, and each later call at most one more outdated or missing.
  `StabilityRuns > 0` is an assumption: with 0, `all()` of nothing holds and everything reproduces.
  `ReductionDescends` is the safety part of `ReductionEnds`: `StepsLeft`, which weighs what is left of the package
  above how much finer it can be cut, that above what is left of the pass, and that above the steps of a trial, is a
  number that each step of a reduction lowers. A chunk that begins inside the package is not empty (`UnitAt`, from
  the pigeonhole principle), so that a candidate that reproduces is shorter, and a pass moves on.
- **`ReplayProofs`**. The two lemmas it stands on are about trees: `RestoreCaptures`, and `ApplyCaptures`:
  when `apply_delta` does not raise on a tree that captures as `before`, the result captures as `after`,
  for any delta `diff_manifests` made of the two. For deltas that do not follow on each other, `ApplySays`: where a
  delta says something of a path the result has it, and elsewhere nothing changes; `RebuiltNext` makes that
  what the events so far said last. `IInv` adds to `TypeOK`, `ExpectedTracks` and `TreesAgree`
  that a log ends with `run_finished` (`LogOK`), where a replay begins and ends (`Bounds`), and that the
  divergences of a recorded replay are the ends passed so far whose manifest is not what the deltas come to
  (`FoundSoFar`): without it the verdict says nothing of how it came about. Hence `ReplayTyped`,
  `ReplayTracksCaptures`, `ReplayTreesAgree` and `RecordedReplayVerdict`; `ReadersReplay`
  carries them to the specification that is checked.
- **`ReadersProofs`**, what readers make of a recorded run.
  `RecordedReplayRaises` needs to know which directories stand in the expected tree.
  `DirectoriesStay`: each is an ancestor of something captured before, since nothing is ever removed but
  files. `SafeSoFar`: no link passed so far leads out. A trace that `verify_event_chain` refuses raises at once (`Passed`,
  `RaisedFor`). So unlink meets a directory exactly when
  one was captured with files in it earlier; and it never meets a file where it needs a directory, as a
  captured tree has no entry in an entry and the delta unlinks first.
  `NoVerdictOnDamage` rests on `Undamaged`: what the events gone through had captured was read by the replay, or was
  captured unchanged before and read then; a delta reads only what it writes.
  `FaithfulReplayMatches` compares two runs step by step. `Undisturbed`: there is a `g` such that `g[n]`
  is the manifest before event `n`, changed by the recorded calls and by nothing else (`Retraces`; `Recaptured` is
  what a change of one path makes of a manifest); `FaithfulSoFar`: the workspace of the replay captures as
  `g[n]` too, and the divergences are the results that redaction altered. The
  tree itself need not be the same: the run may have directories that no capture shows.
  `BundlesReplay` and `ExportsFail` rest on `EInv`: what was read of the trace is still a beginning of its
  log (`ReadKept`); the search has found what is named where it has been, or meets the same payload again, with one
  reference for each content, which a capture or a mention holds (`SearchKept`); the destination holds one
  export's archive, whole or in part, that declares all its events name (`ArchiveKept`); what has been written of it
  was there to be read (`StageKept`); and what captures name was stored (`StoreKept`). A declared reference that cannot be
  read is therefore lost or one that no capture holds. `NestedSuffice` is the step to replay: a delta
  leaves out what had not changed, and that is in its first manifest, which the bundle has as well.
- **`EvaluationProofs`**. `P95Rank` is arithmetic on the division, for any error in `Rounding`: neither clamp
  matters. `RankedReports` adds what sorting does: `SortedIs` shows that the duration at an index exists and is the least
  that more than the index do not exceed (there is a largest one, `LargestOf`, and a least that qualifies, `LeastOf`).
  `EInv` says that a row of `replay_runs` is what its observation says of it, also when there was no store or its trace is gone
  (`Saved`), that the rows of a stored report have their replays (`Referred`, from the foreign keys `SaveReport`
  meets), how far the loops are (`Progress`), that the p95 is at its index (`Ranked`), and `ReportWhole`.
  `Linked` and `DeletionNeverRefused` follow: an observation and the replay it names are about one
  trace, so that no cascade parts them.
  `ScoresWeighted` is about sums of any length. The induction theorems of the library take an operator and
  cannot be used here, but the least-number principle can be drawn from `WellFoundedInduction` on a *set*
  (`LeastOf`); with it, the fold that `Total` is is shown to exist and to have its partial sums (`FoldingExists`,
  `TotalSteps`), and a sum that is 0 outside a block to be that of the block (`TotalOfBlock`). The rest is that the
  observations of repetition `r` are a block (`BlockOf`, `Placed`), and that the last weight given to a trace is
  that of each of its cases when they agree (`WeightIs`).
  *The comparison.* `ComparisonExact` speaks of the end. `ComparisonInv` speaks of the stack: each difference of
  the two values was found, or is awaited by a call under way (`Awaits`: at a key one of its loops has still to
  visit, below such a key, or as its length), and never both (`Divides`). That a call on top cannot find what
  one below still awaits is `LeftBehind`: the calls below have made the call it is in. `BelowCall`
  says of a call that what lies within its position is ignored, found by it, or awaited by the loops it
  sets out on; `CallKeeps` is the whole of one call, and the loops take one awaited difference off at a
  time (`TakenOff`, `SideLess`). That it raises exactly when it should is `Sorts`: a dictionary whose keys cannot be
  sorted is still ahead of the calls under way (`WillSort`) until one comes to it.
  The recursion of the code is the stack of the model, so the proof is by invariance
  over steps and needs no induction over values: `ComparisonCorrect` holds for values of any depth. What it does
  not say is that the comparison ends, which takes finite values. `RegressionEvaluates` carries the theorems
  on the evaluation over to the specification that is checked.

Only model-checked: `AppendAnswered` and `ReductionEnds`, as liveness under fairness, and `ENABLED`, are out of the
prover's reach. What is proved of them is that the steps, when they are made, lead to the end.

## Not modelled

- *Migration* (`database.py`): two processes that migrate an empty database both run the schema; the
  second fails on an existing type and rolls back, which is PostgreSQL's doing and not this code's.
- *A capture beside a tool that writes* (`workspace.py:18`): the manifest can mix moments. No caller in
  `src/` captures while a tool runs, and what a mixed manifest means nothing in the code says.
- *`start` and `finish` of reduction jobs* (single statements that nothing in `src/` joins to the reducer),
  `export_reduction`, bundles made by others, the result stores in memory (a dictionary of copies),
  `compare_reports`, costs and deviations.
- *CLI, configuration, ForgeMCP wrapper, scripts*: no state of their own; the commands call what is
  modelled. *Redaction patterns and failure signatures* as text, and hash collisions.

## Plan

Done: 1. `Integrity`, `TraceLog`, `Repository`, `Inspect`; 2. `PostgresRepository`; 3. `CAS`,
`BlobStore`; 4. `Recorder`; 5. `ChainAudit`, `Verification`; 6. `Reduction`; 7. `Workspace`; 8. `Recording`, `Replay`;
9. `Bundle`, `Readers`; 10. `Compare`, `Evaluation`, `Regression`; 11. the proofs above, which cover
every invariant and action property of the runs.

Left: that a comparison of finite values ends, by a measure as in `ReductionDescends`; costs, deviations and
`compare_reports` of the evaluation; the two statements on `reduction_jobs`.
