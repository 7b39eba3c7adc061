------------------------------- MODULE Replay -------------------------------
(***************************************************************************)
(* ReplayEngine.replay: the events of a log are gone through once, over    *)
(* two directories.  Both begin as the checkpoint; deltas are applied to   *)
(* expected, and to workspace too unless the replay runs the tools afresh. *)
(* The log is read before the first step (Inspect shows that what is       *)
(* accepted is one state of it), so recording takes no step meanwhile.     *)
(***************************************************************************)
EXTENDS Recording

CONSTANT DamageSets    \* sets of contents whose blobs do not match their digests

ASSUME DamageAssumption == {} \in DamageSets

VARIABLES pc,            \* "idle", "running", "concluded" or "raised"
          mode,
          counted,       \* the event_count that get_trace returned
          position,      \* the next event
          workspace,     \* "actual"
          expected,
          divergences,   \* numbers of the events that diverged
          sound,         \* the payloads events refer to are undamaged
          damaged,       \* damaged contents
          faithful,      \* adapters did what was recorded
          interfered     \* an adapter changed the workspace

replayVars == <<pc, mode, counted, position, workspace, expected, divergences,
                sound, damaged, faithful, interfered>>
fixed == <<mode, counted, sound, damaged>>

Modes == {"recorded", "fresh_model", "fresh_all"}

ReplayInit ==
  /\ pc = "idle" /\ mode = "recorded" /\ counted = 0 /\ position = 1
  /\ workspace = EmptyTree /\ expected = EmptyTree
  /\ divergences = {}
  /\ sound = TRUE /\ damaged = {}
  /\ faithful = TRUE /\ interfered = FALSE

\* verify_event_chain: the hash of a call whose cost was an integer cannot be computed
\* again from the event, and the row may have been read before events were added.
Verifies(count) ==
  /\ count = Len(log)
  /\ \A n \in 1 .. Len(log) : IsCall(log[n]) => ~log[n].whole

\* Mutant of Accepts: payloads are not read beforehand.
AcceptsUnread(count, payloadsSound) == Verifies(count)

\* verify_event_chain and _verify_event_blobs: what the events refer to, not what that
\* refers to in turn.
Accepts(count, payloadsSound) == Verifies(count) /\ payloadsSound

\* get_trace, events and the checks.  The row is read before the events, when it counted
\* no more of them.
Begin(m, count, payloadsSound, damage) ==
  /\ pc = "idle" /\ log # << >>
  /\ mode' = m /\ counted' = count /\ sound' = payloadsSound /\ damaged' = damage
  /\ pc' = IF Accepts(count, payloadsSound) THEN "running" ELSE "raised"
  /\ UNCHANGED <<position, workspace, expected, divergences, faithful, interfered>>

Event == log[position]
At(kinds) == pc = "running" /\ position <= Len(log) /\ Event.kind \in kinds
Advance == position' = position + 1 /\ UNCHANGED <<pc, fixed>>
Diverges(condition) ==
  divergences' = IF condition THEN divergences \cup {position} ELSE divergences

CanRead(entries) == \A p \in Paths : entries[p] # Absent => entries[p].content \notin damaged

CheckpointRestorable ==
  /\ CanRead(Event.manifest)
  /\ CanRestore(Event.manifest, workspace) /\ CanRestore(Event.manifest, expected)

CheckpointStep ==
  /\ At({"checkpoint"}) /\ CheckpointRestorable
  /\ workspace' = Restore(Event.manifest, workspace)
  /\ expected' = Restore(Event.manifest, expected)
  /\ Advance
  /\ UNCHANGED <<divergences, faithful, interfered>>

DeltaApplicable ==
  /\ CanRead(Event.delta.written)
  /\ CanApply(Event.delta, expected)
  /\ mode # "fresh_all" => CanApply(Event.delta, workspace)

\* Mutant of DeltaApplied: only the expected tree is kept up.
DeltaNotApplied(delta) == workspace

DeltaApplied(delta) == IF mode = "fresh_all" THEN workspace ELSE Apply(delta, workspace)

DeltaStep ==
  /\ At({"workspace_delta"}) /\ DeltaApplicable
  /\ expected' = Apply(Event.delta, expected)
  /\ workspace' = DeltaApplied(Event.delta)
  /\ Diverges(mode = "fresh_all" /\ Capture(expected') # Capture(workspace))
  /\ Advance
  /\ UNCHANGED <<faithful, interfered>>

\* Which calls run again.
Fresh(event) ==
  \/ event.kind = "model_call" /\ mode \in {"fresh_model", "fresh_all"}
  \/ event.kind = "tool_call" /\ mode = "fresh_all"

SkipStep ==
  /\ At({"environment", "model_call", "tool_call", "run_finished"})
  /\ ~Fresh(Event)
  /\ Event.kind = "run_finished" => ~Event.workspace
  /\ Advance
  /\ UNCHANGED <<workspace, expected, divergences, faithful, interfered>>

\* _execute_boundary without an adapter.
UnregisteredStep ==
  /\ At({"model_call", "tool_call"}) /\ Fresh(Event)
  /\ Diverges(TRUE)
  /\ faithful' = FALSE
  /\ Advance
  /\ UNCHANGED <<workspace, expected, interfered>>

\* Mutant of Differs: an exception is compared with no exception, and no further.
DiffersInKind(event, outcome) == (event.outcome \in Results) # (outcome \in Results)

\* A result is compared as it is; an exception by its signature.
Differs(event, outcome) == event.outcome # outcome

\* _execute_boundary with an adapter, which may change the workspace it is given.
AnswerStep(change, outcome) ==
  /\ At({"model_call", "tool_call"}) /\ Fresh(Event)
  /\ CanChange(change, workspace) /\ workspace' = Change(change, workspace)
  /\ Diverges(Differs(Event, outcome))
  /\ faithful' = (faithful /\ change = Event.change /\ outcome = Event.original)
  /\ interfered' = (interfered \/ change # NoChange)
  /\ Advance
  /\ UNCHANGED expected

FinishStep ==
  /\ At({"run_finished"}) /\ Event.workspace
  /\ Diverges(Capture(workspace) # Event.manifest)
  /\ Advance
  /\ UNCHANGED <<workspace, expected, faithful, interfered>>

\* What restoring and applying raise leaves replay, and so does what compare_values
\* raises of an answer whose keys it cannot sort.
RaiseStep ==
  /\ \/ At({"checkpoint"}) /\ ~CheckpointRestorable
     \/ At({"workspace_delta"}) /\ ~DeltaApplicable
     \/ At({"model_call", "tool_call"}) /\ Fresh(Event) /\ Event.outcome \in Results
  /\ pc' = "raised"
  /\ UNCHANGED <<fixed, position, workspace, expected, divergences, faithful, interfered>>

Conclude ==
  /\ pc = "running" /\ position > Len(log)
  /\ pc' = "concluded"
  /\ UNCHANGED <<fixed, position, workspace, expected, divergences, faithful, interfered>>

ReplayStep ==
  \/ \E m \in Modes, count \in 0 .. Len(log), payloadsSound \in BOOLEAN, damage \in DamageSets :
       Begin(m, count, payloadsSound, damage)
  \/ CheckpointStep \/ DeltaStep \/ SkipStep \/ UnregisteredStep \/ FinishStep
  \/ \E outcome \in Outcomes :
       \E change \in Changes \cup {NoChange} : AnswerStep(change, outcome)
  \/ RaiseStep \/ Conclude

Record == pc = "idle" /\ RunStep /\ UNCHANGED replayVars
Replays == ReplayStep /\ UNCHANGED runVars

ReplayNext == Record \/ Replays
ReplaySpec == RunInit /\ ReplayInit /\ [][ReplayNext]_<<runVars, replayVars>>
----------------------------------------------------------------------------
matched == divergences = {}

\* Whatever the mode and whatever adapters do, the expected directory holds path by path
\* what the deltas so far said of it last, and when each delta began where the last
\* capture ended that is what the run had captured when the next event was logged:
\* apply_delta undoes nothing else and diff_manifests leaves nothing out.  (Two deltas
\* from one previous manifest come to a tree that may never have been.)
ExpectedTracks ==
  pc = "running" =>
    /\ Capture(expected) = Rebuilt(position)
    /\ Chained => Rebuilt(position) = Captured(position)

\* Unless tools run afresh, the two directories are the same tree, directories
\* included, as long as no model adapter writes into the one it is shown.
TreesAgree ==
  pc = "running" /\ mode # "fresh_all" /\ ~interfered => workspace = expected

\* The ends that finish captured.
Finals == {n \in 1 .. Len(log) : log[n].kind = "run_finished" /\ log[n].workspace}

\* A recorded replay diverges from its own trace exactly when finish captured something
\* else than the deltas come to, and then only there.  When each delta began where the
\* last capture ended, that is when the workspace had changed between the last capture
\* and finish: replay matches what was captured, not what happened.
RecordedVerdict ==
  pc = "concluded" /\ mode = "recorded" =>
    /\ matched <=> \A n \in Finals : log[n].manifest = Rebuilt(n)
    /\ Chained => (matched <=> \A n \in Finals : log[n].manifest = Captured(n))

CapturedEntries ==
  {c \in (1 .. Len(log)) \X Paths :
     Captures(log[c[1]]) /\ CapturedBy(log[c[1]])[c[2]] # Absent}
LinkLedOut == \E c \in CapturedEntries : Unsafe(CapturedBy(log[c[1]])[c[2]])
DirectoryBecameFile ==
  \E c, d \in CapturedEntries : c[1] < d[1] /\ d[2] \in Ancestors[c[2]]

\* A recorded replay of undamaged bytes, each delta beginning where the last capture
\* ended, raises exactly when verify_event_chain refuses the trace (a call with an integer
\* cost; events added between the two reads), a captured link led out of the workspace,
\* or a directory with files in it was captured as a file or link later: nothing else in
\* apply_delta and restore_workspace can fail.
RaisesExactly ==
  /\ pc \in {"concluded", "raised"} /\ mode = "recorded"
  /\ Chained /\ sound /\ damaged = {}
  => (pc = "raised" <=> ~Verifies(counted) \/ LinkLedOut \/ DirectoryBecameFile)

\* A recorded replay of a trace that verifies, whose bytes are intact, and in which no
\* link leads out, completes.
\* (docs/architecture.md:22: "Directories are implicit. [...] A recorded replay restores deltas".)
RecordedReplayCompletes ==
  /\ mode = "recorded" /\ Chained /\ sound /\ damaged = {} /\ ~LinkLedOut
  /\ pc # "idle" => Verifies(counted)
  => pc # "raised"

RedactionShows == \E n \in 1 .. Len(log) : IsCall(log[n]) /\ log[n].outcome # log[n].original

\* When every adapter does again what was recorded, and only tools change the
\* workspace, a fresh replay matches, with one exception: a result that redaction
\* altered is compared with the result before redaction and diverges.
FaithfulMatches ==
  /\ pc = "concluded" /\ mode = "fresh_all" /\ faithful /\ disturbances = 0 /\ Chained
  /\ Len(log) > 1 /\ log[2].kind = "checkpoint"
  => (matched <=> ~RedactionShows)

\* No replay concludes on damaged bytes of what a checkpoint or a delta captured.  Those
\* that events refer to are read before anything runs; those of files only when they are
\* restored, so an adapter may have run by then, but the verdict is never reached.  (Files
\* that only finish captured are never read: their manifest is compared by digest.)
ConcludesOnSound ==
  pc = "concluded" =>
    /\ sound
    /\ Chained => \A c \in CapturedEntries : CapturedBy(log[c[1]])[c[2]].content \notin damaged

\* Everything the variables may hold.
TypeOK ==
  /\ tree \in Trees /\ manifests \subseteq Manifests
  /\ Len(log) <= MaxEvents /\ \A n \in 1 .. Len(log) : WellFormed(log[n])
  /\ disturbances \in 0 .. MaxDisturbances
  /\ pc \in {"idle", "running", "concluded", "raised"} /\ mode \in Modes
  /\ counted \in 0 .. Len(log) /\ position \in 1 .. Len(log) + 1
  /\ workspace \in Trees /\ expected \in Trees
  /\ divergences \subseteq 1 .. Len(log)
  /\ {sound, faithful, interfered} \subseteq BOOLEAN /\ damaged \in DamageSets
=============================================================================
