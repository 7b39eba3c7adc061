----------------------------- MODULE Recording ------------------------------
(***************************************************************************)
(* What one run leaves in its log when Recorder records it together with   *)
(* its workspace, at the level of contents: each operation is one step,    *)
(* since Recorder shows what interleavings and failures do to it.  A       *)
(* payload stands for its reference.                                       *)
(***************************************************************************)
EXTENDS Workspace, Sequences, FiniteSets

CONSTANTS Requests,    \* what models and tools are asked, as redact leaves it
          Results,     \* what they return
          Redacted,    \* Redacted[r]: what redact leaves of it
          Signatures,  \* failure signatures of what they raise
          Initials,    \* workspaces a run may start in
          Changes,     \* what tools, and others, do to a workspace
          MaxEvents,       \* bounds: events of the log,
          MaxCalls,        \* calls among them,
          MaxDisturbances  \* and changes made by others than tools

Outcomes == Results \cup Signatures

ASSUME RecordingAssumption ==
  /\ Results \cap Signatures = {}
  /\ Redacted \in [Results -> Results]
  /\ Initials \subseteq Trees
  /\ \A change \in Changes : \E p \in Paths : change = Remove(p) \/ \E e \in Entries : change = Put(p, e)
  /\ MaxEvents >= 2 /\ {MaxEvents, MaxCalls, MaxDisturbances} \subseteq Nat

Manifests == {Capture(t) : t \in Trees}

\* The events a log may hold.
WellFormed(event) ==
  \/ event.kind = "environment"
  \/ event.kind = "checkpoint" /\ event.manifest \in Manifests
  \/ /\ event.kind \in {"model_call", "tool_call"} /\ event.change \in Changes \cup {NoChange}
     /\ event.request \in Requests /\ {event.outcome, event.original} \subseteq Outcomes
     /\ event.whole \in BOOLEAN
  \/ /\ event.kind = "workspace_delta" /\ {event.previous, event.current} \subseteq Manifests
     /\ event.delta = Diff(event.previous, event.current)
  \/ event.kind = "run_finished" /\ event.manifest \in Manifests /\ event.workspace \in BOOLEAN

VARIABLES tree,        \* the workspace of the run
          log,         \* its events
          manifests,   \* what capture_workspace has returned to the caller
          disturbances \* how often others than tools have changed the workspace

runVars == <<tree, log, manifests, disturbances>>

RunInit ==
  /\ tree \in Initials
  /\ log = << >>
  /\ manifests = {}
  /\ disturbances = 0

Finished == log # << >> /\ log[Len(log)].kind = "run_finished"

Log(event) ==
  /\ Len(log) < MaxEvents /\ ~Finished
  /\ log' = Append(log, event)

\* start; the caller captures the workspace itself, for capture_delta.
StartRun(workspace) ==
  /\ log = << >>
  /\ log' = <<[kind |-> "environment"]>> \o
            (IF workspace THEN <<[kind |-> "checkpoint", manifest |-> Capture(tree)]>> ELSE << >>)
  /\ manifests' = {Capture(tree)}
  /\ UNCHANGED <<tree, disturbances>>

IsCall(event) == event.kind \in {"model_call", "tool_call"}

\* redact is applied to results; of an exception the signature is kept.
Stored(outcome) == IF outcome \in Results THEN Redacted[outcome] ELSE outcome

\* _record_call; whole: the cost was given as an integer.  (The change and the outcome
\* before redaction are not in the event: they say what a faithful adapter does.)
CallRecorded(kind, request, whole, change, outcome) ==
  /\ log # << >> /\ Cardinality({n \in 1 .. Len(log) : IsCall(log[n])}) < MaxCalls
  /\ CanChange(change, tree) /\ tree' = Change(change, tree)
  /\ Log([kind |-> kind, request |-> request, whole |-> whole,
          outcome |-> Stored(outcome), change |-> change, original |-> outcome])
  /\ UNCHANGED <<manifests, disturbances>>

\* The agent, or somebody else, changes a file between the calls.
Disturb(change) ==
  /\ log # << >> /\ ~Finished
  /\ change # NoChange /\ CanChange(change, tree) /\ tree' = Change(change, tree)
  /\ disturbances < MaxDisturbances /\ disturbances' = disturbances + 1
  /\ UNCHANGED <<log, manifests>>

\* capture_delta.  (current is what it returns; the event refers to the other two.)
DeltaCaptured(previous) ==
  /\ log # << >>
  /\ Log([kind |-> "workspace_delta", previous |-> previous,
          delta |-> Diff(previous, Capture(tree)), current |-> Capture(tree)])
  /\ manifests' = manifests \cup {Capture(tree)}
  /\ UNCHANGED <<tree, disturbances>>

FinishRun(workspace) ==
  /\ log # << >>
  /\ Log([kind |-> "run_finished", workspace |-> workspace, manifest |-> Capture(tree)])
  /\ UNCHANGED <<tree, manifests, disturbances>>

RunStep ==
  \/ \E workspace \in BOOLEAN : StartRun(workspace) \/ FinishRun(workspace)
  \/ \E request \in Requests, outcome \in Outcomes :
       \/ \E whole \in BOOLEAN : CallRecorded("model_call", request, whole, NoChange, outcome)
       \/ \E change \in Changes : CallRecorded("tool_call", request, FALSE, change, outcome)
  \/ \E change \in Changes : Disturb(change)
  \/ \E previous \in manifests : DeltaCaptured(previous)
----------------------------------------------------------------------------
\* The last of some events.
Latest(past) == CHOOSE k \in past : \A j \in past : j <= k

Captures(event) == event.kind \in {"checkpoint", "workspace_delta"}
CapturedBy(event) == IF event.kind = "checkpoint" THEN event.manifest ELSE event.current

\* What the events before n captured last; nothing before the first capture.
Captured(n) ==
  LET past == {k \in 1 .. n - 1 : Captures(log[k])} IN
  IF past = {} THEN EmptyTree ELSE CapturedBy(log[Latest(past)])

\* Each delta begins where the last capture ended.
Chained ==
  \A n \in 1 .. Len(log) :
    log[n].kind = "workspace_delta" => log[n].previous = Captured(n)

\* What a checkpoint or a delta says of a path: what is written there, or that it goes.
Says(event, p) ==
  \/ event.kind = "checkpoint"
  \/ event.kind = "workspace_delta" /\ (event.delta.written[p] # Absent \/ p \in event.delta.deleted)
Said(event, p) ==
  IF event.kind = "checkpoint" THEN event.manifest[p] ELSE event.delta.written[p]

\* What the checkpoint and the deltas before n come to, whatever each delta began
\* with: path by path, what was said of it last.
Rebuilt(n) ==
  [p \in Paths |->
     LET past == {k \in 1 .. n - 1 : Says(log[k], p)} IN
     IF past = {} THEN Absent ELSE Said(log[Latest(past)], p)]
============================================================================
