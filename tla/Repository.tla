----------------------------- MODULE Repository -----------------------------
(***************************************************************************)
(* MemoryTraceRepository: the trace repository whose every operation is    *)
(* atomic under one lock.  A call that raises (TraceNotFound, TraceClosed, *)
(* TraceIntegrityError) changes nothing, so it is no step.                 *)
(*                                                                         *)
(* A row that was not created yet is NoRow; identifiers are fresh UUIDs,   *)
(* so a trace is created once.                                             *)
(***************************************************************************)
EXTENDS Integrity

CONSTANTS Traces,       \* trace identifiers
          Bodies,       \* what callers pass to append_event
          ContentRefs,  \* references to blobs: records with a digest and a size
          Signatures,   \* failure signatures
          None,         \* Python's None
          MaxEvents     \* bound: events appended to one trace

TerminalStatuses == {"succeeded", "failed", "cancelled"}
RefNames == {"initial", "final", "environment"}
Outcomes == TerminalStatuses \X (Signatures \cup {None})

ASSUME BodiesAssumption ==
  \A b \in Bodies : /\ {"cost_usd", "metadata"} \subseteq DOMAIN b
                     /\ b.cost_usd \in CostKinds /\ b.metadata \in DOMAIN Column
ASSUME BoundAssumption == MaxEvents \in Nat

VARIABLES traces,        \* traces[t]: the row of a trace
          trace_events,  \* trace_events[t]: its events, by sequence
          refs,          \* refs[t]: its workspace and environment references
          blobs          \* registered references

repoVars == <<traces, trace_events, refs, blobs>>

NoRow == [status |-> "absent", failure_signature |-> None,
          event_count |-> 0, chain_head |-> Genesis]

Init ==
  /\ traces = [t \in Traces |-> NoRow]
  /\ trace_events = [t \in Traces |-> << >>]
  /\ refs = [t \in Traces |-> [name \in RefNames |-> None]]
  /\ blobs = {}

CreateTrace(t) ==
  /\ traces[t].status = "absent"
  /\ traces' = [traces EXCEPT ![t].status = "recording"]
  /\ UNCHANGED <<trace_events, refs, blobs>>

\* Mutant of RegisterBlob: the sizes are not compared.
RegisterBlobUnchecked(reference) ==
  /\ blobs' = blobs \cup {reference}
  /\ UNCHANGED <<traces, trace_events, refs>>

\* A digest registered before with another size raises TraceIntegrityError.
RegisterBlob(reference) ==
  /\ \A known \in blobs :
       known.digest = reference.digest => known.size = reference.size
  /\ blobs' = blobs \cup {reference}
  /\ UNCHANGED <<traces, trace_events, refs>>

\* The events of t with one more, under the next free sequence.
Extended(t, event) ==
  [n \in 0 .. event.sequence |->
     IF n = event.sequence THEN event ELSE trace_events[t][n]]

\* Mutant of AppendEvent: a finished trace is not refused.
AppendToFinished(t, body) ==
  LET event == NewEvent(traces[t], body) IN
  /\ traces[t].status # "absent"
  /\ traces[t].event_count < MaxEvents
  /\ trace_events' = [trace_events EXCEPT ![t] = Extended(t, event)]
  /\ traces' = [traces EXCEPT ![t] = Advanced(@, event)]
  /\ UNCHANGED <<refs, blobs>>

AppendEvent(t, body) ==
  LET event == NewEvent(traces[t], body) IN
  /\ traces[t].status = "recording"
  /\ traces[t].event_count < MaxEvents
  /\ trace_events' = [trace_events EXCEPT ![t] = Extended(t, event)]
  /\ traces' = [traces EXCEPT ![t] = Advanced(@, event)]
  /\ UNCHANGED <<refs, blobs>>

\* Mutant of FinishTrace: a finished trace can be finished again.
FinishAgain(t, status, signature) ==
  /\ traces[t].status # "absent"
  /\ traces' = [traces EXCEPT ![t].status = status,
                              ![t].failure_signature = signature]
  /\ UNCHANGED <<trace_events, refs, blobs>>

FinishTrace(t, status, signature) ==
  /\ traces[t].status = "recording"
  /\ traces' = [traces EXCEPT ![t].status = status,
                              ![t].failure_signature = signature]
  /\ UNCHANGED <<trace_events, refs, blobs>>

\* The trace must exist; its status is not looked at.
SetWorkspaceRefs(t, name, reference) ==
  /\ traces[t].status # "absent"
  /\ refs' = [refs EXCEPT ![t][name] = reference]
  /\ UNCHANGED <<traces, trace_events, blobs>>

Next ==
  \/ \E t \in Traces :
       \/ CreateTrace(t)
       \/ \E body \in Bodies : AppendEvent(t, body)
       \/ \E status \in TerminalStatuses, signature \in Signatures \cup {None} :
            FinishTrace(t, status, signature)
       \/ \E name \in RefNames, reference \in ContentRefs :
            SetWorkspaceRefs(t, name, reference)
  \/ \E reference \in ContentRefs : RegisterBlob(reference)

Spec == Init /\ [][Next]_repoVars
----------------------------------------------------------------------------
\* Hashes are not typed: any value may be a chain head.
RowOK(row) ==
  row \in [status : {"absent", "recording"} \cup TerminalStatuses,
          failure_signature : Signatures \cup {None},
          event_count : 0 .. MaxEvents,
          chain_head : {row.chain_head}]

\* Types of the tables: the events of a trace are exactly those its row counts
\* (create_trace, append_event), and a digest is registered with one size.
TypeOK ==
  /\ traces = [t \in Traces |-> traces[t]]
  /\ \A t \in Traces : RowOK(traces[t])
  /\ trace_events = [t \in Traces |-> trace_events[t]]
  /\ \A t \in Traces :
       trace_events[t] = [n \in 0 .. traces[t].event_count - 1 |-> trace_events[t][n]]
  /\ refs \in [Traces -> [RefNames -> ContentRefs \cup {None}]]
  /\ blobs \subseteq ContentRefs
  /\ \A r1, r2 \in blobs : r1.digest = r2.digest => r1.size = r2.size

\* The chain of every trace verifies, from its first event to the head its row
\* holds, unless the payload of one of its events cannot be recomputed from the
\* event: whatever the order of create_trace, append_event and finish_trace on
\* all traces, verify_event_chain raises no other false alarm, and it does raise
\* when a cost that is coerced or metadata that the column normalises was hashed.
ChainVerifies ==
  \A t \in Traces :
    VerifyEventChain(traces[t], trace_events[t])
      <=> \A n \in DOMAIN trace_events[t] : Recomputable(trace_events[t][n])

\* docs/architecture.md "its hash covers the canonical event payload plus the
\* previous hash": every chain append_event has written, and nobody has touched
\* since, passes verify_event_chain.
EveryChainVerifies ==
  \A t \in Traces : VerifyEventChain(traces[t], trace_events[t])

\* docs/architecture.md "traces, trace_events, and blobs store immutable
\* observations": a finished trace keeps its references.
ClosedRefsFrozen ==
  [][\A t \in Traces :
       traces[t].status \in TerminalStatuses => refs'[t] = refs[t]]_repoVars

\* The abstract log of each trace and how it ended.
LogOf(t) == [i \in 1 .. traces[t].event_count |-> trace_events[t][i - 1].body]
Finished(t) == traces[t].status \in TerminalStatuses
StateOf(t) == IF Finished(t) THEN "finished" ELSE traces[t].status
OutcomeOf(t) ==
  IF Finished(t) THEN <<traces[t].status, traces[t].failure_signature>> ELSE << >>

Log == INSTANCE TraceLog WITH
         Bodies <- {AsStored(b) : b \in Bodies},
         log <- [t \in Traces |-> LogOf(t)],
         state <- [t \in Traces |-> StateOf(t)],
         outcome <- [t \in Traces |-> OutcomeOf(t)]

\* The repository implements the log: append_event is the only operation that
\* changes the events of a trace, it adds exactly the caller's body, as stored, at
\* the end, finish_trace decides the outcome once, and nothing changes either
\* after that.
ImplementsTraceLog == Log!Spec
============================================================================
