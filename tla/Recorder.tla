------------------------------ MODULE Recorder ------------------------------
(***************************************************************************)
(* Threads (of one process or of several) that record with Recorder over a *)
(* content-addressed store and a trace repository.  An operation is the    *)
(* list of the calls it makes, in the order of the code; one step makes    *)
(* the next call of one thread, so the operations interleave between any   *)
(* two calls.  Each call is atomic: BlobStore (which CAS implements) and   *)
(* Repository (which PostgresRepository implements) say so.                *)
(*                                                                         *)
(* A blob stands for its digest and its reference.                         *)
(***************************************************************************)
EXTENDS Repository, Sequences, FiniteSets

CONSTANTS Threads,
          Documents,     \* redacted requests and results of calls
          Errors,        \* stored descriptions of exceptions
          Environments,  \* captured environments
          Manifests,     \* captured workspaces
          Deltas,        \* differences of two manifests
          Files,         \* contents of workspace files
          Nested,        \* Nested[m]: the files a manifest or a delta refers to
          Costs,         \* costs of model calls
          Statuses,      \* statuses finish is called with
          MaxOperations  \* bound: operations begun

Blobs == Documents \cup Errors \cup Environments \cup Manifests \cup Deltas \cup Files
Ref(blob) == [digest |-> blob, size |-> 1]
CallKinds == {"model_call", "tool_call"}

ASSUME RecorderAssumption ==
  /\ Nested \in [Manifests \cup Deltas -> SUBSET Files]
  /\ MaxOperations \in Nat
  /\ Costs \subseteq CostKinds /\ Statuses \subseteq TerminalStatuses
  /\ IsFiniteSet(Threads)

\* The recorder's own metadata are strings and None, which every column keeps.
Body(kind, input, output, error, cost, status) ==
  [kind |-> kind, input_ref |-> input, output_ref |-> output, error_ref |-> error,
   cost_usd |-> cost, status |-> status, metadata |-> "plain"]

\* What the recorder passes to append_event, whichever the kind.
RecorderBodies ==
  {Body(kind, input, output, error, cost, status) :
     kind \in {"environment", "checkpoint", "workspace_delta", "run_finished"} \cup CallKinds,
     input, output, error \in Blobs \cup {None},
     cost \in Costs \cup {"none"}, status \in Statuses \cup {None}}

\* The repository is made for callers like the recorder, and None is no value of theirs.
ASSUME CallerAssumption ==
  /\ RecorderBodies \subseteq Bodies
  /\ {Ref(b) : b \in Blobs} \subseteq ContentRefs
  /\ "signature" \in Signatures
  /\ None \notin Blobs \cup Traces /\ None \notin ContentRefs /\ None \notin Signatures

VARIABLES cas,       \* blobs in the content-addressed store
          captured,  \* manifests that capture_workspace has returned
          todo,      \* todo[w]: the calls the operation of w has still to make
          subject,   \* subject[w]: the trace it is about
          begun,     \* operations begun so far
          known,     \* traces whose start has returned
          executed,  \* executed[t]: times the model or a tool was called for t
          answered   \* answered[t]: of those, the ones whose record_* has returned

recorderVars == <<cas, captured, todo, subject, begun, known, executed, answered>>
allVars == <<repoVars, recorderVars>>

RecInit ==
  /\ Init
  /\ cas = {} /\ captured = {} /\ known = {} /\ begun = 0
  /\ todo = [w \in Threads |-> << >>]
  /\ subject = [w \in Threads |-> None]
  /\ executed = [t \in Traces |-> 0]
  /\ answered = [t \in Traces |-> 0]

\* Calls an operation makes.
Put(b) == [call |-> "put", blob |-> b]
Register(b) == [call |-> "register", blob |-> b]
Capture(m) == [call |-> "capture", manifest |-> m]
SetRef(name, b) == [call |-> "set_ref", name |-> name, blob |-> b]
LogEvent(body) == [call |-> "append", body |-> body]
Return(what) == [call |-> "return", what |-> what]

\* Recorder._store; with None there is nothing to store.
Store(b) == IF b = None THEN << >> ELSE <<Put(b), Register(b)>>

\* Mutant of StoreWorkspace: the row refers to the manifest before it is stored.
RefBeforeStore(m, name) ==
  IF m = None THEN << >> ELSE <<Capture(m), SetRef(name, m), Put(m), Register(m)>>

\* store_manifest(capture_workspace(...)), _register and set_workspace_refs, when
\* a workspace was given.
StoreWorkspace(m, name) ==
  IF m = None THEN << >> ELSE <<Capture(m), Put(m), Register(m), SetRef(name, m)>>

\* start, after create_trace.
StartCalls(env, m) ==
  Store(env)
  \o <<SetRef("environment", env), LogEvent(Body("environment", None, env, None, "none", None))>>
  \o StoreWorkspace(m, "initial")
  \o (IF m = None THEN << >>
      ELSE <<LogEvent(Body("checkpoint", None, m, None, "none", None))>>)
  \o <<Return("trace")>>

\* _record_call up to the call of the model or tool.
CallCalls(kind, request, cost) ==
  Store(request) \o <<[call |-> "execute", kind |-> kind, request |-> request, cost |-> cost]>>

\* Mutant of OutcomeCalls: the caller has its result before the event is appended.
AnswerFirst(execute, output, error) ==
  <<Return("result")>> \o Store(output) \o Store(error)
  \o <<LogEvent(Body(execute.kind, execute.request, output, error, execute.cost, None))>>

\* Mutant of OutcomeCalls: the event is appended before its output is stored.
LogBeforeStore(execute, output, error) ==
  <<LogEvent(Body(execute.kind, execute.request, output, error, execute.cost, None))>>
  \o Store(output) \o Store(error) \o <<Return("result")>>

\* _record_call after it has returned output or raised error.
OutcomeCalls(execute, output, error) ==
  Store(output) \o Store(error)
  \o <<LogEvent(Body(execute.kind, execute.request, output, error, execute.cost, None)),
       Return("result")>>

DeltaCalls(previous, current, delta) ==
  <<Capture(current)>> \o Store(previous) \o Store(delta)
  \o <<LogEvent(Body("workspace_delta", previous, delta, None, "none", None)), Return("manifest")>>

\* Mutant of FinishCalls: the row is closed before the log says so.
CloseBeforeLog(status, m, error) ==
  Store(error) \o StoreWorkspace(m, "final")
  \o <<[call |-> "finish", status |-> status, error |-> error],
       LogEvent(Body("run_finished", None, m, error, "none", status)),
       Return("trace")>>

FinishCalls(status, m, error) ==
  Store(error) \o StoreWorkspace(m, "final")
  \o <<LogEvent(Body("run_finished", None, m, error, "none", status)),
       [call |-> "finish", status |-> status, error |-> error],
       Return("trace")>>
----------------------------------------------------------------------------
\* A thread calls an operation of the recorder.

Idle(w) == todo[w] = << >>

Begin(w, t, calls) ==
  /\ Idle(w)
  /\ begun < MaxOperations /\ begun' = begun + 1
  /\ todo' = [todo EXCEPT ![w] = calls]
  /\ subject' = [subject EXCEPT ![w] = t]

\* Mutant of StartTrace: others may use the trace as soon as its row exists.
StartKnown(w, t, env, m) ==
  /\ Begin(w, t, StartCalls(env, m))
  /\ CreateTrace(t)
  /\ known' = known \cup {t}
  /\ UNCHANGED <<cas, captured, executed, answered>>

\* create_trace is the first call of start; its trace is known to others once
\* start returns.
StartTrace(w, t, env, m) ==
  /\ Begin(w, t, StartCalls(env, m))
  /\ CreateTrace(t)
  /\ UNCHANGED <<cas, captured, known, executed, answered>>

RecordCall(w, t, kind, request, cost) ==
  /\ t \in known
  /\ Begin(w, t, CallCalls(kind, request, cost))
  /\ UNCHANGED <<repoVars, cas, captured, known, executed, answered>>

\* The caller passes a manifest that some capture has returned.
CaptureDelta(w, t, previous, current, delta) ==
  /\ t \in known
  /\ previous \in captured
  /\ Nested[delta] \subseteq Nested[current]
  /\ Begin(w, t, DeltaCalls(previous, current, delta))
  /\ UNCHANGED <<repoVars, cas, captured, known, executed, answered>>

Finish(w, t, status, m, error) ==
  /\ t \in known
  /\ Begin(w, t, FinishCalls(status, m, error))
  /\ UNCHANGED <<repoVars, cas, captured, known, executed, answered>>
----------------------------------------------------------------------------
\* The next call of a thread.

Next1(w, name) == ~Idle(w) /\ Head(todo[w]).call = name
Stop(w) ==
  /\ todo' = [todo EXCEPT ![w] = << >>]
  /\ subject' = [subject EXCEPT ![w] = None]
Done(w) ==
  IF Len(todo[w]) = 1 THEN Stop(w)
  ELSE todo' = [todo EXCEPT ![w] = Tail(@)] /\ UNCHANGED subject

PutJson(w) ==
  /\ Next1(w, "put") /\ Done(w)
  /\ cas' = cas \cup {Head(todo[w]).blob}
  /\ UNCHANGED <<repoVars, captured, begun, known, executed, answered>>

\* capture_workspace: the contents of the files are put, not registered.
CaptureFiles(w) ==
  /\ Next1(w, "capture") /\ Done(w)
  /\ cas' = cas \cup Nested[Head(todo[w]).manifest]
  /\ captured' = captured \cup {Head(todo[w]).manifest}
  /\ UNCHANGED <<repoVars, begun, known, executed, answered>>

RegisterRef(w) ==
  /\ Next1(w, "register") /\ Done(w)
  /\ RegisterBlob(Ref(Head(todo[w]).blob))
  /\ UNCHANGED <<cas, captured, begun, known, executed, answered>>

SetRefs(w) ==
  /\ Next1(w, "set_ref") /\ Done(w)
  /\ SetWorkspaceRefs(subject[w], Head(todo[w]).name, Ref(Head(todo[w]).blob))
  /\ UNCHANGED <<cas, captured, begun, known, executed, answered>>

AppendLog(w) ==
  /\ Next1(w, "append") /\ Done(w)
  /\ AppendEvent(subject[w], Head(todo[w]).body)
  /\ UNCHANGED <<cas, captured, begun, known, executed, answered>>

\* call(): the model or tool is run and returns or raises.
Execute(w, output, error) ==
  /\ Next1(w, "execute")
  /\ executed' = [executed EXCEPT ![subject[w]] = @ + 1]
  /\ todo' = [todo EXCEPT ![w] = OutcomeCalls(Head(@), output, error)]
  /\ UNCHANGED <<repoVars, cas, captured, subject, begun, known, answered>>

Signature(error) == IF error = None THEN None ELSE "signature"

FinishRow(w) ==
  /\ Next1(w, "finish") /\ Done(w)
  /\ FinishTrace(subject[w], Head(todo[w]).status, Signature(Head(todo[w]).error))
  /\ UNCHANGED <<cas, captured, begun, known, executed, answered>>

ReturnToCaller(w) ==
  /\ Next1(w, "return") /\ Done(w)
  /\ known' = known \cup {subject[w]}
  /\ answered' = IF Head(todo[w]).what = "result"
                 THEN [answered EXCEPT ![subject[w]] = @ + 1] ELSE answered
  /\ UNCHANGED <<repoVars, cas, captured, begun, executed>>

\* The next call raises (I/O error, TraceClosed, lost connection) and so does the
\* operation, or the process dies: what was stored stays, the rest is not done.
\* A capture may have put some of the files.
Abandon(w) ==
  /\ ~Idle(w)
  /\ Stop(w)
  /\ \E some \in SUBSET (IF Next1(w, "capture")
                         THEN Nested[Head(todo[w]).manifest] ELSE {}) :
       cas' = cas \cup some
  /\ UNCHANGED <<repoVars, captured, begun, known, executed, answered>>

\* The append commits and its answer is lost: to the operation it has failed.
AppendUnanswered(w) ==
  /\ Next1(w, "append")
  /\ AppendEvent(subject[w], Head(todo[w]).body)
  /\ Stop(w)
  /\ UNCHANGED <<cas, captured, begun, known, executed, answered>>

Operation(w) ==
  \E t \in Traces :
    \/ \E env \in Environments, m \in Manifests \cup {None} : StartTrace(w, t, env, m)
    \/ \E request \in Documents, cost \in Costs : RecordCall(w, t, "model_call", request, cost)
    \/ \E request \in Documents : RecordCall(w, t, "tool_call", request, "none")
    \/ \E previous, current \in Manifests, delta \in Deltas :
         CaptureDelta(w, t, previous, current, delta)
    \/ \E status \in Statuses, m \in Manifests \cup {None},
          error \in Errors \cup {None} : Finish(w, t, status, m, error)

RecNext ==
  \E w \in Threads :
    \/ Operation(w)
    \/ PutJson(w)
    \/ CaptureFiles(w)
    \/ RegisterRef(w)
    \/ SetRefs(w)
    \/ AppendLog(w)
    \/ \E output \in Documents : Execute(w, output, None)
    \/ \E error \in Errors : Execute(w, None, error)
    \/ FinishRow(w)
    \/ ReturnToCaller(w)
    \/ Abandon(w)
    \/ AppendUnanswered(w)

RecSpec == RecInit /\ [][RecNext]_allVars
----------------------------------------------------------------------------
Events(t) == {trace_events[t][n] : n \in DOMAIN trace_events[t]}
RefsOf(body) == {body.input_ref, body.output_ref, body.error_ref} \ {None}

\* The manifests and deltas among them.
WorkspaceRefs(body) ==
  IF body.kind \in {"checkpoint", "workspace_delta", "run_finished"}
  THEN {body.input_ref, body.output_ref} \ {None} ELSE {}

\* docs/architecture.md "Blob writes happen before metadata append": at any moment,
\* so also after a crash, what an event refers to is in the store and registered,
\* and so is (in the store) what the manifests and deltas among it refer to.
EventRefsStored ==
  \A t \in Traces : \A event \in Events(t) :
    /\ \A b \in RefsOf(event.body) : b \in cas /\ Ref(b) \in blobs
    /\ \A m \in WorkspaceRefs(event.body) : Nested[m] \subseteq cas

\* The same for the references in the row of a trace (set_workspace_refs), of which
\* initial and final are to manifests.
RowRefsStored ==
  \A t \in Traces : \A name \in RefNames : refs[t][name] # None =>
    \E b \in cas : /\ refs[t][name] = Ref(b) /\ Ref(b) \in blobs
                   /\ name # "environment" => b \in Manifests /\ Nested[b] \subseteq cas

\* What replay relies on: the log of a trace starts with its environment and, if
\* there is one, its initial checkpoint, and has no second one of either, whatever
\* other threads do from the moment the trace exists.
PreambleFirst ==
  \A t \in Traces : \A n \in DOMAIN trace_events[t] :
    /\ trace_events[t][n].body.kind = "environment" <=> n = 0
    /\ trace_events[t][n].body.kind = "checkpoint" =>
         n = 1 /\ refs[t]["initial"] = Ref(trace_events[t][n].body.output_ref)

CallEvents(t) == {event \in Events(t) : event.body.kind \in CallKinds}

\* The log holds at least as many calls as record_* answered (it returned, or passed on the
\* call's own error) and at most as many as were made: what errors and crashes lose is calls
\* that were made and not answered.  Calls are counted, not told apart.
CallsAccounted ==
  \A t \in Traces : /\ answered[t] <= Cardinality(CallEvents(t))
                    /\ Cardinality(CallEvents(t)) <= executed[t]

\* A finished trace says in its log how it finished: a run_finished event carries
\* the status of its row, and an error exactly if the row has a failure signature.
ClosedByLog ==
  \A t \in Traces : traces[t].status \in TerminalStatuses =>
    \E event \in Events(t) :
      /\ event.body.kind = "run_finished"
      /\ event.body.status = traces[t].status
      /\ event.body.error_ref = None <=> traces[t].failure_signature = None
============================================================================
