-------------------------- MODULE RepositoryProofs ---------------------------
(***************************************************************************)
(* What the repository guarantees for any traces, bodies, references and   *)
(* any bound: its types, its hash chains and that it implements the log;   *)
(* then the same for those who read beside its writers (Inspect), and for  *)
(* what PostgreSQL transactions commit, for any readers and clients.       *)
(***************************************************************************)
EXTENDS PostgresRepository, Inspect, Sequences, TLAPS

\* A stored body is stored as it is (models.TraceEvent, and what was read from the
\* column of the metadata).
LEMMA CoercionIdempotent ==
  ASSUME NEW body \in Bodies
  PROVE  AsStored(AsStored(body)) = AsStored(body)
  <1>1. Coerced(Coerced(body.cost_usd)) = Coerced(body.cost_usd)
    BY DEF Coerced
  <1>2. Column[Column[body.metadata]] = Column[body.metadata]
    BY BodiesAssumption, ColumnAssumption
  <1>3. /\ AsStored(body).cost_usd = Coerced(body.cost_usd)
        /\ AsStored(body).metadata = Column[body.metadata]
    BY BodiesAssumption DEF AsStored
  <1> QED
    BY <1>1, <1>2, <1>3 DEF AsStored

\* The table of one trace after append_event: the old events, then the new one
\* under the sequence the row had counted to (repository.append_event).
LEMMA ExtendedTable ==
  ASSUME NEW t \in Traces, TypeOK, NEW event, event.sequence = traces[t].event_count
  PROVE  /\ DOMAIN Extended(t, event) = 0 .. traces[t].event_count
         /\ DOMAIN trace_events[t] = 0 .. traces[t].event_count - 1
         /\ Extended(t, event)[traces[t].event_count] = event
         /\ \A n \in DOMAIN trace_events[t] : Extended(t, event)[n] = trace_events[t][n]
  <1>1. traces[t].event_count \in Nat
    BY BoundAssumption DEF TypeOK, RowOK
  <1> QED
    BY <1>1 DEF Extended, TypeOK

\* Types hold initially (create_trace has not been called).
LEMMA TypeInit == Init => TypeOK
  BY BoundAssumption DEF Init, TypeOK, NoRow, RowOK, RefNames

\* Every operation of the repository keeps the types.
LEMMA TypeStep == TypeOK /\ [Next]_repoVars => TypeOK'
  <1> SUFFICES ASSUME TypeOK, [Next]_repoVars PROVE TypeOK'
    OBVIOUS
  <1>1. ASSUME NEW t \in Traces, CreateTrace(t) PROVE TypeOK'
    BY <1>1 DEF CreateTrace, TypeOK, RowOK
  <1>2. ASSUME NEW t \in Traces, NEW body \in Bodies, AppendEvent(t, body) PROVE TypeOK'
    <2> DEFINE event == NewEvent(traces[t], body)
    <2>1. traces[t].event_count \in Nat /\ traces[t].event_count < MaxEvents
      BY <1>2, BoundAssumption DEF AppendEvent, TypeOK, RowOK
    <2>2. event.sequence = traces[t].event_count
      BY DEF NewEvent
    <2>3. traces' = [traces EXCEPT ![t] = Advanced(traces[t], event)]
      BY <1>2 DEF AppendEvent
    <2>4. traces'[t].event_count = traces[t].event_count + 1 /\ RowOK(traces'[t])
      <3>1. traces'[t] = Advanced(traces[t], event) /\ RowOK(traces[t])
        BY <2>3 DEF TypeOK
      <3>2. /\ Advanced(traces[t], event).event_count = traces[t].event_count + 1
            /\ traces[t].event_count + 1 \in 0 .. MaxEvents
        BY <2>1, <3>1, BoundAssumption DEF Advanced, RowOK
      <3> QED
        BY <3>1, <3>2 DEF Advanced, RowOK
    <2>5. \A u \in Traces : u # t => traces'[u] = traces[u]
      BY <2>3 DEF TypeOK
    <2>6. trace_events' = [trace_events EXCEPT ![t] = Extended(t, event)]
      BY <1>2 DEF AppendEvent
    <2>7. trace_events'[t] = [n \in 0 .. traces'[t].event_count - 1 |-> trace_events'[t][n]]
      BY <2>1, <2>2, <2>4, <2>6 DEF Extended, TypeOK
    <2>8. traces' = [u \in Traces |-> traces'[u]] /\ \A u \in Traces : RowOK(traces'[u])
      BY <2>3, <2>4, <2>5 DEF TypeOK
    <2>9. /\ trace_events' = [u \in Traces |-> trace_events'[u]]
          /\ \A u \in Traces :
               trace_events'[u] = [n \in 0 .. traces'[u].event_count - 1 |-> trace_events'[u][n]]
      BY <2>5, <2>6, <2>7 DEF TypeOK
    <2>10. refs' = refs /\ blobs' = blobs
      BY <1>2 DEF AppendEvent
    <2> QED
      BY <2>8, <2>9, <2>10 DEF TypeOK, RowOK
  <1>3. ASSUME NEW t \in Traces, NEW status \in TerminalStatuses,
               NEW signature \in Signatures \cup {None}, FinishTrace(t, status, signature)
        PROVE  TypeOK'
    BY <1>3, ZenonT(60) DEF FinishTrace, TypeOK, RowOK
  <1>4. ASSUME NEW t \in Traces, NEW name \in RefNames, NEW reference \in ContentRefs,
               SetWorkspaceRefs(t, name, reference)
        PROVE  TypeOK'
    BY <1>4 DEF SetWorkspaceRefs, TypeOK, RowOK
  <1>5. ASSUME NEW reference \in ContentRefs, RegisterBlob(reference) PROVE TypeOK'
    BY <1>5 DEF RegisterBlob, TypeOK, RowOK
  <1>6. CASE UNCHANGED repoVars
    BY <1>6 DEF repoVars, TypeOK, RowOK
  <1> QED
    BY <1>1, <1>2, <1>3, <1>4, <1>5, <1>6 DEF Next

\* The tables are well typed in every reachable state: the events of a trace are
\* those its row counts (repository.py, all operations of MemoryTraceRepository).
THEOREM TypeCorrect == Spec => []TypeOK
  BY TypeInit, TypeStep, PTL DEF Spec
----------------------------------------------------------------------------
\* Why the chains verify: every event was built by NewEvent on the row of that
\* moment, so it hashes a caller's body onto the event before it, and the row
\* holds the hash of the last one.
Linked ==
  \A t \in Traces :
    /\ \A n \in DOMAIN trace_events[t] :
         \E body \in Bodies :
           trace_events[t][n] =
             [sequence |-> n, body |-> AsStored(body),
              previous_hash |-> HeadAfter(trace_events[t], n),
              event_hash |-> EventHash(Payload(n, body), HeadAfter(trace_events[t], n))]
    /\ traces[t].chain_head = HeadAfter(trace_events[t], traces[t].event_count)

\* No trace has an event yet.
LEMMA LinkedInit == Init => Linked
  BY DEF Init, NoRow, Linked, HeadAfter

\* append_event links the new event to the head; nothing else touches a chain.
LEMMA LinkedStep == TypeOK /\ Linked /\ [Next]_repoVars => Linked'
  <1> SUFFICES ASSUME TypeOK, Linked, [Next]_repoVars PROVE Linked'
    OBVIOUS
  <1>1. ASSUME NEW t \in Traces, NEW body \in Bodies, AppendEvent(t, body) PROVE Linked'
    <2> DEFINE event == NewEvent(traces[t], body)
               count == traces[t].event_count
    <2>1. count \in Nat /\ event.sequence = count
      BY BoundAssumption DEF TypeOK, RowOK, NewEvent
    <2>2. /\ traces'[t].event_count = count + 1
          /\ traces'[t].chain_head = event.event_hash
          /\ \A u \in Traces : u # t => traces'[u] = traces[u]
      BY <1>1, <2>1 DEF AppendEvent, Advanced, TypeOK, RowOK
    <2>3. /\ trace_events'[t] = Extended(t, event)
          /\ \A u \in Traces : u # t => trace_events'[u] = trace_events[u]
      BY <1>1 DEF AppendEvent, TypeOK
    <2>4. /\ DOMAIN trace_events'[t] = 0 .. count
          /\ DOMAIN trace_events[t] = 0 .. count - 1
          /\ trace_events'[t][count] = event
          /\ \A n \in DOMAIN trace_events[t] : trace_events'[t][n] = trace_events[t][n]
      BY <2>1, <2>3, ExtendedTable
    <2>5. \A n \in 0 .. count : HeadAfter(trace_events'[t], n) = HeadAfter(trace_events[t], n)
      BY <2>1, <2>4, SMTT(30) DEF HeadAfter
    <2>6. traces[t].chain_head = HeadAfter(trace_events[t], count)
      BY DEF Linked
    <2>7. event = [sequence |-> count, body |-> AsStored(body),
                   previous_hash |-> HeadAfter(trace_events'[t], count),
                   event_hash |-> EventHash(Payload(count, body),
                                            HeadAfter(trace_events'[t], count))]
      BY <2>1, <2>5, <2>6 DEF NewEvent
    <2>8. ASSUME NEW n \in DOMAIN trace_events'[t]
          PROVE  \E b \in Bodies :
                   trace_events'[t][n] =
                     [sequence |-> n, body |-> AsStored(b),
                      previous_hash |-> HeadAfter(trace_events'[t], n),
                      event_hash |-> EventHash(Payload(n, b), HeadAfter(trace_events'[t], n))]
      <3>1. CASE n = count
        BY <3>1, <2>4, <2>7
      <3>2. CASE n \in DOMAIN trace_events[t]
        BY <3>2, <2>1, <2>4, <2>5 DEF Linked
      <3> QED
        BY <3>1, <3>2, <2>1, <2>4
    <2>9. HeadAfter(trace_events'[t], count + 1) = event.event_hash
      BY <2>1, <2>4 DEF HeadAfter
    <2> QED
      BY <2>2, <2>3, <2>8, <2>9 DEF Linked
  <1>2. CASE ~\E t \in Traces, body \in Bodies : AppendEvent(t, body)
    <2>1. trace_events' = trace_events
      BY <1>2 DEF Next, repoVars, CreateTrace, FinishTrace, SetWorkspaceRefs, RegisterBlob
    <2>2. \A t \in Traces : /\ traces'[t].event_count = traces[t].event_count
                            /\ traces'[t].chain_head = traces[t].chain_head
      <3>1. \A t \in Traces, u \in Traces : CreateTrace(u) =>
              /\ traces'[t].event_count = traces[t].event_count
              /\ traces'[t].chain_head = traces[t].chain_head
        BY DEF CreateTrace, TypeOK, RowOK
      <3>2. \A t \in Traces, u \in Traces : \A status, signature :
                FinishTrace(u, status, signature) =>
              /\ traces'[t].event_count = traces[t].event_count
              /\ traces'[t].chain_head = traces[t].chain_head
        BY DEF FinishTrace, TypeOK, RowOK
      <3> QED
        BY <1>2, <3>1, <3>2 DEF Next, repoVars, SetWorkspaceRefs, RegisterBlob
    <2> QED
      BY <2>1, <2>2 DEF Linked
  <1> QED
    BY <1>1, <1>2

\* A linked chain verifies exactly when every event can be recomputed.
LEMMA LinkedVerifies == TypeOK /\ Linked => ChainVerifies
  <1> SUFFICES ASSUME TypeOK, Linked, NEW t \in Traces
               PROVE  VerifyEventChain(traces[t], trace_events[t])
                        <=> \A n \in DOMAIN trace_events[t] : Recomputable(trace_events[t][n])
    BY DEF ChainVerifies
  <1>1. DOMAIN trace_events[t] = 0 .. traces[t].event_count - 1
    BY DEF TypeOK
  <1>2. traces[t].chain_head = HeadAfter(trace_events[t], traces[t].event_count)
    BY DEF Linked
  <1>3. ASSUME NEW n \in DOMAIN trace_events[t]
        PROVE  EventChecks(trace_events[t][n], n, HeadAfter(trace_events[t], n))
                 <=> Recomputable(trace_events[t][n])
    <2>1. PICK body \in Bodies :
            trace_events[t][n] =
              [sequence |-> n, body |-> AsStored(body),
               previous_hash |-> HeadAfter(trace_events[t], n),
               event_hash |-> EventHash(Payload(n, body), HeadAfter(trace_events[t], n))]
      BY DEF Linked
    <2>2. HashedBody(trace_events[t][n]) = body
      BY <2>1 DEF HashedBody, EventHash, Payload
    <2>3. EventChecks(trace_events[t][n], n, HeadAfter(trace_events[t], n))
            <=> Payload(n, body) = Payload(n, AsStored(body))
      BY <2>1 DEF EventChecks, EventHash
    <2>4. Payload(n, body) = Payload(n, AsStored(body)) <=> body = AsStored(body)
      BY DEF Payload
    <2> QED
      BY <2>2, <2>3, <2>4 DEF Recomputable
  <1> QED
    BY <1>1, <1>2, <1>3 DEF VerifyEventChain

\* verify_event_chain accepts every chain the repository writes but for events
\* whose cost is coerced or whose metadata the column normalises, and rejects
\* those, in every reachable state.
THEOREM ChainsVerify == Spec => []ChainVerifies
  <1>1. Init => TypeOK /\ Linked
    BY TypeInit, LinkedInit
  <1>2. TypeOK /\ Linked /\ [Next]_repoVars => TypeOK' /\ Linked'
    BY TypeStep, LinkedStep
  <1> QED
    BY <1>1, <1>2, LinkedVerifies, PTL DEF Spec
----------------------------------------------------------------------------
\* The abstract state of a trace depends on its row and its events only, so an
\* operation that keeps those of every trace but t moves the log of t at most.
LEMMA LogStep ==
  ASSUME TypeOK, [Next]_repoVars
  PROVE  [Log!Next]_(Log!logVars)
  <1> DEFINE logs == [u \in Traces |-> LogOf(u)]
             states == [u \in Traces |-> StateOf(u)]
             outcomes == [u \in Traces |-> OutcomeOf(u)]
  <1>1. ASSUME NEW t \in Traces, CreateTrace(t) PROVE Log!Next
    <2>1. /\ states[t] = "absent"
          /\ states' = [states EXCEPT ![t] = "recording"]
          /\ outcomes' = outcomes
      BY <1>1 DEF CreateTrace, StateOf, OutcomeOf, Finished, TerminalStatuses, TypeOK, RowOK
    <2>2. logs' = logs
      BY <1>1 DEF CreateTrace, LogOf, TypeOK, RowOK
    <2> QED
      BY <2>1, <2>2 DEF Log!Next, Log!Create
  <1>2. ASSUME NEW t \in Traces, NEW body \in Bodies, AppendEvent(t, body) PROVE Log!Next
    <2> DEFINE event == NewEvent(traces[t], body)
               count == traces[t].event_count
    <2>1. count \in Nat /\ event.sequence = count /\ event.body = AsStored(body)
      BY BoundAssumption DEF TypeOK, RowOK, NewEvent
    <2>2. /\ traces'[t].event_count = count + 1
          /\ \A u \in Traces : /\ traces'[u].status = traces[u].status
                               /\ traces'[u].failure_signature = traces[u].failure_signature
                               /\ u # t => traces'[u] = traces[u]
      BY <1>2, <2>1 DEF AppendEvent, Advanced, TypeOK, RowOK
    <2>3. /\ trace_events'[t] = Extended(t, event)
          /\ \A u \in Traces : u # t => trace_events'[u] = trace_events[u]
      BY <1>2 DEF AppendEvent, TypeOK
    <2>4. states' = states /\ outcomes' = outcomes /\ states[t] = "recording"
      BY <1>2, <2>2 DEF AppendEvent, StateOf, OutcomeOf, Finished, TerminalStatuses
    <2>5. /\ trace_events'[t][count] = event
          /\ \A n \in 0 .. count - 1 : trace_events'[t][n] = trace_events[t][n]
      BY <2>1, <2>3, ExtendedTable
    <2>6. LogOf(t)' = Append(LogOf(t), AsStored(body))
      <3>1. LogOf(t)' = [i \in 1 .. count + 1 |-> trace_events'[t][i - 1].body]
        BY <2>2 DEF LogOf
      <3>2. Append(LogOf(t), AsStored(body)) =
              [i \in 1 .. count + 1 |->
                 IF i = count + 1 THEN AsStored(body) ELSE trace_events[t][i - 1].body]
        BY <2>1 DEF LogOf
      <3>3. \A i \in 1 .. count + 1 :
              trace_events'[t][i - 1].body =
                IF i = count + 1 THEN AsStored(body) ELSE trace_events[t][i - 1].body
        BY <2>1, <2>5
      <3> QED
        BY <3>1, <3>2, <3>3
    <2>7. \A u \in Traces : u # t => LogOf(u)' = LogOf(u)
      BY <2>2, <2>3 DEF LogOf
    <2>8. logs' = [logs EXCEPT ![t] = Append(@, AsStored(body))]
      BY <2>6, <2>7
    <2>9. Log!Extend(t, AsStored(body))
      BY <2>4, <2>8 DEF Log!Extend
    <2> QED
      BY <2>9 DEF Log!Next
  <1>3. ASSUME NEW t \in Traces, NEW status \in TerminalStatuses,
               NEW signature \in Signatures \cup {None}, FinishTrace(t, status, signature)
        PROVE  Log!Next
    <2>1. /\ traces'[t].status = status
          /\ traces'[t].failure_signature = signature
          /\ traces[t].status = "recording"
          /\ \A u \in Traces : u # t => traces'[u] = traces[u]
      BY <1>3 DEF FinishTrace, TypeOK, RowOK
    <2>2. <<status, signature>> \in Outcomes
      BY DEF Outcomes
    <2>3. /\ states[t] = "recording"
          /\ states' = [states EXCEPT ![t] = "finished"]
          /\ outcomes' = [outcomes EXCEPT ![t] = <<status, signature>>]
      BY <2>1 DEF StateOf, OutcomeOf, Finished, TerminalStatuses
    <2>4. logs' = logs
      BY <1>3 DEF FinishTrace, LogOf, TypeOK, RowOK
    <2> QED
      BY <2>2, <2>3, <2>4 DEF Log!Next, Log!Close
  <1>4. CASE UNCHANGED <<traces, trace_events>>
    BY <1>4 DEF Log!logVars, LogOf, StateOf, OutcomeOf, Finished
  <1> QED
    BY <1>1, <1>2, <1>3, <1>4 DEF Next, repoVars, SetWorkspaceRefs, RegisterBlob

\* Before any operation every log is empty and every trace absent.
LEMMA LogInit == Init => Log!Init
  <1> SUFFICES ASSUME Init PROVE Log!Init
    OBVIOUS
  <1>1. \A t \in Traces : LogOf(t) = << >>
    BY DEF Init, NoRow, LogOf
  <1>2. \A t \in Traces : StateOf(t) = "absent" /\ OutcomeOf(t) = << >>
    BY DEF Init, NoRow, StateOf, OutcomeOf, Finished, TerminalStatuses
  <1> QED
    BY <1>1, <1>2 DEF Log!Init

\* The repository implements the append-only log of every trace, finished at most
\* once and frozen from then on (TraceRepository's contract, TraceLog.tla).
THEOREM LogImplemented == Spec => ImplementsTraceLog
  <1>1. TypeOK /\ [Next]_repoVars => [Log!Next]_(Log!logVars)
    BY LogStep
  <1> QED
    BY <1>1, LogInit, TypeCorrect, PTL DEF Spec, Log!Spec, ImplementsTraceLog
----------------------------------------------------------------------------
\* What a step of a writer does to a trace: its log keeps the events it has and
\* grows at its end only, and a finished one is left as it is.
LEMMA LogGrows ==
  ASSUME TypeOK, [Next]_repoVars, NEW t \in Traces
  PROVE  /\ traces[t].event_count \in Nat /\ traces'[t].event_count \in Nat
         /\ traces[t].event_count <= traces'[t].event_count
         /\ DOMAIN trace_events[t] = 0 .. traces[t].event_count - 1
         /\ DOMAIN trace_events'[t] = 0 .. traces'[t].event_count - 1
         /\ \A n \in DOMAIN trace_events[t] : trace_events'[t][n] = trace_events[t][n]
         /\ traces[t].status \in TerminalStatuses => traces'[t] = traces[t]
  <1>1. TypeOK'
    BY TypeStep
  <1>2. /\ traces[t].event_count \in Nat /\ traces'[t].event_count \in Nat
        /\ DOMAIN trace_events[t] = 0 .. traces[t].event_count - 1
        /\ DOMAIN trace_events'[t] = 0 .. traces'[t].event_count - 1
    BY <1>1, BoundAssumption DEF TypeOK, RowOK
  <1>3. ASSUME NEW u \in Traces, NEW body \in Bodies, AppendEvent(u, body)
        PROVE  /\ traces[t].event_count <= traces'[t].event_count
               /\ \A n \in DOMAIN trace_events[t] : trace_events'[t][n] = trace_events[t][n]
               /\ traces[t].status \in TerminalStatuses => traces'[t] = traces[t]
    <2>1. CASE t # u
      <3>1. trace_events'[t] = trace_events[t] /\ traces'[t] = traces[t]
        BY <1>3, <2>1 DEF AppendEvent, TypeOK
      <3> QED
        BY <1>2, <3>1
    <2>2. CASE t = u
      <3> DEFINE event == NewEvent(traces[t], body)
      <3>1. event.sequence = traces[t].event_count
        BY DEF NewEvent
      <3>2. trace_events'[t] = Extended(t, event) /\ traces'[t] = Advanced(traces[t], event)
        BY <1>3, <2>2 DEF AppendEvent, TypeOK
      <3>3. traces[t].status \notin TerminalStatuses
        BY <1>3, <2>2 DEF AppendEvent, TerminalStatuses
      <3>4. traces'[t].event_count = traces[t].event_count + 1
        BY <3>2 DEF Advanced, TypeOK, RowOK
      <3> QED
        BY <1>2, <3>1, <3>2, <3>3, <3>4, ExtendedTable
    <2> QED
      BY <2>1, <2>2
  <1>4. CASE ~\E u \in Traces, body \in Bodies : AppendEvent(u, body)
    <2>1. trace_events' = trace_events
      BY <1>4 DEF Next, repoVars, CreateTrace, FinishTrace, SetWorkspaceRefs, RegisterBlob
    <2>2. ASSUME NEW u \in Traces, CreateTrace(u)
          PROVE  /\ traces'[t].event_count = traces[t].event_count
                 /\ traces[t].status \in TerminalStatuses => traces'[t] = traces[t]
      BY <2>2 DEF CreateTrace, TerminalStatuses, TypeOK, RowOK
    <2>3. ASSUME NEW u \in Traces, NEW status, NEW signature, FinishTrace(u, status, signature)
          PROVE  /\ traces'[t].event_count = traces[t].event_count
                 /\ traces[t].status \in TerminalStatuses => traces'[t] = traces[t]
      BY <2>3 DEF FinishTrace, TerminalStatuses, TypeOK, RowOK
    <2>4. /\ traces'[t].event_count = traces[t].event_count
          /\ traces[t].status \in TerminalStatuses => traces'[t] = traces[t]
      BY <1>4, <2>2, <2>3 DEF Next, repoVars, SetWorkspaceRefs, RegisterBlob
    <2> QED
      BY <1>2, <2>1, <2>4
  <1> QED
    BY <1>2, <1>3, <1>4

\* What a reader holds is the past of the trace: the row counts events the log still
\* begins with and has the hash of the last of them, a finished row is still the row,
\* and the events it read since are a beginning of the log too.
ReadOK(read) ==
  LET log == trace_events[read.trace] IN
  /\ read \in [pc : {"idle", "has_row", "accepted", "rejected"}, trace : Traces \cup {None},
               row : {read.row}, events : {read.events}]
  /\ read.pc # "idle" =>
       /\ read.trace \in Traces
       /\ read.row.event_count \in 0 .. traces[read.trace].event_count
       /\ read.row.chain_head = HeadAfter(log, read.row.event_count)
       /\ read.row.status \in TerminalStatuses => read.row = traces[read.trace]
  /\ read.pc \in {"accepted", "rejected"} =>
       \A n \in DOMAIN read.events : n \in DOMAIN log /\ read.events[n] = log[n]
  /\ read.pc = "accepted" => VerifyEventChain(read.row, read.events)

ReadersInv ==
  /\ TypeOK /\ Linked
  /\ reader = [r \in Readers |-> reader[r]]
  /\ \A r \in Readers : ReadOK(reader[r])
  /\ ClosedReadsVerify

\* Nobody has read anything.
LEMMA ReadersInvInit == InspectInit => ReadersInv
  BY TypeInit, LinkedInit DEF InspectInit, ReadersInv, ReadOK, NoRead, ClosedReadsVerify

\* What was read stays the past whatever the writers do.
LEMMA ReadStays ==
  ASSUME TypeOK, [Next]_repoVars, NEW read, ReadOK(read)
  PROVE  ReadOK(read)'
  <1>1. CASE read.pc = "idle"
    BY <1>1 DEF ReadOK
  <1>2. CASE read.pc # "idle"
    <2> DEFINE t == read.trace
    <2>1. t \in Traces
      BY <1>2 DEF ReadOK
    <2>2. /\ traces[t].event_count \in Nat /\ traces'[t].event_count \in Nat
          /\ traces[t].event_count <= traces'[t].event_count
          /\ DOMAIN trace_events[t] = 0 .. traces[t].event_count - 1
          /\ DOMAIN trace_events'[t] = 0 .. traces'[t].event_count - 1
          /\ \A n \in DOMAIN trace_events[t] : trace_events'[t][n] = trace_events[t][n]
          /\ traces[t].status \in TerminalStatuses => traces'[t] = traces[t]
      BY <2>1, LogGrows
    <2>3. \A n \in 0 .. traces[t].event_count :
            HeadAfter(trace_events'[t], n) = HeadAfter(trace_events[t], n)
      BY <2>2 DEF HeadAfter
    <2> QED
      BY <1>2, <2>1, <2>2, <2>3 DEF ReadOK
  <1> QED
    BY <1>1, <1>2

\* Every step of a writer or a reader keeps the invariant; the second read is where
\* the two reads of a reader meet.
LEMMA ReadersInvStep == ReadersInv /\ [InspectNext]_inspectVars => ReadersInv'
  <1> SUFFICES ASSUME ReadersInv, [InspectNext]_inspectVars PROVE ReadersInv'
    OBVIOUS
  <1>1. CASE [Next]_repoVars /\ UNCHANGED reader
    <2>1. TypeOK' /\ Linked'
      BY <1>1, TypeStep, LinkedStep DEF ReadersInv
    <2>2. \A r \in Readers : ReadOK(reader[r])'
      BY <1>1, ReadStays DEF ReadersInv
    <2> QED
      BY <1>1, <2>1, <2>2 DEF ReadersInv, ClosedReadsVerify
  <1>2. ASSUME UNCHANGED repoVars
        PROVE  /\ TypeOK' /\ Linked'
               /\ \A read : ReadOK(read) => ReadOK(read)'
    <2>1. TypeOK' /\ Linked'
      BY <1>2, TypeStep, LinkedStep DEF ReadersInv
    <2>2. traces' = traces /\ trace_events' = trace_events
      BY <1>2 DEF repoVars
    <2> QED
      BY <2>1, <2>2 DEF ReadOK
  <1>3. ASSUME NEW r \in Readers, NEW t \in Traces, GetTrace(r, t) PROVE ReadersInv'
    <2> DEFINE read == [NoRead EXCEPT !.pc = "has_row", !.trace = t, !.row = traces[t]]
    <2>1. /\ read.pc = "has_row" /\ read.trace = t /\ read.row = traces[t]
          /\ read \in [pc : {"idle", "has_row", "accepted", "rejected"}, trace : Traces \cup {None},
                       row : {read.row}, events : {read.events}]
      BY DEF NoRead
    <2>2. reader' = [reader EXCEPT ![r] = read] /\ UNCHANGED repoVars
      BY <1>3 DEF GetTrace
    <2> HIDE DEF read
    <2>3. traces[t].event_count \in Nat
      BY BoundAssumption DEF ReadersInv, TypeOK, RowOK
    <2>4. ReadOK(read)
      BY <2>1, <2>3 DEF ReadOK, ReadersInv, Linked
    <2> QED
      BY <1>2, <2>1, <2>2, <2>4 DEF ReadersInv, ClosedReadsVerify
  <1>4. ASSUME NEW r \in Readers, GetEvents(r) PROVE ReadersInv'
    <2> DEFINE t == reader[r].trace
               row == reader[r].row
               verdict == IF VerifyEventChain(row, trace_events[t]) THEN "accepted" ELSE "rejected"
               read == [reader[r] EXCEPT !.events = trace_events[t], !.pc = verdict]
    <2>1. /\ reader[r].pc = "has_row" /\ UNCHANGED repoVars /\ ReadOK(reader[r])
          /\ reader' = [reader EXCEPT ![r] = read]
      BY <1>4 DEF GetEvents, ReadersInv
    <2>2. t \in Traces /\ verdict \in {"accepted", "rejected"}
      BY <2>1 DEF ReadOK
    <2>3. /\ read.pc = verdict /\ read.trace = t /\ read.row = row
          /\ read.events = trace_events[t]
          /\ read \in [pc : {"idle", "has_row", "accepted", "rejected"}, trace : Traces \cup {None},
                       row : {read.row}, events : {read.events}]
      BY <2>1, <2>2 DEF ReadOK
    <2>4. verdict = "accepted" => VerifyEventChain(row, trace_events[t])
      OBVIOUS
    <2>5. verdict = "rejected" => ~VerifyEventChain(row, trace_events[t])
      OBVIOUS
    <2>6. ChainVerifies
      BY LinkedVerifies DEF ReadersInv
    <2> HIDE DEF read, verdict
    <2>7. ReadOK(read)
      BY <2>1, <2>2, <2>3, <2>4 DEF ReadOK
    <2>8. read.pc = "rejected" /\ read.row.status \in TerminalStatuses =>
            \E n \in DOMAIN read.events : ~Recomputable(read.events[n])
      BY <2>1, <2>2, <2>3, <2>5, <2>6 DEF ReadOK, ChainVerifies
    <2> QED
      BY <1>2, <2>1, <2>7, <2>8 DEF ReadersInv, ClosedReadsVerify
  <1>5. ASSUME NEW r \in Readers, Forget(r) PROVE ReadersInv'
    <2>1. ReadOK(NoRead) /\ NoRead.pc = "idle"
      BY DEF ReadOK, NoRead
    <2> QED
      BY <1>2, <1>5, <2>1 DEF Forget, ReadersInv, ClosedReadsVerify
  <1>6. CASE UNCHANGED inspectVars
    BY <1>1, <1>6 DEF inspectVars, repoVars
  <1> QED
    BY <1>1, <1>3, <1>4, <1>5, <1>6 DEF InspectNext

\* What replay.py and bundle.py go on with after verify_event_chain is one past state
\* of the trace, for any readers and writers, although it was read in two steps.
THEOREM AcceptedSnapshot == InspectSpec => []AcceptedIsSnapshot
  <1>1. ReadersInv => AcceptedIsSnapshot
    BY DEF ReadersInv, ReadOK, AcceptedIsSnapshot, VerifyEventChain
  <1> QED
    BY <1>1, ReadersInvInit, ReadersInvStep, PTL DEF InspectSpec

\* A reader that saw the trace finished is turned away only by an event that cannot
\* be recomputed, never by what writers do between its reads.
THEOREM ClosedReads == InspectSpec => []ClosedReadsVerify
  <1>1. ReadersInv => ClosedReadsVerify
    BY DEF ReadersInv
  <1> QED
    BY <1>1, ReadersInvInit, ReadersInvStep, PTL DEF InspectSpec
----------------------------------------------------------------------------
\* Types of the locks and the transactions.
TxTypeOK ==
  /\ lock \in [Traces -> Clients \cup {None}]
  /\ tx = [c \in Clients |-> tx[c]]
  /\ \A c \in Clients :
       /\ tx[c] \in [pc : {"idle", "waiting"} \cup Writing,
                     trace : Traces \cup {None}, body : Bodies \cup {None},
                     event : {tx[c].event}, row : {tx[c].row}]
       /\ tx[c].pc # "idle" => tx[c].trace \in Traces /\ tx[c].body \in Bodies

\* Inductive: the conjunction TypeOK carries is needed to know that a row is a
\* record.
PgInv == TypeOK /\ TxTypeOK /\ LockedRowUnchanged

\* Nothing is locked and nobody writes.
LEMMA PgInvInit == PgInit => PgInv
  BY TypeInit DEF PgInit, PgInv, TxTypeOK, LockedRowUnchanged, NoTx, Writing

\* What a committed append does is what the atomic append does
\* (repository.py:219-273 against :126-154).
LEMMA CommitAppends ==
  ASSUME PgInv, NEW c \in Clients, Commit(c)
  PROVE  tx[c].trace \in Traces /\ tx[c].body \in Bodies
         /\ AppendEvent(tx[c].trace, tx[c].body)
  <1>1. tx[c].trace \in Traces /\ tx[c].body \in Bodies
    BY DEF PgInv, TxTypeOK, Commit
  <1>2. /\ traces[tx[c].trace].status = "recording"
        /\ traces[tx[c].trace].event_count < MaxEvents
        /\ tx[c].event = NewEvent(traces[tx[c].trace], tx[c].body)
        /\ tx[c].row = Advanced(traces[tx[c].trace], tx[c].event)
    BY DEF PgInv, LockedRowUnchanged, Commit, Writing
  <1> QED
    BY <1>1, <1>2 DEF Commit, AppendEvent, PgInv, TypeOK

\* Every step of the clients is an operation of the atomic repository or leaves
\* the committed tables alone.
LEMMA PgStepRefines == PgInv /\ [PgNext]_pgVars => [Next]_repoVars
  <1> SUFFICES ASSUME PgInv, [PgNext]_pgVars PROVE [Next]_repoVars
    OBVIOUS
  <1>1. ASSUME NEW t \in Traces, PgCreateTrace(t) PROVE Next
    BY <1>1 DEF PgCreateTrace, Next
  <1>2. ASSUME NEW t \in Traces, NEW status \in TerminalStatuses,
               NEW signature \in Signatures \cup {None}, PgFinishTrace(t, status, signature)
        PROVE  Next
    BY <1>2 DEF PgFinishTrace, Next
  <1>3. ASSUME NEW t \in Traces, NEW name \in RefNames, NEW reference \in ContentRefs,
               PgSetWorkspaceRefs(t, name, reference)
        PROVE  Next
    BY <1>3 DEF PgSetWorkspaceRefs, Next
  <1>4. ASSUME NEW reference \in ContentRefs, PgRegisterBlob(reference) PROVE Next
    BY <1>4 DEF PgRegisterBlob, Next
  <1>5. ASSUME NEW c \in Clients, Commit(c) PROVE Next
    BY <1>5, CommitAppends DEF Next
  <1>6. ASSUME NEW c \in Clients,
               \/ \E t \in Traces, body \in Bodies : RequestAppend(c, t, body)
               \/ AppendSelect(c) \/ AppendRefused(c) \/ AppendInsert(c)
               \/ AppendUpdate(c) \/ Abort(c) \/ AppendOverflow(c)
        PROVE  UNCHANGED repoVars
    BY <1>6 DEF repoVars, RequestAppend, AppendSelect, AppendRefused, AppendInsert,
                AppendUpdate, Abort, AppendOverflow
  <1>7. CASE UNCHANGED pgVars
    BY <1>7 DEF pgVars, repoVars
  <1> QED
    BY <1>1, <1>2, <1>3, <1>4, <1>5, <1>6, <1>7 DEF PgNext

\* No step takes a row away from the transaction that has locked it: a step that
\* changes the row of t finds t unlocked or is the commit of the lock's holder.
LEMMA PgInvStep == PgInv /\ [PgNext]_pgVars => PgInv'
  <1> SUFFICES ASSUME PgInv, [PgNext]_pgVars PROVE PgInv'
    OBVIOUS
  <1> USE DEF PgInv
  <1>0. TypeOK'
    BY PgStepRefines, TypeStep
  <1>1. ASSUME NEW t \in Traces, PgCreateTrace(t) PROVE TxTypeOK' /\ LockedRowUnchanged'
    <2>1. \A u \in Traces : traces[u].status = "recording" => traces'[u] = traces[u]
      BY <1>1 DEF PgCreateTrace, CreateTrace, TypeOK, RowOK
    <2> QED
      BY <1>1, <2>1 DEF PgCreateTrace, TxTypeOK, LockedRowUnchanged, Writing
  <1>2. ASSUME NEW t \in Traces, NEW status \in TerminalStatuses,
               NEW signature \in Signatures \cup {None}, PgFinishTrace(t, status, signature)
        PROVE  TxTypeOK' /\ LockedRowUnchanged'
    <2>1. \A u \in Traces : lock[u] # None => traces'[u] = traces[u]
      BY <1>2 DEF PgFinishTrace, Free, FinishTrace, TypeOK
    <2> QED
      BY <1>2, <2>1, ClientsAssumption DEF PgFinishTrace, TxTypeOK, LockedRowUnchanged, Writing
  <1>3. ASSUME UNCHANGED <<traces, lock, tx>> PROVE TxTypeOK' /\ LockedRowUnchanged'
    BY <1>3 DEF TxTypeOK, LockedRowUnchanged
  <1>4. ASSUME NEW c \in Clients, NEW t \in Traces, NEW body \in Bodies,
               RequestAppend(c, t, body)
        PROVE  TxTypeOK' /\ LockedRowUnchanged'
    BY <1>4, ZenonT(60) DEF RequestAppend, NoTx, TxTypeOK, LockedRowUnchanged, Writing
  <1>5. ASSUME NEW c \in Clients, AppendSelect(c) PROVE TxTypeOK' /\ LockedRowUnchanged'
    <2> DEFINE t == tx[c].trace
    <2>1. t \in Traces /\ lock[t] = None /\ c # None
      BY <1>5, ClientsAssumption DEF AppendSelect, Free, TxTypeOK
    <2>2. /\ tx'[c] = [tx[c] EXCEPT !.pc = "selected", !.event = NewEvent(traces[t], tx[c].body)]
          /\ \A d \in Clients : d # c => tx'[d] = tx[d]
          /\ tx' = [d \in Clients |-> tx'[d]]
      BY <1>5 DEF AppendSelect, TxTypeOK
    <2>3. lock' = [lock EXCEPT ![t] = c] /\ traces' = traces
      BY <1>5 DEF AppendSelect
    <2>4. TxTypeOK'
      <3>1. tx'[c] \in [pc : {"idle", "waiting"} \cup Writing,
                        trace : Traces \cup {None}, body : Bodies \cup {None},
                        event : {tx'[c].event}, row : {tx'[c].row}]
        BY <2>2 DEF TxTypeOK, Writing
      <3>2. tx'[c].trace \in Traces /\ tx'[c].body \in Bodies
        BY <1>5, <2>2 DEF AppendSelect, TxTypeOK
      <3>3. lock' \in [Traces -> Clients \cup {None}]
        BY <2>1, <2>3 DEF TxTypeOK
      <3> QED
        BY <2>2, <3>1, <3>2, <3>3 DEF TxTypeOK
    <2>5. \A d \in Clients : d # c /\ tx[d].pc \in Writing => tx[d].trace # t
      BY <2>1, ClientsAssumption DEF LockedRowUnchanged
    <2>6. /\ tx'[c].pc = "selected" /\ tx'[c].trace = t /\ tx'[c].body = tx[c].body
          /\ tx'[c].event = NewEvent(traces[t], tx[c].body)
      BY <2>2 DEF TxTypeOK
    <2>7. traces[t].status = "recording"
      BY <1>5 DEF AppendSelect
    <2>8. lock'[t] = c /\ \A u \in Traces : u # t => lock'[u] = lock[u]
      BY <2>1, <2>3 DEF TxTypeOK
    <2>9. \A d \in Clients : d # c /\ tx[d].pc \in Writing => tx[d].trace \in Traces
      BY DEF TxTypeOK, Writing
    <2>10. ASSUME NEW d \in Clients, tx'[d].pc \in Writing
           PROVE  /\ lock'[tx'[d].trace] = d
                  /\ traces'[tx'[d].trace].status = "recording"
                  /\ tx'[d].event = NewEvent(traces'[tx'[d].trace], tx'[d].body)
                  /\ tx'[d].pc = "updated" =>
                       /\ tx'[d].row = Advanced(traces'[tx'[d].trace], tx'[d].event)
                       /\ traces'[tx'[d].trace].event_count < MaxEvents
      <3>1. CASE d = c
        BY <3>1, <2>3, <2>6, <2>7, <2>8
      <3>2. CASE d # c
        BY <3>2, <2>10, <2>2, <2>3, <2>5, <2>8, <2>9 DEF LockedRowUnchanged
      <3> QED
        BY <3>1, <3>2
    <2> QED
      BY <2>10, <2>4 DEF LockedRowUnchanged
  <1>6. ASSUME NEW c \in Clients, AppendInsert(c) PROVE TxTypeOK' /\ LockedRowUnchanged'
    BY <1>6 DEF AppendInsert, TxTypeOK, LockedRowUnchanged, Writing
  <1>7. ASSUME NEW c \in Clients, AppendUpdate(c) PROVE TxTypeOK' /\ LockedRowUnchanged'
    <2> DEFINE t == tx[c].trace
    <2>1. t \in Traces /\ tx[c].pc \in Writing /\ lock[t] = c
      BY <1>7 DEF AppendUpdate, TxTypeOK, LockedRowUnchanged, Writing
    <2>2. /\ tx'[c] = [tx[c] EXCEPT !.pc = "updated", !.row = Advanced(traces[t], tx[c].event)]
          /\ \A d \in Clients : d # c => tx'[d] = tx[d]
          /\ tx' = [d \in Clients |-> tx'[d]]
      BY <1>7 DEF AppendUpdate, TxTypeOK
    <2>3. lock' = lock /\ traces' = traces
      BY <1>7, <2>1 DEF AppendUpdate, TxTypeOK
    <2>4. /\ tx'[c].pc = "updated" /\ tx'[c].trace = t /\ tx'[c].body = tx[c].body
          /\ tx'[c].event = tx[c].event /\ tx'[c].row = Advanced(traces[t], tx[c].event)
      BY <2>2 DEF TxTypeOK
    <2>5. TxTypeOK'
      <3>1. tx'[c] \in [pc : {"idle", "waiting"} \cup Writing,
                        trace : Traces \cup {None}, body : Bodies \cup {None},
                        event : {tx'[c].event}, row : {tx'[c].row}]
        BY <2>2 DEF TxTypeOK, Writing
      <3>2. tx'[c].trace \in Traces /\ tx'[c].body \in Bodies
        BY <1>7, <2>2, ZenonT(60) DEF AppendUpdate, TxTypeOK
      <3> QED
        BY <2>2, <2>3, <3>1, <3>2 DEF TxTypeOK
    <2>6. traces[t].event_count < MaxEvents
      BY <1>7 DEF AppendUpdate
    <2>7. ASSUME NEW d \in Clients, tx'[d].pc \in Writing
           PROVE  /\ lock'[tx'[d].trace] = d
                  /\ traces'[tx'[d].trace].status = "recording"
                  /\ tx'[d].event = NewEvent(traces'[tx'[d].trace], tx'[d].body)
                  /\ tx'[d].pc = "updated" =>
                       /\ tx'[d].row = Advanced(traces'[tx'[d].trace], tx'[d].event)
                       /\ traces'[tx'[d].trace].event_count < MaxEvents
      <3>1. CASE d = c
        BY <3>1, <2>1, <2>3, <2>4, <2>6 DEF LockedRowUnchanged
      <3>2. CASE d # c
        BY <3>2, <2>7, <2>2, <2>3 DEF LockedRowUnchanged
      <3> QED
        BY <3>1, <3>2
    <2> QED
      BY <2>7, <2>5 DEF LockedRowUnchanged
  <1>8. ASSUME NEW c \in Clients, Commit(c) PROVE TxTypeOK' /\ LockedRowUnchanged'
    <2>1. lock[tx[c].trace] = c
      BY <1>8 DEF Commit, LockedRowUnchanged, Writing
    <2>2. \A u \in Traces : u # tx[c].trace => traces'[u] = traces[u]
      BY <1>8 DEF Commit, TypeOK
    <2> QED
      BY <1>8, <2>1, <2>2, ClientsAssumption
         DEF Commit, Unlocked, NoTx, TxTypeOK, LockedRowUnchanged, Writing
  <1>9. ASSUME NEW c \in Clients, AppendRefused(c) PROVE TxTypeOK' /\ LockedRowUnchanged'
    BY <1>9 DEF AppendRefused, NoTx, TxTypeOK, LockedRowUnchanged, Writing
  <1>10. ASSUME NEW c \in Clients, Abort(c) PROVE TxTypeOK' /\ LockedRowUnchanged'
    BY <1>10, ClientsAssumption DEF Abort, Unlocked, NoTx, TxTypeOK, LockedRowUnchanged, Writing
  <1> QED
    BY <1>0, <1>1, <1>2, <1>3, <1>4, <1>5, <1>6, <1>7, <1>8, <1>9, <1>10
       DEF PgNext, pgVars, PgSetWorkspaceRefs, SetWorkspaceRefs, PgRegisterBlob, RegisterBlob,
           AppendOverflow

\* A transaction that writes is alone on its row, and its event is the next one of
\* the trace, for any clients and traces (the FOR UPDATE of repository.py:222-224).
THEOREM RowLockHolds == PgSpec => []LockedRowUnchanged
  <1>1. PgInv => LockedRowUnchanged
    BY DEF PgInv
  <1> QED
    BY <1>1, PgInvInit, PgInvStep, PTL DEF PgSpec

\* The transactions implement the atomic repository: so TypeOK, ChainVerifies and
\* the log hold of the committed tables as well.
THEOREM TransactionsImplement == PgSpec => ImplementsRepository
  <1>1. PgInit => Init
    BY DEF PgInit
  <1> QED
    BY <1>1, PgInvInit, PgInvStep, PgStepRefines, PTL DEF PgSpec, Spec, ImplementsRepository

\* Committed chains verify and the committed log is append-only.
COROLLARY CommittedChains == PgSpec => []ChainVerifies /\ ImplementsTraceLog
  BY TransactionsImplement, ChainsVerify, LogImplemented, PTL DEF ImplementsRepository
----------------------------------------------------------------------------
\* A row is locked by a client that is writing it.
HeldByWriters ==
  \A t \in Traces :
    Free(t) \/ (lock[t] \in Clients /\ tx[lock[t]].pc \in Writing /\ tx[lock[t]].trace = t)

LEMMA HeldStep == PgInv /\ HeldByWriters /\ [PgNext]_pgVars => HeldByWriters'
  <1> SUFFICES ASSUME PgInv, HeldByWriters, [PgNext]_pgVars PROVE HeldByWriters'
    OBVIOUS
  <1> USE DEF HeldByWriters, Free
  <1>1. lock \in [Traces -> Clients \cup {None}] /\ tx = [c \in Clients |-> tx[c]]
    BY DEF PgInv, TxTypeOK
  <1>2. ASSUME UNCHANGED <<lock, tx>> PROVE HeldByWriters'
    BY <1>2
  <1>3. ASSUME NEW c \in Clients, NEW t \in Traces, NEW body \in Bodies, RequestAppend(c, t, body)
        PROVE  HeldByWriters'
    BY <1>1, <1>3 DEF RequestAppend, NoTx, Writing
  <1>4. ASSUME NEW c \in Clients, AppendSelect(c) \/ AppendInsert(c) \/ AppendUpdate(c)
        PROVE  HeldByWriters'
    <2>1. tx[c].trace \in Traces
      BY <1>4 DEF AppendSelect, AppendInsert, AppendUpdate, PgInv, TxTypeOK
    <2>2. CASE AppendSelect(c)
      BY <1>1, <2>1, <2>2 DEF AppendSelect, Writing
    <2>3. CASE AppendInsert(c)
      <3>1. tx' = [tx EXCEPT ![c].pc = "inserted"] /\ lock' = lock
        BY <2>3 DEF AppendInsert
      <3>2. /\ tx'[c].pc = "inserted" /\ tx'[c].trace = tx[c].trace
            /\ \A d \in Clients : d # c => tx'[d] = tx[d]
        BY <1>1, <3>1 DEF PgInv, TxTypeOK
      <3> QED
        BY <3>1, <3>2 DEF Writing
    <2>4. CASE AppendUpdate(c)
      BY <1>1, <2>1, <2>4 DEF AppendUpdate, Writing
    <2> QED
      BY <1>4, <2>2, <2>3, <2>4
  <1>5. ASSUME NEW c \in Clients, AppendRefused(c) PROVE HeldByWriters'
    BY <1>1, <1>5 DEF AppendRefused, NoTx, Writing
  <1>6. ASSUME NEW c \in Clients, Commit(c) \/ Abort(c) \/ AppendOverflow(c) PROVE HeldByWriters'
    <2>1. lock' = Unlocked(c) /\ tx' = [tx EXCEPT ![c] = NoTx]
      BY <1>6 DEF Commit, Abort, AppendOverflow
    <2> SUFFICES ASSUME NEW t \in Traces, lock'[t] # None
                 PROVE  /\ lock'[t] \in Clients /\ tx'[lock'[t]].pc \in Writing
                        /\ tx'[lock'[t]].trace = t
      OBVIOUS
    <2>2. lock'[t] = lock[t] /\ lock[t] # c
      BY <1>1, <2>1 DEF Unlocked
    <2>3. lock[t] \in Clients /\ tx[lock[t]].pc \in Writing /\ tx[lock[t]].trace = t
      BY <2>2
    <2>4. tx'[lock[t]] = tx[lock[t]]
      BY <1>1, <2>1, <2>2, <2>3
    <2> QED
      BY <2>2, <2>3, <2>4
  <1> QED
    BY <1>2, <1>3, <1>4, <1>5, <1>6
       DEF PgNext, pgVars, PgCreateTrace, PgFinishTrace, PgSetWorkspaceRefs, PgRegisterBlob

\* The client's next statement waits for nobody and meets no duplicate key.
GoesOn(c) ==
  LET t == tx[c].trace IN
  \/ /\ tx[c].pc = "selected" /\ tx[c].event.sequence \notin DOMAIN trace_events[t]
     /\ \A d \in Clients : tx[d].trace = t => tx[d].pc \notin {"inserted", "updated"}
  \/ tx[c].pc = "inserted" /\ lock[t] = c /\ traces[t].event_count <= MaxEvents
  \/ tx[c].pc = "updated" /\ lock[t] = c

\* Whoever waits for a row waits for a client that can go on to its commit, so that no
\* two wait for each other (repository.py:219-273 takes one lock and holds no other).
HoldersGoOn == \A t \in Traces : Free(t) \/ (tx[lock[t]].trace = t /\ GoesOn(lock[t]))

LEMMA HoldersCan == PgInv /\ HeldByWriters => HoldersGoOn
  <1> SUFFICES ASSUME PgInv, HeldByWriters, NEW t \in Traces, ~Free(t)
               PROVE  tx[lock[t]].trace = t /\ GoesOn(lock[t])
    BY DEF HoldersGoOn
  <1> DEFINE c == lock[t]
  <1>1. c \in Clients /\ tx[c].pc \in Writing /\ tx[c].trace = t
    BY DEF HeldByWriters
  <1>2. /\ tx[c].event = NewEvent(traces[t], tx[c].body)
        /\ \A d \in Clients : tx[d].pc \in Writing /\ tx[d].trace = t => lock[t] = d
    BY <1>1 DEF PgInv, LockedRowUnchanged
  <1>3. /\ tx[c].event.sequence = traces[t].event_count
        /\ traces[t].event_count \in 0 .. MaxEvents
        /\ traces[t].event_count \notin DOMAIN trace_events[t]
    BY <1>1, <1>2, BoundAssumption DEF NewEvent, PgInv, TypeOK, RowOK
  <1>4. CASE tx[c].pc = "selected"
    <2>1. \A d \in Clients : tx[d].trace = t => tx[d].pc \notin {"inserted", "updated"}
      BY <1>2, <1>4 DEF Writing
    <2> QED
      BY <1>1, <1>3, <1>4, <2>1 DEF GoesOn
  <1>5. CASE tx[c].pc \in {"inserted", "updated"}
    BY <1>1, <1>3, <1>5 DEF GoesOn
  <1> QED
    BY <1>1, <1>4, <1>5 DEF Writing

\* Nobody waits in a circle: whoever waits for a row waits for a client that can
\* itself go on to its commit, which gives the row back (repository.py:219-273).
THEOREM NoWaitingInCircles == PgSpec => []HoldersGoOn
  <1>1. PgInit => HeldByWriters
    BY DEF PgInit, HeldByWriters, Free
  <1> QED
    BY <1>1, PgInvInit, PgInvStep, HeldStep, HoldersCan, PTL DEF PgSpec
=============================================================================
