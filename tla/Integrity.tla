----------------------------- MODULE Integrity -----------------------------
(***************************************************************************)
(* The hash chain of a trace: canonical.event_hash, the payload an event   *)
(* hashes (repository._event_payload), the event the repository builds     *)
(* from it, and integrity.verify_event_chain.                              *)
(*                                                                         *)
(* SHA-256 is a term constructor: two hashes are equal exactly when the    *)
(* payload and the previous hash are.  A list of events is a function over *)
(* 0 .. n - 1, as the code counts, so that it is also the content of the   *)
(* table trace_events of one trace, keyed by sequence.                     *)
(*                                                                         *)
(* Of the body of an event (kind, name, references, metadata, duration,    *)
(* cost) two details are kept, because both may change after the payload   *)
(* was hashed: how canonical_json prints the cost, which TraceEvent        *)
(* coerces from an integer to a float, and how it prints the metadata,     *)
(* which PostgreSQL keeps as JSONB.                                        *)
(***************************************************************************)
EXTENDS Integers

CONSTANT Column   \* Column[m]: what the repository gives back for the metadata m

\* What was read can be written again.
ASSUME ColumnAssumption ==
  \A m \in DOMAIN Column : Column[m] \in DOMAIN Column /\ Column[Column[m]] = Column[m]

\* The previous hash of the first event, "0" * 64.
Genesis == << >>

EventHash(payload, previous) == <<payload, previous>>

\* How canonical_json prints cost_usd: null, 0.25 or 1.
CostKinds == {"none", "float", "int"}

Payload(sequence, body) == [sequence |-> sequence, body |-> body]

\* TraceEvent declares cost_usd: float | None, so the field of the event holds
\* a float when the caller passed an integer.
Coerced(cost_usd) == IF cost_usd = "int" THEN "float" ELSE cost_usd

\* The body as it is read again.  The column of the metadata is a JSONB, which keeps the
\* value of a number and not how it was printed: 1e+22 comes back as an integer.  In the
\* memory repository it is the identity.
AsStored(body) ==
  [body EXCEPT !.cost_usd = Coerced(@), !.metadata = Column[@]]

\* The event append_event builds for a body on top of the row of its trace: the
\* hash is over the caller's body, the fields are the stored ones.
NewEvent(row, body) ==
  [sequence |-> row.event_count, body |-> AsStored(body),
   previous_hash |-> row.chain_head,
   event_hash |-> EventHash(Payload(row.event_count, body), row.chain_head)]

\* Mutant of Advanced: the count moves and the head does not.
AdvancedStale(row, event) == [row EXCEPT !.event_count = @ + 1]

\* The row of the trace once the event is appended.
Advanced(row, event) ==
  [row EXCEPT !.event_count = @ + 1, !.chain_head = event.event_hash]

\* The head of the chain after the first n events.
HeadAfter(events, n) == IF n = 0 THEN Genesis ELSE events[n - 1].event_hash

\* One turn of the loop of verify_event_chain, at position n with the hash the
\* turns before it have arrived at.
EventChecks(event, n, previous) ==
  /\ event.sequence = n
  /\ event.previous_hash = previous
  /\ event.event_hash = EventHash(Payload(event.sequence, event.body), previous)

\* Mutant of VerifyEventChain: the row is not looked at.
VerifyLinksOnly(row, events) ==
  \A n \in DOMAIN events : EventChecks(events[n], n, HeadAfter(events, n))

\* The loop as a whole, and the comparison with the row of the trace after it.
VerifyEventChain(row, events) ==
  /\ \A n \in DOMAIN events : EventChecks(events[n], n, HeadAfter(events, n))
  /\ DOMAIN events = 0 .. row.event_count - 1
  /\ row.chain_head = HeadAfter(events, row.event_count)

\* The body the hash of an event was computed over (it is not stored: only the
\* hash remembers it).
HashedBody(event) == event.event_hash[1].body

\* The hash of the event can be recomputed from its fields.
Recomputable(event) == AsStored(HashedBody(event)) = HashedBody(event)
============================================================================
