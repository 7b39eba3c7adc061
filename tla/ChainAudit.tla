----------------------------- MODULE ChainAudit -----------------------------
(***************************************************************************)
(* The loop of integrity.verify_event_chain on a list of events that may   *)
(* not be the one that was recorded: rows of trace_events may have been    *)
(* removed, reordered, copied, changed, or replaced by the events of       *)
(* another chain.  The row of the trace is the recorded one.               *)
(***************************************************************************)
EXTENDS Integrity

CONSTANTS Chains,     \* recorded chains: a row and the events that belong to it
          Lists,      \* lists of events the repository may return for them
          MaxLength   \* bound: events in a list

\* Events are records of four fields, and lists have no gaps.
IsList(events) ==
  /\ \E n \in 0 .. MaxLength : events = [i \in 0 .. n - 1 |-> events[i]]
  /\ \A i \in DOMAIN events :
       events[i] = [sequence |-> events[i].sequence, body |-> events[i].body,
                    previous_hash |-> events[i].previous_hash,
                    event_hash |-> events[i].event_hash]

\* What the repository has recorded verifies (ChainVerifies of Repository).
ASSUME ChainsAssumption ==
  \A chain \in Chains : /\ IsList(chain.events)
                        /\ chain.row.event_count \in Nat
                        /\ VerifyEventChain(chain.row, chain.events)
ASSUME LengthAssumption == MaxLength \in Nat
ASSUME ListsAssumption == \A events \in Lists : IsList(events)

VARIABLES row, authentic,  \* the recorded row and events
          events,          \* the events the auditor is given
          position,        \* turns of the loop so far
          previous,        \* the hash they have arrived at
          verdict          \* "idle", "running", "accepted" or "rejected"

auditVars == <<row, authentic, events, position, previous, verdict>>

AuditInit ==
  /\ row = << >> /\ authentic = << >> /\ events = << >>
  /\ position = 0 /\ previous = Genesis /\ verdict = "idle"

\* The call, with the row of a trace and a list.
BeginAudit ==
  /\ verdict = "idle"
  /\ \E chain \in Chains : row' = chain.row /\ authentic' = chain.events
  /\ events' \in Lists
  /\ position' = 0 /\ previous' = Genesis /\ verdict' = "running"

Calculated == EventHash(Payload(events[position].sequence, events[position].body), previous)

\* Mutant of CheckEvent: the stored hash is carried on, not the calculated one,
\* and not compared with it.
TrustStoredHash ==
  /\ verdict = "running" /\ position \in DOMAIN events
  /\ IF /\ events[position].sequence = position
        /\ events[position].previous_hash = previous
     THEN /\ previous' = events[position].event_hash
          /\ position' = position + 1
          /\ UNCHANGED verdict
     ELSE verdict' = "rejected" /\ UNCHANGED <<position, previous>>
  /\ UNCHANGED <<row, authentic, events>>

\* One turn of the loop: a check that fails raises TraceIntegrityError.
CheckEvent ==
  /\ verdict = "running" /\ position \in DOMAIN events
  /\ IF EventChecks(events[position], position, previous)
     THEN /\ previous' = Calculated
          /\ position' = position + 1
          /\ UNCHANGED verdict
     ELSE verdict' = "rejected" /\ UNCHANGED <<position, previous>>
  /\ UNCHANGED <<row, authentic, events>>

\* Mutant of CheckHead: only the count is compared.
CheckCountOnly ==
  /\ verdict = "running" /\ position \notin DOMAIN events
  /\ verdict' = IF row.event_count = position THEN "accepted" ELSE "rejected"
  /\ UNCHANGED <<row, authentic, events, position, previous>>

\* After the loop: the count and the head of the row.
CheckHead ==
  /\ verdict = "running" /\ position \notin DOMAIN events
  /\ verdict' = IF row.event_count = position /\ row.chain_head = previous
                THEN "accepted" ELSE "rejected"
  /\ UNCHANGED <<row, authentic, events, position, previous>>

AuditNext == BeginAudit \/ CheckEvent \/ CheckHead

AuditSpec == AuditInit /\ [][AuditNext]_auditVars
----------------------------------------------------------------------------
\* docs/architecture.md "removal, reordering, or modification is detectable": a
\* list that passes is, event for event, the one that was recorded.
DetectsEveryEdit == verdict = "accepted" => events = authentic

\* The loop decides what VerifyEventChain says of the list as a whole, so a list
\* that was not touched passes.
LoopAgrees ==
  verdict \in {"accepted", "rejected"} =>
    (verdict = "accepted" <=> VerifyEventChain(row, events))
============================================================================
