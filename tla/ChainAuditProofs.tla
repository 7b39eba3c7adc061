-------------------------- MODULE ChainAuditProofs ---------------------------
(***************************************************************************)
(* verify_event_chain accepts the recorded events and no others, for       *)
(* chains and lists of any length.                                         *)
(***************************************************************************)
EXTENDS Verification, TLAPS

\* Inductive.  The turns made so far have checked the events before position and
\* left their last hash in previous.  Hashes do not collide, so if that hash is
\* the one the recorded chain has at this position, so is every hash before it,
\* and the events before position are the recorded ones: that is what makes the
\* comparison of the last hash with the head of the row enough.
SamePrefix ==
  position <= row.event_count /\ previous = HeadAfter(authentic, position)
    => \A i \in 0 .. position - 1 : events[i] = authentic[i]

UnderWay ==
  /\ position \in Nat
  /\ IsList(events) /\ IsList(authentic)
  /\ row.event_count \in Nat /\ VerifyEventChain(row, authentic)
  /\ \A i \in 0 .. position - 1 : i \in DOMAIN events
  /\ \A i \in 0 .. position - 1 : EventChecks(events[i], i, HeadAfter(events, i))
  /\ previous = HeadAfter(events, position)
  /\ SamePrefix
  /\ verdict \in {"running", "accepted", "rejected"}
  /\ verdict # "running" => (verdict = "accepted" <=> VerifyEventChain(row, events))
  /\ verdict = "accepted" => events = authentic

AuditInv == verdict = "idle" \/ UnderWay

\* The length of a list, and what it is equal to when it has the same events.
LEMMA ListDomain ==
  ASSUME NEW list, IsList(list)
  PROVE  \E n \in Nat : list = [i \in 0 .. n - 1 |-> list[i]] /\ DOMAIN list = 0 .. n - 1
  BY LengthAssumption DEF IsList

\* Before the first turn nothing is checked and the hash is the genesis.
LEMMA BeginStep == BeginAudit => AuditInv'
  BY ChainsAssumption, ListsAssumption DEF BeginAudit, AuditInv, UnderWay, SamePrefix, HeadAfter

\* An event that checks on top of a common prefix, with the hash the recorded
\* chain has there, is the recorded event.
LEMMA SameEvent ==
  ASSUME NEW n \in Nat, NEW event, NEW list, IsList(list), n \in DOMAIN list,
         event = [sequence |-> event.sequence, body |-> event.body,
                  previous_hash |-> event.previous_hash, event_hash |-> event.event_hash],
         EventChecks(list[n], n, HeadAfter(list, n)),
         NEW hash, EventChecks(event, n, hash),
         event.event_hash = list[n].event_hash
  PROVE  event = list[n] /\ hash = HeadAfter(list, n)
  <1>1. /\ Payload(n, event.body) = Payload(n, list[n].body)
        /\ hash = HeadAfter(list, n)
    BY DEF EventChecks, EventHash
  <1>2. event.body = list[n].body
    BY <1>1 DEF Payload
  <1> QED
    BY <1>1, <1>2 DEF EventChecks, IsList

\* A turn of the loop keeps the invariant.
LEMMA CheckEventStep == AuditInv /\ CheckEvent => AuditInv'
  <1> SUFFICES ASSUME UnderWay, CheckEvent PROVE UnderWay'
    BY DEF AuditInv, CheckEvent
  <1>1. /\ position \in Nat /\ position \in DOMAIN events /\ verdict = "running"
        /\ UNCHANGED <<row, authentic, events>>
    BY DEF UnderWay, CheckEvent
  <1>2. CASE EventChecks(events[position], position, previous)
    <2>1. /\ position' = position + 1 /\ verdict' = verdict
          /\ previous' = events[position].event_hash
      BY <1>2 DEF CheckEvent, Calculated, EventChecks
    <2>2. previous' = HeadAfter(events, position + 1)
      BY <1>1, <2>1 DEF HeadAfter
    <2>3. \A i \in 0 .. position : /\ i \in DOMAIN events
                                   /\ EventChecks(events[i], i, HeadAfter(events, i))
      BY <1>1, <1>2 DEF UnderWay
    <2>4. ASSUME position + 1 <= row.event_count,
                 previous' = HeadAfter(authentic, position + 1)
          PROVE  \A i \in 0 .. position : events[i] = authentic[i]
      <3>1. position \in DOMAIN authentic
        BY <1>1, <2>4 DEF UnderWay, VerifyEventChain
      <3>2. events[position].event_hash = authentic[position].event_hash
        BY <1>1, <2>1, <2>4 DEF HeadAfter
      <3>3. EventChecks(authentic[position], position, HeadAfter(authentic, position))
        BY <3>1 DEF UnderWay, VerifyEventChain
      <3>4. events[position] = authentic[position] /\ previous = HeadAfter(authentic, position)
        <4>1. events[position] =
                [sequence |-> events[position].sequence, body |-> events[position].body,
                 previous_hash |-> events[position].previous_hash,
                 event_hash |-> events[position].event_hash]
          BY <1>1 DEF UnderWay, IsList
        <4>2. IsList(authentic)
          BY DEF UnderWay
        <4> QED
          BY <1>1, <1>2, <3>1, <3>2, <3>3, <4>1, <4>2, SameEvent
      <3>5. \A i \in 0 .. position - 1 : events[i] = authentic[i]
        BY <1>1, <2>4, <3>4 DEF UnderWay, SamePrefix
      <3> QED
        BY <1>1, <3>4, <3>5
    <2>5. SamePrefix'
      BY <1>1, <2>1, <2>4 DEF SamePrefix
    <2> QED
      BY <1>1, <2>1, <2>2, <2>3, <2>5 DEF UnderWay
  <1>3. CASE ~EventChecks(events[position], position, previous)
    <2>1. verdict' = "rejected" /\ UNCHANGED <<position, previous>>
      BY <1>3 DEF CheckEvent
    <2>2. ~VerifyEventChain(row, events)
      BY <1>1, <1>3 DEF UnderWay, VerifyEventChain
    <2> QED
      BY <1>1, <2>1, <2>2 DEF UnderWay, SamePrefix
  <1> QED
    BY <1>2, <1>3

\* The comparison with the row decides.
LEMMA CheckHeadStep == AuditInv /\ CheckHead => AuditInv'
  <1> SUFFICES ASSUME UnderWay, CheckHead PROVE UnderWay'
    BY DEF AuditInv, CheckHead
  <1>1. /\ position \in Nat /\ position \notin DOMAIN events /\ verdict = "running"
        /\ UNCHANGED <<row, authentic, events, position, previous>>
    BY DEF UnderWay, CheckHead
  <1>2. PICK n \in Nat : events = [i \in 0 .. n - 1 |-> events[i]] /\ DOMAIN events = 0 .. n - 1
    BY ListDomain DEF UnderWay
  <1>3. position = n
    <2>1. n <= position
      BY <1>1, <1>2
    <2>2. position # 0 => position - 1 \in DOMAIN events
      BY <1>1 DEF UnderWay
    <2> QED
      BY <1>1, <1>2, <2>1, <2>2
  <1>4. /\ \A i \in DOMAIN events : EventChecks(events[i], i, HeadAfter(events, i))
        /\ previous = HeadAfter(events, n)
    BY <1>2, <1>3 DEF UnderWay
  <1>5. CASE row.event_count = position /\ row.chain_head = previous
    <2>1. VerifyEventChain(row, events)
      BY <1>2, <1>3, <1>4, <1>5 DEF VerifyEventChain
    <2>2. DOMAIN authentic = 0 .. n - 1 /\ previous = HeadAfter(authentic, position)
      BY <1>3, <1>5 DEF UnderWay, VerifyEventChain
    <2>3. \A i \in 0 .. n - 1 : events[i] = authentic[i]
      BY <1>1, <1>3, <1>5, <2>2 DEF UnderWay, SamePrefix
    <2>4. authentic = [i \in 0 .. n - 1 |-> authentic[i]]
      BY <2>2, ListDomain DEF UnderWay
    <2>5. events = authentic
      BY <1>2, <2>3, <2>4
    <2>6. verdict' = "accepted"
      BY <1>5 DEF CheckHead
    <2> QED
      BY <1>1, <2>1, <2>5, <2>6 DEF UnderWay, SamePrefix
  <1>6. CASE ~(row.event_count = position /\ row.chain_head = previous)
    <2>1. ~VerifyEventChain(row, events)
      <3>1. ASSUME VerifyEventChain(row, events) PROVE row.event_count = n
        BY <1>2, <3>1 DEF VerifyEventChain, UnderWay
      <3> QED
        BY <1>3, <1>4, <1>6, <3>1 DEF VerifyEventChain
    <2>2. verdict' = "rejected"
      BY <1>6 DEF CheckHead
    <2> QED
      BY <1>1, <2>1, <2>2 DEF UnderWay, SamePrefix
  <1> QED
    BY <1>5, <1>6

\* The invariant holds throughout the audit.
THEOREM AuditCorrect == AuditSpec => []AuditInv
  <1>1. AuditInv /\ UNCHANGED auditVars => AuditInv'
    BY DEF AuditInv, UnderWay, SamePrefix, auditVars
  <1>2. AuditInit => AuditInv
    BY DEF AuditInit, AuditInv
  <1> QED
    BY <1>1, <1>2, BeginStep, CheckEventStep, CheckHeadStep, PTL DEF AuditSpec, AuditNext

\* A list verify_event_chain accepts is the recorded one, whatever was removed,
\* reordered, copied or modified (docs/architecture.md:14-15).
THEOREM EveryEditDetected == AuditSpec => []DetectsEveryEdit
  <1>1. AuditInv => DetectsEveryEdit
    BY DEF AuditInv, UnderWay, DetectsEveryEdit
  <1> QED
    BY <1>1, AuditCorrect, PTL

\* The loop of integrity.py:10-33 decides VerifyEventChain.
THEOREM LoopDecides == AuditSpec => []LoopAgrees
  <1>1. AuditInv => LoopAgrees
    BY DEF AuditInv, UnderWay, LoopAgrees
  <1> QED
    BY <1>1, AuditCorrect, PTL

\* Calls on edited lists and the readers beside the writers share nothing: what is
\* proved of either holds beside the other.
THEOREM BothVerify == VerificationSpec => InspectSpec /\ AuditSpec
  <1>1. [VerificationNext]_<<inspectVars, auditVars>> =>
          [InspectNext]_inspectVars /\ [AuditNext]_auditVars
    BY DEF VerificationNext
  <1> QED
    BY <1>1, PTL DEF VerificationSpec, VerificationInit, InspectSpec, AuditSpec
============================================================================
