------------------------------ MODULE Inspect -------------------------------
(***************************************************************************)
(* Readers beside the writers of a repository.  ReplayEngine.replay, the   *)
(* export of a bundle and `replayscope verify` first read the row of the   *)
(* trace (get_trace), then its events (events), each under the lock or in  *)
(* a transaction of its own, and hand both to verify_event_chain: what the *)
(* writers do between the two reads is seen by the second one only.        *)
(***************************************************************************)
EXTENDS Repository

CONSTANTS Readers

VARIABLE reader   \* reader[r]: what the reader holds and how far it is

inspectVars == <<traces, trace_events, refs, blobs, reader>>

NoRead == [pc |-> "idle", trace |-> None, row |-> NoRow, events |-> << >>]

InspectInit == Init /\ reader = [r \in Readers |-> NoRead]

GetTrace(r, t) ==
  /\ reader[r].pc = "idle"
  /\ traces[t].status # "absent"
  /\ reader' = [reader EXCEPT ![r] =
                 [NoRead EXCEPT !.pc = "has_row", !.trace = t, !.row = traces[t]]]
  /\ UNCHANGED repoVars

\* The second read, and the verdict on what the two have returned.
GetEvents(r) ==
  LET events == trace_events[reader[r].trace] IN
  /\ reader[r].pc = "has_row"
  /\ reader' = [reader EXCEPT
                 ![r].events = events,
                 ![r].pc = IF VerifyEventChain(reader[r].row, events)
                           THEN "accepted" ELSE "rejected"]
  /\ UNCHANGED repoVars

\* The replay or export ends.
Forget(r) ==
  /\ reader[r].pc \in {"accepted", "rejected"}
  /\ reader' = [reader EXCEPT ![r] = NoRead]
  /\ UNCHANGED repoVars

InspectNext ==
  \/ Next /\ UNCHANGED reader
  \/ \E r \in Readers :
       \/ \E t \in Traces : GetTrace(r, t)
       \/ GetEvents(r)
       \/ Forget(r)

InspectSpec == InspectInit /\ [][InspectNext]_inspectVars
----------------------------------------------------------------------------
\* What replay.py works on once verify_event_chain has passed is one state of the
\* trace, not a mix of two: the events are the ones the row counts, the last of
\* them is the row's chain head, and they are still the beginning of the log.
AcceptedIsSnapshot ==
  \A r \in Readers : reader[r].pc = "accepted" =>
    LET row == reader[r].row  events == reader[r].events IN
    /\ DOMAIN events = 0 .. row.event_count - 1
    /\ row.chain_head = HeadAfter(events, row.event_count)
    /\ \A n \in DOMAIN events : events[n] = trace_events[reader[r].trace][n]

\* A reader that saw the trace finished is never turned away because of what
\* writers do between its two reads: a rejection means that an event cannot be
\* recomputed.  (One that saw the trace recording may be: an append between the
\* reads makes the list longer than the row.)
ClosedReadsVerify ==
  \A r \in Readers :
    reader[r].pc = "rejected" /\ reader[r].row.status \in TerminalStatuses =>
      \E n \in DOMAIN reader[r].events : ~Recomputable(reader[r].events[n])
============================================================================
