------------------------- MODULE PostgresRepository --------------------------
(***************************************************************************)
(* PostgresTraceRepository: the operations of the trace repository as      *)
(* transactions (READ COMMITTED) of several clients on the tables of       *)
(* schema.sql.  append_event is the one with several statements:           *)
(*   SELECT ... FOR UPDATE;  INSERT INTO trace_events;                     *)
(*   UPDATE traces SET event_count = event_count + 1, chain_head = ...;    *)
(* and the commit that ends the with block.  The other writers are single  *)
(* statements: they take effect at once, but an UPDATE of a row waits for  *)
(* the transaction that holds its lock.                                    *)
(*                                                                         *)
(* traces, trace_events, refs and blobs are what is committed.  An error,  *)
(* a lost connection or the death of the client rolls a transaction back.  *)
(* PostgreSQL itself is modelled by how this code uses it.                 *)
(***************************************************************************)
EXTENDS Repository

CONSTANTS Clients   \* processes and threads that use the repository

ASSUME ClientsAssumption == None \notin Traces \cup Clients

VARIABLES lock,   \* lock[t]: the client whose transaction locks the row of t
          tx      \* tx[c]: the append_event of c

pgVars == <<traces, trace_events, refs, blobs, lock, tx>>

\* The call waits for the row, has the row, has inserted the event, has updated
\* the row; event and row are what its transaction has written so far.
NoTx == [pc |-> "idle", trace |-> None, body |-> None, event |-> None, row |-> NoRow]
Writing == {"selected", "inserted", "updated"}

Free(t) == lock[t] = None
Unlocked(c) == [t \in Traces |-> IF lock[t] = c THEN None ELSE lock[t]]

PgInit ==
  /\ Init
  /\ lock = [t \in Traces |-> None]
  /\ tx = [c \in Clients |-> NoTx]

PgCreateTrace(t) == CreateTrace(t) /\ UNCHANGED <<lock, tx>>

PgRegisterBlob(reference) == RegisterBlob(reference) /\ UNCHANGED <<lock, tx>>

\* UPDATE ... WHERE status = 'recording': waits for the row, then looks at it.
PgFinishTrace(t, status, signature) ==
  Free(t) /\ FinishTrace(t, status, signature) /\ UNCHANGED <<lock, tx>>

\* An UPDATE by id: no row, no effect, and no error.
PgSetWorkspaceRefs(t, name, reference) ==
  Free(t) /\ SetWorkspaceRefs(t, name, reference) /\ UNCHANGED <<lock, tx>>

\* A client calls append_event.
RequestAppend(c, t, body) ==
  /\ tx[c].pc = "idle"
  /\ tx' = [tx EXCEPT ![c] =
             [NoTx EXCEPT !.pc = "waiting", !.trace = t, !.body = body]]
  /\ UNCHANGED <<traces, trace_events, refs, blobs, lock>>

\* Mutant of AppendSelect: SELECT without FOR UPDATE.
AppendSelectUnlocked(c) ==
  LET t == tx[c].trace IN
  /\ tx[c].pc = "waiting"
  /\ traces[t].status = "recording"
  /\ tx' = [tx EXCEPT ![c].pc = "selected",
                      ![c].event = NewEvent(traces[t], tx[c].body)]
  /\ UNCHANGED <<traces, trace_events, refs, blobs, lock>>

\* Mutant of AppendSelect: SELECT ... FOR UPDATE in a transaction of its own, whose end
\* gives the lock back before the INSERT.
AppendSelectCommitted(c) ==
  LET t == tx[c].trace IN
  /\ tx[c].pc = "waiting"
  /\ Free(t)
  /\ traces[t].status = "recording"
  /\ tx' = [tx EXCEPT ![c].pc = "selected",
                      ![c].event = NewEvent(traces[t], tx[c].body)]
  /\ UNCHANGED <<traces, trace_events, refs, blobs, lock>>

\* SELECT ... FOR UPDATE returns the row; the event is built from what it says.
AppendSelect(c) ==
  LET t == tx[c].trace IN
  /\ tx[c].pc = "waiting"
  /\ Free(t)
  /\ traces[t].status = "recording"
  /\ lock' = [lock EXCEPT ![t] = c]
  /\ tx' = [tx EXCEPT ![c].pc = "selected",
                      ![c].event = NewEvent(traces[t], tx[c].body)]
  /\ UNCHANGED <<traces, trace_events, refs, blobs>>

\* TraceNotFound or TraceClosed, once the row can be read.
AppendRefused(c) ==
  /\ tx[c].pc = "waiting"
  /\ Free(tx[c].trace)
  /\ traces[tx[c].trace].status # "recording"
  /\ tx' = [tx EXCEPT ![c] = NoTx]
  /\ UNCHANGED <<traces, trace_events, refs, blobs, lock>>

\* The INSERT.  UNIQUE (trace_id, sequence): it waits for a transaction that has
\* inserted the same key, and fails (Abort) on a committed one.
AppendInsert(c) ==
  LET t == tx[c].trace  n == tx[c].event.sequence IN
  /\ tx[c].pc = "selected"
  /\ n \notin DOMAIN trace_events[t]
  /\ \A d \in Clients :
       tx[d].trace = t /\ tx[d].pc \in {"inserted", "updated"}
         => tx[d].event.sequence # n
  /\ tx' = [tx EXCEPT ![c].pc = "inserted"]
  /\ UNCHANGED <<traces, trace_events, refs, blobs, lock>>

\* The UPDATE of the row: on the version of the row that is committed by then,
\* under its lock (which FOR UPDATE has taken already).  event_count is an INTEGER
\* column: MaxEvents stands for the largest value it holds.
AppendUpdate(c) ==
  LET t == tx[c].trace IN
  /\ tx[c].pc = "inserted"
  /\ lock[t] \in {None, c}
  /\ traces[t].event_count < MaxEvents
  /\ lock' = [lock EXCEPT ![t] = c]
  /\ tx' = [tx EXCEPT ![c].pc = "updated",
                      ![c].row = Advanced(traces[t], tx[c].event)]
  /\ UNCHANGED <<traces, trace_events, refs, blobs>>

\* The with block ends: both writes become visible together.
Commit(c) ==
  LET t == tx[c].trace IN
  /\ tx[c].pc = "updated"
  /\ traces' = [traces EXCEPT ![t] = tx[c].row]
  /\ trace_events' = [trace_events EXCEPT ![t] = Extended(t, tx[c].event)]
  /\ lock' = Unlocked(c)
  /\ tx' = [tx EXCEPT ![c] = NoTx]
  /\ UNCHANGED <<refs, blobs>>

\* Mutant of Abort: the transaction is left open, and with it its lock.
AbortLeaking(c) ==
  /\ tx[c].pc # "idle"
  /\ tx' = [tx EXCEPT ![c] = NoTx]
  /\ UNCHANGED <<traces, trace_events, refs, blobs, lock>>

\* A statement raises, the connection is lost or the client dies.
Abort(c) ==
  /\ tx[c].pc # "idle"
  /\ lock' = Unlocked(c)
  /\ tx' = [tx EXCEPT ![c] = NoTx]
  /\ UNCHANGED <<traces, trace_events, refs, blobs>>

\* The UPDATE raises because event_count + 1 is out of the range of the column.
AppendOverflow(c) ==
  /\ tx[c].pc = "inserted"
  /\ traces[tx[c].trace].event_count = MaxEvents
  /\ Abort(c)

PgNext ==
  \/ \E t \in Traces :
       \/ PgCreateTrace(t)
       \/ \E status \in TerminalStatuses, signature \in Signatures \cup {None} :
            PgFinishTrace(t, status, signature)
       \/ \E name \in RefNames, reference \in ContentRefs :
            PgSetWorkspaceRefs(t, name, reference)
       \/ \E c \in Clients, body \in Bodies : RequestAppend(c, t, body)
  \/ \E reference \in ContentRefs : PgRegisterBlob(reference)
  \/ \E c \in Clients :
       \/ AppendSelect(c)
       \/ AppendRefused(c)
       \/ AppendInsert(c)
       \/ AppendUpdate(c)
       \/ Commit(c)
       \/ Abort(c)
       \/ AppendOverflow(c)

\* A transaction that can go on does; a waiter on a row is served in its turn
\* (PostgreSQL queues them), so a lock that is free again and again is obtained.
PgFairness ==
  \A c \in Clients :
    /\ SF_pgVars(AppendSelect(c))
    /\ WF_pgVars(AppendRefused(c))
    /\ WF_pgVars(AppendInsert(c))
    /\ WF_pgVars(AppendUpdate(c))
    /\ WF_pgVars(Commit(c))
    /\ WF_pgVars(AppendOverflow(c))

PgSpec == PgInit /\ [][PgNext]_pgVars /\ PgFairness
----------------------------------------------------------------------------
\* A transaction that writes holds the lock of its row, alone; the row has not
\* changed since its SELECT, so the event it carries is the next one of the
\* trace and its INSERT meets no duplicate.
LockedRowUnchanged ==
  \A c \in Clients : tx[c].pc \in Writing =>
    LET t == tx[c].trace IN
    /\ lock[t] = c
    /\ traces[t].status = "recording"
    /\ tx[c].event = NewEvent(traces[t], tx[c].body)
    /\ tx[c].pc = "updated" => /\ tx[c].row = Advanced(traces[t], tx[c].event)
                               /\ traces[t].event_count < MaxEvents

\* The transactions implement the repository whose operations are atomic: an
\* append takes effect at its commit, with nothing in between, or not at all.
ImplementsRepository == Spec

\* Every append_event that waits for its row is answered: no client waits for a
\* lock for ever.
AppendAnswered == \A c \in Clients : tx[c].pc = "waiting" ~> tx[c].pc = "idle"
============================================================================
