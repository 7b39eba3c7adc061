------------------------------ MODULE TraceLog ------------------------------
(***************************************************************************)
(* What a trace repository promises its callers (the abstract class        *)
(* TraceRepository): a trace is created once, its log only grows at its    *)
(* end while the trace records, it is finished at most once, and from then *)
(* on neither its log nor its outcome changes.                             *)
(***************************************************************************)
EXTENDS Sequences

CONSTANTS Traces,    \* identifiers of traces
          Bodies,    \* what an event may say
          Outcomes   \* how a trace may end

VARIABLES log,       \* log[t]: the bodies of the events of t, oldest first
          state,     \* state[t]: "absent", "recording" or "finished"
          outcome    \* outcome[t]: how t ended, << >> before

logVars == <<log, state, outcome>>

Init ==
  /\ log = [t \in Traces |-> << >>]
  /\ state = [t \in Traces |-> "absent"]
  /\ outcome = [t \in Traces |-> << >>]

Create(t) ==
  /\ state[t] = "absent"
  /\ state' = [state EXCEPT ![t] = "recording"]
  /\ UNCHANGED <<log, outcome>>

Extend(t, b) ==
  /\ state[t] = "recording"
  /\ log' = [log EXCEPT ![t] = Append(@, b)]
  /\ UNCHANGED <<state, outcome>>

Close(t, o) ==
  /\ state[t] = "recording"
  /\ state' = [state EXCEPT ![t] = "finished"]
  /\ outcome' = [outcome EXCEPT ![t] = o]
  /\ UNCHANGED log

Next ==
  \E t \in Traces :
    \/ Create(t)
    \/ \E b \in Bodies : Extend(t, b)
    \/ \E o \in Outcomes : Close(t, o)

Spec == Init /\ [][Next]_logVars
============================================================================
