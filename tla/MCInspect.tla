----------------------------- MODULE MCInspect ------------------------------
(* The memory repository with readers; and chains of up to two events over *)
(* two bodies, with every list of up to three events taken from them, as   *)
(* they were recorded or with the body or the sequence changed.            *)
EXTENDS Verification

\* Calls whose cost is a float and an integer, and one with a number in its metadata
\* that a JSONB column gives back in another form.
MCBodies == {[name |-> "model", cost_usd |-> "float", metadata |-> "plain"],
             [name |-> "counted", cost_usd |-> "int", metadata |-> "plain"],
             [name |-> "measured", cost_usd |-> "float", metadata |-> "wide"]}
MCMemory == [m \in {"plain", "wide"} |-> m]
MCColumn == [m \in {"plain", "wide", "normalised"} |-> IF m = "wide" THEN "normalised" ELSE m]
MCContentRefs == {[digest |-> "d", size |-> 1], [digest |-> "d", size |-> 2]}
MCSignatures == {"sig"}

AuditBodies == {[name |-> "a", cost_usd |-> "none", metadata |-> "plain"],
                [name |-> "b", cost_usd |-> "float", metadata |-> "plain"]}
NewRow == [event_count |-> 0, chain_head |-> Genesis]
RowAfter(n, event) == [event_count |-> n, chain_head |-> event.event_hash]
First(b) == NewEvent(NewRow, b)
Second(a, b) == NewEvent(RowAfter(1, First(a)), b)

Empty == [row |-> NewRow, events |-> << >>]
One(a) == [row |-> RowAfter(1, First(a)), events |-> [i \in 0 .. 0 |-> First(a)]]
Two(a, b) ==
  [row |-> RowAfter(2, Second(a, b)),
   events |-> [i \in 0 .. 1 |-> IF i = 0 THEN First(a) ELSE Second(a, b)]]
MCChains == {Empty} \cup {One(a) : a \in AuditBodies}
                    \cup {Two(a, b) : a, b \in AuditBodies}

Recorded == {First(a) : a \in AuditBodies} \cup {Second(a, b) : a, b \in AuditBodies}
Pool == Recorded
        \cup {[e EXCEPT !.body = b] : e \in Recorded, b \in AuditBodies}
        \cup {[e EXCEPT !.sequence = 1 - @] : e \in Recorded}
MCLists == UNION {[0 .. n - 1 -> Pool] : n \in 0 .. 3}
============================================================================
