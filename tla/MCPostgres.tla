----------------------------- MODULE MCPostgres -----------------------------
(* Two clients of the PostgreSQL repository on one trace.                  *)
EXTENDS PostgresRepository

MCBodies == {[name |-> "measured", cost_usd |-> "float", metadata |-> "wide"],
             [name |-> "counted", cost_usd |-> "int", metadata |-> "plain"]}
MCColumn == [m \in {"plain", "wide", "normalised"} |-> IF m = "wide" THEN "normalised" ELSE m]
MCContentRefs == {[digest |-> "d", size |-> 1]}
============================================================================
