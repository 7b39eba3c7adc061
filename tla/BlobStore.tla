----------------------------- MODULE BlobStore ------------------------------
(***************************************************************************)
(* What a content-addressed store promises: a reference is handed out only *)
(* for a blob that can be read back whole at that moment, and a blob stays *)
(* until the power fails.                                                  *)
(***************************************************************************)
CONSTANTS Blobs

VARIABLES stored,   \* blobs that can be read back
          returned  \* blobs somebody holds a reference to

storeVars == <<stored, returned>>

Init == stored = {} /\ returned = {}

Store(b) == stored' = stored \cup {b} /\ UNCHANGED returned

HandOut(b) == b \in stored /\ returned' = returned \cup {b} /\ UNCHANGED stored

PowerFails == stored' \in SUBSET stored /\ UNCHANGED returned

Next == (\E b \in Blobs : Store(b) \/ HandOut(b)) \/ PowerFails

Spec == Init /\ [][Next]_storeVars
============================================================================
