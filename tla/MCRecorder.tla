----------------------------- MODULE MCRecorder -----------------------------
(* Two threads that record one trace, with one blob of each sort.          *)
EXTENDS Recorder, TLC

MCNested == [b \in Manifests \cup Deltas |-> Files]
MCContentRefs == {Ref(b) : b \in Blobs}

MCBodies == RecorderBodies
MCColumn == [m \in {"plain"} |-> m]

Symmetry == Permutations(Threads)
============================================================================
