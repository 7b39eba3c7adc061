------------------------------- MODULE MCCAS --------------------------------
(* Two writers, two blobs, two crashes.                                    *)
EXTENDS CAS
============================================================================
