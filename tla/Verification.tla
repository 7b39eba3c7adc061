---------------------------- MODULE Verification ----------------------------
(***************************************************************************)
(* verify_event_chain on what readers beside the writers of a repository   *)
(* hand it, and on lists that were edited.  It keeps no state, so a call   *)
(* on an edited list is looked at alone.                                   *)
(***************************************************************************)
EXTENDS Inspect, ChainAudit

VerificationInit == InspectInit /\ AuditInit

VerificationNext ==
  \/ verdict = "idle" /\ InspectNext /\ UNCHANGED auditVars
  \/ InspectInit /\ AuditNext /\ UNCHANGED inspectVars

VerificationSpec ==
  VerificationInit /\ [][VerificationNext]_<<inspectVars, auditVars>>
=============================================================================
