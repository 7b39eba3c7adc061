------------------------------ MODULE Readers -------------------------------
(***************************************************************************)
(* The readers of a recorded run: it is replayed or exported.  A replay    *)
(* reads a log that stays as it is; an export reads beside the recording.  *)
(***************************************************************************)
EXTENDS Replay, Bundle

ReadersNext ==
  \/ stage = "idle" /\ ReplayNext /\ UNCHANGED bundleVars
  \/ pc = "idle" /\ BundleNext /\ UNCHANGED replayVars

ReadersInit == RunInit /\ ReplayInit /\ BundleInit
ReadersSpec == ReadersInit /\ [][ReadersNext]_<<runVars, replayVars, bundleVars>>
=============================================================================
