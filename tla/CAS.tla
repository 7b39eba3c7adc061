-------------------------------- MODULE CAS ---------------------------------
(***************************************************************************)
(* LocalCAS: blobs as files named by their SHA-256, written by put_bytes   *)
(* through a temporary file in the same directory.  Writers are threads or *)
(* processes that share the directory.                                     *)
(*                                                                         *)
(* A file system keeps two views.  What running programs see (target,      *)
(* temp) changes with every call; what a power failure leaves (disk) is    *)
(* the contents that were fsynced and the directory entries the kernel has *)
(* got round to writing: the code never fsyncs a directory.                *)
(***************************************************************************)
EXTENDS Integers

CONSTANTS Blobs,       \* contents, each with its own digest
          Writers,
          None,
          MaxCrashes   \* bound: deaths of a writer, unlinks and power that fail

ASSUME CASAssumption == MaxCrashes \in Nat /\ None \notin Blobs

VARIABLES target,    \* target[b]: the file the digest of b names
          disk,      \* disk[b]: the same as a power failure would leave it
          temp,      \* temp[w]: the temporary file of a writer
          pc, blob,  \* where the put_bytes of a writer is, and of what
          orphans,   \* temporary files nobody will remove
          crashes,   \* deaths, failing unlinks and power failures so far
          returned   \* blobs put_bytes has returned a reference to

casVars == <<target, disk, temp, pc, blob, orphans, crashes, returned>>

\* A file is absent or empty, holds part of the bytes, all of them in memory
\* only, or all of them on disk.
Contents == {"absent", "partial", "cached", "whole"}

Init ==
  /\ target = [b \in Blobs |-> "absent"]
  /\ disk = [b \in Blobs |-> "absent"]
  /\ temp = [w \in Writers |-> "absent"]
  /\ pc = [w \in Writers |-> "idle"]
  /\ blob = [w \in Writers |-> None]
  /\ orphans = 0 /\ crashes = 0
  /\ returned = {}

Goto(w, label) == pc' = [pc EXCEPT ![w] = label]

\* put_bytes is called with data within max_blob_bytes (BlobTooLarge changes
\* nothing), and looks whether the target exists.
CheckTarget(w, b) ==
  /\ pc[w] = "idle"
  /\ blob' = [blob EXCEPT ![w] = b]
  /\ Goto(w, IF target[b] # "absent" THEN "return" ELSE "mkstemp")
  /\ UNCHANGED <<target, disk, temp, orphans, crashes, returned>>

\* Mutant of MakeTemp: the target itself is opened for writing.
OpenTarget(w) ==
  /\ pc[w] = "mkstemp"
  /\ temp' = [temp EXCEPT ![w] = "partial"]
  /\ target' = [target EXCEPT ![blob[w]] = "partial"]
  /\ Goto(w, "write")
  /\ UNCHANGED <<disk, blob, orphans, crashes, returned>>

\* mkdir, mkstemp.
MakeTemp(w) ==
  /\ pc[w] = "mkstemp"
  /\ temp' = [temp EXCEPT ![w] = "partial"]
  /\ Goto(w, "write")
  /\ UNCHANGED <<target, disk, blob, orphans, crashes, returned>>

\* write and flush: the kernel has the bytes.
WriteTemp(w) ==
  /\ pc[w] = "write"
  /\ temp' = [temp EXCEPT ![w] = "cached"]
  /\ Goto(w, "fsync")
  /\ UNCHANGED <<target, disk, blob, orphans, crashes, returned>>

\* Mutant of SyncTemp: fsync is left out.
SkipSync(w) ==
  /\ pc[w] = "fsync"
  /\ Goto(w, "replace")
  /\ UNCHANGED <<target, disk, temp, blob, orphans, crashes, returned>>

SyncTemp(w) ==
  /\ pc[w] = "fsync"
  /\ temp' = [temp EXCEPT ![w] = "whole"]
  /\ Goto(w, "replace")
  /\ UNCHANGED <<target, disk, blob, orphans, crashes, returned>>

\* os.replace: the target is the temporary file from now on, whatever it was.
Replace(w) ==
  /\ pc[w] = "replace"
  /\ target' = [target EXCEPT ![blob[w]] = temp[w]]
  /\ temp' = [temp EXCEPT ![w] = "absent"]
  /\ Goto(w, "return")
  /\ UNCHANGED <<disk, blob, orphans, crashes, returned>>

Return(w) ==
  /\ pc[w] = "return"
  /\ returned' = returned \cup {blob[w]}
  /\ blob' = [blob EXCEPT ![w] = None]
  /\ Goto(w, "idle")
  /\ UNCHANGED <<target, disk, temp, orphans, crashes>>

\* Mutant of RaiseError: no finally clause.
RaiseAndLeave(w) ==
  /\ pc[w] \in {"mkstemp", "write", "fsync", "replace"}
  /\ orphans' = IF temp[w] = "absent" THEN orphans ELSE orphans + 1
  /\ temp' = [temp EXCEPT ![w] = "absent"]
  /\ blob' = [blob EXCEPT ![w] = None]
  /\ Goto(w, "idle")
  /\ UNCHANGED <<target, disk, crashes, returned>>

\* A call fails (no space, no permission): finally unlinks the temporary file and
\* the exception leaves put_bytes.
RaiseError(w) ==
  /\ pc[w] \in {"mkstemp", "write", "fsync", "replace"}
  /\ temp' = [temp EXCEPT ![w] = "absent"]
  /\ blob' = [blob EXCEPT ![w] = None]
  /\ Goto(w, "idle")
  /\ UNCHANGED <<target, disk, orphans, crashes, returned>>

Left(w) == IF temp[w] = "absent" THEN 0 ELSE 1

\* The call is over and its temporary file stays.
Abandon(w) ==
  /\ crashes < MaxCrashes
  /\ orphans' = orphans + Left(w)
  /\ crashes' = crashes + 1
  /\ temp' = [temp EXCEPT ![w] = "absent"]
  /\ blob' = [blob EXCEPT ![w] = None]
  /\ Goto(w, "idle")
  /\ UNCHANGED <<target, disk, returned>>

\* The process dies.
Die(w) == pc[w] # "idle" /\ Abandon(w)

\* A call fails, and so does the unlink in finally, whose error leaves put_bytes instead.
UnlinkFails(w) == pc[w] \in {"write", "fsync", "replace"} /\ Abandon(w)

\* The kernel writes the directory entry of b.
WriteBack(b) ==
  /\ disk[b] # target[b]
  /\ disk' = [disk EXCEPT ![b] = target[b]]
  /\ UNCHANGED <<target, temp, pc, blob, orphans, crashes, returned>>

\* The machine stops and starts again: a file whose bytes were in memory only is
\* torn (temporary files, of which any number may be left, are not counted: they
\* are never read).
PowerFailure ==
  /\ crashes < MaxCrashes
  /\ crashes' = crashes + 1
  /\ target' = [b \in Blobs |-> IF disk[b] = "cached" THEN "partial" ELSE disk[b]]
  /\ disk' = target'
  /\ temp' = [w \in Writers |-> "absent"]
  /\ pc' = [w \in Writers |-> "idle"]
  /\ blob' = [w \in Writers |-> None]
  /\ UNCHANGED <<orphans, returned>>

Next ==
  \/ \E w \in Writers :
       \/ \E b \in Blobs : CheckTarget(w, b)
       \/ MakeTemp(w)
       \/ WriteTemp(w)
       \/ SyncTemp(w)
       \/ Replace(w)
       \/ Return(w)
       \/ RaiseError(w)
       \/ UnlinkFails(w)
       \/ Die(w)
  \/ \E b \in Blobs : WriteBack(b)
  \/ PowerFailure

Spec == Init /\ [][Next]_casVars
----------------------------------------------------------------------------
\* What get_bytes can do with the file: read it and find the digest it asked for.
Readable(b) == target[b] \in {"cached", "whole"}

\* The file a digest names is missing or complete, after any deaths and power
\* failures (cas.py "Atomic filesystem content-addressed store"): get_bytes never
\* meets a torn blob, and put_bytes, which trusts a target that exists, is right to.
NoTornBlob == \A b \in Blobs : target[b] # "partial"

\* A temporary file is left behind only by a death or by an unlink that itself fails:
\* any other error cleans up after itself (the finally clause of put_bytes).
OrphansFromDeaths == orphans <= crashes

\* docs/architecture.md "A crash ... cannot leave a committed event referencing
\* bytes that were not durably written": a reference that was handed out can be
\* read back whatever happens after.
ReturnedSurvives == \A b \in returned : Readable(b)

Store == INSTANCE BlobStore WITH stored <- {b \in Blobs : Readable(b)}

\* put_bytes implements the store: it returns a reference only while the blob can
\* be read back whole, also when it wrote nothing because the target existed, when
\* others write the same blob at the same time, and after restarts.
ImplementsBlobStore == Store!Spec
============================================================================
