----------------------------- MODULE CASProofs ------------------------------
(***************************************************************************)
(* No torn blob, no temporary file left by an error, and put_bytes         *)
(* implements the store, for any blobs and writers and any number of       *)
(* deaths and power failures.                                              *)
(***************************************************************************)
EXTENDS CAS, TLAPS

Busy == {"mkstemp", "write", "fsync", "replace", "return"}

\* Inductive: only a synced temporary file is renamed, so what a directory entry
\* names, on disk or in memory, is whole; and a writer about to return has seen
\* the target there (it cannot go away while the writer lives).
Durable ==
  /\ target \in [Blobs -> {"absent", "whole"}]
  /\ disk \in [Blobs -> {"absent", "whole"}]
  /\ \A b \in Blobs : disk[b] = "whole" => target[b] = "whole"
  /\ temp \in [Writers -> Contents]
  /\ pc \in [Writers -> {"idle"} \cup Busy]
  /\ blob \in [Writers -> Blobs \cup {None}]
  /\ returned \subseteq Blobs
  /\ \A w \in Writers :
       /\ pc[w] # "idle" => blob[w] \in Blobs
       /\ pc[w] = "replace" => temp[w] = "whole"
       /\ pc[w] = "return" => target[blob[w]] = "whole"

\* Nothing is stored and nobody writes.
LEMMA DurableInit == Init => Durable
  BY DEF Init, Durable, Contents

\* Every step of put_bytes, of its failures and of the machine keeps it.
LEMMA DurableStep == Durable /\ [Next]_casVars => Durable'
  <1> SUFFICES ASSUME Durable, [Next]_casVars PROVE Durable'
    OBVIOUS
  <1> USE DEF Durable, Goto, Busy, Contents
  <1>1. ASSUME NEW w \in Writers, NEW b \in Blobs, CheckTarget(w, b) PROVE Durable'
    BY <1>1 DEF CheckTarget
  <1>2. ASSUME NEW w \in Writers, MakeTemp(w) PROVE Durable'
    BY <1>2 DEF MakeTemp
  <1>3. ASSUME NEW w \in Writers, WriteTemp(w) PROVE Durable'
    BY <1>3 DEF WriteTemp
  <1>4. ASSUME NEW w \in Writers, SyncTemp(w) PROVE Durable'
    BY <1>4 DEF SyncTemp
  <1>5. ASSUME NEW w \in Writers, Replace(w) PROVE Durable'
    <2>1. target' = [target EXCEPT ![blob[w]] = "whole"] /\ blob[w] \in Blobs
      BY <1>5 DEF Replace
    <2> QED
      BY <1>5, <2>1 DEF Replace
  <1>6. ASSUME NEW w \in Writers, Return(w) PROVE Durable'
    BY <1>6 DEF Return
  <1>7. ASSUME NEW w \in Writers, RaiseError(w) \/ UnlinkFails(w) \/ Die(w) PROVE Durable'
    BY <1>7 DEF RaiseError, UnlinkFails, Die, Abandon
  <1>8. ASSUME NEW b \in Blobs, WriteBack(b) PROVE Durable'
    BY <1>8 DEF WriteBack
  <1>9. CASE PowerFailure
    BY <1>9 DEF PowerFailure
  <1>10. CASE UNCHANGED casVars
    BY <1>10 DEF casVars
  <1> QED
    BY <1>1, <1>2, <1>3, <1>4, <1>5, <1>6, <1>7, <1>8, <1>9, <1>10 DEF Next

\* get_bytes never meets a torn blob (put_bytes: fsync before os.replace).
THEOREM NeverTorn == Spec => []NoTornBlob
  <1>1. Durable => NoTornBlob
    BY DEF Durable, NoTornBlob
  <1> QED
    BY <1>1, DurableInit, DurableStep, PTL DEF Spec

\* Replace adds the blob to the store, Return hands it out, PowerFailure loses
\* some; the other steps are invisible to the store.
LEMMA StoreStep ==
  ASSUME Durable, Durable', [Next]_casVars
  PROVE  [Store!Next]_(Store!storeVars)
  <1> DEFINE stored == {b \in Blobs : Readable(b)}
  <1>1. ASSUME NEW w \in Writers, Replace(w) PROVE Store!Store(blob[w]) /\ blob[w] \in Blobs
    <2>1. target' = [target EXCEPT ![blob[w]] = "whole"] /\ blob[w] \in Blobs
      BY <1>1 DEF Replace, Durable
    <2>2. stored' = stored \cup {blob[w]}
      BY <2>1 DEF Readable, Durable
    <2> QED
      BY <1>1, <2>1, <2>2 DEF Store!Store, Replace
  <1>2. ASSUME NEW w \in Writers, Return(w) PROVE Store!HandOut(blob[w]) /\ blob[w] \in Blobs
    BY <1>2 DEF Return, Store!HandOut, Readable, Durable
  <1>3. CASE PowerFailure
    <2>1. \A b \in Blobs : target'[b] = disk[b]
      BY <1>3 DEF PowerFailure, Durable
    <2>2. stored' \in SUBSET stored
      BY <2>1 DEF Readable, Durable
    <2> QED
      BY <1>3, <2>2 DEF Store!PowerFails, PowerFailure, Store!Next
  <1>4. ASSUME UNCHANGED <<target, returned>> PROVE UNCHANGED Store!storeVars
    BY <1>4 DEF Store!storeVars, Readable
  <1> QED
    BY <1>1, <1>2, <1>3, <1>4
       DEF Next, Store!Next, casVars, CheckTarget, MakeTemp, WriteTemp, SyncTemp, RaiseError,
           UnlinkFails, Die, Abandon, WriteBack

\* A reference is returned only while the blob can be read back whole.
THEOREM StoreImplemented == Spec => ImplementsBlobStore
  <1>1. Init => Store!Init
    BY DEF Init, Store!Init, Readable
  <1>2. Durable /\ Durable' /\ [Next]_casVars => [Store!Next]_(Store!storeVars)
    BY StoreStep
  <1> QED
    BY <1>1, <1>2, DurableInit, DurableStep, PTL DEF Spec, Store!Spec, ImplementsBlobStore
----------------------------------------------------------------------------
OrphansCounted == orphans \in Nat /\ crashes \in Nat /\ orphans <= crashes

\* Only a death or a failing unlink leaves a temporary file, and it leaves one at most.
LEMMA OrphansStep == OrphansCounted /\ [Next]_casVars => OrphansCounted'
  <1> SUFFICES ASSUME OrphansCounted, [Next]_casVars PROVE OrphansCounted'
    OBVIOUS
  <1>1. ASSUME NEW w \in Writers, UnlinkFails(w) \/ Die(w) PROVE OrphansCounted'
    BY <1>1 DEF UnlinkFails, Die, Abandon, Left, OrphansCounted
  <1>2. CASE PowerFailure
    BY <1>2 DEF PowerFailure, OrphansCounted
  <1>3. CASE UNCHANGED <<orphans, crashes>>
    BY <1>3 DEF OrphansCounted
  <1> QED
    BY <1>1, <1>2, <1>3 DEF Next, casVars, CheckTarget, MakeTemp, WriteTemp, SyncTemp, Replace, Return,
       RaiseError, WriteBack

\* Whatever fails in put_bytes, its finally clause removes the temporary file: those that
\* stay are no more than the writers that died and the unlinks that failed (cas.py:44-46).
THEOREM ErrorsCleanUp == Spec => []OrphansFromDeaths
  <1>1. Init => OrphansCounted
    BY DEF Init, OrphansCounted
  <1>2. OrphansCounted => OrphansFromDeaths
    BY DEF OrphansCounted, OrphansFromDeaths
  <1> QED
    BY <1>1, <1>2, OrphansStep, PTL DEF Spec
============================================================================
