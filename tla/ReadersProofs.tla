---------------------------- MODULE ReadersProofs ----------------------------
(***************************************************************************)
(* What a replay and an export of a run come to, for any paths, entries,   *)
(* programs and damage: when a recorded replay raises, what no verdict is  *)
(* reached on, when a fresh replay matches, what a bundle holds and when   *)
(* it cannot be written.                                                   *)
(***************************************************************************)
EXTENDS ReplayProofs
----------------------------------------------------------------------------
\* When a recorded replay raises.  The directories of the expected tree are those that
\* files were ever captured in, since apply_delta removes none.

\* An entry at path p was captured by event k.
Has(k, p) == Captures(log[k]) /\ CapturedBy(log[k])[p] # Absent

\* Nothing is captured before the checkpoint.
CheckpointFirst ==
  \A n \in 1 .. Len(log) : log[n].kind = "checkpoint" =>
    \A k \in 1 .. n - 1 : ~Captures(log[k])

DirectoriesStay ==
  \A q \in Paths :
    expected[q] = Directory <=>
      \E k \in 1 .. position - 1 : \E p \in Paths : Has(k, p) /\ q \in Ancestors[p]

\* Neither cause of an exception is among the events gone through.
SafeSoFar ==
  \A k \in 1 .. position - 1 : \A p \in Paths : Has(k, p) =>
    /\ ~Unsafe(CapturedBy(log[k])[p])
    /\ \A j \in 1 .. k - 1 : \A r \in Paths : Has(j, r) => p \notin Ancestors[r]

Passed ==
  /\ pc \in {"running", "concluded"} => Verifies(counted)
  /\ pc = "running" /\ Chained => DirectoriesStay
  /\ pc \in {"running", "concluded"} /\ Chained => SafeSoFar

RaisedFor ==
  pc = "raised" /\ mode = "recorded" /\ Chained /\ sound /\ damaged = {} =>
    ~Verifies(counted) \/ LinkLedOut \/ DirectoryBecameFile

FInv == IInv /\ CheckpointFirst /\ Passed /\ RaisedFor
----------------------------------------------------------------------------
\* Only start logs a checkpoint, and it logs it second.
LEMMA CheckpointFirstStep ==
  ASSUME TypeOK, LogOK, CheckpointFirst, RunStep
  PROVE  CheckpointFirst'
<1>1. PICK S : log \in Seq(S)
  BY DEF LogOK
<1>2. ASSUME NEW event, event.kind # "checkpoint", Log(event) PROVE CheckpointFirst'
  <2>1. /\ Len(log) \in Nat /\ Len(log') = Len(log) + 1
        /\ \A n \in 1 .. Len(log) : log'[n] = log[n]
        /\ log'[Len(log) + 1] = event
    BY <1>1, <1>2 DEF Log
  <2> QED
    BY <1>2, <2>1 DEF CheckpointFirst, Captures
<1>3. ASSUME NEW w \in BOOLEAN, StartRun(w) PROVE CheckpointFirst'
  <2> DEFINE first == [kind |-> "environment"]
             second == [kind |-> "checkpoint", manifest |-> Capture(tree)]
  <2>1. log' = (IF w THEN <<first, second>> ELSE <<first>>)
    BY <1>3 DEF StartRun
  <2>2. ~Captures(first)
    BY DEF Captures
  <2>3. Len(log') \in 1 .. 2 /\ log'[1] = first
    BY <2>1
  <2> HIDE DEF first
  <2> QED
    BY <2>2, <2>3 DEF CheckpointFirst, Captures
<1>4. ASSUME NEW change \in Changes, Disturb(change) PROVE CheckpointFirst'
  BY <1>4 DEF Disturb, CheckpointFirst, Captures
<1>5. ASSUME NEW w \in BOOLEAN, FinishRun(w) PROVE CheckpointFirst'
  BY <1>2, <1>5 DEF FinishRun
<1>6. ASSUME NEW kind \in {"model_call", "tool_call"}, NEW request, NEW whole, NEW change, NEW outcome,
             CallRecorded(kind, request, whole, change, outcome)
      PROVE  CheckpointFirst'
  BY <1>2, <1>6 DEF CallRecorded
<1>7. ASSUME NEW previous \in manifests, DeltaCaptured(previous) PROVE CheckpointFirst'
  BY <1>2, <1>7 DEF DeltaCaptured
<1> QED
  BY <1>3, <1>4, <1>5, <1>6, <1>7 DEF RunStep

\* What was captured last, an event before has captured.
LEMMA CapturedBefore ==
  ASSUME NEW n \in Nat, NEW p \in Paths, Captured(n)[p] # Absent
  PROVE  \E k \in 1 .. n - 1 : Has(k, p) /\ CapturedBy(log[k]) = Captured(n)
<1>1. EmptyTree[p] = Absent
  BY DEF EmptyTree
<1> DEFINE past == {k \in 1 .. n - 1 : Captures(log[k])}
<1>2. past # {} /\ Captured(n) = CapturedBy(log[Latest(past)])
  BY <1>1 DEF Captured
<1>3. past \in SUBSET (1 .. n)
  OBVIOUS
<1>4. Latest(past) \in past
  BY <1>2, <1>3, LatestExists
<1> QED
  BY <1>2, <1>4 DEF Has

\* What a delta can do to a tree captured as its first manifest fails for two reasons
\* only (apply_delta).
LEMMA ApplyFails ==
  ASSUME NEW a \in Manifests, NEW b \in Manifests, NEW t \in Trees, Capture(t) = a,
         ~CanApply(Diff(a, b), t)
  PROVE  \E p \in Paths : b[p] # Absent /\ (t[p] = Directory \/ Unsafe(b[p]))
<1> DEFINE delta == Diff(a, b)
           unlinked == Unlinked(delta, t)
<1> SUFFICES ASSUME \A p \in Paths : b[p] # Absent => t[p] # Directory /\ ~Unsafe(b[p])
             PROVE  CanApply(delta, t)
  OBVIOUS
<1>1. ~IsEntry(Absent) /\ ~IsEntry(Directory) /\ ~Unsafe(Directory) /\ Absent # Directory
  BY DEF IsEntry, Absent, Directory, Unsafe
<1>2. /\ \A p \in Paths : Ancestors[p] \subseteq Paths
      /\ \A p \in Paths : a[p] = IF IsEntry(t[p]) THEN t[p] ELSE Absent
      /\ \A p \in Paths : t[p] # Absent => \A q \in Ancestors[p] : t[q] = Directory
      /\ \A p \in Paths : b[p] # Absent => \A q \in Ancestors[p] : b[q] = Absent
  BY PathsAssumption, CapturedApart DEF Capture, Trees
<1>3. ASSUME NEW p \in delta.deleted, NEW q \in Ancestors[p] PROVE ~Unsafe(t[q])
  <2>1. p \in Paths /\ a[p] # Absent
    BY DEF Diff
  <2> QED
    BY <1>1, <1>2, <2>1
<1>4. ASSUME NEW p \in Paths, delta.written[p] # Absent
      PROVE  /\ unlinked[p] # Directory
             /\ \A q \in Ancestors[p] : ~IsEntry(unlinked[q])
             /\ ~Unsafe(delta.written[p])
  <2>1. delta.written[p] = b[p] /\ b[p] # Absent
    BY <1>4 DEF Diff
  <2>2. unlinked[p] \in {Absent, t[p]}
    BY DEF Unlinked
  <2>3. ASSUME NEW q \in Ancestors[p] PROVE ~IsEntry(unlinked[q])
    <3>1. q \in Paths /\ b[q] = Absent
      BY <1>2, <2>1
    <3>2. CASE IsEntry(t[q])
      <4>1. q \in delta.deleted
        BY <1>1, <1>2, <3>1, <3>2 DEF Diff
      <4> QED
        BY <1>1, <3>1, <3>2, <4>1 DEF Unlinked
    <3>3. CASE ~IsEntry(t[q])
      BY <3>1, <3>3 DEF Unlinked
    <3> QED
      BY <3>2, <3>3
  <2> QED
    BY <1>1, <2>1, <2>2, <2>3
<1> QED
  BY <1>3, <1>4 DEF CanApply
----------------------------------------------------------------------------
\* The directories of a tree into which a manifest's entries were written.
LEMMA WrittenDirectories ==
  ASSUME NEW w \in [Paths -> Entries \cup {Absent}], NEW t \in Trees, NEW q \in Paths
  PROVE  Written(w, t)[q] = Directory <=>
           /\ w[q] = Absent
           /\ t[q] = Directory \/ \E r \in Paths : w[r] # Absent /\ q \in Ancestors[r]
<1>1. w[q] # Directory
  <2>1. Absent # Directory /\ Directory.kind \notin {"file", "symlink"}
    BY DEF Absent, Directory
  <2> QED
    BY <2>1, EntriesAssumption
<1> QED
  BY <1>1 DEF Written

\* An event that captures nothing changes nothing of this.
LEMMA PassOther ==
  ASSUME position \in Nat \ {0}, ~Captures(log[position]), position' = position + 1,
         log' = log, expected' = expected, DirectoriesStay, SafeSoFar
  PROVE  DirectoriesStay' /\ SafeSoFar'
<1>1. \A p \in Paths : ~Has(position, p)
  BY DEF Has
<1>2. 1 .. position' - 1 = (1 .. position - 1) \cup {position}
  OBVIOUS
<1>3. DirectoriesStay'
  BY <1>1, <1>2 DEF DirectoriesStay, Has, Captures, CapturedBy
<1>4. SafeSoFar'
  BY <1>1, <1>2 DEF SafeSoFar, Has, Captures, CapturedBy, Unsafe
<1> QED
  BY <1>3, <1>4

\* The checkpoint is restored.
LEMMA PassCheckpoint ==
  ASSUME TypeOK, LogOK, CheckpointFirst, CheckpointStep, log' = log
  PROVE  DirectoriesStay' /\ SafeSoFar'
<1> DEFINE m == Event.manifest
<1>1. /\ position \in 1 .. Len(log) /\ position' = position + 1
      /\ Event.kind = "checkpoint" /\ m \in Manifests
  BY EventFacts DEF CheckpointStep, At, Advance
<1>2. /\ \A p \in Paths : ~Unsafe(m[p])
      /\ expected' = Written(m, EmptyTree)
  BY DEF CheckpointStep, CheckpointRestorable, CanRestore, Restore
<1>3. \A k \in 1 .. position' - 1 : \A p \in Paths :
        Has(k, p) <=> k = position /\ m[p] # Absent
  <2>1. \A k \in 1 .. position - 1 : ~Captures(log[k])
    BY <1>1 DEF CheckpointFirst, Event
  <2> QED
    BY <1>1, <2>1 DEF Has, Captures, CapturedBy, Event
<1>4. CapturedBy(log[position]) = m
  BY <1>1 DEF CapturedBy, Event
<1>5. SafeSoFar'
  <2> SUFFICES ASSUME NEW k \in 1 .. position' - 1, NEW p \in Paths, Has(k, p)
               PROVE  /\ ~Unsafe(CapturedBy(log[k])[p])
                      /\ \A j \in 1 .. k - 1 : \A r \in Paths : Has(j, r) => p \notin Ancestors[r]
    BY DEF SafeSoFar, Has, Captures, CapturedBy, Unsafe
  <2>1. k = position
    BY <1>3
  <2>2. \A j \in 1 .. k - 1 : j \in 1 .. position' - 1 /\ j # position
    BY <1>1, <2>1
  <2> QED
    BY <1>2, <1>3, <1>4, <2>1, <2>2
<1>6. DirectoriesStay'
  <2>1. EmptyTree \in Trees /\ m \in [Paths -> Entries \cup {Absent}]
    BY <1>1, RestoreCaptures, CapturedApart
  <2>2. \A q \in Paths : EmptyTree[q] # Directory
    BY DEF EmptyTree, Absent, Directory
  <2>3. \A q \in Paths : expected'[q] = Directory <=>
          \E r \in Paths : m[r] # Absent /\ q \in Ancestors[r]
    BY <1>1, <1>2, <2>1, <2>2, WrittenDirectories, CapturedApart
  <2>4. position \in 1 .. position' - 1
    BY <1>1
  <2>5. \A q \in Paths : expected'[q] = Directory <=>
          \E k \in 1 .. position' - 1 : \E p \in Paths : Has(k, p) /\ q \in Ancestors[p]
    BY <1>3, <2>3, <2>4
  <2> QED
    BY <2>5 DEF DirectoriesStay, Has, Captures, CapturedBy
<1> QED
  BY <1>5, <1>6

\* A delta is applied: what it does not write was there, and was safe, before.
LEMMA PassDelta ==
  ASSUME TypeOK, LogOK, ExpectedTracks, Chained, DirectoriesStay, SafeSoFar,
         DeltaStep, log' = log
  PROVE  DirectoriesStay' /\ SafeSoFar'
<1> DEFINE a == Event.previous
           b == Event.current
           w == Event.delta.written
           unlinked == Unlinked(Event.delta, expected)
<1>1. /\ position \in 1 .. Len(log) /\ Len(log) \in Nat /\ position' = position + 1
      /\ pc = "running" /\ Event.kind = "workspace_delta"
      /\ a \in Manifests /\ b \in Manifests /\ Event.delta = Diff(a, b)
  BY EventFacts DEF DeltaStep, At, Advance
<1>2. a = Captured(position) /\ a = Capture(expected) /\ expected \in Trees
  BY <1>1 DEF Chained, ExpectedTracks, Event, TypeOK
<1>3. CanApply(Event.delta, expected) /\ expected' = Written(w, unlinked)
  BY DEF DeltaStep, DeltaApplicable, Apply
<1>4. ~IsEntry(Directory) /\ ~IsEntry(Absent) /\ Absent # Directory
  BY DEF IsEntry, Directory, Absent
<1>5. /\ b \in [Paths -> Entries \cup {Absent}]
      /\ \A p \in Paths : b[p] # Absent =>
           IsEntry(b[p]) /\ \A q \in Ancestors[p] : q \in Paths /\ b[q] = Absent
  BY <1>1, CapturedApart
<1>6. \A p \in Paths : w[p] # Absent => w[p] = b[p]
  BY <1>1 DEF Diff
<1>7. \A q \in Paths : unlinked[q] = Directory <=> expected[q] = Directory
  BY <1>4 DEF Unlinked
<1>8. ASSUME NEW p \in Paths, b[p] # Absent
      PROVE  expected[p] # Directory /\ ~Unsafe(b[p])
  <2>1. CASE w[p] # Absent
    BY <1>3, <1>6, <1>7, <2>1 DEF CanApply
  <2>2. CASE w[p] = Absent
    <3>1. ~Modified(a[p], b[p])
      BY <1>1, <1>8, <2>2 DEF Diff
    <3>2. a[p] = IF IsEntry(expected[p]) THEN expected[p] ELSE Absent
      BY <1>2 DEF Capture
    <3>3. a[p] # Absent /\ IsEntry(expected[p])
      BY <1>4, <1>5, <1>8, <3>1, <3>2 DEF Modified, IsEntry
    <3>4. PICK k \in 1 .. position - 1 : Has(k, p) /\ CapturedBy(log[k]) = a
      <4>1. position \in Nat /\ Captured(position)[p] # Absent
        BY <1>1, <1>2, <3>3
      <4>2. \E k \in 1 .. position - 1 : Has(k, p) /\ CapturedBy(log[k]) = Captured(position)
        BY <4>1, CapturedBefore
      <4> QED
        BY <1>2, <4>2
    <3>5. ~Unsafe(a[p])
      BY <3>4 DEF SafeSoFar
    <3> QED
      BY <1>4, <3>1, <3>3, <3>5 DEF Unsafe, Modified
  <2> QED
    BY <2>1, <2>2
<1>9. CapturedBy(log[position]) = b /\ \A p \in Paths : Has(position, p) <=> b[p] # Absent
  BY <1>1 DEF Has, Captures, CapturedBy, Event
<1>10. 1 .. position' - 1 = (1 .. position - 1) \cup {position}
  BY <1>1
<1>11. SafeSoFar'
  <2> SUFFICES ASSUME NEW k \in 1 .. position' - 1, NEW p \in Paths, Has(k, p)
               PROVE  /\ ~Unsafe(CapturedBy(log[k])[p])
                      /\ \A j \in 1 .. k - 1 : \A r \in Paths : Has(j, r) => p \notin Ancestors[r]
    BY DEF SafeSoFar, Has, Captures, CapturedBy, Unsafe
  <2>1. CASE k \in 1 .. position - 1
    BY <2>1 DEF SafeSoFar
  <2>2. CASE k = position
    BY <1>8, <1>9, <2>2 DEF DirectoriesStay
  <2> QED
    BY <1>10, <2>1, <2>2
<1>12. ASSUME NEW q \in Paths
       PROVE  expected'[q] = Directory <=>
                \E k \in 1 .. position' - 1 : \E p \in Paths : Has(k, p) /\ q \in Ancestors[p]
  <2>1. unlinked \in Trees /\ w \in [Paths -> Entries \cup {Absent}]
    BY <1>1, <1>2, <1>3, <1>5, ApplyIsTree DEF Diff
  <2>2. expected'[q] = Directory <=>
          /\ w[q] = Absent
          /\ expected[q] = Directory \/ \E r \in Paths : w[r] # Absent /\ q \in Ancestors[r]
    BY <1>3, <1>7, <2>1, WrittenDirectories
  <2>3. ASSUME expected'[q] = Directory
        PROVE  \E k \in 1 .. position' - 1 : \E p \in Paths : Has(k, p) /\ q \in Ancestors[p]
    BY <1>6, <1>9, <1>10, <2>2, <2>3 DEF DirectoriesStay
  <2>4. ASSUME NEW k \in 1 .. position - 1, NEW p \in Paths, Has(k, p), q \in Ancestors[p]
        PROVE  expected'[q] = Directory
    <3>1. expected[q] = Directory
      BY <2>4 DEF DirectoriesStay
    <3> QED
      BY <1>6, <1>8, <2>2, <3>1
  <2>5. ASSUME NEW p \in Paths, Has(position, p), q \in Ancestors[p]
        PROVE  expected'[q] = Directory
    <3>1. b[p] # Absent /\ b[q] = Absent /\ w[q] = Absent
      BY <1>5, <1>6, <1>9, <2>5
    <3>2. CASE w[p] # Absent
      BY <2>2, <2>5, <3>1, <3>2
    <3>3. CASE w[p] = Absent
      <4>1. ~Modified(a[p], b[p])
        BY <1>1, <3>1, <3>3 DEF Diff
      <4>2. a[p] = IF IsEntry(expected[p]) THEN expected[p] ELSE Absent
        BY <1>2 DEF Capture
      <4>3. expected[p] # Absent
        BY <1>4, <1>5, <3>1, <4>1, <4>2 DEF Modified, IsEntry
      <4>4. expected[q] = Directory
        BY <1>2, <2>5, <4>3 DEF Trees
      <4> QED
        BY <2>2, <3>1, <4>4
    <3> QED
      BY <3>2, <3>3
  <2> QED
    BY <1>10, <2>3, <2>4, <2>5
<1>13. DirectoriesStay'
  BY <1>12 DEF DirectoriesStay, Has, Captures, CapturedBy
<1> QED
  BY <1>11, <1>13
----------------------------------------------------------------------------
LEMMA CapturedEntry ==
  ASSUME NEW k \in 1 .. Len(log), NEW p \in Paths
  PROVE  Has(k, p) <=> <<k, p>> \in CapturedEntries
  BY DEF Has, CapturedEntries

\* A recorded replay of undamaged bytes is left for one of the two reasons.
LEMMA RaisedForReason ==
  ASSUME IInv, CheckpointFirst, DirectoriesStay, Chained, RaiseStep,
         mode = "recorded", damaged = {}
  PROVE  LinkLedOut \/ DirectoryBecameFile
<1>1. /\ position \in 1 .. Len(log) /\ Len(log) \in Nat /\ pc = "running"
      /\ Event.kind = "checkpoint" => Event.manifest \in Manifests
      /\ Event.kind = "workspace_delta" =>
           /\ Event.previous \in Manifests /\ Event.current \in Manifests
           /\ Event.delta = Diff(Event.previous, Event.current)
  BY EventFacts DEF RaiseStep, IInv, At, Fresh
<1>2. workspace = expected /\ expected \in Trees /\ Capture(expected) = Captured(position)
  BY <1>1 DEF IInv, Bounds, TreesAgree, ExpectedTracks, TypeOK
<1>3. ASSUME NEW p \in Paths, Has(position, p), Unsafe(CapturedBy(log[position])[p])
      PROVE  LinkLedOut
  <2>1. <<position, p>> \in CapturedEntries
    BY <1>1, <1>3, CapturedEntry
  <2> QED
    BY <1>3, <2>1 DEF LinkLedOut
<1>4. CASE Event.kind = "checkpoint" /\ ~CheckpointRestorable
  <2>1. \A k \in 1 .. position - 1 : ~Captures(log[k])
    BY <1>1, <1>4 DEF CheckpointFirst, Event
  <2>2. Captured(position) = EmptyTree
    BY <2>1 DEF Captured
  <2>3. \A p \in Paths : expected[p] # Directory
    BY <2>1 DEF DirectoriesStay, Has
  <2>4. \A p \in Paths : expected[p] = Absent
    <3> SUFFICES ASSUME NEW p \in Paths PROVE expected[p] = Absent
      OBVIOUS
    <3>1. Capture(expected)[p] = Absent
      BY <1>2, <2>2 DEF EmptyTree
    <3>2. expected[p] \in Entries => IsEntry(expected[p])
      BY EntriesAssumption DEF IsEntry
    <3>3. expected[p] \in Entries \cup {Absent, Directory}
      BY <1>2 DEF Trees
    <3> QED
      BY <2>3, <3>1, <3>2, <3>3 DEF Capture
  <2>5. expected = EmptyTree
    BY <1>2, <2>4 DEF Trees, EmptyTree
  <2>6. PICK p \in Paths : Unsafe(Event.manifest[p])
    BY <1>2, <1>4, <2>5 DEF CheckpointRestorable, CanRestore, CanRead, IInv
  <2>7. Event.manifest[p] # Absent
    BY <2>6 DEF Unsafe, Absent
  <2> QED
    BY <1>3, <1>4, <2>6, <2>7 DEF Has, Captures, CapturedBy, Event
<1>5. CASE Event.kind = "workspace_delta" /\ ~DeltaApplicable
  <2>1. ~CanApply(Event.delta, expected)
    BY <1>2, <1>5 DEF DeltaApplicable, CanRead
  <2>2. Capture(expected) = Event.previous
    BY <1>1, <1>2, <1>5 DEF Chained, Event
  <2>3. PICK p \in Paths : /\ Event.current[p] # Absent
                           /\ expected[p] = Directory \/ Unsafe(Event.current[p])
    BY <1>1, <1>2, <1>5, <2>1, <2>2, ApplyFails
  <2>4. Has(position, p) /\ CapturedBy(log[position]) = Event.current
    BY <1>5, <2>3 DEF Has, Captures, CapturedBy, Event
  <2>5. CASE Unsafe(Event.current[p])
    BY <1>3, <2>4, <2>5
  <2>6. CASE expected[p] = Directory
    <3>1. PICK k \in 1 .. position - 1 : \E r \in Paths : Has(k, r) /\ p \in Ancestors[r]
      BY <2>6 DEF DirectoriesStay
    <3>2. PICK r \in Paths : Has(k, r) /\ p \in Ancestors[r]
      BY <3>1
    <3>3. k \in 1 .. Len(log) /\ k < position
      BY <1>1
    <3>4. <<k, r>> \in CapturedEntries /\ <<position, p>> \in CapturedEntries
      BY <1>1, <2>4, <3>2, <3>3, CapturedEntry
    <3> QED
      BY <3>2, <3>3, <3>4 DEF DirectoryBecameFile
  <2> QED
    BY <2>3, <2>5, <2>6
<1> QED
  BY <1>4, <1>5 DEF RaiseStep, At, Fresh

LEMMA SameReasons ==
  ASSUME log' = log
  PROVE  /\ (Chained' <=> Chained) /\ (LinkLedOut' <=> LinkLedOut)
         /\ (DirectoryBecameFile' <=> DirectoryBecameFile) /\ (CheckpointFirst' <=> CheckpointFirst)
         /\ \A count : Verifies(count)' <=> Verifies(count)
  BY DEF Verifies, IsCall, Chained, LinkLedOut, DirectoryBecameFile, CheckpointFirst, CapturedEntries,
         Captured, Captures, CapturedBy, Unsafe

LEMMA InitFInv == RunInit /\ ReplayInit => FInv
<1> SUFFICES ASSUME RunInit, ReplayInit PROVE FInv
  OBVIOUS
<1>1. log = << >> /\ Len(log) = 0 /\ pc = "idle"
  BY DEF RunInit, ReplayInit
<1> QED
  BY <1>1, InitIInv DEF FInv, CheckpointFirst, Passed, RaisedFor

\* A step of a replay keeps what it has passed and why it was left.
LEMMA ReplayStepFInv ==
  ASSUME FInv, ReplayStep, UNCHANGED runVars
  PROVE  Passed' /\ RaisedFor'
<1>1. /\ log' = log /\ TypeOK /\ LogOK /\ Bounds /\ ExpectedTracks
      /\ (Chained' <=> Chained) /\ (LinkLedOut' <=> LinkLedOut)
      /\ (DirectoryBecameFile' <=> DirectoryBecameFile)
      /\ \A count : Verifies(count)' <=> Verifies(count)
  BY SameReasons DEF runVars, FInv, IInv
<1>2. Len(log) \in Nat /\ position \in 1 .. Len(log) + 1
  BY <1>1 DEF TypeOK, LogOK
<1>3. Passed'
  <2> SUFFICES ASSUME pc' \in {"running", "concluded"}, Chained
               PROVE  (pc' = "running" => DirectoriesStay') /\ SafeSoFar'
    <3>1. pc' \in {"running", "concluded"} => Verifies(counted')
      BY DEF ReplayStep, Begin, Accepts, CheckpointStep, DeltaStep, SkipStep, UnregisteredStep,
             AnswerStep, FinishStep, RaiseStep, Conclude, At, Advance, fixed, FInv, Passed
    <3>2. pc' \in {"running", "concluded"} => Verifies(counted)'
      BY <1>1, <3>1 DEF Verifies, IsCall
    <3> QED
      BY <1>1, <3>2 DEF Passed
  <2>1. CASE position' = 1 /\ expected' = EmptyTree
    <3>1. 1 .. position' - 1 = {}
      BY <2>1
    <3>2. \A q \in Paths : expected'[q] # Directory
      BY <2>1 DEF EmptyTree, Absent, Directory
    <3> QED
      BY <3>1, <3>2 DEF DirectoriesStay, SafeSoFar
  <2>2. CASE Conclude
    <3>1. pc' = "concluded" /\ position' = position /\ SafeSoFar
      BY <2>2 DEF Conclude, FInv, Passed
    <3> QED
      BY <1>1, <3>1 DEF SafeSoFar, Has, Captures, CapturedBy, Unsafe
  <2>3. CASE pc' = "running" /\ pc = "running"
    <3>1. DirectoriesStay /\ SafeSoFar /\ CheckpointFirst
      BY <2>3 DEF FInv, Passed
    <3>2. CASE CheckpointStep
      BY <1>1, <3>1, <3>2, PassCheckpoint
    <3>3. CASE DeltaStep
      BY <1>1, <3>1, <3>3, PassDelta
    <3>4. CASE /\ position \in 1 .. Len(log) /\ ~Captures(Event)
               /\ position' = position + 1 /\ expected' = expected
      BY <1>1, <1>2, <3>1, <3>4, PassOther DEF Event
    <3>5. CASE position' = 1 /\ expected' = EmptyTree
      BY <2>1, <3>5
    <3> QED
      BY <1>1, <2>3, <3>2, <3>3, <3>4, <3>5, UnderWay
  <2>4. pc = "idle" => position' = 1 /\ expected' = EmptyTree
    BY <1>1 DEF ReplayStep, Begin, CheckpointStep, DeltaStep, SkipStep, UnregisteredStep,
                AnswerStep, FinishStep, RaiseStep, Conclude, At, Bounds
  <2>5. pc' = "concluded" => Conclude
    BY DEF ReplayStep, Begin, CheckpointStep, DeltaStep, SkipStep, UnregisteredStep,
           AnswerStep, FinishStep, RaiseStep, Conclude, At, Advance
  <2>6. pc \in {"idle", "running"}
    BY DEF ReplayStep, Begin, CheckpointStep, DeltaStep, SkipStep, UnregisteredStep,
           AnswerStep, FinishStep, RaiseStep, Conclude, At
  <2> QED
    BY <2>1, <2>2, <2>3, <2>4, <2>5, <2>6
<1>4. RaisedFor'
  <2> SUFFICES ASSUME pc' = "raised", mode' = "recorded", Chained, sound', damaged' = {}
               PROVE  ~Verifies(counted') \/ LinkLedOut \/ DirectoryBecameFile
    <3>1. Verifies(counted)' <=> Verifies(counted')
      BY <1>1 DEF Verifies, IsCall
    <3> QED
      BY <1>1, <3>1 DEF RaisedFor
  <2>1. RaiseStep \/ ~Verifies(counted')
    BY DEF ReplayStep, Begin, Accepts, CheckpointStep, DeltaStep, SkipStep, UnregisteredStep,
           AnswerStep, FinishStep, Conclude, At, Advance
  <2>2. RaiseStep => pc = "running" /\ mode = "recorded" /\ damaged = {}
    BY DEF RaiseStep, At, fixed
  <2> QED
    BY <2>1, <2>2, RaisedForReason DEF FInv, Passed
<1> QED
  BY <1>3, <1>4

LEMMA StepFInv == FInv /\ [ReplayNext]_<<runVars, replayVars>> => FInv'
<1> SUFFICES ASSUME FInv, [ReplayNext]_<<runVars, replayVars>> PROVE FInv'
  OBVIOUS
<1>1. IInv'
  BY StepIInv DEF FInv
<1>2. CASE Record
  <2>1. CheckpointFirst'
    BY <1>2, CheckpointFirstStep DEF Record, FInv, IInv
  <2>2. pc' = "idle"
    BY <1>2 DEF Record, replayVars
  <2> QED
    BY <1>1, <2>1, <2>2 DEF FInv, Passed, RaisedFor
<1>3. CASE Replays
  <2>1. CheckpointFirst'
    BY <1>3, SameReasons DEF Replays, runVars, FInv
  <2> QED
    BY <1>1, <1>3, <2>1, ReplayStepFInv DEF Replays, FInv
<1>4. CASE UNCHANGED <<runVars, replayVars>>
  <2>1. log' = log /\ UNCHANGED replayVars
    BY <1>4 DEF runVars
  <2>2. Passed'
    BY <2>1, SameReasons
    DEF FInv, Passed, replayVars, DirectoriesStay, SafeSoFar, Has, Captures, CapturedBy, Unsafe,
        Verifies, IsCall
  <2>3. CheckpointFirst' /\ RaisedFor'
    BY <2>1, SameReasons DEF FInv, RaisedFor, replayVars, Verifies, IsCall
  <2> QED
    BY <1>1, <2>2, <2>3 DEF FInv
<1> QED
  BY <1>2, <1>3, <1>4 DEF ReplayNext

LEMMA RaisesFollows == FInv => RaisesExactly
<1> SUFFICES ASSUME FInv, pc \in {"concluded", "raised"}, mode = "recorded", Chained,
                    sound, damaged = {}
             PROVE  pc = "raised" <=> ~Verifies(counted) \/ LinkLedOut \/ DirectoryBecameFile
  BY DEF RaisesExactly
<1>1. CASE pc = "raised"
  BY <1>1 DEF FInv, RaisedFor
<1>2. CASE pc = "concluded"
  <2>1. position = Len(log) + 1 /\ Len(log) \in Nat /\ SafeSoFar /\ Verifies(counted)
    BY <1>2 DEF FInv, IInv, Bounds, LogOK, Passed
  <2>2. \A c \in CapturedEntries :
          c = <<c[1], c[2]>> /\ c[1] \in 1 .. Len(log) /\ c[2] \in Paths /\ Has(c[1], c[2])
    BY DEF CapturedEntries, Has
  <2>3. 1 .. position - 1 = 1 .. Len(log)
    BY <2>1
  <2>4. ~LinkLedOut
    BY <2>1, <2>2, <2>3 DEF LinkLedOut, SafeSoFar
  <2>5. ~DirectoryBecameFile
    <3> SUFFICES ASSUME NEW c \in CapturedEntries, NEW d \in CapturedEntries, c[1] < d[1]
                 PROVE  d[2] \notin Ancestors[c[2]]
      BY DEF DirectoryBecameFile
    <3>1. c[1] \in 1 .. d[1] - 1
      BY <2>1, <2>2
    <3> QED
      BY <2>1, <2>2, <2>3, <3>1 DEF SafeSoFar
  <2> QED
    BY <1>2, <2>1, <2>4, <2>5
<1> QED
  BY <1>1, <1>2

\* For any paths, entries and programs: a recorded replay of intact bytes raises exactly
\* when the trace does not verify, or for a captured link that leads out, or a directory
\* with files in it that was later captured as a file or link.
THEOREM RecordedReplayRaises == ReplaySpec => []RaisesExactly
  BY InitFInv, StepFInv, RaisesFollows, PTL DEF ReplaySpec
----------------------------------------------------------------------------
\* What the events gone through had captured has been read, or equals what was.
Undamaged ==
  pc \in {"running", "concluded"} =>
    /\ sound
    /\ Chained => \A k \in 1 .. position - 1 : \A p \in Paths :
                    Has(k, p) => CapturedBy(log[k])[p].content \notin damaged

\* What an event captures it stores, or an event before it has captured it.
LEMMA ReadOrCaptured ==
  ASSUME TypeOK, LogOK, Chained, CheckpointStep \/ DeltaStep,
         NEW p \in Paths, Has(position, p),
         \A k \in 1 .. position - 1 : Has(k, p) => CapturedBy(log[k])[p].content \notin damaged
  PROVE  CapturedBy(log[position])[p].content \notin damaged
<1>1. CASE CheckpointStep
  <2>1. Event.kind = "checkpoint" /\ CanRead(Event.manifest)
    BY <1>1 DEF CheckpointStep, CheckpointRestorable, At
  <2> QED
    BY <2>1 DEF CanRead, Has, CapturedBy, Event
<1>2. CASE DeltaStep
  <2> DEFINE a == Event.previous
             b == Event.current
             w == Event.delta.written
  <2>1. /\ position \in 1 .. Len(log) /\ Len(log) \in Nat
        /\ Event.kind = "workspace_delta"
        /\ a \in Manifests /\ b \in Manifests /\ Event.delta = Diff(a, b)
    BY <1>2, EventFacts DEF DeltaStep, At
  <2>2. CanRead(w) /\ a = Captured(position)
    BY <1>2, <2>1 DEF DeltaStep, DeltaApplicable, Chained, Event
  <2>3. CapturedBy(log[position]) = b /\ b[p] # Absent
    BY <2>1 DEF Has, CapturedBy, Event
  <2>4. CASE w[p] # Absent
    <3>1. w[p] = b[p]
      BY <2>1, <2>4 DEF Diff
    <3> QED
      BY <2>2, <2>3, <2>4, <3>1 DEF CanRead
  <2>5. CASE w[p] = Absent
    <3>1. ~Modified(a[p], b[p])
      BY <2>1, <2>3, <2>5 DEF Diff
    <3>2. a[p] # Absent /\ a[p].content = b[p].content
      <4>1. IsEntry(b[p]) /\ ~IsEntry(Absent)
        BY <2>1, <2>3, CapturedApart DEF IsEntry, Absent
      <4> QED
        BY <3>1, <4>1 DEF Modified, IsEntry
    <3>3. position \in Nat /\ Captured(position)[p] # Absent
      BY <2>1, <2>2, <3>2
    <3>4. PICK k \in 1 .. position - 1 : Has(k, p) /\ CapturedBy(log[k]) = Captured(position)
      BY <3>3, CapturedBefore
    <3> QED
      BY <2>2, <2>3, <3>2, <3>4
  <2> QED
    BY <2>4, <2>5
<1> QED
  BY <1>1, <1>2

LEMMA StepUndamaged ==
  ASSUME IInv, Undamaged, ReplayStep, UNCHANGED runVars
  PROVE  Undamaged'
<1>1. /\ TypeOK /\ LogOK /\ Bounds /\ log' = log /\ (Chained' <=> Chained)
  BY SameReasons DEF IInv, runVars
<1>2. \A k \in Nat : \A p : (Has(k, p)' <=> Has(k, p)) /\ CapturedBy(log[k])' = CapturedBy(log[k])
  BY <1>1 DEF Has, Captures, CapturedBy
<1>3. position \in 1 .. Len(log) + 1 /\ Len(log) \in Nat
  BY <1>1 DEF TypeOK, LogOK
<1> SUFFICES ASSUME pc' \in {"running", "concluded"} PROVE Undamaged'
  BY DEF Undamaged
<1>4. CASE pc = "idle"
  <2>1. sound' /\ position' = 1
    BY <1>1, <1>4 DEF ReplayStep, Begin, Accepts, CheckpointStep, DeltaStep, SkipStep,
         UnregisteredStep, AnswerStep, FinishStep, RaiseStep, Conclude, At, Bounds
  <2> QED
    BY <2>1 DEF Undamaged
<1>5. CASE pc # "idle"
  <2>1. pc = "running" /\ UNCHANGED fixed
    BY <1>5 DEF ReplayStep, Begin, CheckpointStep, DeltaStep, SkipStep, UnregisteredStep,
         AnswerStep, FinishStep, RaiseStep, Conclude, At, Advance
  <2>2. sound /\ (Chained => \A k \in 1 .. position - 1 : \A p \in Paths :
                    Has(k, p) => CapturedBy(log[k])[p].content \notin damaged)
    BY <2>1 DEF Undamaged
  <2>3. SUFFICES ASSUME Chained, NEW k \in 1 .. position' - 1, NEW p \in Paths, Has(k, p)
                 PROVE  CapturedBy(log[k])[p].content \notin damaged
    BY <1>1, <1>2, <1>3, <2>1, <2>2 DEF Undamaged, fixed, Has, Captures, CapturedBy
  <2>4. CASE position' = position
    BY <2>2, <2>3, <2>4
  <2>5. CASE position' = position + 1 /\ ~Captures(Event)
    <3>1. k # position
      BY <2>3, <2>5 DEF Has, Event
    <3> QED
      BY <1>3, <2>2, <2>3, <2>5, <3>1
  <2>6. CASE position' = position + 1 /\ (CheckpointStep \/ DeltaStep)
    <3>1. k \in 1 .. position - 1 \/ k = position
      BY <1>3, <2>3, <2>6
    <3> QED
      BY <1>1, <2>2, <2>3, <2>6, <3>1, ReadOrCaptured
  <2>7. CASE Conclude
    BY <2>4, <2>7 DEF Conclude
  <2>8. CASE pc' = "running"
    <3>1. ~(position' = 1 /\ position # 1) \/ position' = position + 1
      BY <1>3, <2>1 DEF ReplayStep, Begin, CheckpointStep, DeltaStep, SkipStep,
           UnregisteredStep, AnswerStep, FinishStep, RaiseStep, Conclude, Advance
    <3> QED
      BY <1>1, <1>3, <2>1, <2>4, <2>5, <2>6, <2>8, <3>1, UnderWay
      DEF CheckpointStep, DeltaStep, Advance
  <2> QED
    BY <2>1, <2>7, <2>8 DEF ReplayStep, Begin, CheckpointStep, DeltaStep, SkipStep,
         UnregisteredStep, AnswerStep, FinishStep, RaiseStep, Conclude, Advance
<1> QED
  BY <1>4, <1>5

\* For any paths, entries, adapters and damage: a replay of deltas that follow on each
\* other reaches its verdict only when no content that a checkpoint or a delta had captured is
\* damaged, whether or not it is written again.
THEOREM NoVerdictOnDamage == ReplaySpec => []ConcludesOnSound
<1>1. RunInit /\ ReplayInit => IInv /\ Undamaged
  BY InitIInv DEF ReplayInit, Undamaged
<1>2. IInv /\ Undamaged /\ [ReplayNext]_<<runVars, replayVars>> => (IInv /\ Undamaged)'
  <2> SUFFICES ASSUME IInv, Undamaged, [ReplayNext]_<<runVars, replayVars>>
               PROVE  IInv' /\ Undamaged'
    OBVIOUS
  <2>1. IInv'
    BY StepIInv
  <2>2. CASE Record
    BY <2>1, <2>2 DEF Record, replayVars, Undamaged
  <2>3. CASE Replays
    BY <2>1, <2>3, StepUndamaged DEF Replays
  <2>4. CASE UNCHANGED <<runVars, replayVars>>
    <3>1. log' = log /\ (Chained' <=> Chained) /\ UNCHANGED replayVars
      BY <2>4, SameReasons DEF runVars
    <3> QED
      BY <2>1, <3>1 DEF replayVars, Undamaged, Has, Captures, CapturedBy
  <2> QED
    BY <2>2, <2>3, <2>4 DEF ReplayNext
<1>3. IInv /\ Undamaged => ConcludesOnSound
  <2> SUFFICES ASSUME IInv, Undamaged, pc = "concluded"
               PROVE  ConcludesOnSound
    BY DEF ConcludesOnSound
  <2>1. position - 1 = Len(log) /\ sound
    BY DEF IInv, Bounds, LogOK, Undamaged
  <2>2. \A c \in CapturedEntries : c[1] \in 1 .. Len(log) /\ c[2] \in Paths /\ Has(c[1], c[2])
    BY DEF CapturedEntries, Has
  <2> QED
    BY <2>1, <2>2 DEF ConcludesOnSound, Undamaged
<1> QED
  BY <1>1, <1>2, <1>3, PTL DEF ReplaySpec
----------------------------------------------------------------------------
\* What a change makes of what a tree is captured as.
Recaptured(change, manifest) ==
  IF change = NoChange THEN manifest
  ELSE [p \in Paths |->
          IF p = change.path THEN change.node
          ELSE IF (IF change.node = Absent THEN change.path \in Ancestors[p]
                                           ELSE p \in Ancestors[change.path])
               THEN Absent ELSE manifest[p]]

Checkpointed == Len(log) > 1 /\ log[2].kind = "checkpoint"

\* g[n] is what the workspace of the run would have been captured as before event n,
\* had nothing but the recorded calls changed it since the checkpoint.
Retraces(g) ==
  /\ g[3] = log[2].manifest
  /\ \A n \in 3 .. Len(log) :
       /\ g[n + 1] = IF IsCall(log[n]) THEN Recaptured(log[n].change, g[n]) ELSE g[n]
       /\ log[n].kind = "workspace_delta" => log[n].current = g[n]
       /\ log[n].kind = "run_finished" => log[n].manifest = g[n]

\* Nothing else did.
Undisturbed ==
  /\ log # << >> => log[1].kind = "environment"
  /\ disturbances = 0 /\ Checkpointed =>
       \E g : Retraces(g) /\ g[Len(log) + 1] = Capture(tree)

\* Redaction altered the result of this call.
Altered(n) == IsCall(log[n]) /\ log[n].outcome # log[n].original

\* Where a faithful replay is under way: past the checkpoint the workspace is where the
\* run was.
Alike(w, n) == \A g : Retraces(g) /\ n > 2 => Capture(w) = g[n]

\* A fresh replay under way, in which adapters did what was recorded, is where the run
\* was then, and has diverged where redaction made it.
FaithfulSoFar ==
  /\ pc \in {"running", "concluded"} /\ mode = "fresh_all" /\ faithful
  /\ disturbances = 0 /\ Chained /\ Checkpointed
  => /\ divergences = {n \in 1 .. position - 1 : Altered(n)}
     /\ pc = "running" => Alike(workspace, position)

LEMMA RecapturedIs ==
  ASSUME NEW change \in Changes \cup {NoChange}, NEW t \in Trees
  PROVE  Capture(Change(change, t)) = Recaptured(change, Capture(t))
<1>1. ~IsEntry(Absent) /\ ~IsEntry(Directory)
  BY DEF IsEntry, Absent, Directory
<1>2. CASE change = NoChange
  BY <1>2 DEF Change, Recaptured
<1>3. CASE change # NoChange
  <2>1. change.node = Absent \/ IsEntry(change.node)
    BY <1>3, RecordingAssumption, EntriesAssumption DEF Remove, Put, IsEntry
  <2>2. ASSUME NEW p \in Paths
        PROVE  Capture(Change(change, t))[p] = Recaptured(change, Capture(t))[p]
    <3> DEFINE r == Change(change, t)
    <3>1. r[p] = IF p = change.path THEN change.node
                 ELSE IF change.node = Absent
                      THEN IF change.path \in Ancestors[p] THEN Absent ELSE t[p]
                      ELSE IF p \in Ancestors[change.path] THEN Directory ELSE t[p]
      BY <1>3 DEF Change
    <3>2. Capture(r)[p] = (IF IsEntry(r[p]) THEN r[p] ELSE Absent)
      BY DEF Capture
    <3>3. Capture(t)[p] = (IF IsEntry(t[p]) THEN t[p] ELSE Absent)
      BY DEF Capture
    <3>4. Recaptured(change, Capture(t))[p] =
            IF p = change.path THEN change.node
            ELSE IF (IF change.node = Absent THEN change.path \in Ancestors[p]
                                             ELSE p \in Ancestors[change.path])
                 THEN Absent ELSE Capture(t)[p]
      BY <1>3 DEF Recaptured
    <3> HIDE DEF r
    <3>5. Capture(r)[p] = Recaptured(change, Capture(t))[p]
      <4>1. CASE p = change.path
        BY <1>1, <2>1, <3>1, <3>2, <3>4, <4>1
      <4>2. CASE p # change.path
        BY <1>1, <3>1, <3>2, <3>3, <3>4, <4>2
      <4> QED
        BY <4>1, <4>2
    <3> QED
      BY <3>5 DEF r
  <2>3. /\ Capture(Change(change, t)) = [p \in Paths |-> Capture(Change(change, t))[p]]
        /\ Recaptured(change, Capture(t)) = [p \in Paths |-> Recaptured(change, Capture(t))[p]]
    BY <1>3 DEF Capture, Recaptured
  <2> QED
    BY <2>2, <2>3
<1> QED
  BY <1>2, <1>3

\* An event that says what was done is added to a run that was not disturbed.
LEMMA LogUndisturbed ==
  ASSUME LogOK, Undisturbed, log # << >>, NEW event, Log(event),
         event.kind # "checkpoint", disturbances' = disturbances,
         Capture(tree') = (IF IsCall(event) THEN Recaptured(event.change, Capture(tree))
                                            ELSE Capture(tree)),
         event.kind = "workspace_delta" => event.current = Capture(tree),
         event.kind = "run_finished" => event.manifest = Capture(tree)
  PROVE  Undisturbed'
<1>1. PICK S : log \in Seq(S)
  BY DEF LogOK
<1>2. /\ Len(log) \in Nat \ {0} /\ Len(log') = Len(log) + 1
      /\ \A n \in 1 .. Len(log) : log'[n] = log[n]
      /\ log'[Len(log) + 1] = event
  BY <1>1 DEF Log
<1>3. log'[1] = log[1] /\ log[1].kind = "environment"
  BY <1>2 DEF Undisturbed
<1>4. ASSUME disturbances = 0, Checkpointed'
      PROVE  \E h : Retraces(h)' /\ h[Len(log') + 1] = Capture(tree')
  <2>1. Len(log) > 1 /\ log'[2] = log[2] /\ Checkpointed
    BY <1>2, <1>4 DEF Checkpointed
  <2>2. PICK g : Retraces(g) /\ g[Len(log) + 1] = Capture(tree)
    BY <1>4, <2>1 DEF Undisturbed
  <2>3. PICK h : /\ \A n \in 3 .. Len(log) + 1 : h[n] = g[n]
                 /\ h[Len(log) + 2] = Capture(tree')
    <3> DEFINE f == [n \in 3 .. Len(log) + 2 |->
                       IF n = Len(log) + 2 THEN Capture(tree') ELSE g[n]]
    <3>1. /\ \A n \in 3 .. Len(log) + 1 : f[n] = g[n]
          /\ f[Len(log) + 2] = Capture(tree')
      BY <1>2, <2>1
    <3> QED
      BY <3>1
  <2>4. h[3] = log'[2].manifest
    BY <1>2, <2>1, <2>2, <2>3 DEF Retraces
  <2>5. ASSUME NEW n \in 3 .. Len(log')
        PROVE  /\ h[n + 1] = IF IsCall(log'[n]) THEN Recaptured(log'[n].change, h[n]) ELSE h[n]
               /\ log'[n].kind = "workspace_delta" => log'[n].current = h[n]
               /\ log'[n].kind = "run_finished" => log'[n].manifest = h[n]
    <3>1. CASE n \in 3 .. Len(log)
      <4>1. log'[n] = log[n] /\ h[n] = g[n] /\ h[n + 1] = g[n + 1]
        BY <1>2, <2>3, <3>1
      <4> QED
        BY <2>2, <3>1, <4>1 DEF Retraces
    <3>2. CASE n = Len(log) + 1
      <4>1. log'[n] = event /\ h[n] = Capture(tree) /\ h[n + 1] = Capture(tree')
        BY <1>2, <2>1, <2>2, <2>3, <3>2
      <4> QED
        BY <4>1
    <3> QED
      BY <1>2, <3>1, <3>2
  <2>6. Retraces(h)'
    BY <2>4, <2>5 DEF Retraces, IsCall, Recaptured
  <2> QED
    BY <1>2, <2>3, <2>6
<1> QED
  BY <1>3, <1>4 DEF Undisturbed

LEMMA RunUndisturbed ==
  ASSUME TypeOK, LogOK, Undisturbed, RunStep
  PROVE  Undisturbed'
<1>1. ASSUME NEW w \in BOOLEAN, StartRun(w) PROVE Undisturbed'
  <2> DEFINE first == [kind |-> "environment"]
             second == [kind |-> "checkpoint", manifest |-> Capture(tree)]
  <2>1. log' = (IF w THEN <<first, second>> ELSE <<first>>) /\ tree' = tree
    BY <1>1 DEF StartRun
  <2>2. log'[1].kind = "environment"
    BY <2>1
  <2>3. ASSUME Checkpointed'
        PROVE  \E g : Retraces(g)' /\ g[Len(log') + 1] = Capture(tree')
    <3>1. w /\ log' = <<first, second>>
      BY <2>1, <2>3 DEF Checkpointed
    <3>2. Len(log') = 2 /\ log'[2].manifest = Capture(tree)
      BY <3>1
    <3>3. PICK g : g = [n \in {3} |-> Capture(tree)]
      OBVIOUS
    <3>4. g[3] = Capture(tree)
      BY <3>3
    <3>5. Retraces(g)'
      BY <3>2, <3>4 DEF Retraces
    <3> QED
      BY <2>1, <3>2, <3>4, <3>5
  <2> QED
    BY <2>2, <2>3 DEF Undisturbed
<1>2. ASSUME NEW w \in BOOLEAN, FinishRun(w) PROVE Undisturbed'
  <2> DEFINE event == [kind |-> "run_finished", workspace |-> w, manifest |-> Capture(tree)]
  <2>1. Log(event) /\ log # << >> /\ tree' = tree /\ disturbances' = disturbances
    BY <1>2 DEF FinishRun
  <2>2. event.kind = "run_finished" /\ event.manifest = Capture(tree) /\ ~IsCall(event)
    BY DEF IsCall
  <2> HIDE DEF event
  <2> QED
    BY <2>1, <2>2, LogUndisturbed
<1>3. ASSUME NEW kind \in {"model_call", "tool_call"}, NEW request \in Requests, NEW whole \in BOOLEAN,
             NEW change \in Changes \cup {NoChange}, NEW outcome \in Outcomes,
             CallRecorded(kind, request, whole, change, outcome)
      PROVE  Undisturbed'
  <2> DEFINE event == [kind |-> kind, request |-> request, whole |-> whole,
                       outcome |-> Stored(outcome), change |-> change, original |-> outcome]
  <2>1. /\ Log(event) /\ log # << >> /\ tree' = Change(change, tree)
        /\ disturbances' = disturbances
    BY <1>3 DEF CallRecorded
  <2>2. event.kind \in {"model_call", "tool_call"} /\ event.change = change /\ IsCall(event)
    BY DEF IsCall
  <2>3. Capture(tree') = Recaptured(change, Capture(tree))
    BY <2>1, RecapturedIs DEF TypeOK
  <2> HIDE DEF event
  <2> QED
    BY <2>1, <2>2, <2>3, LogUndisturbed
<1>4. ASSUME NEW change \in Changes, Disturb(change) PROVE Undisturbed'
  <2>1. disturbances' # 0 /\ log' = log
    BY <1>4 DEF Disturb, TypeOK
  <2> QED
    BY <2>1 DEF Undisturbed
<1>5. ASSUME NEW previous \in manifests, DeltaCaptured(previous) PROVE Undisturbed'
  <2> DEFINE event == [kind |-> "workspace_delta", previous |-> previous,
                       delta |-> Diff(previous, Capture(tree)), current |-> Capture(tree)]
  <2>1. Log(event) /\ log # << >> /\ tree' = tree /\ disturbances' = disturbances
    BY <1>5 DEF DeltaCaptured
  <2>2. event.kind = "workspace_delta" /\ event.current = Capture(tree) /\ ~IsCall(event)
    BY DEF IsCall
  <2> HIDE DEF event
  <2> QED
    BY <2>1, <2>2, LogUndisturbed
<1> QED
  BY <1>1, <1>2, <1>3, <1>4, <1>5 DEF RunStep

\* Only the capture of the checkpoint comes second, and only then is there one.
LEMMA AfterCheckpoint ==
  ASSUME LogOK, CheckpointFirst, Undisturbed, Checkpointed, NEW n \in 1 .. Len(log)
  PROVE  /\ n = 1 => log[n].kind = "environment"
         /\ n > 2 => log[n].kind # "checkpoint"
<1>1. log # << >> /\ Len(log) \in Nat
  BY DEF Checkpointed, LogOK
<1>2. ASSUME n > 2, log[n].kind = "checkpoint" PROVE FALSE
  <2>1. 2 \in 1 .. n - 1 /\ Captures(log[2])
    BY <1>1, <1>2 DEF Captures, Checkpointed
  <2> QED
    BY <1>2, <2>1 DEF CheckpointFirst
<1> QED
  BY <1>1, <1>2 DEF Undisturbed

\* A step of a faithful replay of an undisturbed run diverges where redaction altered
\* the result and nowhere else.
LEMMA FaithfulStep ==
  ASSUME IInv, CheckpointFirst, Undisturbed, Chained, Checkpointed, disturbances = 0,
         ReplayStep, UNCHANGED runVars, pc = "running", pc' = "running",
         mode = "fresh_all", faithful',
         Alike(workspace, position)
  PROVE  /\ position \in 1 .. Len(log) /\ position' = position + 1 /\ faithful
         /\ divergences' = IF Altered(position) THEN divergences \cup {position} ELSE divergences
         /\ Alike(workspace', position + 1)
<1>1. TypeOK /\ LogOK /\ Bounds /\ ExpectedTracks /\ Len(log) \in Nat
  BY DEF IInv, LogOK
<1>2. Event = log[position]
  BY DEF Event
<1>3. position \in Nat
  BY <1>1 DEF TypeOK
<1>4. CASE CheckpointStep
  <2>1. /\ position \in 1 .. Len(log) /\ position' = position + 1 /\ faithful
        /\ Event.kind = "checkpoint" /\ Event.manifest \in Manifests
        /\ divergences' = divergences
    BY <1>1, <1>4, EventFacts DEF CheckpointStep, At, Advance
  <2>2. position = 2
    BY <1>1, <1>2, <2>1, AfterCheckpoint
  <2>3. Capture(workspace') = Event.manifest
    BY <1>4, <2>1, RestoreCaptures DEF CheckpointStep, CheckpointRestorable, CanRestore
  <2>4. ~Altered(position)
    BY <1>2, <2>1 DEF Altered, IsCall
  <2> QED
    BY <1>2, <2>1, <2>2, <2>3, <2>4 DEF Alike, Retraces
<1>5. ASSUME position \in 1 .. Len(log), ~Captures(Event) \/ Event.kind = "workspace_delta",
             ~IsCall(Event), workspace' = workspace
      PROVE  ~Altered(position) /\ Alike(workspace', position + 1)
  <2>1. ~Altered(position)
    BY <1>2, <1>5 DEF Altered
  <2>2. position # 2
    BY <1>2, <1>5 DEF Captures, Checkpointed
  <2>3. ASSUME NEW g, Retraces(g), position > 2 PROVE Capture(workspace) = g[position + 1]
    <3>1. position \in 3 .. Len(log) /\ g[position + 1] = g[position]
      BY <1>1, <1>2, <1>3, <1>5, <2>3 DEF Retraces
    <3> QED
      BY <2>3, <3>1 DEF Alike
  <2> QED
    BY <1>3, <1>5, <2>1, <2>2, <2>3 DEF Alike
<1>6. CASE DeltaStep
  <2>1. /\ position \in 1 .. Len(log) /\ position' = position + 1 /\ faithful
        /\ Event.kind = "workspace_delta" /\ workspace' = workspace
    BY <1>1, <1>6, EventFacts DEF DeltaStep, DeltaApplied, At, Advance
  <2>2. position > 2
    BY <1>1, <1>2, <1>3, <2>1, AfterCheckpoint DEF Checkpointed
  <2>3. PICK g : Retraces(g)
    BY DEF Undisturbed
  <2>4. Capture(workspace) = Event.current
    BY <1>1, <1>2, <2>1, <2>2, <2>3 DEF Alike, Retraces
  <2>5. Capture(expected') = Event.current
    <3>1. Capture(expected') = Captured(position')
      BY <1>1, TrackExpected
    <3> QED
      BY <1>1, <1>2, <2>1, <3>1, CapturedNext DEF Captures, CapturedBy
  <2>6. divergences' = divergences
    BY <1>6, <2>4, <2>5 DEF DeltaStep, Diverges
  <2>7. ~IsCall(Event)
    BY <2>1 DEF IsCall
  <2> QED
    BY <1>5, <2>1, <2>6, <2>7
<1>7. CASE SkipStep
  <2>1. /\ position \in 1 .. Len(log) /\ position' = position + 1 /\ faithful
        /\ workspace' = workspace /\ divergences' = divergences
    BY <1>1, <1>7, EventFacts DEF SkipStep, Advance
  <2>2. ~IsCall(Event) /\ ~Captures(Event)
    BY <1>7 DEF SkipStep, At, Fresh, IsCall, Captures
  <2> QED
    BY <1>5, <2>1, <2>2
<1>8. CASE UnregisteredStep
  BY <1>8 DEF UnregisteredStep
<1>9. ASSUME NEW outcome \in Outcomes, NEW change \in Changes \cup {NoChange},
             AnswerStep(change, outcome)
      PROVE  /\ position \in 1 .. Len(log) /\ position' = position + 1 /\ faithful
             /\ divergences' = IF Altered(position) THEN divergences \cup {position}
                               ELSE divergences
             /\ Alike(workspace', position + 1)
  <2>1. /\ position \in 1 .. Len(log) /\ position' = position + 1
        /\ faithful /\ change = Event.change /\ outcome = Event.original
        /\ workspace' = Change(change, workspace) /\ IsCall(Event)
    BY <1>1, <1>9, EventFacts DEF AnswerStep, At, Advance, IsCall
  <2>2. divergences' = IF Altered(position) THEN divergences \cup {position} ELSE divergences
    BY <1>2, <1>9, <2>1 DEF AnswerStep, Diverges, Differs, Altered
  <2>3. Capture(workspace') = Recaptured(change, Capture(workspace))
    BY <1>1, <2>1, RecapturedIs DEF TypeOK
  <2>4. position # 2
    BY <1>2, <2>1 DEF IsCall, Checkpointed
  <2>5. ASSUME NEW g, Retraces(g), position > 2 PROVE Capture(workspace') = g[position + 1]
    <3>1. position \in 3 .. Len(log) /\ g[position] = Capture(workspace)
      BY <1>1, <1>3, <2>1, <2>5 DEF Alike
    <3>2. g[position + 1] = Recaptured(log[position].change, g[position])
      BY <1>2, <2>1, <2>5, <3>1 DEF Retraces
    <3> QED
      BY <1>2, <2>1, <2>3, <3>1, <3>2
  <2>6. Alike(workspace', position + 1)
    BY <1>3, <2>1, <2>4, <2>5 DEF Alike
  <2> QED
    BY <2>1, <2>2, <2>6
<1>10. CASE FinishStep
  <2>1. /\ position \in 1 .. Len(log) /\ position' = position + 1 /\ faithful
        /\ Event.kind = "run_finished" /\ workspace' = workspace
    BY <1>1, <1>10, EventFacts DEF FinishStep, At, Advance
  <2>2. position > 2
    BY <1>1, <1>2, <1>3, <2>1, AfterCheckpoint DEF Checkpointed
  <2>3. PICK g : Retraces(g)
    BY DEF Undisturbed
  <2>4. Capture(workspace) = Event.manifest
    BY <1>1, <1>2, <2>1, <2>2, <2>3 DEF Alike, Retraces
  <2>5. divergences' = divergences
    BY <1>10, <2>4 DEF FinishStep, Diverges
  <2>6. ~IsCall(Event) /\ ~Captures(Event)
    BY <2>1 DEF IsCall, Captures
  <2> QED
    BY <1>5, <2>1, <2>5, <2>6
<1>11. ~RaiseStep /\ ~Conclude /\ \A m, c, s, d : ~Begin(m, c, s, d)
  BY DEF RaiseStep, Conclude, Begin
<1> QED
  BY <1>4, <1>6, <1>7, <1>8, <1>9, <1>10, <1>11 DEF ReplayStep

LEMMA SameRun ==
  ASSUME UNCHANGED runVars
  PROVE  /\ \A g : Retraces(g)' <=> Retraces(g)
         /\ \A n : Altered(n)' <=> Altered(n)
         /\ Checkpointed' <=> Checkpointed
         /\ Undisturbed' <=> Undisturbed
  BY DEF runVars, Retraces, Altered, Checkpointed, Undisturbed, IsCall, Recaptured, Capture

LEMMA StepFaithful ==
  ASSUME IInv, CheckpointFirst, Undisturbed, FaithfulSoFar, ReplayStep, UNCHANGED runVars
  PROVE  FaithfulSoFar'
<1>1. log' = log /\ disturbances' = disturbances /\ TypeOK /\ LogOK /\ Bounds
  BY DEF runVars, IInv
<1>2. position \in Nat
  BY <1>1 DEF TypeOK, LogOK
<1>3. (Chained' <=> Chained) /\ (Checkpointed' <=> Checkpointed)
  BY <1>1, SameLog, SameRun
<1> SUFFICES ASSUME pc' \in {"running", "concluded"}, mode' = "fresh_all", faithful',
                    disturbances = 0, Chained, Checkpointed
             PROVE  /\ divergences' = {n \in 1 .. position' - 1 : Altered(n)}
                    /\ pc' = "running" => Alike(workspace', position')
  <2>1. ASSUME NEW n PROVE Altered(n)' <=> Altered(n)
    BY SameRun
  <2>2. Alike(workspace', position') <=> Alike(workspace, position)'
    BY SameRun DEF Alike, Capture, IsEntry
  <2> QED
    BY <1>1, <1>3, <2>1, <2>2 DEF FaithfulSoFar
<1>4. CASE pc = "idle"
  <2>1. position' = 1 /\ divergences' = {}
    BY <1>1, <1>4 DEF ReplayStep, Begin, CheckpointStep, DeltaStep, SkipStep, UnregisteredStep,
         AnswerStep, FinishStep, RaiseStep, Conclude, At, Bounds
  <2> QED
    BY <2>1 DEF Alike
<1>5. CASE pc # "idle"
  <2>1. pc = "running" /\ mode = "fresh_all"
    BY <1>5 DEF ReplayStep, Begin, CheckpointStep, DeltaStep, SkipStep, UnregisteredStep,
         AnswerStep, FinishStep, RaiseStep, Conclude, At, Advance, fixed
  <2>2. CASE pc' = "concluded"
    <3>1. Conclude
      BY <2>2 DEF ReplayStep, Begin, CheckpointStep, DeltaStep, SkipStep, UnregisteredStep,
           AnswerStep, FinishStep, RaiseStep, At, Advance
    <3> QED
      BY <2>1, <2>2, <3>1 DEF Conclude, FaithfulSoFar
  <2>3. CASE pc' = "running"
    <3>1. faithful
      BY <2>1, <2>3 DEF ReplayStep, Begin, CheckpointStep, DeltaStep, SkipStep,
           UnregisteredStep, AnswerStep, FinishStep, RaiseStep, Conclude
    <3>2. /\ divergences = {n \in 1 .. position - 1 : Altered(n)}
          /\ Alike(workspace, position)
      BY <2>1, <3>1 DEF FaithfulSoFar
    <3>3. /\ position \in 1 .. Len(log) /\ position' = position + 1
          /\ divergences' = IF Altered(position) THEN divergences \cup {position}
                            ELSE divergences
          /\ Alike(workspace', position + 1)
      BY <2>1, <2>3, <3>2, FaithfulStep
    <3>4. 1 .. position' - 1 = (1 .. position - 1) \cup {position}
      BY <1>2, <3>3
    <3> QED
      BY <3>2, <3>3, <3>4
  <2> QED
    BY <2>2, <2>3
<1> QED
  BY <1>4, <1>5

\* For any paths, entries, programs and logs: a fresh replay of an undisturbed run,
\* whose adapters do again what was recorded, matches unless redaction altered a result.
THEOREM FaithfulReplayMatches == ReplaySpec => []FaithfulMatches
<1> DEFINE Inv == FInv /\ Undisturbed /\ FaithfulSoFar
<1>1. RunInit /\ ReplayInit => Inv
  BY InitFInv DEF RunInit, ReplayInit, Undisturbed, FaithfulSoFar, Checkpointed
<1>2. Inv /\ [ReplayNext]_<<runVars, replayVars>> => Inv'
  <2> SUFFICES ASSUME Inv, [ReplayNext]_<<runVars, replayVars>> PROVE Inv'
    OBVIOUS
  <2>1. FInv' /\ IInv /\ CheckpointFirst
    BY StepFInv DEF FInv
  <2>2. CASE Record
    BY <2>1, <2>2, RunUndisturbed DEF Record, replayVars, FaithfulSoFar, IInv
  <2>3. CASE Replays
    BY <2>1, <2>3, SameRun, StepFaithful DEF Replays
  <2>4. CASE UNCHANGED <<runVars, replayVars>>
    <3>1. UNCHANGED runVars /\ UNCHANGED replayVars
      BY <2>4
    <3>2. log' = log /\ disturbances' = disturbances
      BY <3>1 DEF runVars
    <3>3. (Chained' <=> Chained) /\ (Checkpointed' <=> Checkpointed) /\ Undisturbed'
      BY <3>1, <3>2, SameLog, SameRun
    <3>4. \A n : Altered(n)' <=> Altered(n)
      BY <3>1, SameRun
    <3>5. Alike(workspace, position)' <=> Alike(workspace, position)
      BY <3>1, SameRun DEF Alike, replayVars, Capture, IsEntry
    <3> QED
      BY <2>1, <3>1, <3>2, <3>3, <3>4, <3>5 DEF replayVars, FaithfulSoFar
  <2> QED
    BY <2>2, <2>3, <2>4 DEF ReplayNext
<1>3. Inv => FaithfulMatches
  <2> SUFFICES ASSUME Inv, pc = "concluded", mode = "fresh_all", faithful,
                      disturbances = 0, Chained, Checkpointed
               PROVE  matched <=> ~RedactionShows
    BY DEF FaithfulMatches, Checkpointed
  <2>1. position - 1 = Len(log)
    BY DEF FInv, IInv, Bounds, LogOK
  <2> QED
    BY <2>1 DEF FaithfulSoFar, matched, RedactionShows, Altered
<1> QED
  BY <1>1, <1>2, <1>3, PTL DEF ReplaySpec
----------------------------------------------------------------------------
\* export_trace, beside the recording.

\* What an event names, capturing has put into the store; results apart.
Named(event, captured) ==
  /\ event.kind = "checkpoint" => event.manifest \in captured
  /\ event.kind = "workspace_delta" => {event.previous, event.current} \subseteq captured

StoreKept ==
  /\ log = << >> => manifests = {}
  /\ \A n \in 1 .. Len(log) : Named(log[n], manifests)

\* The first events of the log.
FirstOf(all) ==
  /\ Len(all) \in Nat /\ Len(all) <= Len(log)
  /\ \A n \in 1 .. Len(all) : all[n] = log[n]

\* What was read of the trace, and what was made of it.
ReadKept ==
  /\ FirstOf(events) /\ row \in Nat /\ row <= Len(log)
  /\ stage # "idle" => log # << >>
  /\ stage = "searching" => row <= Len(events)

ContentsNamed(refs) == {r.content : r \in refs}
OnePerContent(refs) == \A q, r \in refs : q.content = r.content => q = r
NamedBy(event) == NestedRefs(InputOf(event)) \cup NestedRefs(OutputOf(event))

\* The search has found what is named at the places it has been to, or will meet the
\* same payload further down; what it has found is captured or mentioned.
SearchKept ==
  stage = "searching" =>
    /\ left \in 0 .. 2 * Len(events)
    /\ \A place \in 1 .. 2 * Len(events) :
         \/ ContentsNamed(NestedRefs(PayloadAt(place))) \subseteq ContentsNamed(references)
         \/ \E further \in 1 .. left : PayloadAt(further) = PayloadAt(place)
    /\ references \subseteq MentionedReferences \cup CapturedReferences(events)
    /\ OnePerContent(references)

\* What is at the destination is one export's, whole or in part.
ArchiveKept ==
  /\ archive = [row |-> archive.row, events |-> archive.events, blobs |-> archive.blobs,
                declared |-> archive.declared, closed |-> archive.closed]
  /\ FirstOf(archive.events) /\ archive.row \in Nat /\ archive.row <= Len(archive.events)
  /\ \A n \in 1 .. Len(archive.events) :
       ContentsNamed(NamedBy(archive.events[n])) \subseteq DeclaredContents
  /\ archive.declared \subseteq MentionedReferences \cup CapturedReferences(archive.events)
  /\ OnePerContent(archive.declared)
  /\ stage = "writing" => ~archive.closed /\ archive.events = events

Unwritable ==
  \E r \in archive.declared :
    /\ r.content \notin archive.blobs
    /\ r.content \in lost \/ r \in MentionedReferences \ CapturedReferences(events)

StageKept ==
  /\ stage \in {"writing", "exported"} =>
       \A r \in archive.declared : r.content \in archive.blobs => Readable(r)
  /\ stage = "exported" => Inspected
  /\ stage = "unwritten" => Unwritable

EInv == IInv /\ StoreKept /\ ReadKept /\ SearchKept /\ ArchiveKept /\ StageKept

\* Recording adds events and contents and takes none away.
LEMMA RunAdds ==
  ASSUME TypeOK, LogOK, StoreKept, RunStep
  PROVE  /\ StoreKept' /\ StoredContents \subseteq StoredContents' /\ log' # << >>
         /\ \A all : FirstOf(all) => FirstOf(all)'
<1>1. PICK S : log \in Seq(S)
  BY DEF LogOK
<1>2. Len(log) \in Nat
  BY DEF LogOK
<1>3. ASSUME Len(log') \in Nat, Len(log) <= Len(log'), manifests \subseteq manifests',
             \A n \in 1 .. Len(log) : log'[n] = log[n]
      PROVE  /\ StoredContents \subseteq StoredContents'
             /\ \A all : FirstOf(all) => FirstOf(all)'
             /\ \A n \in 1 .. Len(log) : Named(log'[n], manifests')
  <2>1. \A n \in 1 .. Len(log) : n \in 1 .. Len(log')
    BY <1>2, <1>3
  <2>2. StoredContents \subseteq StoredContents'
    <3> SUFFICES ASSUME NEW c \in StoredContents PROVE c \in StoredContents'
      OBVIOUS
    <3>1. CASE \E m \in manifests : c \in ContentsOf(m)
      <4>1. PICK m \in manifests' : c \in ContentsOf(m)
        BY <1>3, <3>1
      <4> QED
        BY <4>1 DEF StoredContents
    <3>2. ASSUME NEW n \in 1 .. Len(log), log[n].kind = "run_finished", log[n].workspace,
                 c \in ContentsOf(log[n].manifest)
          PROVE  c \in StoredContents'
      <4>1. n \in 1 .. Len(log') /\ log'[n] = log[n]
        BY <1>3, <2>1
      <4> QED
        BY <3>2, <4>1 DEF StoredContents
    <3>3. CASE c \in Elsewhere
      BY <3>3 DEF StoredContents
    <3> QED
      BY <3>1, <3>2, <3>3 DEF StoredContents
  <2>3. \A all : FirstOf(all) => FirstOf(all)'
    BY <1>2, <1>3 DEF FirstOf
  <2>4. \A n \in 1 .. Len(log) : Named(log'[n], manifests')
    BY <1>3 DEF StoreKept, Named
  <2> QED
    BY <2>2, <2>3, <2>4
<1>4. ASSUME NEW event, Log(event), log # << >>, manifests \subseteq manifests', Named(event, manifests')
      PROVE  /\ StoreKept' /\ StoredContents \subseteq StoredContents' /\ log' # << >>
             /\ \A all : FirstOf(all) => FirstOf(all)'
  <2>1. /\ Len(log') = Len(log) + 1 /\ log' # << >>
        /\ \A n \in 1 .. Len(log) : log'[n] = log[n]
        /\ log'[Len(log) + 1] = event
    BY <1>1, <1>4 DEF Log
  <2>2. /\ StoredContents \subseteq StoredContents'
        /\ \A all : FirstOf(all) => FirstOf(all)'
        /\ \A n \in 1 .. Len(log) : Named(log'[n], manifests')
    BY <1>2, <1>3, <1>4, <2>1
  <2>3. \A n \in 1 .. Len(log') : Named(log'[n], manifests')
    BY <1>2, <1>4, <2>1, <2>2
  <2> QED
    BY <2>1, <2>2, <2>3 DEF StoreKept
<1>5. ASSUME NEW w \in BOOLEAN, StartRun(w)
      PROVE  /\ StoreKept' /\ StoredContents \subseteq StoredContents' /\ log' # << >>
             /\ \A all : FirstOf(all) => FirstOf(all)'
  <2> DEFINE first == [kind |-> "environment"]
             second == [kind |-> "checkpoint", manifest |-> Capture(tree)]
  <2>1. log = << >> /\ log' = (IF w THEN <<first, second>> ELSE <<first>>)
    BY <1>5 DEF StartRun
  <2>2. Len(log) = 0 /\ Len(log') \in 1 .. 2 /\ log' # << >>
    BY <2>1
  <2>3. manifests = {} /\ manifests' = {Capture(tree)}
    BY <1>5, <2>1 DEF StartRun, StoreKept
  <2>4. Named(first, manifests') /\ Named(second, manifests')
    BY <2>3 DEF Named
  <2>5. \A n \in 1 .. Len(log') : log'[n] \in {first, second}
    BY <2>1
  <2>6. \A n \in 1 .. Len(log') : Named(log'[n], manifests')
    BY <2>4, <2>5
  <2>7. \A n \in 1 .. Len(log) : log'[n] = log[n]
    BY <2>2
  <2>8. /\ StoredContents \subseteq StoredContents'
        /\ \A all : FirstOf(all) => FirstOf(all)'
    BY <1>3, <2>2, <2>3, <2>7
  <2> QED
    BY <2>2, <2>6, <2>8 DEF StoreKept
<1>6. ASSUME NEW w \in BOOLEAN, FinishRun(w)
      PROVE  /\ StoreKept' /\ StoredContents \subseteq StoredContents' /\ log' # << >>
             /\ \A all : FirstOf(all) => FirstOf(all)'
  <2> DEFINE event == [kind |-> "run_finished", workspace |-> w, manifest |-> Capture(tree)]
  <2>1. Log(event) /\ log # << >> /\ manifests' = manifests
    BY <1>6 DEF FinishRun
  <2>2. Named(event, manifests')
    BY DEF Named
  <2> HIDE DEF event
  <2> QED
    BY <1>4, <2>1, <2>2
<1>7. ASSUME NEW kind \in {"model_call", "tool_call"}, NEW request, NEW whole, NEW change, NEW outcome,
             CallRecorded(kind, request, whole, change, outcome)
      PROVE  /\ StoreKept' /\ StoredContents \subseteq StoredContents' /\ log' # << >>
             /\ \A all : FirstOf(all) => FirstOf(all)'
  <2> DEFINE event == [kind |-> kind, request |-> request, whole |-> whole,
                       outcome |-> Stored(outcome), change |-> change, original |-> outcome]
  <2>1. Log(event) /\ log # << >> /\ manifests' = manifests
    BY <1>7 DEF CallRecorded
  <2>2. Named(event, manifests')
    BY DEF Named
  <2> HIDE DEF event
  <2> QED
    BY <1>4, <2>1, <2>2
<1>8. ASSUME NEW change \in Changes, Disturb(change)
      PROVE  /\ StoreKept' /\ StoredContents \subseteq StoredContents' /\ log' # << >>
             /\ \A all : FirstOf(all) => FirstOf(all)'
  <2>1. log' = log /\ manifests' = manifests /\ log # << >>
    BY <1>8 DEF Disturb
  <2>2. /\ StoredContents \subseteq StoredContents'
        /\ \A all : FirstOf(all) => FirstOf(all)'
        /\ \A n \in 1 .. Len(log) : Named(log'[n], manifests')
    BY <1>2, <1>3, <2>1
  <2> QED
    BY <2>1, <2>2 DEF StoreKept
<1>9. ASSUME NEW previous \in manifests, DeltaCaptured(previous)
      PROVE  /\ StoreKept' /\ StoredContents \subseteq StoredContents' /\ log' # << >>
             /\ \A all : FirstOf(all) => FirstOf(all)'
  <2> DEFINE event == [kind |-> "workspace_delta", previous |-> previous,
                       delta |-> Diff(previous, Capture(tree)), current |-> Capture(tree)]
  <2>1. Log(event) /\ log # << >> /\ manifests' = manifests \cup {Capture(tree)}
    BY <1>9 DEF DeltaCaptured
  <2>2. Named(event, manifests')
    <3>1. event.kind = "workspace_delta" /\ event.previous = previous /\ event.current = Capture(tree)
      OBVIOUS
    <3>2. previous \in manifests' /\ Capture(tree) \in manifests'
      BY <2>1
    <3> QED
      BY <3>1, <3>2 DEF Named
  <2> QED
    BY <1>4, <2>1, <2>2
<1> QED
  BY <1>5, <1>6, <1>7, <1>8, <1>9 DEF RunStep

\* What a manifest and a delta name.
LEMMA PayloadNames ==
  ASSUME NEW m
  PROVE  /\ NestedRefs(<<"manifest", m>>) = {FileReference(c) : c \in ContentsOf(m)}
         /\ NestedRefs(<<"delta", m>>) = {FileReference(c) : c \in ContentsOf(m.written)}
         /\ ContentsNamed(NestedRefs(<<"manifest", m>>)) = ContentsOf(m)
         /\ ContentsNamed(NestedRefs(<<"delta", m>>)) = ContentsOf(m.written)
         /\ OnePerContent(NestedRefs(<<"manifest", m>>))
         /\ OnePerContent(NestedRefs(<<"delta", m>>))
<1>1. /\ NestedRefs(<<"manifest", m>>) = {FileReference(c) : c \in ContentsOf(m)}
      /\ NestedRefs(<<"delta", m>>) = {FileReference(c) : c \in ContentsOf(m.written)}
  BY DEF NestedRefs
<1>2. ASSUME NEW S
      PROVE  /\ ContentsNamed({FileReference(c) : c \in S}) = S
             /\ OnePerContent({FileReference(c) : c \in S})
  <2>1. \A c : FileReference(c).content = c
    BY DEF FileReference
  <2> QED
    BY <2>1 DEF ContentsNamed, OnePerContent
<1> QED
  BY <1>1, <1>2

\* The reference to a file that a capture holds is to what is in the store.
LEMMA CapturedStored ==
  ASSUME TypeOK, LogOK, StoreKept, FirstOf(events), NEW r \in CapturedReferences(events)
  PROVE  r.sized /\ r.content \in StoredContents
<1>1. PICK n \in 1 .. Len(events) : ~IsCall(events[n]) /\ r \in NamedBy(events[n])
  BY DEF CapturedReferences, NamedBy
<1>2. n \in 1 .. Len(log) /\ events[n] = log[n]
  BY DEF FirstOf, LogOK
<1> DEFINE event == log[n]
<1>3. ASSUME NEW m, r \in NestedRefs(<<"manifest", m>>)
      PROVE  r.sized /\ r.content \in ContentsOf(m)
  BY <1>3 DEF NestedRefs, FileReference
<1>4. ASSUME NEW d, r \in NestedRefs(<<"delta", d>>)
      PROVE  r.sized /\ r.content \in ContentsOf(d.written)
  BY <1>4 DEF NestedRefs, FileReference
<1>5. NestedRefs(Nothing) = {}
  BY DEF NestedRefs, Nothing
<1>6. ASSUME NEW m \in manifests PROVE ContentsOf(m) \subseteq StoredContents
  BY <1>6 DEF StoredContents
<1>7. CASE event.kind = "checkpoint"
  <2>1. InputOf(event) = Nothing /\ OutputOf(event) = <<"manifest", event.manifest>>
    BY <1>7 DEF InputOf, OutputOf, IsCall
  <2>2. event.manifest \in manifests
    BY <1>2, <1>7 DEF StoreKept, Named
  <2> QED
    BY <1>1, <1>2, <1>3, <1>5, <1>6, <2>1, <2>2 DEF NamedBy
<1>8. CASE event.kind = "workspace_delta"
  <2>1. InputOf(event) = <<"manifest", event.previous>> /\ OutputOf(event) = <<"delta", event.delta>>
    BY <1>8 DEF InputOf, OutputOf, IsCall
  <2>2. /\ event.previous \in manifests /\ event.current \in manifests
        /\ event.delta = Diff(event.previous, event.current)
    BY <1>2, <1>8 DEF StoreKept, Named, TypeOK, WellFormed
  <2>3. ContentsOf(event.delta.written) \subseteq ContentsOf(event.current)
    <3>1. \A p \in Paths : event.delta.written[p] # Absent =>
            event.current[p] # Absent /\ event.delta.written[p] = event.current[p]
      BY <2>2 DEF Diff
    <3> QED
      BY <3>1 DEF ContentsOf
  <2> QED
    BY <1>1, <1>2, <1>3, <1>4, <1>6, <2>1, <2>2, <2>3 DEF NamedBy
<1>9. CASE event.kind = "run_finished"
  <2>1. InputOf(event) = Nothing
        /\ OutputOf(event) = IF event.workspace THEN <<"manifest", event.manifest>> ELSE Nothing
    BY <1>9 DEF InputOf, OutputOf, IsCall
  <2>2. event.workspace /\ r.sized /\ r.content \in ContentsOf(event.manifest)
    BY <1>1, <1>2, <1>3, <1>5, <2>1 DEF NamedBy
  <2> QED
    BY <1>2, <1>9, <2>2 DEF StoredContents
<1>10. CASE event.kind \notin {"checkpoint", "workspace_delta", "run_finished"}
  <2>1. InputOf(event) = Nothing /\ OutputOf(event) = Nothing
    BY <1>1, <1>2, <1>10 DEF InputOf, OutputOf
  <2> QED
    BY <1>1, <1>2, <1>5, <2>1 DEF NamedBy
<1> QED
  BY <1>7, <1>8, <1>9, <1>10

\* What is found at a place is captured or mentioned, each content once.
LEMMA PlaceNames ==
  ASSUME TypeOK, LogOK, FirstOf(events), NEW place \in 1 .. 2 * Len(events)
  PROVE  /\ NestedRefs(PayloadAt(place)) \subseteq MentionedReferences \cup CapturedReferences(events)
         /\ OnePerContent(NestedRefs(PayloadAt(place)))
<1> DEFINE n == (place + 1) \div 2
           event == events[n]
<1>1. n \in 1 .. Len(events)
  BY DEF FirstOf
<1>2. events[n] = log[n] /\ n \in 1 .. Len(log)
  BY <1>1 DEF FirstOf, LogOK
<1>3. WellFormed(event)
  BY <1>2 DEF TypeOK
<1>4. PayloadAt(place) = InputOf(event) \/ PayloadAt(place) = OutputOf(event)
  BY DEF PayloadAt
<1> HIDE DEF n
<1>5. CASE ~IsCall(event)
  <2>1. NestedRefs(PayloadAt(place)) \subseteq CapturedReferences(events)
    BY <1>1, <1>4, <1>5 DEF CapturedReferences
  <2>2. \A m : OnePerContent(NestedRefs(<<"manifest", m>>)) /\ OnePerContent(NestedRefs(<<"delta", m>>))
    BY PayloadNames
  <2>3. OnePerContent(NestedRefs(Nothing))
    BY DEF OnePerContent, NestedRefs, Nothing
  <2>4. /\ InputOf(event) = Nothing \/ \E m : InputOf(event) = <<"manifest", m>>
        /\ OutputOf(event) = Nothing \/ \E m : OutputOf(event) \in {<<"manifest", m>>, <<"delta", m>>}
    BY <1>5 DEF InputOf, OutputOf
  <2> QED
    BY <1>4, <2>1, <2>2, <2>3, <2>4
<1>6. CASE IsCall(event)
  <2>1. event.request \in Requests /\ InputOf(event) = <<"value", event.request>>
    BY <1>3, <1>6 DEF WellFormed, IsCall, InputOf
  <2>2. \/ OutputOf(event) = Nothing
        \/ event.outcome \in Results /\ OutputOf(event) = <<"value", event.outcome>>
    <3>1. event.kind \notin {"checkpoint", "workspace_delta", "run_finished"}
      BY <1>6 DEF IsCall
    <3>2. CASE event.outcome \in Results
      BY <1>6, <3>1, <3>2 DEF OutputOf
    <3>3. CASE event.outcome \notin Results
      BY <3>1, <3>3 DEF OutputOf
    <3> QED
      BY <3>2, <3>3
  <2>3. ASSUME NEW v \in DOMAIN Mentions
        PROVE  /\ NestedRefs(<<"value", v>>) \subseteq MentionedReferences
               /\ OnePerContent(NestedRefs(<<"value", v>>))
    <3>1. NestedRefs(<<"value", v>>) = ValueReferences(v)
      BY DEF NestedRefs
    <3> QED
      BY <3>1, BundleAssumption DEF MentionedReferences, ValueReferences, OnePerContent
  <2>4. NestedRefs(Nothing) = {}
    BY DEF NestedRefs, Nothing
  <2> QED
    BY <1>4, <2>1, <2>2, <2>3, <2>4, BundleAssumption DEF OnePerContent
<1> QED
  BY <1>5, <1>6

\* What a payload names is found once it is searched, and nothing else.
LEMMA FindAdds ==
  ASSUME NEW payload, NEW rest, Find(payload, rest),
         OnePerContent(references), OnePerContent(NestedRefs(payload))
  PROVE  /\ references \subseteq references' /\ references' \subseteq references \cup NestedRefs(payload)
         /\ ContentsNamed(NestedRefs(payload)) \subseteq ContentsNamed(references')
         /\ ContentsNamed(references) \subseteq ContentsNamed(references')
         /\ OnePerContent(references')
<1>1. references' = references \cup {r \in NestedRefs(payload) :
                                     r.content \notin {q.content : q \in references}}
  BY DEF Find
<1> QED
  BY <1>1 DEF ContentsNamed, OnePerContent

\* What recording does leaves what was read and written as it should be.
LEMMA ExportBesideRun ==
  ASSUME TypeOK, LogOK, StoreKept, ReadKept, SearchKept, ArchiveKept, StageKept,
         RunStep, UNCHANGED bundleVars
  PROVE  StoreKept' /\ ReadKept' /\ SearchKept' /\ ArchiveKept' /\ StageKept'
<1>1. /\ StoreKept' /\ StoredContents \subseteq StoredContents' /\ log' # << >>
      /\ \A all : FirstOf(all) => FirstOf(all)'
  BY RunAdds
<1>2. /\ stage' = stage /\ row' = row /\ events' = events
      /\ lost' = lost /\ archive' = archive /\ left' = left /\ references' = references
  BY DEF bundleVars, found
<1>3. FirstOf(events)' /\ FirstOf(archive.events)'
  <2>1. FirstOf(events) /\ FirstOf(archive.events)
    BY DEF ReadKept, ArchiveKept
  <2> QED
    BY <1>1, <1>2, <2>1 DEF FirstOf
<1>4. Len(log) <= Len(log') /\ Len(log) \in Nat /\ Len(log') \in Nat
  <2>1. FirstOf(log)
    BY DEF FirstOf, LogOK
  <2>2. Len(log') \in Nat
    BY RunStepTypes DEF RunTypes
  <2> QED
    BY <2>2, RunStepTypes DEF LogOK
<1>5. ReadKept'
  BY <1>1, <1>2, <1>3, <1>4 DEF ReadKept
<1>6. SearchKept'
  BY <1>2 DEF SearchKept, PayloadAt
<1>7. ArchiveKept'
  BY <1>2, <1>3 DEF ArchiveKept, DeclaredContents
<1>8. StageKept'
  BY <1>1, <1>2 DEF StageKept, Inspected, Unwritable, DeclaredContents, Readable
<1> QED
  BY <1>1, <1>5, <1>6, <1>7, <1>8

\* The search goes on.
LEMMA SearchSteps ==
  ASSUME TypeOK, LogOK, ReadKept, SearchKept, Search \/ SearchNested
  PROVE  SearchKept'
<1>1. /\ stage = "searching" /\ stage' = stage /\ events' = events
      /\ Len(events) \in Nat /\ left \in 0 .. 2 * Len(events)
  BY DEF Search, SearchNested, SearchKept, ReadKept, FirstOf
<1>2. \A place : PayloadAt(place)' = PayloadAt(place)
  BY <1>1 DEF PayloadAt
<1> DEFINE Done(place, refs, n) ==
             \/ ContentsNamed(NestedRefs(PayloadAt(place))) \subseteq ContentsNamed(refs)
             \/ \E further \in 1 .. n : PayloadAt(further) = PayloadAt(place)
<1>3. \A place \in 1 .. 2 * Len(events) : Done(place, references, left)
  BY <1>1 DEF SearchKept
<1>4. SUFFICES /\ left' \in 0 .. 2 * Len(events)
               /\ \A place \in 1 .. 2 * Len(events) : Done(place, references', left')
               /\ references' \subseteq MentionedReferences \cup CapturedReferences(events)
               /\ OnePerContent(references')
  BY <1>1, <1>2 DEF SearchKept
<1>5. CASE SearchNested
  <2>1. PICK v \in DOMAIN Mentions, rest \in {SubSeq(nested, 1, Len(nested) - 1)} :
          Find(<<"value", v>>, rest) /\ left' = left
    BY <1>5 DEF SearchNested
  <2>2. NestedRefs(<<"value", v>>) = ValueReferences(v)
    BY DEF NestedRefs
  <2>3. /\ OnePerContent(NestedRefs(<<"value", v>>))
        /\ NestedRefs(<<"value", v>>) \subseteq MentionedReferences
    BY <2>2, BundleAssumption DEF MentionedReferences, ValueReferences, OnePerContent
  <2>4. /\ references \subseteq references' /\ references' \subseteq references \cup NestedRefs(<<"value", v>>)
        /\ ContentsNamed(references) \subseteq ContentsNamed(references')
        /\ OnePerContent(references')
    BY <1>1, <2>1, <2>3, FindAdds DEF SearchKept
  <2> QED
    BY <1>1, <1>3, <2>1, <2>3, <2>4 DEF SearchKept
<1>6. CASE Search
  <2>1. left > 0 /\ left' = left - 1 /\ left' \in 0 .. 2 * Len(events) /\ left \in 1 .. 2 * Len(events)
    BY <1>1, <1>6 DEF Search
  <2>2. ASSUME NEW again \in 1 .. left - 1, PayloadAt(again) = PayloadAt(left),
               references' = references
        PROVE  \A place \in 1 .. 2 * Len(events) : Done(place, references', left')
    <3>1. \A further \in 1 .. left : further \in 1 .. left - 1 \/ further = left
      BY <2>1
    <3> QED
      BY <1>3, <2>1, <2>2, <3>1
  <2>3. CASE \E place \in 1 .. left - 1 : PayloadAt(place) = PayloadAt(left)
    <3>1. references' = references
      BY <1>6, <2>3 DEF Search
    <3> QED
      BY <1>1, <2>1, <2>2, <2>3, <3>1 DEF SearchKept
  <2>4. CASE ~\E place \in 1 .. left - 1 : PayloadAt(place) = PayloadAt(left)
    <3>1. Find(PayloadAt(left), << >>)
      BY <1>6, <2>4 DEF Search
    <3>2. /\ NestedRefs(PayloadAt(left)) \subseteq MentionedReferences \cup CapturedReferences(events)
          /\ OnePerContent(NestedRefs(PayloadAt(left)))
      BY <2>1, PlaceNames DEF ReadKept
    <3>3. /\ references' \subseteq references \cup NestedRefs(PayloadAt(left))
          /\ ContentsNamed(NestedRefs(PayloadAt(left))) \subseteq ContentsNamed(references')
          /\ ContentsNamed(references) \subseteq ContentsNamed(references')
          /\ OnePerContent(references')
      BY <1>1, <3>1, <3>2, FindAdds DEF SearchKept
    <3>4. \A further \in 1 .. left : further \in 1 .. left - 1 \/ further = left
      BY <2>1
    <3>5. ASSUME NEW place \in 1 .. 2 * Len(events) PROVE Done(place, references', left')
      BY <1>3, <2>1, <3>3, <3>4
    <3> QED
      BY <1>1, <2>1, <3>2, <3>3, <3>5 DEF SearchKept
  <2> QED
    BY <2>3, <2>4
<1> QED
  BY <1>5, <1>6

\* When nothing is left to search, what every event names has been found.
LEMMA AllFound ==
  ASSUME ReadKept, SearchKept, stage = "searching", left = 0, NEW n \in 1 .. Len(events)
  PROVE  ContentsNamed(NamedBy(events[n])) \subseteq ContentsNamed(references)
<1>1. Len(events) \in Nat
  BY DEF ReadKept, FirstOf
<1>2. 2 * n - 1 \in 1 .. 2 * Len(events) /\ 2 * n \in 1 .. 2 * Len(events)
  BY <1>1
<1>3. ((2 * n - 1) + 1) \div 2 = n /\ (2 * n - 1) % 2 = 1
  BY <1>1
<1>4. (2 * n + 1) \div 2 = n /\ (2 * n) % 2 # 1
  BY <1>1
<1>5. PayloadAt(2 * n - 1) = InputOf(events[n])
  BY <1>3 DEF PayloadAt
<1>6. PayloadAt(2 * n) = OutputOf(events[n])
  BY <1>4 DEF PayloadAt
<1>7. /\ ContentsNamed(NestedRefs(InputOf(events[n]))) \subseteq ContentsNamed(references)
      /\ ContentsNamed(NestedRefs(OutputOf(events[n]))) \subseteq ContentsNamed(references)
  BY <1>2, <1>5, <1>6 DEF SearchKept
<1> QED
  BY <1>7 DEF ContentsNamed, NamedBy

LEMMA ExportSteps ==
  ASSUME TypeOK, LogOK, StoreKept, ReadKept, SearchKept, ArchiveKept, StageKept,
         ExportStep, UNCHANGED runVars
  PROVE  StoreKept' /\ ReadKept' /\ SearchKept' /\ ArchiveKept' /\ StageKept'
<1>1. /\ log' = log /\ manifests' = manifests /\ StoredContents' = StoredContents
      /\ StoreKept' /\ \A all : FirstOf(all)' <=> FirstOf(all)
  BY DEF runVars, StoredContents, StoreKept, FirstOf
<1>2. Len(log) \in Nat /\ FirstOf(log)
  BY DEF LogOK, FirstOf
<1>3. ASSUME archive' = archive, stage' \notin {"writing", "exported", "unwritten"}
      PROVE  ArchiveKept' /\ StageKept'
  BY <1>1, <1>3 DEF ArchiveKept, DeclaredContents, FirstOf, StageKept
<1>4. ASSUME NEW unreadable \in Losses, ReadRow(unreadable)
      PROVE  ReadKept' /\ SearchKept' /\ ArchiveKept' /\ StageKept'
  <2>1. /\ stage' = "row" /\ row' = Len(log) /\ events' = events /\ archive' = archive
        /\ log # << >>
    BY <1>4 DEF ReadRow
  <2>2. ReadKept' /\ SearchKept'
    BY <1>1, <1>2, <2>1 DEF ReadKept, SearchKept, FirstOf
  <2> QED
    BY <1>3, <2>1, <2>2
<1>5. CASE ReadEvents
  <2>1. /\ stage = "row" /\ stage' = "searching" /\ events' = log
        /\ row' = row /\ archive' = archive /\ left' = 2 * Len(log) /\ references' = {}
    BY <1>5 DEF ReadEvents
  <2>2. FirstOf(events)'
    BY <1>1, <1>2, <2>1 DEF FirstOf
  <2>3. ReadKept'
    BY <1>1, <2>1, <2>2 DEF ReadKept
  <2>4. SearchKept'
    BY <1>2, <2>1 DEF SearchKept, OnePerContent
  <2> QED
    BY <1>1, <1>3, <2>1, <2>3, <2>4
<1>6. CASE Search \/ SearchNested
  <2>1. stage' = "searching" /\ stage = "searching" /\ UNCHANGED <<row, events, archive>>
    BY <1>6 DEF Search, SearchNested
  <2>2. ReadKept'
    BY <1>1, <2>1 DEF ReadKept, FirstOf
  <2> QED
    BY <1>1, <1>3, <1>6, <2>1, <2>2, SearchSteps
<1>7. CASE SearchFails
  <2>1. stage = "searching" /\ stage' = "unsearched" /\ UNCHANGED <<row, events, archive>>
    BY <1>7 DEF SearchFails
  <2>2. ReadKept' /\ SearchKept'
    BY <1>1, <2>1 DEF ReadKept, SearchKept, FirstOf
  <2> QED
    BY <1>1, <1>3, <2>1, <2>2
<1>8. CASE Open
  <2>1. /\ stage = "searching" /\ left = 0 /\ stage' = "writing"
        /\ archive' = [row |-> row, events |-> events, blobs |-> {},
                       declared |-> references, closed |-> FALSE]
        /\ row' = row /\ events' = events
    BY <1>8 DEF Open
  <2>2. /\ archive'.row = row /\ archive'.events = events /\ archive'.blobs = {}
        /\ archive'.declared = references /\ archive'.closed = FALSE
    BY <2>1
  <2>3. ReadKept' /\ SearchKept'
    BY <1>1, <2>1 DEF ReadKept, SearchKept, FirstOf
  <2>4. DeclaredContents' = ContentsNamed(references)
    BY <2>2 DEF DeclaredContents, ContentsNamed
  <2>5. \A n \in 1 .. Len(events) : ContentsNamed(NamedBy(events[n])) \subseteq ContentsNamed(references)
    BY <2>1, AllFound
  <2>6. ArchiveKept'
    BY <1>1, <2>1, <2>2, <2>4, <2>5 DEF ArchiveKept, ReadKept, SearchKept, FirstOf
  <2> QED
    BY <1>1, <2>1, <2>2, <2>3, <2>6 DEF StageKept
<1>9. CASE Close
  <2>1. /\ stage = "writing" /\ stage' = "exported" /\ archive.blobs = DeclaredContents
        /\ archive' = [archive EXCEPT !.closed = TRUE]
        /\ row' = row /\ events' = events /\ lost' = lost
    BY <1>9 DEF Close
  <2>2. /\ archive'.row = archive.row /\ archive'.events = archive.events
        /\ archive'.blobs = archive.blobs /\ archive'.declared = archive.declared
        /\ archive'.closed = TRUE
        /\ archive' = [row |-> archive'.row, events |-> archive'.events, blobs |-> archive'.blobs,
                       declared |-> archive'.declared, closed |-> archive'.closed]
    BY <2>1 DEF ArchiveKept
  <2>3. ReadKept' /\ SearchKept'
    BY <1>1, <2>1 DEF ReadKept, SearchKept, FirstOf
  <2>4. ArchiveKept'
    BY <1>1, <2>1, <2>2 DEF ArchiveKept, DeclaredContents, FirstOf
  <2>5. StageKept'
    BY <1>1, <2>1, <2>2 DEF StageKept, Inspected, DeclaredContents, Readable
  <2> QED
    BY <1>1, <2>3, <2>4, <2>5
<1>10. ASSUME NEW r \in archive.declared, AddBlob(r)
       PROVE  ReadKept' /\ SearchKept' /\ ArchiveKept' /\ StageKept'
  <2>1. /\ stage = "writing" /\ stage' \in {"writing", "unwritten"} /\ r.content \notin archive.blobs
        /\ row' = row /\ events' = events /\ lost' = lost
        /\ archive.events = events
    BY <1>10 DEF AddBlob, ArchiveKept
  <2>2. ReadKept' /\ SearchKept'
    BY <1>1, <2>1 DEF ReadKept, SearchKept, FirstOf
  <2>3. CASE Readable(r)
    <3>1. stage' = "writing" /\ archive' = [archive EXCEPT !.blobs = @ \cup {r.content}]
      BY <1>10, <2>1, <2>3 DEF AddBlob
    <3>2. /\ archive'.row = archive.row /\ archive'.events = archive.events
          /\ archive'.blobs = archive.blobs \cup {r.content}
          /\ archive'.declared = archive.declared /\ archive'.closed = archive.closed
          /\ archive' = [row |-> archive'.row, events |-> archive'.events,
                         blobs |-> archive'.blobs, declared |-> archive'.declared,
                         closed |-> archive'.closed]
      BY <3>1 DEF ArchiveKept
    <3>3. ArchiveKept'
      BY <1>1, <2>1, <3>1, <3>2 DEF ArchiveKept, DeclaredContents, FirstOf
    <3>4. \A q \in archive.declared : q.content \in archive'.blobs => Readable(q)
      BY <2>1, <2>3, <3>2 DEF StageKept, ArchiveKept, OnePerContent
    <3>5. StageKept'
      BY <1>1, <2>1, <3>1, <3>2, <3>4 DEF StageKept, Readable
    <3> QED
      BY <2>2, <3>3, <3>5
  <2>4. CASE ~Readable(r)
    <3>1. stage' = "unwritten" /\ archive' = [archive EXCEPT !.closed = TRUE]
      BY <1>10, <2>4 DEF AddBlob
    <3>2. /\ archive'.row = archive.row /\ archive'.events = archive.events
          /\ archive'.blobs = archive.blobs /\ archive'.declared = archive.declared
          /\ archive' = [row |-> archive'.row, events |-> archive'.events,
                         blobs |-> archive'.blobs, declared |-> archive'.declared,
                         closed |-> archive'.closed]
      BY <3>1 DEF ArchiveKept
    <3>3. ArchiveKept'
      BY <1>1, <2>1, <3>1, <3>2 DEF ArchiveKept, DeclaredContents, FirstOf
    <3>4. r.content \in lost \/ r \in MentionedReferences \ CapturedReferences(events)
      BY <2>1, <2>4, CapturedStored DEF Readable, ArchiveKept, ReadKept
    <3>5. Unwritable'
      BY <2>1, <3>2, <3>4 DEF Unwritable
    <3> QED
      BY <2>2, <3>1, <3>3, <3>5 DEF StageKept
  <2> QED
    BY <2>3, <2>4
<1> QED
  BY <1>1, <1>4, <1>5, <1>6, <1>7, <1>8, <1>9, <1>10 DEF ExportStep

LEMMA InitEInv == ReadersInit => EInv
<1> SUFFICES ASSUME ReadersInit PROVE EInv
  OBVIOUS
<1>1. log = << >> /\ Len(log) = 0 /\ manifests = {}
  BY DEF ReadersInit, RunInit
<1>2. stage = "idle" /\ row = 0 /\ events = << >> /\ archive = NoArchive
  BY DEF ReadersInit, BundleInit
<1>3. FirstOf(<< >>)
  BY <1>1 DEF FirstOf
<1>4. /\ archive.row = 0 /\ archive.events = << >> /\ archive.blobs = {}
      /\ archive.declared = {} /\ archive.closed = FALSE
  BY <1>2 DEF NoArchive
<1>5. IInv
  BY InitIInv DEF ReadersInit
<1>6. StoreKept /\ ReadKept /\ SearchKept /\ ArchiveKept /\ StageKept
  BY <1>1, <1>2, <1>3, <1>4
  DEF StoreKept, ReadKept, SearchKept, ArchiveKept, StageKept, NoArchive, OnePerContent
<1> QED
  BY <1>5, <1>6 DEF EInv

LEMMA StepEInv == EInv /\ [ReadersNext]_<<runVars, replayVars, bundleVars>> => EInv'
<1> SUFFICES ASSUME EInv, [ReadersNext]_<<runVars, replayVars, bundleVars>> PROVE EInv'
  OBVIOUS
<1>1. /\ TypeOK /\ LogOK /\ StoreKept /\ ReadKept /\ SearchKept /\ ArchiveKept
      /\ StageKept /\ IInv
  BY DEF EInv, IInv
<1>2. IInv'
  <2>1. [ReplayNext]_<<runVars, replayVars>>
    BY DEF ReadersNext, BundleNext, ReplayNext, Record
  <2> QED
    BY <1>1, <2>1, StepIInv
<1>3. CASE RunStep /\ UNCHANGED bundleVars
  BY <1>1, <1>2, <1>3, ExportBesideRun DEF EInv
<1>4. CASE ExportStep /\ UNCHANGED runVars
  BY <1>1, <1>2, <1>4, ExportSteps DEF EInv
<1>5. CASE UNCHANGED <<runVars, bundleVars>>
  <2>1. StoreKept' /\ ReadKept' /\ SearchKept'
    BY <1>1, <1>5 DEF runVars, bundleVars, found, StoreKept, ReadKept, SearchKept, PayloadAt, FirstOf
  <2>2. ArchiveKept'
    BY <1>1, <1>5 DEF runVars, bundleVars, ArchiveKept, FirstOf, DeclaredContents
  <2>3. StageKept'
    BY <1>1, <1>5
    DEF runVars, bundleVars, StageKept, StoredContents, Inspected, Unwritable, DeclaredContents,
        Readable
  <2> QED
    BY <1>2, <2>1, <2>2, <2>3 DEF EInv
<1> QED
  BY <1>3, <1>4, <1>5 DEF ReadersNext, BundleNext, ReplayNext, Record, Replays

\* What export_trace finds named in an event is what a replay reads of it, and all that
\* the event had captured: what a delta leaves out, its first manifest names.
LEMMA NestedSuffice ==
  ASSUME NEW event, WellFormed(event)
  PROVE  /\ ReplayReads(event) \subseteq ContentsNamed(NamedBy(event))
         /\ Captures(event) => ContentsOf(CapturedBy(event)) \subseteq ContentsNamed(NamedBy(event))
<1>1. \A m : ContentsOf(m) \subseteq ContentsNamed(NestedRefs(<<"manifest", m>>))
  BY PayloadNames
<1>2. \A d : ContentsOf(d.written) \subseteq ContentsNamed(NestedRefs(<<"delta", d>>))
  BY PayloadNames
<1>3. /\ ContentsNamed(NestedRefs(InputOf(event))) \subseteq ContentsNamed(NamedBy(event))
      /\ ContentsNamed(NestedRefs(OutputOf(event))) \subseteq ContentsNamed(NamedBy(event))
  BY DEF ContentsNamed, NamedBy
<1>4. CASE event.kind = "checkpoint"
  <2>1. OutputOf(event) = <<"manifest", event.manifest>>
    BY <1>4 DEF OutputOf, IsCall
  <2> QED
    BY <1>1, <1>3, <1>4, <2>1 DEF ReplayReads, CapturedBy
<1>5. CASE event.kind = "workspace_delta"
  <2> DEFINE before == event.previous
             after == event.current
             written == event.delta.written
  <2>1. before \in Manifests /\ after \in Manifests /\ event.delta = Diff(before, after)
    BY <1>5 DEF WellFormed
  <2>2. InputOf(event) = <<"manifest", before>> /\ OutputOf(event) = <<"delta", event.delta>>
    BY <1>5 DEF InputOf, OutputOf, IsCall
  <2>3. ContentsOf(before) \cup ContentsOf(written) \subseteq ContentsNamed(NamedBy(event))
    BY <1>1, <1>2, <1>3, <2>2
  <2>4. ASSUME NEW p \in Paths, after[p] # Absent
        PROVE  after[p].content \in ContentsOf(before) \cup ContentsOf(written)
    <3>1. CASE written[p] # Absent
      <4>1. written[p] = after[p]
        BY <2>1, <3>1 DEF Diff
      <4> QED
        BY <3>1, <4>1 DEF ContentsOf
    <3>2. CASE written[p] = Absent
      <4>1. ~Modified(before[p], after[p])
        BY <2>1, <2>4, <3>2 DEF Diff
      <4>2. IsEntry(after[p]) /\ ~IsEntry(Absent)
        BY <2>1, <2>4, CapturedApart DEF IsEntry, Absent
      <4>3. before[p] # Absent /\ before[p].content = after[p].content
        BY <4>1, <4>2 DEF Modified, IsEntry
      <4> QED
        BY <4>3 DEF ContentsOf
    <3> QED
      BY <3>1, <3>2
  <2>5. ContentsOf(after) \subseteq ContentsNamed(NamedBy(event))
    BY <2>3, <2>4 DEF ContentsOf
  <2> QED
    BY <1>5, <2>3, <2>5 DEF ReplayReads, CapturedBy
<1>6. CASE event.kind \notin {"checkpoint", "workspace_delta"}
  BY <1>6 DEF ReplayReads, Captures
<1> QED
  BY <1>4, <1>5, <1>6

\* For any paths, entries, requests, results and losses: a bundle that inspect_bundle returns
\* holds every file that a replay of its events reads and every file that the run
\* captured, and never counts more events than it holds.
THEOREM BundlesReplay == ReadersSpec => []BundleReplays
<1>1. EInv => BundleReplays
  <2> SUFFICES ASSUME EInv, Inspected PROVE BundleReplays
    BY DEF BundleReplays
  <2>1. /\ archive.row \in Nat /\ Len(archive.events) \in Nat
        /\ archive.row <= Len(archive.events)
        /\ DeclaredContents \subseteq archive.blobs
    BY DEF EInv, ArchiveKept, FirstOf, Inspected
  <2>2. ASSUME NEW n \in 1 .. Len(archive.events)
        PROVE  /\ ReplayReads(archive.events[n]) \subseteq archive.blobs
               /\ Captures(archive.events[n]) =>
                    ContentsOf(CapturedBy(archive.events[n])) \subseteq archive.blobs
    <3>1. ContentsNamed(NamedBy(archive.events[n])) \subseteq archive.blobs
      BY <2>1 DEF EInv, ArchiveKept
    <3>2. n \in 1 .. Len(log) /\ archive.events[n] = log[n]
      BY <2>1 DEF EInv, IInv, LogOK, ArchiveKept, FirstOf
    <3>3. WellFormed(archive.events[n])
      BY <3>2 DEF EInv, IInv, TypeOK
    <3> QED
      BY <3>1, <3>3, NestedSuffice
  <2>3. BundleVerified \/ archive.row < Len(archive.events)
    BY <2>1 DEF BundleVerified
  <2> QED
    BY <2>2, <2>3 DEF BundleReplays
<1> QED
  BY InitEInv, StepEInv, <1>1, PTL DEF ReadersSpec

\* For any requests, results and losses: an export that begins to write fails only on a lost
\* blob or on a reference that a request, a result or a content they name holds and no
\* capture does, and leaves what inspect_bundle refuses.
THEOREM ExportsFail == ReadersSpec => []ExportFailsExactly
<1>1. EInv => ExportFailsExactly
  <2> SUFFICES ASSUME EInv PROVE ExportFailsExactly
    OBVIOUS
  <2>1. stage = "unwritten" => Unwritable
    BY DEF EInv, StageKept
  <2>2. Unwritable => ~Inspected
    BY DEF Unwritable, Inspected, DeclaredContents
  <2>3. stage = "exported" => Inspected /\ \A r \in archive.declared : Readable(r)
    BY DEF EInv, StageKept, Inspected, DeclaredContents
  <2> QED
    BY <2>1, <2>2, <2>3 DEF ExportFailsExactly, Unwritable, Readable
<1> QED
  BY InitEInv, StepEInv, <1>1, PTL DEF ReadersSpec
=============================================================================
