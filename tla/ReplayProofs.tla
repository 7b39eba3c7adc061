---------------------------- MODULE ReplayProofs ----------------------------
(***************************************************************************)
(* For any paths, entries, changes and bounds: applying a delta to a tree  *)
(* that was captured as its first manifest makes a tree that is captured   *)
(* as its second one, and so a replay holds at every event what the run    *)
(* had captured then.                                                      *)
(***************************************************************************)
EXTENDS Readers, WellFoundedInduction, TLAPS

\* What is in a directory is not captured as a file too (capture_workspace lists
\* directories only for what is in them).
LEMMA CapturedApart ==
  ASSUME NEW m \in Manifests
  PROVE  /\ m \in [Paths -> Entries \cup {Absent}]
         /\ \A p \in Paths : m[p] # Absent =>
              IsEntry(m[p]) /\ \A q \in Ancestors[p] : q \in Paths /\ m[q] = Absent
<1>1. PICK t \in Trees : m = Capture(t)
  BY DEF Manifests
<1>2. \A p \in Paths : t[p] \in Entries \cup {Absent, Directory} /\ Ancestors[p] \subseteq Paths
  BY PathsAssumption DEF Trees
<1>3. ~IsEntry(Absent) /\ ~IsEntry(Directory)
  BY DEF IsEntry, Absent, Directory
<1>4. \A p \in Paths : IsEntry(t[p]) => t[p] \in Entries /\ t[p] # Absent
  BY <1>2, <1>3
<1>5. \A p \in Paths : IsEntry(t[p]) => \A q \in Ancestors[p] : t[q] = Directory
  BY <1>4 DEF Trees
<1> QED
  BY <1>1, <1>2, <1>3, <1>4, <1>5 DEF Capture

LEMMA CaptureIsManifest ==
  ASSUME NEW t \in Trees PROVE Capture(t) \in Manifests
  BY DEF Manifests

\* Entries of a manifest written into a tree, where nothing is in their way, leave a
\* tree; what it is captured as is the entries, and otherwise what was there.
LEMMA WrittenIsTree ==
  ASSUME NEW m \in Manifests, NEW t \in Trees,
         NEW w \in [Paths -> Entries \cup {Absent}],
         \A p \in Paths : w[p] # Absent => w[p] = m[p],
         \A p \in Paths : w[p] # Absent =>
           t[p] # Directory /\ \A q \in Ancestors[p] : ~IsEntry(t[q])
  PROVE  /\ Written(w, t) \in Trees
         /\ \A p \in Paths :
              Capture(Written(w, t))[p] =
                IF w[p] # Absent THEN w[p]
                ELSE IF \E r \in Paths : w[r] # Absent /\ p \in Ancestors[r] THEN Absent
                ELSE Capture(t)[p]
<1> DEFINE r == Written(w, t)
<1>1. \A p \in Paths : Ancestors[p] \subseteq Paths /\ p \notin Ancestors[p]
  BY PathsAssumption
<1>2. \A p \in Paths : w[p] # Absent =>
        IsEntry(w[p]) /\ \A q \in Ancestors[p] : w[q] = Absent
  BY <1>1, CapturedApart
<1>3. \A p \in Paths : r[p] \in Entries \cup {Absent, Directory}
  BY DEF Written, Trees
<1>4. ASSUME NEW p \in Paths, r[p] # Absent, NEW q \in Ancestors[p]
      PROVE  r[q] = Directory
  <2>1. q \in Paths
    BY <1>1
  <2>2. CASE w[p] # Absent
    BY <2>1, <2>2, <1>2 DEF Written
  <2>3. ASSUME w[p] = Absent, NEW s \in Paths, w[s] # Absent, p \in Ancestors[s]
        PROVE  r[q] = Directory
    <3>1. q \in Ancestors[s]
      BY <2>3, PathsAssumption
    <3> QED
      BY <2>1, <2>3, <3>1, <1>2 DEF Written
  <2>4. CASE w[p] = Absent /\ ~\E s \in Paths : w[s] # Absent /\ p \in Ancestors[s]
    <3>1. r[p] = t[p] /\ t[q] = Directory
      BY <1>4, <2>1, <2>4 DEF Written, Trees
    <3> QED
      BY <2>1, <3>1 DEF Written
  <2> QED
    BY <2>2, <2>3, <2>4
<1>5. r \in [Paths -> Entries \cup {Absent, Directory}]
  BY <1>3 DEF Written
<1>6. ~IsEntry(Directory)
  BY DEF IsEntry, Directory
<1> QED
  BY <1>2, <1>4, <1>5, <1>6 DEF Trees, Written, Capture

\* restore_workspace, then capture_workspace: the manifest again.
LEMMA RestoreCaptures ==
  ASSUME NEW m \in Manifests
  PROVE  /\ EmptyTree \in Trees
         /\ Restore(m, EmptyTree) \in Trees
         /\ Capture(Restore(m, EmptyTree)) = m
<1>1. EmptyTree \in Trees /\ \A p \in Paths : EmptyTree[p] = Absent
  BY DEF EmptyTree, Trees
<1>2. Absent # Directory /\ ~IsEntry(Absent)
  BY DEF Absent, Directory, IsEntry
<1>3. m \in [Paths -> Entries \cup {Absent}]
  BY CapturedApart
<1>4. \A p \in Paths : m[p] # Absent =>
        EmptyTree[p] # Directory /\ \A q \in Ancestors[p] : ~IsEntry(EmptyTree[q])
  BY <1>1, <1>2, PathsAssumption
<1>5. /\ Written(m, EmptyTree) \in Trees
      /\ \A p \in Paths :
           Capture(Written(m, EmptyTree))[p] =
             IF m[p] # Absent THEN m[p]
             ELSE IF \E r \in Paths : m[r] # Absent /\ p \in Ancestors[r] THEN Absent
             ELSE Capture(EmptyTree)[p]
  BY <1>1, <1>3, <1>4, WrittenIsTree
<1>6. \A p \in Paths : Capture(EmptyTree)[p] = Absent
  BY <1>1 DEF Capture
<1>7. \A p \in Paths : Capture(Written(m, EmptyTree))[p] = m[p]
  BY <1>5, <1>6
<1> QED
  BY <1>1, <1>3, <1>5, <1>7 DEF Restore, Capture

\* diff_manifests, then apply_delta, to any tree in which apply_delta does not raise:
\* a tree again.
LEMMA ApplyIsTree ==
  ASSUME NEW a \in Manifests, NEW b \in Manifests, NEW t \in Trees, CanApply(Diff(a, b), t)
  PROVE  /\ Unlinked(Diff(a, b), t) \in Trees
         /\ Apply(Diff(a, b), t) \in Trees
         /\ \A p \in Paths :
              Capture(Apply(Diff(a, b), t))[p] =
                IF Diff(a, b).written[p] # Absent THEN Diff(a, b).written[p]
                ELSE IF \E r \in Paths : Diff(a, b).written[r] # Absent /\ p \in Ancestors[r]
                     THEN Absent
                ELSE Capture(Unlinked(Diff(a, b), t))[p]
<1> DEFINE unlinked == Unlinked(Diff(a, b), t)
           w == Diff(a, b).written
<1>1. unlinked \in Trees
  <2>1. unlinked \in [Paths -> Entries \cup {Absent, Directory}]
    BY DEF Unlinked, Trees
  <2>2. ~IsEntry(Directory)
    BY DEF IsEntry, Directory
  <2>3. \A p \in Paths : unlinked[p] # Absent =>
          t[p] # Absent /\ \A q \in Ancestors[p] : q \in Paths /\ t[q] = Directory
    BY PathsAssumption DEF Unlinked, Trees
  <2> QED
    BY <2>1, <2>2, <2>3 DEF Unlinked, Trees
<1>2. w \in [Paths -> Entries \cup {Absent}] /\ \A p \in Paths : w[p] # Absent => w[p] = b[p]
  BY CapturedApart DEF Diff
<1>3. \A p \in Paths : w[p] # Absent =>
        unlinked[p] # Directory /\ \A q \in Ancestors[p] : ~IsEntry(unlinked[q])
  BY DEF CanApply
<1> QED
  BY <1>1, <1>2, <1>3, WrittenIsTree DEF Apply

\* And when the tree was captured as the first manifest, it is now as the second.
LEMMA ApplyCaptures ==
  ASSUME NEW a \in Manifests, NEW b \in Manifests, NEW t \in Trees, Capture(t) = a,
         CanApply(Diff(a, b), t)
  PROVE  Capture(Apply(Diff(a, b), t)) = b
<1> DEFINE unlinked == Unlinked(Diff(a, b), t)
           w == Diff(a, b).written
           r == Apply(Diff(a, b), t)
<1>1. ~IsEntry(Absent) /\ ~IsEntry(Directory)
  BY DEF IsEntry, Absent, Directory
<1>2. /\ \A p \in Paths : a[p] \in Entries \cup {Absent} /\ b[p] \in Entries \cup {Absent}
      /\ \A p \in Paths : b[p] # Absent => \A q \in Ancestors[p] : b[q] = Absent
      /\ \A p \in Paths : a[p] # Absent => IsEntry(a[p])
      /\ \A p \in Paths : b[p] # Absent => IsEntry(b[p])
      /\ b = [p \in Paths |-> b[p]]
  BY CapturedApart
<1>3. \A p \in Paths : w[p] # Absent => w[p] = b[p]
  BY DEF Diff
<1>4. \A p \in Paths : w[p] = Absent => b[p] = Absent \/ b[p] = a[p]
  <2> SUFFICES ASSUME NEW p \in Paths, w[p] = Absent, b[p] # Absent PROVE b[p] = a[p]
    OBVIOUS
  <2>1. ~Modified(a[p], b[p])
    BY DEF Diff
  <2>2. a[p] # Absent
    BY <2>1, <1>1, <1>2 DEF Modified, IsEntry
  <2> QED
    BY <2>1, <2>2, <1>2, EntriesAssumption DEF Modified
<1>5. ASSUME NEW p \in Paths, w[p] = Absent PROVE Capture(unlinked)[p] = b[p]
  <2>1. Capture(unlinked)[p] = IF IsEntry(unlinked[p]) THEN unlinked[p] ELSE Absent
    BY DEF Capture
  <2>2. a[p] = IF IsEntry(t[p]) THEN t[p] ELSE Absent
    BY DEF Capture
  <2>3. unlinked[p] = IF a[p] # Absent /\ b[p] = Absent /\ IsEntry(t[p]) THEN Absent ELSE t[p]
    BY DEF Unlinked, Diff
  <2> QED
    BY <1>1, <1>2, <1>4, <1>5, <2>1, <2>2, <2>3
<1>6. ASSUME NEW p \in Paths PROVE Capture(r)[p] = b[p]
  <2>1. Capture(r)[p] =
          IF w[p] # Absent THEN w[p]
          ELSE IF \E s \in Paths : w[s] # Absent /\ p \in Ancestors[s] THEN Absent
          ELSE Capture(unlinked)[p]
    BY ApplyIsTree
  <2>2. ASSUME NEW s \in Paths, w[s] # Absent, p \in Ancestors[s] PROVE b[p] = Absent
    BY <1>2, <1>3, <2>2
  <2> QED
    BY <1>3, <1>5, <2>1, <2>2
<1> QED
  BY <1>2, <1>6 DEF Capture

\* To any tree: what a delta says of a path is what the path is captured as, and a path
\* it says nothing of stays as it was.
LEMMA ApplySays ==
  ASSUME NEW a \in Manifests, NEW b \in Manifests, NEW t \in Trees, CanApply(Diff(a, b), t),
         NEW p \in Paths
  PROVE  Capture(Apply(Diff(a, b), t))[p] =
           IF Diff(a, b).written[p] # Absent \/ p \in Diff(a, b).deleted
           THEN Diff(a, b).written[p] ELSE Capture(t)[p]
<1> DEFINE unlinked == Unlinked(Diff(a, b), t)
           w == Diff(a, b).written
<1>1. Capture(Apply(Diff(a, b), t))[p] =
        IF w[p] # Absent THEN w[p]
        ELSE IF \E r \in Paths : w[r] # Absent /\ p \in Ancestors[r] THEN Absent
        ELSE Capture(unlinked)[p]
  BY ApplyIsTree
<1>2. Capture(unlinked)[p] = IF p \in Diff(a, b).deleted THEN Absent ELSE Capture(t)[p]
  <2>1. ~IsEntry(Absent)
    BY DEF IsEntry, Absent
  <2> QED
    BY <2>1 DEF Capture, Unlinked
<1>3. ASSUME NEW r \in Paths, w[r] # Absent, p \in Ancestors[r] PROVE Capture(unlinked)[p] = Absent
  <2>1. ~IsEntry(unlinked[p])
    BY <1>3 DEF CanApply
  <2> QED
    BY <2>1 DEF Capture
<1>4. p \in Diff(a, b).deleted => w[p] = Absent
  BY DEF Diff
<1> QED
  BY <1>1, <1>2, <1>3, <1>4

\* What programs do in a workspace leaves a tree.
LEMMA ChangeIsTree ==
  ASSUME NEW change \in Changes \cup {NoChange}, NEW t \in Trees, CanChange(change, t)
  PROVE  Change(change, t) \in Trees
<1> DEFINE r == Change(change, t)
<1>1. \A p \in Paths : Ancestors[p] \subseteq Paths /\ p \notin Ancestors[p]
  BY PathsAssumption
<1>2. CASE change = NoChange
  BY <1>2 DEF Change
<1>3. ASSUME change # NoChange, NEW p \in Paths, change = Remove(p)
      PROVE  r \in Trees
  <2>1. change.path = p /\ change.node = Absent
    BY <1>3 DEF Remove
  <2>2. r = [x \in Paths |-> IF x = p \/ p \in Ancestors[x] THEN Absent ELSE t[x]]
    BY <1>3, <2>1 DEF Change
  <2>3. ASSUME NEW x \in Paths, r[x] # Absent, NEW q \in Ancestors[x] PROVE r[q] = Directory
    <3>1. x # p /\ p \notin Ancestors[x] /\ t[x] # Absent
      BY <2>2, <2>3
    <3>2. q \in Paths /\ q # p /\ p \notin Ancestors[q] /\ t[q] = Directory
      BY <1>1, <2>3, <3>1, PathsAssumption DEF Trees
    <3> QED
      BY <2>2, <3>2
  <2> QED
    BY <2>2, <2>3 DEF Trees
<1>4. ASSUME change # NoChange, NEW p \in Paths, NEW e \in Entries, change = Put(p, e)
      PROVE  r \in Trees
  <2>1. change.path = p /\ change.node = e /\ e # Absent
    <3>1. e.kind \in {"file", "symlink"}
      BY EntriesAssumption
    <3> QED
      BY <1>4, <3>1 DEF Put, Absent
  <2>2. t[p] # Directory /\ \A q \in Ancestors[p] : ~IsEntry(t[q])
    BY <1>4, <2>1 DEF CanChange
  <2>3. r = [x \in Paths |-> IF x = p THEN e ELSE IF x \in Ancestors[p] THEN Directory ELSE t[x]]
    BY <1>4, <2>1 DEF Change
  <2>4. ASSUME NEW x \in Paths, r[x] # Absent, NEW q \in Ancestors[x] PROVE r[q] = Directory
    <3>1. q \in Paths
      BY <1>1
    <3>2. CASE x = p
      BY <1>1, <2>3, <2>4, <3>1, <3>2
    <3>3. CASE x \in Ancestors[p]
      <4>1. q \in Ancestors[p] /\ q # p
        BY <1>1, <2>4, <3>3, PathsAssumption
      <4> QED
        BY <2>3, <3>1, <4>1
    <3>4. CASE x # p /\ x \notin Ancestors[p]
      <4>1. t[q] = Directory
        BY <2>3, <2>4, <3>4 DEF Trees
      <4> QED
        BY <2>2, <2>3, <3>1, <4>1
    <3> QED
      BY <3>2, <3>3, <3>4
  <2>5. r \in [Paths -> Entries \cup {Absent, Directory}]
    BY <2>3 DEF Trees
  <2> QED
    BY <2>4, <2>5 DEF Trees
<1> QED
  BY <1>2, <1>3, <1>4, RecordingAssumption
----------------------------------------------------------------------------
LEMMA LatestIs ==
  ASSUME NEW S \in SUBSET Nat, NEW k \in S, \A j \in S : j <= k
  PROVE  Latest(S) = k
<1>1. Latest(S) \in S /\ \A j \in S : j <= Latest(S)
  BY DEF Latest
<1>2. k \in Nat /\ Latest(S) \in Nat /\ k <= Latest(S) /\ Latest(S) <= k
  BY <1>1
<1> QED
  BY <1>2

LEMMA LatestExists ==
  ASSUME NEW n \in Nat, NEW S \in SUBSET (1 .. n), S # {}
  PROVE  Latest(S) \in S
<1> DEFINE T == {n - k : k \in S}
<1>1. T \subseteq Nat /\ T # {}
  <2>1. \A k \in S : n - k \in Nat
    OBVIOUS
  <2> QED
    BY <2>1
<1>2. PICK x \in T : \A y \in T : ~(<<y, x>> \in OpToRel(<, Nat))
  BY <1>1, WFMin, NatLessThanWellFounded, Zenon
<1>3. \A y \in T : ~(y < x)
  <2>1. \A y \in T : y < x => <<y, x>> \in OpToRel(<, Nat)
    BY <1>1, Zenon DEF OpToRel
  <2> QED
    BY <1>2, <2>1
<1>4. PICK k \in S : x = n - k
  OBVIOUS
<1>5. ASSUME NEW j \in S PROVE j <= k
  <2>1. n - j \in T /\ ~(n - j < n - k)
    BY <1>3, <1>4
  <2> QED
    BY <2>1
<1> QED
  BY <1>5, LatestIs

\* What was captured last changes at a capture and nowhere else.
LEMMA CapturedNext ==
  ASSUME NEW n \in 1 .. Len(log), Len(log) \in Nat
  PROVE  Captured(n + 1) = IF Captures(log[n]) THEN CapturedBy(log[n]) ELSE Captured(n)
<1> DEFINE past(m) == {k \in 1 .. m - 1 : Captures(log[k])}
<1>1. past(n + 1) = IF Captures(log[n]) THEN past(n) \cup {n} ELSE past(n)
  OBVIOUS
<1>2. \A m \in Nat : Captured(m) = IF past(m) = {} THEN EmptyTree ELSE CapturedBy(log[Latest(past(m))])
  BY DEF Captured
<1>3. CASE Captures(log[n])
  <2>1. Latest(past(n + 1)) = n
    <3>1. past(n + 1) \in SUBSET Nat /\ n \in past(n + 1) /\ \A j \in past(n + 1) : j <= n
      BY <1>3
    <3> QED
      BY <3>1, LatestIs
  <2> QED
    BY <1>1, <1>2, <1>3, <2>1
<1>4. n \in Nat /\ n + 1 \in Nat
  OBVIOUS
<1> HIDE DEF past
<1> QED
  BY <1>1, <1>2, <1>3, <1>4

\* What was said of a path last changes where something is said of it.
LEMMA RebuiltNext ==
  ASSUME NEW n \in 1 .. Len(log), Len(log) \in Nat, NEW p \in Paths
  PROVE  Rebuilt(n + 1)[p] = IF Says(log[n], p) THEN Said(log[n], p) ELSE Rebuilt(n)[p]
<1> DEFINE past(m) == {k \in 1 .. m - 1 : Says(log[k], p)}
<1>1. past(n + 1) = IF Says(log[n], p) THEN past(n) \cup {n} ELSE past(n)
  OBVIOUS
<1>2. \A m \in Nat : Rebuilt(m)[p] = IF past(m) = {} THEN Absent ELSE Said(log[Latest(past(m))], p)
  BY DEF Rebuilt
<1>3. CASE Says(log[n], p)
  <2>1. Latest(past(n + 1)) = n
    <3>1. past(n + 1) \in SUBSET Nat /\ n \in past(n + 1) /\ \A j \in past(n + 1) : j <= n
      BY <1>3
    <3> QED
      BY <3>1, LatestIs
  <2> QED
    BY <1>1, <1>2, <1>3, <2>1
<1>4. n \in Nat /\ n + 1 \in Nat
  OBVIOUS
<1> HIDE DEF past
<1> QED
  BY <1>1, <1>2, <1>3, <1>4

LEMMA NothingCaptured == Captured(1) = EmptyTree /\ Rebuilt(1) = EmptyTree
  BY DEF Captured, Rebuilt, EmptyTree
----------------------------------------------------------------------------
\* A log is a sequence, and run_finished is its last event.
LogOK ==
  /\ \E S : log \in Seq(S)
  /\ \A n \in 1 .. Len(log) : log[n].kind = "run_finished" => n = Len(log)

\* Before a replay and at its end.
Bounds ==
  /\ pc = "idle" => /\ position = 1 /\ divergences = {} /\ ~interfered
                     /\ workspace = EmptyTree /\ expected = EmptyTree
  /\ mode = "recorded" => ~interfered
  /\ pc = "concluded" => position = Len(log) + 1

\* An event is well formed and gets into the log: the log stays as it should be.
LEMMA LogStep ==
  ASSUME TypeOK, LogOK, NEW event, WellFormed(event), Log(event)
  PROVE  /\ LogOK' /\ Len(log') = Len(log) + 1 /\ Len(log') <= MaxEvents
         /\ \A n \in 1 .. Len(log') : WellFormed(log'[n])
<1>1. PICK S : log \in Seq(S)
  BY DEF LogOK
<1>2. /\ Len(log) \in Nat /\ Len(log') = Len(log) + 1
      /\ \A n \in 1 .. Len(log) : log'[n] = log[n]
      /\ log'[Len(log) + 1] = event
  BY <1>1 DEF Log
<1>3. log' \in Seq(S \cup {event})
  BY <1>1 DEF Log
<1>4. \A n \in 1 .. Len(log) : log[n].kind # "run_finished"
  BY <1>1, <1>2 DEF Log, Finished, LogOK
<1>5. Len(log') <= MaxEvents
  BY <1>2, RecordingAssumption DEF Log
<1>6. \A n \in 1 .. Len(log') : WellFormed(log'[n])
  BY <1>2 DEF TypeOK
<1>7. \A n \in 1 .. Len(log') : log'[n].kind = "run_finished" => n = Len(log')
  BY <1>2, <1>4
<1> QED
  BY <1>2, <1>3, <1>5, <1>6, <1>7 DEF LogOK

\* What recording does to the run, while nobody reads.
RunTypes ==
  /\ tree \in Trees /\ manifests \subseteq Manifests
  /\ Len(log) \in 0 .. MaxEvents /\ \A n \in 1 .. Len(log) : WellFormed(log[n])
  /\ disturbances \in 0 .. MaxDisturbances

LEMMA RunStepTypes ==
  ASSUME TypeOK, LogOK, RunStep
  PROVE  RunTypes' /\ LogOK' /\ Len(log) <= Len(log')
<1> USE RecordingAssumption
<1>1. Len(log) \in 0 .. MaxEvents /\ MaxEvents \in Nat /\ MaxDisturbances \in Nat
  BY DEF TypeOK, LogOK
<1>2. Capture(tree) \in Manifests
  BY CaptureIsManifest DEF TypeOK
<1>3. ASSUME NEW w \in BOOLEAN, StartRun(w)
      PROVE  RunTypes' /\ LogOK' /\ Len(log) <= Len(log')
  <2> DEFINE first == [kind |-> "environment"]
             second == [kind |-> "checkpoint", manifest |-> Capture(tree)]
  <2>1. log' = (IF w THEN <<first, second>> ELSE <<first>>)
    BY <1>3 DEF StartRun
  <2>2. WellFormed(first) /\ WellFormed(second)
    BY <1>2 DEF WellFormed
  <2>3. Len(log) = 0 /\ Len(log') \in 1 .. 2 /\ \A n \in 1 .. Len(log') : log'[n] \in {first, second}
    BY <1>3, <2>1 DEF StartRun
  <2>4. log' \in Seq({first, second})
    <3>1. ASSUME NEW a, NEW b PROVE <<a>> \in Seq({a, b}) /\ <<a, b>> \in Seq({a, b})
      OBVIOUS
    <3> QED
      BY <2>1, <3>1
  <2>5. \A n \in 1 .. Len(log') : log'[n].kind # "run_finished" /\ WellFormed(log'[n])
    BY <2>2, <2>3
  <2>6. manifests' \subseteq Manifests /\ tree' \in Trees /\ disturbances' \in 0 .. MaxDisturbances
    BY <1>2, <1>3 DEF StartRun, TypeOK
  <2> QED
    BY <1>1, <2>3, <2>4, <2>5, <2>6 DEF RunTypes, LogOK
<1>4. ASSUME NEW w \in BOOLEAN, FinishRun(w)
      PROVE  RunTypes' /\ LogOK' /\ Len(log) <= Len(log')
  <2> DEFINE event == [kind |-> "run_finished", workspace |-> w, manifest |-> Capture(tree)]
  <2>1. WellFormed(event) /\ Log(event)
    BY <1>2, <1>4 DEF WellFormed, FinishRun
  <2> QED
    BY <1>1, <1>4, <2>1, LogStep DEF FinishRun, RunTypes, TypeOK
<1>5. ASSUME NEW kind \in {"model_call", "tool_call"}, NEW request \in Requests, NEW whole \in BOOLEAN,
             NEW change \in Changes \cup {NoChange}, NEW outcome \in Outcomes,
             CallRecorded(kind, request, whole, change, outcome)
      PROVE  RunTypes' /\ LogOK' /\ Len(log) <= Len(log')
  <2> DEFINE event == [kind |-> kind, request |-> request, whole |-> whole,
                       outcome |-> Stored(outcome), change |-> change, original |-> outcome]
  <2>1. Stored(outcome) \in Outcomes
    BY DEF Stored, Outcomes
  <2>2. WellFormed(event) /\ Log(event)
    BY <1>5, <2>1 DEF WellFormed, CallRecorded
  <2>3. tree' \in Trees
    BY <1>5, ChangeIsTree DEF CallRecorded, TypeOK
  <2> QED
    BY <1>1, <1>5, <2>2, <2>3, LogStep DEF CallRecorded, RunTypes, TypeOK
<1>6. ASSUME NEW change \in Changes, Disturb(change)
      PROVE  RunTypes' /\ LogOK' /\ Len(log) <= Len(log')
  <2>1. tree' \in Trees
    BY <1>6, ChangeIsTree DEF Disturb, TypeOK
  <2>2. disturbances' \in 0 .. MaxDisturbances
    BY <1>1, <1>6 DEF Disturb, TypeOK
  <2>3. log' = log /\ manifests' = manifests
    BY <1>6 DEF Disturb
  <2> QED
    BY <1>1, <2>1, <2>2, <2>3 DEF RunTypes, TypeOK, LogOK
<1>7. ASSUME NEW previous \in manifests, DeltaCaptured(previous)
      PROVE  RunTypes' /\ LogOK' /\ Len(log) <= Len(log')
  <2> DEFINE event == [kind |-> "workspace_delta", previous |-> previous,
                       delta |-> Diff(previous, Capture(tree)), current |-> Capture(tree)]
  <2>1. WellFormed(event) /\ Log(event)
    BY <1>2, <1>7 DEF WellFormed, DeltaCaptured, TypeOK
  <2> QED
    BY <1>1, <1>2, <1>7, <2>1, LogStep DEF DeltaCaptured, RunTypes, TypeOK
<1> QED
  BY <1>3, <1>4, <1>5, <1>6, <1>7 DEF RunStep

LEMMA EventFacts ==
  ASSUME TypeOK, LogOK, NEW kinds, At(kinds)
  PROVE  /\ position \in 1 .. Len(log) /\ Len(log) \in Nat
         /\ Event.kind = "checkpoint" => Event.manifest \in Manifests
         /\ Event.kind = "workspace_delta" =>
              /\ Event.previous \in Manifests /\ Event.current \in Manifests
              /\ Event.delta = Diff(Event.previous, Event.current)
  BY DEF TypeOK, LogOK, At, Event, WellFormed

LEMMA DivergesTypes ==
  ASSUME NEW condition, Diverges(condition), position \in 1 .. Len(log), TypeOK
  PROVE  divergences' \subseteq 1 .. Len(log)
  BY DEF Diverges, TypeOK

\* What one replay keeps: the run is as it was, the rest has its types.
ReplayTypes ==
  /\ pc \in {"idle", "running", "concluded", "raised"} /\ mode \in Modes
  /\ counted \in 0 .. Len(log) /\ position \in 1 .. Len(log) + 1
  /\ workspace \in Trees /\ expected \in Trees
  /\ divergences \subseteq 1 .. Len(log)
  /\ {sound, faithful, interfered} \subseteq BOOLEAN /\ damaged \in DamageSets

LEMMA ReplayStepTypes ==
  ASSUME TypeOK, LogOK, Bounds, ReplayStep, UNCHANGED runVars
  PROVE  ReplayTypes' /\ Bounds'
<1>1. log' = log /\ Len(log) \in Nat /\ position + 1 \in Nat
  BY DEF runVars, LogOK, TypeOK
<1>2. ASSUME NEW m \in Modes, NEW c \in 0 .. Len(log), NEW s \in BOOLEAN, NEW d \in DamageSets,
             Begin(m, c, s, d)
      PROVE  ReplayTypes' /\ Bounds'
  <2>1. pc' \in {"running", "raised"} /\ pc = "idle"
    BY <1>2 DEF Begin
  <2> QED
    BY <1>1, <1>2, <2>1 DEF Begin, ReplayTypes, Bounds, TypeOK
<1>3. ASSUME CheckpointStep PROVE ReplayTypes' /\ Bounds'
  <2>1. workspace = EmptyTree /\ expected = EmptyTree /\ Event.manifest \in Manifests
    BY <1>3, EventFacts DEF CheckpointStep, CheckpointRestorable, CanRestore, At
  <2>2. workspace' \in Trees /\ expected' \in Trees
    BY <1>3, <2>1, RestoreCaptures DEF CheckpointStep
  <2>3. position \in 1 .. Len(log)
    BY <1>3, EventFacts DEF CheckpointStep
  <2> QED
    BY <1>1, <1>3, <2>2, <2>3 DEF CheckpointStep, At, Advance, fixed, ReplayTypes, Bounds, TypeOK
<1>4. ASSUME DeltaStep PROVE ReplayTypes' /\ Bounds'
  <2>1. position \in 1 .. Len(log) /\ At({"workspace_delta"})
    BY <1>4, EventFacts DEF DeltaStep
  <2>2. /\ Event.previous \in Manifests /\ Event.current \in Manifests
        /\ Event.delta = Diff(Event.previous, Event.current)
    BY <2>1, EventFacts DEF At
  <2>3. expected' \in Trees
    BY <1>4, <2>2, ApplyIsTree DEF DeltaStep, DeltaApplicable, TypeOK
  <2>4. workspace' \in Trees
    BY <1>4, <2>2, ApplyIsTree DEF DeltaStep, DeltaApplicable, DeltaApplied, TypeOK
  <2>5. divergences' \subseteq 1 .. Len(log)
    BY <1>4, <2>1, DivergesTypes DEF DeltaStep
  <2> QED
    BY <1>1, <1>4, <2>1, <2>3, <2>4, <2>5
    DEF DeltaStep, At, Advance, fixed, ReplayTypes, Bounds, TypeOK
<1>5. ASSUME SkipStep PROVE ReplayTypes' /\ Bounds'
  <2>1. position \in 1 .. Len(log)
    BY <1>5, EventFacts DEF SkipStep
  <2> QED
    BY <1>1, <1>5, <2>1 DEF SkipStep, At, Advance, fixed, ReplayTypes, Bounds, TypeOK
<1>6. ASSUME UnregisteredStep PROVE ReplayTypes' /\ Bounds'
  <2>1. position \in 1 .. Len(log)
    BY <1>6, EventFacts DEF UnregisteredStep
  <2>2. divergences' \subseteq 1 .. Len(log)
    BY <1>6, <2>1, DivergesTypes DEF UnregisteredStep
  <2> QED
    <3>1. /\ pc = "running" /\ pc' = pc /\ position' = position + 1 /\ faithful' = FALSE
          /\ UNCHANGED <<fixed, workspace, expected, interfered>>
      BY <1>6 DEF UnregisteredStep, At, Advance
    <3>2. {sound, faithful, interfered}' \subseteq BOOLEAN
      BY <3>1 DEF fixed, TypeOK
    <3>3. ReplayTypes'
      BY <1>1, <2>1, <2>2, <3>1, <3>2 DEF fixed, ReplayTypes, TypeOK
    <3> QED
      BY <3>1, <3>3 DEF fixed, Bounds
<1>7. ASSUME NEW outcome \in Outcomes, NEW change \in Changes \cup {NoChange},
             AnswerStep(change, outcome)
      PROVE  ReplayTypes' /\ Bounds'
  <2>1. position \in 1 .. Len(log)
    BY <1>7, EventFacts DEF AnswerStep
  <2>2. divergences' \subseteq 1 .. Len(log)
    BY <1>7, <2>1, DivergesTypes DEF AnswerStep
  <2>3. workspace' \in Trees
    BY <1>7, ChangeIsTree DEF AnswerStep, TypeOK
  <2>4. mode # "recorded" /\ pc' = "running" /\ mode' = mode
    BY <1>7 DEF AnswerStep, Fresh, At, Advance, fixed
  <2>5. faithful' \in BOOLEAN /\ interfered' \in BOOLEAN
    BY <1>7 DEF AnswerStep, TypeOK
  <2> QED
    BY <1>1, <1>7, <2>1, <2>2, <2>3, <2>4, <2>5
    DEF AnswerStep, Advance, fixed, ReplayTypes, Bounds, TypeOK
<1>8. ASSUME FinishStep PROVE ReplayTypes' /\ Bounds'
  <2>1. position \in 1 .. Len(log)
    BY <1>8, EventFacts DEF FinishStep
  <2>2. divergences' \subseteq 1 .. Len(log)
    BY <1>8, <2>1, DivergesTypes DEF FinishStep
  <2> QED
    BY <1>1, <1>8, <2>1, <2>2 DEF FinishStep, At, Advance, fixed, ReplayTypes, Bounds, TypeOK
<1>9. ASSUME RaiseStep \/ Conclude PROVE ReplayTypes' /\ Bounds'
  <2>1. Conclude => position = Len(log) + 1
    BY <1>1 DEF Conclude, TypeOK
  <2> QED
    <3>1. /\ pc' \in {"raised", "concluded"}
          /\ pc' = "concluded" => position = Len(log) + 1
          /\ UNCHANGED <<fixed, position, workspace, expected, divergences, faithful, interfered>>
      BY <1>9, <2>1 DEF RaiseStep, Conclude
    <3> QED
      BY <1>1, <3>1 DEF fixed, ReplayTypes, Bounds, TypeOK
<1> QED
  BY <1>2, <1>3, <1>4, <1>5, <1>6, <1>7, <1>8, <1>9 DEF ReplayStep

LEMMA TypeStep ==
  ASSUME TypeOK, LogOK, Bounds, [ReplayNext]_<<runVars, replayVars>>
  PROVE  TypeOK' /\ LogOK' /\ Bounds'
<1>1. ASSUME Record PROVE TypeOK' /\ LogOK' /\ Bounds'
  <2>1. RunTypes' /\ LogOK' /\ Len(log) <= Len(log') /\ pc = "idle"
    BY <1>1, RunStepTypes DEF Record
  <2>2. Len(log) \in Nat /\ Len(log') \in Nat
    BY <2>1 DEF LogOK
  <2>3. UNCHANGED replayVars
    BY <1>1 DEF Record
  <2>4. TypeOK'
    BY <2>1, <2>2, <2>3 DEF RunTypes, replayVars, TypeOK
  <2> QED
    BY <2>1, <2>3, <2>4 DEF replayVars, Bounds
<1>2. ASSUME Replays PROVE TypeOK' /\ LogOK' /\ Bounds'
  <2>1. ReplayTypes' /\ Bounds' /\ UNCHANGED runVars
    BY <1>2, ReplayStepTypes DEF Replays
  <2>2. LogOK'
    BY <2>1 DEF LogOK, runVars
  <2>3. TypeOK'
    BY <2>1 DEF ReplayTypes, TypeOK, runVars
  <2> QED
    BY <2>1, <2>2, <2>3
<1>3. ASSUME UNCHANGED <<runVars, replayVars>> PROVE TypeOK' /\ LogOK' /\ Bounds'
  BY <1>3 DEF runVars, replayVars, TypeOK, LogOK, Bounds
<1> QED
  BY <1>1, <1>2, <1>3 DEF ReplayNext
----------------------------------------------------------------------------
LEMMA SameLog ==
  ASSUME log' = log
  PROVE  /\ Chained' <=> Chained
         /\ \A n \in Nat : Captured(n)' = Captured(n) /\ Rebuilt(n)' = Rebuilt(n)
  BY DEF Captured, Chained, Captures, CapturedBy, Rebuilt, Says, Said

\* How a replay is under way after a step.
LEMMA UnderWay ==
  ASSUME TypeOK, LogOK, Bounds, ReplayStep, UNCHANGED runVars, pc' = "running"
  PROVE  \/ /\ position' = 1 /\ expected' = EmptyTree /\ workspace' = EmptyTree
            /\ divergences' = {}
         \/ CheckpointStep
         \/ DeltaStep
         \/ /\ pc = "running" /\ position \in 1 .. Len(log) /\ ~Captures(Event)
            /\ position' = position + 1 /\ expected' = expected
            /\ mode' = mode
  BY EventFacts
  DEF ReplayStep, Begin, SkipStep, UnregisteredStep, AnswerStep, FinishStep, RaiseStep, Conclude,
      At, Advance, Captures, fixed, Bounds

LEMMA TrackExpected ==
  ASSUME TypeOK, LogOK, Bounds, ExpectedTracks,
         ReplayStep, UNCHANGED runVars, pc' = "running"
  PROVE  /\ Capture(expected') = Rebuilt(position')
         /\ Chained => Capture(expected') = Captured(position')
<1>1. Len(log) \in Nat
  BY DEF LogOK
<1>2. CASE position' = 1 /\ expected' = EmptyTree
  BY <1>2, NothingCaptured, RestoreCaptures DEF Capture, EmptyTree, IsEntry, Absent
<1>3. CASE CheckpointStep
  <2>1. /\ position \in 1 .. Len(log) /\ position' = position + 1
        /\ Event.kind = "checkpoint" /\ Event.manifest \in Manifests
    BY <1>3, EventFacts DEF CheckpointStep, Advance, At
  <2>2. expected = EmptyTree /\ expected' = Restore(Event.manifest, EmptyTree)
    BY <1>3 DEF CheckpointStep, CheckpointRestorable, CanRestore
  <2>3. Captured(position') = Event.manifest
    BY <1>1, <2>1, CapturedNext DEF Captures, CapturedBy, Event
  <2>4. \A p \in Paths : Rebuilt(position')[p] = Event.manifest[p]
    BY <1>1, <2>1, RebuiltNext DEF Says, Said, Event
  <2>5. Rebuilt(position') = Event.manifest
    BY <2>1, <2>4, CapturedApart DEF Rebuilt
  <2> QED
    BY <2>1, <2>2, <2>3, <2>5, RestoreCaptures
<1>4. CASE DeltaStep
  <2> DEFINE delta == Event.delta
  <2>1. /\ position \in 1 .. Len(log) /\ position' = position + 1 /\ pc = "running"
        /\ Event.kind = "workspace_delta"
    BY <1>4, EventFacts DEF DeltaStep, Advance, At
  <2>2. /\ Event.previous \in Manifests /\ Event.current \in Manifests
        /\ delta = Diff(Event.previous, Event.current)
    BY <1>4, <2>1, EventFacts DEF DeltaStep
  <2>3. CanApply(delta, expected) /\ expected' = Apply(delta, expected) /\ expected \in Trees
    BY <1>4 DEF DeltaStep, DeltaApplicable, TypeOK
  <2>4. Capture(expected') = Rebuilt(position')
    <3>1. ASSUME NEW p \in Paths PROVE Capture(expected')[p] = Rebuilt(position')[p]
      <4>1. Capture(expected')[p] = IF delta.written[p] # Absent \/ p \in delta.deleted
                                    THEN delta.written[p] ELSE Capture(expected)[p]
        BY <2>2, <2>3, ApplySays
      <4>2. Rebuilt(position')[p] = IF delta.written[p] # Absent \/ p \in delta.deleted
                                    THEN delta.written[p] ELSE Rebuilt(position)[p]
        BY <1>1, <2>1, RebuiltNext DEF Says, Said, Event
      <4> QED
        BY <2>1, <4>1, <4>2 DEF ExpectedTracks
    <3> QED
      BY <3>1 DEF Capture, Rebuilt
  <2>5. ASSUME Chained PROVE Capture(expected') = Captured(position')
    <3>1. Event.previous = Capture(expected)
      BY <2>1, <2>5 DEF Chained, ExpectedTracks, Event
    <3>2. Capture(expected') = Event.current
      BY <2>2, <2>3, <3>1, ApplyCaptures
    <3> QED
      BY <1>1, <2>1, <3>2, CapturedNext DEF Captures, CapturedBy, Event
  <2> QED
    BY <2>4, <2>5
<1>5. CASE /\ pc = "running" /\ position \in 1 .. Len(log) /\ ~Captures(Event)
           /\ position' = position + 1 /\ expected' = expected
  <2>1. \A p \in Paths : Rebuilt(position')[p] = Rebuilt(position)[p]
    BY <1>1, <1>5, RebuiltNext DEF Captures, Says, Event
  <2>2. Rebuilt(position') = Rebuilt(position)
    BY <2>1 DEF Rebuilt
  <2> QED
    BY <1>1, <1>5, <2>2, CapturedNext DEF ExpectedTracks, Event
<1> QED
  BY <1>2, <1>3, <1>4, <1>5, UnderWay

LEMMA TrackTrees ==
  ASSUME TypeOK, LogOK, Bounds, TreesAgree, ReplayStep, UNCHANGED runVars,
         pc' = "running", mode' # "fresh_all", ~interfered'
  PROVE  workspace' = expected'
<1>1. CASE workspace' = EmptyTree /\ expected' = EmptyTree
  BY <1>1
<1>2. CASE CheckpointStep
  BY <1>2 DEF CheckpointStep, CheckpointRestorable, CanRestore
<1>3. CASE DeltaStep
  <2>1. workspace = expected /\ mode # "fresh_all"
    BY <1>3 DEF DeltaStep, At, Advance, fixed, TreesAgree
  <2> QED
    BY <1>3, <2>1 DEF DeltaStep, DeltaApplied
<1>4. ASSUME NEW outcome \in Outcomes, NEW change \in Changes \cup {NoChange},
             AnswerStep(change, outcome)
      PROVE  workspace' = expected'
  <2>1. change = NoChange /\ ~interfered /\ workspace' = Change(change, workspace)
    BY <1>4 DEF AnswerStep
  <2>2. workspace = expected /\ expected' = expected
    BY <1>4, <2>1 DEF AnswerStep, At, Advance, fixed, TreesAgree
  <2> QED
    BY <2>1, <2>2 DEF Change
<1>5. CASE SkipStep \/ UnregisteredStep \/ FinishStep
  BY <1>5 DEF SkipStep, UnregisteredStep, FinishStep, At, Advance, fixed, TreesAgree
<1> QED
  BY <1>1, <1>2, <1>3, <1>4, <1>5 DEF ReplayStep, Begin, RaiseStep, Conclude, Bounds

\* The end that finish recorded is not what the deltas come to, not what was captured last.
FinalDiffers(n) ==
  log[n].kind = "run_finished" /\ log[n].workspace /\ log[n].manifest # Rebuilt(n)
FinalMissed(n) ==
  log[n].kind = "run_finished" /\ log[n].workspace /\ log[n].manifest # Captured(n)

\* A recorded replay has found what it will find among the events it went through.
FoundSoFar ==
  pc \in {"running", "concluded"} /\ mode = "recorded" =>
    /\ divergences = {n \in 1 .. position - 1 : FinalDiffers(n)}
    /\ Chained => divergences = {n \in 1 .. position - 1 : FinalMissed(n)}

LEMMA TrackFindings ==
  ASSUME TypeOK, LogOK, Bounds, ExpectedTracks, TreesAgree, FoundSoFar,
         ReplayStep, UNCHANGED runVars, pc' \in {"running", "concluded"}, mode' = "recorded"
  PROVE  /\ divergences' = {n \in 1 .. position' - 1 : FinalDiffers(n)}
         /\ Chained => divergences' = {n \in 1 .. position' - 1 : FinalMissed(n)}
<1>1. Len(log) \in Nat /\ position \in 1 .. Len(log) + 1
  BY DEF LogOK, TypeOK
<1> DEFINE differing == {n \in 1 .. position - 1 : FinalDiffers(n)}
           missed == {n \in 1 .. position - 1 : FinalMissed(n)}
           Goal == /\ divergences' = {n \in 1 .. position' - 1 : FinalDiffers(n)}
                   /\ Chained => divergences' = {n \in 1 .. position' - 1 : FinalMissed(n)}
<1>2. CASE position' = 1 /\ divergences' = {}
  BY <1>2
<1>3. CASE Conclude
  BY <1>3 DEF Conclude, fixed, FoundSoFar
<1>4. ASSUME position \in 1 .. Len(log), position' = position + 1,
             pc = "running", mode = "recorded", Event.kind # "run_finished" \/ ~Event.workspace,
             divergences' = divergences
      PROVE  Goal
  <2>1. /\ divergences = differing /\ (Chained => divergences = missed)
        /\ ~FinalDiffers(position) /\ ~FinalMissed(position)
    BY <1>4 DEF FoundSoFar, FinalDiffers, FinalMissed, Event
  <2>2. 1 .. position' - 1 = (1 .. position - 1) \cup {position}
    BY <1>4
  <2> QED
    BY <1>4, <2>1, <2>2
<1>5. CASE CheckpointStep \/ SkipStep
  <2>1. position \in 1 .. Len(log) /\ position' = position + 1 /\ divergences' = divergences
    BY <1>5, EventFacts DEF CheckpointStep, SkipStep, Advance
  <2>2. pc = "running" /\ mode = "recorded" /\ (Event.kind # "run_finished" \/ ~Event.workspace)
    BY <1>5 DEF CheckpointStep, SkipStep, At, Advance, fixed
  <2> QED
    BY <1>4, <2>1, <2>2
<1>6. CASE DeltaStep
  <2>1. position \in 1 .. Len(log) /\ position' = position + 1
    BY <1>6, EventFacts DEF DeltaStep, Advance
  <2>2. pc = "running" /\ mode = "recorded" /\ Event.kind # "run_finished"
    BY <1>6 DEF DeltaStep, At, Advance, fixed
  <2>3. divergences' = divergences
    BY <1>6, <2>2 DEF DeltaStep, Diverges
  <2> QED
    BY <1>4, <2>1, <2>2, <2>3
<1>7. CASE FinishStep
  <2>1. position \in 1 .. Len(log) /\ position' = position + 1
    BY <1>7, EventFacts DEF FinishStep, Advance
  <2>2. /\ pc = "running" /\ mode = "recorded" /\ ~interfered
        /\ Event.kind = "run_finished" /\ Event.workspace
    BY <1>7 DEF FinishStep, At, Advance, fixed, Bounds
  <2>3. /\ divergences = differing /\ Capture(workspace) = Rebuilt(position)
        /\ Chained => divergences = missed /\ Capture(workspace) = Captured(position)
    BY <2>2 DEF FoundSoFar, ExpectedTracks, TreesAgree
  <2>4. /\ divergences' = IF FinalDiffers(position) THEN differing \cup {position} ELSE differing
        /\ Chained => divergences' = IF FinalMissed(position) THEN missed \cup {position} ELSE missed
    BY <1>7, <2>2, <2>3 DEF FinishStep, Diverges, FinalDiffers, FinalMissed, Event
  <2>5. 1 .. position' - 1 = (1 .. position - 1) \cup {position}
    BY <2>1
  <2> QED
    BY <2>4, <2>5
<1>8. mode' = "recorded" => ~UnregisteredStep
  BY DEF UnregisteredStep, Fresh, Advance, fixed
<1>9. ASSUME NEW outcome \in Outcomes, NEW change \in Changes \cup {NoChange}
      PROVE  ~AnswerStep(change, outcome)
  BY DEF AnswerStep, Fresh, Advance, fixed
<1> QED
  BY <1>2, <1>3, <1>5, <1>6, <1>7, <1>8, <1>9 DEF ReplayStep, Begin, RaiseStep, Bounds
----------------------------------------------------------------------------
\* The inductive invariant.
IInv == TypeOK /\ LogOK /\ Bounds /\ ExpectedTracks /\ TreesAgree /\ FoundSoFar

LEMMA InitIInv == RunInit /\ ReplayInit => IInv
<1> SUFFICES ASSUME RunInit, ReplayInit PROVE IInv
  OBVIOUS
<1>1. EmptyTree \in Trees /\ tree \in Trees
  <2>1. \A m \in Manifests : EmptyTree \in Trees
    BY RestoreCaptures
  <2>2. tree \in Trees /\ Capture(tree) \in Manifests
    BY CaptureIsManifest, RecordingAssumption DEF RunInit
  <2> QED
    BY <2>1, <2>2
<1>2. log = << >> /\ Len(log) = 0 /\ log \in Seq({})
  BY DEF RunInit
<1>3. pc = "idle" /\ position = 1 /\ mode = "recorded"
  BY DEF ReplayInit
<1>4. TypeOK
  <2>1. 0 \in 0 .. MaxDisturbances /\ Len(log) <= MaxEvents
    BY <1>2, RecordingAssumption
  <2>2. {sound, faithful, interfered} \subseteq BOOLEAN /\ damaged \in DamageSets
    BY DamageAssumption DEF ReplayInit
  <2>3. position \in 1 .. Len(log) + 1 /\ \A n \in 1 .. Len(log) : WellFormed(log[n])
    BY <1>2, <1>3
  <2> QED
    BY <1>1, <1>3, <2>1, <2>2, <2>3 DEF TypeOK, RunInit, ReplayInit, Modes
<1>5. LogOK
  BY <1>2 DEF LogOK
<1>6. Bounds
  BY <1>3 DEF Bounds, ReplayInit
<1> QED
  BY <1>3, <1>4, <1>5, <1>6 DEF IInv, ExpectedTracks, TreesAgree, FoundSoFar

LEMMA StepIInv == IInv /\ [ReplayNext]_<<runVars, replayVars>> => IInv'
<1> SUFFICES ASSUME IInv, [ReplayNext]_<<runVars, replayVars>> PROVE IInv'
  OBVIOUS
<1>1. TypeOK' /\ LogOK' /\ Bounds'
  BY TypeStep DEF IInv
<1>2. position \in Nat /\ position' \in Nat /\ Len(log) \in Nat
  BY <1>1 DEF IInv, TypeOK, LogOK
<1>3. CASE Record
  BY <1>1, <1>3 DEF Record, replayVars, IInv, ExpectedTracks, TreesAgree, FoundSoFar
<1>4. CASE Replays
  <2> USE <1>4 DEF Replays
  <2>1. /\ log' = log /\ (Chained' <=> Chained)
        /\ \A n \in Nat : Captured(n)' = Captured(n) /\ Rebuilt(n)' = Rebuilt(n)
    BY SameLog DEF runVars
  <2>2. ExpectedTracks'
    <3>1. pc' = "running" =>
            /\ Capture(expected') = Rebuilt(position')
            /\ Chained => Capture(expected') = Captured(position')
      BY TrackExpected DEF IInv
    <3>2. pc' = "running" =>
            /\ Capture(expected)' = Rebuilt(position)'
            /\ Chained' => Rebuilt(position)' = Captured(position)'
      BY <1>2, <2>1, <3>1 DEF Capture, IsEntry
    <3> QED
      BY <3>2 DEF ExpectedTracks
  <2>3. TreesAgree'
    BY TrackTrees DEF IInv, TreesAgree
  <2>4. FoundSoFar'
    <3> SUFFICES ASSUME pc' \in {"running", "concluded"}, mode' = "recorded"
                 PROVE  /\ divergences' = {n \in 1 .. position' - 1 : FinalDiffers(n)'}
                        /\ Chained => divergences' = {n \in 1 .. position' - 1 : FinalMissed(n)'}
      BY <2>1 DEF FoundSoFar
    <3>1. /\ divergences' = {n \in 1 .. position' - 1 : FinalDiffers(n)}
          /\ Chained => divergences' = {n \in 1 .. position' - 1 : FinalMissed(n)}
      BY <2>1, TrackFindings DEF IInv
    <3>2. \A n \in 1 .. position' - 1 :
            (FinalDiffers(n)' <=> FinalDiffers(n)) /\ (FinalMissed(n)' <=> FinalMissed(n))
      BY <1>2, <2>1 DEF FinalDiffers, FinalMissed
    <3> QED
      BY <3>1, <3>2
  <2> QED
    BY <1>1, <2>2, <2>3, <2>4 DEF IInv
<1>5. CASE UNCHANGED <<runVars, replayVars>>
  <2>1. /\ log' = log /\ (Chained' <=> Chained)
        /\ \A n \in Nat : Captured(n)' = Captured(n) /\ Rebuilt(n)' = Rebuilt(n)
    BY <1>5, SameLog DEF runVars
  <2>2. ExpectedTracks' /\ TreesAgree'
    BY <1>2, <1>5, <2>1 DEF replayVars, IInv, ExpectedTracks, TreesAgree, Capture, IsEntry
  <2>3. \A n \in 1 .. position - 1 :
          (FinalDiffers(n)' <=> FinalDiffers(n)) /\ (FinalMissed(n)' <=> FinalMissed(n))
    BY <1>2, <2>1 DEF FinalDiffers, FinalMissed
  <2>4. FoundSoFar'
    BY <1>5, <2>1, <2>3 DEF replayVars, IInv, FoundSoFar
  <2> QED
    BY <1>1, <2>2, <2>4 DEF IInv
<1> QED
  BY <1>3, <1>4, <1>5 DEF ReplayNext

LEMMA VerdictFollows == IInv => RecordedVerdict
<1> SUFFICES ASSUME IInv, pc = "concluded", mode = "recorded"
             PROVE  /\ matched <=> \A n \in Finals : log[n].manifest = Rebuilt(n)
                    /\ Chained => (matched <=> \A n \in Finals : log[n].manifest = Captured(n))
  BY DEF RecordedVerdict
<1>1. Len(log) \in Nat /\ position = Len(log) + 1
  BY DEF IInv, LogOK, Bounds
<1>2. /\ divergences = {n \in 1 .. Len(log) : FinalDiffers(n)}
      /\ Chained => divergences = {n \in 1 .. Len(log) : FinalMissed(n)}
  BY <1>1 DEF IInv, FoundSoFar
<1> QED
  BY <1>2 DEF matched, Finals, FinalDiffers, FinalMissed

\* For any paths, entries and programs: the variables have their types.
THEOREM ReplayTyped == ReplaySpec => []TypeOK
<1>1. IInv => TypeOK
  BY DEF IInv
<1> QED
  BY InitIInv, StepIInv, <1>1, PTL DEF ReplaySpec

\* replay keeps, in every mode and whatever adapters do, a directory that holds at
\* each event what the deltas come to: what the run had captured by then, when each began
\* where the last capture ended.
THEOREM ReplayTracksCaptures == ReplaySpec => []ExpectedTracks
<1>1. IInv => ExpectedTracks
  BY DEF IInv
<1> QED
  BY InitIInv, StepIInv, <1>1, PTL DEF ReplaySpec

\* Unless tools run afresh or a model adapter interferes, the directory that adapters
\* are shown is that one, empty directories included.
THEOREM ReplayTreesAgree == ReplaySpec => []TreesAgree
<1>1. IInv => TreesAgree
  BY DEF IInv
<1> QED
  BY InitIInv, StepIInv, <1>1, PTL DEF ReplaySpec

\* A recorded replay diverges exactly when the workspace that finish captured is not what
\* the deltas come to; when they follow on each other, not the one captured last.
THEOREM RecordedReplayVerdict == ReplaySpec => []RecordedVerdict
  BY InitIInv, StepIInv, VerdictFollows, PTL DEF ReplaySpec

\* A run that is replayed or exported is a run that is replayed: what holds of
\* ReplaySpec holds beside export_trace.
THEOREM ReadersReplay == ReadersSpec => ReplaySpec
<1>1. [ReadersNext]_<<runVars, replayVars, bundleVars>> => [ReplayNext]_<<runVars, replayVars>>
  BY DEF ReadersNext, BundleNext, ReplayNext, Record
<1> QED
  BY <1>1, PTL DEF ReadersSpec, ReadersInit, ReplaySpec
=============================================================================
