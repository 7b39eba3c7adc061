-------------------------- MODULE ReductionProofs ---------------------------
(***************************************************************************)
(* For packages of any size, any number of stability runs and any oracle:  *)
(* what a reduction returns reproduces, no unit of it can be left out, and *)
(* its table lacks no trial but those in which the sink has raised.         *)
(***************************************************************************)
EXTENDS Reduction, FiniteSetTheorems, TLAPS

\* A trial has heard something exactly if it has run.
Counted == observed = {} <=> runs = 0

\* The cache says what the latest trial of a candidate has heard.
Agrees == \A c \in Candidates :
            cache[c] = IF heard[c] = {} THEN "unknown"
                       ELSE IF heard[c] = {Required} THEN "reproduces" ELSE "fails"

\* What ddmin is at reproduces.
Sound == pc \in {"scan", "candidate"} => cache[current] = "reproduces"

\* With chunks of one unit: each unit passed so far was tried and is needed.
Needed(u) == cache[current \ {u}] = "fails"
Passed ==
  pc \in {"scan", "candidate"} /\ Length >= 2 /\ ChunkSize = 1 =>
    \A u \in current : Position(u) < start => Needed(u)

\* A trial is about the package itself, or about what is left without the chunk.
Asked ==
  /\ pc = "baseline" => candidate = current /\ start = 0
  /\ pc = "candidate" => /\ candidate = Complement
                         /\ cache[candidate] = "unknown"
                         /\ start < Length /\ Length >= 2

\* While a reduction runs there is no result.
Open == pc # "idle" => result.status = "none"

Inv == /\ TypeOK /\ Counted /\ Agrees /\ Sound /\ Passed /\ Asked /\ Open
       /\ ResultReproduces /\ OneMinimal
----------------------------------------------------------------------------
\* Positions of units in a candidate.

Before(S, u) == {v \in S : v < u}

LEMMA FiniteCandidates ==
  ASSUME NEW S \in Candidates
  PROVE  IsFiniteSet(S) /\ Cardinality(S) \in Nat
<1>1. IsFiniteSet(Units)
  BY FS_Interval, SizeAssumption DEF Units
<1>2. IsFiniteSet(S)
  BY <1>1, FS_Subset DEF Candidates
<1> QED
  BY <1>2, FS_CardinalityType

\* A unit comes before the end of the candidate it is in.
LEMMA PositionInside ==
  ASSUME NEW S \in Candidates, NEW u \in S
  PROVE  Cardinality(Before(S, u)) \in 0 .. Cardinality(S) - 1
<1>0. S \subseteq Int
  BY SizeAssumption DEF Candidates, Units
<1>1. Before(S, u) \in Candidates /\ Before(S, u) \subseteq S \ {u} /\ S \ {u} \in Candidates
  <2>1. ~(u < u)
    BY <1>0
  <2> QED
    BY <2>1 DEF Before, Candidates
<1>2. Cardinality(S \ {u}) = Cardinality(S) - 1 /\ IsFiniteSet(S \ {u})
  BY FiniteCandidates, FS_RemoveElement
<1>3. Cardinality(Before(S, u)) <= Cardinality(S \ {u})
  BY <1>1, <1>2, FS_Subset
<1> QED
  BY <1>1, <1>2, <1>3, FiniteCandidates

\* Different units have different positions.
LEMMA PositionsDiffer ==
  ASSUME NEW S \in Candidates, NEW u \in S, NEW v \in S, u < v
  PROVE  Cardinality(Before(S, u)) < Cardinality(Before(S, v))
<1>1. S \subseteq Int
  BY SizeAssumption DEF Candidates, Units
<1>2. Before(S, u) \in Candidates /\ Before(S, v) \in Candidates
  BY DEF Before, Candidates
<1>3. Before(S, u) \subseteq Before(S, v) \ {u} /\ u \in Before(S, v)
  <2>1. \A w \in S : w < u => w < v /\ w # u
    BY <1>1
  <2> QED
    BY <2>1 DEF Before
<1>4. Cardinality(Before(S, v) \ {u}) = Cardinality(Before(S, v)) - 1
      /\ IsFiniteSet(Before(S, v) \ {u})
  BY <1>2, <1>3, FiniteCandidates, FS_RemoveElement
<1>5. Cardinality(Before(S, u)) <= Cardinality(Before(S, v) \ {u})
  BY <1>3, <1>4, FS_Subset
<1> QED
  BY <1>2, <1>4, <1>5, FiniteCandidates

\* Without a chunk of one unit, everything but the unit is left.
LEMMA OneUnitChunk ==
  ASSUME TypeOK, ChunkSize = 1, NEW u \in current, Position(u) = start
  PROVE  Complement = current \ {u}
<1>1. current \in Candidates /\ start \in Nat
  BY DEF TypeOK
<1>2. \A v \in current : Position(v) = Cardinality(Before(current, v))
  BY DEF Position, Before
<1>3. \A v \in current : v # u => Position(v) # start
  <2> SUFFICES ASSUME NEW v \in current, v # u PROVE Position(v) # start
    OBVIOUS
  <2>1. u \in Int /\ v \in Int
    BY <1>1, SizeAssumption DEF Candidates, Units
  <2>2. CASE u < v
    BY <1>1, <1>2, <2>2, PositionsDiffer, PositionInside
  <2>3. CASE v < u
    BY <1>1, <1>2, <2>3, PositionsDiffer, PositionInside
  <2> QED
    BY <2>1, <2>2, <2>3
<1>4. \A v \in current : Position(v) \in start .. start + ChunkSize - 1 <=> Position(v) = start
  <2>1. \A v \in current : Position(v) \in Nat
    BY <1>1, <1>2, PositionInside
  <2> QED
    BY <1>1, <2>1
<1> QED
  BY <1>3, <1>4 DEF Complement

\* As many chunks as units, or more, are chunks of one unit.
LEMMA SmallestChunks ==
  ASSUME NEW n \in Nat, NEW p \in Nat, 1 <= n, n <= p
  PROVE  (n + p - 1) \div p = 1
<1> DEFINE q == (n + p - 1) \div p
<1>1. q \in Int /\ p * q <= n + p - 1 /\ n + p - 1 < p * q + p
  BY SMT
<1>2. ~(q <= 0)
  <2> SUFFICES ASSUME q <= 0 PROVE FALSE
    OBVIOUS
  <2>1. p * q <= 0
    BY <1>1
  <2> QED
    BY <1>1, <2>1
<1>3. ~(q >= 2)
  <2> SUFFICES ASSUME q >= 2 PROVE FALSE
    OBVIOUS
  <2>1. p * q >= p + p
    BY <1>1
  <2> QED
    BY <1>1, <2>1
<1> QED
  BY <1>1, <1>2, <1>3
LEMMA ChunkSizes ==
  ASSUME TypeOK
  PROVE  Length \in Nat /\ ChunkSize \in Nat
<1>1. Length \in Nat /\ partitions \in Nat \ {0}
  BY FiniteCandidates DEF TypeOK, Length
<1>2. \A n \in Nat, p \in Nat \ {0} : (n + p - 1) \div p \in Nat
  BY SMT
<1> QED
  BY <1>1, <1>2 DEF ChunkSize

\* At the first chunk there is nothing behind.
LEMMA Restarting ==
  ASSUME current' \in Candidates, start' = 0
  PROVE  Passed'
<1>1. \A u \in current' : Position(u)' = Cardinality(Before(current', u))
  BY DEF Position, Before
<1>2. \A u \in current' : ~(Position(u)' < 0)
  BY <1>1, PositionInside, FiniteCandidates
<1> QED
  BY <1>2 DEF Passed

\* Moving on to the next chunk, after the one before could not be left out.
LEMMA MovingOn ==
  ASSUME TypeOK, NextChunk, Length >= 2,
         ChunkSize = 1 => \A u \in current : Position(u) < start => Needed(u)',
         Complement # {} => cache'[Complement] = "fails"
  PROVE  Passed'
<1> SUFFICES ASSUME ChunkSize = 1, NEW u \in current, Position(u) < start + 1
             PROVE  Needed(u)'
  BY DEF NextChunk, Passed, Length, ChunkSize, Position
<1>1. Position(u) \in Nat /\ start \in Nat /\ current \in Candidates
  BY PositionInside, FiniteCandidates DEF TypeOK, Position, Before
<1>2. CASE Position(u) < start
  BY <1>2
<1>3. CASE Position(u) = start
  <2>1. Complement = current \ {u}
    BY <1>3, OneUnitChunk
  <2>2. current \ {u} # {}
    BY <1>1, FiniteCandidates, FS_RemoveElement, FS_EmptySet DEF Length
  <2> QED
    BY <2>1, <2>2 DEF Needed, NextChunk
<1> QED
  BY <1>1, <1>2, <1>3
----------------------------------------------------------------------------
\* The invariant.

LEMMA InvInit == Init => Inv
<1> SUFFICES ASSUME Init PROVE Inv
  OBVIOUS
<1> {} \in Candidates
  BY DEF Candidates
<1>1. TypeOK
  BY RunsAssumption DEF Init, TypeOK, NoResult
<1> QED
  BY <1>1, AnswersAssumption
     DEF Inv, Init, Counted, Agrees, Sound, Passed, Asked, Open, ResultReproduces, OneMinimal, NoResult

LEMMA Reducing ==
  ASSUME Inv, NEW package \in Packages, Reduce(package)
  PROVE  Inv'
<1> package \in Candidates
  BY SizeAssumption
<1> USE DEF Inv, Reduce, StartTrial, Return, memory, trial, NoResult
<1>1. TypeOK'
  BY RunsAssumption DEF TypeOK, Candidates
<1>2. Counted' /\ Agrees' /\ Sound' /\ Passed'
  BY DEF Counted, Agrees, Sound, Passed
<1>3. Asked' /\ Open'
  BY DEF Asked, Open
<1> QED
  BY <1>1, <1>2, <1>3 DEF ResultReproduces, OneMinimal

LEMMA Running ==
  ASSUME Inv, NEW answer \in Answers, Run(answer)
  PROVE  Inv'
<1> USE DEF Inv, Run, InTrial, search, memory
<1>1. TypeOK'
  BY RunsAssumption DEF TypeOK
<1>2. Counted' /\ Agrees' /\ Sound'
  BY RunsAssumption DEF Counted, Agrees, Sound, TypeOK
<1>3. Passed' /\ Asked' /\ Open'
  BY DEF Passed, Needed, Length, ChunkSize, Position, Asked, Complement, Open
<1> QED
  BY <1>1, <1>2, <1>3 DEF ResultReproduces, OneMinimal

\* What a trial writes agrees with what it has heard.
LEMMA Remembering ==
  ASSUME Inv, InTrial, Remember
  PROVE  /\ Agrees'
         /\ cache' \in [Candidates -> {"unknown", "reproduces", "fails"}]
         /\ heard' \in [Candidates -> SUBSET Answers]
         /\ cache'[candidate] = Verdict
         /\ \A c \in Candidates \ {candidate} : cache'[c] = cache[c]
<1> USE DEF Inv, Remember
<1>1. observed # {} /\ candidate \in Candidates /\ observed \subseteq Answers
  BY RunsAssumption DEF Counted, TypeOK
<1>2. /\ cache' \in [Candidates -> {"unknown", "reproduces", "fails"}]
      /\ heard' \in [Candidates -> SUBSET Answers]
  BY <1>1 DEF TypeOK, Verdict
<1>3. Agrees'
  BY <1>1 DEF TypeOK, Agrees, Verdict
<1> QED
  BY <1>1, <1>2, <1>3 DEF TypeOK

\* The trial of the package itself.
LEMMA JudgingBaseline ==
  ASSUME Inv, JudgeBaseline
  PROVE  Inv'
<1> USE DEF Inv, JudgeBaseline, Return, search, trial
<1>1. TypeOK' /\ Counted' /\ Agrees'
  BY Remembering DEF TypeOK, Counted, InTrial, Candidates
<1>2. Sound'
  BY Remembering DEF Sound, InTrial, Asked, TypeOK
<1>3. Passed'
  BY Restarting DEF Asked, TypeOK
<1>4. Asked' /\ Open'
  BY DEF Asked, Open
<1> QED
  BY <1>1, <1>2, <1>3, <1>4 DEF Open, ResultReproduces, OneMinimal

\* The trial of what is left without a chunk.
LEMMA JudgingCandidate ==
  ASSUME Inv, JudgeCandidate
  PROVE  Inv'
<1> USE DEF Inv, JudgeCandidate, trial
<1>0. InTrial /\ candidate = Complement /\ cache[candidate] = "unknown" /\ candidate # current
  BY DEF InTrial, Asked, Sound
<1>1. Counted' /\ Agrees'
  BY <1>0, Remembering DEF Counted
<1>2. CASE Verdict = "reproduces"
  <2>1. TypeOK' /\ Sound'
    BY <1>0, <1>2, Remembering DEF TypeOK, Sound, Shrink
  <2>2. Passed'
    BY <1>2, Restarting DEF Shrink, TypeOK
  <2> QED
    BY <1>1, <2>1, <2>2 DEF Asked, Open, ResultReproduces, OneMinimal
<1>3. CASE Verdict # "reproduces"
  <2>1. cache'[candidate] = "fails"
    BY <1>0, <1>3, Remembering DEF Verdict
  <2>2. \A c \in Candidates : cache[c] = "fails" => cache'[c] = "fails"
    BY <1>0, <2>1, Remembering
  <2>3. \A u \in current : current \ {u} \in Candidates
    BY DEF TypeOK, Candidates
  <2>4. ChunkSize = 1 => \A u \in current : Position(u) < start => Needed(u)'
    BY <1>3, <2>2, <2>3 DEF Passed, Asked, Needed, NextChunk
  <2>5. Passed'
    BY <1>0, <1>3, <2>1, <2>4, MovingOn DEF Asked
  <2>6. TypeOK' /\ Sound'
    BY <1>0, <1>3, Remembering, ChunkSizes DEF TypeOK, Sound, NextChunk
  <2> QED
    BY <1>1, <1>3, <2>5, <2>6 DEF Asked, Open, ResultReproduces, OneMinimal
<1> QED
  BY <1>2, <1>3

\* An exception leaves reduce, from a run or from the sink.
LEMMA Raising ==
  ASSUME Inv, RunRaises \/ SinkRaises
  PROVE  Inv'
<1> USE DEF Inv, Return, search, trial
<1>1. {} \in Candidates
  BY DEF Candidates
<1>2. Sound' /\ Passed' /\ Asked' /\ Open'
  BY DEF RunRaises, SinkRaises, Sound, Passed, Asked, Open
<1>3. CASE RunRaises
  BY <1>1, <1>2, <1>3
     DEF RunRaises, memory, TypeOK, Counted, Agrees, ResultReproduces, OneMinimal
<1>4. CASE SinkRaises
  BY <1>1, <1>2, <1>4, Remembering
     DEF SinkRaises, TypeOK, Counted, ResultReproduces, OneMinimal
<1> QED
  BY <1>3, <1>4

LEMMA Asking ==
  ASSUME Inv, AskCandidate
  PROVE  Inv'
<1> USE DEF Inv, AskCandidate, Chunked, StartTrial, search, memory
<1>1. Complement \in Candidates
  BY DEF TypeOK, Complement, Candidates
<1>2. TypeOK' /\ Counted' /\ Agrees' /\ Sound'
  BY <1>1, RunsAssumption DEF TypeOK, Counted, Agrees, Sound
<1>3. Passed' /\ Asked' /\ Open'
  BY DEF Passed, Needed, Length, ChunkSize, Position, Asked, Complement, Open
<1> QED
  BY <1>2, <1>3 DEF ResultReproduces, OneMinimal

LEMMA Answering ==
  ASSUME Inv, CacheHit
  PROVE  Inv'
<1> USE DEF Inv, CacheHit, Chunked, trial, memory
<1>1. Complement \in Candidates
  BY DEF TypeOK, Complement, Candidates
<1>2. Counted' /\ Agrees' /\ Asked' /\ Open'
  BY DEF Counted, Agrees, Asked, Open
<1>3. CASE Complement # {} /\ cache[Complement] = "reproduces"
  <2>1. TypeOK' /\ Sound'
    BY <1>1, <1>3 DEF TypeOK, Sound, Shrink
  <2>2. Passed'
    BY <1>1, <1>3, Restarting DEF Shrink
  <2> QED
    BY <1>2, <2>1, <2>2 DEF ResultReproduces, OneMinimal
<1>4. CASE ~(Complement # {} /\ cache[Complement] = "reproduces")
  <2>1. TypeOK' /\ Sound'
    BY <1>4, ChunkSizes DEF TypeOK, Sound, NextChunk
  <2>2. Complement # {} => cache'[Complement] = "fails"
    BY <1>1, <1>4 DEF TypeOK
  <2>3. ChunkSize = 1 => \A u \in current : Position(u) < start => Needed(u)'
    BY <1>4 DEF Passed, Needed, NextChunk
  <2>4. Passed'
    BY <1>4, <2>2, <2>3, MovingOn
  <2> QED
    BY <1>2, <2>1, <2>4 DEF ResultReproduces, OneMinimal
<1> QED
  BY <1>3, <1>4

LEMMA Refining ==
  ASSUME Inv, Refine
  PROVE  Inv'
<1> USE DEF Inv, Refine, Chunked, trial, memory
<1>1. TypeOK'
  BY ChunkSizes DEF TypeOK
<1>2. Passed'
  BY Restarting DEF TypeOK
<1> QED
  BY <1>1, <1>2 DEF Counted, Agrees, Sound, Asked, Open, ResultReproduces, OneMinimal

\* The last pass had chunks of one unit and went over all of them.
LEMMA Concluding ==
  ASSUME Inv, Conclude
  PROVE  Inv'
<1> USE DEF Inv, Conclude, Return, search, trial, memory
<1>1. TypeOK' /\ Counted' /\ Agrees' /\ Sound' /\ Passed' /\ Asked' /\ Open'
  BY DEF TypeOK, Counted, Agrees, Sound, Passed, Asked, Open
<1>2. current \in Candidates /\ Length \in Nat /\ Length = Cardinality(current)
  BY ChunkSizes DEF TypeOK, Length
<1>3. ResultReproduces'
  BY <1>2 DEF ResultReproduces, Agrees, Sound
<1>4. ASSUME NEW u \in current, current \ {u} # {}
      PROVE  heard[current \ {u}] \notin {{}, {Required}}
  <2>1. current \ {u} \in Candidates
    BY <1>2 DEF Candidates
  <2>2. Length >= 2
    <3>1. Cardinality(current \ {u}) = Length - 1 /\ IsFiniteSet(current \ {u})
      BY <1>2, FiniteCandidates, FS_RemoveElement
    <3>2. Cardinality(current \ {u}) # 0
      BY <1>4, <3>1, FS_EmptySet
    <3> QED
      BY <1>2, <2>1, <3>1, <3>2, FiniteCandidates
  <2>3. ChunkSize = 1
    BY <1>2, <2>2, SmallestChunks DEF TypeOK, ChunkSize
  <2>4. Position(u) < start
    BY <1>2, <2>2, PositionInside DEF TypeOK, Position, Before
  <2>5. cache[current \ {u}] = "fails"
    BY <2>2, <2>3, <2>4 DEF Passed, Needed
  <2> QED
    BY <2>1, <2>5 DEF Agrees
<1>5. OneMinimal'
  BY <1>4 DEF OneMinimal
<1> QED
  BY <1>1, <1>3, <1>5

LEMMA InvStep == Inv /\ [Next]_vars => Inv'
<1> SUFFICES ASSUME Inv, [Next]_vars PROVE Inv'
  OBVIOUS
<1>1. CASE UNCHANGED vars
  BY <1>1 DEF vars, search, trial, memory, Inv, TypeOK, Counted, Agrees, Sound, Passed, Needed,
              Asked, Open, Length, ChunkSize, Position, Complement, ResultReproduces, OneMinimal
<1>2. CASE \E package \in Packages : Reduce(package)
  BY <1>2, Reducing
<1>3. CASE Proceed
  BY <1>3, Running, Raising, JudgingBaseline, JudgingCandidate, Asking, Answering, Refining,
     Concluding DEF Proceed
<1> QED
  BY <1>1, <1>2, <1>3 DEF Next

LEMMA AlwaysInv == Spec => []Inv
  BY InvInit, InvStep, PTL DEF Spec

\* The package of a reduction that succeeded was tried, and all runs of its latest
\* trial returned the required signature.
THEOREM SuccessReproduces == Spec => []ResultReproduces
<1>1. Inv => ResultReproduces
  BY DEF Inv
<1> QED
  BY AlwaysInv, <1>1, PTL

\* ddmin ends one-minimal: each package with one unit less was tried and failed,
\* for any size, oracle, cache left by earlier reductions, and errors between them.
THEOREM SuccessMinimal == Spec => []OneMinimal
<1>1. Inv => OneMinimal
  BY DEF Inv
<1> QED
  BY AlwaysInv, <1>1, PTL
----------------------------------------------------------------------------
\* What is counted, before the baseline of the reduction that runs: as if it had not begun.
Uses == IF pc = "baseline" THEN reductions - 1 ELSE reductions
Below(n, uses) == n = 0 \/ n < uses

\* A row is of a candidate that was tried, and there is one of it.
RowsOnce ==
  /\ \A row \in table : row.candidate \in Known
  /\ \A q, r \in table : q.candidate = r.candidate => q = r

\* Trials repeated, rows outdated and rows missing, against the calls of reduce.
Counting ==
  /\ reductions \in Nat /\ trials \in Nat /\ trials >= Cardinality(Known)
  /\ reductions = 0 => pc = "idle" /\ result.status # "raised"
  /\ Uses = 0 => Known = {}
  /\ Below(trials - Cardinality(Known), Uses)
  /\ Below(Cardinality(Outdated), Uses)
  /\ IF result.status = "raised"
     THEN Cardinality(Unstored) <= reductions
     ELSE Below(Cardinality(Unstored), reductions)

RowsInv == RowsOnce /\ Counting

LEMMA FiniteSorts ==
  /\ IsFiniteSet(Known) /\ IsFiniteSet(Unstored) /\ IsFiniteSet(Outdated)
  /\ Cardinality(Known) \in Nat /\ Cardinality(Unstored) \in Nat /\ Cardinality(Outdated) \in Nat
<1>1. IsFiniteSet(Candidates)
  <2>1. IsFiniteSet(Units)
    BY FS_Interval, SizeAssumption DEF Units
  <2> QED
    BY <2>1, FS_SUBSET DEF Candidates
<1>2. IsFiniteSet(Known) /\ IsFiniteSet(Unstored) /\ IsFiniteSet(Outdated)
  BY <1>1, FS_Subset DEF Known, Unstored, Outdated
<1> QED
  BY <1>2, FS_CardinalityType

LEMMA RowsInvInit == Init => RowsInv
<1> SUFFICES ASSUME Init PROVE RowsInv
  OBVIOUS
<1>1. Known = {} /\ Unstored = {} /\ Outdated = {}
  <2>1. \A c \in Candidates : cache[c] = "unknown"
    BY DEF Init
  <2>2. Known = {}
    BY <2>1 DEF Known
  <2> QED
    BY <2>2 DEF Unstored, Outdated
<1>2. /\ Cardinality(Known) = 0 /\ Cardinality(Unstored) = 0 /\ Cardinality(Outdated) = 0
  BY <1>1, FS_EmptySet
<1>3. reductions = 0 /\ trials = 0 /\ table = {} /\ pc = "idle" /\ result.status = "none"
  BY DEF Init, NoResult
<1>4. Uses = 0
  BY <1>3 DEF Uses
<1> QED
  BY <1>1, <1>2, <1>3, <1>4 DEF RowsInv, RowsOnce, Counting, Below

\* One candidate more or less in a finite set.
LEMMA OneMore ==
  ASSUME NEW S, NEW T, NEW c, IsFiniteSet(S), IsFiniteSet(T), T \subseteq S \cup {c}
  PROVE  /\ Cardinality(T) <= Cardinality(S) + 1
         /\ T \subseteq S => Cardinality(T) <= Cardinality(S)
<1>1. IsFiniteSet(S \cup {c}) /\ Cardinality(S \cup {c}) \in {Cardinality(S), Cardinality(S) + 1}
  BY FS_AddElement
<1> QED
  BY <1>1, FS_Subset, FS_CardinalityType

\* After a trial its candidate is known, what was missing or outdated elsewhere still is,
\* and only a candidate that was known before can have an outdated row.
LEMMA TrialKnown ==
  ASSUME Inv, RowsInv, InTrial, Remember, table' \in {table, Recorded}
  PROVE  /\ RowsOnce'
         /\ Known' = Known \cup {candidate}
         /\ Unstored' \subseteq Unstored \cup {candidate}
         /\ table' = Recorded => Unstored' \subseteq Unstored
         /\ Outdated' \subseteq Outdated \cup {candidate}
         /\ candidate \notin Known => Outdated' \subseteq Outdated
<1> DEFINE new == [candidate |-> candidate, verdict |-> Verdict]
<1>1. candidate \in Candidates /\ Verdict # "unknown"
  BY DEF Inv, TypeOK, Verdict
<1>2. /\ cache' = [cache EXCEPT ![candidate] = Verdict] /\ DOMAIN cache = Candidates
      /\ cache'[candidate] = Verdict
      /\ \A c \in Candidates : c # candidate => cache'[c] = cache[c]
  BY <1>1 DEF Remember, Inv, TypeOK
<1>3. Known' = Known \cup {candidate}
  BY <1>1, <1>2 DEF Known
<1>4. CASE table' = table
  <2>1. RowsOnce'
    BY <1>3, <1>4 DEF RowsInv, RowsOnce
  <2>2. Unstored' \subseteq Unstored \cup {candidate}
    BY <1>3, <1>4 DEF Unstored
  <2>3. ASSUME NEW c \in Outdated'
        PROVE  c \in Outdated \cup {candidate} /\ (candidate \notin Known => c \in Outdated)
    BY <1>1, <1>2, <1>3, <1>4 DEF Outdated, Known, RowsInv, RowsOnce
  <2>4. table' = Recorded => Unstored' \subseteq Unstored
    <3> SUFFICES ASSUME table' = Recorded, NEW c \in Unstored' PROVE c \in Unstored
      OBVIOUS
    <3>1. \E row \in table : row.candidate = candidate
      <4>1. new.candidate = candidate
        OBVIOUS
      <4>2. new \in Recorded \/ \E row \in table : row.candidate = candidate
        BY DEF Recorded
      <4> QED
        BY <1>4, <4>1, <4>2
    <3> QED
      BY <1>3, <1>4, <3>1 DEF Unstored
  <2> QED
    BY <1>3, <2>1, <2>2, <2>3, <2>4
<1>5. CASE table' # table
  <2>1. table' = table \cup {new} /\ \A row \in table : row.candidate # candidate
    BY <1>5 DEF Recorded
  <2>2. new.candidate = candidate /\ new.verdict = Verdict
    OBVIOUS
  <2> HIDE DEF new
  <2>3. RowsOnce'
    BY <1>3, <2>1, <2>2 DEF RowsInv, RowsOnce
  <2>4. Unstored' \subseteq Unstored
    BY <1>3, <2>1, <2>2 DEF Unstored
  <2>5. Outdated' \subseteq Outdated
    BY <1>1, <1>2, <1>3, <2>1, <2>2 DEF Outdated, Known
  <2> QED
    BY <1>3, <2>3, <2>4, <2>5
<1> QED
  BY <1>4, <1>5

\* The counts after a trial: the baseline may repeat one, a candidate is a new one.
LEMMA TrialCounts ==
  ASSUME Inv, RowsInv, InTrial, Remember, table' \in {table, Recorded},
         reductions' = reductions, pc' \in {"idle", "scan"}
  PROVE  /\ trials' \in Nat /\ trials' >= Cardinality(Known')
         /\ reductions' >= 1 /\ Uses' = reductions
         /\ Below(trials' - Cardinality(Known'), Uses') /\ Below(Cardinality(Outdated'), Uses')
         /\ Cardinality(Unstored') <= Cardinality(Unstored) + 1
         /\ table' = Recorded => Cardinality(Unstored') <= Cardinality(Unstored)
         /\ Cardinality(Unstored') \in Nat
<1>1. /\ Known' = Known \cup {candidate}
      /\ Unstored' \subseteq Unstored \cup {candidate}
      /\ table' = Recorded => Unstored' \subseteq Unstored
      /\ Outdated' \subseteq Outdated \cup {candidate}
      /\ candidate \notin Known => Outdated' \subseteq Outdated
  BY TrialKnown
<1>2. trials' = trials + 1 /\ trials \in Nat /\ reductions \in Nat /\ trials >= Cardinality(Known)
  BY DEF Remember, RowsInv, Counting
<1>3. reductions >= 1 /\ pc \in {"baseline", "candidate"}
  BY <1>2 DEF RowsInv, Counting, InTrial
<1>4. Uses' = reductions /\ Uses = IF pc = "baseline" THEN reductions - 1 ELSE reductions
  BY DEF Uses
<1>5. /\ IsFiniteSet(Known) /\ IsFiniteSet(Unstored) /\ IsFiniteSet(Outdated)
      /\ Cardinality(Known) \in Nat /\ Cardinality(Unstored) \in Nat /\ Cardinality(Outdated) \in Nat
  BY FiniteSorts
<1>6. IsFiniteSet(Unstored') /\ IsFiniteSet(Outdated')
  <2>1. IsFiniteSet(Unstored \cup {candidate}) /\ IsFiniteSet(Outdated \cup {candidate})
    BY <1>5, FS_AddElement
  <2> QED
    BY <1>1, <2>1, FS_Subset
<1>7. Cardinality(Unstored') \in Nat /\ Cardinality(Outdated') \in Nat
  BY <1>6, FS_CardinalityType
<1>8. /\ Cardinality(Unstored') <= Cardinality(Unstored) + 1
      /\ table' = Recorded => Cardinality(Unstored') <= Cardinality(Unstored)
  BY <1>1, <1>5, <1>6, OneMore
<1>9. CASE candidate \in Known
  <2>1. pc = "baseline"
    BY <1>3, <1>9 DEF Inv, Asked, Known
  <2>2. Known' = Known /\ Uses # 0
    BY <1>1, <1>9 DEF RowsInv, Counting
  <2>3. Cardinality(Outdated') <= Cardinality(Outdated) + 1
    BY <1>1, <1>5, <1>6, OneMore
  <2>4. Below(trials - Cardinality(Known), Uses) /\ Below(Cardinality(Outdated), Uses)
    BY DEF RowsInv, Counting
  <2> QED
    BY <1>2, <1>3, <1>4, <1>5, <1>7, <1>8, <2>1, <2>2, <2>3, <2>4 DEF Below
<1>10. CASE candidate \notin Known
  <2>1. Cardinality(Known') = Cardinality(Known) + 1
    BY <1>1, <1>5, <1>10, FS_AddElement
  <2>2. Cardinality(Outdated') <= Cardinality(Outdated)
    BY <1>1, <1>5, <1>6, <1>10, OneMore
  <2>3. Below(trials - Cardinality(Known), Uses) /\ Below(Cardinality(Outdated), Uses)
    BY DEF RowsInv, Counting
  <2> QED
    BY <1>2, <1>3, <1>4, <1>5, <1>7, <1>8, <2>1, <2>2, <2>3 DEF Below
<1> QED
  BY <1>9, <1>10

LEMMA RowsInvStep == Inv /\ RowsInv /\ [Next]_vars => RowsInv'
<1> SUFFICES ASSUME Inv, RowsInv, [Next]_vars PROVE RowsInv'
  OBVIOUS
<1> USE DEF search, trial, memory
<1>1. ASSUME UNCHANGED <<cache, table>>
      PROVE  Known' = Known /\ Unstored' = Unstored /\ Outdated' = Outdated /\ RowsOnce'
  BY <1>1 DEF Known, Unstored, Outdated, RowsInv, RowsOnce
<1>2. /\ Cardinality(Known) \in Nat /\ Cardinality(Unstored) \in Nat /\ Cardinality(Outdated) \in Nat
  BY FiniteSorts
<1>3. ASSUME NEW package \in Packages, Reduce(package) PROVE RowsInv'
  <2>1. /\ reductions' = reductions + 1 /\ UNCHANGED <<cache, trials, table>> /\ pc = "idle"
        /\ pc' \in {"idle", "baseline"} /\ result'.status # "raised"
    BY <1>3 DEF Reduce, Return, StartTrial, NoResult
  <2>2. Uses = reductions /\ Uses' \in {reductions, reductions + 1} /\ reductions \in Nat
    BY <2>1 DEF Uses, RowsInv, Counting
  <2>3. Known' = Known /\ Unstored' = Unstored /\ Outdated' = Outdated /\ RowsOnce'
    BY <1>1, <2>1
  <2> QED
    BY <1>2, <2>1, <2>2, <2>3 DEF RowsInv, Counting, Below
<1>4. CASE JudgeBaseline \/ JudgeCandidate
  <2>1. /\ InTrial /\ Remember /\ table' = Recorded /\ reductions' = reductions
        /\ pc' \in {"idle", "scan"}
    BY <1>4 DEF JudgeBaseline, JudgeCandidate, InTrial, Return
  <2>2. result.status # "raised" /\ result'.status # "raised"
    BY <1>4 DEF Inv, Open, JudgeBaseline, JudgeCandidate, Return
  <2>3. RowsOnce'
    BY <2>1, TrialKnown
  <2>4. /\ trials' \in Nat /\ trials' >= Cardinality(Known')
        /\ reductions' >= 1 /\ Uses' = reductions
        /\ Below(trials' - Cardinality(Known'), Uses') /\ Below(Cardinality(Outdated'), Uses')
        /\ Cardinality(Unstored') <= Cardinality(Unstored) /\ Cardinality(Unstored') \in Nat
    BY <2>1, TrialCounts
  <2> QED
    BY <1>2, <2>1, <2>2, <2>3, <2>4 DEF RowsInv, Counting, Below
<1>5. CASE SinkRaises
  <2>1. /\ InTrial /\ Remember /\ table' = table /\ reductions' = reductions
        /\ pc' = "idle" /\ result'.status = "raised" /\ result.status # "raised"
    BY <1>5 DEF SinkRaises, Return, InTrial, Inv, Open
  <2>2. RowsOnce'
    BY <2>1, TrialKnown
  <2>3. /\ trials' \in Nat /\ trials' >= Cardinality(Known')
        /\ reductions' >= 1 /\ Uses' = reductions
        /\ Below(trials' - Cardinality(Known'), Uses') /\ Below(Cardinality(Outdated'), Uses')
        /\ Cardinality(Unstored') <= Cardinality(Unstored) + 1 /\ Cardinality(Unstored') \in Nat
    BY <2>1, TrialCounts
  <2> QED
    BY <1>2, <2>1, <2>2, <2>3 DEF RowsInv, Counting, Below
<1>6. ASSUME UNCHANGED <<cache, table, trials, reductions>>, Uses' \in {Uses, reductions},
             pc # "idle" \/ pc' = pc, result' = result \/ pc # "idle"
      PROVE  RowsInv'
  <2>1. Known' = Known /\ Unstored' = Unstored /\ Outdated' = Outdated /\ RowsOnce'
    BY <1>1, <1>6
  <2>2. /\ reductions \in Nat /\ Uses \in {reductions, reductions - 1}
        /\ pc = "idle" => Uses = reductions
        /\ pc # "idle" => reductions >= 1
        /\ trials \in Nat /\ trials >= Cardinality(Known)
    BY DEF RowsInv, Counting, Uses
  <2>3. pc # "idle" => result.status # "raised"
    BY DEF Inv, Open
  <2>4. IF result'.status = "raised"
        THEN Cardinality(Unstored) <= reductions
        ELSE Below(Cardinality(Unstored), reductions)
    BY <1>2, <1>6, <2>2, <2>3 DEF RowsInv, Counting, Below
  <2>5. Uses' = 0 => Known = {}
    BY <1>6, <2>2 DEF RowsInv, Counting, Uses
  <2>6. Below(trials - Cardinality(Known), Uses') /\ Below(Cardinality(Outdated), Uses')
    BY <1>2, <1>6, <2>2 DEF RowsInv, Counting, Below
  <2>7. reductions = 0 => pc' = "idle" /\ result'.status # "raised"
    BY <1>6, <2>2 DEF RowsInv, Counting
  <2> QED
    BY <1>6, <2>1, <2>2, <2>4, <2>5, <2>6, <2>7 DEF RowsInv, Counting
<1>7. CASE RunRaises
  BY <1>6, <1>7 DEF RunRaises, Return, InTrial, Uses
<1>8. CASE AskCandidate \/ CacheHit \/ Refine \/ Conclude
  BY <1>6, <1>8 DEF AskCandidate, CacheHit, Refine, Conclude, StartTrial, Return, Chunked, Uses
<1>9. ASSUME NEW answer \in Answers, Run(answer) PROVE RowsInv'
  BY <1>6, <1>9 DEF Run, Uses
<1>10. CASE UNCHANGED vars
  BY <1>6, <1>10 DEF vars, Uses
<1> QED
  BY <1>3, <1>4, <1>5, <1>7, <1>8, <1>9, <1>10 DEF Next, Proceed

\* However often a reducer is used, whatever the oracle answers and whenever its sink
\* raises, the table lacks at most one trial of each call of reduce that raised, and only
\* a repeated baseline is tried again or leaves its row outdated: in the first call each
\* trial has its own row with the verdict ddmin went by, unless it raises.
THEOREM TrialsHaveRows == Spec => []TrialsStored
<1>1. RowsInv => TrialsStored
  <2> SUFFICES ASSUME RowsInv PROVE TrialsStored
    OBVIOUS
  <2>1. /\ Cardinality(Known) \in Nat /\ Cardinality(Unstored) \in Nat /\ Cardinality(Outdated) \in Nat
    BY FiniteSorts
  <2>2. \A n \in Nat : Below(n, Uses) => Few(n)
    BY DEF Below, Uses, Few, RowsInv, Counting
  <2> QED
    BY <2>1, <2>2 DEF RowsInv, RowsOnce, Counting, TrialsStored, Below, Few
<1> QED
  BY AlwaysInv, RowsInvInit, RowsInvStep, <1>1, PTL DEF Spec
----------------------------------------------------------------------------
\* How far a reduction is from its end.  What can still be taken from the package
\* counts most, then how much finer it can be cut, the part of the pass that is left,
\* and the steps of a trial.
InSearch == pc \in {"scan", "candidate"}
UnitsLeft == IF pc = "idle" THEN 0 ELSE IF pc = "baseline" THEN Size + 2 ELSE Length + 1
FinerLeft == IF InSearch /\ partitions < Length THEN Length - partitions ELSE 0
PassLeft == IF InSearch /\ start < Length THEN Length - start ELSE 0
TrialLeft ==
  IF pc = "idle" THEN 0 ELSE IF pc = "scan" THEN StabilityRuns + 1 ELSE StabilityRuns - runs

StepsLeft ==
  ((UnitsLeft * (Size + 1) + FinerLeft) * (Size + 1) + PassLeft) * (StabilityRuns + 2) + TrialLeft
MaxSteps == (((Size + 2) * (Size + 1)) * (Size + 1)) * (StabilityRuns + 2) + StabilityRuns

\* More of what counts more is more.
LEMMA Carry ==
  ASSUME NEW w \in Nat, NEW x \in Nat, NEW y \in Nat, NEW r \in Nat, NEW s \in Nat,
         s < w, y < x \/ (y = x /\ s < r)
  PROVE  y * w + s < x * w + r
<1>1. x * w \in Nat /\ y * w \in Nat
  OBVIOUS
<1>2. CASE y = x /\ s < r
  BY <1>1, <1>2
<1>3. CASE y < x
  <2>1. PICK e \in Nat : x = y + 1 + e
    <3>1. x - y - 1 \in Nat /\ x = y + 1 + (x - y - 1)
      BY <1>3
    <3> QED
      BY <3>1
  <2>2. x * w = y * w + w + e * w /\ e * w \in Nat
    BY <2>1
  <2> QED
    BY <1>1, <2>2
<1> QED
  BY <1>2, <1>3

CountsTyped ==
  /\ UnitsLeft \in 0 .. Size + 2 /\ FinerLeft \in 0 .. Size /\ PassLeft \in 0 .. Size
  /\ TrialLeft \in 0 .. StabilityRuns + 1 /\ Length \in 0 .. Size

LEMMA Counts == TypeOK => CountsTyped
<1> SUFFICES ASSUME TypeOK PROVE CountsTyped
  OBVIOUS
<1>1. Length \in 0 .. Size
  <2>1. IsFiniteSet(Units) /\ Cardinality(Units) = Size
    BY FS_Interval, SizeAssumption DEF Units
  <2>2. current \in SUBSET Units
    BY DEF TypeOK, Candidates
  <2>3. Cardinality(current) <= Size
    BY <2>1, <2>2, FS_Subset
  <2> QED
    BY <2>3, ChunkSizes, SizeAssumption DEF Length
<1>2. /\ partitions \in Nat /\ start \in Nat /\ runs \in 0 .. StabilityRuns
      /\ StabilityRuns \in Nat /\ Size \in Nat
  BY SizeAssumption, RunsAssumption DEF TypeOK
<1> QED
  BY <1>1, <1>2 DEF CountsTyped, UnitsLeft, FinerLeft, PassLeft, TrialLeft

Lower ==
  \/ UnitsLeft' < UnitsLeft
  \/ /\ UnitsLeft' = UnitsLeft
     /\ \/ FinerLeft' < FinerLeft
        \/ /\ FinerLeft' = FinerLeft
           /\ \/ PassLeft' < PassLeft
              \/ PassLeft' = PassLeft /\ TrialLeft' < TrialLeft

\* The same of four numbers each.
LEMMA FourLower ==
  ASSUME NEW n \in Nat, NEW w \in Nat,
         NEW a \in Nat, NEW b \in Nat, NEW c \in Nat, NEW d \in Nat,
         NEW a2 \in Nat, NEW b2 \in Nat, NEW c2 \in Nat, NEW d2 \in Nat,
         b2 < n, c2 < n, d2 < w,
         \/ a2 < a
         \/ a2 = a /\ (b2 < b \/ (b2 = b /\ (c2 < c \/ (c2 = c /\ d2 < d))))
  PROVE  ((a2 * n + b2) * n + c2) * w + d2 < ((a * n + b) * n + c) * w + d
<1> DEFINE x == a * n + b
           y == x * n + c
           x2 == a2 * n + b2
           y2 == x2 * n + c2
<1>1. x \in Nat /\ x2 \in Nat
  <2>1. a * n \in Nat /\ a2 * n \in Nat
    OBVIOUS
  <2> QED
    BY <2>1
<1>2. x2 < x \/ (x2 = x /\ (c2 < c \/ (c2 = c /\ d2 < d)))
  <2>1. CASE a2 < a \/ (a2 = a /\ b2 < b)
    BY <2>1, Carry
  <2>2. CASE a2 = a /\ b2 = b /\ (c2 < c \/ (c2 = c /\ d2 < d))
    BY <2>2
  <2> QED
    BY <2>1, <2>2
<1> HIDE DEF x, x2
<1>3. y \in Nat /\ y2 \in Nat
  <2>1. x * n \in Nat /\ x2 * n \in Nat
    BY <1>1
  <2> QED
    BY <2>1
<1>4. y2 < y \/ (y2 = y /\ d2 < d)
  <2>1. CASE x2 < x \/ (x2 = x /\ c2 < c)
    BY <1>1, <2>1, Carry
  <2>2. CASE x2 = x /\ c2 = c /\ d2 < d
    BY <2>2
  <2> QED
    BY <1>2, <2>1, <2>2
<1> HIDE DEF y, y2
<1>5. y2 * w + d2 < y * w + d
  BY <1>3, <1>4, Carry
<1> QED
  BY <1>5 DEF x, x2, y, y2

LEMMA LowerIsLess ==
  ASSUME CountsTyped, CountsTyped', Lower
  PROVE  StepsLeft' < StepsLeft
<1>1. Size + 1 \in Nat /\ StabilityRuns + 2 \in Nat
  BY SizeAssumption, RunsAssumption
<1>2. /\ UnitsLeft \in Nat /\ FinerLeft \in Nat /\ PassLeft \in Nat /\ TrialLeft \in Nat
      /\ UnitsLeft' \in Nat /\ FinerLeft' \in Nat /\ PassLeft' \in Nat /\ TrialLeft' \in Nat
      /\ FinerLeft' < Size + 1 /\ PassLeft' < Size + 1 /\ TrialLeft' < StabilityRuns + 2
  BY SizeAssumption, RunsAssumption DEF CountsTyped
<1>3. \/ UnitsLeft' < UnitsLeft
      \/ /\ UnitsLeft' = UnitsLeft
         /\ \/ FinerLeft' < FinerLeft
            \/ /\ FinerLeft' = FinerLeft
               /\ \/ PassLeft' < PassLeft
                  \/ PassLeft' = PassLeft /\ TrialLeft' < TrialLeft
  BY DEF Lower
<1>4. StepsLeft' = ((UnitsLeft' * (Size + 1) + FinerLeft') * (Size + 1) + PassLeft')
                     * (StabilityRuns + 2) + TrialLeft'
  BY DEF StepsLeft
<1>5. ((UnitsLeft' * (Size + 1) + FinerLeft') * (Size + 1) + PassLeft') * (StabilityRuns + 2) + TrialLeft'
        < ((UnitsLeft * (Size + 1) + FinerLeft) * (Size + 1) + PassLeft) * (StabilityRuns + 2) + TrialLeft
  BY <1>1, <1>2, <1>3, FourLower
<1> QED
  BY <1>4, <1>5 DEF StepsLeft

\* As many steps at most, and none exactly when no reduction is under way.
LEMMA StepsBounded ==
  ASSUME CountsTyped, TypeOK
  PROVE  StepsLeft \in 0 .. MaxSteps /\ (StepsLeft = 0 <=> pc = "idle")
<1> DEFINE n == Size + 1
           w == StabilityRuns + 2
           top == UnitsLeft * n + FinerLeft
           mid == top * n + PassLeft
<1>1. /\ n \in Nat \ {0} /\ w \in Nat \ {0} /\ StabilityRuns \in Nat
      /\ UnitsLeft \in Nat /\ FinerLeft \in Nat /\ PassLeft \in Nat /\ TrialLeft \in Nat
      /\ FinerLeft < n /\ PassLeft < n /\ TrialLeft < w /\ Size + 2 \in Nat
  BY SizeAssumption, RunsAssumption DEF CountsTyped
<1>2. CASE pc = "idle"
  <2>1. UnitsLeft = 0 /\ FinerLeft = 0 /\ PassLeft = 0 /\ TrialLeft = 0
    BY <1>2 DEF UnitsLeft, FinerLeft, PassLeft, TrialLeft, InSearch
  <2>2. StepsLeft = 0
    BY <1>1, <2>1 DEF StepsLeft
  <2>3. MaxSteps \in Nat
    <3>1. (Size + 2) * n \in Nat
      BY <1>1
    <3>2. ((Size + 2) * n) * n \in Nat
      BY <1>1, <3>1
    <3>3. (((Size + 2) * n) * n) * w \in Nat
      BY <1>1, <3>2
    <3> QED
      BY <1>1, <3>3 DEF MaxSteps
  <2> QED
    BY <1>2, <2>2, <2>3
<1>3. CASE pc # "idle"
  <2>1. UnitsLeft >= 1
    BY <1>3, SizeAssumption DEF UnitsLeft, CountsTyped
  <2>2. ((0 * n + 0) * n + 0) * w + 0 < ((UnitsLeft * n + FinerLeft) * n + PassLeft) * w + TrialLeft
    <3> HIDE DEF n, w
    <3> QED
      BY <1>1, <2>1, FourLower
  <2>3. StepsLeft > 0
    <3>1. ((0 * n + 0) * n + 0) * w + 0 = 0
      BY <1>1
    <3> QED
      BY <2>2, <3>1 DEF StepsLeft
  <2>4. StepsLeft \in Int /\ MaxSteps \in Int
    <3>1. UnitsLeft * n \in Nat /\ (Size + 2) * n \in Nat
      BY <1>1
    <3>2. top \in Nat
      BY <1>1, <3>1
    <3> HIDE DEF top
    <3>3. top * n \in Nat /\ ((Size + 2) * n) * n \in Nat
      BY <1>1, <3>1, <3>2
    <3>4. mid \in Nat
      BY <1>1, <3>3
    <3> HIDE DEF mid
    <3>5. mid * w \in Nat /\ (((Size + 2) * n) * n) * w \in Nat
      BY <1>1, <3>3, <3>4
    <3> QED
      BY <1>1, <3>5 DEF StepsLeft, MaxSteps, top, mid
  <2>5. StepsLeft <= MaxSteps
    <3>1. CASE pc = "baseline"
      <4>1. /\ UnitsLeft = Size + 2 /\ FinerLeft = 0 /\ PassLeft = 0
            /\ TrialLeft <= StabilityRuns
        BY <3>1, RunsAssumption DEF UnitsLeft, FinerLeft, PassLeft, TrialLeft, InSearch, TypeOK
      <4>2. StepsLeft = (((Size + 2) * n + 0) * n + 0) * w + TrialLeft
        BY <4>1 DEF StepsLeft
      <4>3. (Size + 2) * n \in Nat
        BY <1>1
      <4>4. ((Size + 2) * n) * n \in Nat
        BY <1>1, <4>3
      <4>5. (((Size + 2) * n) * n) * w \in Nat
        BY <1>1, <4>4
      <4>6. StepsLeft = (((Size + 2) * n) * n) * w + TrialLeft
        BY <4>2, <4>3, <4>4
      <4> QED
        BY <1>1, <4>1, <4>5, <4>6 DEF MaxSteps
    <3>2. CASE pc # "baseline"
      <4>1. UnitsLeft < Size + 2
        BY <1>3, <3>2, SizeAssumption DEF UnitsLeft, CountsTyped
      <4>2. ((UnitsLeft * n + FinerLeft) * n + PassLeft) * w + TrialLeft
              < (((Size + 2) * n + 0) * n + 0) * w + 0
        <5> HIDE DEF n, w
        <5> QED
          BY <1>1, <4>1, FourLower
      <4>3. (Size + 2) * n \in Nat
        BY <1>1
      <4>4. ((Size + 2) * n) * n \in Nat
        BY <1>1, <4>3
      <4>5. (((Size + 2) * n) * n) * w \in Nat
        BY <1>1, <4>4
      <4>6. (((Size + 2) * n + 0) * n + 0) * w + 0 = (((Size + 2) * n) * n) * w
        BY <4>3, <4>4, <4>5
      <4>7. StepsLeft < (((Size + 2) * n) * n) * w
        BY <4>2, <4>6 DEF StepsLeft
      <4> QED
        BY <1>1, <4>5, <4>7, <2>4 DEF MaxSteps
    <3> QED
      BY <3>1, <3>2
  <2> QED
    BY <1>3, <2>3, <2>4, <2>5
<1> QED
  BY <1>2, <1>3

\* Some unit stands at every place of a candidate, so that a chunk that begins inside
\* is not empty.
LEMMA UnitAt ==
  ASSUME NEW S \in Candidates, NEW k \in Nat, k < Cardinality(S)
  PROVE  \E u \in S : Cardinality(Before(S, u)) = k
<1> DEFINE n == Cardinality(S)
           f == [u \in S |-> Cardinality(Before(S, u))]
           T == 0 .. n - 1
<1>1. IsFiniteSet(S) /\ n \in Nat /\ S \subseteq Int
  BY FiniteCandidates, SizeAssumption DEF Candidates, Units
<1>2. f \in [S -> T]
  BY PositionInside
<1>3. \A u, v \in S : f[u] = f[v] => u = v
  <2> SUFFICES ASSUME NEW u \in S, NEW v \in S, u # v PROVE f[u] # f[v]
    OBVIOUS
  <2>1. f[u] \in Int /\ f[v] \in Int
    BY <1>1, <1>2
  <2>2. CASE u < v
    BY <2>1, <2>2, PositionsDiffer
  <2>3. CASE v < u
    BY <2>1, <2>3, PositionsDiffer
  <2> QED
    BY <1>1, <2>2, <2>3
<1>4. IsFiniteSet(T) /\ Cardinality(T) = n
  <2>1. n - 1 \in Int /\ 0 \in Int
    BY <1>1
  <2>2. IsFiniteSet(T) /\ Cardinality(T) = IF 0 > n - 1 THEN 0 ELSE (n - 1) - 0 + 1
    <3> HIDE DEF n
    <3> QED
      BY <2>1, FS_Interval
  <2> QED
    BY <1>1, <2>2
<1>5. f \in Injection(S, T)
  BY <1>2, <1>3 DEF Injection, IsInjective
<1>6. f \in Surjection(S, T)
  BY <1>4, <1>5, FS_Injection
<1>7. k \in T
  BY <1>1
<1> QED
  BY <1>6, <1>7 DEF Surjection

LEMMA ComplementSmaller ==
  ASSUME TypeOK, start < Length
  PROVE  /\ Complement \in Candidates /\ Cardinality(Complement) < Length
         /\ ChunkSize >= 1
<1>1. /\ current \in Candidates /\ start \in Nat /\ Length = Cardinality(current)
      /\ Length \in Nat /\ partitions \in Nat \ {0} /\ Length >= 1
  BY ChunkSizes DEF TypeOK, Length
<1>2. ChunkSize >= 1
  <2>1. \A n \in Nat \ {0}, p \in Nat \ {0} : (n + p - 1) \div p >= 1
    BY SMT
  <2> QED
    BY <1>1, <2>1 DEF ChunkSize
<1>3. PICK u \in current : Cardinality(Before(current, u)) = start
  BY <1>1, UnitAt
<1>4. u \notin Complement /\ Complement \subseteq current
  <2>1. Position(u) = start
    BY <1>3 DEF Position, Before
  <2>2. start \in start .. start + ChunkSize - 1
    BY <1>1, <1>2, ChunkSizes
  <2> QED
    BY <2>1, <2>2 DEF Complement
<1>5. IsFiniteSet(current \ {u}) /\ Cardinality(current \ {u}) = Length - 1
  BY <1>1, FiniteCandidates, FS_RemoveElement
<1>6. Complement \in SUBSET (current \ {u})
  BY <1>4
<1>7. Cardinality(Complement) <= Length - 1 /\ Complement \in Candidates
  BY <1>1, <1>5, <1>6, FS_Subset DEF Candidates
<1>8. Cardinality(Complement) \in Nat
  BY <1>7, FiniteCandidates
<1> QED
  BY <1>1, <1>2, <1>7, <1>8

LEMMA EndingLowers ==
  ASSUME CountsTyped, pc # "idle", pc' = "idle"
  PROVE  Lower
<1>1. UnitsLeft' = 0
  BY DEF UnitsLeft
<1>2. UnitsLeft > 0
  BY SizeAssumption DEF UnitsLeft, CountsTyped
<1> QED
  BY <1>1, <1>2 DEF Lower

\* A chunk answered: less to reduce, or less of the pass.
LEMMA AnswerLowers ==
  ASSUME TypeOK, CountsTyped, InSearch, start < Length, pc' = "scan",
         Shrink(Complement) \/ NextChunk
  PROVE  Lower
<1>1. /\ Length \in Nat /\ start \in Nat /\ ChunkSize \in Nat /\ ChunkSize >= 1
      /\ Cardinality(Complement) < Length
  BY ChunkSizes, ComplementSmaller DEF TypeOK
<1>2. UnitsLeft = Length + 1 /\ UnitsLeft' = Length' + 1 /\ InSearch'
  BY DEF UnitsLeft, InSearch
<1>3. CASE Shrink(Complement)
  <2>1. Length' = Cardinality(Complement)
    BY <1>3 DEF Shrink, Length
  <2>2. Length' \in Nat
    BY <2>1, ComplementSmaller, FiniteCandidates
  <2> QED
    BY <1>1, <1>2, <2>1, <2>2 DEF Lower
<1>4. CASE NextChunk
  <2>1. Length' = Length /\ partitions' = partitions /\ start' = start + ChunkSize
    BY <1>4 DEF NextChunk, Length
  <2>2. UnitsLeft' = UnitsLeft /\ FinerLeft' = FinerLeft
    BY <1>2, <2>1 DEF FinerLeft
  <2>3. PassLeft' < PassLeft
    BY <1>1, <1>2, <2>1 DEF PassLeft
  <2> QED
    BY <2>2, <2>3 DEF Lower
<1> QED
  BY <1>3, <1>4

LEMMA Descending ==
  ASSUME Inv, CountsTyped, Proceed
  PROVE  Lower
<1>1. TypeOK /\ Asked
  BY DEF Inv
<1>2. ASSUME NEW answer \in Answers, Run(answer) PROVE Lower
  <2>1. /\ UNCHANGED <<pc, current, partitions, start>> /\ runs' = runs + 1 /\ InTrial
        /\ runs < StabilityRuns
    BY <1>2 DEF Run, search
  <2>2. UnitsLeft' = UnitsLeft /\ FinerLeft' = FinerLeft /\ PassLeft' = PassLeft
    BY <2>1 DEF UnitsLeft, FinerLeft, PassLeft, InSearch, Length
  <2>3. TrialLeft' < TrialLeft
    BY <1>1, <2>1, RunsAssumption DEF TrialLeft, InTrial, TypeOK
  <2> QED
    BY <2>2, <2>3 DEF Lower
<1>3. CASE RunRaises \/ SinkRaises \/ Conclude
  BY <1>3, EndingLowers DEF RunRaises, SinkRaises, Conclude, InTrial, Return
<1>4. CASE JudgeBaseline
  <2>1. CASE pc' = "idle"
    BY <1>4, <2>1, EndingLowers DEF JudgeBaseline
  <2>2. CASE pc' = "scan"
    <3>1. UnitsLeft = Size + 2 /\ UnitsLeft' = Length + 1
      BY <1>4, <2>2 DEF JudgeBaseline, UnitsLeft, search, Length
    <3> QED
      BY <3>1, SizeAssumption DEF Lower, CountsTyped
  <2> QED
    BY <1>4, <2>1, <2>2 DEF JudgeBaseline, Return
<1>5. CASE JudgeCandidate
  BY <1>1, <1>5, AnswerLowers DEF JudgeCandidate, Asked, InSearch
<1>6. CASE AskCandidate
  <2>1. UNCHANGED <<current, partitions, start>> /\ pc = "scan" /\ pc' = "candidate" /\ runs' = 0
    BY <1>6 DEF AskCandidate, Chunked, StartTrial, search
  <2>2. UnitsLeft' = UnitsLeft /\ FinerLeft' = FinerLeft /\ PassLeft' = PassLeft
    BY <2>1 DEF UnitsLeft, FinerLeft, PassLeft, InSearch, Length
  <2>3. TrialLeft' < TrialLeft
    BY <2>1, RunsAssumption DEF TrialLeft
  <2> QED
    BY <2>2, <2>3 DEF Lower
<1>7. CASE CacheHit
  <2>1. pc = "scan" /\ pc' = "scan" /\ start < Length /\ (Shrink(Complement) \/ NextChunk)
    BY <1>7 DEF CacheHit, Chunked
  <2> QED
    BY <1>1, <2>1, AnswerLowers DEF InSearch
<1>8. CASE Refine
  <2>1. /\ pc = "scan" /\ pc' = "scan" /\ current' = current /\ partitions < Length
        /\ partitions' = IF 2 * partitions < Length THEN 2 * partitions ELSE Length
    BY <1>8 DEF Refine, Chunked
  <2>2. Length \in Nat /\ partitions \in Nat \ {0} /\ Length' = Length
    BY <1>1, <2>1, ChunkSizes DEF TypeOK, Length
  <2>3. UnitsLeft' = UnitsLeft
    BY <2>1, <2>2 DEF UnitsLeft
  <2>4. FinerLeft' < FinerLeft
    BY <2>1, <2>2 DEF FinerLeft, InSearch
  <2> QED
    BY <2>3, <2>4 DEF Lower
<1> QED
  BY <1>2, <1>3, <1>4, <1>5, <1>6, <1>7, <1>8 DEF Proceed

\* ddmin ends, whatever the oracle answers: each step of a reduction leaves fewer to
\* be made, out of a number that the sizes fix, and none are left exactly when it is
\* over.  What ReductionEnds needs beside it is that the steps are made.
THEOREM ReductionDescends ==
  Spec => /\ [](StepsLeft \in 0 .. MaxSteps /\ (StepsLeft = 0 <=> pc = "idle"))
          /\ [][Proceed => StepsLeft' < StepsLeft]_vars
<1>1. Inv => CountsTyped
  BY Counts DEF Inv
<1>2. Inv => StepsLeft \in 0 .. MaxSteps /\ (StepsLeft = 0 <=> pc = "idle")
  BY <1>1, StepsBounded DEF Inv
<1>3. Inv /\ Inv' /\ [Next]_vars => [Proceed => StepsLeft' < StepsLeft]_vars
  <2> SUFFICES ASSUME Inv, Inv', Proceed PROVE StepsLeft' < StepsLeft
    OBVIOUS
  <2>1. CountsTyped /\ CountsTyped'
    BY <1>1, PTL
  <2> QED
    BY <2>1, Descending, LowerIsLess
<1> QED
  BY AlwaysInv, <1>2, <1>3, PTL DEF Spec
=============================================================================
