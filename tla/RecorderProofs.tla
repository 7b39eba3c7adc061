--------------------------- MODULE RecorderProofs ---------------------------
(***************************************************************************)
(* What any number of threads leave behind with Recorder, for any blobs,   *)
(* traces, errors and deaths.  All of it comes from the order of the calls *)
(* an operation has still to make: each is due with calls before it, and   *)
(* what it relies on is in the tables or done by one of those.             *)
(***************************************************************************)
EXTENDS Recorder, RepositoryProofs, FiniteSetTheorems

CallsOf(q) == {q[i] : i \in 1 .. Len(q)}

\* The calls of q, each with the set of those before it.
Due(q) == {<<q[i], {q[j] : j \in 1 .. i - 1}>> : i \in 1 .. Len(q)}

LEMMA DueEmpty == Due(<< >>) = {} /\ CallsOf(<< >>) = {}
  BY DEF Due, CallsOf

\* The first call is due with none before it; the others have it before them.
LEMMA DueHead ==
  ASSUME NEW S, NEW q \in Seq(S), q # << >>
  PROVE  <<Head(q), {}>> \in Due(q)
<1>1. 1 \in 1 .. Len(q) /\ q[1] = Head(q) /\ {q[j] : j \in 1 .. 1 - 1} = {}
  OBVIOUS
<1> QED
  BY <1>1 DEF Due

LEMMA DueTail ==
  ASSUME NEW S, NEW q \in Seq(S), q # << >>, NEW d \in Due(Tail(q))
  PROVE  <<d[1], d[2] \cup {Head(q)}>> \in Due(q)
<1>1. PICK i \in 1 .. Len(Tail(q)) : d = <<Tail(q)[i], {Tail(q)[j] : j \in 1 .. i - 1}>>
  BY DEF Due
<1>2. /\ Len(Tail(q)) = Len(q) - 1 /\ Len(q) \in Nat
      /\ \A j \in 1 .. Len(q) - 1 : Tail(q)[j] = q[j + 1]
  OBVIOUS
<1>3. i + 1 \in 1 .. Len(q) /\ d[1] = q[i + 1] /\ d[2] = {Tail(q)[j] : j \in 1 .. i - 1}
  BY <1>1, <1>2
<1>4. {q[j] : j \in 1 .. (i + 1) - 1} = {Tail(q)[j] : j \in 1 .. i - 1} \cup {Head(q)}
  <2>1. ASSUME NEW j \in 1 .. i PROVE q[j] \in {Tail(q)[k] : k \in 1 .. i - 1} \cup {Head(q)}
    <3>1. CASE j = 1
      BY <3>1
    <3>2. CASE j # 1
      <4>1. j - 1 \in 1 .. i - 1 /\ Tail(q)[j - 1] = q[j]
        BY <1>2, <3>2
      <4> QED
        BY <4>1
    <3> QED
      BY <3>1, <3>2
  <2>2. ASSUME NEW k \in 1 .. i - 1 PROVE Tail(q)[k] \in {q[j] : j \in 1 .. i}
    <3>1. k + 1 \in 1 .. i /\ Tail(q)[k] = q[k + 1]
      BY <1>2
    <3> QED
      BY <3>1
  <2>3. 1 \in 1 .. i /\ Head(q) = q[1]
    BY <1>2
  <2>4. (i + 1) - 1 = i
    OBVIOUS
  <2> QED
    BY <2>1, <2>2, <2>3, <2>4
<1> QED
  BY <1>3, <1>4 DEF Due

LEMMA DueConcat ==
  ASSUME NEW S, NEW p \in Seq(S), NEW q \in Seq(S), NEW d \in Due(p \o q)
  PROVE  d \in Due(p) \/ \E e \in Due(q) : d[1] = e[1] /\ d[2] = CallsOf(p) \cup e[2]
<1> DEFINE r == p \o q
<1>1. /\ Len(r) = Len(p) + Len(q) /\ Len(p) \in Nat /\ Len(q) \in Nat
      /\ \A i \in 1 .. Len(p) : r[i] = p[i]
      /\ \A i \in 1 .. Len(q) : r[Len(p) + i] = q[i]
  OBVIOUS
<1> HIDE DEF r
<1>2. PICK i \in 1 .. Len(r) : d = <<r[i], {r[j] : j \in 1 .. i - 1}>>
  BY DEF Due, r
<1>3. CASE i \in 1 .. Len(p)
  <2>1. {r[j] : j \in 1 .. i - 1} = {p[j] : j \in 1 .. i - 1}
    BY <1>1, <1>3, SMTT(30)
  <2> QED
    BY <1>1, <1>2, <1>3, <2>1 DEF Due
<1>4. CASE i \notin 1 .. Len(p)
  <2> DEFINE k == i - Len(p)
  <2>1. k \in 1 .. Len(q) /\ r[i] = q[k]
    BY <1>1, <1>4
  <2>2. {r[j] : j \in 1 .. i - 1} = CallsOf(p) \cup {q[j] : j \in 1 .. k - 1}
    <3>1. ASSUME NEW j \in 1 .. i - 1
          PROVE  r[j] \in CallsOf(p) \cup {q[h] : h \in 1 .. k - 1}
      <4>1. CASE j \in 1 .. Len(p)
        BY <1>1, <4>1 DEF CallsOf
      <4>2. CASE j \notin 1 .. Len(p)
        <5>1. j - Len(p) \in 1 .. k - 1 /\ r[j] = q[j - Len(p)]
          BY <1>1, <2>1, <4>2
        <5> QED
          BY <5>1
      <4> QED
        BY <4>1, <4>2
    <3>2. ASSUME NEW j \in 1 .. Len(p) PROVE p[j] \in {r[h] : h \in 1 .. i - 1}
      <4>1. j \in 1 .. i - 1 /\ r[j] = p[j]
        BY <1>1, <1>4
      <4> QED
        BY <4>1
    <3>3. ASSUME NEW j \in 1 .. k - 1 PROVE q[j] \in {r[h] : h \in 1 .. i - 1}
      <4>1. Len(p) + j \in 1 .. i - 1 /\ r[Len(p) + j] = q[j]
        BY <1>1, <2>1
      <4> QED
        BY <4>1
    <3> QED
      BY <3>1, <3>2, <3>3 DEF CallsOf
  <2>3. <<q[k], {q[j] : j \in 1 .. k - 1}>> \in Due(q)
    BY <2>1 DEF Due
  <2> QED
    BY <1>2, <2>1, <2>2, <2>3
<1> QED
  BY <1>3, <1>4

LEMMA CallsConcat ==
  ASSUME NEW S, NEW p \in Seq(S), NEW q \in Seq(S)
  PROVE  p \o q \in Seq(S) /\ CallsOf(p \o q) = CallsOf(p) \cup CallsOf(q)
<1> DEFINE r == p \o q
<1>1. /\ Len(r) = Len(p) + Len(q) /\ Len(p) \in Nat /\ Len(q) \in Nat
      /\ \A i \in 1 .. Len(p) : r[i] = p[i]
      /\ \A i \in 1 .. Len(q) : r[Len(p) + i] = q[i]
  OBVIOUS
<1>2. ASSUME NEW i \in 1 .. Len(r) PROVE r[i] \in CallsOf(p) \cup CallsOf(q)
  <2>1. CASE i \in 1 .. Len(p)
    BY <1>1, <2>1 DEF CallsOf
  <2>2. CASE i \notin 1 .. Len(p)
    <3>1. i - Len(p) \in 1 .. Len(q) /\ r[i] = q[i - Len(p)]
      BY <1>1, <2>2
    <3> QED
      BY <3>1 DEF CallsOf
  <2> QED
    BY <2>1, <2>2
<1>3. ASSUME NEW i \in 1 .. Len(p) PROVE p[i] \in CallsOf(r)
  <2>1. i \in 1 .. Len(r) /\ r[i] = p[i]
    BY <1>1
  <2> QED
    BY <2>1 DEF CallsOf
<1>4. ASSUME NEW i \in 1 .. Len(q) PROVE q[i] \in CallsOf(r)
  <2>1. Len(p) + i \in 1 .. Len(r) /\ r[Len(p) + i] = q[i]
    BY <1>1
  <2> QED
    BY <2>1 DEF CallsOf
<1> QED
  BY <1>2, <1>3, <1>4, SMTT(30) DEF CallsOf

LEMMA DueOne ==
  ASSUME NEW a
  PROVE  CallsOf(<<a>>) = {a} /\ Due(<<a>>) = {<<a, {}>>}
<1>1. /\ Len(<<a>>) = 1 /\ 1 .. 1 = {1} /\ {<<a>>[j] : j \in 1 .. 1 - 1} = {}
  OBVIOUS
<1> QED
  BY <1>1 DEF CallsOf, Due

LEMMA DueTwo ==
  ASSUME NEW a, NEW b
  PROVE  CallsOf(<<a, b>>) = {a, b} /\ Due(<<a, b>>) = {<<a, {}>>, <<b, {a}>>}
<1>1. Len(<<a, b>>) = 2 /\ 1 .. 2 = {1, 2} /\ 1 .. 1 = {1} /\ 1 .. 0 = {}
  OBVIOUS
<1>2. /\ {<<a, b>>[j] : j \in 1 .. 1 - 1} = {}
      /\ {<<a, b>>[j] : j \in 1 .. 2 - 1} = {a}
  BY <1>1
<1> QED
  BY <1>1, <1>2 DEF CallsOf, Due

LEMMA DueFour ==
  ASSUME NEW a, NEW b, NEW c, NEW e
  PROVE  /\ CallsOf(<<a, b, c, e>>) = {a, b, c, e}
         /\ Due(<<a, b, c, e>>) = {<<a, {}>>, <<b, {a}>>, <<c, {a, b}>>, <<e, {a, b, c}>>}
<1> DEFINE q == <<a, b, c, e>>
<1>1. /\ Len(q) = 4 /\ 1 .. 4 = {1, 2, 3, 4} /\ 1 .. 3 = {1, 2, 3} /\ 1 .. 2 = {1, 2}
      /\ 1 .. 1 = {1} /\ 1 .. 0 = {}
      /\ q[1] = a /\ q[2] = b /\ q[3] = c /\ q[4] = e
  OBVIOUS
<1> HIDE DEF q
<1>2. /\ {q[j] : j \in 1 .. 1 - 1} = {} /\ {q[j] : j \in 1 .. 2 - 1} = {a}
      /\ {q[j] : j \in 1 .. 3 - 1} = {a, b} /\ {q[j] : j \in 1 .. 4 - 1} = {a, b, c}
  BY <1>1
<1>3. CallsOf(q) = {a, b, c, e}
  BY <1>1 DEF CallsOf
<1>4. Due(q) = {<<a, {}>>, <<b, {a}>>, <<c, {a, b}>>, <<e, {a, b, c}>>}
  BY <1>1, <1>2 DEF Due
<1> QED
  BY <1>3, <1>4 DEF q
----------------------------------------------------------------------------
\* What the calls of an operation are about.
Calls ==
  [call : {"put", "register"}, blob : Blobs]
  \cup [call : {"capture"}, manifest : Manifests]
  \cup [call : {"set_ref"}, name : {"environment"}, blob : Environments]
  \cup [call : {"set_ref"}, name : {"initial", "final"}, blob : Manifests]
  \cup [call : {"append"}, body : RecorderBodies]
  \cup [call : {"execute"}, kind : CallKinds, request : Documents, cost : Costs \cup {"none"}]
  \cup [call : {"finish"}, status : Statuses, error : Errors \cup {None}]
  \cup [call : {"return"}, what : {"trace", "result", "manifest"}]

LEMMA StoreDue ==
  ASSUME NEW b \in Blobs \cup {None}
  PROVE  /\ Store(b) \in Seq(Calls)
         /\ CallsOf(Store(b)) = IF b = None THEN {} ELSE {Put(b), Register(b)}
         /\ \A d \in Due(Store(b)) : b # None /\ d[1] \in {Put(b), Register(b)}
<1>1. CASE b = None
  BY <1>1, DueEmpty DEF Store
<1>2. CASE b # None
  <2>1. Put(b) \in Calls /\ Register(b) \in Calls
    BY <1>2 DEF Calls, Put, Register
  <2>2. Store(b) = <<Put(b), Register(b)>>
    BY <1>2 DEF Store
  <2>3. Store(b) \in Seq(Calls)
    BY <2>1, <2>2
  <2>4. /\ CallsOf(Store(b)) = {Put(b), Register(b)}
        /\ Due(Store(b)) = {<<Put(b), {}>>, <<Register(b), {Put(b)}>>}
    BY <2>2, DueTwo
  <2> QED
    BY <1>2, <2>3, <2>4
<1> QED
  BY <1>1, <1>2

LEMMA WorkspaceDue ==
  ASSUME NEW m \in Manifests \cup {None}, NEW name \in {"initial", "final"}
  PROVE  /\ StoreWorkspace(m, name) \in Seq(Calls)
         /\ CallsOf(StoreWorkspace(m, name)) =
              IF m = None THEN {} ELSE {Capture(m), Put(m), Register(m), SetRef(name, m)}
         /\ \A d \in Due(StoreWorkspace(m, name)) :
              /\ m # None
              /\ \/ d[1] \in {Capture(m), Put(m), Register(m)}
                 \/ d[1] = SetRef(name, m) /\ d[2] = {Capture(m), Put(m), Register(m)}
<1>1. CASE m = None
  BY <1>1, DueEmpty DEF StoreWorkspace
<1>2. CASE m # None
  <2>1. {Capture(m), Put(m), Register(m), SetRef(name, m)} \subseteq Calls
    BY <1>2 DEF Calls, Blobs, Capture, Put, Register, SetRef
  <2>2. StoreWorkspace(m, name) = <<Capture(m), Put(m), Register(m), SetRef(name, m)>>
    BY <1>2 DEF StoreWorkspace
  <2>3. StoreWorkspace(m, name) \in Seq(Calls)
    BY <2>1, <2>2
  <2> QED
    BY <1>2, <2>2, <2>3, DueFour
<1> QED
  BY <1>1, <1>2

\* The appends of the recorder, and its other calls with arguments.
EnvironmentEvent(env) == LogEvent(Body("environment", None, env, None, "none", None))
CheckpointEvent(m) == LogEvent(Body("checkpoint", None, m, None, "none", None))
DeltaEvent(previous, delta) ==
  LogEvent(Body("workspace_delta", previous, delta, None, "none", None))
OutcomeEvent(execute, output, error) ==
  LogEvent(Body(execute.kind, execute.request, output, error, execute.cost, None))
FinishEvent(status, m, error) == LogEvent(Body("run_finished", None, m, error, "none", status))
FinishCall(status, error) == [call |-> "finish", status |-> status, error |-> error]
ExecuteCall(kind, request, cost) ==
  [call |-> "execute", kind |-> kind, request |-> request, cost |-> cost]

LEMMA JoinDue ==
  ASSUME NEW p \in Seq(Calls), NEW q \in Seq(Calls)
  PROVE  /\ p \o q \in Seq(Calls)
         /\ CallsOf(p \o q) = CallsOf(p) \cup CallsOf(q)
         /\ \A d \in Due(p \o q) :
              d \in Due(p) \/ \E e \in Due(q) : d[1] = e[1] /\ d[2] = CallsOf(p) \cup e[2]
  BY CallsConcat, DueConcat

LEMMA DueBefore ==
  ASSUME NEW q \in Seq(Calls), NEW d \in Due(q)
  PROVE  d[2] \subseteq CallsOf(q)
<1>1. PICK i \in 1 .. Len(q) : d = <<q[i], {q[j] : j \in 1 .. i - 1}>>
  BY DEF Due
<1>2. \A j \in 1 .. i - 1 : j \in 1 .. Len(q)
  OBVIOUS
<1> QED
  BY <1>1, <1>2 DEF CallsOf

LEMMA BodyLogged ==
  ASSUME NEW kind \in {"environment", "checkpoint", "workspace_delta", "run_finished"}
                      \cup CallKinds,
         NEW input \in Blobs \cup {None}, NEW output \in Blobs \cup {None},
         NEW error \in Blobs \cup {None}, NEW cost \in Costs \cup {"none"},
         NEW status \in Statuses \cup {None}
  PROVE  LogEvent(Body(kind, input, output, error, cost, status)) \in Calls
<1>1. Body(kind, input, output, error, cost, status) \in RecorderBodies
  BY DEF RecorderBodies
<1> QED
  BY <1>1 DEF Calls, LogEvent

\* start, once the trace exists.
LEMMA StartDue ==
  ASSUME NEW env \in Environments, NEW m \in Manifests \cup {None}
  PROVE  /\ StartCalls(env, m) \in Seq(Calls)
         /\ \A d \in Due(StartCalls(env, m)) :
              \/ d[1] \in {Put(env), Register(env)}
              \/ /\ d[1] = SetRef("environment", env)
                 /\ d[2] = {Put(env), Register(env)}
              \/ /\ d[1] = EnvironmentEvent(env)
                 /\ d[2] = {Put(env), Register(env), SetRef("environment", env)}
              \/ m # None /\ d[1] \in {Capture(m), Put(m), Register(m)}
              \/ /\ m # None /\ d[1] = SetRef("initial", m)
                 /\ d[2] = {Put(env), Register(env), SetRef("environment", env),
                            EnvironmentEvent(env), Capture(m), Put(m), Register(m)}
              \/ /\ m # None /\ d[1] = CheckpointEvent(m)
                 /\ d[2] = {Put(env), Register(env), SetRef("environment", env),
                            EnvironmentEvent(env), Capture(m), Put(m), Register(m),
                            SetRef("initial", m)}
              \/ d[1] = Return("trace") /\ EnvironmentEvent(env) \in d[2]
         /\ \A d \in Due(StartCalls(env, m)) :
              d[2] \subseteq {Put(env), Register(env), SetRef("environment", env),
                             EnvironmentEvent(env), Capture(m), Put(m), Register(m),
                             SetRef("initial", m), CheckpointEvent(m)}
<1> DEFINE set == SetRef("environment", env)
           event == EnvironmentEvent(env)
           q1 == Store(env)
           q2 == <<set, event>>
           q3 == StoreWorkspace(m, "initial")
           q4 == IF m = None THEN << >> ELSE <<CheckpointEvent(m)>>
           q5 == <<Return("trace")>>
           two == q1 \o q2
           three == two \o q3
           four == three \o q4
           five == four \o q5
<1>1. env \in Blobs /\ env # None /\ (m # None => m \in Blobs)
  BY CallerAssumption DEF Blobs
<1>2. /\ set \in Calls /\ event \in Calls /\ Return("trace") \in Calls
      /\ m # None => CheckpointEvent(m) \in Calls
  <2>1. set \in Calls /\ Return("trace") \in Calls
    BY DEF Calls, SetRef, Return
  <2> QED
    BY <1>1, <2>1, BodyLogged DEF EnvironmentEvent, CheckpointEvent
<1>3. q2 \in Seq(Calls) /\ q4 \in Seq(Calls) /\ q5 \in Seq(Calls)
  BY <1>2
<1>4. /\ q1 \in Seq(Calls) /\ CallsOf(q1) = {Put(env), Register(env)}
      /\ \A d \in Due(q1) : d[1] \in {Put(env), Register(env)}
  BY <1>1, StoreDue
<1>5. /\ CallsOf(q2) = {set, event}
      /\ \A d \in Due(q2) : \/ d[1] = set /\ d[2] = {}
                            \/ d[1] = event /\ d[2] = {set}
  BY DueTwo
<1>6. /\ q3 \in Seq(Calls)
      /\ CallsOf(q3) = IF m = None THEN {}
                       ELSE {Capture(m), Put(m), Register(m), SetRef("initial", m)}
      /\ \A d \in Due(q3) :
           /\ m # None
           /\ \/ d[1] \in {Capture(m), Put(m), Register(m)}
              \/ d[1] = SetRef("initial", m) /\ d[2] = {Capture(m), Put(m), Register(m)}
  BY WorkspaceDue
<1>7. /\ \A d \in Due(q4) : m # None /\ d[1] = CheckpointEvent(m) /\ d[2] = {}
      /\ CallsOf(q4) \subseteq {CheckpointEvent(m)}
  BY DueEmpty, DueOne
<1>8. \A d \in Due(q5) : d[1] = Return("trace") /\ d[2] = {}
  BY DueOne
<1>9. StartCalls(env, m) = five
  BY DEF StartCalls, EnvironmentEvent, CheckpointEvent
<1> HIDE DEF set, event, q1, q2, q3, q4, q5
<1>10. /\ two \in Seq(Calls) /\ CallsOf(two) = {Put(env), Register(env), set, event}
       /\ \A d \in Due(two) : \/ d[1] \in {Put(env), Register(env)}
                              \/ d[1] = set /\ d[2] = {Put(env), Register(env)}
                              \/ d[1] = event /\ d[2] = {Put(env), Register(env), set}
  <2>1. /\ two \in Seq(Calls) /\ CallsOf(two) = CallsOf(q1) \cup CallsOf(q2)
        /\ \A d \in Due(two) : d \in Due(q1) \/ \E e \in Due(q2) :
             d[1] = e[1] /\ d[2] = CallsOf(q1) \cup e[2]
    <3>1. q1 \in Seq(Calls) /\ q2 \in Seq(Calls)
      BY <1>3, <1>4
    <3> QED
      BY <3>1, JoinDue
  <2> HIDE DEF two
  <2> QED
    BY <1>4, <1>5, <2>1
<1> HIDE DEF two
<1>11. /\ three \in Seq(Calls) /\ CallsOf(three) = CallsOf(two) \cup CallsOf(q3)
       /\ \A d \in Due(three) : d \in Due(two) \/ \E e \in Due(q3) :
            d[1] = e[1] /\ d[2] = CallsOf(two) \cup e[2]
  BY <1>6, <1>10, JoinDue
<1> HIDE DEF three
<1>12. /\ four \in Seq(Calls) /\ CallsOf(four) = CallsOf(three) \cup CallsOf(q4)
       /\ \A d \in Due(four) : d \in Due(three) \/ \E e \in Due(q4) :
            d[1] = e[1] /\ d[2] = CallsOf(three) \cup e[2]
  BY <1>3, <1>11, JoinDue
<1> HIDE DEF four
<1>13. /\ five \in Seq(Calls)
       /\ \A d \in Due(five) : d \in Due(four) \/ \E e \in Due(q5) :
            d[1] = e[1] /\ d[2] = CallsOf(four) \cup e[2]
  BY <1>3, <1>12, JoinDue
<1> HIDE DEF five
<1>14. ASSUME NEW d \in Due(five)
       PROVE  \/ d[1] \in {Put(env), Register(env)}
              \/ d[1] = set /\ d[2] = {Put(env), Register(env)}
              \/ d[1] = event /\ d[2] = {Put(env), Register(env), set}
              \/ m # None /\ d[1] \in {Capture(m), Put(m), Register(m)}
              \/ /\ m # None /\ d[1] = SetRef("initial", m)
                 /\ d[2] = {Put(env), Register(env), set, event, Capture(m), Put(m), Register(m)}
              \/ /\ m # None /\ d[1] = CheckpointEvent(m)
                 /\ d[2] = {Put(env), Register(env), set, event, Capture(m), Put(m), Register(m),
                            SetRef("initial", m)}
              \/ d[1] = Return("trace") /\ event \in d[2]
  <2>1. CASE d \in Due(two)
    BY <1>10, <2>1
  <2>2. CASE \E e \in Due(q3) : d[1] = e[1] /\ d[2] = CallsOf(two) \cup e[2]
    BY <1>6, <1>10, <2>2
  <2>3. CASE \E e \in Due(q4) : d[1] = e[1] /\ d[2] = CallsOf(three) \cup e[2]
    BY <1>6, <1>7, <1>10, <1>11, <2>3
  <2>4. CASE \E e \in Due(q5) : d[1] = e[1] /\ d[2] = CallsOf(four) \cup e[2]
    BY <1>8, <1>10, <1>11, <1>12, <2>4
  <2> QED
    BY <1>11, <1>12, <1>13, <2>1, <2>2, <2>3, <2>4
<1>15. ASSUME NEW d \in Due(five)
       PROVE  d[2] \subseteq {Put(env), Register(env), set, event, Capture(m), Put(m), Register(m),
                             SetRef("initial", m), CheckpointEvent(m)}
  <2>1. d[2] \subseteq CallsOf(four)
    <3>1. CASE d \in Due(four)
      BY <1>12, <3>1, DueBefore
    <3>2. CASE \E e \in Due(q5) : d[1] = e[1] /\ d[2] = CallsOf(four) \cup e[2]
      BY <1>8, <3>2
    <3> QED
      BY <1>13, <3>1, <3>2
  <2>2. CallsOf(four) \subseteq {Put(env), Register(env), set, event, Capture(m), Put(m), Register(m),
                                SetRef("initial", m), CheckpointEvent(m)}
    BY <1>6, <1>7, <1>10, <1>11, <1>12
  <2> QED
    BY <2>1, <2>2
<1> QED
  BY <1>9, <1>13, <1>14, <1>15 DEF set, event

\* The calls of _store, and of storing a workspace.
Stores(b) == IF b = None THEN {} ELSE {Put(b), Register(b)}
Snapshots(m, name) ==
  IF m = None THEN {} ELSE {Capture(m), Put(m), Register(m), SetRef(name, m)}

\* _record_call until the model or tool is called.
LEMMA CallDue ==
  ASSUME NEW kind \in CallKinds, NEW request \in Documents, NEW cost \in Costs \cup {"none"}
  PROVE  /\ CallCalls(kind, request, cost) \in Seq(Calls)
         /\ \A d \in Due(CallCalls(kind, request, cost)) :
              \/ d[1] \in Stores(request)
              \/ d[1] = ExecuteCall(kind, request, cost) /\ d[2] = Stores(request)
<1> DEFINE q1 == Store(request)
           q2 == <<ExecuteCall(kind, request, cost)>>
<1>1. q1 \in Seq(Calls) /\ CallsOf(q1) = Stores(request) /\ \A d \in Due(q1) : d[1] \in Stores(request)
  BY StoreDue DEF Stores, Blobs
<1>2. q2 \in Seq(Calls)
  <2>1. ExecuteCall(kind, request, cost) \in Calls
    BY DEF Calls, ExecuteCall
  <2> QED
    BY <2>1
<1>3. \A d \in Due(q2) : d[1] = ExecuteCall(kind, request, cost) /\ d[2] = {}
  BY DueOne
<1> DEFINE two == q1 \o q2
<1>4. CallCalls(kind, request, cost) = two
  BY DEF CallCalls, ExecuteCall
<1> HIDE DEF q1, q2
<1>5. /\ two \in Seq(Calls)
      /\ \A d \in Due(two) :
           d \in Due(q1) \/ \E e \in Due(q2) : d[1] = e[1] /\ d[2] = CallsOf(q1) \cup e[2]
  <2>1. q1 \in Seq(Calls)
    BY <1>1
  <2> QED
    BY <1>2, <2>1, JoinDue
<1> HIDE DEF two
<1>6. ASSUME NEW d \in Due(two)
      PROVE  \/ d[1] \in Stores(request)
             \/ d[1] = ExecuteCall(kind, request, cost) /\ d[2] = Stores(request)
  <2>1. CASE d \in Due(q1)
    BY <1>1, <2>1
  <2>2. CASE \E e \in Due(q2) : d[1] = e[1] /\ d[2] = CallsOf(q1) \cup e[2]
    BY <1>1, <1>3, <2>2
  <2> QED
    BY <1>5, <2>1, <2>2
<1> QED
  BY <1>4, <1>5, <1>6

\* _record_call from then on.
LEMMA OutcomeDue ==
  ASSUME NEW execute \in Calls, execute.call = "execute",
         NEW output \in Documents \cup {None}, NEW error \in Errors \cup {None}
  PROVE  /\ OutcomeCalls(execute, output, error) \in Seq(Calls)
         /\ \A d \in Due(OutcomeCalls(execute, output, error)) :
              LET event == OutcomeEvent(execute, output, error)
                  stores == Stores(output) \cup Stores(error) IN
              \/ d[1] \in stores
              \/ d[1] = event /\ d[2] = stores
              \/ d[1] = Return("result") /\ d[2] = stores \cup {event}
<1> DEFINE event == OutcomeEvent(execute, output, error)
           q1 == Store(output)
           q2 == Store(error)
           q3 == <<event, Return("result")>>
           two == q1 \o q2
           three == two \o q3
<1>1. q1 \in Seq(Calls) /\ CallsOf(q1) = Stores(output) /\ \A d \in Due(q1) : d[1] \in Stores(output)
  BY StoreDue DEF Stores, Blobs
<1>2. q2 \in Seq(Calls) /\ CallsOf(q2) = Stores(error) /\ \A d \in Due(q2) : d[1] \in Stores(error)
  BY StoreDue DEF Stores, Blobs
<1>3. event \in Calls /\ Return("result") \in Calls
  <2>1. execute.kind \in CallKinds /\ execute.request \in Documents /\ execute.cost \in Costs \cup {"none"}
    BY DEF Calls
  <2>2. event \in Calls
    BY <2>1, BodyLogged DEF OutcomeEvent, Blobs
  <2> QED
    BY <2>2 DEF Calls, Return
<1>4. q3 \in Seq(Calls)
  BY <1>3
<1>5. \A d \in Due(q3) : \/ d[1] = event /\ d[2] = {}
                         \/ d[1] = Return("result") /\ d[2] = {event}
  BY DueTwo
<1>6. OutcomeCalls(execute, output, error) = three
  BY DEF OutcomeCalls, OutcomeEvent
<1> HIDE DEF event, q1, q2, q3
<1>7. q1 \in Seq(Calls) /\ q2 \in Seq(Calls)
  BY <1>1, <1>2
<1>8. /\ two \in Seq(Calls) /\ CallsOf(two) = CallsOf(q1) \cup CallsOf(q2)
      /\ \A d \in Due(two) :
           d \in Due(q1) \/ \E e \in Due(q2) : d[1] = e[1] /\ d[2] = CallsOf(q1) \cup e[2]
  BY <1>7, JoinDue
<1> HIDE DEF two
<1>9. two \in Seq(Calls)
  BY <1>8
<1>10. /\ three \in Seq(Calls)
       /\ \A d \in Due(three) :
            d \in Due(two) \/ \E e \in Due(q3) : d[1] = e[1] /\ d[2] = CallsOf(two) \cup e[2]
  BY <1>4, <1>9, JoinDue
<1> HIDE DEF three
<1>11. CallsOf(two) = Stores(output) \cup Stores(error)
  BY <1>1, <1>2, <1>8
<1>12. \A d \in Due(two) : d[1] \in Stores(output) \cup Stores(error)
  BY <1>1, <1>2, <1>8
<1>13. ASSUME NEW d \in Due(three)
       PROVE  \/ d[1] \in Stores(output) \cup Stores(error)
              \/ d[1] = event /\ d[2] = Stores(output) \cup Stores(error)
              \/ d[1] = Return("result") /\ d[2] = Stores(output) \cup Stores(error) \cup {event}
  BY <1>5, <1>10, <1>11, <1>12
<1> QED
  BY <1>6, <1>10, <1>13 DEF event

\* capture_delta.
LEMMA DeltaDue ==
  ASSUME NEW previous \in Manifests, NEW current \in Manifests, NEW delta \in Deltas
  PROVE  /\ DeltaCalls(previous, current, delta) \in Seq(Calls)
         /\ \A d \in Due(DeltaCalls(previous, current, delta)) :
              LET stores == Stores(previous) \cup Stores(delta) IN
              \/ d[1] \in {Capture(current)} \cup stores
              \/ d[1] = DeltaEvent(previous, delta) /\ d[2] = {Capture(current)} \cup stores
              \/ d[1] = Return("manifest")
<1> DEFINE event == DeltaEvent(previous, delta)
           q1 == <<Capture(current)>>
           q2 == Store(previous)
           q3 == Store(delta)
           q4 == <<event, Return("manifest")>>
           two == q1 \o q2
           three == two \o q3
           four == three \o q4
<1>1. q1 \in Seq(Calls) /\ CallsOf(q1) = {Capture(current)} /\ \A d \in Due(q1) : d[1] = Capture(current)
  <2>1. Capture(current) \in Calls
    BY DEF Calls, Capture
  <2> QED
    BY <2>1, DueOne
<1>2. q2 \in Seq(Calls) /\ CallsOf(q2) = Stores(previous) /\ \A d \in Due(q2) : d[1] \in Stores(previous)
  BY StoreDue DEF Stores, Blobs
<1>3. q3 \in Seq(Calls) /\ CallsOf(q3) = Stores(delta) /\ \A d \in Due(q3) : d[1] \in Stores(delta)
  BY StoreDue DEF Stores, Blobs
<1>4. event \in Calls /\ Return("manifest") \in Calls
  <2>1. event \in Calls
    BY BodyLogged DEF DeltaEvent, Blobs
  <2> QED
    BY <2>1 DEF Calls, Return
<1>5. q4 \in Seq(Calls)
  BY <1>4
<1>6. \A d \in Due(q4) : \/ d[1] = event /\ d[2] = {}
                         \/ d[1] = Return("manifest")
  BY DueTwo
<1>7. DeltaCalls(previous, current, delta) = four
  BY DEF DeltaCalls, DeltaEvent
<1> HIDE DEF event, q1, q2, q3, q4
<1>8. q1 \in Seq(Calls) /\ q2 \in Seq(Calls) /\ q3 \in Seq(Calls)
  BY <1>1, <1>2, <1>3
<1>9. /\ two \in Seq(Calls) /\ CallsOf(two) = CallsOf(q1) \cup CallsOf(q2)
      /\ \A d \in Due(two) :
           d \in Due(q1) \/ \E e \in Due(q2) : d[1] = e[1] /\ d[2] = CallsOf(q1) \cup e[2]
  BY <1>8, JoinDue
<1> HIDE DEF two
<1>10. two \in Seq(Calls)
  BY <1>9
<1>11. /\ three \in Seq(Calls) /\ CallsOf(three) = CallsOf(two) \cup CallsOf(q3)
       /\ \A d \in Due(three) :
            d \in Due(two) \/ \E e \in Due(q3) : d[1] = e[1] /\ d[2] = CallsOf(two) \cup e[2]
  BY <1>8, <1>10, JoinDue
<1> HIDE DEF three
<1>12. three \in Seq(Calls)
  BY <1>11
<1>13. /\ four \in Seq(Calls)
       /\ \A d \in Due(four) :
            d \in Due(three) \/ \E e \in Due(q4) : d[1] = e[1] /\ d[2] = CallsOf(three) \cup e[2]
  BY <1>5, <1>12, JoinDue
<1> HIDE DEF four
<1>14. CallsOf(three) = {Capture(current)} \cup Stores(previous) \cup Stores(delta)
  BY <1>1, <1>2, <1>3, <1>9, <1>11
<1>15. \A d \in Due(three) : d[1] \in {Capture(current)} \cup Stores(previous) \cup Stores(delta)
  BY <1>1, <1>2, <1>3, <1>9, <1>11
<1>16. ASSUME NEW d \in Due(four)
       PROVE  \/ d[1] \in {Capture(current)} \cup (Stores(previous) \cup Stores(delta))
              \/ d[1] = event /\ d[2] = {Capture(current)} \cup (Stores(previous) \cup Stores(delta))
              \/ d[1] = Return("manifest")
  BY <1>6, <1>13, <1>14, <1>15
<1> QED
  BY <1>7, <1>13, <1>16 DEF event

\* finish.
LEMMA FinishDue ==
  ASSUME NEW status \in Statuses, NEW m \in Manifests \cup {None},
         NEW error \in Errors \cup {None}
  PROVE  /\ FinishCalls(status, m, error) \in Seq(Calls)
         /\ \A d \in Due(FinishCalls(status, m, error)) :
              LET stores == Stores(error) \cup Snapshots(m, "final")
                  event == FinishEvent(status, m, error) IN
              \/ d[1] \in Stores(error)
              \/ m # None /\ d[1] \in {Capture(m), Put(m), Register(m)}
              \/ /\ m # None /\ d[1] = SetRef("final", m)
                 /\ d[2] = Stores(error) \cup {Capture(m), Put(m), Register(m)}
              \/ d[1] = event /\ d[2] = stores
              \/ d[1] = FinishCall(status, error) /\ d[2] = stores \cup {event}
              \/ d[1] = Return("trace")
<1> DEFINE event == FinishEvent(status, m, error)
           close == FinishCall(status, error)
           q1 == Store(error)
           q2 == StoreWorkspace(m, "final")
           q3 == <<event, close>>
           q4 == <<Return("trace")>>
           two == q1 \o q2
           three == two \o q3
           four == three \o q4
<1>1. q1 \in Seq(Calls) /\ CallsOf(q1) = Stores(error) /\ \A d \in Due(q1) : d[1] \in Stores(error)
  BY StoreDue DEF Stores, Blobs
<1>2. /\ q2 \in Seq(Calls) /\ CallsOf(q2) = Snapshots(m, "final")
      /\ \A d \in Due(q2) :
           /\ m # None
           /\ \/ d[1] \in {Capture(m), Put(m), Register(m)}
              \/ d[1] = SetRef("final", m) /\ d[2] = {Capture(m), Put(m), Register(m)}
  BY WorkspaceDue DEF Snapshots
<1>3. event \in Calls /\ close \in Calls /\ Return("trace") \in Calls
  <2>1. event \in Calls
    BY BodyLogged DEF FinishEvent, Blobs
  <2> QED
    BY <2>1 DEF Calls, Return, FinishCall
<1>4. q3 \in Seq(Calls) /\ q4 \in Seq(Calls)
  BY <1>3
<1>5. \A d \in Due(q3) : \/ d[1] = event /\ d[2] = {}
                         \/ d[1] = close /\ d[2] = {event}
  BY DueTwo
<1>6. CallsOf(q3) = {event, close} /\ \A d \in Due(q4) : d[1] = Return("trace")
  BY DueTwo, DueOne
<1>7. FinishCalls(status, m, error) = four
  BY DEF FinishCalls, FinishEvent, FinishCall
<1> HIDE DEF event, close, q1, q2, q3, q4
<1>8. q1 \in Seq(Calls) /\ q2 \in Seq(Calls)
  BY <1>1, <1>2
<1>9. /\ two \in Seq(Calls) /\ CallsOf(two) = CallsOf(q1) \cup CallsOf(q2)
      /\ \A d \in Due(two) :
           d \in Due(q1) \/ \E e \in Due(q2) : d[1] = e[1] /\ d[2] = CallsOf(q1) \cup e[2]
  BY <1>8, JoinDue
<1> HIDE DEF two
<1>10. two \in Seq(Calls)
  BY <1>9
<1>11. /\ three \in Seq(Calls) /\ CallsOf(three) = CallsOf(two) \cup CallsOf(q3)
       /\ \A d \in Due(three) :
            d \in Due(two) \/ \E e \in Due(q3) : d[1] = e[1] /\ d[2] = CallsOf(two) \cup e[2]
  BY <1>4, <1>10, JoinDue
<1> HIDE DEF three
<1>12. three \in Seq(Calls)
  BY <1>11
<1>13. /\ four \in Seq(Calls)
       /\ \A d \in Due(four) :
            d \in Due(three) \/ \E e \in Due(q4) : d[1] = e[1] /\ d[2] = CallsOf(three) \cup e[2]
  BY <1>4, <1>12, JoinDue
<1> HIDE DEF four
<1>14. CallsOf(two) = Stores(error) \cup Snapshots(m, "final")
  BY <1>1, <1>2, <1>9
<1>15. ASSUME NEW d \in Due(four)
       PROVE  \/ d[1] \in Stores(error)
              \/ m # None /\ d[1] \in {Capture(m), Put(m), Register(m)}
              \/ /\ m # None /\ d[1] = SetRef("final", m)
                 /\ d[2] = Stores(error) \cup {Capture(m), Put(m), Register(m)}
              \/ d[1] = event /\ d[2] = CallsOf(two)
              \/ d[1] = close /\ d[2] = CallsOf(two) \cup {event}
              \/ d[1] = Return("trace")
  <2>1. CASE \E e \in Due(q4) : d[1] = e[1] /\ d[2] = CallsOf(three) \cup e[2]
    BY <1>6, <2>1
  <2>2. CASE \E e \in Due(q3) : d[1] = e[1] /\ d[2] = CallsOf(two) \cup e[2]
    BY <1>5, <2>2
  <2>3. CASE \E e \in Due(q2) : d[1] = e[1] /\ d[2] = CallsOf(q1) \cup e[2]
    BY <1>1, <1>2, <2>3
  <2> QED
    BY <1>1, <1>9, <1>11, <1>13, <2>1, <2>2, <2>3
<1> QED
  BY <1>7, <1>13, <1>14, <1>15 DEF event, close
----------------------------------------------------------------------------
RecTypes ==
  /\ todo \in [Threads -> Seq(Calls)]
  /\ subject \in [Threads -> Traces \cup {None}]
  /\ \A w \in Threads : ~Idle(w) => subject[w] \in Traces
  /\ known \subseteq Traces
  /\ executed \in [Traces -> Nat] /\ answered \in [Traces -> Nat]

\* A thread makes the call it is at, or gives up.
LEMMA DoneDue ==
  ASSUME RecTypes, NEW w \in Threads, ~Idle(w), Done(w) \/ Stop(w)
  PROVE  /\ todo' \in [Threads -> Seq(Calls)] /\ subject' \in [Threads -> Traces \cup {None}]
         /\ \A v \in Threads : v # w => todo'[v] = todo[v] /\ subject'[v] = subject[v]
         /\ \A d \in Due(todo'[w]) : <<d[1], d[2] \cup {Head(todo[w])}>> \in Due(todo[w])
         /\ todo'[w] # << >> => subject'[w] = subject[w]
         /\ subject[w] \in Traces /\ subject'[w] \in {subject[w], None}
         /\ Head(todo[w]) \in Calls /\ <<Head(todo[w]), {}>> \in Due(todo[w])
<1>1. todo[w] \in Seq(Calls) /\ todo[w] # << >> /\ subject[w] \in Traces
  BY DEF RecTypes, Idle
<1>2. Head(todo[w]) \in Calls /\ <<Head(todo[w]), {}>> \in Due(todo[w])
  BY <1>1, DueHead
<1>3. CASE todo' = [todo EXCEPT ![w] = << >>] /\ subject' = [subject EXCEPT ![w] = None]
  <2>1. todo'[w] = << >> /\ << >> \in Seq(Calls)
    BY <1>3 DEF RecTypes
  <2> QED
    BY <1>1, <1>2, <1>3, <2>1, DueEmpty DEF RecTypes
<1>4. CASE todo' = [todo EXCEPT ![w] = Tail(@)] /\ UNCHANGED subject
  <2>1. todo'[w] = Tail(todo[w]) /\ Tail(todo[w]) \in Seq(Calls)
    BY <1>1, <1>4 DEF RecTypes
  <2>2. \A d \in Due(Tail(todo[w])) : <<d[1], d[2] \cup {Head(todo[w])}>> \in Due(todo[w])
    BY <1>1, DueTail
  <2> QED
    BY <1>1, <1>2, <1>4, <2>1, <2>2 DEF RecTypes
<1> QED
  BY <1>3, <1>4 DEF Done, Stop

LEMMA BeginDue ==
  ASSUME RecTypes, NEW w \in Threads, NEW t \in Traces, NEW calls \in Seq(Calls), Begin(w, t, calls)
  PROVE  /\ todo' \in [Threads -> Seq(Calls)] /\ subject' \in [Threads -> Traces \cup {None}]
         /\ \A v \in Threads : v # w => todo'[v] = todo[v] /\ subject'[v] = subject[v]
         /\ todo[w] = << >> /\ todo'[w] = calls /\ subject'[w] = t
  BY DEF Begin, RecTypes, Idle

LEMMA ExecuteDue ==
  ASSUME RecTypes, NEW w \in Threads, NEW output \in Documents \cup {None},
         NEW error \in Errors \cup {None}, Execute(w, output, error)
  PROVE  /\ ~Idle(w) /\ Head(todo[w]) \in Calls /\ Head(todo[w]).call = "execute"
         /\ <<Head(todo[w]), {}>> \in Due(todo[w]) /\ subject[w] \in Traces
         /\ todo' \in [Threads -> Seq(Calls)] /\ subject' = subject
         /\ \A v \in Threads : v # w => todo'[v] = todo[v]
         /\ todo'[w] = OutcomeCalls(Head(todo[w]), output, error)
<1>1. /\ todo[w] \in Seq(Calls) /\ todo[w] # << >> /\ subject[w] \in Traces
      /\ Head(todo[w]).call = "execute" /\ subject' = subject
      /\ todo' = [todo EXCEPT ![w] = OutcomeCalls(Head(@), output, error)]
  BY DEF Execute, Next1, Idle, RecTypes
<1>2. Head(todo[w]) \in Calls /\ <<Head(todo[w]), {}>> \in Due(todo[w])
  BY <1>1, DueHead
<1>3. OutcomeCalls(Head(todo[w]), output, error) \in Seq(Calls)
  BY <1>1, <1>2, OutcomeDue
<1> QED
  BY <1>1, <1>2, <1>3 DEF RecTypes, Idle

LEMMA RecTypesInit == RecInit => RecTypes
<1>1. << >> \in Seq(Calls)
  OBVIOUS
<1> QED
  BY <1>1 DEF RecInit, RecTypes, Idle

LEMMA RecTypesStep == RecTypes /\ [RecNext]_allVars => RecTypes'
<1> SUFFICES ASSUME RecTypes, [RecNext]_allVars PROVE RecTypes'
  OBVIOUS
<1>1. ASSUME NEW w \in Threads, NEW t \in Traces, NEW calls \in Seq(Calls), Begin(w, t, calls),
             UNCHANGED <<known, executed, answered>>
      PROVE  RecTypes'
  BY <1>1, BeginDue DEF RecTypes, Idle
<1>2. ASSUME NEW w \in Threads, ~Idle(w), Done(w) \/ Stop(w),
             known' \subseteq Traces, executed' = executed, answered' \in [Traces -> Nat]
      PROVE  RecTypes'
  BY <1>2, DoneDue DEF RecTypes, Idle
<1>3. ASSUME NEW w \in Threads, Operation(w) PROVE RecTypes'
  <2>1. ASSUME NEW t \in Traces, NEW env \in Environments, NEW m \in Manifests \cup {None},
               StartTrace(w, t, env, m)
        PROVE  RecTypes'
    BY <1>1, <2>1, StartDue DEF StartTrace
  <2>2. ASSUME NEW t \in Traces, NEW kind \in CallKinds, NEW request \in Documents,
               NEW cost \in Costs \cup {"none"}, RecordCall(w, t, kind, request, cost)
        PROVE  RecTypes'
    BY <1>1, <2>2, CallDue DEF RecordCall
  <2>3. ASSUME NEW t \in Traces, NEW previous \in Manifests, NEW current \in Manifests,
               NEW delta \in Deltas, CaptureDelta(w, t, previous, current, delta)
        PROVE  RecTypes'
    BY <1>1, <2>3, DeltaDue DEF CaptureDelta
  <2>4. ASSUME NEW t \in Traces, NEW status \in Statuses, NEW m \in Manifests \cup {None},
               NEW error \in Errors \cup {None}, Finish(w, t, status, m, error)
        PROVE  RecTypes'
    BY <1>1, <2>4, FinishDue DEF Finish
  <2> QED
    BY <1>3, <2>1, <2>2, <2>3, <2>4 DEF Operation, CallKinds
<1>4. ASSUME NEW w \in Threads,
             PutJson(w) \/ CaptureFiles(w) \/ RegisterRef(w) \/ SetRefs(w) \/ AppendLog(w)
             \/ FinishRow(w) \/ Abandon(w) \/ AppendUnanswered(w)
      PROVE  RecTypes'
  <2>1. ~Idle(w) /\ (Done(w) \/ Stop(w)) /\ UNCHANGED <<known, executed, answered>>
    BY <1>4 DEF PutJson, CaptureFiles, RegisterRef, SetRefs, AppendLog, FinishRow, Abandon,
                AppendUnanswered, Next1
  <2> QED
    BY <1>2, <2>1 DEF RecTypes
<1>5. ASSUME NEW w \in Threads, ReturnToCaller(w) PROVE RecTypes'
  <2>1. /\ ~Idle(w) /\ Done(w) /\ known' = known \cup {subject[w]} /\ executed' = executed
        /\ answered' = IF Head(todo[w]).what = "result"
                       THEN [answered EXCEPT ![subject[w]] = @ + 1] ELSE answered
    BY <1>5 DEF ReturnToCaller, Next1
  <2>2. subject[w] \in Traces /\ answered' \in [Traces -> Nat]
    BY <2>1 DEF RecTypes
  <2> QED
    BY <1>2, <2>1, <2>2 DEF RecTypes
<1>6. ASSUME NEW w \in Threads, NEW output \in Documents \cup {None},
             NEW error \in Errors \cup {None}, Execute(w, output, error)
      PROVE  RecTypes'
  <2>1. /\ known' = known /\ answered' = answered
        /\ executed' = [executed EXCEPT ![subject[w]] = @ + 1]
    BY <1>6 DEF Execute
  <2>2. /\ ~Idle(w) /\ subject[w] \in Traces /\ subject' = subject
        /\ todo' \in [Threads -> Seq(Calls)]
        /\ \A v \in Threads : v # w => todo'[v] = todo[v]
    BY <1>6, ExecuteDue
  <2>3. executed' \in [Traces -> Nat]
    BY <2>1, <2>2 DEF RecTypes
  <2> QED
    BY <2>1, <2>2, <2>3 DEF RecTypes, Idle
<1>7. CASE UNCHANGED allVars
  BY <1>7 DEF allVars, recorderVars, RecTypes, Idle
<1> QED
  BY <1>3, <1>4, <1>5, <1>6, <1>7 DEF RecNext
----------------------------------------------------------------------------
\* What the recorder passes to the repository is what the repository takes.
LEMMA RepositoryStep == RecTypes /\ [RecNext]_allVars => [Next]_repoVars
<1> SUFFICES ASSUME RecTypes, [RecNext]_allVars PROVE [Next]_repoVars
  OBVIOUS
<1>1. ASSUME NEW w \in Threads, Operation(w) PROVE [Next]_repoVars
  <2>1. ASSUME NEW t \in Traces, NEW env, NEW m, StartTrace(w, t, env, m) PROVE Next
    BY <2>1 DEF StartTrace, Next
  <2>2. ASSUME NEW t, NEW kind, NEW request, NEW cost, RecordCall(w, t, kind, request, cost)
        PROVE  UNCHANGED repoVars
    BY <2>2 DEF RecordCall
  <2>3. ASSUME NEW t, NEW previous, NEW current, NEW delta,
               CaptureDelta(w, t, previous, current, delta)
        PROVE  UNCHANGED repoVars
    BY <2>3 DEF CaptureDelta
  <2>4. ASSUME NEW t, NEW status, NEW m, NEW error, Finish(w, t, status, m, error)
        PROVE  UNCHANGED repoVars
    BY <2>4 DEF Finish
  <2> QED
    BY <1>1, <2>1, <2>2, <2>3, <2>4 DEF Operation
<1>2. ASSUME NEW w \in Threads, ~Idle(w)
      PROVE  todo[w] \in Seq(Calls) /\ Head(todo[w]) \in Calls /\ subject[w] \in Traces
  BY <1>2 DEF RecTypes, Idle
<1>3. ASSUME NEW w \in Threads, RegisterRef(w) PROVE Next
  <2>1. ~Idle(w) /\ Head(todo[w]).call = "register" /\ RegisterBlob(Ref(Head(todo[w]).blob))
    BY <1>3 DEF RegisterRef, Next1
  <2>2. Ref(Head(todo[w]).blob) \in ContentRefs
    BY <1>2, <2>1, CallerAssumption DEF Calls
  <2> QED
    BY <2>1, <2>2 DEF Next
<1>4. ASSUME NEW w \in Threads, SetRefs(w) PROVE Next
  <2>1. /\ ~Idle(w) /\ Head(todo[w]).call = "set_ref"
        /\ SetWorkspaceRefs(subject[w], Head(todo[w]).name, Ref(Head(todo[w]).blob))
    BY <1>4 DEF SetRefs, Next1
  <2>2. Ref(Head(todo[w]).blob) \in ContentRefs /\ Head(todo[w]).name \in RefNames
    BY <1>2, <2>1, CallerAssumption DEF Calls, Blobs, RefNames
  <2> QED
    BY <1>2, <2>1, <2>2 DEF Next
<1>5. ASSUME NEW w \in Threads, AppendLog(w) \/ AppendUnanswered(w) PROVE Next
  <2>1. /\ ~Idle(w) /\ Head(todo[w]).call = "append"
        /\ AppendEvent(subject[w], Head(todo[w]).body)
    BY <1>5 DEF AppendLog, AppendUnanswered, Next1
  <2>2. Head(todo[w]).body \in Bodies
    BY <1>2, <2>1, CallerAssumption DEF Calls
  <2> QED
    BY <1>2, <2>1, <2>2 DEF Next
<1>6. ASSUME NEW w \in Threads, FinishRow(w) PROVE Next
  <2>1. /\ ~Idle(w) /\ Head(todo[w]).call = "finish"
        /\ FinishTrace(subject[w], Head(todo[w]).status, Signature(Head(todo[w]).error))
    BY <1>6 DEF FinishRow, Next1
  <2>2. /\ Head(todo[w]).status \in TerminalStatuses
        /\ Signature(Head(todo[w]).error) \in Signatures \cup {None}
    BY <1>2, <2>1, RecorderAssumption, CallerAssumption DEF Calls, Signature
  <2> QED
    BY <1>2, <2>1, <2>2 DEF Next
<1>7. ASSUME NEW w \in Threads,
             \/ PutJson(w) \/ CaptureFiles(w) \/ ReturnToCaller(w) \/ Abandon(w)
             \/ \E output, error : Execute(w, output, error)
      PROVE  UNCHANGED repoVars
  BY <1>7 DEF PutJson, CaptureFiles, ReturnToCaller, Abandon, Execute
<1>8. CASE UNCHANGED allVars
  BY <1>8 DEF allVars
<1> QED
  BY <1>1, <1>3, <1>4, <1>5, <1>6, <1>7, <1>8 DEF RecNext

RBase == TypeOK /\ Linked /\ RecTypes

LEMMA RBaseInit == RecInit => RBase
  BY TypeInit, LinkedInit, RecTypesInit DEF RecInit, RBase

LEMMA RBaseStep == RBase /\ [RecNext]_allVars => RBase' /\ [Next]_repoVars
  BY RepositoryStep, RecTypesStep, TypeStep, LinkedStep DEF RBase

\* Recorder uses the repository through its operations only, with bodies, references
\* and signatures of the kinds they take (recorder.py): so everything proved of the
\* repository holds while any number of threads record.
THEOREM RecorderImplements == RecSpec => Spec
<1>1. RecInit => Init
  BY DEF RecInit
<1> QED
  BY <1>1, RBaseInit, RBaseStep, PTL DEF RecSpec, Spec

\* Whatever the threads do and wherever they die, the chain of every trace verifies
\* but for costs coerced after they were hashed, and the logs are append-only.
COROLLARY RecordedChains == RecSpec => []ChainVerifies /\ ImplementsTraceLog
  BY RecorderImplements, ChainsVerify, LogImplemented
----------------------------------------------------------------------------
\* The event in the log is the body that was appended, up to its cost.
LEMMA SameBody ==
  ASSUME NEW body \in RecorderBodies
  PROVE  /\ AsStored(body).kind = body.kind /\ AsStored(body).status = body.status
         /\ RefsOf(AsStored(body)) = RefsOf(body)
         /\ AsStored(body).input_ref = body.input_ref
         /\ AsStored(body).output_ref = body.output_ref
         /\ AsStored(body).error_ref = body.error_ref
  BY DEF RecorderBodies, Body, AsStored, RefsOf

\* append_event adds its event to those of its trace, and to no other.
LEMMA Appended ==
  ASSUME TypeOK, NEW t \in Traces, NEW body, AppendEvent(t, body)
  PROVE  LET event == NewEvent(traces[t], body)  count == traces[t].event_count IN
         /\ count \in Nat /\ event.sequence = count /\ event.body = AsStored(body)
         /\ traces[t].status = "recording" /\ traces'[t].status = "recording"
         /\ traces'[t].event_count = count + 1
         /\ DOMAIN trace_events[t] = 0 .. count - 1 /\ DOMAIN trace_events'[t] = 0 .. count
         /\ trace_events'[t][count] = event
         /\ \A n \in 0 .. count - 1 : trace_events'[t][n] = trace_events[t][n]
         /\ Events(t)' = Events(t) \cup {event}
         /\ \A u \in Traces : u # t =>
              /\ traces'[u] = traces[u] /\ trace_events'[u] = trace_events[u]
              /\ Events(u)' = Events(u)
         /\ UNCHANGED <<refs, blobs>>
<1> DEFINE event == NewEvent(traces[t], body)
           count == traces[t].event_count
<1>1. count \in Nat /\ event.sequence = count /\ event.body = AsStored(body)
  BY BoundAssumption DEF TypeOK, RowOK, NewEvent
<1>2. /\ trace_events'[t] = Extended(t, event) /\ traces'[t] = Advanced(traces[t], event)
      /\ \A u \in Traces : u # t => traces'[u] = traces[u] /\ trace_events'[u] = trace_events[u]
      /\ traces[t].status = "recording" /\ UNCHANGED <<refs, blobs>>
  BY DEF AppendEvent, TypeOK
<1>3. traces'[t].event_count = count + 1 /\ traces'[t].status = "recording"
  BY <1>2 DEF Advanced, TypeOK, RowOK
<1>4. /\ DOMAIN trace_events[t] = 0 .. count - 1 /\ DOMAIN trace_events'[t] = 0 .. count
      /\ trace_events'[t][count] = event
      /\ \A n \in 0 .. count - 1 : trace_events'[t][n] = trace_events[t][n]
  BY <1>1, <1>2, ExtendedTable
<1>5. Events(t)' = Events(t) \cup {event}
  BY <1>1, <1>4 DEF Events
<1> QED
  BY <1>1, <1>2, <1>3, <1>4, <1>5 DEF Events
----------------------------------------------------------------------------
\* b will be in the store and registered once the calls before have been made, and
\* the files of m will be in the store.
Stored(b, before) ==
  /\ b \in cas \/ Put(b) \in before
  /\ Ref(b) \in blobs \/ Register(b) \in before
Kept(m, before) ==
  \/ Nested[m] \subseteq cas
  \/ \E c \in before : c.call = "capture" /\ Nested[m] \subseteq Nested[c.manifest]

\* What a call makes visible, or keeps for a call to come.
Relies(c) ==
  CASE c.call = "append" -> RefsOf(c.body)
    [] c.call = "set_ref" -> {c.blob}
    [] c.call = "execute" -> {c.request}
    [] OTHER -> {}
Shows(c) ==
  CASE c.call = "append" -> WorkspaceRefs(c.body)
    [] c.call = "set_ref" /\ c.name # "environment" -> {c.blob}
    [] OTHER -> {}

Safe(c, before) ==
  /\ \A b \in Relies(c) : Stored(b, before)
  /\ \A m \in Shows(c) : Kept(m, before)

StoresInv ==
  /\ \A m \in captured : Nested[m] \subseteq cas
  /\ \A w \in Threads : \A d \in Due(todo[w]) : Safe(d[1], d[2])
  /\ EventRefsStored /\ RowRefsStored

\* A call that was made is no longer needed: what it was to do is done.
LEMMA SafeStays ==
  ASSUME NEW c, NEW before, NEW head, Safe(c, before \cup {head}),
         cas \subseteq cas', blobs \subseteq blobs',
         head.call = "put" => head.blob \in cas',
         head.call = "register" => Ref(head.blob) \in blobs',
         head.call = "capture" => Nested[head.manifest] \subseteq cas'
  PROVE  Safe(c, before)'
<1>1. ASSUME NEW b \in Relies(c) PROVE Stored(b, before)'
  <2>1. Stored(b, before \cup {head})
    BY DEF Safe
  <2>2. b \in cas' \/ Put(b) \in before
    BY <2>1 DEF Stored, Put
  <2>3. Ref(b) \in blobs' \/ Register(b) \in before
    BY <2>1 DEF Stored, Register
  <2> QED
    BY <2>2, <2>3 DEF Stored
<1>2. ASSUME NEW m \in Shows(c) PROVE Kept(m, before)'
  <2>1. Kept(m, before \cup {head})
    BY DEF Safe
  <2> QED
    BY <2>1 DEF Kept
<1> QED
  BY <1>1, <1>2 DEF Safe

LEMMA SafeKeeps ==
  ASSUME NEW c, NEW before, Safe(c, before), cas \subseteq cas', blobs \subseteq blobs'
  PROVE  Safe(c, before)'
  BY DEF Safe, Stored, Kept

\* Only what is in the store becomes a reference, and nothing leaves the store.
LEMMA RefsStay ==
  ASSUME StoresInv, cas \subseteq cas', blobs \subseteq blobs'
  PROVE  /\ UNCHANGED trace_events => EventRefsStored'
         /\ UNCHANGED refs => RowRefsStored'
<1>1. ASSUME UNCHANGED trace_events PROVE EventRefsStored'
  BY <1>1 DEF StoresInv, EventRefsStored, Events
<1>2. ASSUME UNCHANGED refs PROVE RowRefsStored'
  BY <1>2 DEF StoresInv, RowRefsStored
<1> QED
  BY <1>1, <1>2

LEMMA StoresInvInit == RecInit => StoresInv
  BY DueEmpty DEF RecInit, Init, StoresInv, EventRefsStored, RowRefsStored, Events

\* What each call relies on and shows.
LEMMA CallFacts ==
  /\ \A b : /\ Relies(Put(b)) = {} /\ Shows(Put(b)) = {}
            /\ Relies(Register(b)) = {} /\ Shows(Register(b)) = {}
            /\ Relies(Capture(b)) = {} /\ Shows(Capture(b)) = {}
            /\ Relies(Return(b)) = {} /\ Shows(Return(b)) = {}
  /\ \A name, b : /\ Relies(SetRef(name, b)) = {b}
                  /\ Shows(SetRef(name, b)) = IF name = "environment" THEN {} ELSE {b}
  /\ \A body : Relies(LogEvent(body)) = RefsOf(body) /\ Shows(LogEvent(body)) = WorkspaceRefs(body)
  /\ \A kind, request, cost : /\ Relies(ExecuteCall(kind, request, cost)) = {request}
                              /\ Shows(ExecuteCall(kind, request, cost)) = {}
  /\ \A status, error : /\ Relies(FinishCall(status, error)) = {}
                        /\ Shows(FinishCall(status, error)) = {}
  BY DEF Relies, Shows, Put, Register, Capture, Return, SetRef, LogEvent, ExecuteCall, FinishCall

\* Nothing is needed for a call that only stores.
LEMMA StoringSafe ==
  ASSUME NEW b, NEW before, NEW c \in {Put(b), Register(b), Capture(b), Return(b)}
  PROVE  Safe(c, before)
  BY CallFacts DEF Safe

\* What is stored and registered before, a call may refer to.
LEMMA StoredBefore ==
  ASSUME NEW b, NEW before, {Put(b), Register(b)} \subseteq before
  PROVE  Stored(b, before)
  BY DEF Stored

LEMMA CapturedBefore ==
  ASSUME NEW m, NEW c, NEW before, Capture(c) \in before, Nested[m] \subseteq Nested[c]
  PROVE  Kept(m, before)
  BY DEF Kept, Capture

\* The calls of an operation that begins are safe.
LEMMA StartSafe ==
  ASSUME NEW env \in Environments, NEW m \in Manifests \cup {None},
         NEW d \in Due(StartCalls(env, m))
  PROVE  Safe(d[1], d[2])
<1>1. CASE \/ d[1] \in {Put(env), Register(env)}
           \/ d[1] \in {Capture(m), Put(m), Register(m)} \/ d[1] = Return("trace")
  BY <1>1, StoringSafe
<1>2. CASE d[1] = SetRef("environment", env) /\ d[2] = {Put(env), Register(env)}
  BY <1>2, StoredBefore, CallFacts DEF Safe
<1>3. CASE d[1] = EnvironmentEvent(env) /\ {Put(env), Register(env)} \subseteq d[2]
  <2>1. Relies(d[1]) \subseteq {env} /\ Shows(d[1]) = {}
    BY <1>3, CallFacts DEF EnvironmentEvent, RefsOf, WorkspaceRefs, Body
  <2> QED
    BY <1>3, <2>1, StoredBefore DEF Safe
<1>4. CASE /\ d[1] \in {SetRef("initial", m), CheckpointEvent(m)}
           /\ {Capture(m), Put(m), Register(m)} \subseteq d[2]
  <2>1. Relies(d[1]) \subseteq {m} /\ Shows(d[1]) \subseteq {m}
    BY <1>4, CallFacts DEF CheckpointEvent, RefsOf, WorkspaceRefs, Body
  <2>2. Stored(m, d[2]) /\ Kept(m, d[2])
    BY <1>4, StoredBefore, CapturedBefore
  <2> QED
    BY <2>1, <2>2 DEF Safe
<1> QED
  BY <1>1, <1>2, <1>3, <1>4, StartDue

LEMMA CallSafe ==
  ASSUME NEW kind \in CallKinds, NEW request \in Documents, NEW cost \in Costs \cup {"none"},
         NEW d \in Due(CallCalls(kind, request, cost))
  PROVE  Safe(d[1], d[2])
<1>1. Stores(request) = {Put(request), Register(request)}
  BY CallerAssumption DEF Stores, Blobs
<1>2. CASE d[1] \in Stores(request)
  BY <1>1, <1>2, StoringSafe
<1>3. CASE d[1] = ExecuteCall(kind, request, cost) /\ d[2] = Stores(request)
  BY <1>1, <1>3, StoredBefore, CallFacts DEF Safe
<1> QED
  BY <1>2, <1>3, CallDue

\* The request of a call was stored before the call was made.
LEMMA OutcomeSafe ==
  ASSUME NEW execute \in Calls, execute.call = "execute", Safe(execute, {}),
         NEW output \in Documents \cup {None}, NEW error \in Errors \cup {None},
         cas \subseteq cas', blobs \subseteq blobs',
         NEW d \in Due(OutcomeCalls(execute, output, error))
  PROVE  Safe(d[1], d[2])'
<1>1. CASE d[1] \in Stores(output) \cup Stores(error) \/ d[1] = Return("result")
  <2>1. Safe(d[1], d[2])
    BY <1>1, StoringSafe DEF Stores
  <2> QED
    BY <2>1, SafeKeeps
<1>2. CASE d[1] = OutcomeEvent(execute, output, error) /\ d[2] = Stores(output) \cup Stores(error)
  <2>1. execute.request \in cas /\ Ref(execute.request) \in blobs
    BY DEF Safe, Relies, Stored
  <2>2. /\ Relies(d[1]) \subseteq {execute.request, output, error} \ {None}
        /\ Shows(d[1]) = {}
    <3>1. execute.kind \in CallKinds
      BY DEF Calls
    <3> QED
      BY <1>2, <3>1, CallFacts DEF OutcomeEvent, RefsOf, WorkspaceRefs, Body, CallKinds
  <2>3. \A b \in {output, error} \ {None} : Stored(b, d[2])
    BY <1>2, StoredBefore DEF Stores
  <2>4. Stored(execute.request, d[2])
    BY <2>1 DEF Stored
  <2>5. Safe(d[1], d[2])
    BY <2>2, <2>3, <2>4 DEF Safe
  <2> QED
    BY <2>5, SafeKeeps
<1> QED
  BY <1>1, <1>2, OutcomeDue

\* What the previous manifest refers to was stored when it was captured, and the delta
\* refers to files of the current one.
LEMMA DeltaSafe ==
  ASSUME NEW previous \in Manifests, NEW current \in Manifests, NEW delta \in Deltas,
         Nested[previous] \subseteq cas, Nested[delta] \subseteq Nested[current],
         NEW d \in Due(DeltaCalls(previous, current, delta))
  PROVE  Safe(d[1], d[2])
<1>1. /\ Stores(previous) = {Put(previous), Register(previous)}
      /\ Stores(delta) = {Put(delta), Register(delta)}
  BY CallerAssumption DEF Stores, Blobs
<1>2. CASE d[1] \in {Capture(current)} \cup (Stores(previous) \cup Stores(delta)) \/ d[1] = Return("manifest")
  BY <1>1, <1>2, StoringSafe
<1>3. CASE /\ d[1] = DeltaEvent(previous, delta)
           /\ d[2] = {Capture(current)} \cup (Stores(previous) \cup Stores(delta))
  <2>1. Relies(d[1]) \subseteq {previous, delta} /\ Shows(d[1]) \subseteq {previous, delta}
    BY <1>3, CallFacts DEF DeltaEvent, RefsOf, WorkspaceRefs, Body
  <2>2. Stored(previous, d[2]) /\ Stored(delta, d[2])
    BY <1>1, <1>3, StoredBefore
  <2>3. Kept(previous, d[2]) /\ Kept(delta, d[2])
    BY <1>3, CapturedBefore DEF Kept
  <2> QED
    BY <2>1, <2>2, <2>3 DEF Safe
<1> QED
  BY <1>2, <1>3, DeltaDue

LEMMA FinishSafe ==
  ASSUME NEW status \in Statuses, NEW m \in Manifests \cup {None}, NEW error \in Errors \cup {None},
         NEW d \in Due(FinishCalls(status, m, error))
  PROVE  Safe(d[1], d[2])
<1>1. CASE \/ d[1] \in Stores(error) \/ d[1] \in {Capture(m), Put(m), Register(m)}
           \/ d[1] = Return("trace")
  BY <1>1, StoringSafe DEF Stores
<1>2. CASE d[1] = FinishCall(status, error)
  BY <1>2, CallFacts DEF Safe
<1>3. CASE /\ d[1] = SetRef("final", m)
           /\ {Capture(m), Put(m), Register(m)} \subseteq d[2]
  <2>1. Relies(d[1]) = {m} /\ Shows(d[1]) = {m}
    BY <1>3, CallFacts
  <2>2. Stored(m, d[2]) /\ Kept(m, d[2])
    BY <1>3, StoredBefore, CapturedBefore
  <2> QED
    BY <2>1, <2>2 DEF Safe
<1>4. CASE /\ d[1] = FinishEvent(status, m, error)
           /\ d[2] = Stores(error) \cup Snapshots(m, "final")
  <2>1. Relies(d[1]) \subseteq {m, error} \ {None} /\ Shows(d[1]) \subseteq {m} \ {None}
    BY <1>4, CallFacts DEF FinishEvent, RefsOf, WorkspaceRefs, Body
  <2>2. error # None => Stored(error, d[2])
    BY <1>4, StoredBefore DEF Stores
  <2>3. m # None => Stored(m, d[2]) /\ Kept(m, d[2])
    <3>1. m # None => {Capture(m), Put(m), Register(m)} \subseteq d[2]
      BY <1>4 DEF Snapshots
    <3> QED
      BY <3>1, StoredBefore, CapturedBefore
  <2> QED
    BY <2>1, <2>2, <2>3 DEF Safe
<1> QED
  BY <1>1, <1>2, <1>3, <1>4, FinishDue

\* An operation begins: nothing is stored yet, and its calls are safe.
LEMMA OperationSafe ==
  ASSUME RBase, StoresInv, NEW w \in Threads, Operation(w)
  PROVE  /\ \A v \in Threads : \A d \in Due(todo'[v]) : Safe(d[1], d[2])
         /\ UNCHANGED <<cas, captured, trace_events, refs, blobs>>
<1>1. ASSUME NEW t \in Traces, NEW calls \in Seq(Calls), Begin(w, t, calls),
             \A d \in Due(calls) : Safe(d[1], d[2])
      PROVE  \A v \in Threads : \A d \in Due(todo'[v]) : Safe(d[1], d[2])
  BY <1>1, BeginDue DEF RBase, StoresInv
<1>2. ASSUME NEW t \in Traces, NEW env \in Environments, NEW m \in Manifests \cup {None},
             StartTrace(w, t, env, m)
      PROVE  /\ \A v \in Threads : \A d \in Due(todo'[v]) : Safe(d[1], d[2])
             /\ UNCHANGED <<cas, captured, trace_events, refs, blobs>>
  <2>1. Begin(w, t, StartCalls(env, m)) /\ UNCHANGED <<cas, captured, trace_events, refs, blobs>>
    BY <1>2 DEF StartTrace, CreateTrace
  <2> QED
    BY <1>1, <2>1, StartDue, StartSafe
<1>3. ASSUME NEW t \in Traces, NEW kind \in CallKinds, NEW request \in Documents,
             NEW cost \in Costs \cup {"none"}, RecordCall(w, t, kind, request, cost)
      PROVE  /\ \A v \in Threads : \A d \in Due(todo'[v]) : Safe(d[1], d[2])
             /\ UNCHANGED <<cas, captured, trace_events, refs, blobs>>
  <2>1. /\ Begin(w, t, CallCalls(kind, request, cost))
        /\ UNCHANGED <<cas, captured, trace_events, refs, blobs>>
    BY <1>3 DEF RecordCall, repoVars
  <2> QED
    BY <1>1, <2>1, CallDue, CallSafe
<1>4. ASSUME NEW t \in Traces, NEW previous \in Manifests, NEW current \in Manifests,
             NEW delta \in Deltas, CaptureDelta(w, t, previous, current, delta)
      PROVE  /\ \A v \in Threads : \A d \in Due(todo'[v]) : Safe(d[1], d[2])
             /\ UNCHANGED <<cas, captured, trace_events, refs, blobs>>
  <2>1. /\ Begin(w, t, DeltaCalls(previous, current, delta))
        /\ UNCHANGED <<cas, captured, trace_events, refs, blobs>>
        /\ previous \in captured /\ Nested[delta] \subseteq Nested[current]
    BY <1>4 DEF CaptureDelta, repoVars
  <2>2. Nested[previous] \subseteq cas
    BY <2>1 DEF StoresInv
  <2> QED
    BY <1>1, <2>1, <2>2, DeltaDue, DeltaSafe
<1>5. ASSUME NEW t \in Traces, NEW status \in Statuses, NEW m \in Manifests \cup {None},
             NEW error \in Errors \cup {None}, Finish(w, t, status, m, error)
      PROVE  /\ \A v \in Threads : \A d \in Due(todo'[v]) : Safe(d[1], d[2])
             /\ UNCHANGED <<cas, captured, trace_events, refs, blobs>>
  <2>1. /\ Begin(w, t, FinishCalls(status, m, error))
        /\ UNCHANGED <<cas, captured, trace_events, refs, blobs>>
    BY <1>5 DEF Finish, repoVars
  <2> QED
    BY <1>1, <2>1, FinishDue, FinishSafe
<1> QED
  BY <1>2, <1>3, <1>4, <1>5 DEF Operation, CallKinds

\* A thread makes its next call: the calls that relied on it find it done.
LEMMA DueSafe ==
  ASSUME RBase, StoresInv, NEW w \in Threads, ~Idle(w), Done(w) \/ Stop(w),
         cas \subseteq cas', blobs \subseteq blobs',
         Done(w) => LET head == Head(todo[w]) IN
           /\ head.call = "put" => head.blob \in cas'
           /\ head.call = "register" => Ref(head.blob) \in blobs'
           /\ head.call = "capture" => Nested[head.manifest] \subseteq cas'
  PROVE  \A v \in Threads : \A d \in Due(todo'[v]) : Safe(d[1], d[2])'
<1> DEFINE head == Head(todo[w])
<1>1. ASSUME NEW v \in Threads, v # w, NEW d \in Due(todo'[v]) PROVE Safe(d[1], d[2])'
  <2>1. Safe(d[1], d[2])
    BY <1>1, DoneDue DEF RBase, StoresInv
  <2> QED
    BY <2>1, SafeKeeps
<1>2. ASSUME Done(w), NEW d \in Due(todo'[w]) PROVE Safe(d[1], d[2])'
  <2>1. <<d[1], d[2] \cup {head}>> \in Due(todo[w])
    BY <1>2, DoneDue DEF RBase
  <2>2. Safe(d[1], d[2] \cup {head})
    BY <2>1 DEF StoresInv
  <2> QED
    BY <1>2, <2>2, SafeStays
<1>3. ASSUME Stop(w) PROVE Due(todo'[w]) = {}
  BY <1>3, DueEmpty DEF Stop, RBase, RecTypes
<1> QED
  BY <1>1, <1>2, <1>3

\* The call a thread is at is safe with none before it.
LEMMA HeadSafe ==
  ASSUME RBase, StoresInv, NEW w \in Threads, ~Idle(w)
  PROVE  /\ Head(todo[w]) \in Calls /\ subject[w] \in Traces
         /\ \A b \in Relies(Head(todo[w])) : b \in cas /\ Ref(b) \in blobs
         /\ \A m \in Shows(Head(todo[w])) : Nested[m] \subseteq cas
<1>1. todo[w] \in Seq(Calls) /\ todo[w] # << >> /\ subject[w] \in Traces
  BY DEF RBase, RecTypes, Idle
<1>2. Head(todo[w]) \in Calls /\ <<Head(todo[w]), {}>> \in Due(todo[w])
  BY <1>1, DueHead
<1>3. Safe(Head(todo[w]), {})
  BY <1>2 DEF StoresInv
<1> QED
  BY <1>1, <1>2, <1>3 DEF Safe, Stored, Kept

LEMMA StoresInvStep == RBase /\ StoresInv /\ [RecNext]_allVars => StoresInv'
<1> SUFFICES ASSUME RBase, StoresInv, [RecNext]_allVars PROVE StoresInv'
  OBVIOUS
<1>1. ASSUME NEW w \in Threads, Operation(w) PROVE StoresInv'
  <2>1. /\ \A v \in Threads : \A d \in Due(todo'[v]) : Safe(d[1], d[2])
        /\ UNCHANGED <<cas, captured, trace_events, refs, blobs>>
    BY <1>1, OperationSafe
  <2>2. \A v \in Threads : \A d \in Due(todo'[v]) : Safe(d[1], d[2])'
    BY <2>1, SafeKeeps
  <2> QED
    BY <2>1, <2>2, RefsStay DEF StoresInv
<1>2. ASSUME NEW w \in Threads, PutJson(w) \/ CaptureFiles(w) \/ ReturnToCaller(w) \/ Abandon(w)
      PROVE  StoresInv'
  <2>1. /\ ~Idle(w) /\ cas \subseteq cas' /\ UNCHANGED <<blobs, trace_events, refs>>
        /\ Done(w) \/ Stop(w)
    BY <1>2 DEF PutJson, CaptureFiles, ReturnToCaller, Abandon, Next1, repoVars
  <2>2. CASE Abandon(w)
    <3>1. Stop(w) /\ captured' = captured
      BY <2>2 DEF Abandon
    <3>2. Due(todo'[w]) = {} /\ \A v \in Threads : v # w => todo'[v] = todo[v]
      BY <3>1, DueEmpty DEF Stop, RBase, RecTypes
    <3>3. \A v \in Threads : \A d \in Due(todo'[v]) : Safe(d[1], d[2])'
      BY <2>1, <3>2, SafeKeeps DEF StoresInv
    <3> QED
      BY <2>1, <3>1, <3>3, RefsStay DEF StoresInv
  <2>3. CASE ~Abandon(w)
    <3>1. LET head == Head(todo[w]) IN
          /\ head.call = "put" => head.blob \in cas'
          /\ head.call = "register" => Ref(head.blob) \in blobs'
          /\ head.call = "capture" => Nested[head.manifest] \subseteq cas'
      BY <1>2, <2>3 DEF PutJson, CaptureFiles, ReturnToCaller, Next1
    <3>2. \A m \in captured' : Nested[m] \subseteq cas'
      BY <1>2, <2>1, <2>3 DEF PutJson, CaptureFiles, ReturnToCaller, StoresInv
    <3>3. \A v \in Threads : \A d \in Due(todo'[v]) : Safe(d[1], d[2])'
      BY <2>1, <3>1, DueSafe
    <3> QED
      BY <2>1, <3>2, <3>3, RefsStay DEF StoresInv
  <2> QED
    BY <2>2, <2>3
<1>3. ASSUME NEW w \in Threads, RegisterRef(w) PROVE StoresInv'
  <2>1. /\ ~Idle(w) /\ Done(w) /\ Head(todo[w]).call = "register"
        /\ blobs' = blobs \cup {Ref(Head(todo[w]).blob)}
        /\ UNCHANGED <<cas, captured, trace_events, refs>>
    BY <1>3 DEF RegisterRef, RegisterBlob, Next1
  <2>2. \A v \in Threads : \A d \in Due(todo'[v]) : Safe(d[1], d[2])'
    BY <2>1, DueSafe
  <2> QED
    BY <2>1, <2>2, RefsStay DEF StoresInv
<1>4. ASSUME NEW w \in Threads, SetRefs(w) PROVE StoresInv'
  <2> DEFINE head == Head(todo[w])
             t == subject[w]
  <2>1. /\ ~Idle(w) /\ Done(w) /\ head.call = "set_ref"
        /\ refs' = [refs EXCEPT ![t][head.name] = Ref(head.blob)]
        /\ UNCHANGED <<cas, captured, trace_events, blobs>>
    BY <1>4 DEF SetRefs, SetWorkspaceRefs, Next1
  <2>2. \A v \in Threads : \A d \in Due(todo'[v]) : Safe(d[1], d[2])'
    BY <2>1, DueSafe
  <2>3. /\ head.blob \in cas /\ Ref(head.blob) \in blobs
        /\ head.name # "environment" => head.blob \in Manifests /\ Nested[head.blob] \subseteq cas
    <3>1. /\ \A b \in Relies(head) : b \in cas /\ Ref(b) \in blobs
          /\ \A m \in Shows(head) : Nested[m] \subseteq cas
          /\ head \in Calls
      BY <2>1, HeadSafe
    <3>2. Relies(head) = {head.blob} /\ Shows(head) = IF head.name = "environment" THEN {} ELSE {head.blob}
      BY <2>1 DEF Relies, Shows
    <3>3. head.name # "environment" => head.blob \in Manifests
      BY <2>1, <3>1 DEF Calls
    <3> QED
      BY <3>1, <3>2, <3>3
  <2>4. RowRefsStored'
    <3> SUFFICES ASSUME NEW u \in Traces, NEW name \in RefNames, refs'[u][name] # None
                 PROVE  \E b \in cas : /\ refs'[u][name] = Ref(b) /\ Ref(b) \in blobs
                                       /\ name # "environment" => b \in Manifests /\ Nested[b] \subseteq cas
      BY <2>1 DEF RowRefsStored
    <3>1. CASE u = t /\ name = head.name
      <4>1. refs'[u][name] = Ref(head.blob)
        BY <2>1, <3>1 DEF RBase, TypeOK
      <4> QED
        BY <2>3, <3>1, <4>1
    <3>2. CASE ~(u = t /\ name = head.name)
      <4>1. refs'[u][name] = refs[u][name]
        BY <2>1, <3>2 DEF RBase, TypeOK
      <4> QED
        BY <4>1 DEF StoresInv, RowRefsStored
    <3> QED
      BY <3>1, <3>2
  <2> QED
    BY <2>1, <2>2, <2>4, RefsStay DEF StoresInv
<1>5. ASSUME NEW w \in Threads, AppendLog(w) \/ AppendUnanswered(w) PROVE StoresInv'
  <2> DEFINE body == Head(todo[w]).body
             t == subject[w]
  <2>1. /\ ~Idle(w) /\ (Done(w) \/ Stop(w)) /\ Head(todo[w]).call = "append"
        /\ AppendEvent(t, body) /\ UNCHANGED <<cas, captured>>
    BY <1>5 DEF AppendLog, AppendUnanswered, Next1
  <2>2. /\ t \in Traces /\ body \in RecorderBodies
        /\ \A b \in RefsOf(body) : b \in cas /\ Ref(b) \in blobs
        /\ \A m \in WorkspaceRefs(body) : Nested[m] \subseteq cas
    <3>1. /\ Relies(Head(todo[w])) = RefsOf(body) /\ Shows(Head(todo[w])) = WorkspaceRefs(body)
          /\ Head(todo[w]) \in Calls => body \in RecorderBodies
      BY <2>1 DEF Relies, Shows, Calls
    <3> QED
      BY <2>1, <3>1, HeadSafe
  <2>3. UNCHANGED <<refs, blobs>>
    BY <2>1 DEF AppendEvent
  <2>4. \A v \in Threads : \A d \in Due(todo'[v]) : Safe(d[1], d[2])'
    BY <2>1, <2>3, DueSafe
  <2>5. EventRefsStored'
    <3> SUFFICES ASSUME NEW u \in Traces, NEW event \in Events(u)'
                 PROVE  /\ \A b \in RefsOf(event.body) : b \in cas /\ Ref(b) \in blobs
                        /\ \A m \in WorkspaceRefs(event.body) : Nested[m] \subseteq cas
      BY <2>1, <2>3 DEF EventRefsStored
    <3>1. CASE event \in Events(u)
      BY <3>1 DEF StoresInv, EventRefsStored
    <3>2. CASE event = NewEvent(traces[t], body)
      <4>1. event.body = AsStored(body)
        BY <3>2 DEF NewEvent
      <4>2. RefsOf(event.body) = RefsOf(body) /\ WorkspaceRefs(event.body) = WorkspaceRefs(body)
        BY <2>2, <4>1, SameBody DEF WorkspaceRefs
      <4> QED
        BY <2>2, <4>2
    <3> QED
      BY <2>1, <2>2, <3>1, <3>2, Appended DEF RBase
  <2> QED
    BY <2>1, <2>3, <2>4, <2>5, RefsStay DEF StoresInv
<1>6. ASSUME NEW w \in Threads, NEW output \in Documents \cup {None},
             NEW error \in Errors \cup {None}, Execute(w, output, error)
      PROVE  StoresInv'
  <2>1. UNCHANGED <<cas, captured, trace_events, refs, blobs>>
    BY <1>6 DEF Execute, repoVars
  <2>2. /\ Head(todo[w]) \in Calls /\ Head(todo[w]).call = "execute"
        /\ \A v \in Threads : v # w => todo'[v] = todo[v]
        /\ todo'[w] = OutcomeCalls(Head(todo[w]), output, error)
        /\ <<Head(todo[w]), {}>> \in Due(todo[w])
    BY <1>6, ExecuteDue DEF RBase
  <2>3. \A d \in Due(todo'[w]) : Safe(d[1], d[2])'
    <3>1. Safe(Head(todo[w]), {})
      BY <2>2 DEF StoresInv
    <3> QED
      BY <2>1, <2>2, <3>1, OutcomeSafe
  <2>4. \A v \in Threads : v # w => \A d \in Due(todo'[v]) : Safe(d[1], d[2])'
    BY <2>1, <2>2, SafeKeeps DEF StoresInv
  <2> QED
    BY <2>1, <2>3, <2>4, RefsStay DEF StoresInv
<1>7. ASSUME NEW w \in Threads, FinishRow(w) PROVE StoresInv'
  <2>1. /\ ~Idle(w) /\ Done(w) /\ Head(todo[w]).call = "finish"
        /\ UNCHANGED <<cas, captured, trace_events, refs, blobs>>
    BY <1>7 DEF FinishRow, FinishTrace, Next1
  <2>2. \A v \in Threads : \A d \in Due(todo'[v]) : Safe(d[1], d[2])'
    BY <2>1, DueSafe
  <2> QED
    BY <2>1, <2>2, RefsStay DEF StoresInv
<1>8. CASE UNCHANGED allVars
  BY <1>8 DEF allVars, recorderVars, repoVars, StoresInv, Safe, Stored, Kept, EventRefsStored, RowRefsStored, Events
<1> QED
  BY <1>1, <1>2, <1>3, <1>4, <1>5, <1>6, <1>7, <1>8 DEF RecNext

LEMMA AlwaysStored == RecSpec => [](RBase /\ StoresInv)
<1>1. RecInit => RBase /\ StoresInv
  BY RBaseInit, StoresInvInit
<1>2. RBase /\ StoresInv /\ [RecNext]_allVars => RBase' /\ StoresInv'
  BY RBaseStep, StoresInvStep
<1> QED
  BY <1>1, <1>2, PTL DEF RecSpec

\* Whichever threads record, in whatever order their calls come, and wherever errors
\* and deaths interrupt them: what an event in a log refers to is in the store and
\* registered, and so are the files of the workspaces it shows.
THEOREM EventsResolve == RecSpec => []EventRefsStored
<1>1. RBase /\ StoresInv => EventRefsStored
  BY DEF StoresInv
<1> QED
  BY AlwaysStored, <1>1, PTL

\* The same for the references of the rows.
THEOREM RowsResolve == RecSpec => []RowRefsStored
<1>1. RBase /\ StoresInv => RowRefsStored
  BY DEF StoresInv
<1> QED
  BY AlwaysStored, <1>1, PTL
----------------------------------------------------------------------------
\* Until start returns, its trace is the business of one thread.
IsAppend(c, kind) == c.call = "append" /\ c.body.kind = kind
EnvironmentAhead(before) == \E b \in before : IsAppend(b, "environment")
InitialRef(c) == c.call = "set_ref" /\ c.name = "initial"

\* What start has still to do: first the environment, then the reference to the
\* initial workspace, then the checkpoint, and the return last.
Preamble(t, c, before) ==
  /\ c.call # "execute"
  /\ \A b \in before : b.call # "return"
  /\ c.call = "append" => c.body.kind \in {"environment", "checkpoint"}
  /\ IsAppend(c, "environment") =>
       traces[t].event_count = 0 /\ \A b \in before : b.call # "append"
  /\ IsAppend(c, "checkpoint") \/ InitialRef(c) =>
       /\ traces[t].event_count = IF EnvironmentAhead(before) THEN 0 ELSE 1
       /\ \A b \in before : ~IsAppend(b, "checkpoint")
  /\ IsAppend(c, "checkpoint") =>
       /\ \A b \in before : InitialRef(b) => b.blob = c.body.output_ref
       /\ \/ \E b \in before : InitialRef(b)
          \/ refs[t]["initial"] = Ref(c.body.output_ref)
  /\ c.call = "return" => EnvironmentAhead(before) \/ traces[t].event_count >= 1

\* What the operations on a trace others know of do not do.
Later(c) ==
  /\ c.call = "append" => c.body.kind \notin {"environment", "checkpoint"}
  /\ ~InitialRef(c)

\* A trace that does not exist is nobody's business, one that others do not know of
\* yet is one thread's, and one they know of has its environment.
Fresh == \A t \in Traces : traces[t].status = "absent" =>
           /\ t \notin known /\ traces[t].event_count = 0
           /\ \A w \in Threads : ~Idle(w) => subject[w] # t
Alone == \A w, v \in Threads :
           ~Idle(w) /\ ~Idle(v) /\ subject[w] = subject[v] /\ subject[w] \notin known => w = v
Started == \A t \in known : traces[t].event_count >= 1
PreambleDue ==
  \A w \in Threads : \A d \in Due(todo[w]) :
    IF subject[w] \in known THEN Later(d[1]) ELSE Preamble(subject[w], d[1], d[2])

PreambleInv == Fresh /\ Alone /\ Started /\ PreambleDue /\ PreambleFirst

\* Each call before another is due itself, with fewer before it.
LEMMA DueMember ==
  ASSUME NEW S, NEW q \in Seq(S), NEW d \in Due(q), NEW b \in d[2]
  PROVE  \E e \in Due(q) : e[1] = b /\ e[2] \subseteq d[2]
<1>1. PICK i \in 1 .. Len(q) : d = <<q[i], {q[j] : j \in 1 .. i - 1}>>
  BY DEF Due
<1>2. PICK j \in 1 .. i - 1 : b = q[j]
  BY <1>1
<1>3. j \in 1 .. Len(q) /\ \A k \in 1 .. j - 1 : k \in 1 .. i - 1
  OBVIOUS
<1>4. <<q[j], {q[k] : k \in 1 .. j - 1}>> \in Due(q)
  BY <1>3 DEF Due
<1> QED
  BY <1>1, <1>2, <1>3, <1>4

\* start begins: nothing is logged yet.
LEMMA StartPreamble ==
  ASSUME NEW t \in Traces, traces[t].event_count = 0,
         NEW env \in Environments, NEW m \in Manifests \cup {None},
         NEW d \in Due(StartCalls(env, m))
  PROVE  Preamble(t, d[1], d[2])
<1> DEFINE calls == {Put(env), Register(env), SetRef("environment", env), EnvironmentEvent(env),
                     Capture(m), Put(m), Register(m), SetRef("initial", m), CheckpointEvent(m)}
<1>1. /\ \A b \in calls : b.call \notin {"return", "execute"}
      /\ \A b \in calls : IsAppend(b, "environment") => b = EnvironmentEvent(env)
      /\ \A b \in calls : IsAppend(b, "checkpoint") => b = CheckpointEvent(m)
      /\ \A b \in calls : b.call = "append" => b \in {EnvironmentEvent(env), CheckpointEvent(m)}
      /\ \A b \in calls : InitialRef(b) => b.blob = m
      /\ IsAppend(EnvironmentEvent(env), "environment")
      /\ InitialRef(SetRef("initial", m)) /\ SetRef("initial", m).call = "set_ref"
      /\ CheckpointEvent(m).body.output_ref = m /\ IsAppend(CheckpointEvent(m), "checkpoint")
      /\ Return("trace").call = "return"
      /\ SetRef("environment", env).call = "set_ref"
      /\ ~InitialRef(SetRef("environment", env))
  BY DEF IsAppend, InitialRef, Put, Register, Capture, SetRef, LogEvent, Return, Body,
         EnvironmentEvent, CheckpointEvent
<1>2. d[2] \subseteq calls
  BY StartDue
<1> HIDE DEF calls
<1>3. \A b \in d[2] : b.call # "return"
  BY <1>1, <1>2
<1>4. CASE \/ d[1] \in {Put(env), Register(env), Capture(m), Put(m), Register(m)}
           \/ d[1] = SetRef("environment", env)
  <2>1. d[1].call \in {"put", "register", "capture", "set_ref"} /\ ~InitialRef(d[1])
    BY <1>1, <1>4 DEF Put, Register, Capture, InitialRef
  <2> QED
    BY <1>3, <2>1 DEF Preamble, IsAppend
<1>5. CASE /\ d[1] = EnvironmentEvent(env)
           /\ d[2] = {Put(env), Register(env), SetRef("environment", env)}
  <2>1. \A b \in d[2] : b.call # "append"
    BY <1>5 DEF Put, Register, SetRef
  <2>2. d[1].call = "append" /\ d[1].body.kind = "environment"
    BY <1>1, <1>5 DEF IsAppend
  <2> QED
    BY <1>3, <2>1, <2>2 DEF Preamble, IsAppend, InitialRef
<1>6. CASE /\ d[1] = SetRef("initial", m)
           /\ d[2] = {Put(env), Register(env), SetRef("environment", env),
                      EnvironmentEvent(env), Capture(m), Put(m), Register(m)}
  <2>1. \A b \in d[2] : ~IsAppend(b, "checkpoint")
    BY <1>6 DEF Put, Register, Capture, SetRef, EnvironmentEvent, LogEvent, Body, IsAppend
  <2>2. EnvironmentAhead(d[2])
    BY <1>1, <1>6 DEF EnvironmentAhead
  <2>3. d[1].call = "set_ref"
    BY <1>1, <1>6
  <2> QED
    BY <1>3, <2>1, <2>2, <2>3 DEF Preamble, IsAppend
<1>7. CASE /\ d[1] = CheckpointEvent(m)
           /\ d[2] = {Put(env), Register(env), SetRef("environment", env),
                      EnvironmentEvent(env), Capture(m), Put(m), Register(m),
                      SetRef("initial", m)}
  <2>1. \A b \in d[2] : ~IsAppend(b, "checkpoint")
    BY <1>7 DEF Put, Register, Capture, SetRef, EnvironmentEvent, LogEvent, Body, IsAppend
  <2>2. EnvironmentAhead(d[2]) /\ \E b \in d[2] : InitialRef(b)
    BY <1>1, <1>7 DEF EnvironmentAhead
  <2>3. d[1].call = "append" /\ d[1].body.kind = "checkpoint" /\ d[1].body.output_ref = m
    BY <1>1, <1>7 DEF IsAppend
  <2>4. \A b \in d[2] : InitialRef(b) => b.blob = m
    BY <1>1, <1>2
  <2> QED
    BY <1>3, <2>1, <2>2, <2>3, <2>4 DEF Preamble, IsAppend
<1>8. CASE d[1] = Return("trace") /\ EnvironmentEvent(env) \in d[2]
  <2>1. d[1].call = "return" /\ EnvironmentAhead(d[2])
    BY <1>1, <1>8 DEF EnvironmentAhead
  <2> QED
    BY <1>3, <2>1 DEF Preamble, IsAppend, InitialRef
<1> QED
  BY <1>4, <1>5, <1>6, <1>7, <1>8, StartDue

\* No other operation logs an environment or a checkpoint.
LEMMA LaterCalls ==
  /\ \A kind \in CallKinds, request \in Documents, cost \in Costs \cup {"none"} :
       \A d \in Due(CallCalls(kind, request, cost)) : Later(d[1])
  /\ \A execute \in Calls, output \in Documents \cup {None}, error \in Errors \cup {None} :
       execute.call = "execute" => \A d \in Due(OutcomeCalls(execute, output, error)) : Later(d[1])
  /\ \A previous, current \in Manifests, delta \in Deltas :
       \A d \in Due(DeltaCalls(previous, current, delta)) : Later(d[1])
  /\ \A status \in Statuses, m \in Manifests \cup {None}, error \in Errors \cup {None} :
       \A d \in Due(FinishCalls(status, m, error)) : Later(d[1])
<1>1. \A b : Later(Put(b)) /\ Later(Register(b)) /\ Later(Capture(b)) /\ Later(Return(b))
  BY DEF Later, InitialRef, Put, Register, Capture, Return
<1>2. ASSUME NEW kind \in CallKinds, NEW request \in Documents, NEW cost \in Costs \cup {"none"},
             NEW d \in Due(CallCalls(kind, request, cost))
      PROVE  Later(d[1])
  <2>1. Later(ExecuteCall(kind, request, cost))
    BY DEF Later, InitialRef, ExecuteCall
  <2>2. d[1] \in Stores(request) \/ d[1] = ExecuteCall(kind, request, cost)
    BY <1>2, CallDue
  <2> QED
    BY <1>1, <2>1, <2>2 DEF Stores
<1>3. ASSUME NEW execute \in Calls, NEW output \in Documents \cup {None},
             NEW error \in Errors \cup {None}, execute.call = "execute",
             NEW d \in Due(OutcomeCalls(execute, output, error))
      PROVE  Later(d[1])
  <2>1. execute.kind \in CallKinds
    BY <1>3 DEF Calls
  <2>2. Later(OutcomeEvent(execute, output, error))
    BY <2>1 DEF Later, InitialRef, OutcomeEvent, LogEvent, Body, CallKinds
  <2>3. \/ d[1] \in Stores(output) \cup Stores(error)
        \/ d[1] = OutcomeEvent(execute, output, error) \/ d[1] = Return("result")
    BY <1>3, OutcomeDue
  <2> QED
    BY <1>1, <2>2, <2>3 DEF Stores
<1>4. ASSUME NEW previous \in Manifests, NEW current \in Manifests, NEW delta \in Deltas,
             NEW d \in Due(DeltaCalls(previous, current, delta))
      PROVE  Later(d[1])
  <2>1. Later(DeltaEvent(previous, delta))
    BY DEF Later, InitialRef, DeltaEvent, LogEvent, Body
  <2>2. \/ d[1] \in {Capture(current)} \cup Stores(previous) \cup Stores(delta)
        \/ d[1] = DeltaEvent(previous, delta) \/ d[1] = Return("manifest")
    BY DeltaDue
  <2> QED
    BY <1>1, <2>1, <2>2 DEF Stores
<1>5. ASSUME NEW status \in Statuses, NEW m \in Manifests \cup {None},
             NEW error \in Errors \cup {None}, NEW d \in Due(FinishCalls(status, m, error))
      PROVE  Later(d[1])
  <2>1. /\ Later(FinishEvent(status, m, error)) /\ Later(FinishCall(status, error))
        /\ Later(SetRef("final", m))
    BY DEF Later, InitialRef, FinishEvent, FinishCall, SetRef, LogEvent, Body
  <2>2. \/ d[1] \in Stores(error) \/ d[1] \in {Capture(m), Put(m), Register(m), SetRef("final", m)}
        \/ d[1] \in {FinishEvent(status, m, error), FinishCall(status, error), Return("trace")}
    BY FinishDue
  <2> QED
    BY <1>1, <2>1, <2>2 DEF Stores
<1> QED
  BY <1>2, <1>3, <1>4, <1>5

\* What a call of w does to the trace it is about, as far as the preamble goes.
Moved(t, head) ==
  /\ \A u \in Traces :
       /\ traces'[u].event_count =
            IF u = t /\ head.call = "append" THEN traces[u].event_count + 1
            ELSE traces[u].event_count
       /\ refs'[u]["initial"] = IF u = t /\ InitialRef(head) THEN Ref(head.blob)
                                ELSE refs[u]["initial"]
       /\ traces'[u].status = "absent" <=> traces[u].status = "absent"

\* One call of start is made; those after it find what they waited for.
LEMMA PreambleShift ==
  ASSUME RBase, NEW t \in Traces, NEW c, NEW before, NEW head, Moved(t, head),
         Preamble(t, head, {}), Preamble(t, c, before \cup {head}),
         EnvironmentAhead(before) => head.call # "append"
  PROVE  Preamble(t, c, before)'
<1> DEFINE count == traces[t].event_count
           ref == refs[t]["initial"]
<1>1. /\ count \in Nat
      /\ traces'[t].event_count = IF head.call = "append" THEN count + 1 ELSE count
      /\ refs'[t]["initial"] = IF InitialRef(head) THEN Ref(head.blob) ELSE ref
  BY BoundAssumption DEF Moved, RBase, TypeOK, RowOK
<1>2. /\ c.call # "execute" /\ \A b \in before : b.call # "return"
      /\ c.call = "append" => c.body.kind \in {"environment", "checkpoint"}
  BY DEF Preamble
<1>3. IsAppend(c, "environment") =>
        traces'[t].event_count = 0 /\ \A b \in before : b.call # "append"
  BY <1>1 DEF Preamble
<1>4. IsAppend(c, "checkpoint") \/ InitialRef(c) =>
        /\ traces'[t].event_count = IF EnvironmentAhead(before) THEN 0 ELSE 1
        /\ \A b \in before : ~IsAppend(b, "checkpoint")
  <2> SUFFICES ASSUME IsAppend(c, "checkpoint") \/ InitialRef(c)
               PROVE  /\ traces'[t].event_count = IF EnvironmentAhead(before) THEN 0 ELSE 1
                      /\ \A b \in before : ~IsAppend(b, "checkpoint")
    OBVIOUS
  <2>1. /\ count = IF EnvironmentAhead(before \cup {head}) THEN 0 ELSE 1
        /\ \A b \in before \cup {head} : ~IsAppend(b, "checkpoint")
    BY DEF Preamble
  <2>2. head.call = "append" => IsAppend(head, "environment")
    BY <2>1 DEF Preamble, IsAppend
  <2>3. CASE EnvironmentAhead(before)
    BY <1>1, <2>1, <2>3 DEF EnvironmentAhead
  <2>4. CASE ~EnvironmentAhead(before) /\ head.call = "append"
    BY <1>1, <2>1, <2>2, <2>4 DEF EnvironmentAhead
  <2>5. CASE ~EnvironmentAhead(before) /\ head.call # "append"
    BY <1>1, <2>1, <2>5 DEF EnvironmentAhead, IsAppend
  <2> QED
    BY <2>1, <2>3, <2>4, <2>5
<1>5. IsAppend(c, "checkpoint") =>
        /\ \A b \in before : InitialRef(b) => b.blob = c.body.output_ref
        /\ (\E b \in before : InitialRef(b)) \/ refs'[t]["initial"] = Ref(c.body.output_ref)
  BY <1>1 DEF Preamble
<1>6. c.call = "return" => EnvironmentAhead(before) \/ traces'[t].event_count >= 1
  <2> SUFFICES ASSUME c.call = "return", ~EnvironmentAhead(before)
               PROVE  traces'[t].event_count >= 1
    OBVIOUS
  <2>1. EnvironmentAhead(before \cup {head}) \/ count >= 1
    BY DEF Preamble
  <2>2. CASE count >= 1
    BY <1>1, <2>2
  <2>3. CASE IsAppend(head, "environment")
    BY <1>1, <2>3 DEF IsAppend
  <2> QED
    BY <2>1, <2>2, <2>3 DEF EnvironmentAhead
<1> QED
  BY <1>2, <1>3, <1>4, <1>5, <1>6 DEF Preamble

LEMMA PreambleKept ==
  ASSUME NEW t, NEW c, NEW before, Preamble(t, c, before),
         traces'[t].event_count = traces[t].event_count, refs'[t]["initial"] = refs[t]["initial"]
  PROVE  Preamble(t, c, before)'
  BY DEF Preamble

\* What the calls do.
LEMMA CallMoves ==
  ASSUME RBase, NEW w \in Threads,
         \/ PutJson(w) \/ CaptureFiles(w) \/ RegisterRef(w) \/ SetRefs(w) \/ AppendLog(w)
         \/ FinishRow(w) \/ ReturnToCaller(w) \/ AppendUnanswered(w)
  PROVE  /\ ~Idle(w) /\ subject[w] \in Traces /\ Moved(subject[w], Head(todo[w]))
         /\ Done(w) \/ (Stop(w) /\ Head(todo[w]).call = "append")
         /\ known' = IF Head(todo[w]).call = "return" THEN known \cup {subject[w]} ELSE known
<1> DEFINE head == Head(todo[w])
           t == subject[w]
<1>1. ~Idle(w) /\ t \in Traces
  BY DEF PutJson, CaptureFiles, RegisterRef, SetRefs, AppendLog, FinishRow, ReturnToCaller,
         AppendUnanswered, Next1, RBase, RecTypes, Idle
<1>2. /\ Done(w) \/ (Stop(w) /\ head.call = "append")
      /\ known' = IF head.call = "return" THEN known \cup {t} ELSE known
  BY DEF PutJson, CaptureFiles, RegisterRef, SetRefs, AppendLog, FinishRow, ReturnToCaller,
         AppendUnanswered, Next1
<1>3. CASE PutJson(w) \/ CaptureFiles(w) \/ RegisterRef(w) \/ ReturnToCaller(w)
  <2>1. head.call \in {"put", "capture", "register", "return"} /\ UNCHANGED <<traces, refs>>
    BY <1>3 DEF PutJson, CaptureFiles, RegisterRef, RegisterBlob, ReturnToCaller, Next1, repoVars
  <2> QED
    BY <1>1, <1>2, <2>1 DEF Moved, InitialRef
<1>4. CASE AppendLog(w) \/ AppendUnanswered(w)
  <2>1. head.call = "append" /\ AppendEvent(t, head.body)
    BY <1>4 DEF AppendLog, AppendUnanswered, Next1
  <2>2. /\ traces'[t].event_count = traces[t].event_count + 1 /\ UNCHANGED refs
        /\ traces[t].status = "recording" /\ traces'[t].status = "recording"
        /\ \A u \in Traces : u # t => traces'[u] = traces[u]
    BY <1>1, <2>1, Appended DEF RBase
  <2> QED
    BY <1>1, <1>2, <2>1, <2>2 DEF Moved, InitialRef
<1>5. CASE FinishRow(w)
  <2>1. head.call = "finish" /\ FinishTrace(t, head.status, Signature(head.error))
    BY <1>5 DEF FinishRow, Next1
  <2>2. head.status # "absent"
    <3>1. head \in Calls
      BY <1>1, DueHead DEF RBase, RecTypes, Idle
    <3> QED
      BY <2>1, <3>1, RecorderAssumption DEF Calls, TerminalStatuses
  <2>3. /\ \A u \in Traces : traces'[u].event_count = traces[u].event_count
        /\ \A u \in Traces : traces'[u].status = "absent" <=> traces[u].status = "absent"
        /\ UNCHANGED refs
    BY <1>1, <2>1, <2>2 DEF FinishTrace, RBase, TypeOK, RowOK
  <2> QED
    BY <1>1, <1>2, <2>1, <2>3 DEF Moved, InitialRef
<1>6. CASE SetRefs(w)
  <2>1. head.call = "set_ref" /\ SetWorkspaceRefs(t, head.name, Ref(head.blob))
    BY <1>6 DEF SetRefs, Next1
  <2>2. /\ UNCHANGED traces
        /\ \A u \in Traces : refs'[u]["initial"] =
             IF u = t /\ head.name = "initial" THEN Ref(head.blob) ELSE refs[u]["initial"]
    BY <1>1, <2>1 DEF SetWorkspaceRefs, RBase, TypeOK, RefNames
  <2> QED
    BY <1>1, <1>2, <2>1, <2>2 DEF Moved, InitialRef
<1> QED
  BY <1>3, <1>4, <1>5, <1>6

\* The call leaves the log of its trace with its preamble first.
LEMMA FirstKept ==
  ASSUME RBase, PreambleFirst, NEW w \in Threads,
         \/ PutJson(w) \/ CaptureFiles(w) \/ RegisterRef(w) \/ SetRefs(w) \/ AppendLog(w)
         \/ FinishRow(w) \/ ReturnToCaller(w) \/ AppendUnanswered(w),
         IF subject[w] \in known
         THEN Later(Head(todo[w])) /\ traces[subject[w]].event_count >= 1
         ELSE Preamble(subject[w], Head(todo[w]), {})
  PROVE  PreambleFirst'
<1> DEFINE head == Head(todo[w])
           t == subject[w]
           count == traces[t].event_count
<1>1. /\ ~Idle(w) /\ t \in Traces /\ Moved(t, head)
      /\ count \in Nat /\ DOMAIN trace_events[t] = 0 .. count - 1
  <2>1. ~Idle(w) /\ t \in Traces /\ Moved(t, head)
    BY CallMoves
  <2>2. count \in Nat
    BY <2>1, BoundAssumption DEF RBase, TypeOK, RowOK
  <2>3. DOMAIN trace_events[t] = 0 .. count - 1
    BY <2>1 DEF RBase, TypeOK
  <2> QED
    BY <2>1, <2>2, <2>3
<1>2. CASE AppendLog(w) \/ AppendUnanswered(w)
  <2>1. head.call = "append" /\ AppendEvent(t, head.body) /\ head.body \in RecorderBodies
    <3>1. head.call = "append" /\ AppendEvent(t, head.body)
      BY <1>2 DEF AppendLog, AppendUnanswered, Next1
    <3>2. head \in Calls
      BY <1>1, DueHead DEF RBase, RecTypes, Idle
    <3> QED
      BY <3>1, <3>2 DEF Calls
  <2> DEFINE event == NewEvent(traces[t], head.body)
  <2>2. /\ event.body = AsStored(head.body)
        /\ DOMAIN trace_events'[t] = 0 .. count
        /\ trace_events'[t][count] = event
        /\ \A n \in 0 .. count - 1 : trace_events'[t][n] = trace_events[t][n]
        /\ \A u \in Traces : u # t => trace_events'[u] = trace_events[u]
        /\ UNCHANGED refs
    BY <1>1, <2>1, Appended DEF RBase
  <2>3. event.body.kind = head.body.kind /\ event.body.output_ref = head.body.output_ref
    BY <2>1, <2>2, SameBody
  <2> HIDE DEF event
  <2>4. /\ event.body.kind = "environment" <=> count = 0
        /\ event.body.kind = "checkpoint" =>
             count = 1 /\ refs[t]["initial"] = Ref(event.body.output_ref)
    <3>1. CASE t \in known
      BY <1>1, <2>1, <2>3, <3>1 DEF Later
    <3>2. CASE t \notin known
      <4>1. head.body.kind \in {"environment", "checkpoint"} /\ Preamble(t, head, {})
        BY <2>1, <3>2 DEF Preamble
      <4>2. CASE head.body.kind = "environment"
        BY <2>1, <2>3, <4>1, <4>2 DEF Preamble, IsAppend
      <4>3. CASE head.body.kind = "checkpoint"
        BY <2>1, <2>3, <4>1, <4>3 DEF Preamble, IsAppend, EnvironmentAhead
      <4> QED
        BY <4>1, <4>2, <4>3
    <3> QED
      BY <3>1, <3>2
  <2> SUFFICES ASSUME NEW u \in Traces, NEW n \in DOMAIN trace_events'[u]
               PROVE  /\ trace_events'[u][n].body.kind = "environment" <=> n = 0
                      /\ trace_events'[u][n].body.kind = "checkpoint" =>
                           n = 1 /\ refs[u]["initial"] = Ref(trace_events'[u][n].body.output_ref)
    BY <2>2 DEF PreambleFirst
  <2>5. CASE u = t /\ n = count
    BY <2>2, <2>4, <2>5
  <2>6. CASE u = t /\ n # count
    <3>1. n \in DOMAIN trace_events[t] /\ trace_events'[u][n] = trace_events[t][n]
      BY <1>1, <2>2, <2>6
    <3> QED
      BY <1>1, <2>6, <3>1 DEF PreambleFirst
  <2>7. CASE u # t
    BY <2>2, <2>7 DEF PreambleFirst
  <2> QED
    BY <2>5, <2>6, <2>7
<1>3. CASE ~(AppendLog(w) \/ AppendUnanswered(w))
  <2>1. UNCHANGED trace_events
    BY <1>3 DEF PutJson, CaptureFiles, RegisterRef, RegisterBlob, SetRefs, SetWorkspaceRefs,
                FinishRow, FinishTrace, ReturnToCaller, repoVars
  <2> SUFFICES ASSUME NEW u \in Traces, NEW n \in DOMAIN trace_events[u],
                      trace_events[u][n].body.kind = "checkpoint"
               PROVE  refs'[u]["initial"] = refs[u]["initial"]
    BY <2>1 DEF PreambleFirst
  <2>2. n = 1
    BY DEF PreambleFirst
  <2>3. CASE u = t /\ InitialRef(head)
    <3>1. t \notin known
      BY <2>3 DEF Later
    <3>2. count = 1
      BY <2>3, <3>1 DEF Preamble, EnvironmentAhead
    <3> QED
      BY <1>1, <2>2, <2>3, <3>2
  <2> QED
    BY <1>1, <2>3 DEF Moved
<1> QED
  BY <1>2, <1>3

\* A thread makes its next call.
LEMMA PreambleCall ==
  ASSUME RBase, PreambleInv, NEW w \in Threads,
         \/ PutJson(w) \/ CaptureFiles(w) \/ RegisterRef(w) \/ SetRefs(w) \/ AppendLog(w)
         \/ FinishRow(w) \/ ReturnToCaller(w) \/ AppendUnanswered(w)
  PROVE  PreambleInv'
<1> DEFINE head == Head(todo[w])
           t == subject[w]
<1>1. /\ ~Idle(w) /\ t \in Traces /\ Moved(t, head) /\ (Done(w) \/ Stop(w))
      /\ known' = IF head.call = "return" THEN known \cup {t} ELSE known
  BY CallMoves
<1>2. /\ \A v \in Threads : v # w => todo'[v] = todo[v] /\ subject'[v] = subject[v]
      /\ \A d \in Due(todo'[w]) : <<d[1], d[2] \cup {head}>> \in Due(todo[w])
      /\ todo'[w] # << >> => subject'[w] = t
      /\ <<head, {}>> \in Due(todo[w]) /\ todo'[w] \in Seq(Calls)
  BY <1>1, DoneDue DEF RBase
<1>3. IF t \in known THEN Later(head) ELSE Preamble(t, head, {})
  BY <1>2 DEF PreambleInv, PreambleDue
<1>4. traces[t].status # "absent"
  BY <1>1 DEF PreambleInv, Fresh
<1>5. \A v \in Threads : ~Idle(v)' => ~Idle(v) /\ subject'[v] = subject[v]
  BY <1>1, <1>2 DEF Idle
<1>6. \A u \in Traces : /\ traces[u].event_count \in Nat /\ traces'[u].event_count \in Nat
                        /\ traces'[u].event_count >= traces[u].event_count
  <2>1. \A u \in Traces : traces[u].event_count \in Nat
    BY BoundAssumption DEF RBase, TypeOK, RowOK
  <2> QED
    BY <1>1, <2>1 DEF Moved
<1> HIDE DEF head, t
<1>7. Fresh'
  <2> SUFFICES ASSUME NEW u \in Traces, traces'[u].status = "absent"
               PROVE  /\ u \notin known' /\ traces'[u].event_count = 0
                      /\ \A v \in Threads : ~Idle(v)' => subject'[v] # u
    BY DEF Fresh
  <2>1. traces[u].status = "absent" /\ u # t
    BY <1>1, <1>4 DEF Moved
  <2>2. /\ u \notin known /\ traces[u].event_count = 0
        /\ \A v \in Threads : ~Idle(v) => subject[v] # u
    BY <2>1 DEF PreambleInv, Fresh
  <2> QED
    BY <1>1, <1>5, <2>1, <2>2 DEF Moved
<1>8. Alone'
  <2> SUFFICES ASSUME NEW x \in Threads, NEW v \in Threads, ~Idle(x)', ~Idle(v)',
                      subject'[x] = subject'[v], subject'[x] \notin known'
               PROVE  x = v
    BY DEF Alone
  <2>1. ~Idle(x) /\ ~Idle(v) /\ subject[x] = subject[v] /\ subject[x] \notin known
    BY <1>1, <1>5
  <2> QED
    BY <2>1 DEF PreambleInv, Alone
<1>9. Started'
  <2> SUFFICES ASSUME NEW u \in known' PROVE traces'[u].event_count >= 1
    BY DEF Started
  <2>1. CASE u \in known
    <3>1. traces[u].event_count >= 1 /\ u \in Traces
      BY <2>1 DEF PreambleInv, Started, RBase, RecTypes
    <3> QED
      BY <1>6, <3>1
  <2>2. CASE u \notin known
    <3>1. u = t /\ head.call = "return"
      BY <1>1, <2>2
    <3>2. traces[t].event_count >= 1
      BY <1>3, <2>2, <3>1 DEF Preamble, EnvironmentAhead
    <3>3. traces'[t].event_count = traces[t].event_count
      BY <1>1, <3>1 DEF Moved
    <3> QED
      BY <3>1, <3>2, <3>3
  <2> QED
    BY <2>1, <2>2
<1>10. PreambleDue'
  <2> SUFFICES ASSUME NEW v \in Threads, NEW d \in Due(todo'[v]), NEW u, u = subject'[v]
               PROVE  IF u \in known' THEN Later(d[1]) ELSE Preamble(u, d[1], d[2])'
    BY DEF PreambleDue, Preamble
  <2>1. ~Idle(v)'
    BY DueEmpty DEF Idle
  <2>2. CASE v # w
    <3>1. /\ u = subject[v] /\ ~Idle(v) /\ u \in Traces
          /\ IF u \in known THEN Later(d[1]) ELSE Preamble(u, d[1], d[2])
      BY <1>2, <1>5, <2>1, <2>2 DEF PreambleInv, PreambleDue, RBase, RecTypes
    <3>2. CASE u \in known
      BY <1>1, <3>1, <3>2
    <3>3. CASE u \notin known
      <4>1. u # t
        BY <1>1, <2>2, <3>1, <3>3 DEF PreambleInv, Alone, t
      <4>2. u \notin known'
        BY <1>1, <3>3, <4>1
      <4>3. /\ traces'[u].event_count = traces[u].event_count
            /\ refs'[u]["initial"] = refs[u]["initial"]
        BY <1>1, <3>1, <4>1 DEF Moved
      <4>4. Preamble(u, d[1], d[2])'
        BY <3>1, <3>3, <4>3, PreambleKept
      <4> QED
        BY <4>2, <4>4
    <3> QED
      BY <3>2, <3>3
  <2>3. CASE v = w
    <3>1. u = t /\ <<d[1], d[2] \cup {head}>> \in Due(todo[w])
      BY <1>2, <2>1, <2>3 DEF Idle
    <3>2. CASE t \in known
      <4>1. Later(d[1])
        BY <3>1, <3>2 DEF PreambleInv, PreambleDue, t
      <4> QED
        BY <1>1, <3>1, <3>2, <4>1
    <3>3. CASE t \notin known
      <4>1. Preamble(u, d[1], d[2] \cup {head}) /\ Preamble(u, head, {})
        BY <1>3, <3>1, <3>3 DEF PreambleInv, PreambleDue, t
      <4>2. head.call # "return" /\ known' = known
        BY <1>1, <4>1 DEF Preamble
      <4>3. EnvironmentAhead(d[2]) => head.call # "append"
        <5> SUFFICES ASSUME NEW b \in d[2], IsAppend(b, "environment") PROVE head.call # "append"
          BY DEF EnvironmentAhead
        <5>1. PICK e \in Due(todo'[w]) : e[1] = b
          BY <1>2, <2>3, DueMember
        <5>2. <<b, e[2] \cup {head}>> \in Due(todo[w])
          BY <1>2, <5>1
        <5>3. Preamble(t, b, e[2] \cup {head})
          BY <3>3, <5>2 DEF PreambleInv, PreambleDue, t
        <5> QED
          BY <5>3 DEF Preamble
      <4>4. u \in Traces /\ Moved(u, head)
        BY <1>1, <3>1
      <4>5. Preamble(u, d[1], d[2])'
        BY <4>1, <4>3, <4>4, PreambleShift
      <4> QED
        BY <3>1, <3>3, <4>2, <4>5
    <3> QED
      BY <3>2, <3>3
  <2> QED
    BY <2>2, <2>3
<1>11. PreambleFirst'
  <2>1. t \in known => traces[t].event_count >= 1
    BY DEF PreambleInv, Started
  <2> QED
    BY <1>3, <2>1, FirstKept DEF PreambleInv, head, t
<1> QED
  BY <1>7, <1>8, <1>9, <1>10, <1>11 DEF PreambleInv

\* Operations on a trace begin once it is known.
LEMMA PreambleBegin ==
  ASSUME RBase, PreambleInv, NEW w \in Threads, NEW t \in known, NEW calls \in Seq(Calls),
         Begin(w, t, calls), UNCHANGED <<repoVars, known>>, \A d \in Due(calls) : Later(d[1])
  PROVE  PreambleInv'
<1>1. /\ \A v \in Threads : v # w => todo'[v] = todo[v] /\ subject'[v] = subject[v]
      /\ todo'[w] = calls /\ subject'[w] = t /\ t \in Traces
  BY BeginDue DEF RBase, RecTypes
<1>2. UNCHANGED <<traces, trace_events, refs, known>>
  BY DEF repoVars
<1>3. Fresh'
  <2>1. traces[t].status # "absent"
    BY <1>1 DEF PreambleInv, Fresh
  <2> QED
    BY <1>1, <1>2, <2>1 DEF PreambleInv, Fresh, Idle
<1>4. Alone'
  BY <1>1, <1>2 DEF PreambleInv, Alone, Idle
<1>5. PreambleDue'
  BY <1>1, <1>2 DEF PreambleInv, PreambleDue, Preamble
<1> QED
  BY <1>2, <1>3, <1>4, <1>5 DEF PreambleInv, Started, PreambleFirst

LEMMA PreambleStart ==
  ASSUME RBase, PreambleInv, NEW w \in Threads, NEW t \in Traces, NEW env \in Environments,
         NEW m \in Manifests \cup {None}, StartTrace(w, t, env, m)
  PROVE  PreambleInv'
<1>1. /\ \A v \in Threads : v # w => todo'[v] = todo[v] /\ subject'[v] = subject[v]
      /\ todo'[w] = StartCalls(env, m) /\ subject'[w] = t /\ Idle(w)
  BY StartDue, BeginDue DEF StartTrace, RBase, Idle
<1>2. /\ UNCHANGED <<trace_events, refs, known>> /\ traces[t].status = "absent"
      /\ \A u \in Traces : /\ traces'[u].event_count = traces[u].event_count
                           /\ u # t => traces'[u] = traces[u]
      /\ traces'[t].status = "recording"
  BY DEF StartTrace, CreateTrace, RBase, TypeOK, RowOK
<1>3. /\ t \notin known /\ traces[t].event_count = 0
      /\ \A v \in Threads : ~Idle(v) => subject[v] # t
  BY <1>2 DEF PreambleInv, Fresh
<1>4. Fresh'
  BY <1>1, <1>2 DEF PreambleInv, Fresh, Idle
<1>5. Alone'
  BY <1>1, <1>2, <1>3 DEF PreambleInv, Alone, Idle
<1>6. PreambleDue'
  <2> SUFFICES ASSUME NEW v \in Threads, NEW d \in Due(todo'[v]), NEW u, u = subject'[v]
               PROVE  IF u \in known THEN Later(d[1]) ELSE Preamble(u, d[1], d[2])'
    BY <1>2 DEF PreambleDue, Preamble
  <2>1. CASE v = w
    <3>1. Preamble(t, d[1], d[2])
      BY <1>1, <1>3, <2>1, StartPreamble
    <3>2. Preamble(t, d[1], d[2])'
      BY <1>2, <3>1, PreambleKept
    <3> QED
      BY <1>1, <1>3, <2>1, <3>2
  <2>2. CASE v # w
    <3>1. /\ u = subject[v] /\ u \in Traces
          /\ IF u \in known THEN Later(d[1]) ELSE Preamble(u, d[1], d[2])
      BY <1>1, <2>2, DueEmpty DEF PreambleInv, PreambleDue, RBase, RecTypes, Idle
    <3> QED
      BY <1>2, <3>1, PreambleKept
  <2> QED
    BY <2>1, <2>2
<1>7. Started'
  BY <1>2 DEF PreambleInv, Started, RBase, RecTypes
<1>8. PreambleFirst'
  BY <1>2 DEF PreambleInv, PreambleFirst
<1> QED
  BY <1>4, <1>5, <1>6, <1>7, <1>8 DEF PreambleInv

LEMMA PreambleOperation ==
  ASSUME RBase, PreambleInv, NEW w \in Threads, Operation(w)
  PROVE  PreambleInv'
<1>1. ASSUME NEW t \in Traces, NEW kind \in CallKinds, NEW request \in Documents,
             NEW cost \in Costs \cup {"none"}, RecordCall(w, t, kind, request, cost)
      PROVE  PreambleInv'
  <2>1. /\ Begin(w, t, CallCalls(kind, request, cost)) /\ t \in known
        /\ UNCHANGED <<repoVars, known>>
    BY <1>1 DEF RecordCall
  <2> QED
    BY <2>1, CallDue, LaterCalls, PreambleBegin
<1>2. ASSUME NEW t \in Traces, NEW previous \in Manifests, NEW current \in Manifests,
             NEW delta \in Deltas, CaptureDelta(w, t, previous, current, delta)
      PROVE  PreambleInv'
  <2>1. /\ Begin(w, t, DeltaCalls(previous, current, delta)) /\ t \in known
        /\ UNCHANGED <<repoVars, known>>
    BY <1>2 DEF CaptureDelta
  <2> QED
    BY <2>1, DeltaDue, LaterCalls, PreambleBegin
<1>3. ASSUME NEW t \in Traces, NEW status \in Statuses, NEW m \in Manifests \cup {None},
             NEW error \in Errors \cup {None}, Finish(w, t, status, m, error)
      PROVE  PreambleInv'
  <2>1. /\ Begin(w, t, FinishCalls(status, m, error)) /\ t \in known
        /\ UNCHANGED <<repoVars, known>>
    BY <1>3 DEF Finish
  <2> QED
    BY <2>1, FinishDue, LaterCalls, PreambleBegin
<1> QED
  BY <1>1, <1>2, <1>3, PreambleStart DEF Operation, CallKinds

\* The model or tool is called.
LEMMA PreambleExecute ==
  ASSUME RBase, PreambleInv, NEW w \in Threads, NEW output \in Documents \cup {None},
         NEW error \in Errors \cup {None}, Execute(w, output, error)
  PROVE  PreambleInv'
<1> DEFINE head == Head(todo[w])
<1>1. /\ ~Idle(w) /\ head \in Calls /\ head.call = "execute" /\ <<head, {}>> \in Due(todo[w])
      /\ subject' = subject /\ \A v \in Threads : v # w => todo'[v] = todo[v]
      /\ todo'[w] = OutcomeCalls(head, output, error)
  BY ExecuteDue DEF RBase
<1>2. UNCHANGED <<traces, trace_events, refs, known>>
  BY DEF Execute, repoVars
<1>3. \A v \in Threads : ~Idle(v)' => ~Idle(v)
  BY <1>1 DEF Idle
<1>4. subject[w] \in known
  BY <1>1 DEF PreambleInv, PreambleDue, Preamble
<1>5. \A d \in Due(todo'[w]) : Later(d[1])
  BY <1>1, LaterCalls
<1>6. PreambleDue'
  BY <1>1, <1>2, <1>4, <1>5 DEF PreambleInv, PreambleDue, Preamble
<1> QED
  BY <1>1, <1>2, <1>3, <1>6 DEF PreambleInv, Fresh, Alone, Started, PreambleFirst

LEMMA PreambleAbandon ==
  ASSUME RBase, PreambleInv, NEW w \in Threads, Abandon(w)
  PROVE  PreambleInv'
<1>1. /\ \A v \in Threads : v # w => todo'[v] = todo[v] /\ subject'[v] = subject[v]
      /\ todo'[w] = << >> /\ UNCHANGED <<traces, trace_events, refs, known>>
  BY DEF Abandon, Stop, repoVars, RBase, RecTypes
<1>2. \A v \in Threads : ~Idle(v)' => ~Idle(v) /\ subject'[v] = subject[v]
  BY <1>1 DEF Idle
<1>3. PreambleDue'
  BY <1>1, DueEmpty DEF PreambleInv, PreambleDue, Preamble
<1> QED
  BY <1>1, <1>2, <1>3 DEF PreambleInv, Fresh, Alone, Started, PreambleFirst

LEMMA PreambleInvInit == RecInit => PreambleInv
  BY DueEmpty DEF RecInit, Init, NoRow, PreambleInv, Fresh, Alone, Started, PreambleDue,
     PreambleFirst, Idle

LEMMA PreambleInvStep == RBase /\ PreambleInv /\ [RecNext]_allVars => PreambleInv'
<1> SUFFICES ASSUME RBase, PreambleInv, [RecNext]_allVars PROVE PreambleInv'
  OBVIOUS
<1>1. CASE UNCHANGED allVars
  BY <1>1 DEF allVars, repoVars, recorderVars, PreambleInv, Fresh, Alone, Started, PreambleDue,
             Preamble, PreambleFirst, Idle
<1> QED
  BY <1>1, PreambleOperation, PreambleCall, PreambleExecute, PreambleAbandon DEF RecNext

\* Whatever other threads do once the trace exists, and wherever its start is cut short:
\* the log of a trace begins with its environment and then its initial checkpoint, the
\* one its row refers to, and has no second one of either.
THEOREM PreambleComesFirst == RecSpec => []PreambleFirst
<1>1. RecInit => RBase /\ PreambleInv
  BY RBaseInit, PreambleInvInit
<1>2. RBase /\ PreambleInv /\ [RecNext]_allVars => RBase' /\ PreambleInv'
  BY RBaseStep, PreambleInvStep
<1>3. RBase /\ PreambleInv => PreambleFirst
  BY DEF PreambleInv
<1> QED
  BY <1>1, <1>2, <1>3, PTL DEF RecSpec
----------------------------------------------------------------------------
\* The log says that the trace ended with status, and with an error or without.
Says(body, status, error) ==
  /\ body.kind = "run_finished" /\ body.status = status
  /\ body.error_ref = None <=> error = None

\* The row is closed only once the log says so.
ClosesAfter(t, c, before) ==
  c.call = "finish" =>
    \/ \E b \in before : b.call = "append" /\ Says(b.body, c.status, c.error)
    \/ \E event \in Events(t) : Says(event.body, c.status, c.error)

CloseDue == \A w \in Threads : \A d \in Due(todo[w]) : ClosesAfter(subject[w], d[1], d[2])
ClosedInv == CloseDue /\ ClosedByLog

\* Only finish closes a row.
LEMMA CloseCalls ==
  /\ \A t : \A env \in Environments, m \in Manifests \cup {None} :
       \A d \in Due(StartCalls(env, m)) : ClosesAfter(t, d[1], d[2])
  /\ \A t : \A kind \in CallKinds, request \in Documents, cost \in Costs \cup {"none"} :
       \A d \in Due(CallCalls(kind, request, cost)) : ClosesAfter(t, d[1], d[2])
  /\ \A t : \A execute \in Calls, output \in Documents \cup {None}, error \in Errors \cup {None} :
       execute.call = "execute" =>
         \A d \in Due(OutcomeCalls(execute, output, error)) : ClosesAfter(t, d[1], d[2])
  /\ \A t : \A previous, current \in Manifests, delta \in Deltas :
       \A d \in Due(DeltaCalls(previous, current, delta)) : ClosesAfter(t, d[1], d[2])
  /\ \A t : \A status \in Statuses, m \in Manifests \cup {None}, error \in Errors \cup {None} :
       \A d \in Due(FinishCalls(status, m, error)) : ClosesAfter(t, d[1], d[2])
<1>1. \A t, b, name, before :
        /\ ClosesAfter(t, Put(b), before) /\ ClosesAfter(t, Register(b), before)
        /\ ClosesAfter(t, Capture(b), before) /\ ClosesAfter(t, SetRef(name, b), before)
        /\ ClosesAfter(t, LogEvent(b), before) /\ ClosesAfter(t, Return(b), before)
  BY DEF ClosesAfter, Put, Register, Capture, SetRef, LogEvent, Return
<1>2. ASSUME NEW t, NEW env \in Environments, NEW m \in Manifests \cup {None},
             NEW d \in Due(StartCalls(env, m))
      PROVE  ClosesAfter(t, d[1], d[2])
  <2>1. \/ d[1] \in {Put(env), Register(env), SetRef("environment", env), EnvironmentEvent(env)}
        \/ d[1] \in {Capture(m), Put(m), Register(m), SetRef("initial", m), CheckpointEvent(m)}
        \/ d[1] = Return("trace")
    BY <1>2, StartDue
  <2> QED
    BY <1>1, <2>1 DEF EnvironmentEvent, CheckpointEvent
<1>3. ASSUME NEW t, NEW kind \in CallKinds, NEW request \in Documents,
             NEW cost \in Costs \cup {"none"}, NEW d \in Due(CallCalls(kind, request, cost))
      PROVE  ClosesAfter(t, d[1], d[2])
  <2>1. d[1] \in Stores(request) \/ d[1] = ExecuteCall(kind, request, cost)
    BY <1>3, CallDue
  <2>2. ClosesAfter(t, ExecuteCall(kind, request, cost), d[2])
    BY DEF ClosesAfter, ExecuteCall
  <2> QED
    BY <1>1, <2>1, <2>2 DEF Stores
<1>4. ASSUME NEW t, NEW execute \in Calls, NEW output \in Documents \cup {None},
             NEW error \in Errors \cup {None}, execute.call = "execute",
             NEW d \in Due(OutcomeCalls(execute, output, error))
      PROVE  ClosesAfter(t, d[1], d[2])
  <2>1. \/ d[1] \in Stores(output) \cup Stores(error)
        \/ d[1] = OutcomeEvent(execute, output, error) \/ d[1] = Return("result")
    BY <1>4, OutcomeDue
  <2> QED
    BY <1>1, <2>1 DEF Stores, OutcomeEvent
<1>5. ASSUME NEW t, NEW previous \in Manifests, NEW current \in Manifests, NEW delta \in Deltas,
             NEW d \in Due(DeltaCalls(previous, current, delta))
      PROVE  ClosesAfter(t, d[1], d[2])
  <2>1. \/ d[1] \in {Capture(current)} \cup (Stores(previous) \cup Stores(delta))
        \/ d[1] = DeltaEvent(previous, delta) \/ d[1] = Return("manifest")
    BY <1>5, DeltaDue
  <2> QED
    BY <1>1, <2>1 DEF Stores, DeltaEvent
<1>6. ASSUME NEW t, NEW status \in Statuses, NEW m \in Manifests \cup {None},
             NEW error \in Errors \cup {None}, NEW d \in Due(FinishCalls(status, m, error))
      PROVE  ClosesAfter(t, d[1], d[2])
  <2>1. CASE d[1] = FinishCall(status, error) /\ FinishEvent(status, m, error) \in d[2]
    BY <2>1 DEF ClosesAfter, Says, FinishCall, FinishEvent, LogEvent, Body
  <2>2. \/ d[1] \in Stores(error) \cup {Capture(m), Put(m), Register(m), SetRef("final", m)}
        \/ d[1] = FinishEvent(status, m, error) \/ d[1] = Return("trace")
        \/ d[1] = FinishCall(status, error) /\ FinishEvent(status, m, error) \in d[2]
    BY <1>6, FinishDue
  <2> QED
    BY <1>1, <2>1, <2>2 DEF Stores, FinishEvent
<1> QED
  BY <1>2, <1>3, <1>4, <1>5, <1>6

\* Events stay in the log, so a closed row keeps the event that says how it ended.
LEMMA ClosesKept ==
  ASSUME NEW t, NEW c, NEW before, ClosesAfter(t, c, before), Events(t) \subseteq Events(t)'
  PROVE  ClosesAfter(t, c, before)'
  BY DEF ClosesAfter

LEMMA EventsStay ==
  ASSUME RBase, [RecNext]_allVars
  PROVE  \A t \in Traces : Events(t) \subseteq Events(t)'
<1>1. ASSUME NEW t \in Traces, NEW body, AppendEvent(t, body)
      PROVE  \A u \in Traces : Events(u) \subseteq Events(u)'
  BY <1>1, Appended DEF RBase
<1>2. CASE UNCHANGED trace_events
  BY <1>2 DEF Events
<1>3. [Next]_repoVars
  BY RBaseStep
<1>4. UNCHANGED trace_events \/ \E t \in Traces : \E body \in Bodies : AppendEvent(t, body)
  BY <1>3 DEF Next, repoVars, CreateTrace, FinishTrace, SetWorkspaceRefs, RegisterBlob
<1> QED
  BY <1>1, <1>2, <1>4

\* A thread makes its next call: if it was the event, the log has it.
LEMMA CloseCall ==
  ASSUME RBase, ClosedInv, [RecNext]_allVars, NEW w \in Threads,
         \/ PutJson(w) \/ CaptureFiles(w) \/ RegisterRef(w) \/ SetRefs(w) \/ AppendLog(w)
         \/ FinishRow(w) \/ ReturnToCaller(w) \/ AppendUnanswered(w)
  PROVE  CloseDue'
<1> DEFINE head == Head(todo[w])
           t == subject[w]
<1>1. ~Idle(w) /\ t \in Traces /\ (Done(w) \/ Stop(w))
  BY CallMoves
<1>2. /\ \A v \in Threads : v # w => todo'[v] = todo[v] /\ subject'[v] = subject[v]
      /\ \A d \in Due(todo'[w]) : <<d[1], d[2] \cup {head}>> \in Due(todo[w])
      /\ todo'[w] # << >> => subject'[w] = t
      /\ head \in Calls
  BY <1>1, DoneDue DEF RBase
<1>3. ASSUME NEW u \in Traces, u = t, head.call = "append"
      PROVE  \E event \in Events(u)' : /\ event.body.kind = head.body.kind
                                       /\ event.body.status = head.body.status
                                       /\ event.body.error_ref = head.body.error_ref
  <2>1. AppendEvent(u, head.body) /\ head.body \in RecorderBodies
    <3>1. AppendEvent(u, head.body)
      BY <1>3 DEF PutJson, CaptureFiles, RegisterRef, SetRefs, AppendLog, FinishRow,
                  ReturnToCaller, AppendUnanswered, Next1
    <3> QED
      BY <1>2, <1>3, <3>1 DEF Calls
  <2>2. PICK event \in Events(u)' : event.body = AsStored(head.body)
    BY <2>1, Appended DEF RBase
  <2> QED
    BY <2>1, <2>2, SameBody
<1> SUFFICES ASSUME NEW v \in Threads, NEW d \in Due(todo'[v]), NEW u, u = subject'[v]
             PROVE  ClosesAfter(u, d[1], d[2])'
  BY DEF CloseDue, ClosesAfter, Events
<1>4. CASE v # w
  <2>1. u = subject[v] /\ u \in Traces /\ ClosesAfter(u, d[1], d[2])
    BY <1>2, <1>4, DueEmpty DEF ClosedInv, CloseDue, RBase, RecTypes, Idle
  <2> QED
    BY <2>1, EventsStay, ClosesKept
<1>5. CASE v = w
  <2>1. u = t /\ u \in Traces /\ ClosesAfter(u, d[1], d[2] \cup {head})
    BY <1>1, <1>2, <1>5, DueEmpty DEF ClosedInv, CloseDue
  <2>2. Events(u) \subseteq Events(u)'
    BY <2>1, EventsStay
  <2> SUFFICES ASSUME d[1].call = "finish"
               PROVE  \/ \E b \in d[2] : b.call = "append" /\ Says(b.body, d[1].status, d[1].error)
                      \/ \E event \in Events(u)' : Says(event.body, d[1].status, d[1].error)
    BY DEF ClosesAfter
  <2>3. CASE head.call = "append" /\ Says(head.body, d[1].status, d[1].error)
    BY <1>3, <2>1, <2>3 DEF Says
  <2> QED
    BY <2>1, <2>2, <2>3 DEF ClosesAfter
<1> QED
  BY <1>4, <1>5

\* What begins has its own calls to make, or the outcome of one.
LEMMA CloseBegin ==
  ASSUME RBase, ClosedInv, [RecNext]_allVars, NEW w \in Threads,
         \/ Operation(w) \/ Abandon(w)
         \/ \E output \in Documents : Execute(w, output, None)
         \/ \E error \in Errors : Execute(w, None, error)
  PROVE  CloseDue'
<1>1. ASSUME NEW calls, NEW t \in Traces,
             \A v \in Threads : v # w => todo'[v] = todo[v] /\ subject'[v] = subject[v],
             todo'[w] = calls, calls # << >> => subject'[w] = t,
             \A d \in Due(calls) : ClosesAfter(t, d[1], d[2])
      PROVE  CloseDue'
  <2> SUFFICES ASSUME NEW v \in Threads, NEW d \in Due(todo'[v]), NEW u, u = subject'[v]
               PROVE  ClosesAfter(u, d[1], d[2])'
    BY DEF CloseDue, ClosesAfter, Events
  <2>1. u \in Traces /\ ClosesAfter(u, d[1], d[2])
    <3>1. CASE v # w
      BY <1>1, <3>1, DueEmpty DEF ClosedInv, CloseDue, RBase, RecTypes, Idle
    <3>2. CASE v = w
      BY <1>1, <3>2, DueEmpty
    <3> QED
      BY <3>1, <3>2
  <2> QED
    BY <2>1, EventsStay, ClosesKept
<1>2. ASSUME NEW t \in Traces, NEW calls \in Seq(Calls), Begin(w, t, calls),
             \A d \in Due(calls) : ClosesAfter(t, d[1], d[2])
      PROVE  CloseDue'
  BY <1>1, <1>2, BeginDue DEF RBase
<1>3. CASE Operation(w)
  <2>1. ASSUME NEW t \in Traces, NEW env \in Environments, NEW m \in Manifests \cup {None},
               StartTrace(w, t, env, m)
        PROVE  CloseDue'
    BY <1>2, <2>1, StartDue, CloseCalls DEF StartTrace
  <2>2. ASSUME NEW t \in Traces, NEW kind \in CallKinds, NEW request \in Documents,
               NEW cost \in Costs \cup {"none"}, RecordCall(w, t, kind, request, cost)
        PROVE  CloseDue'
    BY <1>2, <2>2, CallDue, CloseCalls DEF RecordCall
  <2>3. ASSUME NEW t \in Traces, NEW previous \in Manifests, NEW current \in Manifests,
               NEW delta \in Deltas, CaptureDelta(w, t, previous, current, delta)
        PROVE  CloseDue'
    BY <1>2, <2>3, DeltaDue, CloseCalls DEF CaptureDelta
  <2>4. ASSUME NEW t \in Traces, NEW status \in Statuses, NEW m \in Manifests \cup {None},
               NEW error \in Errors \cup {None}, Finish(w, t, status, m, error)
        PROVE  CloseDue'
    BY <1>2, <2>4, FinishDue, CloseCalls DEF Finish
  <2> QED
    BY <1>3, <2>1, <2>2, <2>3, <2>4 DEF Operation, CallKinds
<1>4. ASSUME NEW output \in Documents \cup {None}, NEW error \in Errors \cup {None},
             Execute(w, output, error)
      PROVE  CloseDue'
  <2>1. /\ Head(todo[w]) \in Calls /\ Head(todo[w]).call = "execute" /\ subject[w] \in Traces
        /\ subject' = subject /\ \A v \in Threads : v # w => todo'[v] = todo[v]
        /\ todo'[w] = OutcomeCalls(Head(todo[w]), output, error)
    BY <1>4, ExecuteDue DEF RBase
  <2>2. \A d \in Due(todo'[w]) : ClosesAfter(subject[w], d[1], d[2])
    BY <2>1, CloseCalls
  <2> QED
    BY <1>1, <2>1, <2>2
<1>5. CASE Abandon(w)
  <2>1. /\ \A v \in Threads : v # w => todo'[v] = todo[v] /\ subject'[v] = subject[v]
        /\ todo'[w] = << >> /\ subject[w] \in Traces
    BY <1>5 DEF Abandon, Stop, RBase, RecTypes
  <2> QED
    BY <1>1, <2>1, DueEmpty
<1> QED
  BY <1>3, <1>4, <1>5

\* A row is closed by a thread whose event is in the log, and stays as it is.
LEMMA ClosedByLogStep ==
  ASSUME RBase, ClosedInv, [RecNext]_allVars
  PROVE  ClosedByLog'
<1>1. ASSUME NEW w \in Threads, FinishRow(w) PROVE ClosedByLog'
  <2> DEFINE head == Head(todo[w])
  <2>1. /\ ~Idle(w) /\ head.call = "finish"
        /\ FinishTrace(subject[w], head.status, Signature(head.error))
    BY <1>1 DEF FinishRow, Next1
  <2>2. subject[w] \in Traces /\ <<head, {}>> \in Due(todo[w])
    BY <2>1, DueHead DEF RBase, RecTypes, Idle
  <2>3. PICK t \in Traces : t = subject[w]
    BY <2>2
  <2>4. PICK event \in Events(t) : Says(event.body, head.status, head.error)
    BY <2>1, <2>2, <2>3 DEF ClosedInv, CloseDue, ClosesAfter
  <2>5. /\ traces'[t].status = head.status /\ traces'[t].failure_signature = Signature(head.error)
        /\ \A u \in Traces : u # t => traces'[u] = traces[u]
        /\ UNCHANGED trace_events
    BY <2>1, <2>3 DEF FinishTrace, RBase, TypeOK, RowOK
  <2>6. head.error = None <=> traces'[t].failure_signature = None
    BY <2>5, CallerAssumption DEF Signature
  <2> SUFFICES ASSUME NEW u \in Traces, traces'[u].status \in TerminalStatuses
               PROVE  \E e \in Events(u) :
                        /\ e.body.kind = "run_finished"
                        /\ e.body.status = traces'[u].status
                        /\ e.body.error_ref = None <=> traces'[u].failure_signature = None
    BY <2>5 DEF ClosedByLog, Events
  <2>7. CASE u = t
    BY <2>4, <2>5, <2>6, <2>7 DEF Says
  <2>8. CASE u # t
    BY <2>5, <2>8 DEF ClosedInv, ClosedByLog
  <2> QED
    BY <2>7, <2>8
<1>2. ASSUME \A u \in Traces : traces'[u].status \in TerminalStatuses => traces'[u] = traces[u]
      PROVE  ClosedByLog'
  <2> SUFFICES ASSUME NEW u \in Traces, traces'[u].status \in TerminalStatuses
               PROVE  \E e \in Events(u)' :
                        /\ e.body.kind = "run_finished"
                        /\ e.body.status = traces'[u].status
                        /\ e.body.error_ref = None <=> traces'[u].failure_signature = None
    BY DEF ClosedByLog, Events
  <2> QED
    BY <1>2, EventsStay DEF ClosedInv, ClosedByLog
<1>3. ASSUME NEW w \in Threads,
             \/ AppendLog(w) \/ AppendUnanswered(w)
      PROVE  \A u \in Traces : traces'[u].status \in TerminalStatuses => traces'[u] = traces[u]
  <2>1. AppendEvent(subject[w], Head(todo[w]).body) /\ subject[w] \in Traces
    BY <1>3 DEF AppendLog, AppendUnanswered, Next1, RBase, RecTypes
  <2> QED
    BY <2>1, Appended DEF RBase, TerminalStatuses
<1>4. ASSUME NEW w \in Threads, Operation(w)
      PROVE  \A u \in Traces : traces'[u].status \in TerminalStatuses => traces'[u] = traces[u]
  <2>1. ASSUME NEW t \in Traces, CreateTrace(t)
        PROVE  \A u \in Traces : traces'[u].status \in TerminalStatuses => traces'[u] = traces[u]
    BY <2>1 DEF CreateTrace, RBase, TypeOK, RowOK, TerminalStatuses
  <2>2. UNCHANGED traces \/ \E t \in Traces : CreateTrace(t)
    BY <1>4 DEF Operation, StartTrace, RecordCall, CaptureDelta, Finish, repoVars
  <2> QED
    BY <2>1, <2>2
<1>5. ASSUME NEW w \in Threads,
             \/ PutJson(w) \/ CaptureFiles(w) \/ RegisterRef(w) \/ SetRefs(w) \/ ReturnToCaller(w)
             \/ Abandon(w) \/ \E output, error : Execute(w, output, error)
      PROVE  UNCHANGED traces
  BY <1>5 DEF PutJson, CaptureFiles, RegisterRef, RegisterBlob, SetRefs, SetWorkspaceRefs,
              ReturnToCaller, Abandon, Execute, repoVars
<1>6. CASE UNCHANGED allVars
  BY <1>2, <1>6 DEF allVars, repoVars
<1> QED
  BY <1>1, <1>2, <1>3, <1>4, <1>5, <1>6 DEF RecNext

LEMMA ClosedInvInit == RecInit => ClosedInv
  BY DueEmpty DEF RecInit, Init, NoRow, TerminalStatuses, ClosedInv, CloseDue, ClosedByLog

LEMMA ClosedInvStep == RBase /\ ClosedInv /\ [RecNext]_allVars => ClosedInv'
<1> SUFFICES ASSUME RBase, ClosedInv, [RecNext]_allVars PROVE ClosedInv'
  OBVIOUS
<1>1. CASE UNCHANGED allVars
  BY <1>1 DEF allVars, repoVars, recorderVars, ClosedInv, CloseDue, ClosesAfter, Events,
             ClosedByLog
<1>2. CASE RecNext
  BY <1>2, CloseCall, CloseBegin, ClosedByLogStep DEF ClosedInv, RecNext
<1> QED
  BY <1>1, <1>2

\* Whichever thread closes a trace and whatever others append: its log says how it
\* ended, with the status of the row and an error exactly when the row has one.
THEOREM LogSaysHowItEnded == RecSpec => []ClosedByLog
<1>1. RecInit => RBase /\ ClosedInv
  BY RBaseInit, ClosedInvInit
<1>2. RBase /\ ClosedInv /\ [RecNext]_allVars => RBase' /\ ClosedInv'
  BY RBaseStep, ClosedInvStep
<1>3. RBase /\ ClosedInv => ClosedByLog
  BY DEF ClosedInv
<1> QED
  BY <1>1, <1>2, <1>3, PTL DEF RecSpec
----------------------------------------------------------------------------
\* A call that is to be logged, and one that is answered to the caller.
CallAppend(c) == c.call = "append" /\ c.body.kind \in CallKinds
Answer(c) == c.call = "return" /\ c.what = "result"

\* The threads that have made a call for t and not logged it yet, and those that have
\* logged it and not answered yet.
Unlogged(t) == {w \in Threads : subject[w] = t /\ \E c \in CallsOf(todo[w]) : CallAppend(c)}
Unanswered(t) ==
  {w \in Threads : /\ subject[w] = t
                   /\ \E c \in CallsOf(todo[w]) : Answer(c)
                   /\ \A c \in CallsOf(todo[w]) : ~CallAppend(c)}

\* A call is logged once and then answered once.
OneOutcome ==
  \A w \in Threads : \A d \in Due(todo[w]) : \A b \in d[2] :
    /\ CallAppend(d[1]) => ~CallAppend(b) /\ ~Answer(b)
    /\ Answer(d[1]) => ~Answer(b)
Tallied ==
  \A t \in Traces :
    /\ Cardinality(CallEvents(t)) + Cardinality(Unlogged(t)) <= executed[t]
    /\ answered[t] + Cardinality(Unanswered(t)) <= Cardinality(CallEvents(t))

CallsInv == OneOutcome /\ Tallied

LEMMA CallsTail ==
  ASSUME NEW S, NEW q \in Seq(S), q # << >>
  PROVE  CallsOf(q) = {Head(q)} \cup CallsOf(Tail(q))
<1>1. /\ Len(Tail(q)) = Len(q) - 1 /\ Len(q) \in Nat \ {0} /\ Head(q) = q[1]
      /\ \A j \in 1 .. Len(q) - 1 : Tail(q)[j] = q[j + 1]
  OBVIOUS
<1>2. ASSUME NEW i \in 1 .. Len(q) PROVE q[i] \in {Head(q)} \cup CallsOf(Tail(q))
  <2>1. CASE i = 1
    BY <1>1, <2>1
  <2>2. CASE i # 1
    <3>1. i - 1 \in 1 .. Len(Tail(q)) /\ Tail(q)[i - 1] = q[i]
      BY <1>1, <2>2
    <3> QED
      BY <3>1 DEF CallsOf
  <2> QED
    BY <2>1, <2>2
<1>3. ASSUME NEW j \in 1 .. Len(Tail(q)) PROVE Tail(q)[j] \in CallsOf(q)
  <2>1. j + 1 \in 1 .. Len(q) /\ Tail(q)[j] = q[j + 1]
    BY <1>1
  <2> QED
    BY <2>1 DEF CallsOf
<1>4. Head(q) \in CallsOf(q)
  BY <1>1 DEF CallsOf
<1> QED
  BY <1>2, <1>3, <1>4 DEF CallsOf

LEMMA DueCalls ==
  ASSUME NEW q
  PROVE  CallsOf(q) = {d[1] : d \in Due(q)}
<1>1. ASSUME NEW i \in 1 .. Len(q) PROVE q[i] \in {d[1] : d \in Due(q)}
  <2>1. <<q[i], {q[j] : j \in 1 .. i - 1}>> \in Due(q)
    BY DEF Due
  <2> QED
    BY <2>1
<1>2. \A d \in Due(q) : d[1] \in CallsOf(q)
  BY DEF CallsOf, Due
<1> QED
  BY <1>1, <1>2 DEF CallsOf

\* There are finitely many events, and threads.
LEMMA FiniteEvents ==
  ASSUME TypeOK, NEW t \in Traces
  PROVE  IsFiniteSet(CallEvents(t)) /\ Cardinality(CallEvents(t)) \in Nat
<1> DEFINE S == 0 .. traces[t].event_count - 1
<1>1. traces[t].event_count \in Nat
  BY BoundAssumption DEF TypeOK, RowOK
<1>2. IsFiniteSet(S)
  <2>1. 0 \in Int /\ traces[t].event_count - 1 \in Int
    BY <1>1
  <2> QED
    BY <2>1, FS_Interval, Zenon
<1>3. trace_events[t] = [n \in S |-> trace_events[t][n]]
  BY DEF TypeOK
<1>4. trace_events[t] \in Surjection(S, Events(t))
  <2>1. DOMAIN trace_events[t] = S /\ trace_events[t] \in [S -> Events(t)]
    BY <1>3 DEF Events
  <2> QED
    BY <2>1 DEF Surjection, Events
<1>5. IsFiniteSet(Events(t))
  BY <1>2, <1>4, FS_Surjection
<1>6. CallEvents(t) \in SUBSET Events(t)
  BY DEF CallEvents
<1> QED
  BY <1>5, <1>6, FS_Subset, FS_CardinalityType

LEMMA Fewer ==
  ASSUME NEW S \in SUBSET Threads, NEW T \in SUBSET Threads, NEW w \in Threads
  PROVE  /\ Cardinality(S) \in Nat /\ Cardinality(T) \in Nat
         /\ T \subseteq S => Cardinality(T) <= Cardinality(S)
         /\ T \subseteq S \cup {w} => Cardinality(T) <= Cardinality(S) + 1
         /\ w \in S /\ T \subseteq S \ {w} => Cardinality(T) + 1 <= Cardinality(S)
<1>1. IsFiniteSet(S) /\ IsFiniteSet(T)
  BY RecorderAssumption, FS_Subset
<1>2. Cardinality(S) \in Nat /\ Cardinality(T) \in Nat
  BY <1>1, FS_CardinalityType
<1>3. T \subseteq S => Cardinality(T) <= Cardinality(S)
  BY <1>1, FS_Subset
<1>4. ASSUME T \subseteq S \cup {w} PROVE Cardinality(T) <= Cardinality(S) + 1
  <2>1. IsFiniteSet(S \cup {w}) /\ Cardinality(S \cup {w}) \in {Cardinality(S), Cardinality(S) + 1}
    BY <1>1, FS_AddElement
  <2>2. T \in SUBSET (S \cup {w})
    BY <1>4
  <2>3. Cardinality(T) <= Cardinality(S \cup {w})
    BY <2>1, <2>2, FS_Subset
  <2> QED
    BY <1>2, <2>1, <2>3
<1>5. ASSUME w \in S, T \subseteq S \ {w} PROVE Cardinality(T) + 1 <= Cardinality(S)
  <2>1. IsFiniteSet(S \ {w}) /\ Cardinality(S \ {w}) = Cardinality(S) - 1
    BY <1>1, <1>5, FS_RemoveElement
  <2>2. T \in SUBSET (S \ {w})
    BY <1>5
  <2>3. Cardinality(T) <= Cardinality(S \ {w})
    BY <2>1, <2>2, FS_Subset
  <2> QED
    BY <1>2, <2>1, <2>3
<1> QED
  BY <1>2, <1>3, <1>4, <1>5

\* append_event adds one event to the calls in the log, if it is the event of a call.
LEMMA TallyAppended ==
  ASSUME RBase, NEW t \in Traces, NEW body \in RecorderBodies, AppendEvent(t, body)
  PROVE  /\ Cardinality(CallEvents(t)') =
              IF body.kind \in CallKinds THEN Cardinality(CallEvents(t)) + 1
              ELSE Cardinality(CallEvents(t))
         /\ \A u \in Traces : u # t => CallEvents(u)' = CallEvents(u)
<1> DEFINE event == NewEvent(traces[t], body)
<1>1. /\ event.sequence = traces[t].event_count /\ event.body = AsStored(body)
      /\ Events(t)' = Events(t) \cup {event}
      /\ DOMAIN trace_events[t] = 0 .. traces[t].event_count - 1
      /\ \A u \in Traces : u # t => Events(u)' = Events(u)
  BY Appended DEF RBase
<1>2. event.body.kind = body.kind
  BY <1>1, SameBody
<1>3. \A e \in Events(t) : e.sequence \in 0 .. traces[t].event_count - 1
  <2> SUFFICES ASSUME NEW n \in DOMAIN trace_events[t]
               PROVE  trace_events[t][n].sequence = n
    BY <1>1 DEF Events
  <2>1. PICK b \in Bodies :
          trace_events[t][n] =
            [sequence |-> n, body |-> AsStored(b),
             previous_hash |-> HeadAfter(trace_events[t], n),
             event_hash |-> EventHash(Payload(n, b), HeadAfter(trace_events[t], n))]
    BY DEF RBase, Linked
  <2> QED
    BY <2>1
<1>4. traces[t].event_count \in Nat
  BY BoundAssumption DEF RBase, TypeOK, RowOK
<1>5. event \notin Events(t)
  BY <1>1, <1>3, <1>4
<1>6. IsFiniteSet(CallEvents(t))
  BY FiniteEvents DEF RBase
<1> HIDE DEF event
<1>7. CallEvents(t)' = IF body.kind \in CallKinds THEN CallEvents(t) \cup {event} ELSE CallEvents(t)
  BY <1>1, <1>2 DEF CallEvents
<1>8. event \notin CallEvents(t)
  BY <1>5 DEF CallEvents
<1>9. Cardinality(CallEvents(t) \cup {event}) = Cardinality(CallEvents(t)) + 1
  BY <1>6, <1>8, FS_AddElement
<1> QED
  BY <1>1, <1>7, <1>9 DEF CallEvents

\* A thread makes its next call: an append of a call leaves it to be answered, an
\* answer leaves nothing, and no other call brings either.
LEMMA TallyCall ==
  ASSUME RBase, OneOutcome, NEW w \in Threads, ~Idle(w), Done(w) \/ Stop(w),
         NEW t \in Traces, t = subject[w]
  PROVE  LET head == Head(todo[w]) IN
         /\ \A u \in Traces : Unlogged(u)' \subseteq Unlogged(u)
         /\ \A u \in Traces : u # t => Unanswered(u)' \subseteq Unanswered(u)
         /\ Unanswered(t)' \subseteq Unanswered(t) \cup {w}
         /\ Stop(w) \/ ~CallAppend(head) => Unanswered(t)' \subseteq Unanswered(t)
         /\ CallAppend(head) => w \in Unlogged(t) /\ Unlogged(t)' \subseteq Unlogged(t) \ {w}
         /\ Answer(head) => w \in Unanswered(t) /\ Unanswered(t)' \subseteq Unanswered(t) \ {w}
<1> DEFINE head == Head(todo[w])
<1>1. /\ \A v \in Threads : v # w => todo'[v] = todo[v] /\ subject'[v] = subject[v]
      /\ \A d \in Due(todo'[w]) : <<d[1], d[2] \cup {head}>> \in Due(todo[w])
      /\ todo'[w] # << >> => subject'[w] = t
      /\ <<head, {}>> \in Due(todo[w])
  BY DoneDue DEF RBase
<1>2. \A c \in CallsOf(todo'[w]) : \E before : <<c, before \cup {head}>> \in Due(todo[w])
  BY <1>1, DueCalls
<1>3. \A c \in CallsOf(todo'[w]) : /\ c \in CallsOf(todo[w])
                                   /\ CallAppend(c) => ~CallAppend(head) /\ ~Answer(head)
                                   /\ Answer(c) => ~Answer(head)
  <2> SUFFICES ASSUME NEW c \in CallsOf(todo'[w])
               PROVE  /\ c \in CallsOf(todo[w])
                      /\ CallAppend(c) => ~CallAppend(head) /\ ~Answer(head)
                      /\ Answer(c) => ~Answer(head)
    OBVIOUS
  <2>1. PICK before : <<c, before \cup {head}>> \in Due(todo[w])
    BY <1>2
  <2>2. c \in CallsOf(todo[w])
    BY <2>1, DueCalls
  <2> QED
    BY <2>1, <2>2 DEF OneOutcome
<1>4. todo[w] \in Seq(Calls) /\ todo[w] # << >>
  BY DEF RBase, RecTypes, Idle
<1>5. head \in CallsOf(todo[w])
  BY <1>4, CallsTail
<1>6. Answer(head) => \A c \in CallsOf(todo[w]) : ~CallAppend(c)
  <2> SUFFICES ASSUME Answer(head), NEW c \in CallsOf(todo[w]), CallAppend(c) PROVE FALSE
    OBVIOUS
  <2>1. c # head
    BY DEF Answer, CallAppend
  <2>2. PICK d \in Due(Tail(todo[w])) : d[1] = c
    BY <1>4, <2>1, CallsTail, DueCalls
  <2>3. <<c, d[2] \cup {head}>> \in Due(todo[w])
    BY <1>4, <2>2, DueTail
  <2> QED
    BY <2>3 DEF OneOutcome
<1>7. /\ CallAppend(head) => w \in Unlogged(t)
      /\ Answer(head) => w \in Unanswered(t)
  BY <1>5, <1>6 DEF Unlogged, Unanswered
<1>8. \A v \in Threads, u \in Traces : v # w =>
        /\ v \in Unlogged(u)' <=> v \in Unlogged(u)
        /\ v \in Unanswered(u)' <=> v \in Unanswered(u)
  BY <1>1 DEF Unlogged, Unanswered
<1>9. \A u \in Traces : /\ w \in Unlogged(u)' => u = t /\ \E c \in CallsOf(todo'[w]) : CallAppend(c)
                        /\ w \in Unanswered(u)' => u = t /\ \E c \in CallsOf(todo'[w]) : Answer(c)
  BY <1>1, DueEmpty DEF Unlogged, Unanswered
<1>10. \A u \in Traces : Unlogged(u)' \subseteq Unlogged(u)
  <2>1. \A u \in Traces : w \in Unlogged(u)' => w \in Unlogged(u)
    BY <1>3, <1>9 DEF Unlogged
  <2>2. \A u \in Traces : \A v \in Unlogged(u)' : v \in Threads
    BY DEF Unlogged
  <2> QED
    BY <1>8, <2>1, <2>2
<1>11. \A u \in Traces : Unanswered(u)' \subseteq Unanswered(u) \cup (IF u = t THEN {w} ELSE {})
  <2>1. \A u \in Traces : \A v \in Unanswered(u)' : v \in Threads
    BY DEF Unanswered
  <2> QED
    BY <1>8, <1>9, <2>1
<1>12. Stop(w) \/ ~CallAppend(head) => (w \in Unanswered(t)' => w \in Unanswered(t))
  <2>1. CASE Stop(w)
    <3>1. CallsOf(todo'[w]) = {}
      BY <2>1, DueEmpty DEF Stop, RBase, RecTypes
    <3> QED
      BY <1>9, <3>1
  <2>2. CASE ~Stop(w) /\ ~CallAppend(head)
    <3>1. todo'[w] = Tail(todo[w])
      BY <2>2 DEF Done, RBase, RecTypes
    <3>2. CallsOf(todo[w]) = {head} \cup CallsOf(todo'[w])
      BY <1>4, <3>1, CallsTail
    <3> QED
      BY <1>9, <2>2, <3>2 DEF Unanswered
  <2> QED
    BY <2>1, <2>2
<1>13. /\ CallAppend(head) => w \notin Unlogged(t)'
       /\ Answer(head) => w \notin Unanswered(t)'
  BY <1>3, <1>9
<1> QED
  BY <1>7, <1>10, <1>11, <1>12, <1>13

\* No other operation logs or answers a call, and _record_call does each once.
LEMMA OutcomeOnce ==
  /\ \A env \in Environments, m \in Manifests \cup {None} :
       \A d \in Due(StartCalls(env, m)) : ~CallAppend(d[1]) /\ ~Answer(d[1])
  /\ \A kind \in CallKinds, request \in Documents, cost \in Costs \cup {"none"} :
       \A d \in Due(CallCalls(kind, request, cost)) : ~CallAppend(d[1]) /\ ~Answer(d[1])
  /\ \A previous, current \in Manifests, delta \in Deltas :
       \A d \in Due(DeltaCalls(previous, current, delta)) : ~CallAppend(d[1]) /\ ~Answer(d[1])
  /\ \A status \in Statuses, m \in Manifests \cup {None}, error \in Errors \cup {None} :
       \A d \in Due(FinishCalls(status, m, error)) : ~CallAppend(d[1]) /\ ~Answer(d[1])
  /\ \A execute \in Calls, output \in Documents \cup {None}, error \in Errors \cup {None} :
       execute.call = "execute" =>
         \A d \in Due(OutcomeCalls(execute, output, error)) : \A b \in d[2] :
           /\ CallAppend(d[1]) => ~CallAppend(b) /\ ~Answer(b)
           /\ Answer(d[1]) => ~Answer(b)
<1>1. \A b, name :
        /\ ~CallAppend(Put(b)) /\ ~CallAppend(Register(b)) /\ ~CallAppend(Capture(b))
        /\ ~CallAppend(SetRef(name, b)) /\ ~CallAppend(Return(b))
        /\ ~Answer(Put(b)) /\ ~Answer(Register(b)) /\ ~Answer(Capture(b))
        /\ ~Answer(SetRef(name, b)) /\ ~Answer(LogEvent(b))
  BY DEF CallAppend, Answer, Put, Register, Capture, SetRef, LogEvent, Return
<1>2. ~Answer(Return("trace")) /\ ~Answer(Return("manifest"))
  BY DEF Answer, Return
<1>3. ASSUME NEW env \in Environments, NEW m \in Manifests \cup {None},
             NEW d \in Due(StartCalls(env, m))
      PROVE  ~CallAppend(d[1]) /\ ~Answer(d[1])
  <2>1. ~CallAppend(EnvironmentEvent(env)) /\ ~CallAppend(CheckpointEvent(m))
    BY DEF CallAppend, EnvironmentEvent, CheckpointEvent, LogEvent, Body, CallKinds
  <2>2. \/ d[1] \in {Put(env), Register(env), SetRef("environment", env), EnvironmentEvent(env)}
        \/ d[1] \in {Capture(m), Put(m), Register(m), SetRef("initial", m), CheckpointEvent(m)}
        \/ d[1] = Return("trace")
    BY <1>3, StartDue
  <2> QED
    BY <1>1, <1>2, <2>1, <2>2 DEF EnvironmentEvent, CheckpointEvent
<1>4. ASSUME NEW kind \in CallKinds, NEW request \in Documents,
             NEW cost \in Costs \cup {"none"}, NEW d \in Due(CallCalls(kind, request, cost))
      PROVE  ~CallAppend(d[1]) /\ ~Answer(d[1])
  <2>1. d[1] \in Stores(request) \/ d[1] = ExecuteCall(kind, request, cost)
    BY <1>4, CallDue
  <2>2. ~CallAppend(ExecuteCall(kind, request, cost)) /\ ~Answer(ExecuteCall(kind, request, cost))
    BY DEF CallAppend, Answer, ExecuteCall
  <2> QED
    BY <1>1, <2>1, <2>2 DEF Stores
<1>5. ASSUME NEW previous \in Manifests, NEW current \in Manifests, NEW delta \in Deltas,
             NEW d \in Due(DeltaCalls(previous, current, delta))
      PROVE  ~CallAppend(d[1]) /\ ~Answer(d[1])
  <2>1. \/ d[1] \in {Capture(current)} \cup (Stores(previous) \cup Stores(delta))
        \/ d[1] = DeltaEvent(previous, delta) \/ d[1] = Return("manifest")
    BY <1>5, DeltaDue
  <2>2. ~CallAppend(DeltaEvent(previous, delta))
    BY DEF CallAppend, DeltaEvent, LogEvent, Body, CallKinds
  <2> QED
    BY <1>1, <1>2, <2>1, <2>2 DEF Stores, DeltaEvent
<1>6. ASSUME NEW status \in Statuses, NEW m \in Manifests \cup {None},
             NEW error \in Errors \cup {None}, NEW d \in Due(FinishCalls(status, m, error))
      PROVE  ~CallAppend(d[1]) /\ ~Answer(d[1])
  <2>1. \/ d[1] \in Stores(error) \cup {Capture(m), Put(m), Register(m), SetRef("final", m)}
        \/ d[1] \in {FinishEvent(status, m, error), FinishCall(status, error), Return("trace")}
    BY <1>6, FinishDue
  <2>2. /\ ~CallAppend(FinishEvent(status, m, error)) /\ ~Answer(FinishCall(status, error))
        /\ ~CallAppend(FinishCall(status, error))
    BY DEF CallAppend, Answer, FinishEvent, FinishCall, LogEvent, Body, CallKinds
  <2> QED
    BY <1>1, <1>2, <2>1, <2>2 DEF Stores, FinishEvent
<1>7. ASSUME NEW execute \in Calls, NEW output \in Documents \cup {None},
             NEW error \in Errors \cup {None}, execute.call = "execute",
             NEW d \in Due(OutcomeCalls(execute, output, error)), NEW b \in d[2]
      PROVE  /\ CallAppend(d[1]) => ~CallAppend(b) /\ ~Answer(b)
             /\ Answer(d[1]) => ~Answer(b)
  <2> DEFINE stores == Stores(output) \cup Stores(error)
             event == OutcomeEvent(execute, output, error)
  <2>1. \/ d[1] \in stores
        \/ d[1] = event /\ d[2] = stores
        \/ d[1] = Return("result") /\ d[2] = stores \cup {event}
    BY <1>7, OutcomeDue
  <2>2. \A c \in stores : ~CallAppend(c) /\ ~Answer(c)
    BY <1>1 DEF Stores
  <2>3. ~Answer(event) /\ ~CallAppend(Return("result"))
    BY <1>1 DEF OutcomeEvent
  <2> HIDE DEF stores, event
  <2> QED
    BY <1>7, <2>1, <2>2, <2>3
<1> QED
  BY <1>3, <1>4, <1>5, <1>6, <1>7

\* An operation begins.
LEMMA TallyBegin ==
  ASSUME RBase, CallsInv, NEW w \in Threads, Operation(w)
  PROVE  CallsInv'
<1>1. UNCHANGED <<trace_events, executed, answered>>
  BY DEF Operation, StartTrace, CreateTrace, RecordCall, CaptureDelta, Finish, repoVars
<1>2. ASSUME NEW t \in Traces, NEW calls \in Seq(Calls), Begin(w, t, calls),
             \A d \in Due(calls) : ~CallAppend(d[1]) /\ ~Answer(d[1])
      PROVE  CallsInv'
  <2>1. /\ \A v \in Threads : v # w => todo'[v] = todo[v] /\ subject'[v] = subject[v]
        /\ todo[w] = << >> /\ todo'[w] = calls
    BY <1>2, BeginDue DEF RBase
  <2>2. OneOutcome'
    BY <1>2, <2>1 DEF CallsInv, OneOutcome
  <2>3. \A c \in CallsOf(todo'[w]) : ~CallAppend(c) /\ ~Answer(c)
    BY <1>2, <2>1, DueCalls
  <2>4. CallsOf(todo[w]) = {}
    BY <2>1, DueEmpty
  <2>5. \A u \in Traces : Unlogged(u)' = Unlogged(u) /\ Unanswered(u)' = Unanswered(u)
    BY <2>1, <2>3, <2>4 DEF Unlogged, Unanswered
  <2>6. \A u \in Traces : CallEvents(u)' = CallEvents(u)
    BY <1>1 DEF CallEvents, Events
  <2>7. Tallied'
    BY <1>1, <2>5, <2>6 DEF CallsInv, Tallied
  <2> QED
    BY <2>2, <2>7 DEF CallsInv
<1>3. ASSUME NEW t \in Traces, NEW env \in Environments, NEW m \in Manifests \cup {None},
             StartTrace(w, t, env, m)
      PROVE  CallsInv'
  BY <1>2, <1>3, StartDue, OutcomeOnce DEF StartTrace
<1>4. ASSUME NEW t \in Traces, NEW kind \in CallKinds, NEW request \in Documents,
             NEW cost \in Costs \cup {"none"}, RecordCall(w, t, kind, request, cost)
      PROVE  CallsInv'
  BY <1>2, <1>4, CallDue, OutcomeOnce DEF RecordCall
<1>5. ASSUME NEW t \in Traces, NEW previous \in Manifests, NEW current \in Manifests,
             NEW delta \in Deltas, CaptureDelta(w, t, previous, current, delta)
      PROVE  CallsInv'
  BY <1>2, <1>5, DeltaDue, OutcomeOnce DEF CaptureDelta
<1>6. ASSUME NEW t \in Traces, NEW status \in Statuses, NEW m \in Manifests \cup {None},
             NEW error \in Errors \cup {None}, Finish(w, t, status, m, error)
      PROVE  CallsInv'
  BY <1>2, <1>6, FinishDue, OutcomeOnce DEF Finish
<1> QED
  BY <1>3, <1>4, <1>5, <1>6 DEF Operation, CallKinds

\* A call is made: its thread is to log it.
LEMMA TallyExecute ==
  ASSUME RBase, CallsInv, NEW w \in Threads, NEW output \in Documents \cup {None},
         NEW error \in Errors \cup {None}, Execute(w, output, error)
  PROVE  CallsInv'
<1> DEFINE head == Head(todo[w])
<1>1. /\ head \in Calls /\ head.call = "execute" /\ subject[w] \in Traces /\ subject' = subject
      /\ \A v \in Threads : v # w => todo'[v] = todo[v]
      /\ todo'[w] = OutcomeCalls(head, output, error)
  BY ExecuteDue DEF RBase
<1>2. /\ UNCHANGED <<trace_events, answered>>
      /\ executed' = [executed EXCEPT ![subject[w]] = @ + 1]
  BY DEF Execute, repoVars
<1>3. OneOutcome'
  BY <1>1, OutcomeOnce DEF CallsInv, OneOutcome
<1>4. \E c \in CallsOf(todo'[w]) : CallAppend(c)
  <2>1. OutcomeEvent(head, output, error) \in CallsOf(OutcomeCalls(head, output, error))
    <3>1. /\ Store(output) \in Seq(Calls) /\ Store(error) \in Seq(Calls)
          /\ <<OutcomeEvent(head, output, error), Return("result")>> \in Seq(Calls)
      <4>1. /\ output \in Blobs \cup {None} /\ error \in Blobs \cup {None}
            /\ head.kind \in CallKinds /\ head.request \in Blobs /\ head.cost \in Costs \cup {"none"}
        BY <1>1 DEF Blobs, Calls
      <4>2. OutcomeEvent(head, output, error) \in Calls
        BY <4>1, BodyLogged DEF OutcomeEvent
      <4>3. Return("result") \in Calls
        BY DEF Calls, Return
      <4> QED
        BY <4>1, <4>2, <4>3, StoreDue
    <3>2. CallsOf(<<OutcomeEvent(head, output, error), Return("result")>>)
            = {OutcomeEvent(head, output, error), Return("result")}
      BY DueTwo
    <3>3. OutcomeCalls(head, output, error) =
            (Store(output) \o Store(error)) \o <<OutcomeEvent(head, output, error), Return("result")>>
      BY DEF OutcomeCalls, OutcomeEvent
    <3>4. Store(output) \o Store(error) \in Seq(Calls)
      BY <3>1, JoinDue
    <3>5. CallsOf(OutcomeCalls(head, output, error)) =
            CallsOf(Store(output) \o Store(error)) \cup {OutcomeEvent(head, output, error), Return("result")}
      <4> DEFINE p == Store(output) \o Store(error)
                 q == <<OutcomeEvent(head, output, error), Return("result")>>
      <4>1. p \in Seq(Calls) /\ q \in Seq(Calls) /\ OutcomeCalls(head, output, error) = p \o q
        BY <3>1, <3>3, <3>4
      <4> HIDE DEF p, q
      <4>2. CallsOf(p \o q) = CallsOf(p) \cup CallsOf(q)
        BY <4>1, JoinDue
      <4> QED
        BY <3>2, <4>1, <4>2 DEF p, q
    <3> QED
      BY <3>5
  <2>2. CallAppend(OutcomeEvent(head, output, error))
    BY <1>1 DEF Calls, CallAppend, OutcomeEvent, LogEvent, Body
  <2> QED
    BY <1>1, <2>1, <2>2
<1>5. \A u \in Traces :
        /\ Unlogged(u)' \subseteq Unlogged(u) \cup (IF u = subject[w] THEN {w} ELSE {})
        /\ Unanswered(u)' \subseteq Unanswered(u)
        /\ CallEvents(u)' = CallEvents(u)
  BY <1>1, <1>2, <1>4 DEF Unlogged, Unanswered, CallEvents, Events
<1>6. Tallied'
  <2> SUFFICES ASSUME NEW u \in Traces
               PROVE  /\ Cardinality(CallEvents(u)') + Cardinality(Unlogged(u)') <= executed'[u]
                      /\ answered'[u] + Cardinality(Unanswered(u)') <= Cardinality(CallEvents(u)')
    BY DEF Tallied
  <2>1. /\ Unlogged(u) \in SUBSET Threads /\ Unlogged(u)' \in SUBSET Threads
        /\ Unanswered(u) \in SUBSET Threads /\ Unanswered(u)' \in SUBSET Threads
    BY DEF Unlogged, Unanswered
  <2>2. Cardinality(CallEvents(u)) \in Nat /\ executed[u] \in Nat /\ answered[u] \in Nat
    BY FiniteEvents DEF RBase, RecTypes
  <2>3. /\ Cardinality(CallEvents(u)) + Cardinality(Unlogged(u)) <= executed[u]
        /\ answered[u] + Cardinality(Unanswered(u)) <= Cardinality(CallEvents(u))
    BY DEF CallsInv, Tallied
  <2>4. /\ Cardinality(Unanswered(u)) \in Nat /\ Cardinality(Unanswered(u)') \in Nat
        /\ Cardinality(Unanswered(u)') <= Cardinality(Unanswered(u))
    BY <1>5, <2>1, Fewer
  <2>5. /\ Cardinality(Unlogged(u)) \in Nat /\ Cardinality(Unlogged(u)') \in Nat
        /\ Cardinality(Unlogged(u)') <= Cardinality(Unlogged(u)) + (IF u = subject[w] THEN 1 ELSE 0)
    BY <1>5, <2>1, Fewer
  <2>6. executed'[u] = executed[u] + (IF u = subject[w] THEN 1 ELSE 0) /\ answered'[u] = answered[u]
    BY <1>2, <2>2 DEF RBase, RecTypes
  <2> QED
    BY <1>5, <2>2, <2>3, <2>4, <2>5, <2>6
<1> QED
  BY <1>3, <1>6 DEF CallsInv

\* A thread makes its next call, or gives up.
LEMMA TallyNext ==
  ASSUME RBase, CallsInv, NEW w \in Threads,
         \/ PutJson(w) \/ CaptureFiles(w) \/ RegisterRef(w) \/ SetRefs(w) \/ AppendLog(w)
         \/ FinishRow(w) \/ ReturnToCaller(w) \/ Abandon(w) \/ AppendUnanswered(w)
  PROVE  CallsInv'
<1> DEFINE head == Head(todo[w])
<1>1. ~Idle(w) /\ (Done(w) \/ Stop(w))
  BY DEF PutJson, CaptureFiles, RegisterRef, SetRefs, AppendLog, FinishRow, ReturnToCaller,
         Abandon, AppendUnanswered, Next1
<1>2. PICK t \in Traces : t = subject[w]
  BY <1>1 DEF RBase, RecTypes
<1>3. /\ \A v \in Threads : v # w => todo'[v] = todo[v]
      /\ \A d \in Due(todo'[w]) : <<d[1], d[2] \cup {head}>> \in Due(todo[w])
      /\ head \in Calls
  BY <1>1, DoneDue DEF RBase
<1>4. OneOutcome'
  <2> SUFFICES ASSUME NEW v \in Threads, NEW d \in Due(todo'[v]), NEW b \in d[2]
               PROVE  /\ CallAppend(d[1]) => ~CallAppend(b) /\ ~Answer(b)
                      /\ Answer(d[1]) => ~Answer(b)
    BY DEF OneOutcome
  <2>1. \E before : <<d[1], d[2] \cup before>> \in Due(todo[v])
    <3>1. CASE v = w
      BY <1>3, <3>1
    <3>2. CASE v # w
      <4>1. d \in Due(todo[v])
        BY <1>3, <3>2
      <4>2. PICK i \in 1 .. Len(todo[v]) : d = <<todo[v][i], {todo[v][j] : j \in 1 .. i - 1}>>
        BY <4>1 DEF Due
      <4>3. <<d[1], d[2] \cup {}>> = d
        BY <4>2
      <4> QED
        BY <4>1, <4>3
    <3> QED
      BY <3>1, <3>2
  <2> QED
    BY <2>1 DEF CallsInv, OneOutcome
<1>5. /\ \A u \in Traces : Unlogged(u)' \subseteq Unlogged(u)
      /\ \A u \in Traces : u # t => Unanswered(u)' \subseteq Unanswered(u)
      /\ Unanswered(t)' \subseteq Unanswered(t) \cup {w}
      /\ Stop(w) \/ ~CallAppend(head) => Unanswered(t)' \subseteq Unanswered(t)
      /\ CallAppend(head) => w \in Unlogged(t) /\ Unlogged(t)' \subseteq Unlogged(t) \ {w}
      /\ Answer(head) => w \in Unanswered(t) /\ Unanswered(t)' \subseteq Unanswered(t) \ {w}
  BY <1>1, <1>2, TallyCall DEF CallsInv
<1> HIDE DEF head
<1>6. /\ executed' = executed
      /\ answered' = IF ReturnToCaller(w) /\ Answer(head)
                     THEN [answered EXCEPT ![t] = @ + 1] ELSE answered
  BY <1>2 DEF PutJson, CaptureFiles, RegisterRef, SetRefs, AppendLog, FinishRow, ReturnToCaller,
              Abandon, AppendUnanswered, Next1, Answer, head
<1>7. /\ \A u \in Traces : u # t => CallEvents(u)' = CallEvents(u)
      /\ CallAppend(head) /\ ~Stop(w) => Cardinality(CallEvents(t)') = Cardinality(CallEvents(t)) + 1
      /\ ~CallAppend(head) => Cardinality(CallEvents(t)') = Cardinality(CallEvents(t))
      /\ Cardinality(CallEvents(t)') \in {Cardinality(CallEvents(t)), Cardinality(CallEvents(t)) + 1}
  <2>1. CASE AppendLog(w) \/ AppendUnanswered(w)
    <3>1. head.call = "append" /\ AppendEvent(t, head.body) /\ head.body \in RecorderBodies
      BY <1>2, <1>3, <2>1 DEF AppendLog, AppendUnanswered, Next1, Calls, head
    <3> QED
      BY <3>1, TallyAppended DEF CallAppend
  <2>2. CASE ~(AppendLog(w) \/ AppendUnanswered(w))
    <3>1. UNCHANGED trace_events /\ (CallAppend(head) => Stop(w))
      BY <2>2 DEF PutJson, CaptureFiles, RegisterRef, RegisterBlob, SetRefs, SetWorkspaceRefs,
                  FinishRow, FinishTrace, ReturnToCaller, Abandon, repoVars, Next1, CallAppend, head
    <3> QED
      BY <3>1 DEF CallEvents, Events
  <2> QED
    BY <2>1, <2>2
<1>8. Tallied'
  <2> SUFFICES ASSUME NEW u \in Traces
               PROVE  /\ Cardinality(CallEvents(u)') + Cardinality(Unlogged(u)') <= executed'[u]
                      /\ answered'[u] + Cardinality(Unanswered(u)') <= Cardinality(CallEvents(u)')
    BY DEF Tallied
  <2>1. /\ Unlogged(u) \in SUBSET Threads /\ Unlogged(u)' \in SUBSET Threads
        /\ Unanswered(u) \in SUBSET Threads /\ Unanswered(u)' \in SUBSET Threads
    BY DEF Unlogged, Unanswered
  <2>2. Cardinality(CallEvents(u)) \in Nat /\ executed[u] \in Nat /\ answered[u] \in Nat
    BY FiniteEvents DEF RBase, RecTypes
  <2>3. /\ Cardinality(CallEvents(u)) + Cardinality(Unlogged(u)) <= executed[u]
        /\ answered[u] + Cardinality(Unanswered(u)) <= Cardinality(CallEvents(u))
    BY DEF CallsInv, Tallied
  <2>4. /\ Cardinality(Unlogged(u)) \in Nat /\ Cardinality(Unlogged(u)') \in Nat
        /\ Cardinality(Unlogged(u)') <= Cardinality(Unlogged(u))
        /\ u = t /\ CallAppend(head) => Cardinality(Unlogged(u)') + 1 <= Cardinality(Unlogged(u))
    BY <1>5, <2>1, Fewer
  <2>5. /\ Cardinality(Unanswered(u)) \in Nat /\ Cardinality(Unanswered(u)') \in Nat
        /\ u # t => Cardinality(Unanswered(u)') <= Cardinality(Unanswered(u))
        /\ Cardinality(Unanswered(u)') <= Cardinality(Unanswered(u)) + 1
        /\ Stop(w) \/ ~CallAppend(head) => Cardinality(Unanswered(u)') <= Cardinality(Unanswered(u))
        /\ u = t /\ Answer(head) => Cardinality(Unanswered(u)') + 1 <= Cardinality(Unanswered(u))
    BY <1>5, <2>1, Fewer
  <2>6. /\ executed'[u] = executed[u]
        /\ answered'[u] = IF u = t /\ ReturnToCaller(w) /\ Answer(head)
                          THEN answered[u] + 1 ELSE answered[u]
    BY <1>6 DEF RBase, RecTypes
  <2>7. CASE u # t
    BY <1>7, <2>2, <2>3, <2>4, <2>5, <2>6, <2>7
  <2>8. CASE u = t /\ CallAppend(head)
    <3>1. ~Answer(head)
      BY <2>8 DEF CallAppend, Answer
    <3>2. CASE Stop(w)
      BY <1>7, <2>2, <2>3, <2>4, <2>5, <2>6, <2>8, <3>1, <3>2
    <3>3. CASE ~Stop(w)
      BY <1>7, <2>2, <2>3, <2>4, <2>5, <2>6, <2>8, <3>1, <3>3
    <3> QED
      BY <3>2, <3>3
  <2>9. CASE u = t /\ ~CallAppend(head)
    BY <1>7, <2>2, <2>3, <2>4, <2>5, <2>6, <2>9
  <2> QED
    BY <2>7, <2>8, <2>9
<1> QED
  BY <1>4, <1>8 DEF CallsInv

LEMMA CallsInvInit == RecInit => CallsInv
<1> SUFFICES ASSUME RecInit PROVE CallsInv
  OBVIOUS
<1>1. OneOutcome
  BY DueEmpty DEF RecInit, OneOutcome
<1>2. ASSUME NEW t \in Traces
      PROVE  Unlogged(t) = {} /\ Unanswered(t) = {} /\ CallEvents(t) = {}
  BY DueEmpty DEF RecInit, Init, Unlogged, Unanswered, CallEvents, Events
<1>3. Tallied
  <2> SUFFICES ASSUME NEW t \in Traces
               PROVE  /\ Cardinality(CallEvents(t)) + Cardinality(Unlogged(t)) <= executed[t]
                      /\ answered[t] + Cardinality(Unanswered(t)) <= Cardinality(CallEvents(t))
    BY DEF Tallied
  <2>1. /\ Cardinality(Unlogged(t)) = 0 /\ Cardinality(Unanswered(t)) = 0
        /\ Cardinality(CallEvents(t)) = 0
    BY <1>2, FS_EmptySet
  <2> QED
    BY <2>1 DEF RecInit
<1> QED
  BY <1>1, <1>3 DEF CallsInv

LEMMA CallsInvStep == RBase /\ CallsInv /\ [RecNext]_allVars => CallsInv'
<1> SUFFICES ASSUME RBase, CallsInv, [RecNext]_allVars PROVE CallsInv'
  OBVIOUS
<1>1. CASE UNCHANGED allVars
  BY <1>1 DEF allVars, repoVars, recorderVars, CallsInv, OneOutcome, Tallied, Unlogged, Unanswered,
             CallEvents, Events
<1> QED
  BY <1>1, TallyBegin, TallyExecute, TallyNext DEF RecNext

\* However errors, deaths and other threads interrupt record_*: a call that was answered
\* to its caller is in the log, and no call is there more often than it was made.
THEOREM EveryCallAccounted == RecSpec => []CallsAccounted
<1>1. RecInit => RBase /\ CallsInv
  BY RBaseInit, CallsInvInit
<1>2. RBase /\ CallsInv /\ [RecNext]_allVars => RBase' /\ CallsInv'
  BY RBaseStep, CallsInvStep
<1>3. RBase /\ CallsInv => CallsAccounted
  <2> SUFFICES ASSUME RBase, CallsInv, NEW t \in Traces
               PROVE  /\ answered[t] <= Cardinality(CallEvents(t))
                      /\ Cardinality(CallEvents(t)) <= executed[t]
    BY DEF CallsAccounted
  <2>1. Cardinality(CallEvents(t)) \in Nat /\ executed[t] \in Nat /\ answered[t] \in Nat
    BY FiniteEvents DEF RBase, RecTypes
  <2>2. Cardinality(Unlogged(t)) \in Nat /\ Cardinality(Unanswered(t)) \in Nat
    <3>1. IsFiniteSet(Unlogged(t)) /\ IsFiniteSet(Unanswered(t))
      <4>1. Unlogged(t) \in SUBSET Threads /\ Unanswered(t) \in SUBSET Threads
        BY DEF Unlogged, Unanswered
      <4> QED
        BY <4>1, FS_Subset, RecorderAssumption
    <3> QED
      BY <3>1, FS_CardinalityType
  <2> QED
    BY <2>1, <2>2 DEF CallsInv, Tallied
<1> QED
  BY <1>1, <1>2, <1>3, PTL DEF RecSpec
=============================================================================
