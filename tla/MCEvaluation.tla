---------------------------- MODULE MCEvaluation ----------------------------
(***************************************************************************)
(* Values two levels deep over three keys, one of which renders like a     *)
(* nested one, and one that is no string.  Two traces, suites in which one *)
(* occurs twice, and one case that is replayed up to 41 times.             *)
(***************************************************************************)
EXTENDS Regression

CONSTANTS t1, t2

MCKeys == {"a", "a.b", "b"}
MCIndices == <<"[0]", "[1]">>
MCSteps == MCKeys \cup ToSet(MCIndices) \cup {"1"}
MCKind == [step \in MCSteps |-> IF step \in MCKeys THEN "str" ELSE "int"]
MCRank == [step \in MCSteps |-> CASE step \in {"a", "[0]"} -> 1 [] step \in {"a.b", "[1]"} -> 2
                                  [] OTHER -> 3]
Segments(step) == IF step = "a.b" THEN <<"a", "b">> ELSE <<step>>
MCText == [at \in SeqOf(MCSteps, 2) |->
             <<"$">> \o FlattenSeq([n \in DOMAIN at |-> Segments(at[n])])]

Leaf(type, value) == [at \in {<< >>} |-> [type |-> type, value |-> value]]
Items(type, items) ==
  LET below == UNION {{<<step>> \o at : at \in DOMAIN items[step]} : step \in DOMAIN items}
  IN  [at \in below \cup {<< >>} |->
         IF at = << >> THEN [type |-> type, value |-> 0] ELSE items[Head(at)][Tail(at)]]
Numbers == {Leaf("int", 10), Leaf("int", 12)}
Leaves == Numbers \cup {Null, Leaf("float", 10), Leaf("bool", 0), Leaf("bool", 10)}
Lists(size) ==
  {Items("list", items) : items \in [{MCIndices[n] : n \in 1 .. size} -> Numbers]}
Dicts(values, keys) ==
  UNION {{Items("dict", items) : items \in [some -> values]} : some \in SUBSET keys}
Inner == Dicts(Numbers, {"b"}) \cup Lists(1) \cup Lists(2)
MCValues ==
  Leaves \cup Inner \cup Dicts(Inner, {"a"})
    \cup {Items("dict", [k \in {"a", "a.b"} |-> IF k = "a" THEN inner ELSE Leaf("int", 10)]) :
            inner \in Inner}
Mixed == Items("dict", [k \in {"1", "b"} |-> Leaf("int", 10)])
MCAnswers ==
  MCValues \cup {Leaf("tuple", 0), Leaf("opaque", 0), Mixed, Items("dict", [k \in {"a"} |-> Mixed])}
MCPolicies ==
  {[ignored |-> {}, tolerance |-> 2], [ignored |-> {<<"$", "a", "b">>}, tolerance |-> 10],
   [ignored |-> {<<"$", "a", "length">>, <<"$", "[0]">>}, tolerance |-> 0]}

\* What a replay of one recorded call finds.
Recorded == Items("dict", [k \in {"a"} |-> Leaf("int", 10)])
Replayed(answer) ==
  [expected |-> Recorded, actual |-> answer, policy |-> [ignored |-> {}, tolerance |-> 0]]
Finding(answer) == SetToSeq(Differences(Replayed(answer)))
Unsaveable == Leaf("opaque", 0)
Replies == {Recorded, Items("dict", [k \in {"a", "b"} |-> Leaf("int", 12)]), Unsaveable}
MCSaveable ==
  {Finding(answer) : answer \in
     {a \in Replies : \A d \in Differences(Replayed(a)) : IsJson(d.at, Replayed(a))}}

MCTraces == {t1, t2}
Case(trace, weight) == [trace |-> trace, weight |-> weight]
LongSuite == <<Case(t2, 1)>>
MCSuites ==
  {<< >>, <<Case(t1, 1)>>, <<Case(t1, 1), Case(t2, 3)>>,
   <<Case(t1, 1), Case(t1, 3)>>, <<Case(t1, 2), Case(t1, 2)>>, LongSuite}
ShortFindings == {Finding(answer) : answer \in Replies}
LongFindings == {Finding(Unsaveable)}
MCFindings == [cases \in MCSuites |-> IF cases = LongSuite THEN LongFindings ELSE ShortFindings]
\* Scores partial, full and out of range.
MCScores == [cases \in MCSuites |-> IF cases = LongSuite THEN {1} ELSE {1, 2, 3}]

\* The durations of short evaluations, and of one case replayed 41 times: longer and
\* longer, less and less, or in turn a little and a lot, many as long as others.
ShortTimings == {<<7, 9, 7, 8>>}
LongTimings ==
  {[n \in 1 .. 41 |-> n], [n \in 1 .. 41 |-> 50 - n],
   [n \in 1 .. 41 |-> IF n % 2 = 0 THEN 1 ELSE 30 + n \div 4]}
MCTimings ==
  [cases \in MCSuites |-> IF cases = LongSuite THEN LongTimings ELSE ShortTimings]
=============================================================================
