------------------------------ MODULE Compare -------------------------------
(***************************************************************************)
(* compare_values: what a call answered is compared with what was          *)
(* recorded, loop by loop, the calls it makes of itself on a stack.  A     *)
(* value is a tree: a function from the positions in it to nodes with      *)
(* their Python type.  A position is the keys and indices that lead to it; *)
(* Text says how it prints as a path, and two may print alike ("a.b").     *)
(* Numbers are in tenths, False and True are 0 and 10.                     *)
(***************************************************************************)
EXTENDS Integers, Sequences

CONSTANTS Steps,           \* keys, and the indices of lists
          Rank,            \* their order: of sorted, and of range
          Kind,            \* Kind[step]: its type, as far as < can tell it from others
          Text,            \* Text[at]: the path to a position
          Values,          \* recorded results
          Answers,         \* what adapters may return
          Policies         \* [ignored: a set of paths, tolerance]

Containers == {"dict", "list"}
IsValue(value) ==
  /\ DOMAIN value \subseteq Seq(Steps) /\ << >> \in DOMAIN value
  /\ \A at \in DOMAIN value \ {<< >>} : \E up \in DOMAIN value, step \in Steps :
       at = Append(up, step) /\ value[up].type \in Containers
  /\ \A at \in DOMAIN value : value[at].type \in {"int", "float"} => value[at].value \in Int

Keys(value, at) == {step \in Steps : Append(at, step) \in DOMAIN value}

\* sorted raises TypeError for keys that < does not compare.
Sortable(keys) == \A key, other \in keys : Kind[key] = Kind[other]

\* What was recorded is JSON: its keys are strings.
ASSUME CompareAssumption ==
  /\ Rank \in [Steps -> Nat]
  /\ \A value \in Values \cup Answers : IsValue(value)
  /\ \A value \in Values : \A at \in DOMAIN value : Sortable(Keys(value, at))
  /\ \A policy \in Policies : policy.tolerance \in Int

VARIABLES comparison,      \* expected, actual and policy of the call from outside
          pending,         \* the calls on containers that have not returned, the last first
          differences,     \* what was found so far: what differs, and where
          raised           \* it left replay with a TypeError

compareVars == <<comparison, pending, differences, raised>>

Null == [at \in {<< >>} |-> [type |-> "null", value |-> 0]]
NoComparison ==
  [expected |-> Null, actual |-> Null, policy |-> [ignored |-> {}, tolerance |-> 0]]
CompareInit ==
  /\ comparison = NoComparison /\ pending = << >> /\ differences = << >> /\ raised = FALSE

Ignored(at, c) == Text[at] \in c.policy.ignored

\* Mutant of Tolerated: True is an int.
ToleratedBool(expected, actual, policy) ==
  expected.type \in {"int", "float", "bool"}
    /\ actual.value - expected.value \in -policy.tolerance .. policy.tolerance

Tolerated(expected, actual, policy) ==
  /\ expected.type \in {"int", "float"}
  /\ actual.value - expected.value \in -policy.tolerance .. policy.tolerance

First(keys) == CHOOSE key \in keys : \A other \in keys : Rank[key] <= Rank[other]

\* What the loops of a call on two dictionaries or two lists have still to go through;
\* those over one side are for dictionaries only.
Loops(at, c) ==
  LET expected == Keys(c.expected, at)
      actual == Keys(c.actual, at)
      sides == IF c.expected[at].type = "dict" THEN Steps ELSE {}
  IN  [at |-> at, missing |-> (expected \ actual) \cap sides,
       unexpected |-> (actual \ expected) \cap sides, shared |-> expected \cap actual]

Add(what, at) == differences' = Append(differences, [what |-> what, at |-> at])

\* A call on the values at a position, above the calls in rest.
Call(at, c, rest) ==
  LET expected == c.expected[at]
      actual == c.actual[at]
  IN  \/ /\ Ignored(at, c)
         /\ pending' = rest /\ UNCHANGED differences
      \/ /\ ~Ignored(at, c) /\ expected.type # actual.type
         /\ pending' = rest /\ Add("type", at)
      \/ /\ ~Ignored(at, c) /\ expected.type = actual.type /\ expected.type \in Containers
         /\ pending' = <<Loops(at, c)>> \o rest /\ UNCHANGED differences
      \/ /\ ~Ignored(at, c) /\ expected.type = actual.type /\ expected.type \notin Containers
         /\ pending' = rest
         /\ IF Tolerated(expected, actual, c.policy) \/ expected = actual
            THEN UNCHANGED differences ELSE Add("value", at)

\* The last statement of _execute_boundary, once.
CompareStart ==
  /\ comparison = NoComparison /\ UNCHANGED raised
  /\ \E expected \in Values, actual \in Answers, policy \in Policies :
       LET c == [expected |-> expected, actual |-> actual, policy |-> policy] IN
       comparison' = c /\ Call(<< >>, c, << >>)

\* The loops over keys that one side has.
CompareSide(what) ==
  /\ pending # << >> /\ UNCHANGED <<comparison, raised>>
  /\ LET top == Head(pending)
         key == First(top[what])
         child == Append(top.at, key)
     IN  /\ top[what] # {}
         /\ what = "unexpected" => top.missing = {} /\ Sortable(top.unexpected)
         /\ pending' = <<[top EXCEPT ![what] = @ \ {key}]>> \o Tail(pending)
         /\ IF Ignored(child, comparison) THEN UNCHANGED differences ELSE Add(what, child)

\* The keys that only the answer has do not compare: nothing is caught on the way out.
CompareRaise ==
  /\ pending # << >> /\ UNCHANGED comparison
  /\ Head(pending).missing = {} /\ ~Sortable(Head(pending).unexpected)
  /\ pending' = << >> /\ differences' = << >> /\ raised' = TRUE

\* The loop over the keys or indices of both.
CompareShared ==
  /\ pending # << >> /\ UNCHANGED <<comparison, raised>>
  /\ LET top == Head(pending)
         key == First(top.shared)
     IN  /\ top.missing = {} /\ top.unexpected = {} /\ top.shared # {}
         /\ Call(Append(top.at, key), comparison,
                 <<[top EXCEPT !.shared = @ \ {key}]>> \o Tail(pending))

\* The end of a call on containers: no policy ignores a length by its own path.
CompareReturn ==
  /\ pending # << >> /\ UNCHANGED <<comparison, raised>>
  /\ LET top == Head(pending)
         c == comparison
     IN  /\ top.missing = {} /\ top.unexpected = {} /\ top.shared = {}
         /\ pending' = Tail(pending)
         /\ IF c.expected[top.at].type = "list" /\ Keys(c.expected, top.at) # Keys(c.actual, top.at)
            THEN Add("length", top.at) ELSE UNCHANGED differences

CompareStep ==
  \/ CompareStart
  \/ \E what \in {"missing", "unexpected"} : CompareSide(what)
  \/ CompareRaise
  \/ CompareShared
  \/ CompareReturn

\* The positions of the containers a position is in.
Above(at) == {SubSeq(at, 1, n) : n \in 0 .. Len(at) - 1}

\* What json.dumps accepts of the answer at a position.
IsJson(at, c) ==
  \A below \in DOMAIN c.actual :
    at \in Above(below) \cup {below} => c.actual[below].type # "opaque"
----------------------------------------------------------------------------
Parent(at) == SubSeq(at, 1, Len(at) - 1)
Both(c) == DOMAIN c.expected \cap DOMAIN c.actual

\* In containers of one type all the way down, nothing ignored.
Reached(at, c) ==
  /\ \A up \in Above(at) \cup {at} : ~Ignored(up, c)
  /\ \A up \in Above(at) : /\ up \in Both(c) /\ c.expected[up].type = c.actual[up].type
                           /\ c.expected[up].type \in Containers

DifferAs(what, at, c) ==
  LET expected == c.expected[at]
      actual == c.actual[at]
  IN  CASE what = "missing" -> /\ at \in DOMAIN c.expected \ DOMAIN c.actual
                               /\ c.expected[Parent(at)].type = "dict"
        [] what = "unexpected" -> /\ at \in DOMAIN c.actual \ DOMAIN c.expected
                                  /\ c.actual[Parent(at)].type = "dict"
        [] what = "type" -> at \in Both(c) /\ expected.type # actual.type
        [] what = "length" -> /\ at \in Both(c) /\ expected.type = "list" /\ actual.type = "list"
                              /\ Keys(c.expected, at) # Keys(c.actual, at)
        [] OTHER -> /\ at \in Both(c) /\ expected # actual
                    /\ expected.type = actual.type /\ expected.type \notin Containers
                    /\ expected.type \in {"int", "float"} =>
                         \/ expected.value - actual.value > c.policy.tolerance
                         \/ actual.value - expected.value > c.policy.tolerance

Differences(c) ==
  {d \in [what : {"missing", "unexpected", "type", "length", "value"},
          at : DOMAIN c.expected \cup DOMAIN c.actual] :
     Reached(d.at, c) /\ DifferAs(d.what, d.at, c)}

\* The dictionaries whose keys cannot be gone through in order.
Unsorted(c) ==
  {at \in Both(c) :
     /\ Reached(at, c) /\ c.expected[at].type = "dict" /\ c.actual[at].type = "dict"
     /\ ~Sortable(Keys(c.actual, at) \ Keys(c.expected, at))}

\* The comparison raises exactly if it meets a dictionary with keys of the answer's own
\* that do not compare.  Otherwise it reports a difference exactly once for each place
\* where two values differ beyond the tolerance, in containers that agree in type and are
\* not ignored, and nothing else: False and True differ whatever the tolerance, a tuple is
\* not a list, an ignored path hides whatever prints like it, a length cannot be ignored.
ComparisonExact ==
  pending = << >> =>
    /\ raised <=> Unsorted(comparison) # {}
    /\ ~raised => {differences[n] : n \in DOMAIN differences} = Differences(comparison)
    /\ \A n, m \in DOMAIN differences : differences[n] = differences[m] => n = m
=============================================================================
