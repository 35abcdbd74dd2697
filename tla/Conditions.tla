------------------------------- MODULE Conditions -------------------------------
(***************************************************************************)
(* The comparisons of if and switch nodes (domain/executor/builtin/if.go,  *)
(* numeric.go), with what their operands go through on the way: a reference *)
(* is decoded by encoding/json, which makes every number a float64, and    *)
(* the Config of a node is decoded, its templates are expanded, and it is  *)
(* encoded once more before the executor parses it.                        *)
(***************************************************************************)
EXTENDS Integers

CONSTANTS
  Width,      \* bits of an int64, scaled down
  Precision,  \* bits of the significand of a float64, scaled down
  Within,     \* <<t, u>>: text t contains text u
  Begins,     \* <<t, u>>: text t begins with text u
  Expansions  \* text or list with templates -> what walkExpand makes of it

ASSUME NumberAssumption ==
  /\ Width \in Nat \ {0}
  /\ Precision \in 1..Width
  /\ Begins \subseteq Within

Texts  == {"digits", "nan", "word", "template"}
Lists  == {"list", "ints", "floats", "templates"}
Types  == Texts \cup Lists \cup {"int", "float", "nil", "bool"}

Operators == {"is_empty", "is_not_empty", "eq", "ne", "gt", "lt", "gte", "lte",
              "contains", "starts_with"}
-----------------------------------------------------------------------------
\* The powers of two, as a function: what a function computes can be proved.
TwoTo[n \in Nat] == IF n = 0 THEN 1 ELSE 2 * TwoTo[n - 1]

Abs(n) == IF n < 0 THEN -n ELSE n

\* The distance of two floats near n.
Ulp(n) == TwoTo[CHOOSE k \in 0..(Width + 1) :
                  /\ Abs(n) < TwoTo[Precision + k]
                  /\ k = 0 \/ Abs(n) >= TwoTo[Precision + k - 1]]

\* The multiple of u nearest to a, and of two the even one.
Nearest(a, u) ==
  LET q    == a \div u
      rest == 2 * (a % u)
      up   == IF rest > u \/ (rest = u /\ q % 2 = 1) THEN 1 ELSE 0
  IN  (q + up) * u

\* float64(n)
Round(n) == IF n < 0 THEN -Nearest(-n, Ulp(n)) ELSE Nearest(n, Ulp(n))

IsInt64(n)  == n \in -TwoTo[Width - 1]..(TwoTo[Width - 1] - 1)
IsUint64(n) == n \in 0..(TwoTo[Width] - 1)

\* Go values.  n is the number an int (int64), a float (float64, of which only
\* whole ones are told apart) or the digits of a text stand for, the length of
\* a list, and tells other values of a type apart; the word 0 is the empty
\* text.  A template is a text that names a path, templates a list one of whose
\* elements does; ints and floats are lists of small whole numbers, int64 or
\* float64; an object is as a list.  The digits stay in the range of a float64,
\* scaled down.
Value ==
  {v \in [type : Types, n : Int] :
     /\ v.type = "int" => IsInt64(v.n)
     /\ v.type = "float" => Round(v.n) = v.n
     /\ v.type \in {"float", "digits"} => Abs(v.n) < TwoTo[Precision + Width]
     /\ v.type \in {"template", "templates"} => v \in DOMAIN Expansions}

\* The path of a reference or a template leads nowhere.
NotFound == [type |-> "missing", n |-> 0]

\* What Lookup decodes.
Decoded(v) ==
  CASE v.type = "int"  -> [type |-> "float", n |-> Round(v.n)]
    [] v.type = "ints" -> [type |-> "floats", n |-> v.n]
    [] OTHER           -> v

\* What expandTemplate looks up is decoded like any other; a text all of which is
\* template becomes the value it names, a list remains one.  In lenient mode a
\* path that leads nowhere stays as it is, and nothing is NotFound.
ASSUME ExpansionAssumption == \A v \in DOMAIN Expansions :
  LET w == Expansions[v] IN
  /\ w \in Value \cup {NotFound}
  /\ w.type \notin {"int", "ints"}
  /\ v.type = "templates" /\ w # NotFound => w.type \in Lists

\* walkExpand
Expanded(v) == IF v.type \in {"template", "templates"} THEN Expansions[v] ELSE v

\* Encoded, and decoded by sonic, which makes a number without fraction an int64
\* again when it fits.
Converted(v) ==
  CASE v.type \in {"int", "float"} ->
         [type |-> IF IsInt64(Round(v.n)) THEN "int" ELSE "float", n |-> Round(v.n)]
    [] v.type = "floats" -> [type |-> "ints", n |-> v.n]
    [] OTHER -> v

\* A literal in a Config, from the DSL to the executor.
RoundTrip(v) == Converted(Expanded(v))
-----------------------------------------------------------------------------
\* coerceFloat64 succeeds; ParseFloat takes the text NaN.
Coercible(v) == v.type \in {"int", "float", "digits", "nan"}

\* Both are numbers; NaN is less, equal or greater than nothing.
Comparable(l, r) == "nan" \notin {l.type, r.type}

\* exactInteger succeeds.
IsExact(v) ==
  \/ v.type = "int"
  \/ v.type = "digits" /\ (IsInt64(v.n) \/ IsUint64(v.n))

\* A wrong equal: a negative number is converted before it is compared.
EqualUnguarded(l, r) ==
  IF IsInt64(l) = IsInt64(r) THEN l = r ELSE l % TwoTo[Width] = r % TwoTo[Width]

\* integerValue.equal: what ParseInt takes is signed, what only ParseUint does
\* is not.
Equal(l, r) ==
  IF IsInt64(l) = IsInt64(r) THEN l = r
  ELSE IF IsInt64(l) THEN l >= 0 /\ l % TwoTo[Width] = r
  ELSE r >= 0 /\ l = r % TwoTo[Width]

CompareEqual(l, r) ==
  IF IsExact(l) /\ IsExact(r) THEN Equal(l.n, r.n)
  ELSE IF Coercible(l) /\ Coercible(r) THEN Comparable(l, r) /\ Round(l.n) = Round(r.n)
  ELSE l = r

IsEmpty(v) == v.type = "nil" \/ (v.type \in {"word", "list"} /\ v.n = 0)

Ordered(op, l, r) ==
  /\ Comparable(l, r)
  /\ CASE op = "gt"  -> Round(l.n) > Round(r.n)
       [] op = "lt"  -> Round(l.n) < Round(r.n)
       [] op = "gte" -> Round(l.n) >= Round(r.n)
       [] op = "lte" -> Round(l.n) <= Round(r.n)

Verdict(b) == IF b THEN "true" ELSE "false"

EvalCondition(op, l, r) ==
  CASE op = "is_empty"     -> Verdict(IsEmpty(l))
    [] op = "is_not_empty" -> Verdict(~IsEmpty(l))
    [] op = "eq"           -> Verdict(CompareEqual(l, r))
    [] op = "ne"           -> Verdict(~CompareEqual(l, r))
    [] op \in {"gt", "lt", "gte", "lte"} /\ Coercible(l) /\ Coercible(r) ->
         Verdict(Ordered(op, l, r))
    [] op \in {"contains", "starts_with"} /\ {l.type, r.type} \subseteq Texts ->
         Verdict(<<l, r>> \in IF op = "contains" THEN Within ELSE Begins)
    [] OTHER -> "error"
=============================================================================
