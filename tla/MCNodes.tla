-------------------------------- MODULE MCNodes --------------------------------
(***************************************************************************)
(* Nodes to execute.  An int64 has six bits and the significand of a       *)
(* float64 three, so 9 is the first integer a float does not hold, 10 and  *)
(* 12 are floats, 31 and 63 are the largest int64 and uint64.              *)
(***************************************************************************)
EXTENDS NodeAttempt

MCPortsOf == [start          |-> {"default"},
              end            |-> {},
              join           |-> {"default"},
              set_variable   |-> {"default"},
              llm            |-> {"default", "error"},
              http_request   |-> {"default", "error"},
              if             |-> {"true", "false", "error"},
              switch         |-> {"default", "error"},
              plugin         |-> {"default", "error"}]

MCExecutors == (DOMAIN MCPortsOf) \ {"plugin"}

Number(type, n) == [type |-> type, n |-> n]

Values == {Number("int", n)    : n \in {-32, -9, -1, 0, 8, 9, 31}}
     \cup {Number("float", n)  : n \in {-8, 0, 8, 32}}
     \cup {Number("digits", n) : n \in {-1, 0, 9, 31, 32, 33, 63, 64}}
     \cup {Number("word", n)   : n \in 0..2}
     \cup {Number(t, 1)        : t \in {"nan", "bool", "ints", "floats"}}
     \cup {Number(t, 0)        : t \in {"nil", "list"}}

\* Templates: a number, digits, a text, a path that leads nowhere; lists of a
\* number, of a text and of that path.
MCExpansions ==
  [v \in [type : {"template"}, n : 1..4] \cup [type : {"templates"}, n : 1..3] |->
     CASE v = Number("template", 1)  -> Number("float", 8)
       [] v = Number("template", 2)  -> Number("digits", 9)
       [] v = Number("template", 3)  -> Number("word", 1)
       [] v = Number("templates", 1) -> Number("floats", 1)
       [] v = Number("templates", 2) -> Number("list", 2)
       [] OTHER                      -> NotFound]

\* Word 2 begins word 1 and is within NaN; every text begins with itself and
\* with the empty one.
MCTexts  == {v \in Values \cup DOMAIN MCExpansions : v.type \in Texts}
MCBegins == {<<t, t>> : t \in MCTexts} \cup {<<t, Number("word", 0)>> : t \in MCTexts}
       \cup {<<Number("word", 1), Number("word", 2)>>}
MCWithin == MCBegins \cup {<<Number("nan", 1), Number("word", 2)>>}

FailRun == [retries |-> 0, backoff |-> "fixed", delay |-> 0,
            onFinalFail |-> "fail_run", port |-> ""]

From(kind, v)     == [kind |-> kind, value |-> v]
When(name, op, r) == [name |-> name, op |-> op, right |-> r]

Plain(type, v, cases) ==
  [type |-> type, value |-> v, cases |-> cases, resolves |-> TRUE,
   ready |-> TRUE, policy |-> FailRun]

Templates == {v \in DOMAIN MCExpansions : v.type = "template"}
Missing   == From("ref", NotFound)

\* A reference matters where it decodes to something else.
Sources == {From("literal", v) : v \in Values \cup DOMAIN MCExpansions}
      \cup {From("ref", v) : v \in {w \in Values : w.type \in {"int", "ints"}}}
      \cup {From("template", v) : v \in Templates \cup {Number("digits", 9)}}
      \cup {Missing}

Ifs == {Plain("if", s, <<When("true", op, r)>>) :
          s \in Sources, r \in Sources, op \in Operators}

SwitchSources == {s \in Sources : s.value.n \in {-1, 0, 1, 2, 8, 9, 31, 32, 63}}
CaseValues    == {v \in Values : v.n \in {-1, 0, 1, 8, 9, 31, 32, 63}} \cup DOMAIN MCExpansions

Switches == {Plain("switch", s, <<When("c", op, From("literal", w)),
                                  When("d", "gte", From("literal", w))>> \o last) :
               s \in SwitchSources, w \in CaseValues,
               op \in {"eq", "ne", "lt", "contains", "unknown"},
               last \in {<<>>} \cup {<<When("e", "eq", r)>> :
                   r \in {From("ref", Number("int", 1)),
                          From("template", Number("template", 1)),
                          From("template", Number("template", 2))}}}

Policies == [retries : 0..1, backoff : {"fixed"}, delay : {0},
             onFinalFail : {"fail_run", "fallback", "fire_error_port"},
             port : {"default", "error", "true", "c"}]

ByPolicy == [type : DOMAIN MCPortsOf, value : {From("ref", Number("word", 1))},
             cases : {<<When("c", "gt", From("literal", Number("int", 1)))>>},
             resolves : BOOLEAN, ready : BOOLEAN, policy : Policies]

\* Long retries of a node that fails each time: the limits are 256 times the
\* delay and a wait of 600, an int64 ends at 2047.
Retries == {[Plain("set_variable", From("literal", Number("nil", 0)), <<>>)
               EXCEPT !.ready = FALSE, !.policy = [FailRun EXCEPT !.retries = 10,
                                                     !.backoff = b, !.delay = d]] :
              b \in {"fixed", "exponential"},
              d \in {0, 1, 2, 3, 299, 300, 301, 599, 600, 601, 1500, 2047}}

MCInputs == Ifs \cup Switches \cup ByPolicy \cup Retries
=============================================================================
