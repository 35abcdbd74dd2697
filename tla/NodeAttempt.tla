------------------------------ MODULE NodeAttempt ------------------------------
(***************************************************************************)
(* One node from its first attempt to the port it fires: what the built-in *)
(* executors do (domain/executor/builtin), the error policy of the node    *)
(* (scheduler.go:190) and the time it waits between attempts (retry.go).   *)
(* Engine takes any outcome and any delay instead; here nobody cancels,    *)
(* and each attempt resolves the same values.                              *)
(***************************************************************************)
EXTENDS Conditions, Sequences, FiniteSets

CONSTANTS
  Inputs,           \* the nodes to execute
  PortsOf,          \* node type -> ports its NodeType declares
  Executors,        \* node types with a registered executor
  MaxBackoffDelay,
  MaxBackoffShift,
  DurationWidth     \* bits of a time.Duration, scaled down

\* An if or switch compares value to the right sides of its cases, an if has one
\* case; resolves: so does what else the node takes from others; ready: the
\* other executors have the service, configuration and inputs they ask for.  A
\* policy is what effectivePolicy makes of it.
Source == [kind : {"literal"}, value : Value]
     \cup [kind : {"ref"}, value : Value \cup {NotFound}]
     \cup [kind : {"template"}, value : {v \in Value : v.type \in Texts}]
Case   == [name : STRING, op : STRING, right : Source]
Policy == [retries : Nat, backoff : {"fixed", "exponential"}, delay : Nat,
           onFinalFail : {"fail_run", "fallback", "fire_error_port"}, port : STRING]
Node   == [type : DOMAIN PortsOf, value : Source, cases : Seq(Case),
           resolves : BOOLEAN, ready : BOOLEAN, policy : Policy]

\* The limit is a Duration and, being 30 seconds, even.
ASSUME NodeAssumption ==
  /\ "switch" \in Executors
  /\ Executors \subseteq DOMAIN PortsOf
  /\ {MaxBackoffDelay, MaxBackoffShift, DurationWidth} \subseteq Nat \ {0}
  /\ MaxBackoffDelay < TwoTo[DurationWidth - 1] /\ MaxBackoffDelay % 2 = 0
  /\ Inputs \subseteq Node
  /\ \A m \in Inputs : m.type = "if" => Len(m.cases) = 1

\* The ports of the built-in node types.
ASSUME PortsAssumption ==
  /\ \A t \in Executors \cap {"start", "join", "set_variable", "llm", "http_request"} :
       "default" \in PortsOf[t]
  /\ "if" \in Executors => {"true", "false"} \subseteq PortsOf["if"]
  /\ "http_request" \in Executors => "error" \in PortsOf["http_request"]

VARIABLES
  node,     \* the node
  pc,       \* execute, failed, waiting or done
  attempt,  \* counted from 1
  next,     \* of a switch, the case it tests next
  fired,    \* the port, "none" before and when the run fails
  wait      \* delay before the next attempt

vars == <<node, pc, attempt, next, fired, wait>>

CaseNames(n) == {n.cases[i].name : i \in DOMAIN n.cases}

\* A wrong outputPortsOf: the static ports of a switch.
StaticPorts(n) == PortsOf[n.type]

OutputPorts(n) ==
  IF n.type = "switch" THEN CaseNames(n) \cup {"default", "error"} ELSE PortsOf[n.type]

\* What ValidateForPublish has seen to.
Accepted(n) ==
  /\ n.type = "switch" => /\ CaseNames(n) \cap {"", "default", "error"} = {}
                          /\ Cardinality(CaseNames(n)) = Len(n.cases)
  /\ n.policy.onFinalFail = "fallback" => n.policy.port \in OutputPorts(n)
  /\ n.policy.onFinalFail = "fire_error_port" => "error" \in OutputPorts(n)

Init ==
  /\ node \in {n \in Inputs : Accepted(n)}
  /\ pc = "execute"
  /\ attempt = 1
  /\ next = 1
  /\ fired = "none"
  /\ wait = 0
-----------------------------------------------------------------------------
\* The attempt ends without error.
Fire(port) ==
  /\ pc' = "done"
  /\ fired' = port
  /\ UNCHANGED <<node, attempt, next, wait>>

Fail ==
  /\ pc' = "failed"
  /\ UNCHANGED <<node, attempt, next, fired, wait>>

\* resolveOne
Resolved(s) ==
  CASE s.kind = "literal"  -> s.value
    [] s.kind = "ref"      -> Decoded(s.value)
    [] s.kind = "template" -> Expanded(s.value)

ResolveInputs(n) ==
  /\ n.resolves
  /\ n.type \in {"if", "switch"} => Resolved(n.value) # NotFound
  /\ n.type = "if" => Resolved(n.cases[1].right) # NotFound

\* A switch expands the right sides of its cases, all of them before it tests
\* the first, and then parses the outcome, in which a template must be a text.
ResolveConfig(n) ==
  n.type = "switch" =>
    \A i \in DOMAIN n.cases : LET s == n.cases[i].right IN
      /\ s.kind # "ref" => Expanded(s.value) # NotFound
      /\ s.kind = "template" => Expanded(s.value).type \in Texts

Resolves(n) == ResolveInputs(n) /\ ResolveConfig(n)

ResolveFails ==
  /\ pc = "execute"
  /\ ~Resolves(node)
  /\ Fail

Executes(types) ==
  /\ pc = "execute"
  /\ Resolves(node)
  /\ node.type \in types \cap Executors

\* Build finds no executor: the node type of a plugin.
BuildFails ==
  /\ pc = "execute"
  /\ Resolves(node)
  /\ node.type \notin Executors
  /\ Fail

\* start and join do nothing, nor does end, whose empty port runNode replaces.
PassThrough == Executes({"start", "join", "end"}) /\ Fire("default")

SetVariable ==
  /\ Executes({"set_variable"})
  /\ IF node.ready THEN Fire("default") ELSE Fail

\* The client answers or fails.
Complete ==
  /\ Executes({"llm"})
  /\ Fail \/ (node.ready /\ Fire("default"))

\* The same, and a status of 400 or above is no failure.
HTTPRequest ==
  /\ Executes({"http_request"})
  /\ Fail \/ (node.ready /\ \E port \in {"default", "error"} : Fire(port))

IfVerdict(c) == EvalCondition(c.op, Resolved(node.value), Resolved(c.right))

If ==
  /\ Executes({"if"})
  /\ LET verdict == IfVerdict(node.cases[1]) IN
       IF verdict = "error" THEN Fail ELSE Fire(verdict)

\* A wrong verdict: a Config is taken as it stands.
UnexpandedVerdict(c) ==
  IF c.right.kind # "literal" THEN "error"
  ELSE EvalCondition(c.op, Resolved(node.value), Converted(c.right.value))

SwitchVerdict(c) ==
  IF c.right.kind # "literal" THEN "error"
  ELSE EvalCondition(c.op, Resolved(node.value), RoundTrip(c.right.value))

SwitchCase ==
  /\ Executes({"switch"})
  /\ next <= Len(node.cases)
  /\ LET verdict == SwitchVerdict(node.cases[next]) IN
       CASE verdict = "true"  -> Fire(node.cases[next].name)
         [] verdict = "error" -> Fail
         [] OTHER -> next' = next + 1 /\ UNCHANGED <<node, pc, attempt, fired, wait>>

SwitchDefault ==
  /\ Executes({"switch"})
  /\ next > Len(node.cases)
  /\ Fire("default")
-----------------------------------------------------------------------------
Min(a, b) == IF a < b THEN a ELSE b

\* Go's arithmetic on durations.
Wrap(n) ==
  LET m == n % TwoTo[DurationWidth] IN
  IF m >= TwoTo[DurationWidth - 1] THEN m - TwoTo[DurationWidth] ELSE m

\* A wrong loop: the limit is applied only in the end.
DoubledOn(base) == Wrap(2 * base)

\* One turn of the loop: half the limit and more becomes the limit.
Doubled(base) ==
  IF base >= MaxBackoffDelay \div 2 THEN MaxBackoffDelay ELSE Wrap(2 * base)

\* computeBackoff, without the jitter
Base(p, n) ==
  LET turns   == IF p.backoff = "exponential" THEN Min(n - 1, MaxBackoffShift) ELSE 0
      base[i \in 0..turns] == IF i = 0 THEN p.delay ELSE Doubled(base[i - 1])
  IN  Min(base[turns], MaxBackoffDelay)

\* The jitter is up to a fifth either way.
ComputeBackoff(p, n) ==
  LET base == Base(p, n) IN {base - base \div 5, base, base + base \div 5}

Retry ==
  /\ pc = "failed"
  /\ attempt < node.policy.retries + 1
  /\ pc' = "waiting"
  /\ wait' \in ComputeBackoff(node.policy, attempt)
  /\ UNCHANGED <<node, attempt, next, fired>>

Wake ==
  /\ pc = "waiting"
  /\ pc' = "execute"
  /\ attempt' = attempt + 1
  /\ next' = 1
  /\ wait' = 0
  /\ UNCHANGED <<node, fired>>

GiveUp ==
  /\ pc = "failed"
  /\ attempt >= node.policy.retries + 1
  /\ Fire(CASE node.policy.onFinalFail = "fallback"        -> node.policy.port
            [] node.policy.onFinalFail = "fire_error_port" -> "error"
            [] OTHER                                       -> "none")

Next ==
  \/ ResolveFails \/ BuildFails \/ PassThrough \/ SetVariable \/ Complete \/ HTTPRequest
  \/ If \/ SwitchCase \/ SwitchDefault
  \/ Retry \/ Wake \/ GiveUp

Spec == Init /\ [][Next]_vars
-----------------------------------------------------------------------------
(***************************************************************************)
(* A node only fires ports an edge may be drawn from: of what the          *)
(* validator accepts, no executor, fallback or error port leaves the run   *)
(* without a successor the editor offered (validator.go:588,               *)
(* http_request.go:47, switch.go:46, scheduler.go:214).                    *)
(***************************************************************************)
FiresDeclaredPort ==
  pc = "done" /\ node.type # "end" /\ fired # "none" => fired \in OutputPorts(node)

(***************************************************************************)
(* A switch whose inputs and Config resolve decides as a chain of ifs with *)
(* the same operands would: it fires a case where the if is true, goes on  *)
(* where it is false and fails where it fails.  A text in a case is a      *)
(* template, though of kind literal; in an if it is one only if its kind   *)
(* says so.  Beyond that the literal of a case takes another way than that *)
(* of an if, so they part where an equality has an integer that a float64  *)
(* does not hold, a list of whole floats or a list with a template         *)
(* (switch.go:40, resolve.go:46).                                          *)
(***************************************************************************)
AsInput(s) == IF s.value.type \in Texts THEN [s EXCEPT !.kind = "template"] ELSE s

BeyondFloat(v) == v.type \in {"int", "digits"} /\ Round(v.n) # v.n

Fragile(l, r) ==
  \/ r.type = "int" /\ BeyondFloat(r)
  \/ r.type = "float" /\ BeyondFloat(l)
  \/ r.type \in {"floats", "templates"} /\ l.type \in Lists

SwitchIsChainOfIfs ==
  [][pc = "execute" /\ Resolves(node) /\ node.type = "switch" /\ next <= Len(node.cases) =>
       LET c == node.cases[next]
           r == AsInput(c.right)
       IN
       /\ c.right.kind = "literal"
       /\ c.op \in {"eq", "ne"} => ~Fragile(Resolved(node.value), Resolved(r))
       => IfVerdict([c EXCEPT !.right = r]) =
            CASE pc' = "done"   -> "true"
              [] pc' = "failed" -> "error"
              [] OTHER          -> "false"]_vars

(***************************************************************************)
(* An if on two numbers answers the truth, for every operator and in       *)
(* whatever sign and form they come, except that it cannot tell apart two  *)
(* numbers that are the same float64; two exact integers it can, if asked  *)
(* whether they are equal.  What is not a number is only unequal           *)
(* (if.go:83, numeric.go:53).                                              *)
(***************************************************************************)
Truth(op, a, b) ==
  CASE op = "eq" -> a = b   [] op = "ne"  -> a # b  [] op = "lt"  -> a < b
    [] op = "gt" -> a > b   [] op = "lte" -> a <= b [] op = "gte" -> a >= b

SameFloat(op, l, r) ==
  /\ l.n # r.n /\ Round(l.n) = Round(r.n)
  /\ ~(op \in {"eq", "ne"} /\ IsExact(l) /\ IsExact(r))

DecidesOnNumbers(op, l, r) ==
  /\ node.type = "if" /\ pc = "execute" /\ pc' = "done"
  /\ op \in {"eq", "ne", "lt", "gt", "lte", "gte"}
  /\ Coercible(l) /\ Coercible(r)

ComparesNumbers ==
  [][LET op == node.cases[1].op
         l  == Resolved(node.value)
         r  == Resolved(node.cases[1].right)
     IN  DecidesOnNumbers(op, l, r) =>
           IF Comparable(l, r)
           THEN fired' = Verdict(Truth(op, l.n, r.n)) \/ SameFloat(op, l, r)
           ELSE fired' = Verdict(op = "ne")]_vars

(***************************************************************************)
(* The wait before a retry is the delay of the policy, doubled with each   *)
(* attempt up to the limits if exponential, give or take a fifth: it never *)
(* overflows or becomes negative, however long the delay and however many  *)
(* the attempts (retry.go:85).                                             *)
(***************************************************************************)
BackoffBounded ==
  pc = "waiting" =>
    LET p    == node.policy
        turns == IF p.backoff = "exponential" THEN Min(attempt - 1, MaxBackoffShift) ELSE 0
        base == Min(p.delay * TwoTo[turns], MaxBackoffDelay)
    IN  5 * wait \in (4 * base)..(6 * base + 4)
=============================================================================
