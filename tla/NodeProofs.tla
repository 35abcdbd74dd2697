------------------------------ MODULE NodeProofs ------------------------------
(***************************************************************************)
(* A node fires only ports it has, waits no longer than its policy says,   *)
(* and decides by the truth about numbers: for every node the validator    *)
(* accepts, every value and policy, and every width of the numbers.        *)
(***************************************************************************)
EXTENDS NodeAttempt, TLAPS, WellFoundedInduction

LEMMA VerdictOrError ==
  ASSUME NEW op, NEW l, NEW r
  PROVE  EvalCondition(op, l, r) \in {"true", "false", "error"}
  BY DEF EvalCondition, Verdict

PortInv ==
  /\ node \in Inputs /\ Accepted(node)
  /\ next \in Nat \ {0}
  /\ pc # "done" => fired = "none"
  /\ FiresDeclaredPort

LEMMA PortInit == Init => PortInv
  BY DEF Init, PortInv, FiresDeclaredPort

\* The node stays; what a step has to see to.
LEMMA NodeKeeps ==
  ASSUME PortInv, node' = node, next' \in Nat \ {0},
         pc' # "done" => fired' = "none",
         pc' = "done" /\ node.type # "end" /\ fired' # "none" => fired' \in OutputPorts(node)
  PROVE  PortInv'
  <1>1. OutputPorts(node)' = OutputPorts(node) /\ Accepted(node)'
    BY DEF PortInv, Accepted, OutputPorts, CaseNames
  <1> QED
    BY <1>1 DEF PortInv, FiresDeclaredPort

LEMMA FireKeeps ==
  ASSUME PortInv, NEW port, Fire(port),
         node.type = "end" \/ port = "none" \/ port \in OutputPorts(node)
  PROVE  PortInv'
  BY NodeKeeps DEF PortInv, Fire

LEMMA FailKeeps ==
  ASSUME PortInv, Fail, pc = "execute"
  PROVE  PortInv'
  BY NodeKeeps DEF PortInv, Fail

LEMMA PortStep == PortInv /\ [Next]_vars => PortInv'
  <1> SUFFICES ASSUME PortInv, [Next]_vars PROVE PortInv'
    OBVIOUS
  <1> DEFINE plain == {"start", "join", "set_variable", "llm", "http_request"}
  <1>1. node \in Node /\ Accepted(node)
    BY NodeAssumption DEF PortInv
  <1>2. node.type \in Executors \cap plain => "default" \in OutputPorts(node)
    BY PortsAssumption DEF OutputPorts
  <1>3. CASE UNCHANGED vars
    BY <1>3, NodeKeeps DEF vars, PortInv, FiresDeclaredPort
  <1>4. CASE ResolveFails \/ BuildFails
    BY <1>4, FailKeeps DEF ResolveFails, BuildFails
  <1>5. CASE PassThrough
    BY <1>2, <1>5, FireKeeps DEF PassThrough, Executes
  <1>6. CASE SetVariable
    BY <1>2, <1>6, FireKeeps, FailKeeps DEF SetVariable, Executes
  <1>7. CASE Complete
    BY <1>2, <1>7, FireKeeps, FailKeeps DEF Complete, Executes
  <1>8. CASE HTTPRequest
    <2>1. node.type = "http_request" /\ node.type \in Executors /\ pc = "execute"
      BY <1>8 DEF HTTPRequest, Executes
    <2>2. "error" \in OutputPorts(node)
      BY <2>1, PortsAssumption DEF OutputPorts
    <2> QED
      BY <1>2, <1>8, <2>1, <2>2, FireKeeps, FailKeeps DEF HTTPRequest
  <1>9. CASE If
    <2>1. node.type = "if" /\ node.type \in Executors /\ pc = "execute"
      BY <1>9 DEF If, Executes
    <2>2. {"true", "false"} \subseteq OutputPorts(node)
      BY <2>1, PortsAssumption DEF OutputPorts
    <2>3. IfVerdict(node.cases[1]) \in {"true", "false", "error"}
      BY VerdictOrError DEF IfVerdict
    <2> QED
      BY <1>9, <2>1, <2>2, <2>3, FireKeeps, FailKeeps DEF If
  <1>10. CASE SwitchCase
    <2>1. /\ node.type = "switch" /\ pc = "execute"
          /\ next \in DOMAIN node.cases
      <3>1. node.cases \in Seq(Case)
        BY <1>1 DEF Node
      <3> QED
        BY <3>1, <1>10 DEF SwitchCase, Executes, PortInv
    <2>2. node.cases[next].name \in OutputPorts(node)
      BY <2>1 DEF OutputPorts, CaseNames
    <2>3. CASE next' = next + 1 /\ UNCHANGED <<node, pc, attempt, fired, wait>>
      BY <2>1, <2>3, NodeKeeps DEF PortInv
    <2> QED
      BY <1>10, <2>1, <2>2, <2>3, FireKeeps, FailKeeps DEF SwitchCase
  <1>11. CASE SwitchDefault
    <2>1. "default" \in OutputPorts(node)
      BY <1>11 DEF SwitchDefault, Executes, OutputPorts
    <2> QED
      BY <1>11, <2>1, FireKeeps DEF SwitchDefault
  <1>12. CASE Retry \/ Wake
    BY <1>12, NodeKeeps DEF Retry, Wake, PortInv
  <1>13. CASE GiveUp
    <2>1. node.policy.onFinalFail = "fallback" => node.policy.port \in OutputPorts(node)
      BY <1>1 DEF Accepted
    <2>2. node.policy.onFinalFail = "fire_error_port" => "error" \in OutputPorts(node)
      BY <1>1 DEF Accepted
    <2> QED
      BY <1>13, <2>1, <2>2, FireKeeps DEF GiveUp
  <1> QED
    BY <1>3, <1>4, <1>5, <1>6, <1>7, <1>8, <1>9, <1>10, <1>11, <1>12, <1>13 DEF Next

(***************************************************************************)
(* Of what the validator accepts, every port fired is one of the node's    *)
(* (FiresDeclaredPort): the executors' own, the cases of a switch, the     *)
(* fallback and the error port (validator.go:588, scheduler.go:214).  It   *)
(* rests on the ports the catalogue declares for the built-in types.       *)
(***************************************************************************)
THEOREM PortsDeclared == Spec => []FiresDeclaredPort
  <1>1. PortInv => FiresDeclaredPort
    BY DEF PortInv
  <1> QED
    BY <1>1, PortInit, PortStep, PTL DEF Spec
-----------------------------------------------------------------------------
(***************************************************************************)
(* Induction over the naturals, as a theorem about sets of them, and what  *)
(* it is needed for: functions defined by recursion.                       *)
(***************************************************************************)
LEMMA LeastOf ==
  ASSUME NEW T \in SUBSET Nat, T # {}
  PROVE  \E m \in T : \A k \in T : m <= k
  <1> DEFINE less == OpToRel(<, Nat)
  <1>1. PICK R : R = less
    OBVIOUS
  <1>2. IsWellFoundedOn(R, Nat)
    BY <1>1, NatLessThanWellFounded
  <1>3. R = {p \in Nat \X Nat : p[1] < p[2]}
    BY <1>1 DEF OpToRel
  <1> HIDE DEF less
  <1>4. PICK m \in T : \A k \in T : <<k, m>> \notin R
    BY <1>2, WFMin
  <1>5. ASSUME NEW k \in T, k < m
        PROVE  FALSE
    <2>1. <<k, m>> \in {p \in Nat \X Nat : p[1] < p[2]}
      BY <1>5
    <2> QED
      BY <1>3, <1>4, <2>1
  <1> QED
    BY <1>5

LEMMA Induction ==
  ASSUME NEW S, 0 \in S, \A n \in Nat : n \in S => n + 1 \in S
  PROVE  Nat \subseteq S
  <1> SUFFICES ASSUME Nat \ S # {} PROVE FALSE
    OBVIOUS
  <1>1. PICK m \in Nat \ S : \A k \in Nat \ S : m <= k
    BY LeastOf
  <1>2. m # 0 /\ m - 1 \in Nat /\ m - 1 \in S
    BY <1>1
  <1> QED
    BY <1>1, <1>2

\* f is the first n terms of the sequence x, step[x], step[step[x]] ...
Stage(f, n, S, x, step) ==
  /\ f \in [0..n -> S] /\ f[0] = x
  /\ \A i \in 0..(n - 1) : f[i + 1] = step[f[i]]

LEMMA StagesAgree ==
  ASSUME NEW S, NEW x, NEW step, NEW m \in Nat, NEW n \in Nat, NEW f, NEW g,
         Stage(f, m, S, x, step), Stage(g, n, S, x, step),
         NEW i \in Nat, i <= m, i <= n
  PROVE  f[i] = g[i]
  <1> DEFINE A == {j \in Nat : j <= m /\ j <= n => f[j] = g[j]}
  <1>1. 0 \in A
    BY DEF Stage
  <1>2. ASSUME NEW j \in Nat, j \in A
        PROVE  j + 1 \in A
    BY <1>2 DEF Stage
  <1>3. Nat \subseteq A
    <2> HIDE DEF A
    <2> QED
      BY <1>1, <1>2, Induction
  <1> QED
    BY <1>3

LEMMA Iterates ==
  ASSUME NEW S, NEW x \in S, NEW step \in [S -> S]
  PROVE  \E f \in [Nat -> S] : f[0] = x /\ \A n \in Nat : f[n + 1] = step[f[n]]
  <1> DEFINE A == {n \in Nat : \E f : Stage(f, n, S, x, step)}
  <1>1. 0 \in A
    <2>1. Stage([i \in 0..0 |-> x], 0, S, x, step)
      BY DEF Stage
    <2> QED
      BY <2>1
  <1>2. ASSUME NEW n \in Nat, n \in A
        PROVE  n + 1 \in A
    <2>1. PICK f : Stage(f, n, S, x, step)
      BY <1>2
    <2> DEFINE g == [i \in 0..(n + 1) |-> IF i <= n THEN f[i] ELSE step[f[n]]]
    <2>2. Stage(g, n + 1, S, x, step)
      BY <2>1 DEF Stage
    <2> HIDE DEF g
    <2> QED
      BY <2>2
  <1>3. \A n \in Nat : \E f : Stage(f, n, S, x, step)
    <2>1. Nat \subseteq A
      <3> HIDE DEF A
      <3> QED
        BY <1>1, <1>2, Induction
    <2> QED
      BY <2>1
  <1> DEFINE at(n) == CHOOSE f : Stage(f, n, S, x, step)
             F == [n \in Nat |-> at(n)[n]]
  <1>4. \A n \in Nat : Stage(at(n), n, S, x, step)
    BY <1>3
  <1> HIDE DEF at
  <1>5. F \in [Nat -> S] /\ F[0] = x
    BY <1>4 DEF Stage
  <1>6. ASSUME NEW n \in Nat
        PROVE  F[n + 1] = step[F[n]]
    <2>1. at(n + 1)[n + 1] = step[at(n + 1)[n]]
      BY <1>4 DEF Stage
    <2>2. at(n + 1)[n] = at(n)[n]
      BY <1>4, StagesAgree
    <2> QED
      BY <2>1, <2>2
  <1> HIDE DEF F
  <1> QED
    BY <1>5, <1>6
-----------------------------------------------------------------------------
(***************************************************************************)
(* The powers of two.                                                      *)
(***************************************************************************)
LEMMA PowersOfTwo ==
  /\ TwoTo \in [Nat -> Nat \ {0}]
  /\ TwoTo[0] = 1
  /\ \A n \in Nat : TwoTo[n + 1] = 2 * TwoTo[n]
  <1> DEFINE Doubles(f) == f = [n \in Nat |-> IF n = 0 THEN 1 ELSE 2 * f[n - 1]]
             twice == [v \in Nat \ {0} |-> 2 * v]
  <1>1. \E f : Doubles(f)
    <2> DEFINE Pos == Nat \ {0}
    <2>1. twice \in [Pos -> Pos] /\ 1 \in Pos
      OBVIOUS
    <2>2. PICK f \in [Nat -> Pos] :
            f[0] = 1 /\ \A n \in Nat : f[n + 1] = twice[f[n]]
      <3>1. PICK P, one, double : P = Pos /\ one = 1 /\ double = twice
        OBVIOUS
      <3>2. one \in P /\ double \in [P -> P]
        BY <2>1, <3>1
      <3>3. \E f \in [Nat -> P] : f[0] = one /\ \A n \in Nat : f[n + 1] = double[f[n]]
        BY <3>2, Iterates
      <3> QED
        BY <3>1, <3>3
    <2>3. \A n \in Nat : f[n] = IF n = 0 THEN 1 ELSE 2 * f[n - 1]
      <3>1. ASSUME NEW n \in Nat, n # 0
            PROVE  f[n] = 2 * f[n - 1]
        <4>1. n - 1 \in Nat /\ (n - 1) + 1 = n
          BY <3>1
        <4>2. f[(n - 1) + 1] = twice[f[n - 1]] /\ f[n - 1] \in Nat \ {0}
          BY <2>2, <4>1
        <4> QED
          BY <4>1, <4>2
      <3> QED
        BY <2>2, <3>1
    <2> QED
      BY <2>3
  <1>2. Doubles(TwoTo)
    <2>1. TwoTo = CHOOSE f : Doubles(f)
      BY DEF TwoTo
    <2> HIDE DEF Doubles
    <2> QED
      BY <1>1, <2>1
  <1>3. TwoTo[0] = 1 /\ \A n \in Nat : TwoTo[n + 1] = 2 * TwoTo[n]
    BY <1>2
  <1>4. TwoTo \in [Nat -> Nat \ {0}]
    <2> DEFINE A == {n \in Nat : TwoTo[n] \in Nat \ {0}}
    <2>1. 0 \in A /\ \A n \in Nat : n \in A => n + 1 \in A
      BY <1>3
    <2>2. Nat \subseteq A
      <3> HIDE DEF A
      <3> QED
        BY <2>1, Induction
    <2>3. TwoTo = [n \in Nat |-> TwoTo[n]]
      BY <1>2
    <2> QED
      BY <2>2, <2>3
  <1> QED
    BY <1>3, <1>4

LEMMA PowersGrow ==
  ASSUME NEW m \in Nat, NEW n \in Nat, m <= n
  PROVE  TwoTo[m] <= TwoTo[n] /\ (m < n => 2 * TwoTo[m] <= TwoTo[n])
  <1> DEFINE A == {d \in Nat : TwoTo[m] <= TwoTo[m + d]
                              /\ (0 < d => 2 * TwoTo[m] <= TwoTo[m + d])}
  <1>1. 0 \in A
    BY PowersOfTwo
  <1>2. ASSUME NEW d \in Nat, d \in A
        PROVE  d + 1 \in A
    <2>1. TwoTo[(m + d) + 1] = 2 * TwoTo[m + d] /\ TwoTo[m + d] \in Nat
          /\ m + (d + 1) = (m + d) + 1 /\ TwoTo[m] \in Nat
      BY PowersOfTwo
    <2> QED
      BY <1>2, <2>1
  <1>3. n - m \in A
    <2>1. Nat \subseteq A
      <3> HIDE DEF A
      <3> QED
        BY <1>1, <1>2, Induction
    <2> QED
      BY <2>1
  <1>4. m + (n - m) = n
    OBVIOUS
  <1> QED
    BY <1>3, <1>4

LEMMA PowersAdd ==
  ASSUME NEW m \in Nat, NEW n \in Nat
  PROVE  TwoTo[m + n] = TwoTo[m] * TwoTo[n]
  <1> DEFINE A == {d \in Nat : TwoTo[m + d] = TwoTo[m] * TwoTo[d]}
  <1>1. 0 \in A
    BY PowersOfTwo
  <1>2. ASSUME NEW d \in Nat, d \in A
        PROVE  d + 1 \in A
    <2>1. /\ TwoTo[(m + d) + 1] = 2 * TwoTo[m + d] /\ TwoTo[d + 1] = 2 * TwoTo[d]
          /\ m + (d + 1) = (m + d) + 1
          /\ TwoTo[m] \in Nat /\ TwoTo[d] \in Nat
      BY PowersOfTwo
    <2>2. 2 * (TwoTo[m] * TwoTo[d]) = TwoTo[m] * (2 * TwoTo[d])
      BY <2>1
    <2> QED
      BY <1>2, <2>1, <2>2
  <1> QED
    <2>1. Nat \subseteq A
      <3> HIDE DEF A
      <3> QED
        BY <1>1, <1>2, Induction
    <2> QED
      BY <2>1
-----------------------------------------------------------------------------
(***************************************************************************)
(* Rounding to a multiple of u.                                            *)
(***************************************************************************)
LEMMA Division ==
  ASSUME NEW a \in Nat, NEW u \in Nat \ {0}
  PROVE  /\ a \div u \in Nat /\ a % u \in Nat /\ a % u < u
         /\ a = ((a \div u) * u) + (a % u)
  OBVIOUS

LEMMA Scales ==
  ASSUME NEW c \in Nat, NEW d \in Nat, NEW u \in Nat \ {0}
  PROVE  /\ c * u \in Nat /\ (c + 1) * u = c * u + u
         /\ c <= d => c * u <= d * u
         /\ c < d => (c + 1) * u <= d * u
         /\ c * u < (d + 1) * u => c <= d
  <1>1. c * u \in Nat /\ (c + 1) * u = c * u + u
    OBVIOUS
  <1>2. ASSUME NEW x \in Nat, NEW y \in Nat, x <= y
        PROVE  x * u <= y * u
    <2>1. (y - x) * u >= 0 /\ (y - x) * u = y * u - x * u
      BY <1>2
    <2> QED
      BY <2>1
  <1>3. c < d => (c + 1) * u <= d * u
    BY <1>2
  <1>4. c > d => (d + 1) * u <= c * u
    BY <1>2
  <1>5. c * u \in Nat /\ (d + 1) * u \in Nat
    OBVIOUS
  <1> QED
    BY <1>1, <1>2, <1>3, <1>4, <1>5

LEMMA NearestForm ==
  ASSUME NEW a \in Nat, NEW u \in Nat \ {0}
  PROVE  LET q == a \div u  r == a % u IN
         /\ q \in Nat /\ r \in Nat /\ r < u /\ a = q * u + r /\ q * u \in Nat
         /\ Nearest(a, u) = IF 2 * r > u \/ (2 * r = u /\ q % 2 = 1) THEN q * u + u ELSE q * u
  <1> DEFINE q == a \div u
             r == a % u
  <1>1. q \in Nat /\ r \in Nat /\ r < u /\ a = q * u + r
    BY Division
  <1>2. q * u \in Nat /\ (q + 1) * u = q * u + u /\ (q + 0) * u = q * u
    BY <1>1, Scales
  <1>3. Nearest(a, u) = (q + (IF 2 * r > u \/ (2 * r = u /\ q % 2 = 1) THEN 1 ELSE 0)) * u
    BY DEF Nearest
  <1> HIDE DEF q, r
  <1>4. Nearest(a, u) = IF 2 * r > u \/ (2 * r = u /\ q % 2 = 1) THEN q * u + u ELSE q * u
    BY <1>2, <1>3
  <1> QED
    BY <1>1, <1>2, <1>4 DEF q, r

LEMMA NearestBetween ==
  ASSUME NEW a \in Nat, NEW u \in Nat \ {0}, NEW c \in Nat
  PROVE  /\ Nearest(a, u) \in Nat
         /\ c * u <= a => c * u <= Nearest(a, u)
         /\ a <= c * u => Nearest(a, u) <= c * u
  <1> DEFINE q == a \div u
             r == a % u
  <1>1. /\ q \in Nat /\ r \in Nat /\ r < u /\ a = q * u + r /\ q * u \in Nat
        /\ Nearest(a, u) = IF 2 * r > u \/ (2 * r = u /\ q % 2 = 1) THEN q * u + u ELSE q * u
    BY NearestForm
  <1> HIDE DEF q, r
  <1>2. c * u \in Nat /\ (q + 1) * u = q * u + u
    BY <1>1, Scales
  <1>3. Nearest(a, u) \in Nat /\ q * u <= Nearest(a, u) /\ Nearest(a, u) <= q * u + u
    BY <1>1
  <1>4. ASSUME c * u <= a
        PROVE  c * u <= Nearest(a, u)
    <2>1. c * u < (q + 1) * u
      BY <1>1, <1>2, <1>4
    <2>2. c <= q
      BY <1>1, <2>1, Scales
    <2>3. c * u <= q * u
      BY <1>1, <2>2, Scales
    <2> QED
      BY <1>1, <1>2, <1>3, <2>3
  <1>5. ASSUME a <= c * u
        PROVE  Nearest(a, u) <= c * u
    <2>1. CASE q < c
      <3>1. (q + 1) * u <= c * u
        BY <1>1, <2>1, Scales
      <3> QED
        BY <1>1, <1>2, <1>3, <3>1
    <2>2. CASE q >= c
      <3>1. c * u <= q * u
        BY <1>1, <2>2, Scales
      <3>2. r = 0 /\ q * u = c * u
        BY <1>1, <1>2, <1>5, <3>1
      <3> QED
        BY <1>1, <3>2
    <2> QED
      BY <1>1, <2>1, <2>2
  <1> QED
    BY <1>3, <1>4, <1>5

LEMMA NearestGrows ==
  ASSUME NEW a \in Nat, NEW b \in Nat, a <= b, NEW u \in Nat \ {0}
  PROVE  Nearest(a, u) <= Nearest(b, u)
  <1> DEFINE q == a \div u
             r == a % u
             p == b \div u
             t == b % u
  <1>1. /\ q \in Nat /\ r \in Nat /\ r < u /\ a = q * u + r /\ q * u \in Nat
        /\ Nearest(a, u) = IF 2 * r > u \/ (2 * r = u /\ q % 2 = 1) THEN q * u + u ELSE q * u
    BY NearestForm
  <1>2. /\ p \in Nat /\ t \in Nat /\ t < u /\ b = p * u + t /\ p * u \in Nat
        /\ Nearest(b, u) = IF 2 * t > u \/ (2 * t = u /\ p % 2 = 1) THEN p * u + u ELSE p * u
    BY NearestForm
  <1> HIDE DEF q, r, p, t
  <1>3. CASE q < p
    <2>1. q * u + u <= p * u
      BY <1>1, <1>2, <1>3, Scales
    <2> QED
      BY <1>1, <1>2, <2>1
  <1>4. CASE q = p
    <2>1. r <= t
      BY <1>1, <1>2, <1>4
    <2> QED
      BY <1>1, <1>2, <1>4, <2>1
  <1>5. CASE q > p
    <2>1. p * u + u <= q * u
      BY <1>1, <1>2, <1>5, Scales
    <2> QED
      BY <1>1, <1>2, <2>1
  <1> QED
    BY <1>1, <1>2, <1>3, <1>4, <1>5
-----------------------------------------------------------------------------
(***************************************************************************)
(* float64: the exponent of a number, and what rounding does to it.        *)
(***************************************************************************)
Exponent(a, k) ==
  /\ a < TwoTo[Precision + k]
  /\ k = 0 \/ a >= TwoTo[Precision + k - 1]

LEMMA ExponentGrows ==
  ASSUME NEW a \in Nat, NEW b \in Nat, a <= b, NEW j \in Nat, NEW k \in Nat,
         Exponent(a, j), Exponent(b, k)
  PROVE  j <= k
  <1> SUFFICES ASSUME k < j PROVE FALSE
    OBVIOUS
  <1>1. Precision + k \in Nat /\ Precision + j - 1 \in Nat /\ Precision + k <= Precision + j - 1
    BY NumberAssumption
  <1>2. TwoTo[Precision + k] <= TwoTo[Precision + j - 1]
    BY <1>1, PowersGrow
  <1>3. TwoTo[Precision + k] \in Nat /\ TwoTo[Precision + j - 1] \in Nat
    BY <1>1, PowersOfTwo
  <1> QED
    BY <1>2, <1>3 DEF Exponent

LEMMA ExponentExists ==
  ASSUME NEW a \in Nat, NEW w \in Nat, a < TwoTo[Precision + w]
  PROVE  \E k \in 0..w : Exponent(a, k)
  <1> DEFINE T == {k \in Nat : a < TwoTo[Precision + k]}
  <1>1. PICK k \in T : \A j \in T : k <= j
    <2>1. T \in SUBSET Nat /\ w \in T
      OBVIOUS
    <2> HIDE DEF T
    <2> QED
      BY <2>1, LeastOf
  <1>2. k \in 0..w
    BY <1>1
  <1>3. ASSUME k # 0
        PROVE  a >= TwoTo[Precision + k - 1]
    <2>1. k - 1 \in Nat /\ k - 1 \notin T /\ Precision + (k - 1) = Precision + k - 1
          /\ Precision + (k - 1) \in Nat
      BY <1>1, <1>2, <1>3, NumberAssumption
    <2>2. TwoTo[Precision + k - 1] \in Nat
      BY <2>1, PowersOfTwo
    <2> QED
      BY <2>1, <2>2
  <1> QED
    BY <1>1, <1>2, <1>3 DEF Exponent

\* The numbers whose float64 is one.
InRange(n) == Abs(n) < TwoTo[Precision + Width + 1]

LEMMA AbsIsNat ==
  ASSUME NEW n \in Int
  PROVE  Abs(n) \in Nat
  BY DEF Abs

LEMMA UlpIs ==
  ASSUME NEW n \in Int, NEW k \in 0..(Width + 1), Exponent(Abs(n), k)
  PROVE  Ulp(n) = TwoTo[k]
  <1> DEFINE e == CHOOSE j \in 0..(Width + 1) :
                    /\ Abs(n) < TwoTo[Precision + j]
                    /\ j = 0 \/ Abs(n) >= TwoTo[Precision + j - 1]
  <1>1. e \in 0..(Width + 1) /\ Exponent(Abs(n), e)
    BY DEF Exponent
  <1>2. Ulp(n) = TwoTo[e]
    BY DEF Ulp
  <1> HIDE DEF e
  <1>3. e = k
    BY <1>1, AbsIsNat, ExponentGrows, NumberAssumption
  <1> QED
    BY <1>2, <1>3

LEMMA RoundIs ==
  ASSUME NEW n \in Int, InRange(n)
  PROVE  \E k \in 0..(Width + 1) :
           /\ Exponent(Abs(n), k)
           /\ Round(n) = IF n < 0 THEN -Nearest(Abs(n), TwoTo[k]) ELSE Nearest(Abs(n), TwoTo[k])
  <1>1. Width + 1 \in Nat /\ Precision + (Width + 1) = Precision + Width + 1
    BY NumberAssumption
  <1>2. PICK k \in 0..(Width + 1) : Exponent(Abs(n), k)
    BY <1>1, AbsIsNat, ExponentExists DEF InRange
  <1>3. Ulp(n) = TwoTo[k]
    BY <1>2, UlpIs
  <1> QED
    BY <1>2, <1>3 DEF Round, Abs

LEMMA PowerNat ==
  ASSUME NEW k \in Nat
  PROVE  /\ Precision + k \in Nat /\ Precision - 1 \in Nat
         /\ TwoTo[k] \in Nat \ {0} /\ TwoTo[Precision] \in Nat /\ TwoTo[Precision - 1] \in Nat
         /\ TwoTo[Precision + k] = TwoTo[Precision] * TwoTo[k]
         /\ k # 0 => TwoTo[Precision + k - 1] = TwoTo[Precision - 1] * TwoTo[k]
  <1>1. Precision \in Nat /\ Precision - 1 \in Nat /\ Precision + k \in Nat
        /\ (Precision - 1) + k = Precision + k - 1
    BY NumberAssumption
  <1> QED
    BY <1>1, PowersOfTwo, PowersAdd

LEMMA NearestStays ==
  ASSUME NEW a \in Nat, NEW k \in Nat, Exponent(a, k)
  PROVE  /\ Nearest(a, TwoTo[k]) \in Nat
         /\ Nearest(a, TwoTo[k]) <= TwoTo[Precision + k]
         /\ k # 0 => TwoTo[Precision + k - 1] <= Nearest(a, TwoTo[k])
  <1> DEFINE u == TwoTo[k]
             P == TwoTo[Precision]
             Q == TwoTo[Precision - 1]
  <1>1. /\ u \in Nat \ {0} /\ P \in Nat /\ Q \in Nat
        /\ TwoTo[Precision + k] = P * u /\ (k # 0 => TwoTo[Precision + k - 1] = Q * u)
    BY PowerNat
  <1>2. a <= P * u /\ (k # 0 => Q * u <= a)
    <2>1. P * u \in Nat
      BY <1>1, Scales
    <2> QED
      BY <1>1, <2>1 DEF Exponent
  <1> HIDE DEF u, P, Q
  <1>3. Nearest(a, u) \in Nat /\ Nearest(a, u) <= P * u
    BY <1>1, <1>2, NearestBetween
  <1>4. k # 0 => Q * u <= Nearest(a, u)
    BY <1>1, <1>2, NearestBetween
  <1> QED
    BY <1>1, <1>3, <1>4 DEF u

LEMMA NearestInOrder ==
  ASSUME NEW a \in Nat, NEW b \in Nat, a <= b, NEW j \in Nat, NEW k \in Nat,
         Exponent(a, j), Exponent(b, k)
  PROVE  Nearest(a, TwoTo[j]) <= Nearest(b, TwoTo[k])
  <1>1. j <= k
    BY ExponentGrows
  <1>2. CASE j = k
    BY <1>2, NearestGrows, PowerNat
  <1>3. CASE j < k
    <2>1. Nearest(a, TwoTo[j]) <= TwoTo[Precision + j]
      BY NearestStays
    <2>2. TwoTo[Precision + k - 1] <= Nearest(b, TwoTo[k])
      <3>1. k # 0
        BY <1>3
      <3> QED
        BY <3>1, NearestStays
    <2>3. Precision + j \in Nat /\ Precision + k - 1 \in Nat /\ Precision + j <= Precision + k - 1
      BY <1>3, NumberAssumption
    <2>4. TwoTo[Precision + j] <= TwoTo[Precision + k - 1]
      BY <2>3, PowersGrow
    <2>5. /\ TwoTo[Precision + j] \in Nat /\ TwoTo[Precision + k - 1] \in Nat
          /\ Nearest(a, TwoTo[j]) \in Nat /\ Nearest(b, TwoTo[k]) \in Nat
      BY <2>3, PowersOfTwo, NearestStays
    <2> QED
      BY <2>1, <2>2, <2>4, <2>5
  <1> QED
    BY <1>1, <1>2, <1>3

LEMMA RoundGrows ==
  ASSUME NEW m \in Int, NEW n \in Int, m <= n, InRange(m), InRange(n)
  PROVE  Round(m) \in Int /\ Round(n) \in Int /\ Round(m) <= Round(n)
  <1>1. PICK j \in 0..(Width + 1) :
          /\ Exponent(Abs(m), j)
          /\ Round(m) = IF m < 0 THEN -Nearest(Abs(m), TwoTo[j]) ELSE Nearest(Abs(m), TwoTo[j])
    BY RoundIs
  <1>2. PICK k \in 0..(Width + 1) :
          /\ Exponent(Abs(n), k)
          /\ Round(n) = IF n < 0 THEN -Nearest(Abs(n), TwoTo[k]) ELSE Nearest(Abs(n), TwoTo[k])
    BY RoundIs
  <1>3. /\ j \in Nat /\ k \in Nat /\ Abs(m) \in Nat /\ Abs(n) \in Nat
    BY AbsIsNat, NumberAssumption
  <1>4. Nearest(Abs(m), TwoTo[j]) \in Nat /\ Nearest(Abs(n), TwoTo[k]) \in Nat
    BY <1>3, PowerNat, NearestBetween
  <1>5. CASE 0 <= m
    <2>1. Abs(m) <= Abs(n)
      BY <1>5 DEF Abs
    <2>2. Nearest(Abs(m), TwoTo[j]) <= Nearest(Abs(n), TwoTo[k])
      BY <1>1, <1>2, <1>3, <2>1, NearestInOrder
    <2>3. /\ ~(m < 0) /\ ~(n < 0)
          /\ Round(m) = Nearest(Abs(m), TwoTo[j]) /\ Round(n) = Nearest(Abs(n), TwoTo[k])
      BY <1>1, <1>2, <1>5
    <2> QED
      BY <1>4, <2>2, <2>3
  <1>6. CASE n < 0
    <2>1. Abs(n) <= Abs(m)
      BY <1>6 DEF Abs
    <2>2. Nearest(Abs(n), TwoTo[k]) <= Nearest(Abs(m), TwoTo[j])
      BY <1>1, <1>2, <1>3, <2>1, NearestInOrder
    <2> QED
      BY <1>1, <1>2, <1>4, <1>6, <2>2
  <1>7. CASE m < 0 /\ 0 <= n
    BY <1>1, <1>2, <1>4, <1>7
  <1> QED
    BY <1>5, <1>6, <1>7

\* A float is its own float64.
LEMMA NearestIsFloat ==
  ASSUME NEW a \in Nat, a < TwoTo[Precision + Width], NEW k \in 0..(Width + 1), Exponent(a, k)
  PROVE  /\ Nearest(a, TwoTo[k]) \in Nat
         /\ Nearest(a, TwoTo[k]) < TwoTo[Precision + Width + 1]
         /\ \E j \in 0..(Width + 1) :
              /\ Exponent(Nearest(a, TwoTo[k]), j)
              /\ Nearest(Nearest(a, TwoTo[k]), TwoTo[j]) = Nearest(a, TwoTo[k])
  <1> DEFINE u == TwoTo[k]
             r == Nearest(a, u)
             P == TwoTo[Precision]
  <1>1. k \in Nat /\ Width \in Nat
    BY NumberAssumption
  <1>2. u \in Nat \ {0} /\ P \in Nat /\ r \in Nat /\ TwoTo[Precision - 1] \in Nat
        /\ TwoTo[Precision + k] = P * u
    BY <1>1, PowerNat, NearestBetween
  <1>3. k <= Width
    <2>1. PICK j \in 0..Width : Exponent(a, j)
      BY <1>1, ExponentExists
    <2> QED
      BY <1>1, <2>1, ExponentGrows
  <1>4. r <= TwoTo[Precision + k] /\ (k # 0 => TwoTo[Precision + k - 1] <= r)
    BY <1>1, NearestStays
  <1>5. r < TwoTo[Precision + Width + 1]
    <2>1. Precision + k \in Nat /\ Precision + Width + 1 \in Nat
          /\ Precision + k < Precision + Width + 1
      BY <1>1, <1>3, NumberAssumption
    <2>2. 2 * TwoTo[Precision + k] <= TwoTo[Precision + Width + 1]
          /\ TwoTo[Precision + k] \in Nat \ {0} /\ TwoTo[Precision + Width + 1] \in Nat
      BY <2>1, PowersGrow, PowersOfTwo
    <2> QED
      BY <1>2, <1>4, <2>2
  <1>6. CASE r < TwoTo[Precision + k]
    <2>1. Exponent(r, k)
      <3>1. CASE k = 0
        BY <1>6, <3>1 DEF Exponent
      <3>2. CASE k # 0
        <4>1. TwoTo[Precision + k - 1] \in Nat
          BY <1>1, <3>2, NumberAssumption, PowersOfTwo
        <4> QED
          BY <1>2, <1>4, <1>6, <3>2, <4>1 DEF Exponent
      <3> QED
        BY <3>1, <3>2
    <2>2. PICK c \in Nat : r = c * u
      <3> DEFINE q == a \div u
      <3>1. q \in Nat /\ (r = q * u \/ r = q * u + u)
        BY <1>2, NearestForm
      <3>2. (q + 1) * u = q * u + u
        BY <1>2, <3>1, Scales
      <3> HIDE DEF q, r
      <3>3. q \in Nat /\ q + 1 \in Nat /\ (r = q * u \/ r = (q + 1) * u)
        BY <3>1, <3>2
      <3> QED
        BY <3>3
    <2>3. Nearest(r, u) = r
      <3>1. c * u \in Nat /\ c * u <= c * u
        BY <1>2, Scales
      <3>2. Nearest(c * u, u) \in Nat /\ c * u <= Nearest(c * u, u) /\ Nearest(c * u, u) <= c * u
        BY <1>2, <3>1, NearestBetween
      <3>3. Nearest(c * u, u) = c * u
        BY <3>1, <3>2
      <3> HIDE DEF r
      <3> QED
        BY <2>2, <3>3
    <2> QED
      BY <1>2, <1>5, <2>1, <2>3
  <1>7. CASE r = TwoTo[Precision + k]
    <2> DEFINE v == TwoTo[k + 1]
               Q == TwoTo[Precision - 1]
    <2>1. k + 1 \in 1..(Width + 1) /\ k + 1 \in Nat /\ k + 1 # 0
          /\ Precision + (k + 1) - 1 = Precision + k
          /\ Precision + (k + 1) = (Precision + k) + 1
      BY <1>1, <1>3, NumberAssumption
    <2>2. v \in Nat \ {0} /\ TwoTo[Precision + k] = Q * v
      BY <2>1, PowerNat
    <2>3. Exponent(r, k + 1)
      <3>1. Precision + k \in Nat /\ TwoTo[Precision + k] \in Nat \ {0}
            /\ TwoTo[(Precision + k) + 1] = 2 * TwoTo[Precision + k]
        BY <1>1, PowerNat, PowersOfTwo
      <3> HIDE DEF r
      <3> QED
        BY <1>7, <2>1, <3>1 DEF Exponent
    <2>4. Nearest(r, v) = r
      <3>1. Q * v \in Nat /\ Q * v <= Q * v
        BY <1>2, <2>2, Scales
      <3>2. Nearest(Q * v, v) \in Nat /\ Q * v <= Nearest(Q * v, v) /\ Nearest(Q * v, v) <= Q * v
        BY <1>2, <2>2, <3>1, NearestBetween
      <3>3. Nearest(Q * v, v) = Q * v
        BY <3>1, <3>2
      <3> HIDE DEF r, v, Q
      <3> QED
        BY <1>7, <2>2, <3>3
    <2> QED
      BY <1>2, <1>5, <2>1, <2>3, <2>4
  <1>8. TwoTo[Precision + k] \in Nat
    BY <1>1, PowerNat, PowersOfTwo
  <1> QED
    BY <1>2, <1>4, <1>6, <1>7, <1>8

LEMMA RoundIsFloat ==
  ASSUME NEW n \in Int, Abs(n) < TwoTo[Precision + Width]
  PROVE  /\ InRange(n) /\ Round(n) \in Int /\ InRange(Round(n))
         /\ Round(Round(n)) = Round(n)
  <1>1. InRange(n)
    <2>1. Precision + Width \in Nat /\ Precision + Width + 1 \in Nat /\ Abs(n) \in Nat
      BY NumberAssumption, AbsIsNat
    <2>2. TwoTo[Precision + Width] <= TwoTo[Precision + Width + 1]
          /\ TwoTo[Precision + Width] \in Nat /\ TwoTo[Precision + Width + 1] \in Nat
      BY <2>1, PowersGrow, PowersOfTwo
    <2> QED
      BY <2>1, <2>2 DEF InRange
  <1>2. PICK k \in 0..(Width + 1) :
          /\ Exponent(Abs(n), k)
          /\ Round(n) = IF n < 0 THEN -Nearest(Abs(n), TwoTo[k]) ELSE Nearest(Abs(n), TwoTo[k])
    BY <1>1, RoundIs
  <1> DEFINE r == Nearest(Abs(n), TwoTo[k])
  <1>3. PICK j \in 0..(Width + 1) :
          r \in Nat /\ r < TwoTo[Precision + Width + 1] /\ Exponent(r, j) /\ Nearest(r, TwoTo[j]) = r
    BY <1>2, AbsIsNat, NearestIsFloat
  <1>4. /\ Round(n) \in Int /\ Abs(Round(n)) = r
        /\ Round(n) = IF n < 0 THEN -r ELSE r
    <2> HIDE DEF r
    <2>1. Round(n) = IF n < 0 THEN -r ELSE r
      BY <1>2 DEF r
    <2> QED
      BY <1>3, <2>1 DEF Abs
  <1> HIDE DEF r
  <1>5. InRange(Round(n))
    BY <1>3, <1>4 DEF InRange
  <1>6. Ulp(Round(n)) = TwoTo[j]
    BY <1>3, <1>4, UlpIs
  <1>7. Round(Round(n)) = IF Round(n) < 0 THEN -r ELSE r
    <2>1. -Round(n) = r \/ Round(n) >= 0
      BY <1>3, <1>4
    <2> QED
      BY <1>3, <1>4, <1>6, <2>1 DEF Round
  <1> QED
    BY <1>1, <1>3, <1>4, <1>5, <1>7
-----------------------------------------------------------------------------
(***************************************************************************)
(* The wait: doubling up to the limit.                                     *)
(***************************************************************************)
LEMMA LimitIs ==
  /\ MaxBackoffDelay \in Nat \ {0} /\ MaxBackoffShift \in Nat /\ MaxBackoffDelay % 2 = 0
  /\ MaxBackoffDelay < TwoTo[DurationWidth - 1]
  /\ TwoTo[DurationWidth - 1] \in Nat /\ TwoTo[DurationWidth] = 2 * TwoTo[DurationWidth - 1]
  <1>1. DurationWidth - 1 \in Nat /\ (DurationWidth - 1) + 1 = DurationWidth
    BY NodeAssumption
  <1> QED
    BY <1>1, NodeAssumption, PowersOfTwo

LEMMA DoubledIs ==
  ASSUME NEW b \in Nat, NEW t \in Nat, Min(b, MaxBackoffDelay) = Min(t, MaxBackoffDelay)
  PROVE  Doubled(b) \in Nat /\ Min(Doubled(b), MaxBackoffDelay) = Min(2 * t, MaxBackoffDelay)
  <1> DEFINE M == MaxBackoffDelay
             T == TwoTo[DurationWidth - 1]
  <1>1. M \in Nat \ {0} /\ M % 2 = 0 /\ M < T /\ T \in Nat /\ TwoTo[DurationWidth] = 2 * T
    BY LimitIs
  <1> HIDE DEF M, T
  <1>2. b >= M \div 2 <=> 2 * b >= M
    BY <1>1
  <1>3. CASE 2 * b >= M
    <2>1. Doubled(b) = M
      BY <1>2, <1>3 DEF Doubled, M
    <2>2. 2 * t >= M
      BY <1>1, <1>3 DEF Min, M
    <2> QED
      BY <1>1, <2>1, <2>2 DEF Min, M
  <1>4. CASE 2 * b < M
    <2>1. b = t
      BY <1>1, <1>4 DEF Min, M
    <2>2. (2 * b) % (2 * T) = 2 * b
      BY <1>1, <1>4
    <2>3. Wrap(2 * b) = 2 * b
      BY <1>1, <1>4, <2>2 DEF Wrap, T
    <2>4. ~(b >= MaxBackoffDelay \div 2)
      BY <1>1, <1>2, <1>4 DEF M
    <2>5. Doubled(b) = 2 * b
      BY <2>3, <2>4 DEF Doubled
    <2> QED
      BY <2>1, <2>5
  <1> QED
    BY <1>1, <1>3, <1>4

LEMMA BaseIs ==
  ASSUME NEW p, p.delay \in Nat, NEW n \in Nat \ {0}
  PROVE  LET turns == IF p.backoff = "exponential" THEN Min(n - 1, MaxBackoffShift) ELSE 0
         IN  Base(p, n) = Min(p.delay * TwoTo[turns], MaxBackoffDelay)
  <1> DEFINE turns == IF p.backoff = "exponential" THEN Min(n - 1, MaxBackoffShift) ELSE 0
             Turns(b) == b = [i \in 0..turns |-> IF i = 0 THEN p.delay ELSE Doubled(b[i - 1])]
             base == CHOOSE b : Turns(b)
  <1>1. turns \in Nat
    BY LimitIs DEF Min
  <1>2. Base(p, n) = Min(base[turns], MaxBackoffDelay)
    BY DEF Base
  <1> HIDE DEF turns
  <1>3. \E b : Turns(b)
    <2> DEFINE step == [v \in Nat |-> Doubled(v)]
    <2>1. step \in [Nat -> Nat]
      BY DoubledIs
    <2>2. PICK f \in [Nat -> Nat] : f[0] = p.delay /\ \A i \in Nat : f[i + 1] = step[f[i]]
      <3>1. PICK S, d, g : S = Nat /\ d = p.delay /\ g = step
        OBVIOUS
      <3>2. d \in S /\ g \in [S -> S]
        BY <2>1, <3>1
      <3>3. \E f \in [Nat -> S] : f[0] = d /\ \A i \in Nat : f[i + 1] = g[f[i]]
        BY <3>2, Iterates
      <3> QED
        BY <3>1, <3>3
    <2>3. ASSUME NEW i \in 0..turns
          PROVE  f[i] = IF i = 0 THEN p.delay ELSE Doubled(f[i - 1])
      <3>1. CASE i # 0
        <4>1. i - 1 \in Nat /\ (i - 1) + 1 = i
          BY <1>1, <3>1
        <4>2. f[(i - 1) + 1] = step[f[i - 1]] /\ f[i - 1] \in Nat
          BY <2>2, <4>1
        <4> QED
          BY <3>1, <4>1, <4>2
      <3> QED
        BY <2>2, <3>1
    <2> DEFINE b == [i \in 0..turns |-> f[i]]
    <2>4. Turns(b)
      <3>1. ASSUME NEW i \in 0..turns, i # 0
            PROVE  b[i - 1] = f[i - 1]
        BY <1>1, <3>1
      <3> QED
        BY <2>3, <3>1
    <2> QED
      BY <2>4
  <1>4. Turns(base)
    <2> HIDE DEF Turns
    <2> QED
      BY <1>3
  <1> HIDE DEF base
  <1> DEFINE A == {i \in Nat : i <= turns =>
                     /\ base[i] \in Nat
                     /\ Min(base[i], MaxBackoffDelay)
                          = Min(p.delay * TwoTo[i], MaxBackoffDelay)}
  <1>5. 0 \in A
    <2>1. base[0] = p.delay
      <3>1. 0 \in 0..turns
        BY <1>1
      <3> QED
        BY <1>4, <3>1
    <2>2. p.delay * TwoTo[0] = p.delay
      BY PowersOfTwo
    <2> QED
      BY <2>1, <2>2
  <1>6. ASSUME NEW i \in Nat, i \in A
        PROVE  i + 1 \in A
    <2> SUFFICES ASSUME i + 1 <= turns
                 PROVE  /\ base[i + 1] \in Nat
                        /\ Min(base[i + 1], MaxBackoffDelay)
                             = Min(p.delay * TwoTo[i + 1], MaxBackoffDelay)
      OBVIOUS
    <2>1. base[i] \in Nat /\ Min(base[i], MaxBackoffDelay)
                               = Min(p.delay * TwoTo[i], MaxBackoffDelay)
      BY <1>1, <1>6
    <2>2. base[i + 1] = Doubled(base[i])
      <3>1. i + 1 \in 0..turns /\ i + 1 # 0 /\ (i + 1) - 1 = i
        BY <1>1
      <3> QED
        BY <1>4, <3>1
    <2>3. TwoTo[i] \in Nat /\ TwoTo[i + 1] = 2 * TwoTo[i]
      BY PowersOfTwo
    <2>4. p.delay * TwoTo[i] \in Nat /\ p.delay * TwoTo[i + 1] = 2 * (p.delay * TwoTo[i])
      BY <2>3
    <2> HIDE DEF A
    <2> QED
      BY <2>1, <2>2, <2>4, DoubledIs
  <1>7. turns \in A
    <2>1. Nat \subseteq A
      <3> HIDE DEF A
      <3> QED
        BY <1>5, <1>6, Induction
    <2> QED
      BY <1>1, <2>1
  <1> QED
    BY <1>1, <1>2, <1>7 DEF turns

\* A fifth either way, computed on whole numbers.
LEMMA JitterIs ==
  ASSUME NEW b \in Nat, NEW w \in {b - b \div 5, b, b + b \div 5}
  PROVE  5 * w \in (4 * b)..(6 * b + 4)
  <1>1. b \div 5 \in Nat /\ 5 * (b \div 5) <= b /\ b <= 5 * (b \div 5) + 4
    OBVIOUS
  <1> QED
    BY <1>1

BackoffInv == PortInv /\ attempt \in Nat \ {0} /\ BackoffBounded

LEMMA BackoffInit == Init => BackoffInv
  BY PortInit DEF Init, BackoffInv, BackoffBounded

LEMMA BackoffStep == BackoffInv /\ [Next]_vars => BackoffInv'
  <1> SUFFICES ASSUME BackoffInv, [Next]_vars PROVE BackoffInv'
    OBVIOUS
  <1>1. PortInv /\ PortInv' /\ attempt \in Nat \ {0} /\ node \in Node
    BY PortStep, NodeAssumption DEF BackoffInv, PortInv
  <1>2. CASE Retry
    <2> DEFINE p == node.policy
               turns == IF p.backoff = "exponential" THEN Min(attempt - 1, MaxBackoffShift) ELSE 0
               base == Min(p.delay * TwoTo[turns], MaxBackoffDelay)
    <2>1. p.delay \in Nat
      BY <1>1 DEF Node, Policy
    <2>2. Base(p, attempt) = base
      BY <1>1, <2>1, BaseIs
    <2>3. base \in Nat
      <3>1. turns \in Nat
        BY <1>1, LimitIs DEF Min
      <3>2. p.delay * TwoTo[turns] \in Nat
        BY <2>1, <3>1, PowersOfTwo
      <3> QED
        BY <3>2, LimitIs DEF Min
    <2>4. wait' \in {base - base \div 5, base, base + base \div 5}
      BY <1>2, <2>2 DEF Retry, ComputeBackoff
    <2>5. 5 * wait' \in (4 * base)..(6 * base + 4)
      <3> HIDE DEF base
      <3> QED
        BY <2>3, <2>4, JitterIs
    <2>6. UNCHANGED <<node, attempt>>
      BY <1>2 DEF Retry
    <2> QED
      BY <1>1, <2>5, <2>6 DEF BackoffInv, BackoffBounded
  <1>3. CASE pc' # "waiting" /\ attempt' \in {attempt, attempt + 1}
    BY <1>1, <1>3 DEF BackoffInv, BackoffBounded
  <1>4. CASE UNCHANGED vars
    BY <1>1, <1>4 DEF vars, BackoffInv, BackoffBounded
  <1>5. Next => Retry \/ (pc' # "waiting" /\ attempt' \in {attempt, attempt + 1})
    BY DEF Next, ResolveFails, BuildFails, PassThrough, SetVariable, Complete, HTTPRequest, If, SwitchCase,
           SwitchDefault, Wake, GiveUp, Fire, Fail, Executes
  <1> QED
    BY <1>2, <1>3, <1>4, <1>5

(***************************************************************************)
(* The wait before a retry is the delay of the policy, doubled with each   *)
(* attempt up to the limits if exponential, give or take a fifth           *)
(* (BackoffBounded; retry.go:75), for every delay and number of attempts.  *)
(* The limit has to be even, as 30 seconds are: of an odd one half is      *)
(* rounded down, and what has reached it is taken for the limit.           *)
(***************************************************************************)
THEOREM WaitsAreBounded == Spec => []BackoffBounded
  <1>1. BackoffInv => BackoffBounded
    BY DEF BackoffInv
  <1> QED
    BY <1>1, BackoffInit, BackoffStep, PTL DEF Spec
-----------------------------------------------------------------------------
(***************************************************************************)
(* Comparisons.                                                            *)
(***************************************************************************)
LEMMA WidthIs ==
  /\ TwoTo[Width - 1] \in Nat \ {0} /\ TwoTo[Width] = 2 * TwoTo[Width - 1]
  /\ TwoTo[Width] <= TwoTo[Precision + Width] /\ TwoTo[Precision + Width] \in Nat
  /\ Width - 1 \in Nat /\ Width + Precision \in Nat
  <1>1. Width - 1 \in Nat /\ (Width - 1) + 1 = Width /\ Width \in Nat
        /\ Precision + Width \in Nat /\ Width <= Precision + Width
        /\ Width + Precision \in Nat
    BY NumberAssumption
  <1> QED
    BY <1>1, PowersOfTwo, PowersGrow

LEMMA EqualIs ==
  ASSUME NEW a \in Int, NEW b \in Int,
         IsInt64(a) \/ IsUint64(a), IsInt64(b) \/ IsUint64(b)
  PROVE  Equal(a, b) <=> a = b
  <1> DEFINE H == TwoTo[Width - 1]
  <1>1. H \in Nat \ {0} /\ TwoTo[Width] = 2 * H
    BY WidthIs
  <1>2. /\ IsInt64(a) <=> -H <= a /\ a <= H - 1
        /\ IsInt64(b) <=> -H <= b /\ b <= H - 1
        /\ IsUint64(a) <=> 0 <= a /\ a <= 2 * H - 1
        /\ IsUint64(b) <=> 0 <= b /\ b <= 2 * H - 1
    BY <1>1 DEF IsInt64, IsUint64
  <1> HIDE DEF H
  <1>3. CASE IsInt64(a) = IsInt64(b)
    BY <1>3 DEF Equal
  <1>4. CASE IsInt64(a) /\ ~IsInt64(b)
    <2>1. a >= 0 => a % (2 * H) = a
      BY <1>1, <1>2, <1>4
    <2>2. a # b
      BY <1>4
    <2> QED
      BY <1>1, <1>4, <2>1, <2>2 DEF Equal
  <1>5. CASE ~IsInt64(a) /\ IsInt64(b)
    <2>1. b >= 0 => b % (2 * H) = b
      BY <1>1, <1>2, <1>5
    <2>2. a # b
      BY <1>5
    <2> QED
      BY <1>1, <1>5, <2>1, <2>2 DEF Equal
  <1> QED
    BY <1>3, <1>4, <1>5 DEF IsInt64

LEMMA Int64InRange ==
  ASSUME NEW n \in Int, IsInt64(n)
  PROVE  Abs(n) < TwoTo[Precision + Width]
  BY WidthIs DEF IsInt64, Abs

\* A number as an operand.
Operand(v) ==
  /\ v.n \in Int /\ v.type \in Types
  /\ v.type \in {"int", "float", "digits"} => InRange(v.n)
  /\ IsExact(v) => IsInt64(v.n) \/ IsUint64(v.n)

LEMMA ValueIsOperand ==
  ASSUME NEW v \in Value
  PROVE  Operand(v) /\ Operand(Decoded(v))
  <1>1. /\ v.n \in Int /\ v.type \in Types
        /\ v.type = "int" => IsInt64(v.n)
        /\ v.type \in {"int", "float", "digits"} => Abs(v.n) < TwoTo[Precision + Width]
    BY Int64InRange DEF Value
  <1>2. v.type \in {"int", "float", "digits"} =>
          InRange(v.n) /\ Round(v.n) \in Int /\ InRange(Round(v.n))
    BY <1>1, RoundIsFloat
  <1>3. Operand(v)
    <2>1. IsExact(v) => IsInt64(v.n) \/ IsUint64(v.n)
      BY <1>1 DEF IsExact
    <2> QED
      BY <1>1, <1>2, <2>1 DEF Operand
  <1>4. CASE v.type = "int"
    BY <1>2, <1>3, <1>4 DEF Operand, Decoded, IsExact, Types
  <1>5. CASE v.type = "ints"
    BY <1>1, <1>3, <1>5 DEF Operand, Decoded, IsExact, Types, Lists
  <1>6. CASE v.type \notin {"int", "ints"}
    BY <1>3, <1>6 DEF Decoded
  <1> QED
    BY <1>3, <1>4, <1>5, <1>6

\* A template becomes a value or is not found, and a list remains one.
LEMMA ExpandedIs ==
  ASSUME NEW v \in Value, Expanded(v) # NotFound
  PROVE  /\ Expanded(v) \in Value
         /\ v.type \notin {"template", "templates"} => Expanded(v) = v
         /\ v.type = "templates" => Expanded(v).type \in Lists
  <1>1. v.type \in {"template", "templates"} => v \in DOMAIN Expansions
    BY DEF Value
  <1> QED
    BY <1>1, ExpansionAssumption DEF Expanded

\* What an operand is after its way from the DSL.
LEMMA OperandIs ==
  ASSUME NEW s \in Source, Resolved(s) # NotFound
  PROVE  Operand(Resolved(s))
  <1>1. CASE s.kind = "literal"
    <2>1. s.value \in Value /\ Resolved(s) = s.value
      BY <1>1 DEF Source, Resolved
    <2> QED
      BY <2>1, ValueIsOperand
  <1>2. CASE s.kind = "ref"
    <2>1. Resolved(s) = Decoded(s.value) /\ s.value \in Value \cup {NotFound}
      BY <1>2 DEF Source, Resolved
    <2>2. Decoded(NotFound) = NotFound
      BY DEF Decoded, NotFound
    <2> QED
      BY <2>1, <2>2, ValueIsOperand
  <1>3. CASE s.kind = "template"
    <2>1. Resolved(s) = Expanded(s.value) /\ s.value \in Value
      BY <1>3 DEF Source, Resolved
    <2> QED
      BY <2>1, ExpandedIs, ValueIsOperand
  <1> QED
    BY <1>1, <1>2, <1>3 DEF Source

Orders == {"lt", "gt", "lte", "gte"}

LEMMA EqualsNumbers ==
  ASSUME NEW l, NEW r, Operand(l), Operand(r), Coercible(l), Coercible(r)
  PROVE  IF Comparable(l, r)
         THEN CompareEqual(l, r) <=>
                \/ l.n = r.n
                \/ Round(l.n) = Round(r.n) /\ ~(IsExact(l) /\ IsExact(r))
         ELSE ~CompareEqual(l, r)
  <1>1. CASE IsExact(l) /\ IsExact(r)
    <2>1. CompareEqual(l, r) <=> l.n = r.n
      BY <1>1, EqualIs DEF CompareEqual, Operand
    <2>2. Comparable(l, r)
      BY <1>1 DEF IsExact, Comparable
    <2> QED
      BY <1>1, <2>1, <2>2
  <1>2. CASE ~(IsExact(l) /\ IsExact(r))
    BY <1>2 DEF CompareEqual
  <1> QED
    BY <1>1, <1>2

LEMMA OrdersNumbers ==
  ASSUME NEW l, NEW r, Operand(l), Operand(r), Coercible(l), Coercible(r),
         Comparable(l, r), NEW op \in Orders
  PROVE  \/ Ordered(op, l, r) <=> Truth(op, l.n, r.n)
         \/ l.n # r.n /\ Round(l.n) = Round(r.n)
  <1> DEFINE a == l.n
             b == r.n
             x == Round(l.n)
             y == Round(r.n)
  <1>1. a \in Int /\ b \in Int /\ InRange(a) /\ InRange(b)
    BY DEF Operand, Coercible, Comparable
  <1>2. /\ x \in Int /\ y \in Int
        /\ a <= b => x <= y
        /\ b <= a => y <= x
    BY <1>1, RoundGrows
  <1>3. \/ a # b /\ x = y
        \/ a < b /\ x < y
        \/ a > b /\ x > y
        \/ a = b /\ x = y
    BY <1>1, <1>2
  <1>4. \/ a # b /\ x = y
        \/ /\ x < y <=> a < b
           /\ x > y <=> a > b
           /\ x <= y <=> a <= b
           /\ x >= y <=> a >= b
    BY <1>1, <1>2, <1>3
  <1>5. CASE op = "lt"
    <2>1. Ordered(op, l, r) <=> x < y
      BY <1>5 DEF Ordered
    <2>2. Truth(op, l.n, r.n) <=> a < b
      BY <1>5 DEF Truth
    <2> HIDE DEF a, b, x, y
    <2>3. (x < y <=> a < b) \/ (a # b /\ x = y)
      BY <1>4
    <2>4. CASE (x < y <=> a < b)
      BY <2>1, <2>2, <2>4
    <2>5. CASE a # b /\ x = y
      BY <2>5 DEF a, b, x, y
    <2> QED
      BY <2>3, <2>4, <2>5
  <1>6. CASE op = "gt"
    <2>1. Ordered(op, l, r) <=> x > y
      BY <1>6 DEF Ordered
    <2>2. Truth(op, l.n, r.n) <=> a > b
      BY <1>6 DEF Truth
    <2> HIDE DEF a, b, x, y
    <2>3. (x > y <=> a > b) \/ (a # b /\ x = y)
      BY <1>4
    <2>4. CASE (x > y <=> a > b)
      BY <2>1, <2>2, <2>4
    <2>5. CASE a # b /\ x = y
      BY <2>5 DEF a, b, x, y
    <2> QED
      BY <2>3, <2>4, <2>5
  <1>7. CASE op = "lte"
    <2>1. Ordered(op, l, r) <=> x <= y
      BY <1>7 DEF Ordered
    <2>2. Truth(op, l.n, r.n) <=> a <= b
      BY <1>7 DEF Truth
    <2> HIDE DEF a, b, x, y
    <2>3. (x <= y <=> a <= b) \/ (a # b /\ x = y)
      BY <1>4
    <2>4. CASE (x <= y <=> a <= b)
      BY <2>1, <2>2, <2>4
    <2>5. CASE a # b /\ x = y
      BY <2>5 DEF a, b, x, y
    <2> QED
      BY <2>3, <2>4, <2>5
  <1>8. CASE op = "gte"
    <2>1. Ordered(op, l, r) <=> x >= y
      BY <1>8 DEF Ordered
    <2>2. Truth(op, l.n, r.n) <=> a >= b
      BY <1>8 DEF Truth
    <2> HIDE DEF a, b, x, y
    <2>3. (x >= y <=> a >= b) \/ (a # b /\ x = y)
      BY <1>4
    <2>4. CASE (x >= y <=> a >= b)
      BY <2>1, <2>2, <2>4
    <2>5. CASE a # b /\ x = y
      BY <2>5 DEF a, b, x, y
    <2> QED
      BY <2>3, <2>4, <2>5
  <1> QED
    BY <1>5, <1>6, <1>7, <1>8 DEF Orders

(***************************************************************************)
(* An if on two numbers answers the truth but for numbers that are the     *)
(* same float64 (ComparesNumbers; if.go:83, numeric.go:53), for every      *)
(* width of the integers and of the significand: rounding keeps the order  *)
(* of numbers, and signed and unsigned integers are compared as numbers.   *)
(***************************************************************************)
THEOREM NumbersAreCompared == Spec => ComparesNumbers
  <1> DEFINE c == node.cases[1]
             l == Resolved(node.value)
             r == Resolved(c.right)
             op == c.op
  <1>1. ASSUME PortInv, [Next]_vars, DecidesOnNumbers(op, l, r)
        PROVE  IF Comparable(l, r)
               THEN fired' = Verdict(Truth(op, l.n, r.n)) \/ SameFloat(op, l, r)
               ELSE fired' = Verdict(op = "ne")
    <2>1. node \in Node /\ node \in Inputs /\ node.type = "if" /\ pc = "execute" /\ pc' = "done"
      BY <1>1, NodeAssumption DEF PortInv, DecidesOnNumbers
    <2>2. Operand(l) /\ Operand(r) /\ Coercible(l) /\ Coercible(r)
      <3>1. Len(node.cases) = 1 /\ node.cases \in Seq(Case) /\ node.value \in Source
        BY <2>1, NodeAssumption DEF Node
      <3>2. c \in Case
        BY <3>1
      <3>3. node.value \in Source /\ c.right \in Source
        BY <3>1, <3>2 DEF Case
      <3>4. l # NotFound /\ r # NotFound
        BY <1>1 DEF DecidesOnNumbers, Coercible, NotFound
      <3> QED
        BY <1>1, <3>3, <3>4, OperandIs DEF DecidesOnNumbers
    <2>3. op \in {"eq", "ne"} \cup Orders
      BY <1>1 DEF DecidesOnNumbers, Orders
    <2>4. fired' = EvalCondition(op, l, r)
      BY <1>1, <2>1 DEF Next, ResolveFails, BuildFails, PassThrough, SetVariable, Complete,
                        HTTPRequest, If, SwitchCase, SwitchDefault, Retry, Wake, GiveUp, Executes, Fail, Fire,
                        vars, IfVerdict
    <2> HIDE DEF l, r, op
    <2>5. CASE op = "eq"
      <3>1. fired' = Verdict(CompareEqual(l, r))
        BY <2>4, <2>5 DEF EvalCondition
      <3>2. Truth(op, l.n, r.n) <=> l.n = r.n
        BY <2>5 DEF Truth
      <3> QED
        BY <2>2, <2>5, <3>1, <3>2, EqualsNumbers DEF Verdict, SameFloat
    <2>6. CASE op = "ne"
      <3>1. fired' = Verdict(~CompareEqual(l, r))
        BY <2>4, <2>6 DEF EvalCondition
      <3>2. Truth(op, l.n, r.n) <=> l.n # r.n
        BY <2>6 DEF Truth
      <3> QED
        BY <2>2, <2>6, <3>1, <3>2, EqualsNumbers DEF Verdict, SameFloat
    <2>7. CASE op \in Orders
      <3>1. fired' = Verdict(Ordered(op, l, r))
        BY <2>2, <2>4, <2>7 DEF EvalCondition, Orders
      <3>2. ~Comparable(l, r) => ~Ordered(op, l, r) /\ op # "ne"
        BY <2>7 DEF Ordered, Orders
      <3>3. Comparable(l, r) /\ l.n # r.n /\ Round(l.n) = Round(r.n) => SameFloat(op, l, r)
        BY <2>7 DEF SameFloat, Orders
      <3> QED
        BY <2>2, <2>7, <3>1, <3>2, <3>3, OrdersNumbers DEF Verdict
    <2> QED
      BY <2>3, <2>5, <2>6, <2>7
  <1> QED
    BY <1>1, PortInit, PortStep, PTL DEF Spec, ComparesNumbers

\* A value encoded and decoded by sonic.
LEMMA ConvertedIs ==
  ASSUME NEW v \in Value
  PROVE  LET w == Converted(v) IN
         /\ v.type \notin {"int", "float", "floats"} => w = v
         /\ v.type = "floats" => w.type = "ints"
         /\ v.type \in {"int", "float"} =>
              /\ w.type \in {"int", "float"} /\ w.n = Round(v.n)
              /\ Round(w.n) = Round(v.n)
              /\ w.type = "int" <=> IsInt64(w.n)
         /\ v.type = "int" /\ Round(v.n) = v.n => w = v
  <1>1. v.type \in {"int", "float"} => Round(Round(v.n)) = Round(v.n)
    BY Int64InRange, RoundIsFloat DEF Value
  <1>2. v.type = "int" => IsInt64(v.n) /\ v = [type |-> "int", n |-> v.n]
    BY DEF Value
  <1> QED
    BY <1>1, <1>2 DEF Converted

\* An operator that does not compare lists takes two of them for the same.
LEMMA ListsAlike ==
  ASSUME NEW l, NEW v, NEW w, NEW op, v.type \in Lists, w.type \in Lists,
         op \in {"eq", "ne"} => l.type \notin Lists
  PROVE  EvalCondition(op, l, w) = EvalCondition(op, l, v)
  <1>1. /\ ~Coercible(v) /\ ~Coercible(w) /\ ~IsExact(v) /\ ~IsExact(w)
        /\ v.type \notin Texts /\ w.type \notin Texts
    BY DEF Lists, Texts, Coercible, IsExact
  <1>2. CASE op \in {"eq", "ne"}
    <2>1. ~CompareEqual(l, v) /\ ~CompareEqual(l, w)
      BY <1>1, <1>2 DEF CompareEqual
    <2> QED
      BY <1>2, <2>1 DEF EvalCondition
  <1>3. CASE op \notin {"eq", "ne"}
    BY <1>1, <1>3 DEF EvalCondition
  <1> QED
    BY <1>2, <1>3

\* Where no integer and no list is another one, the case of a switch decides as
\* an if does.
LEMMA VerdictsAgree ==
  ASSUME NEW l, Operand(l), NEW v \in Value, NEW op,
         op \in {"eq", "ne"} => ~Fragile(l, v)
  PROVE  EvalCondition(op, l, Converted(v)) = EvalCondition(op, l, v)
  <1> DEFINE w == Converted(v)
  <1>1. CASE v.type \notin {"int", "float", "floats"}
    BY <1>1, ConvertedIs
  <1>2. CASE v.type \in {"int", "float"}
    <2>1. /\ w.type \in {"int", "float"} /\ w.n = Round(v.n) /\ Round(w.n) = Round(v.n)
          /\ w.type = "int" <=> IsInt64(w.n)
          /\ v.type = "int" /\ Round(v.n) = v.n => w = v
          /\ v.n \in Int /\ (v.type = "float" => Round(v.n) = v.n)
      BY <1>2, ConvertedIs DEF Value
    <2> HIDE DEF w
    <2>2. CASE op \in {"eq", "ne"}
      <3>1. CASE v.type = "int"
        BY <2>1, <2>2, <3>1 DEF Fragile, BeyondFloat, w
      <3>2. CASE v.type = "float"
        <4>1. w.n = v.n /\ Round(v.n) = v.n
          BY <2>1, <3>2
        <4>2. CompareEqual(l, w) <=> CompareEqual(l, v)
          <5>1. CASE IsExact(l) /\ w.type = "int"
            <6>1. CompareEqual(l, w) <=> l.n = v.n
              BY <2>1, <4>1, <5>1, EqualIs DEF CompareEqual, IsExact, Operand
            <6>2. Round(l.n) = l.n /\ Coercible(l) /\ Comparable(l, v)
              BY <2>2, <3>2, <5>1 DEF Fragile, BeyondFloat, IsExact, Coercible, Comparable
            <6>3. CompareEqual(l, v) <=> l.n = v.n
              BY <3>2, <4>1, <6>2 DEF CompareEqual, IsExact, Coercible
            <6> QED
              BY <6>1, <6>3
          <5>2. CASE ~(IsExact(l) /\ w.type = "int") /\ Coercible(l)
            <6>1. ~IsExact(v) /\ ~(IsExact(l) /\ IsExact(w)) /\ Coercible(v) /\ Coercible(w)
              BY <2>1, <3>2, <5>2 DEF IsExact, Coercible
            <6>2. Comparable(l, w) <=> Comparable(l, v)
              BY <2>1, <3>2 DEF Comparable
            <6> QED
              BY <4>1, <5>2, <6>1, <6>2 DEF CompareEqual
          <5>3. CASE ~Coercible(l)
            <6>1. ~IsExact(l) /\ l # w /\ l # v
              BY <2>1, <3>2, <5>3 DEF IsExact, Coercible
            <6> QED
              BY <5>3, <6>1 DEF CompareEqual
          <5> QED
            BY <5>1, <5>2, <5>3
        <4> QED
          BY <2>2, <4>2 DEF EvalCondition, Verdict, w
      <3> QED
        BY <1>2, <3>1, <3>2
    <2>3. CASE op \in Orders
      <3>1. /\ Coercible(v) /\ Coercible(w)
            /\ Comparable(l, w) <=> Comparable(l, v)
        BY <1>2, <2>1 DEF Coercible, Comparable
      <3>2. Ordered(op, l, w) <=> Ordered(op, l, v)
        BY <2>1, <2>3, <3>1 DEF Ordered, Orders
      <3> QED
        BY <2>3, <3>1, <3>2 DEF EvalCondition, Orders, Verdict, w
    <2>4. CASE op \in {"contains", "starts_with"}
      <3>1. ~({l.type, v.type} \subseteq Texts) /\ ~({l.type, w.type} \subseteq Texts)
        BY <1>2, <2>1 DEF Texts
      <3> QED
        BY <2>4, <3>1 DEF EvalCondition, w
    <2>5. CASE op \notin {"eq", "ne", "contains", "starts_with"} \cup Orders
      BY <2>5 DEF EvalCondition, Orders
    <2> QED
      BY <2>2, <2>3, <2>4, <2>5
  <1>3. CASE v.type = "floats"
    <2>1. v.type \in Lists /\ w.type \in Lists
      BY <1>3, ConvertedIs DEF Lists
    <2>2. op \in {"eq", "ne"} => l.type \notin Lists
      BY <1>3 DEF Fragile
    <2> HIDE DEF w
    <2>3. EvalCondition(op, l, w) = EvalCondition(op, l, v)
      BY <2>1, <2>2, ListsAlike
    <2> QED
      BY <2>3 DEF w
  <1> QED
    BY <1>1, <1>2, <1>3

\* The same with the expansion of templates before it.
LEMMA CasesAgree ==
  ASSUME NEW l, Operand(l), NEW s \in Source, s.kind = "literal", NEW op,
         Expanded(s.value) # NotFound,
         op \in {"eq", "ne"} => ~Fragile(l, Resolved(AsInput(s)))
  PROVE  EvalCondition(op, l, RoundTrip(s.value))
           = EvalCondition(op, l, Resolved(AsInput(s)))
  <1> DEFINE v == s.value
             r == Resolved(AsInput(s))
             x == Expanded(v)
  <1>1. v \in Value /\ Resolved(s) = v
    BY DEF Source, Resolved
  <1>2. /\ x \in Value
        /\ v.type \notin {"template", "templates"} => x = v
        /\ v.type = "templates" => x.type \in Lists
    BY <1>1, ExpandedIs
  <1>3. RoundTrip(v) = Converted(x)
    BY DEF RoundTrip
  <1>4. v.type \in Texts => r = x
    BY DEF AsInput, Source, Resolved
  <1>5. v.type \notin Texts => r = v
    BY <1>1 DEF AsInput
  <1> HIDE DEF v, r, x
  <1>6. CASE r = x
    BY <1>2, <1>3, <1>6, VerdictsAgree DEF v, r, x
  <1>7. CASE r # x
    <2>1. v.type = "templates" /\ r = v
      BY <1>2, <1>4, <1>5, <1>7 DEF Texts
    <2>2. Converted(x).type \in Lists /\ r.type \in Lists
      BY <1>2, <2>1, ConvertedIs DEF Lists
    <2>3. op \in {"eq", "ne"} => l.type \notin Lists
      BY <2>1 DEF Fragile, v, r
    <2> QED
      BY <1>3, <2>2, <2>3, ListsAlike DEF v, r
  <1> QED
    BY <1>6, <1>7

(***************************************************************************)
(* A switch decides as a chain of ifs with the same operands               *)
(* (SwitchIsChainOfIfs; switch.go:40, resolve.go:46), for every node and   *)
(* every outcome of its templates: the detour of a case's literal through  *)
(* its Config costs nothing but the integers and the lists an equality     *)
(* could have told apart.                                                  *)
(***************************************************************************)
THEOREM SwitchesAreChains == Spec => SwitchIsChainOfIfs
  <1> DEFINE c == node.cases[next]
             r == AsInput(c.right)
             l == Resolved(node.value)
             asIf == [c EXCEPT !.right = r]
  <1>1. ASSUME PortInv, [Next]_vars, vars' # vars, pc = "execute", Resolves(node),
               node.type = "switch", next <= Len(node.cases), c.right.kind = "literal",
               c.op \in {"eq", "ne"} => ~Fragile(l, Resolved(r))
        PROVE  IfVerdict(asIf) = CASE pc' = "done"   -> "true"
                                   [] pc' = "failed" -> "error"
                                   [] OTHER          -> "false"
    <2>1. node \in Node /\ next \in Nat \ {0}
      BY <1>1, NodeAssumption DEF PortInv
    <2>2. SwitchCase
      BY <1>1, <2>1, NodeAssumption
         DEF Next, ResolveFails, BuildFails, PassThrough, SetVariable, Complete, HTTPRequest,
             If, SwitchDefault, Retry, Wake, GiveUp, Executes, vars
    <2>3. node.value \in Source /\ c \in Case /\ next \in DOMAIN node.cases
      <3>1. node.cases \in Seq(Case) /\ node.value \in Source
        BY <2>1 DEF Node
      <3> QED
        BY <1>1, <2>1, <3>1
    <2>4. l # NotFound /\ Expanded(c.right.value) # NotFound
      BY <1>1, <2>3 DEF Resolves, ResolveInputs, ResolveConfig
    <2>5. Operand(l) /\ c.right \in Source
      BY <2>3, <2>4, OperandIs DEF Case
    <2>6. SwitchVerdict(c) = IfVerdict(asIf)
      <3>1. EvalCondition(c.op, l, RoundTrip(c.right.value))
              = EvalCondition(c.op, l, Resolved(r))
        BY <1>1, <2>4, <2>5, CasesAgree
      <3>2. asIf.op = c.op /\ asIf.right = r
        BY <2>3 DEF Case
      <3> QED
        BY <1>1, <3>1, <3>2 DEF SwitchVerdict, IfVerdict
    <2>7. IfVerdict(asIf) \in {"true", "false", "error"}
      BY VerdictOrError DEF IfVerdict
    <2>8. /\ SwitchVerdict(c) = "true" => pc' = "done"
          /\ SwitchVerdict(c) = "error" => pc' = "failed"
          /\ SwitchVerdict(c) = "false" => pc' = "execute"
      BY <1>1, <2>2 DEF SwitchCase, Fire, Fail
    <2> HIDE DEF asIf
    <2> QED
      BY <2>6, <2>7, <2>8
  <1>2. PortInv /\ [Next]_vars =>
          [pc = "execute" /\ Resolves(node) /\ node.type = "switch"
             /\ next <= Len(node.cases) =>
             LET d == node.cases[next]
                 q == AsInput(d.right)
             IN
             /\ d.right.kind = "literal"
             /\ d.op \in {"eq", "ne"} => ~Fragile(Resolved(node.value), Resolved(q))
             => IfVerdict([d EXCEPT !.right = q]) =
                  CASE pc' = "done"   -> "true"
                    [] pc' = "failed" -> "error"
                    [] OTHER          -> "false"]_vars
    BY <1>1
  <1> QED
    BY <1>2, PortInit, PortStep, PTL DEF Spec, SwitchIsChainOfIfs
=============================================================================
