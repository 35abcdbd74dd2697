------------------------------- MODULE CronProofs -------------------------------
(***************************************************************************)
(* Theorems about module CronStore, for any number of jobs, schedulers and *)
(* editors, every limit and every bound.                                   *)
(***************************************************************************)
EXTENDS CronStore, TLAPS

LEMMA CronInit == Init => CronInv
  BY CronAssumption
     DEF Init, CronInv, TypeOK, Times, ClaimHolds, MarksOfClaim, FiresOnce,
         FiredPast, NextUnfired, CopiesUnfired, NewUnfired, Past, Exists
-----------------------------------------------------------------------------
(***************************************************************************)
(* Types.                                                                  *)
(***************************************************************************)
LEMMA NextTimesTyped ==
  ASSUME NEW t \in 0..MaxTime, NEW next \in NextTimes(t)
  PROVE  next \in Times \cup {None}
  BY CronAssumption DEF NextTimes, Times

LEMMA TypeStep ==
  ASSUME CronInv, [Next]_vars
  PROVE  TypeOK'
  <1> USE CronAssumption
  <1>1. TypeOK /\ MarksOfClaim /\ CopiesUnfired /\ ClaimHolds
    BY DEF CronInv
  <1>2. CASE Tick
    BY <1>1, <1>2 DEF Tick, TypeOK, Claim
  <1>3. CASE \E j \in Jobs : Create(j)
    <2>1. PICK j \in Jobs : Create(j)
      BY <1>3
    <2>2. PICK enabled \in BOOLEAN, next \in NextTimes(now) :
            jobs' = [jobs EXCEPT ![j] = [enabled |-> enabled, next |-> next,
                                         last |-> None, run |-> 0]]
      BY <2>1 DEF Create
    <2>3. next \in Times \cup {None}
      BY <1>1, NextTimesTyped DEF TypeOK
    <2> QED
      BY <1>1, <2>1, <2>2, <2>3 DEF Create, TypeOK, Row
  <1>4. CASE \E j \in Jobs : Delete(j)
    BY <1>1, <1>4 DEF Delete, TypeOK
  <1>5. CASE \E e \in Editors : Update(e)
    <2>1. PICK e \in Editors : Update(e)
      BY <1>5
    <2>2. copies[e] \in Copy
      BY <1>1, <2>1 DEF TypeOK, Update
    <2>3. Exists(copies[e].job) => jobs[copies[e].job] \in Row
      BY <1>1, <2>2 DEF TypeOK, Exists, Copy
    <2>4. jobs' \in [Jobs -> Row \cup {None, Deleted}]
      <3>1. Exists(copies[e].job) => Edited(jobs[copies[e].job], copies[e]) \in Row
        BY <2>2, <2>3 DEF Edited, Row, Copy
      <3> QED
        BY <1>1, <2>1, <2>2, <3>1 DEF Update, TypeOK, Copy
    <2>5. copies' \in [Editors -> Copy \cup {None}]
      BY <1>1, <2>1 DEF Update, TypeOK
    <2>6. stale' \in SUBSET Jobs
      BY <1>1, <2>1, <2>2 DEF Update, TypeOK, Copy
    <2> QED
      BY <1>1, <2>1, <2>4, <2>5, <2>6 DEF Update, TypeOK
  <1>6. CASE \E e \in Editors, j \in Jobs : Get(e, j)
    <2>1. PICK e \in Editors, j \in Jobs : Get(e, j)
      BY <1>6
    <2>2. jobs[j] \in Row
      BY <1>1, <2>1 DEF TypeOK, Exists, Get
    <2>3. PICK enabled \in BOOLEAN, next \in {jobs[j].next} \cup NextTimes(now) :
            copies' = [copies EXCEPT ![e] = [job |-> j, enabled |-> enabled,
                                        next |-> next, seen |-> Len(fired[j])]]
      BY <2>1 DEF Get
    <2>4. next \in Times \cup {None}
      BY <1>1, <2>2, <2>3, NextTimesTyped DEF TypeOK, Row
    <2>5. Len(fired[j]) \in 0..MaxRuns
      BY <1>1 DEF TypeOK
    <2> QED
      BY <1>1, <2>1, <2>3, <2>4, <2>5 DEF Get, TypeOK, Copy
  <1>7. CASE \E s \in Schedulers : ClaimDue(s)
    <2>1. PICK s \in Schedulers : ClaimDue(s)
      BY <1>7
    <2>2. PICK S \in SUBSET Jobs :
            /\ \A j \in S : Due(j, now)
            /\ claims' = [claims EXCEPT ![s] =
                            [at |-> now, due |-> [j \in S |-> jobs[j].next]]]
      BY <2>1 DEF ClaimDue
    <2>3. \A j \in S : jobs[j].next \in Times /\ jobs[j].next <= now
      BY <1>1, <2>2 DEF TypeOK, Due, Exists, Row
    <2>4. [at |-> now, due |-> [j \in S |-> jobs[j].next]] \in Claim
      BY <1>1, <2>3 DEF TypeOK, Claim
    <2>5. claims' \in [Schedulers -> Claim \cup {None}]
      BY <1>1, <2>2, <2>4 DEF TypeOK
    <2>6. claims'[s].at = now /\ \A j \in DOMAIN claims'[s].due : claims'[s].due[j] <= now
      BY <1>1, <2>2, <2>3 DEF TypeOK
    <2>7. \A t \in Schedulers \ {s} : claims'[t] = claims[t]
      BY <1>1, <2>2 DEF TypeOK
    <2>8. now' = now /\ now \in Nat
      BY <1>1, <2>1 DEF ClaimDue, TypeOK
    <2>9. \A t \in Schedulers :
            claims'[t] # None => /\ claims'[t].at <= now'
                                 /\ \A j \in DOMAIN claims'[t].due :
                                      claims'[t].due[j] <= claims'[t].at
      <3>1. TAKE t \in Schedulers
      <3>2. CASE t = s
        BY <3>2, <2>6, <2>8
      <3>3. CASE t # s
        BY <3>3, <1>1, <2>7, <2>8 DEF TypeOK
      <3> QED
        BY <3>2, <3>3
    <2> QED
      BY <1>1, <2>1, <2>5, <2>9 DEF ClaimDue, TypeOK
  <1>8. CASE \E s \in Schedulers, j \in Jobs : MarkFired(s, j)
    <2>1. PICK s \in Schedulers, j \in Jobs : MarkFired(s, j)
      BY <1>8
    <2>2. claims[s].at \in 0..MaxTime
      BY <1>1, <2>1 DEF TypeOK, MarkFired, Claim
    <2>3. PICK next \in NextTimes(claims[s].at) \ {None} :
            marks' = [marks EXCEPT ![s][j] = next]
      BY <2>1 DEF MarkFired
    <2>4. next \in Times \cup {None}
      BY <2>2, <2>3, NextTimesTyped
    <2> QED
      BY <1>1, <2>1, <2>3, <2>4 DEF MarkFired, TypeOK
  <1>9. CASE \E s \in Schedulers : Commit(s)
    <2>1. PICK s \in Schedulers : Commit(s)
      BY <1>9
    <2>2. claims[s] \in Claim /\ claims[s].at \in Times
      BY <1>1, <2>1 DEF TypeOK, Commit, Claim, Times
    <2>3. \A j \in Jobs : marks[s][j] # None =>
            /\ claims[s].due[j] \in Times
            /\ Len(fired[j]) + 1 \in 0..MaxRuns
            /\ marks[s][j] \in Times
      BY <1>1, <2>2 DEF TypeOK, MarksOfClaim, Claim
    <2>4. \A j \in Jobs : Exists(j) => jobs[j] \in Row
      BY <1>1 DEF TypeOK, Exists
    <2>5. jobs' \in [Jobs -> Row \cup {None, Deleted}]
      <3>1. \A j \in Jobs : marks[s][j] # None /\ Exists(j) =>
              Fired(jobs[j], claims[s].at, marks[s][j], Len(fired[j]) + 1) \in Row
        BY <2>2, <2>3, <2>4 DEF Fired, Row
      <3> QED
        BY <1>1, <2>1, <3>1 DEF Commit, TypeOK
    <2>6. fired' \in [Jobs -> Seq(Times)] /\ \A j \in Jobs : Len(fired'[j]) <= MaxRuns
      BY <1>1, <2>1, <2>3 DEF Commit, TypeOK
    <2> QED
      BY <1>1, <2>1, <2>5, <2>6 DEF Commit, TypeOK
  <1>10. CASE \E s \in Schedulers : Rollback(s)
    BY <1>1, <1>10 DEF Rollback, TypeOK
  <1>11. CASE UNCHANGED vars
    BY <1>1, <1>11 DEF vars, TypeOK
  <1> QED
    BY <1>2, <1>3, <1>4, <1>5, <1>6, <1>7, <1>8, <1>9, <1>10, <1>11 DEF Next
-----------------------------------------------------------------------------
(***************************************************************************)
(* Claims: a row is changed by its claimant alone, or by nobody.           *)
(***************************************************************************)
LEMMA ClaimStep ==
  ASSUME CronInv, [Next]_vars
  PROVE  ClaimHolds' /\ MarksOfClaim'
  <1> USE CronAssumption
  <1>1. TypeOK /\ ClaimHolds /\ MarksOfClaim
    BY DEF CronInv
  <1>2. ASSUME UNCHANGED <<claims, marks>>,
               \A s \in Schedulers : claims[s] # None =>
                 \A j \in DOMAIN claims[s].due : jobs'[j] = jobs[j],
               UNCHANGED fired
        PROVE  ClaimHolds' /\ MarksOfClaim'
    BY <1>1, <1>2 DEF ClaimHolds, MarksOfClaim, Exists
  <1>3. CASE Tick \/ UNCHANGED vars
    BY <1>2, <1>3 DEF Tick, vars
  <1>4. CASE \E j \in Jobs : Create(j)
    BY <1>1, <1>2, <1>4 DEF Create, ClaimHolds, Exists, TypeOK
  <1>5. CASE \E j \in Jobs : Delete(j)
    <2>1. PICK j \in Jobs : Delete(j)
      BY <1>5
    <2>2. \A i \in Jobs : i # j => jobs'[i] = jobs[i]
      BY <1>1, <2>1 DEF Delete, TypeOK
    <2>3. \A s \in Schedulers : claims[s] # None =>
            j \notin DOMAIN claims[s].due /\ DOMAIN claims[s].due \subseteq Jobs
      BY <1>1, <2>1 DEF Delete, Locked, TypeOK, Claim
    <2> QED
      BY <1>2, <2>1, <2>2, <2>3 DEF Delete
  <1>6. CASE \E e \in Editors : Update(e)
    <2>1. PICK e \in Editors : Update(e)
      BY <1>6
    <2>2. \A j \in Jobs : j # copies[e].job => jobs'[j] = jobs[j]
      BY <1>1, <2>1 DEF Update, TypeOK
    <2>3. \A s \in Schedulers : claims[s] # None => copies[e].job \notin DOMAIN claims[s].due
      BY <2>1 DEF Update, Locked
    <2>4. \A s \in Schedulers : claims[s] # None => DOMAIN claims[s].due \subseteq Jobs
      BY <1>1 DEF TypeOK, Claim
    <2> QED
      BY <1>2, <2>1, <2>2, <2>3, <2>4 DEF Update
  <1>7. CASE \E e \in Editors, j \in Jobs : Get(e, j)
    BY <1>2, <1>7 DEF Get
  <1>8. CASE \E s \in Schedulers : ClaimDue(s)
    <2>1. PICK s \in Schedulers : ClaimDue(s)
      BY <1>8
    <2>2. PICK S \in SUBSET Jobs :
            /\ \A j \in S : Due(j, now) /\ ~Locked(j)
            /\ claims' = [claims EXCEPT ![s] =
                            [at |-> now, due |-> [j \in S |-> jobs[j].next]]]
      BY <2>1 DEF ClaimDue
    <2>3. /\ \A t \in Schedulers \ {s} : claims'[t] = claims[t]
          /\ claims'[s].due = [j \in S |-> jobs[j].next]
      BY <1>1, <2>2 DEF TypeOK
    <2>4. claims[s] = None /\ UNCHANGED <<jobs, marks, fired>>
      BY <2>1 DEF ClaimDue
    <2>5. \A j \in S : Exists(j) /\ jobs[j].enabled
      BY <2>2 DEF Due
    <2>6. \A j \in S, t \in Schedulers \ {s} :
            claims[t] # None => j \notin DOMAIN claims[t].due
      BY <2>2 DEF Locked
    <2>7. ASSUME NEW t \in Schedulers, claims'[t] # None, NEW j \in DOMAIN claims'[t].due
          PROVE  /\ Exists(j)' /\ jobs'[j].enabled /\ jobs'[j].next = claims'[t].due[j]
                 /\ \A u \in Schedulers \ {t} :
                      claims'[u] # None => j \notin DOMAIN claims'[u].due
      <3>1. CASE t = s
        BY <3>1, <2>3, <2>4, <2>5, <2>6, <2>7 DEF Exists
      <3>2. CASE t # s
        BY <3>2, <1>1, <2>3, <2>4, <2>6, <2>7 DEF Exists, ClaimHolds
      <3> QED
        BY <3>1, <3>2
    <2>8. ClaimHolds'
      BY <2>7 DEF ClaimHolds
    <2>9. MarksOfClaim'
      BY <1>1, <2>3, <2>4 DEF MarksOfClaim
    <2> QED
      BY <2>8, <2>9
  <1>9. CASE \E s \in Schedulers, j \in Jobs : MarkFired(s, j)
    <2>1. PICK s \in Schedulers, j \in Jobs : MarkFired(s, j)
      BY <1>9
    <2>2. PICK next \in NextTimes(claims[s].at) \ {None} :
            marks' = [marks EXCEPT ![s][j] = next]
      BY <2>1 DEF MarkFired
    <2>3. claims[s].at \in Nat /\ next > claims[s].at
      BY <1>1, <2>1, <2>2 DEF MarkFired, TypeOK, Claim, NextTimes
    <2>4. ClaimHolds'
      BY <1>1, <2>1 DEF MarkFired, ClaimHolds, Exists
    <2>5. MarksOfClaim'
      BY <1>1, <2>1, <2>2, <2>3 DEF MarkFired, MarksOfClaim, TypeOK
    <2> QED
      BY <2>4, <2>5
  <1>10. CASE \E s \in Schedulers : Commit(s)
    <2>1. PICK s \in Schedulers : Commit(s)
      BY <1>10
    <2>2. /\ claims' = [claims EXCEPT ![s] = None]
          /\ marks' = [marks EXCEPT ![s] = [j \in Jobs |-> None]]
      BY <2>1 DEF Commit
    <2>3. \A t \in Schedulers \ {s} : claims'[t] = claims[t] /\ marks'[t] = marks[t]
      BY <1>1, <2>2 DEF TypeOK
    <2>4. claims'[s] = None /\ \A j \in Jobs : marks'[s][j] = None
      BY <1>1, <2>2 DEF TypeOK
    <2>5. \A j \in Jobs : marks[s][j] = None => jobs'[j] = jobs[j] /\ fired'[j] = fired[j]
      BY <2>1 DEF Commit
    <2>6. ASSUME NEW t \in Schedulers \ {s}, claims[t] # None, NEW j \in DOMAIN claims[t].due
          PROVE  j \in Jobs /\ marks[s][j] = None
      <3>1. j \in Jobs
        BY <1>1, <2>6 DEF TypeOK, Claim
      <3> QED
        BY <1>1, <2>6, <3>1 DEF ClaimHolds, MarksOfClaim
    <2>7. ClaimHolds'
      BY <1>1, <2>3, <2>4, <2>5, <2>6 DEF ClaimHolds, Exists
    <2>8. MarksOfClaim'
      BY <1>1, <2>3, <2>4, <2>5, <2>6 DEF MarksOfClaim
    <2> QED
      BY <2>7, <2>8
  <1>11. CASE \E s \in Schedulers : Rollback(s)
    <2>1. PICK s \in Schedulers : Rollback(s)
      BY <1>11
    <2>2. \A t \in Schedulers \ {s} : claims'[t] = claims[t] /\ marks'[t] = marks[t]
      BY <1>1, <2>1 DEF Rollback, TypeOK
    <2>3. claims'[s] = None /\ \A j \in Jobs : marks'[s][j] = None
      BY <1>1, <2>1 DEF Rollback, TypeOK
    <2>4. UNCHANGED <<jobs, fired>>
      BY <2>1 DEF Rollback
    <2>5. ClaimHolds'
      BY <1>1, <2>2, <2>3, <2>4 DEF ClaimHolds, Exists
    <2>6. MarksOfClaim'
      BY <1>1, <2>2, <2>3, <2>4 DEF MarksOfClaim
    <2> QED
      BY <2>5, <2>6
  <1> QED
    BY <1>3, <1>4, <1>5, <1>6, <1>7, <1>8, <1>9, <1>10, <1>11 DEF Next
-----------------------------------------------------------------------------
(***************************************************************************)
(* Runs: only Commit adds any.                                             *)
(***************************************************************************)
Unfired == NextUnfired /\ CopiesUnfired /\ NewUnfired /\ FiredPast /\ FiresOnce

LEMMA AppendFacts ==
  ASSUME NEW f \in Seq(Nat), NEW d \in Nat
  PROVE  LET g == Append(f, d) IN
         /\ g \in Seq(Nat) /\ Len(g) = Len(f) + 1
         /\ \A n \in DOMAIN f : n \in DOMAIN g /\ g[n] = f[n]
         /\ \A n \in DOMAIN g : n \in DOMAIN f \/ (n = Len(f) + 1 /\ g[n] = d)
         /\ \A m, n \in DOMAIN g : m < n => m \in DOMAIN f
  OBVIOUS

LEMMA RunsCommit ==
  ASSUME CronInv, NEW s \in Schedulers, Commit(s)
  PROVE  Unfired'
  <1> USE CronAssumption
  <1>1. TypeOK /\ ClaimHolds /\ MarksOfClaim /\ Unfired
    BY DEF CronInv, Unfired
  <1>2. claims[s] # None /\ UNCHANGED <<now, copies, stale>>
    BY DEF Commit
  <1>3. ASSUME NEW j \in Jobs
        PROVE  fired[j] \in Seq(Nat) /\ \A n \in DOMAIN fired[j] : fired[j][n] \in Nat
    BY <1>1 DEF TypeOK, Times
  <1>4. ASSUME NEW j \in Jobs, marks[s][j] = None
        PROVE  jobs'[j] = jobs[j] /\ fired'[j] = fired[j]
    BY <1>4 DEF Commit
  <1>5. ASSUME NEW j \in Jobs, marks[s][j] # None
        PROVE  /\ jobs[j] \in Row /\ jobs[j].next \in Nat /\ marks[s][j] \in Nat
               /\ jobs[j].next <= now /\ jobs[j].next < marks[s][j]
               /\ jobs'[j] \in Row /\ jobs'[j] # None
               /\ jobs'[j].next = marks[s][j] /\ jobs'[j].run = Len(fired[j]) + 1
               /\ fired'[j] = Append(fired[j], jobs[j].next)
    <2>1. j \in DOMAIN claims[s].due /\ marks[s][j] > claims[s].at
      BY <1>1, <1>5 DEF MarksOfClaim
    <2>2. Exists(j) /\ jobs[j].next = claims[s].due[j]
      BY <1>1, <1>2, <2>1 DEF ClaimHolds
    <2>3. /\ claims[s].at \in Nat /\ claims[s].at <= now /\ now \in Nat
          /\ claims[s].due[j] \in Nat /\ claims[s].due[j] <= claims[s].at
      BY <1>1, <1>2, <2>1 DEF TypeOK, Claim, Times
    <2>4. jobs[j] \in Row /\ marks[s][j] \in Times
      BY <1>1, <1>5, <2>2 DEF TypeOK, Exists
    <2>5. jobs'[j] = Fired(jobs[j], claims[s].at, marks[s][j], Len(fired[j]) + 1)
      BY <1>5, <2>2 DEF Commit
    <2>6. fired'[j] = Append(fired[j], jobs[j].next)
      BY <1>5, <2>2 DEF Commit
    <2>7. Len(fired[j]) + 1 \in 0..MaxRuns
      BY <1>1, <1>5 DEF MarksOfClaim, TypeOK
    <2>8. claims[s].at \in Times
      BY <1>1, <2>3 DEF TypeOK, Times
    <2>9. /\ Fired(jobs[j], claims[s].at, marks[s][j], Len(fired[j]) + 1) \in Row
          /\ jobs'[j].next = marks[s][j] /\ jobs'[j].run = Len(fired[j]) + 1
      BY <2>4, <2>5, <2>7, <2>8 DEF Fired, Row
    <2> QED
      BY <2>1, <2>2, <2>3, <2>4, <2>5, <2>6, <2>9 DEF Times
  <1>6. ASSUME NEW j \in Jobs, marks[s][j] # None
        PROVE  /\ Len(fired'[j]) = Len(fired[j]) + 1
               /\ \A n \in DOMAIN fired[j] : fired'[j][n] = fired[j][n]
               /\ \A n \in DOMAIN fired'[j] : n \in DOMAIN fired[j] \/ fired'[j][n] = jobs[j].next
               /\ \A m, n \in DOMAIN fired'[j] : m < n => m \in DOMAIN fired[j]
    BY <1>3, <1>5, <1>6, AppendFacts
  <1>7. ASSUME NEW j \in Jobs, marks[s][j] # None, j \notin stale
        PROVE  \A n \in DOMAIN fired[j] : fired[j][n] < jobs[j].next
    <2>1. Exists(j) /\ jobs[j].next # None
      BY <1>5, <1>7 DEF Exists
    <2> QED
      BY <1>1, <1>7, <2>1 DEF Unfired, NextUnfired, Past
  <1>8. NextUnfired'
    <2>1. ASSUME NEW j \in Jobs, j \notin stale, Exists(j)', jobs'[j].next # None
          PROVE  \A n \in DOMAIN fired'[j] : fired'[j][n] < jobs'[j].next
      <3>1. CASE marks[s][j] = None
        BY <1>1, <1>4, <2>1, <3>1 DEF Unfired, NextUnfired, Past, Exists
      <3>2. CASE marks[s][j] # None
        <4>1. /\ jobs[j].next \in Nat /\ jobs'[j].next \in Nat
              /\ jobs[j].next < jobs'[j].next
          BY <1>5, <3>2
        <4>2. \A n \in DOMAIN fired[j] : fired[j][n] \in Nat /\ fired[j][n] < jobs[j].next
          BY <1>3, <1>7, <2>1, <3>2
        <4>3. \A n \in DOMAIN fired[j] : fired[j][n] < jobs'[j].next
          BY <4>1, <4>2
        <4> QED
          BY <1>6, <3>2, <4>1, <4>3
      <3> QED
        BY <3>1, <3>2
    <2> QED
      BY <1>2, <2>1 DEF NextUnfired, Past
  <1>9. CopiesUnfired'
    <2>1. ASSUME NEW e \in Editors, copies[e] # None
          PROVE  LET c == copies[e] IN
                 /\ c.seen <= Len(fired'[c.job])
                 /\ c.seen = Len(fired'[c.job]) /\ c.job \notin stale /\ c.next # None =>
                      \A n \in DOMAIN fired'[c.job] : fired'[c.job][n] < c.next
      <3>1. copies[e].job \in Jobs /\ copies[e].seen \in Nat
        BY <1>1, <2>1 DEF TypeOK, Copy
      <3>2. copies[e].seen <= Len(fired[copies[e].job])
        BY <1>1, <2>1 DEF Unfired, CopiesUnfired
      <3>3. CASE marks[s][copies[e].job] = None
        BY <1>1, <1>4, <2>1, <3>1, <3>3 DEF Unfired, CopiesUnfired, Past
      <3>4. CASE marks[s][copies[e].job] # None
        BY <1>3, <1>6, <3>1, <3>2, <3>4
      <3> QED
        BY <3>3, <3>4
    <2> QED
      BY <1>2, <2>1 DEF CopiesUnfired, Past
  <1>10. NewUnfired'
    BY <1>1, <1>4, <1>5 DEF Unfired, NewUnfired
  <1>11. FiredPast'
    <2>1. ASSUME NEW j \in Jobs
          PROVE  \A n \in DOMAIN fired'[j] : fired'[j][n] < now + 1
      <3>1. CASE marks[s][j] = None
        BY <1>1, <1>4, <3>1 DEF Unfired, FiredPast, Past
      <3>2. CASE marks[s][j] # None
        <4>1. now \in Nat /\ \A n \in DOMAIN fired[j] : fired[j][n] < now + 1
          BY <1>1 DEF Unfired, FiredPast, Past, TypeOK
        <4>2. jobs[j].next \in Nat /\ jobs[j].next < now + 1
          BY <1>5, <3>2, <4>1
        <4> QED
          BY <1>6, <3>2, <4>1, <4>2
      <3> QED
        BY <3>1, <3>2
    <2> QED
      BY <1>2, <2>1 DEF FiredPast, Past
  <1>12. FiresOnce'
    <2>1. ASSUME NEW j \in Jobs, Exists(j)'
          PROVE  jobs'[j].run = Len(fired'[j])
      <3>1. CASE marks[s][j] = None
        BY <1>1, <1>4, <2>1, <3>1 DEF Unfired, FiresOnce, Exists
      <3>2. CASE marks[s][j] # None
        BY <1>5, <1>6, <3>2
      <3> QED
        BY <3>1, <3>2
    <2>2. ASSUME NEW j \in Jobs, j \notin stale, NEW m \in DOMAIN fired'[j],
                 NEW n \in DOMAIN fired'[j], m < n
          PROVE  fired'[j][m] < fired'[j][n]
      <3>1. CASE marks[s][j] = None
        BY <1>1, <1>4, <2>2, <3>1 DEF Unfired, FiresOnce
      <3>2. CASE marks[s][j] # None
        <4>1. m \in DOMAIN fired[j]
          BY <1>6, <2>2, <3>2
        <4>2. CASE n \in DOMAIN fired[j]
          BY <1>1, <1>6, <2>2, <3>2, <4>1, <4>2 DEF Unfired, FiresOnce
        <4>3. CASE n \notin DOMAIN fired[j]
          BY <1>6, <1>7, <2>2, <3>2, <4>1, <4>3
        <4> QED
          BY <4>2, <4>3
      <3> QED
        BY <3>1, <3>2
    <2> QED
      BY <1>2, <2>1, <2>2 DEF FiresOnce
  <1> QED
    BY <1>8, <1>9, <1>10, <1>11, <1>12 DEF Unfired

LEMMA RunsStep ==
  ASSUME CronInv, [Next]_vars
  PROVE  Unfired'
  <1> USE CronAssumption
  <1>1. TypeOK /\ Unfired
    BY DEF CronInv, Unfired
  <1>2. \A j \in Jobs : \A n \in DOMAIN fired[j] : fired[j][n] \in Nat
    BY <1>1 DEF TypeOK, Times
  <1>3. CASE Tick
    <2>1. FiredPast'
      BY <1>1, <1>2, <1>3 DEF Tick, Unfired, FiredPast, Past, TypeOK
    <2> QED
      BY <1>1, <1>3, <2>1 DEF Tick, Unfired, NextUnfired, CopiesUnfired, NewUnfired,
           FiresOnce, Past, Exists
  <1>4. CASE \E j \in Jobs : Create(j)
    <2>1. PICK j \in Jobs : Create(j)
      BY <1>4
    <2>2. fired[j] = <<>>
      BY <1>1, <2>1 DEF Create, Unfired, NewUnfired
    <2>3. jobs'[j].run = 0 /\ \A i \in Jobs : i # j => jobs'[i] = jobs[i]
      BY <1>1, <2>1 DEF Create, TypeOK
    <2>4. UNCHANGED <<now, copies, fired, stale>>
      BY <2>1 DEF Create
    <2>5. NextUnfired' /\ NewUnfired' /\ FiresOnce'
      BY <1>1, <2>2, <2>3, <2>4 DEF Unfired, NextUnfired, NewUnfired, FiresOnce, Past, Exists
    <2> QED
      BY <1>1, <2>4, <2>5 DEF Unfired, CopiesUnfired, FiredPast, Past
  <1>5. CASE \E j \in Jobs : Delete(j)
    BY <1>1, <1>5 DEF Delete, TypeOK, Unfired, NextUnfired, CopiesUnfired, NewUnfired,
         FiredPast, FiresOnce, Past, Exists
  <1>6. CASE \E e \in Editors : Update(e)
    <2>1. PICK e \in Editors : Update(e)
      BY <1>6
    <2> DEFINE c == copies[e]
    <2>2. c \in Copy /\ UNCHANGED <<now, fired>>
      BY <1>1, <2>1 DEF Update, TypeOK
    <2>3. \A i \in Jobs : i # c.job => jobs'[i] = jobs[i]
      BY <1>1, <2>1 DEF Update, TypeOK
    <2>4. \A d \in Editors : copies'[d] # None => copies'[d] = copies[d]
      BY <1>1, <2>1 DEF Update, TypeOK
    <2>5. stale \subseteq stale'
      BY <2>1 DEF Update
    <2>6. ASSUME Exists(c.job)
          PROVE  /\ jobs'[c.job] \in Row
                 /\ jobs'[c.job].next = c.next /\ jobs'[c.job].run = jobs[c.job].run
                 /\ c.seen < Len(fired[c.job]) => c.job \in stale'
      <3>1. jobs[c.job] \in Row
        BY <1>1, <2>2, <2>6 DEF TypeOK, Exists, Copy
      <3>2. jobs'[c.job] = Edited(jobs[c.job], c)
        BY <1>1, <2>1, <2>2, <2>6 DEF Update, TypeOK, Copy
      <3>3. Edited(jobs[c.job], c) \in Row
        BY <2>2, <3>1 DEF Edited, Row, Copy
      <3>4. jobs'[c.job].next = c.next /\ jobs'[c.job].run = jobs[c.job].run
        BY <3>1, <3>2 DEF Edited, Row
      <3> QED
        BY <2>1, <2>6, <3>2, <3>3, <3>4 DEF Update
    <2>7. ~Exists(c.job) => jobs' = jobs
      BY <2>1 DEF Update
    <2>8. c.seen \in Nat /\ c.seen <= Len(fired[c.job]) /\ Len(fired[c.job]) \in Nat
      BY <1>1, <2>1, <2>2 DEF Update, Unfired, CopiesUnfired, Copy, TypeOK
    <2>9. c.seen = Len(fired[c.job]) /\ c.job \notin stale /\ c.next # None => Past(c.job, c.next)
      BY <1>1, <2>1 DEF Update, Unfired, CopiesUnfired
    <2> HIDE DEF c
    <2>10. NextUnfired'
      <3>1. ASSUME NEW j \in Jobs, Exists(j)', j \notin stale', jobs'[j].next # None
            PROVE  Past(j, jobs'[j].next)
        <4>1. CASE j = c.job /\ Exists(c.job)
          BY <2>5, <2>6, <2>8, <2>9, <3>1, <4>1
        <4>2. CASE ~(j = c.job /\ Exists(c.job))
          BY <1>1, <2>3, <2>5, <2>7, <3>1, <4>2 DEF Unfired, NextUnfired, Exists
        <4> QED
          BY <4>1, <4>2
      <3> QED
        BY <2>2, <3>1 DEF NextUnfired, Past
    <2>11. CopiesUnfired'
      BY <1>1, <2>2, <2>4, <2>5 DEF Unfired, CopiesUnfired, Past
    <2>12. NewUnfired'
      BY <1>1, <2>2, <2>3, <2>6, <2>7 DEF Unfired, NewUnfired
    <2>13. FiresOnce'
      BY <1>1, <2>2, <2>3, <2>5, <2>6, <2>7 DEF Unfired, FiresOnce, Exists
    <2> QED
      BY <1>1, <2>2, <2>10, <2>11, <2>12, <2>13 DEF Unfired, FiredPast, Past
  <1>7. CASE \E e \in Editors, j \in Jobs : Get(e, j)
    <2>1. PICK e \in Editors, j \in Jobs : Get(e, j)
      BY <1>7
    <2>2. PICK enabled \in BOOLEAN, next \in {jobs[j].next} \cup NextTimes(now) :
            copies' = [copies EXCEPT ![e] = [job |-> j, enabled |-> enabled,
                                        next |-> next, seen |-> Len(fired[j])]]
      BY <2>1 DEF Get
    <2>3. Exists(j) /\ UNCHANGED <<now, jobs, fired, stale>>
      BY <2>1 DEF Get
    <2>4. j \notin stale /\ next # None => Past(j, next)
      <3>1. CASE next = jobs[j].next
        BY <1>1, <2>3, <3>1 DEF Unfired, NextUnfired
      <3>2. CASE next \in NextTimes(now)
        BY <1>1, <1>2, <3>2 DEF Unfired, FiredPast, Past, NextTimes, TypeOK
      <3> QED
        BY <2>2, <3>1, <3>2
    <2>5. /\ copies'[e] = [job |-> j, enabled |-> enabled, next |-> next, seen |-> Len(fired[j])]
          /\ \A d \in Editors : d # e => copies'[d] = copies[d]
      BY <1>1, <2>2 DEF TypeOK
    <2>6. Len(fired[j]) \in Nat
      BY <1>1 DEF TypeOK
    <2>7. ASSUME NEW d \in Editors, copies'[d] # None
          PROVE  LET x == copies'[d] IN
                 /\ x.seen <= Len(fired[x.job])
                 /\ x.seen = Len(fired[x.job]) /\ x.job \notin stale /\ x.next # None =>
                      Past(x.job, x.next)
      <3>1. CASE d = e
        BY <2>4, <2>5, <2>6, <3>1
      <3>2. CASE d # e
        BY <1>1, <2>5, <2>7, <3>2 DEF Unfired, CopiesUnfired
      <3> QED
        BY <3>1, <3>2
    <2>8. CopiesUnfired'
      BY <2>3, <2>7 DEF CopiesUnfired, Past
    <2> QED
      BY <1>1, <2>3, <2>8 DEF Unfired, NextUnfired, NewUnfired, FiredPast, FiresOnce,
           Past, Exists
  <1>8. ASSUME UNCHANGED <<now, jobs, copies, fired, stale>>
        PROVE  Unfired'
    BY <1>1, <1>8 DEF Unfired, NextUnfired, CopiesUnfired, NewUnfired, FiredPast,
         FiresOnce, Past, Exists
  <1>9. CASE \E s \in Schedulers : ClaimDue(s) \/ Rollback(s) \/ \E j \in Jobs : MarkFired(s, j)
    BY <1>8, <1>9 DEF ClaimDue, Rollback, MarkFired
  <1>10. CASE UNCHANGED vars
    BY <1>8, <1>10 DEF vars
  <1>11. CASE \E s \in Schedulers : Commit(s)
    BY <1>11, RunsCommit
  <1> QED
    BY <1>3, <1>4, <1>5, <1>6, <1>7, <1>9, <1>10, <1>11 DEF Next
-----------------------------------------------------------------------------
(***************************************************************************)
(* A claim locks what it read until it marks it, and the next time of a    *)
(* job lies beyond its last run wherever no stale copy was written over it *)
(* (CronInv), for any number of schedulers, editors and jobs               *)
(* (repository.go:86-118).                                                 *)
(***************************************************************************)
THEOREM CronAlways == Spec => []CronInv
  <1>1. CronInv /\ [Next]_vars => CronInv'
    <2> SUFFICES ASSUME CronInv, [Next]_vars
                 PROVE  CronInv'
      OBVIOUS
    <2> QED
      BY TypeStep, ClaimStep, RunsStep DEF CronInv, Unfired
  <1> QED
    BY CronInit, <1>1, PTL DEF Spec

(***************************************************************************)
(* Whatever schedulers and editors do, a claimed job stays as it was read  *)
(* and with one claimant until the claim's transaction ends                *)
(* (repository.go:86-89).                                                  *)
(***************************************************************************)
THEOREM ClaimsHold == Spec => []ClaimHolds
  <1>1. CronInv => ClaimHolds
    BY DEF CronInv
  <1> QED
    BY <1>1, CronAlways, PTL

(***************************************************************************)
(* A job fires once per time it is due, unless a stale copy was written    *)
(* over its row (domain/cron/repository.go:21-23).                         *)
(***************************************************************************)
THEOREM JobsFireOnce == Spec => []FiresOnce
  <1>1. CronInv => FiresOnce
    BY DEF CronInv
  <1> QED
    BY <1>1, CronAlways, PTL
=============================================================================
