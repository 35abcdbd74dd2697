------------------------------- MODULE CronStore -------------------------------
(***************************************************************************)
(* The cron jobs of infrastructure/storage/cron/repository.go: schedulers  *)
(* claim due jobs, editors change them.                                    *)
(*                                                                         *)
(* No scheduler is part of the code yet.  The one modelled is the caller   *)
(* ClaimDue asks for: one transaction that claims, creates the runs and    *)
(* calls MarkFired.  The clocks of its instances agree.  One step is one   *)
(* SQL statement at READ COMMITTED; what a transaction wrote is seen by    *)
(* others once it commits, and they wait for the rows it locked.           *)
(***************************************************************************)
EXTENDS Naturals, Sequences, FiniteSets

CONSTANTS
  Jobs,        \* IDs, each created at most once
  Schedulers,  \* each with at most one transaction
  Editors,     \* callers that read a job, change it and write it back
  Limit,       \* of ClaimDue
  MaxTime,     \* bound on the clock
  MaxRuns,     \* bound on the runs of a job
  None,        \* NULL, no row, no call under way
  Deleted      \* a row with deleted_at

Times == 0..(MaxTime + 1)

Row == [enabled : BOOLEAN, next : Times \cup {None}, last : Times \cup {None},
        run : 0..MaxRuns]   \* 0 for no run, n for the n-th of the job

ASSUME CronAssumption ==
  /\ Limit \in Nat \ {0}
  /\ MaxTime \in Nat
  /\ MaxRuns \in Nat
  /\ None # Deleted
  /\ None \notin Nat
  /\ {None, Deleted} \cap Row = {}

VARIABLES
  now,     \* the clock
  jobs,    \* committed rows
  claims,  \* scheduler -> its transaction: when it claimed, and what
  marks,   \* scheduler -> what it wrote: job -> next_fire_at
  copies,  \* editor -> the job it is to write back
  fired,   \* history: job -> the times its committed runs were due at
  stale    \* history: jobs overwritten from a copy older than their last run

vars == <<now, jobs, claims, marks, copies, fired, stale>>

Copy == [job : Jobs, enabled : BOOLEAN, next : Times \cup {None}, seen : 0..MaxRuns]

Claim == [at : 0..MaxTime, due : UNION {[S -> Times] : S \in SUBSET Jobs}]

TypeOK ==
  /\ now \in 0..MaxTime
  /\ jobs \in [Jobs -> Row \cup {None, Deleted}]
  /\ claims \in [Schedulers -> Claim \cup {None}]
  /\ \A s \in Schedulers :
       claims[s] # None => /\ claims[s].at <= now
                           /\ \A j \in DOMAIN claims[s].due :
                                claims[s].due[j] <= claims[s].at
  /\ marks \in [Schedulers -> [Jobs -> Times \cup {None}]]
  /\ copies \in [Editors -> Copy \cup {None}]
  /\ fired \in [Jobs -> Seq(Times)]
  /\ \A j \in Jobs : Len(fired[j]) <= MaxRuns
  /\ stale \in SUBSET Jobs

Init ==
  /\ now = 0
  /\ jobs = [j \in Jobs |-> None]
  /\ claims = [s \in Schedulers |-> None]
  /\ marks = [s \in Schedulers |-> [j \in Jobs |-> None]]
  /\ copies = [e \in Editors |-> None]
  /\ fired = [j \in Jobs |-> <<>>]
  /\ stale = {}

Exists(j) == jobs[j] \notin {None, Deleted}

\* What a caller may compute as the next time at time t; none for an
\* expression that never comes due.
NextTimes(t) == ((t + 1)..(MaxTime + 1)) \cup {None}

Tick ==
  /\ now < MaxTime
  /\ now' = now + 1
  /\ UNCHANGED <<jobs, claims, marks, copies, fired, stale>>
-----------------------------------------------------------------------------
(***************************************************************************)
(* Editors.                                                                *)
(***************************************************************************)
\* A wrong SELECT: without FOR UPDATE it locks nothing.
NeverLocked(j) == FALSE

\* By the transaction that claimed it, until it ends.
Locked(j) == \E s \in Schedulers : claims[s] # None /\ j \in DOMAIN claims[s].due

Create(j) ==
  /\ jobs[j] = None
  /\ \E enabled \in BOOLEAN, next \in NextTimes(now) :
       jobs' = [jobs EXCEPT ![j] = [enabled |-> enabled, next |-> next,
                                    last |-> None, run |-> 0]]
  /\ UNCHANGED <<now, claims, marks, copies, fired, stale>>

\* The editor keeps the time or computes a new one.
Get(e, j) ==
  /\ copies[e] = None
  /\ Exists(j)
  /\ \E enabled \in BOOLEAN, next \in {jobs[j].next} \cup NextTimes(now) :
       copies' = [copies EXCEPT ![e] = [job |-> j, enabled |-> enabled,
                                        next |-> next, seen |-> Len(fired[j])]]
  /\ UNCHANGED <<now, jobs, claims, marks, fired, stale>>

\* Everything but last_fire_at and last_run_id.
Edited(row, c) == [row EXCEPT !.enabled = c.enabled, !.next = c.next]

\* No row is an error.
Update(e) ==
  /\ copies[e] # None
  /\ LET c == copies[e] IN
       /\ ~Locked(c.job)
       /\ IF Exists(c.job)
          THEN /\ jobs' = [jobs EXCEPT ![c.job] = Edited(jobs[c.job], c)]
               /\ stale' = IF c.seen < Len(fired[c.job]) THEN stale \cup {c.job}
                           ELSE stale
          ELSE UNCHANGED <<jobs, stale>>
  /\ copies' = [copies EXCEPT ![e] = None]
  /\ UNCHANGED <<now, claims, marks, fired>>

Delete(j) ==
  /\ Exists(j)
  /\ ~Locked(j)
  /\ jobs' = [jobs EXCEPT ![j] = Deleted]
  /\ UNCHANGED <<now, claims, marks, copies, fired, stale>>
-----------------------------------------------------------------------------
(***************************************************************************)
(* Schedulers.                                                             *)
(***************************************************************************)
\* A wrong WHERE: it does not compare next_fire_at with the time.
EnabledJob(j, t) == Exists(j) /\ jobs[j].enabled /\ jobs[j].next # None

Due(j, t) ==
  /\ Exists(j)
  /\ jobs[j].enabled
  /\ jobs[j].next # None
  /\ jobs[j].next <= t

\* FOR UPDATE SKIP LOCKED: the oldest Limit jobs among those nobody holds.
ClaimDue(s) ==
  LET free == {j \in Jobs : Due(j, now) /\ ~Locked(j)} IN
  /\ claims[s] = None
  /\ \E S \in (SUBSET free) \ {{}} :
       /\ Cardinality(S) <= Limit
       /\ Cardinality(S) < Limit => S = free
       /\ \A i \in S, j \in free \ S : jobs[i].next <= jobs[j].next
       /\ claims' = [claims EXCEPT ![s] =
                       [at |-> now, due |-> [j \in S |-> jobs[j].next]]]
  /\ UNCHANGED <<now, jobs, marks, copies, fired, stale>>

\* The caller creates the run and marks the job.
MarkFired(s, j) ==
  /\ claims[s] # None
  /\ j \in DOMAIN claims[s].due
  /\ marks[s][j] = None
  /\ Exists(j)
  /\ Len(fired[j]) < MaxRuns
  /\ \E next \in NextTimes(claims[s].at) \ {None} :
       marks' = [marks EXCEPT ![s][j] = next]
  /\ UNCHANGED <<now, jobs, claims, copies, fired, stale>>

\* A wrong MarkFired: it does not move next_fire_at.
FiredInPlace(row, at, next, run) == [row EXCEPT !.last = at, !.run = run]

Fired(row, at, next, run) == [row EXCEPT !.last = at, !.next = next, !.run = run]

\* A claimed job the caller did not mark stays due.
Commit(s) ==
  LET marked == {j \in Jobs : marks[s][j] # None} IN
  /\ claims[s] # None
  /\ jobs' = [j \in Jobs |->
                IF j \in marked /\ Exists(j)
                THEN Fired(jobs[j], claims[s].at, marks[s][j], Len(fired[j]) + 1)
                ELSE jobs[j]]
  /\ fired' = [j \in Jobs |->
                 IF j \in marked THEN Append(fired[j], claims[s].due[j])
                 ELSE fired[j]]
  /\ claims' = [claims EXCEPT ![s] = None]
  /\ marks' = [marks EXCEPT ![s] = [j \in Jobs |-> None]]
  /\ UNCHANGED <<now, copies, stale>>

\* A statement failed, or the scheduler died.
Rollback(s) ==
  /\ claims[s] # None
  /\ claims' = [claims EXCEPT ![s] = None]
  /\ marks' = [marks EXCEPT ![s] = [j \in Jobs |-> None]]
  /\ UNCHANGED <<now, jobs, copies, fired, stale>>

Next ==
  \/ Tick
  \/ \E j \in Jobs : Create(j) \/ Delete(j)
  \/ \E e \in Editors : Update(e) \/ \E j \in Jobs : Get(e, j)
  \/ \E s \in Schedulers : ClaimDue(s) \/ Commit(s) \/ Rollback(s)
                             \/ \E j \in Jobs : MarkFired(s, j)

Spec == Init /\ [][Next]_vars
-----------------------------------------------------------------------------
(***************************************************************************)
(* What was claimed holds until the transaction ends: the job exists, is   *)
(* enabled and due at the time that was read, and belongs to nobody else.  *)
(* So MarkFired finds its row, and no run is created for a job that was    *)
(* disabled or deleted meanwhile (repository.go:86-89).                    *)
(***************************************************************************)
ClaimHolds ==
  \A s \in Schedulers :
    claims[s] # None =>
      \A j \in DOMAIN claims[s].due :
        /\ Exists(j) /\ jobs[j].enabled /\ jobs[j].next = claims[s].due[j]
        /\ \A t \in Schedulers \ {s} :
             claims[t] # None => j \notin DOMAIN claims[t].due

(***************************************************************************)
(* Only claimed jobs are marked, each with a run to spare and a next time  *)
(* after the claim (repository.go:106).                                    *)
(***************************************************************************)
MarksOfClaim ==
  \A s \in Schedulers, j \in Jobs :
    marks[s][j] # None =>
      /\ claims[s] # None
      /\ j \in DOMAIN claims[s].due
      /\ Len(fired[j]) < MaxRuns
      /\ marks[s][j] > claims[s].at

(***************************************************************************)
(* A job fires once per time it is due, whichever schedulers run, fail or  *)
(* roll back, unless Update wrote a copy read before the last run: nothing *)
(* compares it with the row, and next_fire_at goes back with it            *)
(* (domain/cron/repository.go:21-23).  The row names the last run.         *)
(***************************************************************************)
FiresOnce ==
  \A j \in Jobs :
    /\ j \notin stale =>
         \A m, n \in DOMAIN fired[j] : m < n => fired[j][m] < fired[j][n]
    /\ Exists(j) => jobs[j].run = Len(fired[j])

(***************************************************************************)
(* Why it holds: the next time of a job lies beyond its last run, and so   *)
(* does the time an editor is to write back, unless its copy is stale.     *)
(***************************************************************************)
Past(j, t) == \A n \in DOMAIN fired[j] : fired[j][n] < t

FiredPast == \A j \in Jobs : Past(j, now + 1)

NextUnfired ==
  \A j \in Jobs : Exists(j) /\ j \notin stale /\ jobs[j].next # None => Past(j, jobs[j].next)

CopiesUnfired ==
  \A e \in Editors : copies[e] # None =>
    LET c == copies[e] IN
    /\ c.seen <= Len(fired[c.job])
    /\ c.seen = Len(fired[c.job]) /\ c.job \notin stale /\ c.next # None => Past(c.job, c.next)

NewUnfired == \A j \in Jobs : jobs[j] = None => fired[j] = <<>>

CronInv ==
  /\ TypeOK
  /\ ClaimHolds
  /\ MarksOfClaim
  /\ FiresOnce
  /\ FiredPast
  /\ NextUnfired
  /\ CopiesUnfired
  /\ NewUnfired
=============================================================================
