----------------------------- MODULE EngineSymbols -----------------------------
(***************************************************************************)
(* The engine together with the symbols of its run: propagate publishes an *)
(* output, dispatch gives the worker a snapshot, the worker resolves its   *)
(* node against it, and the rows and the saved variables are what a replay *)
(* of the run is rebuilt from.  Every step is a step of Engine; what it    *)
(* does to the symbols is added to it.                                     *)
(***************************************************************************)
EXTENDS EngineProperties, Symbols

VARIABLES
  sym,        \* st.sym, owned by the driver
  snapshots,  \* attempt -> the snapshot it was given (history once it ended)
  savedVars   \* the content of a vars operation, by the nodes it covers

symbolVars == <<sym, snapshots, savedVars>>

SymInit ==
  /\ Init
  /\ sym = NewSymbols
  /\ snapshots = [t \in {} |-> NewSymbols]
  /\ savedVars = [vs \in SUBSET SetVarNodes |-> NewSymbols.vars]

\* The output the result r is propagated with.
OutputOf(r) ==
  [node |-> r.node, attempt |-> r.attempt,
   by |-> IF ~Failed(r) THEN "success"
          ELSE IF OnFinalFail[r.node] = "fallback" THEN "fallback"
          ELSE "error"]

(***************************************************************************)
(* propagate with its effect on the symbols: the output, then the          *)
(* variables of a set_variable node.  Both are written before tryAdvance   *)
(* asks the targets.                                                       *)
(***************************************************************************)
Publish ==
  /\ HandlePropagate
  /\ LET out == OutputOf(cur)
         s   == SetNodeOutput(sym, out)
     IN  sym' = IF cur.node \in SetVarNodes THEN SetVars(s, out) ELSE s
  /\ savedVars' = [savedVars EXCEPT ![symVars'] = sym'.vars]

\* runNode resolves its node before anything else.
Execute(t, out) ==
  /\ WorkerEnds(t, out)
  /\ out = "unresolved" <=> ~Resolves(t.node, snapshots[t])

\* Steps that leave the symbols alone.
Quiet ==
  /\ \/ LoadVersion \/ CreateRun \/ BeginRun
     \/ \E n \in todo : TryAdvance(n)
     \/ Settle
     \/ \E r \in results : ReceiveResult(r)
     \/ HandleCancelled \/ HandleRetry \/ HandleFailRun
     \/ \E rt \in retryCh : RetryDue(rt)
     \/ PersistFailed \/ ContextDone \/ LeaveLoop \/ FinishDrain
     \/ SaveVerdict \/ CloseRun
     \/ \E t \in work, out \in Outcome : Execute(t, out)
     \/ \E t \in timers : TimerFires(t)
     \/ Persist
     \/ CallerCancels
  /\ UNCHANGED <<sym, savedVars>>

\* A wrong dispatch: an attempt is given the snapshot of the one before it.
SnapshotOnce ==
  snapshots' = [t \in (DOMAIN snapshots) \cup work' |->
                  LET u == [t EXCEPT !.attempt = @ - 1] IN
                  IF t \in DOMAIN snapshots THEN snapshots[t]
                  ELSE IF u \in DOMAIN snapshots THEN snapshots[u]
                  ELSE sym]

\* dispatch takes its snapshot when it starts the worker.
Snapshot ==
  snapshots' = [t \in (DOMAIN snapshots) \cup work' |->
                  IF t \in DOMAIN snapshots THEN snapshots[t] ELSE sym]

SymNext ==
  \/ (Publish \/ Quiet) /\ Snapshot
  \/ Over /\ UNCHANGED symbolVars

SymSpec == SymInit /\ [][SymNext]_<<vars, symbolVars>>
-----------------------------------------------------------------------------
Replayed == FromPersistedState(rows, savedVars[dbRun.vars])

(***************************************************************************)
(* An attempt sees the outputs it was started for: its snapshot holds the  *)
(* output of the source of an in-edge that fired, of every in-edge for     *)
(* join all.  An attempt after a retry sees no less than the one before    *)
(* it, and as much as anybody: what the rows show before the row of an     *)
(* attempt is there, it has seen.  The output must be in the symbols       *)
(* before tryAdvance, and the snapshot be taken anew at each dispatch      *)
(* (scheduler.go:126, 257, 323).                                           *)
(***************************************************************************)
Fed(s, e) == edgeState[e] = "live" /\ s.nodes[EdgeFrom[e]] # Unset

SeesSources ==
  \A t \in DOMAIN snapshots : t.node \notin Roots =>
    IF t.node \in JoinAllNodes
    THEN \A e \in InEdges(t.node) : Fed(snapshots[t], e)
    ELSE \E e \in InEdges(t.node) : Fed(snapshots[t], e)

SeesNoLess ==
  \A t, u \in DOMAIN snapshots :
    u.node = t.node /\ u.attempt < t.attempt =>
      \A n \in Nodes : snapshots[u].nodes[n] # Unset =>
                         snapshots[t].nodes[n] = snapshots[u].nodes[n]

Unstored(t) ==
  \E i \in DOMAIN persistQ :
    /\ persistQ[i].kind = "append"
    /\ persistQ[i].node = t.node /\ persistQ[i].attempt = t.attempt

SeesWhatIsStored ==
  \A t \in DOMAIN snapshots : Unstored(t) =>
    \A n \in Nodes : Replayed.nodes[n] \in {Unset, snapshots[t].nodes[n]}

SeesWhatFiredIt == SeesSources /\ SeesNoLess /\ SeesWhatIsStored

(***************************************************************************)
(* A replay never shows what did not happen: at any moment, hence after    *)
(* any crash and whatever write failed, the outputs FromPersistedState     *)
(* rebuilds are outputs the run has published, and the variables are what  *)
(* the nodes covered have set: each is of such a node and as it published  *)
(* it, none that one of them set is missing, and the node that set it last *)
(* has it if it is covered (symbols.go:168, persist.go:120).               *)
(***************************************************************************)
OutputsReplayed == \A n \in Nodes : Replayed.nodes[n] \in {Unset, sym.nodes[n]}

VariableReplayed(k) ==
  LET out  == Replayed.vars[k]
      last == sym.vars[k]
  IN  /\ IF out = Unset
         THEN \A n \in dbRun.vars : k \notin KeysOf(sym.nodes[n])
         ELSE out.node \in dbRun.vars /\ out = sym.nodes[out.node] /\ k \in KeysOf(out)
      /\ last # Unset /\ last.node \in dbRun.vars => out = last

VariablesReplayed == \A k \in Keys : VariableReplayed(k)
ReplayWithinRun   == OutputsReplayed /\ VariablesReplayed

(***************************************************************************)
(* A replay of a run that ended as a success, as cancelled or without an   *)
(* End is that run: all it published is rebuilt, but for what error ports  *)
(* carried, and what an attempt was given of a node is what the replay     *)
(* shows of it, so the inputs saved with the attempt can be explained      *)
(* (symbols.go:167, 191).                                                  *)
(***************************************************************************)
ReplayIsRun ==
  (dbRun.status \in {"success", "cancelled"} \/ dbRun.error = "no_end_reached") =>
    /\ Replayed.vars = sym.vars
    /\ \A n \in Nodes :
         sym.nodes[n] = Unset \/ sym.nodes[n].by # "error" =>
           /\ Replayed.nodes[n] = sym.nodes[n]
           /\ \A t \in DOMAIN snapshots :
                snapshots[t].nodes[n] \in {Unset, Replayed.nodes[n]}
==============================================================================
