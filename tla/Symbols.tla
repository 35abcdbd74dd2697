-------------------------------- MODULE Symbols --------------------------------
(***************************************************************************)
(* The variables a run's nodes can refer to (domain/run/symbols.go), and   *)
(* how a node's inputs and configuration are resolved against them         *)
(* (domain/engine/resolve.go, template.go).                                *)
(*                                                                         *)
(* An output is known by the attempt that produced it and the way it came  *)
(* about; of its content only the top-level keys matter.  Literals, text   *)
(* around a template and deeper paths are left out.                        *)
(***************************************************************************)
EXTENDS WorkflowDSL, FiniteSetsExt

CONSTANTS
  Keys,         \* keys of outputs, of variables and of the trigger payload
  TriggerKeys,  \* keys of the trigger payload
  OutputKeys,   \* node -> source -> the keys such an output of it has
  InputRefs,    \* node -> what its Inputs refer to
  ConfigRefs,   \* node -> what the templates in its Config refer to
  Lenient,      \* Config.TemplateMode is TemplateLenient
  Unset         \* not in the map

\* How propagate comes by an output: the executor's, the policy's fallback,
\* or the message of the error it fires the error port with.
Sources == {"success", "fallback", "error"}

Output == [node : Nodes, attempt : Nat, by : Sources]

\* A reference "root.name.key"; key is Unset when it stops at the name.
Reference == [kind : {"ref", "template"}, root : {"trigger", "vars", "nodes"},
              name : Nodes \cup Keys, key : Keys \cup {Unset}]

SymbolTable == [nodes : [Nodes -> Output \cup {Unset}],
                vars : [Keys -> Output \cup {Unset}]]

ASSUME SymbolAssumption ==
  /\ TriggerKeys \subseteq Keys
  /\ OutputKeys \in [Nodes -> [Sources -> SUBSET Keys]]
  /\ InputRefs \in [Nodes -> SUBSET Reference]
  /\ ConfigRefs \in [Nodes -> SUBSET {r \in Reference : r.kind = "template"}]
  /\ Lenient \in BOOLEAN
  /\ Unset \notin Keys \cup Output
  /\ \A n \in Nodes : InputRefs[n] \cup ConfigRefs[n] # {} =>
                        "unresolved" \in Outcomes[n]

NewSymbols == [nodes |-> [n \in Nodes |-> Unset], vars |-> [k \in Keys |-> Unset]]

KeysOf(out) == OutputKeys[out.node][out.by]

SetNodeOutput(s, out) == [s EXCEPT !.nodes[out.node] = out]

\* SetVar for every key of a set_variable node's output, the error's too.
SetVars(s, out) ==
  [s EXCEPT !.vars = [k \in Keys |-> IF k \in KeysOf(out) THEN out ELSE @[k]]]

\* walkPath, one step: the key is there, or the path stops here.
HasKey(out, key) == key = Unset \/ key \in KeysOf(out)

\* Lookup finds what r refers to.
Lookup(s, r) ==
  \/ r.root = "trigger" /\ r.name \in TriggerKeys
  \/ r.root = "vars"  /\ s.vars[r.name] # Unset
  \/ r.root = "nodes" /\ s.nodes[r.name] # Unset /\ HasKey(s.nodes[r.name], r.key)

\* A ref names a node of the workflow; a template that is not found stands
\* for itself in lenient mode.
ResolveRef(s, r)     == r.root = "nodes" /\ r.name \in Nodes /\ Lookup(s, r)
ExpandTemplate(s, r) == Lenient \/ Lookup(s, r)

ResolveOne(s, r) == IF r.kind = "ref" THEN ResolveRef(s, r) ELSE ExpandTemplate(s, r)

ResolveInputs(n, s) == \A r \in InputRefs[n] : ResolveOne(s, r)
ResolveConfig(n, s) == \A r \in ConfigRefs[n] : ExpandTemplate(s, r)

\* Everything node n refers to is found in s.
Resolves(n, s) == ResolveInputs(n, s) /\ ResolveConfig(n, s)
-----------------------------------------------------------------------------
(***************************************************************************)
(* FromPersistedState: the symbols rebuilt from the rows of a run.         *)
(***************************************************************************)
\* A wrong test: the output of any finished attempt counts.
VisibleIfEnded(row) == row.status \in {"success", "failed"}

\* A wrong test: fallback outputs are forgotten.
VisibleIfSuccess(row) == row.status = "success"

VisibleRow(row) == row.status = "success" \/ row.fallback

SourceOf(row) ==
  IF row.fallback THEN "fallback"
  ELSE IF row.status = "success" THEN "success"
  ELSE "error"

\* The output of node n, whose rows by attempt are nrs: the latest visible.
RebuiltOutput(n, nrs) ==
  LET visible == {a \in Attempts : VisibleRow(nrs[a])} IN
  IF visible = {} THEN Unset
  ELSE [node |-> n, attempt |-> Max(visible), by |-> SourceOf(nrs[Max(visible)])]

FromPersistedState(nodeRuns, vars) ==
  [nodes |-> [n \in Nodes |-> RebuiltOutput(n, nodeRuns[n])], vars |-> vars]
==============================================================================
