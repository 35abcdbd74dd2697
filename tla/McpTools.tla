------------------------------- MODULE McpTools -------------------------------
(***************************************************************************)
(* The tools of one MCP server: refreshes replace the list, users switch   *)
(* single tools on and off (infrastructure/storage/plugin/                 *)
(* mcp_tool_repository.go).                                                *)
(*                                                                         *)
(* As in VersionRepo, PostgreSQL runs the transactions at READ COMMITTED.  *)
(* A DELETE finds its rows in the snapshot of its start and takes their    *)
(* locks one by one; one it had to wait for it tests again.  An INSERT ..  *)
(* ON CONFLICT DO UPDATE inserts or locks and updates row by row, in the   *)
(* order of the list.  A circle of waits is ended by aborting one of it.   *)
(***************************************************************************)
EXTENDS Naturals, Sequences, SequencesExt

CONSTANTS
  Sessions,      \* callers; each has at most one call under way
  Names,         \* names of tools
  Lists,         \* the lists a server may answer a refresh with
  MaxRefreshes,  \* bound: UpsertAll is called this often
  None,          \* no row, and in a transaction an untouched row
  Deleted        \* in a transaction, a row it deleted

\* Refresh k brings new IDs with it, and descriptions and schemas: the row it
\* inserts for a name has ID k, the row it writes has content k.
Row  == [id : Nat, content : Nat, enabled : BOOLEAN]

ASSUME ToolsAssumption ==
  /\ Lists \subseteq Seq(Names)
  /\ MaxRefreshes \in Nat
  /\ None \notin Row \cup Names \cup {Deleted}
  /\ Deleted \notin Row

VARIABLES
  tools,      \* name -> committed mcp_tools row, UNIQUE (server_id, name)
  refreshes,  \* UpsertAll calls so far
  pc,         \* session -> the statement it executes next
  call,       \* session -> the call under way
  writes,     \* session -> name -> uncommitted row
  late        \* history: session -> names whose row others committed since
              \* the DELETE of its refresh began

vars == <<tools, refreshes, pc, call, writes, late>>

\* doomed: the rows a DELETE has found and not yet deleted.
Call == [kind : {"none", "refresh", "switch"}, number : Nat, list : Seq(Names),
         next : Nat, enabled : BOOLEAN, name : Names \cup {None}, id : Nat,
         doomed : SUBSET (Names \X Nat)]

NoCall == [kind |-> "none", number |-> 0, list |-> <<>>, next |-> 1,
           enabled |-> TRUE, name |-> None, id |-> 0, doomed |-> {}]

TypeOK ==
  /\ tools \in [Names -> Row \cup {None}]
  /\ refreshes \in Nat
  /\ pc \in [Sessions -> {"idle", "find", "delete", "upsert", "commit", "switch"}]
  /\ call \in [Sessions -> Call]
  /\ writes \in [Sessions -> [Names -> Row \cup {None, Deleted}]]
  /\ late \in [Sessions -> SUBSET Names]

Untouched == [n \in Names |-> None]

Init ==
  /\ tools = Untouched
  /\ refreshes = 0
  /\ pc = [s \in Sessions |-> "idle"]
  /\ call = [s \in Sessions |-> NoCall]
  /\ writes = [s \in Sessions |-> Untouched]
  /\ late = [s \in Sessions |-> {}]
-----------------------------------------------------------------------------
(***************************************************************************)
(* The database.                                                           *)
(***************************************************************************)
\* What a statement of s finds under name n once it has the lock.
Visible(s, n) ==
  CASE writes[s][n] = None    -> tools[n]
    [] writes[s][n] = Deleted -> None
    [] OTHER                  -> writes[s][n]

Locked(s, n) == \E o \in Sessions \ {s} : writes[o][n] # None

\* s goes on with statement next, as call c.
Continue(s, next, c) ==
  /\ pc' = [pc EXCEPT ![s] = next]
  /\ call' = [call EXCEPT ![s] = c]

Release(s) ==
  /\ Continue(s, "idle", NoCall)
  /\ writes' = [writes EXCEPT ![s] = Untouched]

NewRows == {n \in Names : /\ tools'[n] # None
                          /\ tools[n] = None \/ tools[n].id # tools'[n].id}

Commit(s) ==
  /\ pc[s] = "commit"
  /\ tools' = [n \in Names |-> Visible(s, n)]
  /\ Release(s)
  /\ late' = [o \in Sessions |->
                IF o = s THEN {}
                ELSE IF pc[o] \in {"delete", "upsert", "commit"}
                     THEN late[o] \cup NewRows ELSE late[o]]
  /\ UNCHANGED refreshes

\* The connection is lost, or the database aborts s to end a deadlock.
Abort(s) ==
  /\ pc[s] # "idle"
  /\ Release(s)
  /\ late' = [late EXCEPT ![s] = {}]
  /\ UNCHANGED <<tools, refreshes>>
-----------------------------------------------------------------------------
(***************************************************************************)
(* UpsertAll.                                                              *)
(***************************************************************************)
Listed(s) == Range(call[s].list)

BeginRefresh(s) ==
  /\ pc[s] = "idle"
  /\ refreshes < MaxRefreshes
  /\ refreshes' = refreshes + 1
  /\ \E list \in Lists, enabled \in BOOLEAN :
       Continue(s, "find", [NoCall EXCEPT !.kind = "refresh", !.number = refreshes',
                                          !.list = list, !.enabled = enabled])
  /\ UNCHANGED <<tools, writes, late>>

\* A wrong DELETE: a server that answers with no tools keeps its rows.
DoomedUnlessEmpty(s) ==
  {n \in Names \ Listed(s) : tools[n] # None /\ call[s].list # <<>>}

\* WHERE server_id = ? AND name NOT IN ?, without the second for an empty list.
Doomed(s) == {n \in Names \ Listed(s) : tools[n] # None}

\* The DELETE takes its snapshot.
FindDoomed(s) ==
  /\ pc[s] = "find"
  /\ Continue(s, "delete",
              [call[s] EXCEPT !.doomed = {<<n, tools[n].id>> : n \in Doomed(s)}])
  /\ UNCHANGED <<tools, refreshes, writes, late>>

\* It deletes one row, unless another transaction has by now.
DeleteRow(s) ==
  /\ pc[s] = "delete"
  /\ \E d \in call[s].doomed : LET n == d[1] IN
       /\ ~Locked(s, n)
       /\ writes' = IF Visible(s, n) # None /\ Visible(s, n).id = d[2]
                    THEN [writes EXCEPT ![s][n] = Deleted] ELSE writes
       /\ Continue(s, "delete", [call[s] EXCEPT !.doomed = @ \ {d}])
  /\ UNCHANGED <<tools, refreshes, late>>

DeleteEnds(s) ==
  /\ pc[s] = "delete"
  /\ call[s].doomed = {}
  /\ Continue(s, IF call[s].list = <<>> THEN "commit" ELSE "upsert", call[s])
  /\ UNCHANGED <<tools, refreshes, writes, late>>

NewRow(s) ==
  [id |-> call[s].number, content |-> call[s].number, enabled |-> call[s].enabled]

\* A wrong DO UPDATE: enabled is overwritten as well.
UpdatedAll(s, row) ==
  [row EXCEPT !.content = call[s].number, !.enabled = call[s].enabled]

\* DO UPDATE leaves id and enabled alone.
Updated(s, row) == [row EXCEPT !.content = call[s].number]

\* The INSERT goes on to the next of its list; it may not meet the same row
\* twice.
UpsertRow(s) ==
  LET c == call[s]
      n == c.list[c.next]
  IN  /\ pc[s] = "upsert"
      /\ \A i \in 1..(c.next - 1) : c.list[i] # n
      /\ ~Locked(s, n)
      /\ writes' = [writes EXCEPT ![s][n] =
                      IF Visible(s, n) = None THEN NewRow(s)
                      ELSE Updated(s, Visible(s, n))]
      /\ Continue(s, IF c.next = Len(c.list) THEN "commit" ELSE "upsert",
                  [c EXCEPT !.next = @ + 1])
      /\ UNCHANGED <<tools, refreshes, late>>

\* A name comes twice: the statement fails and takes the transaction along.
DuplicateName(s) ==
  /\ pc[s] = "upsert"
  /\ \E i \in 1..(call[s].next - 1) : call[s].list[i] = call[s].list[call[s].next]
  /\ Abort(s)

(***************************************************************************)
(* SetEnabled, with an ID the user has read: one UPDATE by ID.             *)
(***************************************************************************)
BeginSwitch(s) ==
  /\ pc[s] = "idle"
  /\ \E n \in Names, enabled \in BOOLEAN :
       /\ tools[n] # None
       /\ Continue(s, "switch", [NoCall EXCEPT !.kind = "switch", !.name = n,
                                   !.id = tools[n].id, !.enabled = enabled])
  /\ UNCHANGED <<tools, refreshes, writes, late>>

\* The row is still the one that was read.
SameTool(s) ==
  LET n == call[s].name IN tools[n] # None /\ tools[n].id = call[s].id

\* A wrong SetEnabled: no row affected, and it tries again.
SetEnabledAgain(s) ==
  LET n == call[s].name IN
  /\ pc[s] = "switch"
  /\ SameTool(s)
  /\ ~Locked(s, n)
  /\ tools' = [tools EXCEPT ![n].enabled = call[s].enabled]
  /\ Release(s)
  /\ UNCHANGED <<refreshes, late>>

SetEnabled(s) ==
  LET n == call[s].name IN
  /\ pc[s] = "switch"
  /\ IF SameTool(s)
     THEN /\ ~Locked(s, n)
          /\ tools' = [tools EXCEPT ![n].enabled = call[s].enabled]
     ELSE UNCHANGED tools   \* ErrMcpToolNotFound
  /\ Release(s)
  /\ UNCHANGED <<refreshes, late>>
-----------------------------------------------------------------------------
Begins(s) == BeginRefresh(s) \/ BeginSwitch(s)

Statement(s) ==
  \/ FindDoomed(s) \/ DeleteRow(s) \/ DeleteEnds(s)
  \/ UpsertRow(s) \/ DuplicateName(s)
  \/ SetEnabled(s)
  \/ Commit(s)

Next == \E s \in Sessions : Begins(s) \/ Statement(s) \/ Abort(s)

(***************************************************************************)
(* s waits for a row of o.                                                 *)
(***************************************************************************)
WaitsFor(s, o) ==
  /\ s # o
  /\ \/ pc[s] = "delete" /\ \E d \in call[s].doomed : writes[o][d[1]] # None
     \/ /\ pc[s] = "upsert"
        /\ writes[o][call[s].list[call[s].next]] # None

\* The waits form a circle through s.
Deadlocked(s) ==
  \E circle \in SUBSET Sessions :
    /\ s \in circle
    /\ \A p \in circle : \E o \in circle : WaitsFor(p, o)

(***************************************************************************)
(* The database answers, and ends deadlocks.                               *)
(***************************************************************************)
Fairness ==
  \A s \in Sessions : WF_vars(Statement(s)) /\ WF_vars(Deadlocked(s) /\ Abort(s))

Spec == Init /\ [][Next]_vars /\ Fairness
-----------------------------------------------------------------------------
(***************************************************************************)
(* A user's switch survives every refresh: a tool keeps its row, and with  *)
(* it ID and enabled, until a refresh that does not list it commits; only  *)
(* SetEnabled changes enabled, to what its user asked for.  A refresh that *)
(* read the row before the switch, or deleted and inserted it, would undo  *)
(* the choice (mcp_tool_repository.go:61-64).                              *)
(***************************************************************************)
DroppedBy(s, n) == Commit(s) /\ n \notin Listed(s)

SwitchedBy(s, n) == /\ pc[s] = "switch" /\ pc'[s] = "idle"
                    /\ call[s].name = n /\ call[s].id = tools[n].id
                    /\ tools'[n].enabled = call[s].enabled

PreferenceKept ==
  [][\A n \in Names :
       tools[n] # None =>
         IF tools'[n] = None
         THEN \E s \in Sessions : DroppedBy(s, n)
         ELSE /\ tools'[n].id = tools[n].id
              /\ \/ tools'[n].enabled = tools[n].enabled
                 \/ \E s \in Sessions : SwitchedBy(s, n)]_vars

(***************************************************************************)
(* A refresh replaces the tools of its server: when it commits, the tools  *)
(* are those of its list with the content it brought, and beside them only *)
(* such as other refreshes inserted after its DELETE had begun             *)
(* (mcp_tool_repository.go:61-83).                                         *)
(***************************************************************************)
RefreshReplaces ==
  [][\A s \in Sessions :
       Commit(s) =>
         \A n \in Names :
           IF n \in Listed(s) THEN tools'[n] # None /\ tools'[n].content = call[s].number
           ELSE tools'[n] = None \/ n \in late[s]]_vars

(***************************************************************************)
(* Every call ends: waits that form no circle end by themselves, and one   *)
(* that does is between the statements of two connections, where the       *)
(* database sees it (db.go:72-74).                                         *)
(***************************************************************************)
CallsEnd == \A s \in Sessions : pc[s] # "idle" ~> pc[s] = "idle"
=============================================================================
