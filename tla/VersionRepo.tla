------------------------------ MODULE VersionRepo ------------------------------
(***************************************************************************)
(* The drafts and releases of one workflow definition, as the transactions *)
(* of infrastructure/storage/workflow/repository.go read and write them.   *)
(*                                                                         *)
(* PostgreSQL runs these transactions at READ COMMITTED, the level GORM    *)
(* opens them with: every statement sees what was committed when it        *)
(* started and the transaction's own writes, a row written by an open      *)
(* transaction makes other writers wait, and a writer that waited tests    *)
(* its WHERE clause again on the row it finds.  One step is one statement. *)
(***************************************************************************)
EXTENDS Naturals

CONSTANTS
  Sessions,     \* callers; each has at most one call under way
  VersionIds,   \* bound: what uuid.NewString returns, each once; with none
                \* left the INSERT fails
  DSLs,         \* contents of a version
  MaxRevision,  \* bound: SaveVersion is not called beyond this revision
  Renames,      \* whether callers read, edit and write back the definition
  None,         \* NULL, no row, and in a transaction an untouched row
  Deleted       \* in a transaction, a row it deleted

Row == [number : Nat, state : {"draft", "release"}, dsl : DSLs, rev : Nat,
        by : Sessions \cup {None}]

Definition == [draft : VersionIds \cup {None},
               published : VersionIds \cup {None}, deleted : BOOLEAN]

ASSUME RepoAssumption ==
  /\ MaxRevision \in Nat
  /\ Renames \in BOOLEAN
  /\ None \notin VersionIds \cup Sessions \cup DSLs \cup {Deleted}
  /\ None \notin Row \cup Definition /\ Deleted \notin Row

VARIABLES
  versions,    \* committed workflow_versions rows of the definition
  definition,  \* its committed workflow_definitions row
  minted,      \* IDs handed out
  pc,          \* session -> the statement it executes next
  call,        \* session -> the call under way and what it read so far
  writes,      \* session -> uncommitted workflow_versions rows
  defWrite     \* session -> uncommitted workflow_definitions row

vars == <<versions, definition, minted, pc, call, writes, defWrite>>

shared == <<versions, definition>>

Call == [kind : {"none", "save", "publish", "both", "discard", "update",
                 "delete"},
         dsl : DSLs \cup {None}, rev : Nat, id : VersionIds \cup {None},
         number : Nat, copy : Definition \cup {None}]

NoCall == [kind |-> "none", dsl |-> None, rev |-> 0, id |-> None, number |-> 0,
           copy |-> None]

TypeOK ==
  /\ versions \in [VersionIds -> Row \cup {None}]
  /\ definition \in Definition
  /\ minted \in SUBSET VersionIds
  /\ pc \in [Sessions -> {"idle", "readHead", "update", "insert", "pointDraft",
                          "readTarget", "checkHead", "release",
                          "pointPublished", "findDraft", "deleteDraft",
                          "clearDraft", "readDef", "writeDef",
                          "deleteDef", "commit"}]
  /\ call \in [Sessions -> Call]
  /\ writes \in [Sessions -> [VersionIds -> Row \cup {None, Deleted}]]
  /\ defWrite \in [Sessions -> Definition \cup {None}]

Untouched == [i \in VersionIds |-> None]

\* After CreateDefinition: no version yet.
Init ==
  /\ versions = [i \in VersionIds |-> None]
  /\ definition = [draft |-> None, published |-> None, deleted |-> FALSE]
  /\ minted = {}
  /\ pc = [s \in Sessions |-> "idle"]
  /\ call = [s \in Sessions |-> NoCall]
  /\ writes = [s \in Sessions |-> Untouched]
  /\ defWrite = [s \in Sessions |-> None]
-----------------------------------------------------------------------------
(***************************************************************************)
(* The database.                                                           *)
(***************************************************************************)
\* What a statement of s reads.
Visible(s, i) ==
  CASE writes[s][i] = None    -> versions[i]
    [] writes[s][i] = Deleted -> None
    [] OTHER                  -> writes[s][i]

VisibleDef(s) == IF defWrite[s] = None THEN definition ELSE defWrite[s]

Existing(s) == {i \in VersionIds : Visible(s, i) # None}
Heads(s) == {i \in Existing(s) :
               \A j \in Existing(s) : Visible(s, j).number <= Visible(s, i).number}

\* A wrong set: the inner transactions of save-and-publish are opened on
\* connections of their own, and wait for the outer one.
AnyTransaction(s) == Sessions

\* The transactions a statement of s may have to wait for.
Others(s) == Sessions \ {s}

\* One of them wrote the row.
Locked(s, i) == \E o \in Others(s) : writes[o][i] # None
DefLocked(s) == \E o \in Others(s) : defWrite[o] # None

\* s writes row r at i, and goes on with statement next.
Write(s, i, r, next) ==
  /\ writes' = [writes EXCEPT ![s][i] = r]
  /\ pc' = [pc EXCEPT ![s] = next]
  /\ UNCHANGED <<shared, minted, call, defWrite>>

\* An UPDATE of the definition: the soft-delete scope makes it touch no row
\* once the definition is deleted, and nobody looks at RowsAffected.
WriteDef(s, d, next) ==
  /\ ~DefLocked(s)
  /\ defWrite' = [defWrite EXCEPT ![s] =
                    IF VisibleDef(s).deleted THEN @ ELSE d]
  /\ pc' = [pc EXCEPT ![s] = next]
  /\ UNCHANGED <<shared, minted, call, writes>>

Goto(s, next) ==
  /\ pc' = [pc EXCEPT ![s] = next]
  /\ UNCHANGED <<shared, minted, call, writes, defWrite>>

\* The call of s is over and its locks are released.
Release(s) ==
  /\ pc' = [pc EXCEPT ![s] = "idle"]
  /\ call' = [call EXCEPT ![s] = NoCall]
  /\ writes' = [writes EXCEPT ![s] = Untouched]
  /\ defWrite' = [defWrite EXCEPT ![s] = None]

Rollback(s) == Release(s) /\ UNCHANGED <<shared, minted>>

Commit(s) ==
  /\ pc[s] = "commit"
  /\ versions' = [i \in VersionIds |-> Visible(s, i)]
  /\ definition' = VisibleDef(s)
  /\ Release(s)
  /\ UNCHANGED minted

\* The connection or the server fails: the transaction is rolled back.
ConnectionLost(s) == pc[s] # "idle" /\ Rollback(s)
-----------------------------------------------------------------------------
(***************************************************************************)
(* The calls begin.  "both" is the save-and-publish of the application     *)
(* layer: SaveVersion, then PublishVersion of the version it returned, in  *)
(* one outer DBTransaction that the inner ones reuse.                      *)
(***************************************************************************)
Begin(s, c, first) ==
  /\ pc[s] = "idle"
  /\ pc' = [pc EXCEPT ![s] = first]
  /\ call' = [call EXCEPT ![s] = c]
  /\ UNCHANGED <<shared, minted, writes, defWrite>>

BeginSave(s) ==
  \E dsl \in DSLs, rev \in 0..MaxRevision, kind \in {"save", "both"} :
    Begin(s, [NoCall EXCEPT !.kind = kind, !.dsl = dsl, !.rev = rev], "readHead")

BeginPublish(s) ==
  \E i \in minted :
    Begin(s, [NoCall EXCEPT !.kind = "publish", !.id = i], "readTarget")

BeginDiscard(s) == Begin(s, [NoCall EXCEPT !.kind = "discard"], "findDraft")

BeginUpdate(s) ==
  Renames /\ Begin(s, [NoCall EXCEPT !.kind = "update"], "readDef")

BeginDelete(s) == Begin(s, [NoCall EXCEPT !.kind = "delete"], "deleteDef")
-----------------------------------------------------------------------------
(***************************************************************************)
(* SaveVersion.                                                            *)
(***************************************************************************)
\* A wrong sequence: save-and-publish stops after the save.
SaveOnly(s) == "commit"

AfterSave(s) == IF call[s].kind = "both" THEN "readTarget" ELSE "commit"

InsertAs(s, n) ==
  /\ pc' = [pc EXCEPT ![s] = "insert"]
  /\ call' = [call EXCEPT ![s].number = n]
  /\ UNCHANGED <<shared, minted, writes, defWrite>>

ReadHead(s) ==
  /\ pc[s] = "readHead"
  /\ \/ Existing(s) = {} /\ InsertAs(s, 1)
     \/ \E i \in Heads(s) : LET head == Visible(s, i) IN
          \/ head.state = "release" /\ InsertAs(s, head.number + 1)
          \/ /\ head.state = "draft"
             /\ head.rev # call[s].rev
             /\ Rollback(s)
          \/ /\ head.state = "draft"
             /\ head.rev = call[s].rev
             /\ pc' = [pc EXCEPT ![s] = "update"]
             /\ call' = [call EXCEPT ![s].id = i]
             /\ UNCHANGED <<shared, minted, writes, defWrite>>

\* A wrong UPDATE: the revision is not in its WHERE clause.
MatchesId(s, i) == Visible(s, i) # None

\* WHERE id = ? AND revision = ?
Matches(s, i) == Visible(s, i) # None /\ Visible(s, i).rev = call[s].rev

UpdateDraft(s) ==
  LET i == call[s].id IN
  /\ pc[s] = "update"
  /\ ~Locked(s, i)
  /\ IF Matches(s, i)
     THEN Write(s, i, [Visible(s, i) EXCEPT !.dsl = call[s].dsl, !.rev = @ + 1],
                AfterSave(s))
     ELSE Rollback(s)

\* A wrong index: drafts are not limited to one, numbers may repeat.
NoIndex(row, n) == FALSE

\* A unique index has both rows: same number, or both drafts.
Clashes(row, n) ==
  row \notin {None, Deleted} /\ (row.number = n \/ row.state = "draft")

\* The INSERT waits for the open transactions that wrote a clashing row, or
\* a row that clashed before they wrote it, and then fails on a clash.
InsertDraft(s) ==
  LET n == call[s].number IN
  /\ pc[s] = "insert"
  /\ \A i \in VersionIds : Locked(s, i) =>
       /\ ~Clashes(versions[i], n)
       /\ \A o \in Others(s) : ~Clashes(writes[o][i], n)
  /\ IF \/ \E i \in VersionIds : Clashes(Visible(s, i), n)
        \/ VersionIds \subseteq minted
     THEN Rollback(s)
     ELSE \E i \in VersionIds \ minted :
            /\ minted' = minted \cup {i}
            /\ writes' = [writes EXCEPT ![s][i] =
                 [number |-> n, state |-> "draft", dsl |-> call[s].dsl,
                  rev |-> 1, by |-> None]]
            /\ call' = [call EXCEPT ![s].id = i]
            /\ pc' = [pc EXCEPT ![s] = "pointDraft"]
            /\ UNCHANGED <<shared, defWrite>>

PointDraft(s) ==
  /\ pc[s] = "pointDraft"
  /\ WriteDef(s, [VisibleDef(s) EXCEPT !.draft = call[s].id], AfterSave(s))

(***************************************************************************)
(* PublishVersion.                                                         *)
(***************************************************************************)
\* A wrong check: a release is published again.
NeverReleased(row) == FALSE

AlreadyReleased(row) == row.state = "release"

ReadTarget(s) ==
  LET row == Visible(s, call[s].id) IN
  /\ pc[s] = "readTarget"
  /\ \/ row = None /\ Rollback(s)
     \/ row # None /\ AlreadyReleased(row) /\ Goto(s, "commit")
     \/ /\ row # None /\ ~AlreadyReleased(row)
        /\ pc' = [pc EXCEPT ![s] = "checkHead"]
        /\ call' = [call EXCEPT ![s].number = row.number]
        /\ UNCHANGED <<shared, minted, writes, defWrite>>

CheckHead(s) ==
  /\ pc[s] = "checkHead"
  /\ IF \E i \in Heads(s) : Visible(s, i).number = call[s].number
     THEN Goto(s, "release")
     ELSE Rollback(s)

Released(s, i) == [Visible(s, i) EXCEPT !.state = "release", !.by = s]

\* WHERE id = ?: a row that is gone by now is no error.
ReleaseVersion(s) ==
  LET i == call[s].id IN
  /\ pc[s] = "release"
  /\ ~Locked(s, i)
  /\ IF Visible(s, i) = None
     THEN Goto(s, "pointPublished")
     ELSE Write(s, i, Released(s, i), "pointPublished")

PointPublished(s) ==
  /\ pc[s] = "pointPublished"
  /\ WriteDef(s, [VisibleDef(s) EXCEPT !.draft = None, !.published = call[s].id],
              "commit")

(***************************************************************************)
(* DiscardDraft: the DELETE finds the draft in its snapshot, waits for the *)
(* row's lock, and deletes it if it still is a draft.                      *)
(***************************************************************************)
FindDraft(s) ==
  LET drafts == {i \in Existing(s) : Visible(s, i).state = "draft"} IN
  /\ pc[s] = "findDraft"
  /\ IF drafts = {}
     THEN Goto(s, "clearDraft")
     ELSE \E i \in drafts :
            /\ pc' = [pc EXCEPT ![s] = "deleteDraft"]
            /\ call' = [call EXCEPT ![s].id = i]
            /\ UNCHANGED <<shared, minted, writes, defWrite>>

\* A wrong DELETE: by ID, whatever the row has become.
StillThere(s, i) == Visible(s, i) # None

StillADraft(s, i) == Visible(s, i) # None /\ Visible(s, i).state = "draft"

DeleteDraft(s) ==
  LET i == call[s].id IN
  /\ pc[s] = "deleteDraft"
  /\ ~Locked(s, i)
  /\ IF StillADraft(s, i) THEN Write(s, i, Deleted, "clearDraft")
                          ELSE Goto(s, "clearDraft")

\* A wrong DiscardDraft that clears both pointers.
BothCleared(s) == [VisibleDef(s) EXCEPT !.draft = None, !.published = None]

DraftCleared(s) == [VisibleDef(s) EXCEPT !.draft = None]

ClearDraft(s) ==
  /\ pc[s] = "clearDraft"
  /\ WriteDef(s, DraftCleared(s), "commit")

(***************************************************************************)
(* UpdateDefinition writes back every column of the copy the caller read,  *)
(* the pointers included; DeleteDefinition is a soft delete.               *)
(***************************************************************************)
ReadDef(s) ==
  /\ pc[s] = "readDef"
  /\ IF definition.deleted
     THEN Rollback(s)
     ELSE /\ pc' = [pc EXCEPT ![s] = "writeDef"]
          /\ call' = [call EXCEPT ![s].copy = definition]
          /\ UNCHANGED <<shared, minted, writes, defWrite>>

UpdateDefinition(s) ==
  /\ pc[s] = "writeDef"
  /\ ~DefLocked(s)
  /\ IF definition.deleted THEN Rollback(s) ELSE WriteDef(s, call[s].copy, "commit")

DeleteDefinition(s) ==
  /\ pc[s] = "deleteDef"
  /\ ~DefLocked(s)
  /\ IF definition.deleted
     THEN Rollback(s)
     ELSE WriteDef(s, [definition EXCEPT !.deleted = TRUE], "commit")
-----------------------------------------------------------------------------
Calls(s) ==
  \/ BeginSave(s) \/ BeginPublish(s) \/ BeginDiscard(s)
  \/ BeginUpdate(s) \/ BeginDelete(s)

Statement(s) ==
  \/ ReadHead(s) \/ UpdateDraft(s) \/ InsertDraft(s) \/ PointDraft(s)
  \/ ReadTarget(s) \/ CheckHead(s) \/ ReleaseVersion(s) \/ PointPublished(s)
  \/ FindDraft(s) \/ DeleteDraft(s) \/ ClearDraft(s)
  \/ ReadDef(s) \/ UpdateDefinition(s) \/ DeleteDefinition(s)
  \/ Commit(s)

Next == \E s \in Sessions : Calls(s) \/ Statement(s) \/ ConnectionLost(s)

Spec == Init /\ [][Next]_vars
=============================================================================
