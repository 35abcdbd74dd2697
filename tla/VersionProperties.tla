--------------------------- MODULE VersionProperties ---------------------------
(***************************************************************************)
(* What the version repository promises: properties of module VersionRepo. *)
(***************************************************************************)
EXTENDS VersionRepo

(***************************************************************************)
(* What calls overlap with is remembered beside the repository: it decides *)
(* nothing.                                                                *)
(***************************************************************************)
VARIABLES
  known,    \* session -> the releases committed when its call began
  spoiled   \* pointers a call wrote over a commit it had overlooked

historyVars == <<known, spoiled>>

Rows     == {i \in VersionIds : versions[i] # None}
Drafts   == {i \in Rows : versions[i].state = "draft"}
Releases == {i \in Rows : versions[i].state = "release"}

(***************************************************************************)
(* There is at most one draft, its number is at least every release's, and *)
(* no two versions share a number.  Three racing calls could break it: two *)
(* saves that both found a release at the head, or a save and a discard    *)
(* that freed the number (version.go:8-9; repository.go:174, the indexes   *)
(* of schema.sql:36-38).                                                   *)
(***************************************************************************)
DraftIsHead ==
  /\ \A i, j \in Drafts : i = j
  /\ \A i \in Drafts, j \in Releases : versions[j].number <= versions[i].number
  /\ \A i, j \in Rows : versions[i].number = versions[j].number => i = j

(***************************************************************************)
(* A release is never deleted, renumbered or turned back into a draft,     *)
(* whatever statement meets it: the DELETE of DiscardDraft may wait for    *)
(* the very publication that makes the draft a release                     *)
(* (repository.go:290-294).                                                *)
(***************************************************************************)
ReleaseStays ==
  [][\A i \in Releases :
       /\ i \in Rows'
       /\ versions'[i].state = "release"
       /\ versions'[i].number = versions[i].number]_vars

(***************************************************************************)
(* Nobody saves over a change he has not seen: the content of a version    *)
(* changes only by the commit of a save whose expectedRevision was the     *)
(* revision replaced, and the revision moves on by one.  The comparison in *)
(* Go is of a row read before the lock; the WHERE clause decides           *)
(* (repository.go:156-169).                                                *)
(***************************************************************************)
NoLostSave ==
  [][\A i \in Rows \cap Rows' :
       versions'[i].dsl # versions[i].dsl =>
         /\ versions'[i].rev = versions[i].rev + 1
         /\ \E s \in Sessions : /\ pc[s] = "commit"
                                /\ call[s].id = i
                                /\ call[s].rev = versions[i].rev]_vars

(***************************************************************************)
(* Save-and-publish publishes what it saved: when its transaction commits, *)
(* the version is a release with the content the caller gave, not what     *)
(* another session saved between the two calls (db.go:71-80).              *)
(***************************************************************************)
PublishesWhatItSaved ==
  [][\A s \in Sessions :
       pc[s] = "commit" /\ call[s].kind = "both" /\ versions' # versions
       /\ pc'[s] = "idle" =>
         /\ versions'[call[s].id].state = "release"
         /\ versions'[call[s].id].dsl = call[s].dsl]_vars

(***************************************************************************)
(* No deadlock: transactions never wait for each other in a circle.  Each  *)
(* locks the version row before the definition's, and the inner            *)
(* transactions of save-and-publish are the outer one, or they would wait  *)
(* for their own caller (repository.go:199-201, 259-269; db.go:72-74).     *)
(***************************************************************************)
WaitsForRow(s, o, i) ==
  /\ o \in Others(s)
  /\ writes[o][i] # None
  /\ \/ pc[s] \in {"update", "release", "deleteDraft"} /\ i = call[s].id
     \/ /\ pc[s] = "insert"
        /\ \/ Clashes(versions[i], call[s].number)
           \/ Clashes(writes[o][i], call[s].number)

WaitsForDefinition(s, o) ==
  /\ o \in Others(s)
  /\ defWrite[o] # None
  /\ pc[s] \in {"pointDraft", "pointPublished", "clearDraft", "writeDef",
               "deleteDef"}

NoCircularWait ==
  ~\E circle \in (SUBSET Sessions) \ {{}} :
     \A s \in circle : \E o \in circle :
       \/ WaitsForDefinition(s, o)
       \/ \E i \in VersionIds : WaitsForRow(s, o, i)

(***************************************************************************)
(* The history.  A rename writes back the pointers it read, a discard      *)
(* clears the pointer to what it deleted, a publication moves the pointers *)
(* to what it released: each overlooks a commit when the pointer has moved *)
(* on, or what it releases no longer is the draft.                         *)
(***************************************************************************)
RenameOverlooks(s, pointer) ==
  call[s].kind = "update" /\ call[s].copy[pointer] # definition[pointer]

DiscardOverlooks(s) ==
  call[s].kind = "discard" /\ definition.draft \notin {None, call[s].id}

PublishOverlooks(s) ==
  /\ call[s].kind \in {"publish", "both"}
  /\ call[s].id \notin Drafts
  /\ call[s].kind = "both" => versions[call[s].id] # None

Overlooks(s, pointer) ==
  /\ defWrite[s] # None
  /\ \/ RenameOverlooks(s, pointer)
     \/ pointer = "draft" /\ DiscardOverlooks(s)
     \/ PublishOverlooks(s)

Remember(s) ==
  /\ known' = [known EXCEPT ![s] =
                 IF pc'[s] \in {"idle", "readDef", "deleteDef"} THEN {}
                 ELSE IF pc[s] = "idle" THEN Releases
                 ELSE @]
  /\ spoiled' = IF shared' = shared THEN spoiled
                ELSE spoiled \cup {p \in {"draft", "published"} : Overlooks(s, p)}

HistoryInit ==
  /\ Init
  /\ known = [s \in Sessions |-> {}]
  /\ spoiled = {}

HistoryNext ==
  \E s \in Sessions :
    (Calls(s) \/ Statement(s) \/ ConnectionLost(s)) /\ Remember(s)

HistorySpec == HistoryInit /\ [][HistoryNext]_<<vars, historyVars>>
-----------------------------------------------------------------------------
(***************************************************************************)
(* draft_version_id names the draft, and is NULL when there is none        *)
(* (definition.go:14).                                                     *)
(***************************************************************************)
DraftPointerExact ==
  ~definition.deleted =>
    /\ definition.draft # None => definition.draft \in Drafts
    /\ definition.draft = None => Drafts = {}

(***************************************************************************)
(* published_version_id names the release of the highest number, and is    *)
(* NULL when nothing was published (definition.go:15).                     *)
(***************************************************************************)
PublishedIsHighestRelease ==
  ~definition.deleted =>
    /\ definition.published = None => Releases = {}
    /\ definition.published # None =>
         /\ definition.published \in Releases
         /\ \A i \in Releases :
              versions[i].number <= versions[definition.published].number

(***************************************************************************)
(* Only three writes ever spoil the pointers of a definition: a rename     *)
(* that writes back an older copy of them, a publication that waited, and, *)
(* of the draft only, a discard that clears the pointer to another's draft *)
(* (repository.go:76, 269, 296).  In all other interleavings, and when     *)
(* calls come one at a time, both are exact.                               *)
(***************************************************************************)
PointersExactUnlessSpoiled ==
  /\ "draft" \notin spoiled => DraftPointerExact
  /\ "published" \notin spoiled => PublishedIsHighestRelease

(***************************************************************************)
(* A released version is frozen: content, number, revision and publisher   *)
(* never change again (version.go:10).                                     *)
(***************************************************************************)
ReleasedFrozen ==
  [][\A i \in Releases : versions'[i] = versions[i]]_vars

(***************************************************************************)
(* A release is frozen for every call that began after it: what a save or  *)
(* a publication may still change is at most a release committed while it  *)
(* was under way (repository.go:150, 236).                                 *)
(***************************************************************************)
KnownReleasesFrozen ==
  [][\A s \in Sessions : \A i \in known[s] :
       pc[s] = "commit" /\ pc'[s] = "idle" /\ versions' # versions =>
         versions'[i] = versions[i]]_vars
=============================================================================
