----------------------------- MODULE VersionProofs -----------------------------
(***************************************************************************)
(* Why the version repository keeps its promises, for any number of        *)
(* callers, versions and contents, in three invariants:                    *)
(*   - VersionInv.  Of each row and of the definition at most one          *)
(*     transaction holds an uncommitted write; who holds one has only the  *)
(*     definition left to wait for; a write over the content of a          *)
(*     committed version is made by a save that named its revision.  So no *)
(*     save is lost and no transactions deadlock.                          *)
(*   - HeadInv.  A number that was read is still free at the head, or      *)
(*     taken; a release stays one.  So there is one draft, at the head.    *)
(*   - StoryInv.  What each call has written so far, of rows and of the    *)
(*     definition.  So save-and-publish publishes what it saved, and the   *)
(*     pointers are exact but for three writes.                            *)
(***************************************************************************)
EXTENDS VersionProperties, TLAPS

Pcs == {"idle", "readHead", "update", "insert", "pointDraft", "readTarget",
        "checkHead", "release", "pointPublished", "findDraft", "deleteDraft",
        "clearDraft", "readDef", "writeDef", "deleteDef", "commit"}

Publishing == {"readTarget", "checkHead", "release"}

\* Where nothing is written yet.
Early(p, c) ==
  \/ p \in {"idle", "readHead", "update", "insert", "findDraft", "deleteDraft",
            "readDef", "writeDef", "deleteDef"}
  \/ p \in Publishing /\ c.kind # "both"

\* A session at statement p of call c has written w and d.
WrittenSoFar(p, c, w, d) ==
  /\ Early(p, c) => w = Untouched /\ d = None
  /\ p = "pointDraft" \/ (p \in Publishing /\ c.kind = "both") => w[c.id] # None

\* What a call knows when it needs it.
Known(p, c) ==
  /\ p \in Publishing \cup {"update", "pointDraft", "deleteDraft"} => c.id \in VersionIds
  /\ p \in {"readHead", "update", "insert"} => c.dsl \in DSLs
  /\ p = "writeDef" => c.copy \in Definition

\* A write over a committed version keeps its content and revision, or saves
\* over the revision its caller named.
SavesSeen(c, w) ==
  \A i \in VersionIds : w[i] \in Row /\ versions[i] # None =>
    \/ w[i].dsl = versions[i].dsl /\ w[i].rev = versions[i].rev
    \/ c.id = i /\ c.rev = versions[i].rev /\ w[i].rev = versions[i].rev + 1

Local(p, c, w, d) == WrittenSoFar(p, c, w, d) /\ Known(p, c) /\ SavesSeen(c, w)

MintedRows ==
  \A i \in VersionIds \ minted :
    versions[i] = None /\ \A s \in Sessions : writes[s][i] = None

OneRowWriter ==
  \A s, o \in Sessions : \A i \in VersionIds :
    writes[s][i] # None /\ writes[o][i] # None => s = o

OneDefWriter ==
  \A s, o \in Sessions : defWrite[s] # None /\ defWrite[o] # None => s = o

VersionInv ==
  /\ TypeOK /\ MintedRows /\ OneRowWriter /\ OneDefWriter
  /\ \A s \in Sessions : Local(pc[s], call[s], writes[s], defWrite[s])
-----------------------------------------------------------------------------
LEMMA UntouchedNone == \A i \in VersionIds : Untouched[i] = None
  BY DEF Untouched

LEMMA NoCallTyped == NoCall \in Call
  BY DEF NoCall, Call

LEMMA VisibleTyped ==
  ASSUME TypeOK, NEW s \in Sessions, NEW i \in VersionIds
  PROVE  Visible(s, i) \in Row \cup {None}
  BY DEF TypeOK, Visible

LEMMA VisibleDefTyped ==
  ASSUME TypeOK, NEW s \in Sessions
  PROVE  VisibleDef(s) \in Definition
  BY DEF TypeOK, VisibleDef

LEMMA VersionInit == Init => VersionInv
  <1> SUFFICES ASSUME Init PROVE VersionInv
    OBVIOUS
  <1>1. TypeOK
    BY NoCallTyped DEF Init, TypeOK, Untouched, Definition
  <1>2. \A s \in Sessions : Local(pc[s], call[s], writes[s], defWrite[s])
    BY RepoAssumption, UntouchedNone
       DEF Init, Local, WrittenSoFar, Early, Publishing, Known, SavesSeen
  <1> QED
    BY <1>1, <1>2, UntouchedNone DEF Init, VersionInv, MintedRows, OneRowWriter, OneDefWriter

\* A statement of s: it concerns its own call and writes, and it waited.
LEMMA StatementKeeps ==
  ASSUME VersionInv, NEW s \in Sessions, shared' = shared,
         NEW p \in Pcs, pc' = [pc EXCEPT ![s] = p],
         NEW c \in Call, call' = [call EXCEPT ![s] = c],
         NEW w \in [VersionIds -> Row \cup {None, Deleted}],
         writes' = [writes EXCEPT ![s] = w],
         NEW d \in Definition \cup {None}, defWrite' = [defWrite EXCEPT ![s] = d],
         minted' \in SUBSET VersionIds, minted \subseteq minted',
         \A i \in VersionIds : w[i] # None =>
           i \in minted' /\ (writes[s][i] # None \/ ~Locked(s, i)),
         d # None => defWrite[s] # None \/ ~DefLocked(s),
         Local(p, c, w, d)
  PROVE  VersionInv'
  <1>1. /\ pc'[s] = p /\ call'[s] = c /\ writes'[s] = w /\ defWrite'[s] = d
        /\ \A o \in Sessions \ {s} : /\ pc'[o] = pc[o] /\ call'[o] = call[o]
                                     /\ writes'[o] = writes[o]
                                     /\ defWrite'[o] = defWrite[o]
        /\ versions' = versions /\ definition' = definition
    BY DEF VersionInv, TypeOK, shared
  <1>2. TypeOK'
    BY <1>1 DEF VersionInv, TypeOK, Pcs
  <1>3. MintedRows'
    BY <1>1 DEF VersionInv, MintedRows
  <1>4. OneRowWriter'
    BY <1>1 DEF VersionInv, OneRowWriter, Locked, Others
  <1>5. OneDefWriter'
    BY <1>1 DEF VersionInv, OneDefWriter, DefLocked, Others
  <1>6. \A o \in Sessions : Local(pc'[o], call'[o], writes'[o], defWrite'[o])
    BY <1>1 DEF VersionInv
  <1>7. \A o \in Sessions : Local(pc[o], call[o], writes[o], defWrite[o])'
    BY <1>1, <1>6 DEF Local, SavesSeen, WrittenSoFar, Known
  <1> QED
    BY <1>2, <1>3, <1>4, <1>5, <1>7 DEF VersionInv

\* A statement of s that writes nothing.
LEMMA MoveKeeps ==
  ASSUME VersionInv, NEW s \in Sessions,
         NEW p \in Pcs, pc' = [pc EXCEPT ![s] = p],
         NEW c \in Call, call' = [call EXCEPT ![s] = c],
         UNCHANGED <<shared, minted, writes, defWrite>>,
         Local(p, c, writes[s], defWrite[s])
  PROVE  VersionInv'
  <1>1. /\ writes[s] \in [VersionIds -> Row \cup {None, Deleted}]
        /\ writes' = [writes EXCEPT ![s] = writes[s]]
        /\ defWrite[s] \in Definition \cup {None}
        /\ defWrite' = [defWrite EXCEPT ![s] = defWrite[s]]
        /\ minted' \in SUBSET VersionIds /\ minted \subseteq minted'
    BY DEF VersionInv, TypeOK
  <1>2. \A i \in VersionIds : writes[s][i] # None => i \in minted'
    BY DEF VersionInv, MintedRows
  <1> QED
    BY <1>1, <1>2, StatementKeeps

\* A statement of s that writes a row there is.
LEMMA WriteKeeps ==
  ASSUME VersionInv, NEW s \in Sessions, NEW i \in VersionIds, Visible(s, i) # None,
         NEW r \in Row \cup {Deleted}, NEW p \in Pcs, Write(s, i, r, p), ~Locked(s, i),
         Local(p, call[s], [writes[s] EXCEPT ![i] = r], defWrite[s])
  PROVE  VersionInv'
  <1> DEFINE w == [writes[s] EXCEPT ![i] = r]
  <1>1. /\ call[s] \in Call /\ call' = [call EXCEPT ![s] = call[s]]
        /\ defWrite[s] \in Definition \cup {None}
        /\ defWrite' = [defWrite EXCEPT ![s] = defWrite[s]]
        /\ minted' \in SUBSET VersionIds /\ minted \subseteq minted'
        /\ pc' = [pc EXCEPT ![s] = p] /\ shared' = shared
    BY DEF VersionInv, TypeOK, Write
  <1>2. /\ w \in [VersionIds -> Row \cup {None, Deleted}]
        /\ writes' = [writes EXCEPT ![s] = w]
    BY DEF VersionInv, TypeOK, Write
  <1>3. \A j \in VersionIds : w[j] # None =>
          j \in minted' /\ (writes[s][j] # None \/ ~Locked(s, j))
    <2>1. i \in minted
      BY DEF VersionInv, MintedRows, Visible
    <2>2. \A j \in VersionIds \ {i} : w[j] = writes[s][j]
      BY DEF VersionInv, TypeOK
    <2>3. \A j \in VersionIds : writes[s][j] # None => j \in minted
      BY DEF VersionInv, MintedRows
    <2> QED
      BY <1>1, <2>1, <2>2, <2>3
  <1> HIDE DEF w
  <1>4. Local(p, call[s], w, defWrite[s])
    BY DEF w
  <1> QED
    BY <1>1, <1>2, <1>3, <1>4, StatementKeeps

\* A statement of s that writes the definition.
LEMMA WriteDefKeeps ==
  ASSUME VersionInv, NEW s \in Sessions, NEW d \in Definition, NEW p \in Pcs,
         WriteDef(s, d, p),
         p \in {"commit", "readTarget"}, p = "readTarget" => call[s].id \in VersionIds,
         p = "readTarget" => call[s].kind = "both" /\ writes[s][call[s].id] # None
  PROVE  VersionInv'
  <1> DEFINE e == IF VisibleDef(s).deleted THEN defWrite[s] ELSE d
  <1>1. /\ call[s] \in Call /\ call' = [call EXCEPT ![s] = call[s]]
        /\ writes[s] \in [VersionIds -> Row \cup {None, Deleted}]
        /\ writes' = [writes EXCEPT ![s] = writes[s]]
        /\ minted' \in SUBSET VersionIds /\ minted \subseteq minted'
        /\ pc' = [pc EXCEPT ![s] = p] /\ shared' = shared
    BY DEF VersionInv, TypeOK, WriteDef
  <1>2. e \in Definition \cup {None} /\ defWrite' = [defWrite EXCEPT ![s] = e]
    BY DEF VersionInv, TypeOK, WriteDef
  <1>3. \A i \in VersionIds : writes[s][i] # None => i \in minted'
    BY <1>1 DEF VersionInv, MintedRows
  <1>4. ~DefLocked(s)
    BY DEF WriteDef
  <1> HIDE DEF e
  <1>5. Local(p, call[s], writes[s], e)
    BY DEF VersionInv, Local, WrittenSoFar, Early, Known, Publishing
  <1> QED
    BY <1>1, <1>2, <1>3, <1>4, <1>5, StatementKeeps

\* The end of a transaction leaves no write behind.
LEMMA RollbackKeeps ==
  ASSUME VersionInv, NEW s \in Sessions, Rollback(s)
  PROVE  VersionInv'
  <1>1. Untouched \in [VersionIds -> Row \cup {None, Deleted}]
    BY DEF Untouched
  <1>2. "idle" \in Pcs
    BY DEF Pcs
  <1>3. Local("idle", NoCall, Untouched, None)
    BY UntouchedNone, RepoAssumption
       DEF Local, WrittenSoFar, Known, SavesSeen, Publishing
  <1>4. minted' \in SUBSET VersionIds /\ minted \subseteq minted' /\ shared' = shared
    BY DEF VersionInv, TypeOK, Rollback
  <1>5. \A i \in VersionIds : Untouched[i] # None =>
          i \in minted' /\ (writes[s][i] # None \/ ~Locked(s, i))
    BY UntouchedNone
  <1>6. /\ pc' = [pc EXCEPT ![s] = "idle"] /\ call' = [call EXCEPT ![s] = NoCall]
        /\ writes' = [writes EXCEPT ![s] = Untouched]
        /\ defWrite' = [defWrite EXCEPT ![s] = None]
    BY DEF Rollback, Release
  <1>7. None \in Definition \cup {None}
    OBVIOUS
  <1> QED
    BY <1>1, <1>2, <1>3, <1>4, <1>5, <1>6, <1>7, NoCallTyped, StatementKeeps

LEMMA CommitKeeps ==
  ASSUME VersionInv, NEW s \in Sessions, Commit(s)
  PROVE  VersionInv'
  <1>1. /\ pc'[s] = "idle" /\ call'[s] = NoCall
        /\ writes'[s] = Untouched /\ defWrite'[s] = None
        /\ \A o \in Sessions \ {s} : /\ pc'[o] = pc[o] /\ call'[o] = call[o]
                                     /\ writes'[o] = writes[o]
                                     /\ defWrite'[o] = defWrite[o]
        /\ versions' = [i \in VersionIds |-> Visible(s, i)]
        /\ definition' = VisibleDef(s) /\ minted' = minted
    BY DEF VersionInv, TypeOK, Commit, Release
  <1>2. TypeOK'
    <2>1. /\ pc' \in [Sessions -> Pcs] /\ call' \in [Sessions -> Call]
          /\ defWrite' \in [Sessions -> Definition \cup {None}]
      BY NoCallTyped DEF VersionInv, TypeOK, Commit, Release, Pcs
    <2>2. writes' \in [Sessions -> [VersionIds -> Row \cup {None, Deleted}]]
      BY DEF VersionInv, TypeOK, Commit, Release, Untouched
    <2>3. versions' \in [VersionIds -> Row \cup {None}] /\ definition' \in Definition
      BY <1>1, VisibleTyped, VisibleDefTyped DEF VersionInv
    <2> QED
      BY <1>1, <2>1, <2>2, <2>3 DEF VersionInv, TypeOK, Pcs
  <1>3. MintedRows'
    <2>1. \A i \in VersionIds \ minted : Visible(s, i) = None
      BY DEF VersionInv, MintedRows, Visible
    <2> QED
      BY <1>1, <2>1, UntouchedNone DEF VersionInv, MintedRows
  <1>4. OneRowWriter' /\ OneDefWriter'
    BY <1>1, UntouchedNone DEF VersionInv, OneRowWriter, OneDefWriter
  <1>5. \A o \in Sessions \ {s}, i \in VersionIds :
          writes[o][i] # None => versions'[i] = versions[i]
    <2> SUFFICES ASSUME NEW o \in Sessions \ {s}, NEW i \in VersionIds, writes[o][i] # None
                 PROVE  versions'[i] = versions[i]
      OBVIOUS
    <2>1. writes[s][i] = None
      BY DEF VersionInv, OneRowWriter
    <2>2. Visible(s, i) = versions[i]
      BY <2>1, RepoAssumption DEF Visible
    <2> QED
      BY <1>1, <2>2
  <1>6. \A o \in Sessions : Local(pc[o], call[o], writes[o], defWrite[o])'
    <2> SUFFICES ASSUME NEW o \in Sessions
                 PROVE  Local(pc[o], call[o], writes[o], defWrite[o])'
      OBVIOUS
    <2>1. CASE o = s
      BY <1>1, <2>1, UntouchedNone, RepoAssumption
         DEF Local, WrittenSoFar, Known, SavesSeen, Publishing
    <2>2. CASE o # s
      <3>1. Local(pc[o], call[o], writes[o], defWrite[o])
        BY DEF VersionInv
      <3>2. SavesSeen(call[o], writes[o])'
        BY <1>1, <1>5, <2>2, <3>1, RepoAssumption DEF Local, SavesSeen
      <3> QED
        BY <1>1, <2>2, <3>1, <3>2 DEF Local, WrittenSoFar, Known
    <2> QED
      BY <2>1, <2>2
  <1> QED
    BY <1>2, <1>3, <1>4, <1>6 DEF VersionInv
-----------------------------------------------------------------------------
(***************************************************************************)
(* One lemma per kind of call.                                             *)
(***************************************************************************)
\* A call begins.
LEMMA BeginKeeps ==
  ASSUME VersionInv, NEW s \in Sessions, NEW c \in Call, NEW first \in Pcs,
         Begin(s, c, first), Early(first, c), Known(first, c)
  PROVE  VersionInv'
  <1>1. writes[s] = Untouched /\ defWrite[s] = None
    BY DEF VersionInv, Local, WrittenSoFar, Early, Begin
  <1>2. Local(first, c, writes[s], defWrite[s])
    BY <1>1, UntouchedNone, RepoAssumption
       DEF Local, WrittenSoFar, Early, SavesSeen, Publishing
  <1> QED
    BY <1>2, MoveKeeps DEF Begin

LEMMA CallsKeep ==
  ASSUME VersionInv, NEW s \in Sessions, Calls(s)
  PROVE  VersionInv'
  <1>1. ASSUME NEW dsl \in DSLs, NEW rev \in 0..MaxRevision, NEW kind \in {"save", "both"},
               Begin(s, [NoCall EXCEPT !.kind = kind, !.dsl = dsl, !.rev = rev], "readHead")
        PROVE  VersionInv'
    <2> DEFINE c == [NoCall EXCEPT !.kind = kind, !.dsl = dsl, !.rev = rev]
    <2>1. c \in Call /\ c.dsl = dsl
      <3>1. rev \in Nat
        BY RepoAssumption
      <3> QED
        BY <3>1, NoCallTyped DEF Call
    <2> HIDE DEF c
    <2>2. Early("readHead", c) /\ Known("readHead", c) /\ "readHead" \in Pcs
      BY <2>1 DEF Early, Known, Pcs, Publishing
    <2>3. Begin(s, c, "readHead")
      BY <1>1 DEF c
    <2> QED
      BY <2>1, <2>2, <2>3, BeginKeeps
  <1>2. ASSUME NEW i \in minted,
               Begin(s, [NoCall EXCEPT !.kind = "publish", !.id = i], "readTarget")
        PROVE  VersionInv'
    <2> DEFINE c == [NoCall EXCEPT !.kind = "publish", !.id = i]
    <2>1. i \in VersionIds
      BY DEF VersionInv, TypeOK
    <2>2. c \in Call /\ c.id = i /\ c.kind = "publish"
      BY <2>1, NoCallTyped DEF Call
    <2> HIDE DEF c
    <2>3. Early("readTarget", c) /\ Known("readTarget", c) /\ "readTarget" \in Pcs
      BY <2>1, <2>2 DEF Early, Known, Pcs, Publishing
    <2>4. Begin(s, c, "readTarget")
      BY <1>2 DEF c
    <2> QED
      BY <2>2, <2>3, <2>4, BeginKeeps
  <1>3. ASSUME NEW kind \in {"discard", "update", "delete"},
               NEW first \in {"findDraft", "readDef", "deleteDef"},
               Begin(s, [NoCall EXCEPT !.kind = kind], first)
        PROVE  VersionInv'
    <2> DEFINE c == [NoCall EXCEPT !.kind = kind]
    <2>1. c \in Call
      BY DEF NoCall, Call
    <2> HIDE DEF c
    <2>2. Early(first, c) /\ Known(first, c) /\ first \in Pcs
      BY DEF Early, Known, Pcs, Publishing
    <2>3. Begin(s, c, first)
      BY <1>3 DEF c
    <2> QED
      BY <2>1, <2>2, <2>3, BeginKeeps
  <1> QED
    BY <1>1, <1>2, <1>3 DEF Calls, BeginSave, BeginPublish, BeginDiscard, BeginUpdate,
       BeginDelete

\* SaveVersion
LEMMA ReadHeadKeeps ==
  ASSUME VersionInv, NEW s \in Sessions, ReadHead(s)
  PROVE  VersionInv'
  <1>1. /\ writes[s] = Untouched /\ defWrite[s] = None
        /\ call[s] \in Call /\ call[s].dsl \in DSLs /\ pc[s] = "readHead"
    BY DEF VersionInv, TypeOK, Local, WrittenSoFar, Early, Known, ReadHead
  <1>2. ASSUME NEW c \in Call, c.dsl = call[s].dsl, NEW p \in {"insert", "update"},
               p = "update" => c.id \in VersionIds,
               pc' = [pc EXCEPT ![s] = p], call' = [call EXCEPT ![s] = c],
               UNCHANGED <<shared, minted, writes, defWrite>>
        PROVE  VersionInv'
    <2>1. Local(p, c, writes[s], defWrite[s]) /\ p \in Pcs
      BY <1>1, <1>2, UntouchedNone, RepoAssumption
         DEF Local, WrittenSoFar, Known, SavesSeen, Publishing, Pcs
    <2> QED
      BY <1>2, <2>1, MoveKeeps
  <1>3. ASSUME NEW n \in Nat, InsertAs(s, n)
        PROVE  VersionInv'
    <2> DEFINE c == [call[s] EXCEPT !.number = n]
    <2>1. c \in Call /\ c.dsl = call[s].dsl
      BY <1>1 DEF Call
    <2>2. call' = [call EXCEPT ![s] = c]
      BY <1>3 DEF InsertAs
    <2> HIDE DEF c
    <2> QED
      BY <1>2, <1>3, <2>1, <2>2 DEF InsertAs
  <1>4. ASSUME NEW i \in VersionIds, call' = [call EXCEPT ![s].id = i],
               pc' = [pc EXCEPT ![s] = "update"],
               UNCHANGED <<shared, minted, writes, defWrite>>
        PROVE  VersionInv'
    <2> DEFINE c == [call[s] EXCEPT !.id = i]
    <2>1. c \in Call /\ c.dsl = call[s].dsl /\ c.id = i
      BY <1>1 DEF Call
    <2>2. call' = [call EXCEPT ![s] = c]
      BY <1>4
    <2> HIDE DEF c
    <2> QED
      BY <1>2, <1>4, <2>1, <2>2
  <1>5. \A i \in Heads(s) : i \in VersionIds /\ Visible(s, i) \in Row
    BY VisibleTyped DEF Heads, Existing, VersionInv
  <1>6. \A i \in Heads(s) : Visible(s, i).number + 1 \in Nat
    BY <1>5 DEF Row
  <1> QED
    BY <1>3, <1>4, <1>5, <1>6, RollbackKeeps DEF ReadHead

LEMMA UpdateDraftKeeps ==
  ASSUME VersionInv, NEW s \in Sessions, UpdateDraft(s)
  PROVE  VersionInv'
  <1> DEFINE i == call[s].id
             r == [Visible(s, i) EXCEPT !.dsl = call[s].dsl, !.rev = @ + 1]
  <1>1. /\ writes[s] = Untouched /\ defWrite[s] = None /\ call[s] \in Call
        /\ i \in VersionIds /\ call[s].dsl \in DSLs
    BY DEF VersionInv, TypeOK, Local, WrittenSoFar, Early, Known, UpdateDraft
  <1>2. CASE Rollback(s)
    BY <1>2, RollbackKeeps
  <1>3. CASE Matches(s, i) /\ Write(s, i, r, AfterSave(s))
    <2>1. Visible(s, i) = versions[i] /\ versions[i] \in Row /\ versions[i].rev = call[s].rev
      BY <1>1, <1>3, UntouchedNone, RepoAssumption DEF Matches, Visible, VersionInv, TypeOK
    <2>2. r \in Row /\ r.rev = versions[i].rev + 1
      <3>1. ASSUME NEW row \in Row, NEW dsl \in DSLs
            PROVE  LET saved == [row EXCEPT !.dsl = dsl, !.rev = @ + 1] IN
                   saved \in Row /\ saved.rev = row.rev + 1
        <4>1. ASSUME NEW rev \in Nat
              PROVE  LET saved == [row EXCEPT !.dsl = dsl, !.rev = rev] IN
                     saved \in Row /\ saved.rev = rev
          BY DEF Row
        <4>2. row.rev + 1 \in Nat
          BY DEF Row
        <4> QED
          BY <4>1, <4>2
      <3> QED
        BY <1>1, <2>1, <3>1
    <2> DEFINE w == [writes[s] EXCEPT ![i] = r]
    <2>3. w[i] = r /\ \A j \in VersionIds \ {i} : w[j] = None
      BY <1>1, UntouchedNone DEF VersionInv, TypeOK
    <2>4. Visible(s, i) # None /\ ~Locked(s, i)
      BY <2>1, RepoAssumption DEF UpdateDraft
    <2> HIDE DEF r
    <2>5. r # None
      BY <2>2, RepoAssumption
    <2>6. SavesSeen(call[s], w)
      BY <2>1, <2>2, <2>3, RepoAssumption DEF SavesSeen
    <2> DEFINE p == AfterSave(s)
    <2>7. p \in Pcs /\ (p = "commit" \/ (p = "readTarget" /\ call[s].kind = "both"))
      BY DEF AfterSave, Pcs
    <2>8. Write(s, i, r, p)
      BY <1>3
    <2> HIDE DEF p, w
    <2>9. Local(p, call[s], w, defWrite[s])
      BY <1>1, <2>3, <2>5, <2>6, <2>7 DEF Local, WrittenSoFar, Early, Known, Publishing
    <2>10. Local(p, call[s], [writes[s] EXCEPT ![i] = r], defWrite[s])
      BY <2>9 DEF w
    <2> HIDE DEF i
    <2> QED
      BY <1>1, <2>2, <2>4, <2>7, <2>8, <2>10, WriteKeeps
  <1> QED
    BY <1>2, <1>3 DEF UpdateDraft

LEMMA InsertDraftKeeps ==
  ASSUME VersionInv, NEW s \in Sessions, InsertDraft(s)
  PROVE  VersionInv'
  <1>1. /\ writes[s] = Untouched /\ defWrite[s] = None /\ call[s] \in Call
        /\ call[s].dsl \in DSLs
    BY DEF VersionInv, TypeOK, Local, WrittenSoFar, Early, Known, InsertDraft
  <1>2. CASE Rollback(s)
    BY <1>2, RollbackKeeps
  <1> DEFINE r == [number |-> call[s].number, state |-> "draft", dsl |-> call[s].dsl,
                   rev |-> 1, by |-> None]
  <1>3. ASSUME NEW i \in VersionIds \ minted, minted' = minted \cup {i},
               writes' = [writes EXCEPT ![s][i] = r],
               call' = [call EXCEPT ![s].id = i],
               pc' = [pc EXCEPT ![s] = "pointDraft"],
               UNCHANGED <<shared, defWrite>>
        PROVE  VersionInv'
    <2> DEFINE w == [writes[s] EXCEPT ![i] = r]
               c == [call[s] EXCEPT !.id = i]
    <2>1. r \in Row
      BY <1>1 DEF Row, Call
    <2>2. c \in Call /\ c.id = i
      BY <1>1 DEF Call
    <2>3. w \in [VersionIds -> Row \cup {None, Deleted}] /\ writes' = [writes EXCEPT ![s] = w]
      BY <1>3, <2>1 DEF VersionInv, TypeOK
    <2>4. w[i] = r /\ \A j \in VersionIds \ {i} : w[j] = None
      BY <1>1, UntouchedNone DEF VersionInv, TypeOK
    <2>5. call' = [call EXCEPT ![s] = c] /\ defWrite' = [defWrite EXCEPT ![s] = defWrite[s]]
      BY <1>3 DEF VersionInv, TypeOK
    <2>6. versions[i] = None /\ ~Locked(s, i)
      BY DEF VersionInv, MintedRows, Locked, Others
    <2>7. minted' \in SUBSET VersionIds /\ minted \subseteq minted' /\ i \in minted'
      BY <1>3 DEF VersionInv, TypeOK
    <2>8. r # None
      BY <2>1, RepoAssumption
    <2> HIDE DEF r, w, c
    <2>9. Local("pointDraft", c, w, defWrite[s]) /\ "pointDraft" \in Pcs
      BY <1>1, <2>2, <2>4, <2>6, <2>8, RepoAssumption
         DEF Local, WrittenSoFar, Early, Known, SavesSeen, Publishing, Pcs
    <2>10. \A j \in VersionIds : w[j] # None =>
             j \in minted' /\ (writes[s][j] # None \/ ~Locked(s, j))
      BY <2>4, <2>6, <2>7
    <2>11. defWrite[s] \in Definition \cup {None} /\ shared' = shared
      BY <1>3 DEF VersionInv, TypeOK
    <2> QED
      BY <1>3, <2>2, <2>3, <2>5, <2>7, <2>9, <2>10, <2>11, <1>1, StatementKeeps
  <1> QED
    BY <1>2, <1>3 DEF InsertDraft

LEMMA PointDraftKeeps ==
  ASSUME VersionInv, NEW s \in Sessions, PointDraft(s)
  PROVE  VersionInv'
  <1>1. /\ call[s].id \in VersionIds /\ writes[s][call[s].id] # None
    BY DEF VersionInv, Local, WrittenSoFar, Known, PointDraft
  <1> DEFINE d == [VisibleDef(s) EXCEPT !.draft = call[s].id]
             p == AfterSave(s)
  <1>2. d \in Definition
    BY <1>1, VisibleDefTyped DEF VersionInv, Definition
  <1>3. p \in Pcs /\ (p = "commit" \/ (p = "readTarget" /\ call[s].kind = "both"))
    BY DEF AfterSave, Pcs
  <1>4. WriteDef(s, d, p)
    BY DEF PointDraft
  <1> HIDE DEF d, p
  <1> QED
    BY <1>1, <1>2, <1>3, <1>4, WriteDefKeeps

\* PublishVersion
LEMMA ReadTargetKeeps ==
  ASSUME VersionInv, NEW s \in Sessions, ReadTarget(s)
  PROVE  VersionInv'
  <1> DEFINE row == Visible(s, call[s].id)
  <1>1. /\ Local("readTarget", call[s], writes[s], defWrite[s])
        /\ call[s] \in Call /\ call[s].id \in VersionIds
    BY DEF VersionInv, TypeOK, Local, Known, Publishing, ReadTarget
  <1>2. ASSUME NEW c \in Call, NEW p \in {"commit", "checkHead"},
               c.id = call[s].id, c.kind = call[s].kind, c.rev = call[s].rev,
               pc' = [pc EXCEPT ![s] = p], call' = [call EXCEPT ![s] = c],
               UNCHANGED <<shared, minted, writes, defWrite>>
        PROVE  VersionInv'
    <2>1. Local(p, c, writes[s], defWrite[s]) /\ p \in Pcs
      BY <1>1, <1>2 DEF Local, WrittenSoFar, Early, Known, SavesSeen, Publishing, Pcs
    <2> QED
      BY <1>2, <2>1, MoveKeeps
  <1>3. CASE Goto(s, "commit")
    <2>1. call' = [call EXCEPT ![s] = call[s]]
      BY <1>3 DEF Goto, VersionInv, TypeOK
    <2> QED
      BY <1>1, <1>2, <1>3, <2>1 DEF Goto
  <1>4. CASE /\ row # None
             /\ pc' = [pc EXCEPT ![s] = "checkHead"]
             /\ call' = [call EXCEPT ![s].number = row.number]
             /\ UNCHANGED <<shared, minted, writes, defWrite>>
    <2> DEFINE c == [call[s] EXCEPT !.number = row.number]
    <2>1. row.number \in Nat
      BY <1>1, <1>4, VisibleTyped DEF VersionInv, Row
    <2>2. /\ c \in Call /\ c.id = call[s].id /\ c.kind = call[s].kind
          /\ c.rev = call[s].rev
      BY <1>1, <2>1 DEF Call
    <2>3. call' = [call EXCEPT ![s] = c]
      BY <1>4
    <2> HIDE DEF c
    <2> QED
      BY <1>2, <1>4, <2>2, <2>3
  <1> QED
    BY <1>3, <1>4, RollbackKeeps DEF ReadTarget

LEMMA CheckHeadKeeps ==
  ASSUME VersionInv, NEW s \in Sessions, CheckHead(s)
  PROVE  VersionInv'
  <1>1. CASE Goto(s, "release")
    <2>1. /\ Local("checkHead", call[s], writes[s], defWrite[s]) /\ call[s] \in Call
          /\ call' = [call EXCEPT ![s] = call[s]]
      BY <1>1 DEF VersionInv, TypeOK, CheckHead, Goto
    <2>2. Local("release", call[s], writes[s], defWrite[s]) /\ "release" \in Pcs
      BY <2>1 DEF Local, WrittenSoFar, Early, Known, Publishing, Pcs
    <2> QED
      BY <1>1, <2>1, <2>2, MoveKeeps DEF Goto
  <1> QED
    BY <1>1, RollbackKeeps DEF CheckHead

LEMMA ReleaseVersionKeeps ==
  ASSUME VersionInv, NEW s \in Sessions, ReleaseVersion(s)
  PROVE  VersionInv'
  <1> DEFINE i == call[s].id
  <1>1. /\ Local("release", call[s], writes[s], defWrite[s])
        /\ call[s] \in Call /\ i \in VersionIds
    BY DEF VersionInv, TypeOK, Local, Known, Publishing, ReleaseVersion
  <1>2. CASE Goto(s, "pointPublished")
    <2>1. call' = [call EXCEPT ![s] = call[s]]
      BY <1>2 DEF VersionInv, TypeOK, Goto
    <2>2. Local("pointPublished", call[s], writes[s], defWrite[s]) /\ "pointPublished" \in Pcs
      BY <1>1 DEF Local, WrittenSoFar, Early, Known, Publishing, Pcs
    <2> QED
      BY <1>1, <1>2, <2>1, <2>2, MoveKeeps DEF Goto
  <1>3. CASE Visible(s, i) # None /\ Write(s, i, Released(s, i), "pointPublished")
    <2> DEFINE r == Released(s, i)
               w == [writes[s] EXCEPT ![i] = r]
    <2>1. Visible(s, i) \in Row
      BY <1>1, <1>3, VisibleTyped DEF VersionInv
    <2>2. r \in Row /\ r.dsl = Visible(s, i).dsl /\ r.rev = Visible(s, i).rev
      <3>1. ASSUME NEW row \in Row
            PROVE  LET released == [row EXCEPT !.state = "release", !.by = s] IN
                   /\ released \in Row
                   /\ released.dsl = row.dsl /\ released.rev = row.rev
        BY DEF Row
      <3> QED
        BY <2>1, <3>1 DEF Released
    <2>3. w[i] = r /\ \A j \in VersionIds \ {i} : w[j] = writes[s][j]
      BY <1>1 DEF VersionInv, TypeOK
    <2>4. \/ writes[s][i] = None /\ Visible(s, i) = versions[i]
          \/ writes[s][i] \in Row /\ Visible(s, i) = writes[s][i]
      BY <1>1, <1>3, RepoAssumption DEF Visible, VersionInv, TypeOK
    <2> HIDE DEF r, w
    <2>5. SavesSeen(call[s], w)
      BY <1>1, <2>2, <2>3, <2>4 DEF Local, SavesSeen
    <2>6. Local("pointPublished", call[s], w, defWrite[s]) /\ "pointPublished" \in Pcs
      BY <2>5 DEF Local, WrittenSoFar, Early, Known, Publishing, Pcs
    <2>7. Local("pointPublished", call[s], [writes[s] EXCEPT ![i] = r], defWrite[s])
      BY <2>6 DEF w
    <2>8. Write(s, i, r, "pointPublished") /\ ~Locked(s, i)
      BY <1>3 DEF r, ReleaseVersion
    <2> HIDE DEF i
    <2> QED
      BY <1>1, <1>3, <2>2, <2>6, <2>7, <2>8, WriteKeeps
  <1> QED
    BY <1>2, <1>3 DEF ReleaseVersion

\* The last statement of a publication or a discard, and DeleteDefinition.
LEMMA PointersKeep ==
  ASSUME VersionInv, NEW s \in Sessions,
         PointPublished(s) \/ ClearDraft(s) \/ UpdateDefinition(s) \/ DeleteDefinition(s)
  PROVE  VersionInv'
  <1>1. ASSUME NEW d \in Definition, WriteDef(s, d, "commit")
        PROVE  VersionInv'
    BY <1>1, WriteDefKeeps DEF Pcs
  <1>2. VisibleDef(s) \in Definition /\ definition \in Definition
        /\ call[s].id \in VersionIds \cup {None}
    BY VisibleDefTyped DEF VersionInv, TypeOK, Call
  <1>3. CASE PointPublished(s)
    <2>1. [VisibleDef(s) EXCEPT !.draft = None, !.published = call[s].id] \in Definition
      BY <1>2 DEF Definition
    <2> QED
      BY <1>1, <1>3, <2>1 DEF PointPublished
  <1>4. CASE ClearDraft(s)
    <2>1. DraftCleared(s) \in Definition
      BY <1>2 DEF Definition, DraftCleared
    <2> QED
      BY <1>1, <1>4, <2>1 DEF ClearDraft
  <1>5. CASE UpdateDefinition(s)
    <2>1. call[s].copy \in Definition
      BY <1>5 DEF VersionInv, Local, Known, UpdateDefinition
    <2> QED
      BY <1>1, <1>5, <2>1, RollbackKeeps DEF UpdateDefinition
  <1>6. CASE DeleteDefinition(s)
    <2>1. [definition EXCEPT !.deleted = TRUE] \in Definition
      BY <1>2 DEF Definition
    <2> QED
      BY <1>1, <1>6, <2>1, RollbackKeeps DEF DeleteDefinition
  <1> QED
    BY <1>3, <1>4, <1>5, <1>6

\* DiscardDraft, and UpdateDefinition reads its copy.
LEMMA ReadsKeep ==
  ASSUME VersionInv, NEW s \in Sessions, FindDraft(s) \/ ReadDef(s)
  PROVE  VersionInv'
  <1>1. writes[s] = Untouched /\ defWrite[s] = None /\ call[s] \in Call
    BY DEF VersionInv, TypeOK, Local, WrittenSoFar, Early, FindDraft, ReadDef
  <1>2. ASSUME NEW c \in Call, NEW p \in {"clearDraft", "deleteDraft", "writeDef"},
               p = "deleteDraft" => c.id \in VersionIds,
               p = "writeDef" => c.copy \in Definition,
               pc' = [pc EXCEPT ![s] = p], call' = [call EXCEPT ![s] = c],
               UNCHANGED <<shared, minted, writes, defWrite>>
        PROVE  VersionInv'
    <2>1. Local(p, c, writes[s], defWrite[s]) /\ p \in Pcs
      BY <1>1, <1>2, UntouchedNone, RepoAssumption
         DEF Local, WrittenSoFar, Known, SavesSeen, Publishing, Pcs
    <2> QED
      BY <1>2, <2>1, MoveKeeps
  <1>3. CASE Goto(s, "clearDraft")
    <2>1. call' = [call EXCEPT ![s] = call[s]]
      BY <1>3 DEF Goto, VersionInv, TypeOK
    <2> QED
      BY <1>1, <1>2, <1>3, <2>1 DEF Goto
  <1>4. ASSUME NEW i \in VersionIds, call' = [call EXCEPT ![s].id = i],
               pc' = [pc EXCEPT ![s] = "deleteDraft"],
               UNCHANGED <<shared, minted, writes, defWrite>>
        PROVE  VersionInv'
    <2> DEFINE c == [call[s] EXCEPT !.id = i]
    <2>1. c \in Call /\ c.id = i /\ call' = [call EXCEPT ![s] = c]
      BY <1>1, <1>4 DEF Call
    <2> HIDE DEF c
    <2> QED
      BY <1>2, <1>4, <2>1
  <1>5. ASSUME call' = [call EXCEPT ![s].copy = definition],
               pc' = [pc EXCEPT ![s] = "writeDef"],
               UNCHANGED <<shared, minted, writes, defWrite>>
        PROVE  VersionInv'
    <2> DEFINE c == [call[s] EXCEPT !.copy = definition]
    <2>1. definition \in Definition
      BY DEF VersionInv, TypeOK
    <2>2. c \in Call /\ c.copy = definition /\ call' = [call EXCEPT ![s] = c]
      BY <1>1, <1>5, <2>1 DEF Call
    <2> HIDE DEF c
    <2> QED
      BY <1>2, <1>5, <2>1, <2>2
  <1> QED
    BY <1>3, <1>4, <1>5, RollbackKeeps DEF FindDraft, ReadDef, Existing

LEMMA DeleteDraftKeeps ==
  ASSUME VersionInv, NEW s \in Sessions, DeleteDraft(s)
  PROVE  VersionInv'
  <1> DEFINE i == call[s].id
  <1>1. /\ writes[s] = Untouched /\ defWrite[s] = None /\ call[s] \in Call
        /\ i \in VersionIds
    BY DEF VersionInv, TypeOK, Local, WrittenSoFar, Early, Known, DeleteDraft
  <1>2. CASE Goto(s, "clearDraft")
    <2>1. call' = [call EXCEPT ![s] = call[s]]
      BY <1>2 DEF VersionInv, TypeOK, Goto
    <2>2. Local("clearDraft", call[s], writes[s], defWrite[s]) /\ "clearDraft" \in Pcs
      BY <1>1, UntouchedNone, RepoAssumption
         DEF Local, WrittenSoFar, Early, Known, SavesSeen, Publishing, Pcs
    <2> QED
      BY <1>1, <1>2, <2>1, <2>2, MoveKeeps DEF Goto
  <1>3. CASE StillADraft(s, i) /\ Write(s, i, Deleted, "clearDraft")
    <2> DEFINE w == [writes[s] EXCEPT ![i] = Deleted]
    <2>1. w[i] = Deleted /\ \A j \in VersionIds \ {i} : w[j] = None
      BY <1>1, UntouchedNone DEF VersionInv, TypeOK
    <2> HIDE DEF w
    <2>2. Local("clearDraft", call[s], w, defWrite[s]) /\ "clearDraft" \in Pcs
      BY <2>1, RepoAssumption
         DEF Local, WrittenSoFar, Early, Known, SavesSeen, Publishing, Pcs
    <2>3. Local("clearDraft", call[s], [writes[s] EXCEPT ![i] = Deleted], defWrite[s])
      BY <2>2 DEF w
    <2>4. Visible(s, i) # None /\ ~Locked(s, i)
      BY <1>3 DEF StillADraft, DeleteDraft
    <2> HIDE DEF i
    <2> QED
      BY <1>1, <1>3, <2>2, <2>3, <2>4, WriteKeeps
  <1> QED
    BY <1>2, <1>3 DEF DeleteDraft

LEMMA VersionStep == VersionInv /\ [Next]_vars => VersionInv'
  <1> SUFFICES ASSUME VersionInv, [Next]_vars PROVE VersionInv'
    OBVIOUS
  <1>1. CASE UNCHANGED vars
    BY <1>1 DEF vars, VersionInv, TypeOK, MintedRows, OneRowWriter, OneDefWriter,
       Local, WrittenSoFar, Early, Known, SavesSeen
  <1>2. ASSUME NEW s \in Sessions, Calls(s) PROVE VersionInv'
    BY <1>2, CallsKeep
  <1>3. ASSUME NEW s \in Sessions, Statement(s) PROVE VersionInv'
    BY <1>3, ReadHeadKeeps, UpdateDraftKeeps, InsertDraftKeeps, PointDraftKeeps,
       ReadTargetKeeps, CheckHeadKeeps, ReleaseVersionKeeps, PointersKeep,
       ReadsKeep, DeleteDraftKeeps, CommitKeeps DEF Statement
  <1>4. ASSUME NEW s \in Sessions, ConnectionLost(s) PROVE VersionInv'
    BY <1>4, RollbackKeeps DEF ConnectionLost
  <1> QED
    BY <1>1, <1>2, <1>3, <1>4 DEF Next

LEMMA VersionAlways == Spec => []VersionInv
  BY VersionInit, VersionStep, PTL DEF Spec
-----------------------------------------------------------------------------
\* The history decides nothing.
LEMMA HistoryIsSpec == HistorySpec => Spec
  <1>1. HistoryInit => Init
    BY DEF HistoryInit
  <1>2. [HistoryNext]_<<vars, historyVars>> => [Next]_vars
    BY DEF HistoryNext, Next
  <1> QED
    BY <1>1, <1>2, PTL DEF HistorySpec, Spec

(***************************************************************************)
(* Every row, pointer, call and uncommitted write stays in its type, for   *)
(* any number of callers, versions and contents.                           *)
(***************************************************************************)
THEOREM RepoTypeCorrect == HistorySpec => []TypeOK
  <1>1. VersionInv => TypeOK
    BY DEF VersionInv
  <1> QED
    BY <1>1, VersionAlways, HistoryIsSpec, PTL

\* A transaction that has written waits for the definition only.
LEMMA HolderWaitsForDefinition ==
  ASSUME VersionInv, NEW s \in Sessions,
         defWrite[s] # None \/ (\E i \in VersionIds : writes[s][i] # None),
         NEW o \in Sessions, NEW i \in VersionIds, WaitsForRow(s, o, i)
  PROVE  FALSE
  <1>1. ~Early(pc[s], call[s])
    BY UntouchedNone DEF VersionInv, Local, WrittenSoFar
  <1>2. pc[s] = "release" /\ i = call[s].id /\ call[s].kind = "both"
    BY <1>1 DEF Early, WaitsForRow, Publishing
  <1>3. writes[s][i] # None
    BY <1>2 DEF VersionInv, Local, WrittenSoFar, Publishing
  <1> QED
    BY <1>3 DEF VersionInv, OneRowWriter, WaitsForRow, Others

(***************************************************************************)
(* Transactions never wait for each other in a circle (NoCircularWait),    *)
(* for any number of callers: of a circle, the second already holds        *)
(* something and so waits for the definition; the third holds it, and      *)
(* waits for it as well, of another (repository.go:199-201, 259-269).      *)
(***************************************************************************)
THEOREM WaitsEnd == HistorySpec => []NoCircularWait
  <1>1. VersionInv => NoCircularWait
    <2> SUFFICES ASSUME VersionInv,
                        NEW circle \in (SUBSET Sessions) \ {{}},
                        \A s \in circle : \E o \in circle :
                          \/ WaitsForDefinition(s, o)
                          \/ \E i \in VersionIds : WaitsForRow(s, o, i)
                 PROVE  FALSE
      BY DEF NoCircularWait
    <2>1. PICK first \in circle : TRUE
      OBVIOUS
    <2>2. PICK second \in circle : \/ WaitsForDefinition(first, second)
                                   \/ \E i \in VersionIds : WaitsForRow(first, second, i)
      OBVIOUS
    <2>3. defWrite[second] # None \/ \E i \in VersionIds : writes[second][i] # None
      BY <2>2 DEF WaitsForDefinition, WaitsForRow
    <2>4. PICK third \in circle : WaitsForDefinition(second, third)
      <3>1. PICK third \in circle : \/ WaitsForDefinition(second, third)
                                    \/ \E i \in VersionIds : WaitsForRow(second, third, i)
        OBVIOUS
      <3>2. second \in Sessions /\ third \in Sessions
        OBVIOUS
      <3> QED
        BY <2>3, <3>1, <3>2, HolderWaitsForDefinition
    <2>5. defWrite[third] # None
      BY <2>4 DEF WaitsForDefinition
    <2>6. PICK fourth \in circle : WaitsForDefinition(third, fourth)
      <3>1. PICK fourth \in circle : \/ WaitsForDefinition(third, fourth)
                                     \/ \E i \in VersionIds : WaitsForRow(third, fourth, i)
        OBVIOUS
      <3>2. third \in Sessions /\ fourth \in Sessions
        OBVIOUS
      <3> QED
        BY <2>5, <3>1, <3>2, HolderWaitsForDefinition
    <2> QED
      BY <2>5, <2>6 DEF VersionInv, OneDefWriter, WaitsForDefinition, Others
  <1> QED
    BY <1>1, VersionAlways, HistoryIsSpec, PTL

(***************************************************************************)
(* Nobody saves over a change he has not seen (NoLostSave), for any number *)
(* of callers, versions and contents: the row has one writer from the      *)
(* UPDATE that compared the revision to its commit                         *)
(* (repository.go:156-169).                                                *)
(***************************************************************************)
THEOREM NoSaveIsLost == HistorySpec => NoLostSave
  <1> DEFINE Seen(i) ==
        versions'[i].dsl # versions[i].dsl =>
          /\ versions'[i].rev = versions[i].rev + 1
          /\ \E s \in Sessions : /\ pc[s] = "commit"
                                 /\ call[s].id = i
                                 /\ call[s].rev = versions[i].rev
  <1>1. VersionInv /\ [Next]_vars => [\A i \in Rows \cap Rows' : Seen(i)]_vars
    <2> SUFFICES ASSUME VersionInv, Next, NEW i \in Rows \cap Rows'
                 PROVE  Seen(i)
      OBVIOUS
    <2>1. CASE versions' = versions
      BY <2>1
    <2>2. ASSUME NEW s \in Sessions, Commit(s) PROVE Seen(i)
      <3>1. versions'[i] = Visible(s, i) /\ pc[s] = "commit"
        BY <2>2 DEF Commit, Rows
      <3>2. Visible(s, i) # None /\ versions[i] # None /\ i \in VersionIds
        BY <3>1 DEF Rows
      <3>3. CASE writes[s][i] = None
        BY <3>1, <3>3, RepoAssumption DEF Visible
      <3>4. CASE writes[s][i] \in Row
        BY <3>1, <3>2, <3>4, RepoAssumption DEF Visible, VersionInv, Local, SavesSeen
      <3>5. writes[s][i] # Deleted
        BY <3>2, RepoAssumption DEF Visible
      <3> QED
        BY <3>2, <3>3, <3>4, <3>5 DEF VersionInv, TypeOK
    <2>3. versions' = versions \/ \E s \in Sessions : Commit(s)
      BY DEF Next, Calls, BeginSave, BeginPublish, BeginDiscard, BeginUpdate, BeginDelete,
         Begin, Statement, ReadHead, InsertAs, UpdateDraft, InsertDraft, PointDraft,
         ReadTarget, CheckHead, ReleaseVersion, PointPublished, FindDraft, DeleteDraft,
         ClearDraft, ReadDef, UpdateDefinition, DeleteDefinition, ConnectionLost,
         Rollback, Write, WriteDef, Goto, shared
    <2> QED
      BY <2>1, <2>2, <2>3
  <1> QED
    BY <1>1, VersionAlways, HistoryIsSpec, PTL DEF Spec, NoLostSave
-----------------------------------------------------------------------------
(***************************************************************************)
(* The numbers.  A release has the number after some release, or 1, so     *)
(* that a call which read a number either still finds every release below  *)
(* it or finds it taken; and an uncommitted new row has the only number    *)
(* left to insert.                                                         *)
(***************************************************************************)
Follows(n) == n = 1 \/ \E j \in Releases : n = versions[j].number + 1
Above(n)   == \A j \in Releases : versions[j].number < n
Taken(n)   == \E j \in Releases : versions[j].number = n

RowsInOrder ==
  /\ \A i, j \in Drafts : i = j
  /\ \A i \in Drafts : Follows(versions[i].number) /\ Above(versions[i].number)
  /\ \A i, j \in Rows : versions[i].number = versions[j].number => i = j
  /\ \A i \in Rows : versions[i].number >= 1

NumbersRead ==
  \A s \in Sessions :
    pc[s] = "insert" =>
      Follows(call[s].number) /\ (Above(call[s].number) \/ Taken(call[s].number))

\* A write over a committed row: a draft may go, a release stays one.
Keeps(row, w) ==
  \/ w = Deleted /\ row.state = "draft"
  \/ /\ w \in Row /\ w.number = row.number
     /\ row.state = "release" => w.state = "release"

\* The write of a new row: there is no draft, and it will be the head.
Opens(w) ==
  w \in Row /\ Follows(w.number) /\ Above(w.number) /\ Drafts = {}

WritesInOrder ==
  \A s \in Sessions, i \in VersionIds :
    writes[s][i] # None =>
      /\ versions[i] # None => Keeps(versions[i], writes[s][i])
      /\ versions[i] = None => Opens(writes[s][i])

OneOpened ==
  \A s, o \in Sessions : \A i, j \in VersionIds :
    /\ writes[s][i] # None /\ versions[i] = None
    /\ writes[o][j] # None /\ versions[j] = None
    => s = o /\ i = j

HeadInv == RowsInOrder /\ NumbersRead /\ WritesInOrder /\ OneOpened
LEMMA RowsTyped ==
  ASSUME VersionInv
  PROVE  /\ \A i \in Rows : i \in VersionIds /\ versions[i] \in Row /\ versions[i] # None
         /\ \A i \in VersionIds : i \notin Rows => versions[i] = None
         /\ \A i \in VersionIds : versions[i] # None => i \in Rows
         /\ \A i \in Drafts : i \in Rows /\ versions[i].state = "draft"
         /\ \A i \in Releases : i \in Rows /\ versions[i].state = "release"
         /\ \A i \in Rows : i \in Drafts \/ i \in Releases
         /\ \A i \in Rows : versions[i].number \in Nat
  BY DEF VersionInv, TypeOK, Rows, Drafts, Releases, Row

\* A statement of s, which leaves the committed rows alone: it may read a
\* number, or write rows.
LEMMA StatementInOrder ==
  ASSUME VersionInv, HeadInv, NEW s \in Sessions, versions' = versions,
         \A o \in Sessions \ {s} :
           pc'[o] = pc[o] /\ call'[o] = call[o] /\ writes'[o] = writes[o],
         pc'[s] = "insert" =>
           /\ Follows(call'[s].number)
           /\ Above(call'[s].number) \/ Taken(call'[s].number),
         \A i \in VersionIds :
           \/ writes'[s][i] \in {None, writes[s][i]}
           \/ versions[i] # None /\ Keeps(versions[i], writes'[s][i])
           \/ /\ versions[i] = None /\ Opens(writes'[s][i])
              /\ \/ writes[s][i] # None
                 \/ /\ \A j \in VersionIds \ {i} : writes'[s][j] = None
                    /\ \A o \in Sessions \ {s}, j \in VersionIds :
                         writes[o][j] # None => versions[j] # None
  PROVE  HeadInv'
  <1>1. /\ Rows' = Rows /\ Drafts' = Drafts /\ Releases' = Releases
        /\ \A n : Follows(n)' = Follows(n) /\ Above(n)' = Above(n) /\ Taken(n)' = Taken(n)
        /\ \A w : Opens(w)' = Opens(w)
    BY DEF Rows, Drafts, Releases, Follows, Above, Taken, Opens
  <1>2. RowsInOrder'
    BY <1>1 DEF HeadInv, RowsInOrder, Follows, Above
  <1>3. NumbersRead'
    <2> SUFFICES ASSUME NEW o \in Sessions, pc'[o] = "insert", NEW n, n = call'[o].number
                 PROVE  Follows(n) /\ (Above(n) \/ Taken(n))
      BY DEF NumbersRead, Follows, Above, Taken, Rows, Drafts, Releases
    <2> QED
      BY DEF HeadInv, NumbersRead
  <1>4. WritesInOrder'
    <2> SUFFICES ASSUME NEW o \in Sessions, NEW i \in VersionIds, writes'[o][i] # None
                 PROVE  /\ versions[i] # None => Keeps(versions[i], writes'[o][i])
                        /\ versions[i] = None => Opens(writes'[o][i])
      BY DEF WritesInOrder, Opens, Follows, Above, Rows, Drafts, Releases
    <2> QED
      BY DEF HeadInv, WritesInOrder
  <1>5. OneOpened'
    <2> SUFFICES ASSUME NEW o \in Sessions, NEW p \in Sessions,
                        NEW i \in VersionIds, NEW j \in VersionIds,
                        writes'[o][i] # None, versions[i] = None,
                        writes'[p][j] # None, versions[j] = None
                 PROVE  o = p /\ i = j
      BY DEF OneOpened
    <2>1. \A k \in VersionIds :
            writes'[s][k] # None /\ versions[k] = None =>
              \/ writes[s][k] # None
              \/ /\ \A l \in VersionIds \ {k} : writes'[s][l] = None
                 /\ \A q \in Sessions \ {s}, l \in VersionIds :
                      writes[q][l] # None => versions[l] # None
      OBVIOUS
    <2> QED
      BY <2>1 DEF HeadInv, OneOpened
  <1> QED
    BY <1>2, <1>3, <1>4, <1>5 DEF HeadInv

\* A statement of s that neither reads a number nor writes a row.
LEMMA QuietInOrder ==
  ASSUME VersionInv, HeadInv, NEW s \in Sessions, versions' = versions,
         \A o \in Sessions \ {s} :
           pc'[o] = pc[o] /\ call'[o] = call[o] /\ writes'[o] = writes[o],
         pc'[s] # "insert", writes'[s] \in {Untouched, writes[s]}
  PROVE  HeadInv'
  <1>1. \A i \in VersionIds : writes'[s][i] \in {None, writes[s][i]}
    BY UntouchedNone
  <1> QED
    BY <1>1, StatementInOrder

\* What s reads before it writes is what is committed.
LEMMA EarlyReads ==
  ASSUME VersionInv, NEW s \in Sessions, writes[s] = Untouched
  PROVE  /\ \A i \in VersionIds : Visible(s, i) = versions[i] /\ writes[s][i] = None
         /\ Existing(s) = Rows
  <1>1. \A i \in VersionIds : Visible(s, i) = versions[i] /\ writes[s][i] = None
    BY UntouchedNone, RepoAssumption DEF Visible
  <1> QED
    BY <1>1 DEF Existing, Rows

\* The number after the head is above every release.
LEMMA ReadHeadInOrder ==
  ASSUME VersionInv, HeadInv, NEW s \in Sessions, ReadHead(s)
  PROVE  HeadInv'
  <1>1. /\ writes[s] = Untouched /\ call[s] \in Call /\ pc \in [Sessions -> Pcs]
        /\ call \in [Sessions -> Call] /\ writes \in [Sessions -> [VersionIds -> Row \cup {None, Deleted}]]
    BY DEF VersionInv, TypeOK, Local, WrittenSoFar, Early, ReadHead, Pcs
  <1>2. /\ \A i \in VersionIds : Visible(s, i) = versions[i]
        /\ Existing(s) = Rows
    BY <1>1, EarlyReads
  <1>3. ASSUME NEW n \in Nat, InsertAs(s, n), Follows(n), Above(n)
        PROVE  HeadInv'
    <2>1. /\ call'[s].number = n
          /\ \A o \in Sessions \ {s} : pc'[o] = pc[o] /\ call'[o] = call[o]
          /\ writes' = writes /\ versions' = versions
      BY <1>1, <1>3 DEF InsertAs, shared, Call
    <2> QED
      BY <1>3, <2>1, StatementInOrder
  <1>4. CASE Existing(s) = {} /\ InsertAs(s, 1)
    <2>1. Follows(1) /\ Above(1)
      BY <1>2, <1>4, RowsTyped DEF Follows, Above
    <2> QED
      BY <1>3, <1>4, <2>1
  <1>5. ASSUME NEW i \in Heads(s), Visible(s, i).state = "release",
               InsertAs(s, Visible(s, i).number + 1)
        PROVE  HeadInv'
    <2>1. i \in Releases /\ versions[i].number \in Nat /\ Visible(s, i) = versions[i]
      BY <1>2, <1>5, RowsTyped DEF Heads, Releases
    <2>2. \A j \in Releases : versions[j].number <= versions[i].number /\ versions[j].number \in Nat
      BY <1>2, RowsTyped DEF Heads
    <2>3. Follows(versions[i].number + 1) /\ Above(versions[i].number + 1)
      BY <2>1, <2>2 DEF Follows, Above
    <2> QED
      BY <1>3, <1>5, <2>1, <2>3
  <1>6. ASSUME UNCHANGED <<shared, minted, writes, defWrite>> \/ Rollback(s),
               pc' = [pc EXCEPT ![s] = "update"] \/ Rollback(s),
               (\E i \in VersionIds : call' = [call EXCEPT ![s].id = i]) \/ Rollback(s)
        PROVE  HeadInv'
    <2>1. /\ versions' = versions /\ writes'[s] \in {Untouched, writes[s]}
          /\ pc'[s] # "insert"
          /\ \A o \in Sessions \ {s} :
               pc'[o] = pc[o] /\ call'[o] = call[o] /\ writes'[o] = writes[o]
      BY <1>1, <1>6 DEF Rollback, Release, shared
    <2> QED
      BY <2>1, QuietInOrder
  <1> QED
    BY <1>3, <1>4, <1>5, <1>6 DEF ReadHead, Heads, Existing

\* A write of s to row i.
LEMMA WriteInOrder ==
  ASSUME VersionInv, HeadInv, NEW s \in Sessions, NEW i \in VersionIds,
         NEW r \in Row \cup {Deleted}, NEW p \in Pcs, p # "insert", Write(s, i, r, p),
         Visible(s, i) # None,
         \/ r = Deleted /\ Visible(s, i).state = "draft" /\ writes[s][i] = None
         \/ /\ r \in Row /\ r.number = Visible(s, i).number
            /\ Visible(s, i).state = "release" => r.state = "release"
  PROVE  HeadInv'
  <1>1. /\ versions' = versions /\ pc'[s] = p /\ writes'[s][i] = r
        /\ \A j \in VersionIds \ {i} : writes'[s][j] = writes[s][j]
        /\ \A o \in Sessions \ {s} :
             pc'[o] = pc[o] /\ call'[o] = call[o] /\ writes'[o] = writes[o]
    BY DEF VersionInv, TypeOK, Write, shared
  <1>2. \/ writes[s][i] = None /\ Visible(s, i) = versions[i]
        \/ writes[s][i] \in Row /\ Visible(s, i) = writes[s][i]
    BY RepoAssumption DEF VersionInv, TypeOK, Visible
  <1>3. \/ versions[i] # None /\ Keeps(versions[i], r)
        \/ versions[i] = None /\ Opens(r) /\ writes[s][i] # None
    <2>1. CASE writes[s][i] = None /\ Visible(s, i) = versions[i]
      BY <2>1 DEF Keeps
    <2>2. CASE writes[s][i] \in Row /\ Visible(s, i) = writes[s][i]
      <3>1. r \in Row /\ r.number = writes[s][i].number /\ writes[s][i] # None
        BY <2>2, RepoAssumption
      <3>2. /\ versions[i] # None => Keeps(versions[i], writes[s][i])
            /\ versions[i] = None => Opens(writes[s][i])
        BY <3>1 DEF HeadInv, WritesInOrder
      <3>3. CASE versions[i] # None
        BY <2>2, <3>1, <3>2, <3>3, RepoAssumption DEF Keeps
      <3>4. CASE versions[i] = None
        BY <3>1, <3>2, <3>4 DEF Opens
      <3> QED
        BY <3>3, <3>4
    <2> QED
      BY <1>2, <2>1, <2>2
  <1>4. \A j \in VersionIds :
          \/ writes'[s][j] \in {None, writes[s][j]}
          \/ versions[j] # None /\ Keeps(versions[j], writes'[s][j])
          \/ /\ versions[j] = None /\ Opens(writes'[s][j])
             /\ \/ writes[s][j] # None
                \/ /\ \A k \in VersionIds \ {j} : writes'[s][k] = None
                   /\ \A o \in Sessions \ {s}, k \in VersionIds :
                        writes[o][k] # None => versions[k] # None
    BY <1>1, <1>3
  <1> QED
    BY <1>1, <1>4, StatementInOrder

LEMMA WritesInOrderKept ==
  ASSUME VersionInv, HeadInv, NEW s \in Sessions,
         UpdateDraft(s) \/ ReleaseVersion(s) \/ DeleteDraft(s)
  PROVE  HeadInv'
  <1> DEFINE i == call[s].id
  <1>1. i \in VersionIds
    BY DEF VersionInv, TypeOK, Local, Known, Publishing, UpdateDraft, ReleaseVersion, DeleteDraft
  <1>2. ASSUME \/ Rollback(s)
               \/ \E p \in {"pointPublished", "clearDraft"} : Goto(s, p)
        PROVE  HeadInv'
    <2>1. /\ versions' = versions /\ writes'[s] \in {Untouched, writes[s]}
          /\ pc'[s] # "insert"
          /\ \A o \in Sessions \ {s} :
               pc'[o] = pc[o] /\ call'[o] = call[o] /\ writes'[o] = writes[o]
      BY <1>2 DEF VersionInv, TypeOK, Rollback, Release, Goto, shared
    <2> QED
      BY <2>1, QuietInOrder
  <1>3. Visible(s, i) \in Row \cup {None}
    BY <1>1, VisibleTyped DEF VersionInv
  <1> HIDE DEF i
  <1>4. ASSUME NEW dsl \in DSLs, NEW rev \in Nat, NEW p \in {"readTarget", "commit"},
               Visible(s, i) \in Row,
               Write(s, i, [Visible(s, i) EXCEPT !.dsl = dsl, !.rev = rev], p)
        PROVE  HeadInv'
    <2> DEFINE r == [Visible(s, i) EXCEPT !.dsl = dsl, !.rev = rev]
    <2>1. /\ r \in Row /\ r.number = Visible(s, i).number
          /\ r.state = Visible(s, i).state
      BY <1>4 DEF Row
    <2>2. Visible(s, i) # None /\ p \in Pcs /\ p # "insert"
      BY <1>4, RepoAssumption DEF Pcs
    <2>3. Write(s, i, r, p)
      BY <1>4
    <2> HIDE DEF r
    <2> QED
      BY <1>1, <2>1, <2>2, <2>3, WriteInOrder
  <1>5. CASE UpdateDraft(s)
    <2>1. CASE Rollback(s)
      BY <1>2, <2>1
    <2>2. CASE /\ Matches(s, i)
               /\ Write(s, i, [Visible(s, i) EXCEPT !.dsl = call[s].dsl, !.rev = @ + 1],
                        AfterSave(s))
      <3>1. Visible(s, i) \in Row
        BY <1>3, <2>2 DEF Matches
      <3>2. call[s].dsl \in DSLs /\ Visible(s, i).rev + 1 \in Nat
        BY <1>5, <3>1 DEF VersionInv, Local, Known, UpdateDraft, Row
      <3>3. AfterSave(s) \in {"readTarget", "commit"}
        BY DEF AfterSave
      <3> QED
        BY <1>4, <2>2, <3>1, <3>2, <3>3
    <2> QED
      BY <1>5, <2>1, <2>2 DEF UpdateDraft, i
  <1>6. CASE ReleaseVersion(s)
    <2>1. CASE Goto(s, "pointPublished")
      BY <1>2, <2>1
    <2>2. CASE Visible(s, i) # None /\ Write(s, i, Released(s, i), "pointPublished")
      <3>1. Visible(s, i) \in Row
        BY <1>3, <2>2
      <3>2. /\ Released(s, i) \in Row /\ Released(s, i).number = Visible(s, i).number
            /\ Released(s, i).state = "release"
        BY <3>1 DEF Released, Row
      <3> QED
        BY <1>1, <2>2, <3>2, WriteInOrder DEF Pcs
    <2> QED
      BY <1>6, <2>1, <2>2 DEF ReleaseVersion, i
  <1>7. CASE DeleteDraft(s)
    <2>1. CASE Goto(s, "clearDraft")
      BY <1>2, <2>1
    <2>2. CASE StillADraft(s, i) /\ Write(s, i, Deleted, "clearDraft")
      <3>1. writes[s] = Untouched
        BY <1>7 DEF VersionInv, Local, WrittenSoFar, Early, DeleteDraft
      <3>2. writes[s][i] = None
        BY <1>1, <3>1, UntouchedNone
      <3> QED
        BY <1>1, <2>2, <3>2, WriteInOrder DEF StillADraft, Pcs
    <2> QED
      BY <1>7, <2>1, <2>2 DEF DeleteDraft, i
  <1> QED
    BY <1>5, <1>6, <1>7

\* The number to insert is the only one left: whoever has inserted a row that
\* is not committed has taken it, and the INSERT waits for him.
LEMMA InsertDraftInOrder ==
  ASSUME VersionInv, HeadInv, NEW s \in Sessions, InsertDraft(s)
  PROVE  HeadInv'
  <1> DEFINE n == call[s].number
  <1>1. /\ writes[s] = Untouched /\ pc[s] = "insert" /\ n \in Nat /\ call[s].dsl \in DSLs
    BY DEF VersionInv, TypeOK, Call, Local, WrittenSoFar, Early, Known, InsertDraft
  <1>2. \A i \in VersionIds : Visible(s, i) = versions[i] /\ writes[s][i] = None
    BY <1>1, EarlyReads
  <1>3. Follows(n) /\ (Above(n) \/ Taken(n))
    BY <1>1 DEF HeadInv, NumbersRead
  <1> HIDE DEF n
  <1>4. CASE Rollback(s)
    <2>1. /\ versions' = versions /\ writes'[s] = Untouched /\ pc'[s] = "idle"
          /\ \A o \in Sessions \ {s} :
               pc'[o] = pc[o] /\ call'[o] = call[o] /\ writes'[o] = writes[o]
      BY <1>4 DEF VersionInv, TypeOK, Rollback, Release, shared
    <2> QED
      BY <2>1, QuietInOrder
  <1>5. ASSUME \A i \in VersionIds : ~Clashes(Visible(s, i), n),
               NEW i \in VersionIds \ minted, NEW r, r.number = n, r \in Row,
               writes' = [writes EXCEPT ![s][i] = r],
               call' = [call EXCEPT ![s].id = i],
               pc' = [pc EXCEPT ![s] = "pointDraft"], shared' = shared
        PROVE  HeadInv'
    <2>1. /\ versions' = versions /\ pc'[s] = "pointDraft"
          /\ writes'[s][i] = r
          /\ \A j \in VersionIds \ {i} : writes'[s][j] = None
          /\ \A o \in Sessions \ {s} :
               pc'[o] = pc[o] /\ call'[o] = call[o] /\ writes'[o] = writes[o]
      BY <1>2, <1>5 DEF VersionInv, TypeOK, shared
    <2>2. versions[i] = None
      BY DEF VersionInv, MintedRows
    <2>3. \A j \in Rows : versions[j].number # n /\ j \notin Drafts
      <3> SUFFICES ASSUME NEW j \in Rows PROVE versions[j].number # n /\ j \notin Drafts
        OBVIOUS
      <3>1. /\ j \in VersionIds /\ versions[j] \in Row /\ versions[j] # None
            /\ j \in Drafts => versions[j].state = "draft"
        BY RowsTyped
      <3>2. versions[j] # Deleted
        BY <3>1, RepoAssumption
      <3>3. ~Clashes(versions[j], n)
        BY <1>2, <1>5, <3>1
      <3> QED
        BY <3>1, <3>2, <3>3 DEF Clashes
    <2>4. Drafts = {} /\ Above(n)
      BY <1>3, <2>3, RowsTyped DEF Taken
    <2>5. \A o \in Sessions \ {s}, j \in VersionIds :
            writes[o][j] # None => versions[j] # None
      <3> SUFFICES ASSUME NEW o \in Sessions \ {s}, NEW j \in VersionIds,
                          writes[o][j] # None, versions[j] = None
                   PROVE  FALSE
        OBVIOUS
      <3> DEFINE k == writes[o][j].number
      <3>1. writes[o][j] \in Row /\ Follows(k) /\ Above(k)
        BY DEF HeadInv, WritesInOrder, Opens
      <3>2. Locked(s, j) /\ writes[o][j] # Deleted
        BY <3>1, RepoAssumption DEF Locked, Others
      <3>3. ~Clashes(writes[o][j], n)
        BY <3>2 DEF InsertDraft, Others, n
      <3>4. k # n
        BY <3>2, <3>3 DEF Clashes
      <3>5. k \in Nat
        BY <3>1 DEF Row
      <3>6. \A l \in Releases : versions[l].number \in Nat /\ versions[l].number >= 1
        BY RowsTyped DEF HeadInv, RowsInOrder
      <3> HIDE DEF k
      <3> QED
        BY <1>1, <1>3, <2>4, <3>1, <3>4, <3>5, <3>6 DEF Follows, Above, n
    <2>6. Opens(r)
      BY <1>3, <1>5, <2>4 DEF Opens
    <2>7. \A j \in VersionIds :
            \/ writes'[s][j] \in {None, writes[s][j]}
            \/ versions[j] # None /\ Keeps(versions[j], writes'[s][j])
            \/ /\ versions[j] = None /\ Opens(writes'[s][j])
               /\ \/ writes[s][j] # None
                  \/ /\ \A k \in VersionIds \ {j} : writes'[s][k] = None
                     /\ \A o \in Sessions \ {s}, k \in VersionIds :
                          writes[o][k] # None => versions[k] # None
      BY <2>1, <2>2, <2>5, <2>6
    <2> QED
      BY <2>1, <2>7, StatementInOrder
  <1>6. [number |-> n, state |-> "draft", dsl |-> call[s].dsl, rev |-> 1, by |-> None] \in Row
    BY <1>1 DEF Row, n
  <1> QED
    BY <1>4, <1>5, <1>6 DEF InsertDraft, n

\* What a transaction commits: releases stay, at most one number is released,
\* the head's.
LEMMA CommitMoves ==
  ASSUME VersionInv, HeadInv, NEW s \in Sessions, Commit(s)
  PROVE  /\ \A i \in Rows' : \/ i \in Rows /\ versions'[i].number = versions[i].number
                             \/ versions[i] = None /\ writes[s][i] # None
                                /\ versions'[i] = writes[s][i] /\ Opens(writes[s][i])
         /\ \A i \in Releases : /\ i \in Releases'
                                /\ versions'[i].number = versions[i].number
         /\ \A i \in Drafts' : versions[i] # None => i \in Drafts
  <1>1. /\ versions' = [i \in VersionIds |-> Visible(s, i)]
        /\ \A i \in VersionIds : versions'[i] = Visible(s, i)
    BY DEF Commit
  <1>2. ASSUME NEW i \in VersionIds
        PROVE  \/ writes[s][i] = None /\ versions'[i] = versions[i]
               \/ writes[s][i] = Deleted /\ versions'[i] = None /\ writes[s][i] # None
               \/ writes[s][i] \in Row /\ versions'[i] = writes[s][i] /\ writes[s][i] # None
    BY <1>1, RepoAssumption DEF VersionInv, TypeOK, Visible
  <1>3. ASSUME NEW i \in VersionIds, writes[s][i] # None
        PROVE  /\ versions[i] # None => Keeps(versions[i], writes[s][i])
               /\ versions[i] = None => Opens(writes[s][i])
    BY <1>3 DEF HeadInv, WritesInOrder
  <1>4. ASSUME NEW i \in Rows'
        PROVE  \/ i \in Rows /\ versions'[i].number = versions[i].number
               \/ versions[i] = None /\ writes[s][i] # None
                  /\ versions'[i] = writes[s][i] /\ Opens(writes[s][i])
    <2>1. i \in VersionIds /\ versions'[i] # None
      BY DEF Rows
    <2>2. writes[s][i] \in Row => writes[s][i] # Deleted
      BY RepoAssumption
    <2> QED
      BY <1>2, <1>3, <2>1, <2>2, RowsTyped DEF Keeps
  <1>5. ASSUME NEW i \in Releases
        PROVE  i \in Releases' /\ versions'[i].number = versions[i].number
    <2>1. /\ i \in VersionIds /\ versions[i] # None /\ versions[i].state = "release"
      BY RowsTyped
    <2>2. writes[s][i] # None => Keeps(versions[i], writes[s][i])
      BY <1>3, <2>1
    <2>3. \/ versions'[i] = versions[i]
          \/ /\ versions'[i] \in Row /\ versions'[i].number = versions[i].number
             /\ versions'[i].state = "release"
      BY <1>2, <2>1, <2>2, RepoAssumption DEF Keeps
    <2>4. versions'[i] # None /\ versions'[i].state = "release"
      BY <2>1, <2>3, RepoAssumption
    <2> QED
      BY <2>1, <2>3, <2>4 DEF Releases, Rows
  <1>6. ASSUME NEW i \in Drafts', versions[i] # None
        PROVE  i \in Drafts
    <2>1. i \in VersionIds /\ versions'[i] # None /\ versions'[i].state = "draft"
      BY DEF Drafts, Rows
    <2>2. i \in Drafts \/ i \in Releases
      BY <1>6, <2>1, RowsTyped
    <2>3. i \in Releases => versions'[i].state = "release"
      BY <1>5 DEF Releases
    <2> QED
      BY <2>1, <2>2, <2>3
  <1> QED
    BY <1>4, <1>5, <1>6

LEMMA CommitInOrder ==
  ASSUME VersionInv, HeadInv, NEW s \in Sessions, Commit(s)
  PROVE  HeadInv'
  <1>1. /\ pc'[s] = "idle" /\ \A i \in VersionIds : writes'[s][i] = None
        /\ \A o \in Sessions \ {s} : pc'[o] = pc[o] /\ call'[o] = call[o]
                                     /\ writes'[o] = writes[o]
        /\ \A i \in VersionIds : versions'[i] = Visible(s, i)
    BY UntouchedNone DEF VersionInv, TypeOK, Commit, Release
  <1>2. VersionInv'
    BY CommitKeeps
  <1>3. /\ \A i \in Rows' : i \in VersionIds /\ versions'[i] \in Row /\ versions'[i] # None
        /\ \A i \in Drafts' : i \in Rows' /\ versions'[i].state = "draft"
        /\ \A i \in Releases' : i \in Rows' /\ versions'[i].state = "release"
        /\ \A i \in Rows' : i \in Drafts' \/ i \in Releases'
        /\ \A i \in Rows' : versions'[i].number \in Nat
    BY <1>2 DEF VersionInv, TypeOK, Rows, Drafts, Releases, Row
  <1>4. /\ \A i \in Rows' : \/ i \in Rows /\ versions'[i].number = versions[i].number
                            \/ versions[i] = None /\ writes[s][i] # None
                               /\ versions'[i] = writes[s][i] /\ Opens(writes[s][i])
        /\ \A i \in Releases : /\ i \in Releases'
                               /\ versions'[i].number = versions[i].number
        /\ \A i \in Drafts' : versions[i] # None => i \in Drafts
    BY CommitMoves
  \* Two rows neither of which was a release are one.
  <1>5. ASSUME NEW i \in Rows', NEW j \in Rows', i \notin Releases, j \notin Releases
        PROVE  i = j
    <2>1. \A k \in {i, j} : \/ k \in Drafts
                            \/ /\ versions[k] = None /\ writes[s][k] # None
                               /\ Drafts = {}
      BY <1>4, <1>5, RowsTyped DEF Opens
    <2>2. i \in VersionIds /\ j \in VersionIds
      BY <1>3
    <2> QED
      BY <2>1, <2>2 DEF HeadInv, RowsInOrder, OneOpened
  <1>6. ASSUME NEW i \in Rows', i \notin Releases
        PROVE  /\ Follows(versions'[i].number) /\ Above(versions'[i].number)
               /\ versions'[i].number >= 1
    <2>1. CASE i \in Rows /\ versions'[i].number = versions[i].number
      <3>1. i \in Drafts
        BY <1>6, <2>1, RowsTyped
      <3> QED
        BY <2>1, <3>1 DEF HeadInv, RowsInOrder
    <2>2. CASE Opens(writes[s][i]) /\ versions'[i] = writes[s][i]
      <3>1. Follows(versions'[i].number) /\ Above(versions'[i].number)
        BY <2>2 DEF Opens
      <3>2. versions'[i].number >= 1
        BY <3>1, RowsTyped DEF Follows
      <3> QED
        BY <3>1, <3>2
    <2> QED
      BY <1>4, <2>1, <2>2
  <1>7. \A n : /\ Follows(n) => Follows(n)'
               /\ Taken(n) => Taken(n)'
    BY <1>4 DEF Follows, Taken
  \* When a draft is committed, nothing is released.
  <1>8. ASSUME NEW i \in Rows', i \notin Releases, i \notin Releases', NEW n, Above(n)
        PROVE  Above(n)'
    <2> SUFFICES ASSUME NEW j \in Releases' PROVE versions'[j].number < n
      BY DEF Above
    <2>1. j \in Releases
      BY <1>3, <1>5, <1>8
    <2> QED
      BY <1>4, <1>8, <2>1 DEF Above
  <1>9. RowsInOrder'
    <2>1. \A i \in Drafts' : i \in Rows' /\ i \notin Releases /\ i \notin Releases'
      <3> SUFFICES ASSUME NEW i \in Drafts'
                   PROVE  i \in Rows' /\ i \notin Releases /\ i \notin Releases'
        OBVIOUS
      <3>1. i \in Rows' /\ versions'[i].state = "draft"
        BY <1>3
      <3> QED
        BY <1>3, <1>4, <3>1
    <2>2. ASSUME NEW i \in Drafts', NEW j \in Drafts'
          PROVE  i = j
      BY <1>5, <2>1
    <2>3. ASSUME NEW i \in Drafts', NEW n, n = versions'[i].number
          PROVE  Follows(n)' /\ Above(n)'
      BY <1>6, <1>7, <1>8, <2>1, <2>3
    <2>4. ASSUME NEW i \in Rows', NEW j \in Rows', versions'[i].number = versions'[j].number
          PROVE  i = j
      <3>1. CASE i \in Releases /\ j \in Releases
        BY <1>4, <2>4, <3>1, RowsTyped DEF HeadInv, RowsInOrder
      <3>2. CASE i \notin Releases /\ j \notin Releases
        BY <1>5, <3>2
      <3>3. ASSUME NEW k \in Rows', NEW l \in Rows', k \in Releases, l \notin Releases,
                   versions'[k].number = versions'[l].number
            PROVE  FALSE
        <4>1. Above(versions'[l].number) /\ versions'[k].number = versions[k].number
          BY <1>4, <1>6, <3>3
        <4>2. versions[k].number < versions'[l].number
          BY <3>3, <4>1 DEF Above
        <4> QED
          BY <1>3, <3>3, <4>1, <4>2
      <3> QED
        BY <2>4, <3>1, <3>2, <3>3
    <2>5. ASSUME NEW i \in Rows' PROVE versions'[i].number >= 1
      <3>1. CASE i \in Releases
        BY <1>4, <3>1, RowsTyped DEF HeadInv, RowsInOrder
      <3> QED
        BY <1>6, <3>1
    <2>6. \A i \in Drafts' : Follows(versions[i].number)' /\ Above(versions[i].number)'
      BY <2>3 DEF Follows, Above
    <2> QED
      BY <2>2, <2>4, <2>5, <2>6 DEF RowsInOrder
  <1>10. ASSUME NEW n \in Nat, Follows(n), Above(n) \/ Taken(n)
         PROVE  Follows(n)' /\ (Above(n)' \/ Taken(n)')
    <2>1. CASE Taken(n)
      BY <1>7, <1>10, <2>1
    <2>2. CASE Above(n) /\ ~Above(n)'
      <3>1. PICK j \in Releases' : ~(versions'[j].number < n)
        BY <2>2 DEF Above
      <3>2. j \notin Releases
        BY <1>4, <2>2, <3>1 DEF Above
      <3> DEFINE m == versions'[j].number
      <3>3. j \in Rows' /\ m \in Nat /\ m >= n
        BY <1>3, <1>10, <3>1
      <3>4. Follows(m)
        BY <1>6, <3>2, <3>3
      <3>5. n >= 1
        BY <1>10, RowsTyped DEF Follows
      <3>6. \A k \in Releases : versions[k].number \in Nat /\ versions[k].number < n
        BY <2>2, RowsTyped DEF Above
      <3>7. m = n
        <4> HIDE DEF m
        <4> QED
          BY <1>10, <3>3, <3>4, <3>5, <3>6 DEF Follows
      <3> QED
        BY <1>7, <1>10, <3>7 DEF Taken
    <2> QED
      BY <1>7, <1>10, <2>1, <2>2
  <1>11. NumbersRead'
    <2> SUFFICES ASSUME NEW o \in Sessions, pc'[o] = "insert", NEW n, n = call'[o].number
                 PROVE  Follows(n)' /\ (Above(n)' \/ Taken(n)')
      BY DEF NumbersRead, Follows, Above, Taken, Rows, Drafts, Releases
    <2>1. o # s /\ pc[o] = "insert" /\ call[o].number = n /\ n \in Nat
      BY <1>1 DEF VersionInv, TypeOK, Call
    <2> QED
      BY <1>10, <2>1 DEF HeadInv, NumbersRead
  \* What others have written is over the same rows as before.
  <1>12. ASSUME NEW o \in Sessions, NEW i \in VersionIds, writes'[o][i] # None
         PROVE  o # s /\ writes[o][i] # None /\ versions'[i] = versions[i]
    <2>1. o # s /\ writes[o][i] # None
      BY <1>1, <1>12
    <2>2. writes[s][i] = None
      BY <2>1 DEF VersionInv, OneRowWriter
    <2>3. Visible(s, i) = versions[i]
      BY <2>2, RepoAssumption DEF Visible
    <2> QED
      BY <1>1, <2>1, <2>3
  <1>13. WritesInOrder'
    <2> SUFFICES ASSUME NEW o \in Sessions, NEW i \in VersionIds, writes'[o][i] # None,
                        NEW w, w = writes'[o][i]
                 PROVE  /\ versions'[i] # None => Keeps(versions'[i], w)
                        /\ versions'[i] = None => Opens(w)'
      BY DEF WritesInOrder, Opens, Follows, Above, Rows, Drafts, Releases
    <2>1. /\ o # s /\ writes[o][i] # None /\ versions'[i] = versions[i]
          /\ w = writes[o][i]
      BY <1>1, <1>12
    <2>2. CASE versions[i] # None
      BY <2>1, <2>2 DEF HeadInv, WritesInOrder
    <2>3. CASE versions[i] = None
      <3>1. Opens(w)
        BY <2>1, <2>3 DEF HeadInv, WritesInOrder
      <3>2. \A j \in VersionIds : writes[s][j] # None => versions[j] # None
        BY <2>1, <2>3 DEF HeadInv, OneOpened
      <3>3. \A j \in Rows' : j \in Releases
        BY <1>3, <1>4, <3>1, <3>2, RowsTyped DEF Opens
      <3>4. Drafts' = {}
        BY <1>3, <1>4, <3>3
      <3>5. Above(w.number)'
        BY <1>3, <1>4, <3>1, <3>3 DEF Above, Opens
      <3> QED
        BY <1>7, <2>1, <2>3, <3>1, <3>4, <3>5 DEF Opens
    <2> QED
      BY <2>1, <2>2, <2>3
  <1>14. OneOpened'
    <2> SUFFICES ASSUME NEW o \in Sessions, NEW p \in Sessions,
                        NEW i \in VersionIds, NEW j \in VersionIds,
                        writes'[o][i] # None, versions'[i] = None,
                        writes'[p][j] # None, versions'[j] = None
                 PROVE  o = p /\ i = j
      BY DEF OneOpened
    <2> QED
      BY <1>12 DEF HeadInv, OneOpened
  <1> QED
    BY <1>9, <1>11, <1>13, <1>14 DEF HeadInv

LEMMA HeadInit == Init => HeadInv
  <1> SUFFICES ASSUME Init PROVE HeadInv
    OBVIOUS
  <1>1. Rows = {} /\ Drafts = {} /\ Releases = {}
    BY DEF Init, Rows, Drafts, Releases
  <1>2. \A s \in Sessions : pc[s] = "idle" /\ \A i \in VersionIds : writes[s][i] = None
    BY UntouchedNone DEF Init
  <1> QED
    BY <1>1, <1>2 DEF HeadInv, RowsInOrder, NumbersRead, WritesInOrder, OneOpened

LEMMA HeadStep == VersionInv /\ HeadInv /\ [Next]_vars => HeadInv'
  <1> SUFFICES ASSUME VersionInv, HeadInv, [Next]_vars PROVE HeadInv'
    OBVIOUS
  <1>1. CASE UNCHANGED vars
    BY <1>1 DEF vars, HeadInv, RowsInOrder, NumbersRead, WritesInOrder, OneOpened,
       Opens, Follows, Above, Taken, Rows, Drafts, Releases
  <1>2. ASSUME NEW s \in Sessions,
               Calls(s) \/ PointDraft(s) \/ ReadTarget(s) \/ CheckHead(s)
               \/ PointPublished(s) \/ FindDraft(s) \/ ClearDraft(s) \/ ReadDef(s)
               \/ UpdateDefinition(s) \/ DeleteDefinition(s) \/ ConnectionLost(s)
        PROVE  HeadInv'
    <2> DEFINE Quiet == /\ versions' = versions /\ writes'[s] \in {Untouched, writes[s]}
                        /\ pc'[s] # "insert"
                        /\ \A o \in Sessions \ {s} :
                             pc'[o] = pc[o] /\ call'[o] = call[o] /\ writes'[o] = writes[o]
    <2>1. pc \in [Sessions -> Pcs] /\ DOMAIN call = Sessions /\ DOMAIN writes = Sessions
      BY DEF VersionInv, TypeOK, Pcs
    <2>2. Rollback(s) => Quiet
      BY <2>1 DEF Rollback, Release, shared
    <2>3. \A p \in {"commit", "release", "clearDraft"} : Goto(s, p) => Quiet
      BY <2>1 DEF Goto, shared
    <2>4. \A d : \A p \in {"commit", "readTarget"} : WriteDef(s, d, p) => Quiet
      BY <2>1 DEF WriteDef, shared
    <2>5. \A c : \A p \in {"readHead", "readTarget", "findDraft", "readDef", "deleteDef"} :
            Begin(s, c, p) => Quiet
      BY <2>1 DEF Begin, shared
    <2>6. ASSUME NEW p \in {"checkHead", "deleteDraft", "writeDef"},
                 pc' = [pc EXCEPT ![s] = p],
                 \E c : call' = [call EXCEPT ![s] = c],
                 UNCHANGED <<shared, minted, writes, defWrite>>
          PROVE  Quiet
      BY <2>1, <2>6 DEF shared
    <2> SUFFICES Quiet
      BY QuietInOrder
    <2> HIDE DEF Quiet
    <2>7. CASE Calls(s)
      BY <2>5, <2>7 DEF Calls, BeginSave, BeginPublish, BeginDiscard, BeginUpdate, BeginDelete
    <2>8. CASE PointDraft(s) \/ PointPublished(s) \/ ClearDraft(s)
      <3>1. AfterSave(s) \in {"commit", "readTarget"}
        BY DEF AfterSave
      <3> QED
        BY <2>4, <2>8, <3>1 DEF PointDraft, PointPublished, ClearDraft
    <2>9. CASE ReadTarget(s)
      BY <2>2, <2>3, <2>6, <2>9 DEF ReadTarget
    <2>10. CASE CheckHead(s)
      BY <2>2, <2>3, <2>10 DEF CheckHead
    <2>11. CASE FindDraft(s)
      BY <2>3, <2>6, <2>11 DEF FindDraft
    <2>12. CASE ReadDef(s)
      BY <2>2, <2>6, <2>12 DEF ReadDef
    <2>13. CASE UpdateDefinition(s) \/ DeleteDefinition(s)
      BY <2>2, <2>4, <2>13 DEF UpdateDefinition, DeleteDefinition
    <2>14. CASE ConnectionLost(s)
      BY <2>2, <2>14 DEF ConnectionLost
    <2> QED
      BY <1>2, <2>7, <2>8, <2>9, <2>10, <2>11, <2>12, <2>13, <2>14
  <1>3. ASSUME NEW s \in Sessions,
               ReadHead(s) \/ UpdateDraft(s) \/ InsertDraft(s) \/ ReleaseVersion(s)
               \/ DeleteDraft(s) \/ Commit(s)
        PROVE  HeadInv'
    BY <1>3, ReadHeadInOrder, WritesInOrderKept, InsertDraftInOrder, CommitInOrder
  <1> QED
    BY <1>1, <1>2, <1>3 DEF Next, Statement

LEMMA HeadAlways == Spec => [](VersionInv /\ HeadInv)
  <1>1. Init => VersionInv /\ HeadInv
    BY VersionInit, HeadInit
  <1>2. (VersionInv /\ HeadInv) /\ [Next]_vars => (VersionInv /\ HeadInv)'
    BY VersionStep, HeadStep
  <1> QED
    BY <1>1, <1>2, PTL DEF Spec

(***************************************************************************)
(* There is one draft at most, at the head, and no number is given twice   *)
(* (DraftIsHead), for any number of callers and versions: who reads the    *)
(* head and who inserts after it are two statements apart, and whatever    *)
(* was committed between them either took the number or left it the head's *)
(* (repository.go:136-205, schema.sql:36-38).                              *)
(***************************************************************************)
THEOREM OneDraftAtTheHead == HistorySpec => []DraftIsHead
  <1>1. VersionInv /\ HeadInv => DraftIsHead
    <2> SUFFICES ASSUME VersionInv, HeadInv PROVE DraftIsHead
      OBVIOUS
    <2>1. \A i \in Rows : versions[i].number \in Nat
      BY RowsTyped
    <2>2. \A i \in Drafts, j \in Releases : versions[j].number < versions[i].number
      BY DEF HeadInv, RowsInOrder, Above
    <2>3. \A i \in Drafts, j \in Releases : versions[j].number <= versions[i].number
      BY <2>1, <2>2, RowsTyped
    <2> QED
      BY <2>3 DEF DraftIsHead, HeadInv, RowsInOrder
  <1> QED
    BY <1>1, HeadAlways, HistoryIsSpec, PTL

\* Only a commit changes the committed rows.
LEMMA OnlyCommits ==
  ASSUME Next, versions' # versions
  PROVE  \E s \in Sessions : Commit(s)
  BY DEF Next, Calls, BeginSave, BeginPublish, BeginDiscard, BeginUpdate, BeginDelete,
     Begin, Statement, ReadHead, InsertAs, UpdateDraft, InsertDraft, PointDraft,
     ReadTarget, CheckHead, ReleaseVersion, PointPublished, FindDraft, DeleteDraft,
     ClearDraft, ReadDef, UpdateDefinition, DeleteDefinition, ConnectionLost,
     Rollback, Write, WriteDef, Goto, shared

(***************************************************************************)
(* No statement, however long it waited, deletes a release, gives it       *)
(* another number or turns it back into a draft (ReleaseStays), for any    *)
(* number of callers and versions (repository.go:290-294).                 *)
(***************************************************************************)
THEOREM ReleasesStay == HistorySpec => ReleaseStays
  <1> DEFINE Stays == \A i \in Releases :
                        /\ i \in Rows'
                        /\ versions'[i].state = "release"
                        /\ versions'[i].number = versions[i].number
  <1>1. (VersionInv /\ HeadInv) /\ [Next]_vars => [Stays]_vars
    <2> SUFFICES ASSUME VersionInv, HeadInv, Next, ~UNCHANGED vars
                 PROVE  Stays
      OBVIOUS
    <2>1. CASE versions' = versions
      BY <2>1, RowsTyped DEF Rows
    <2>2. ASSUME NEW s \in Sessions, Commit(s) PROVE Stays
      BY <2>2, CommitMoves DEF Releases
    <2> QED
      BY <2>1, <2>2, OnlyCommits
  <1> QED
    BY <1>1, HeadAlways, HistoryIsSpec, PTL DEF Spec, ReleaseStays
-----------------------------------------------------------------------------
(***************************************************************************)
(* The story of each kind of call: which row it has written, and what it   *)
(* has made of the definition it still finds committed.                    *)
(***************************************************************************)
\* A row that was deleted: its ID is not given again.
Gone(i) ==
  /\ i \in minted /\ versions[i] = None
  /\ \A s \in Sessions : writes[s][i] = None

\* A row that was committed once.
Seen(i) == i \in VersionIds /\ (versions[i] # None \/ Gone(i))

Saved(c, w)    == c.id \in VersionIds /\ w[c.id] \in Row /\ w[c.id].dsl = c.dsl
Updated(c, w)  == Saved(c, w) /\ versions[c.id] # None /\ w[c.id].state = versions[c.id].state
Inserted(c, w) == Saved(c, w) /\ versions[c.id] = None /\ w[c.id].state = "draft"
IsReleased(c, w) == c.id \in VersionIds /\ w[c.id] \in Row /\ w[c.id].state = "release"

\* The definition is written so, unless it is deleted.
DefinitionIs(d, new) == IF definition.deleted THEN d = None ELSE d = new

Pointed(c, d) == DefinitionIs(d, [definition EXCEPT !.draft = c.id])
Moved(c, d) ==
  DefinitionIs(d, [definition EXCEPT !.draft = None, !.published = c.id])
Cleared(d) == DefinitionIs(d, [definition EXCEPT !.draft = None])

SaveDone(c, w, d) == (Updated(c, w) /\ d = None) \/ (Inserted(c, w) /\ Pointed(c, d))

SaveStory(p, c, w, d) ==
  /\ p \in {"readHead", "update", "insert", "pointDraft", "commit"}
  /\ p = "pointDraft" => Inserted(c, w) /\ d = None
  /\ p = "commit" => SaveDone(c, w, d)

BothStory(p, c, w, d) ==
  /\ p \in {"readHead", "update", "insert", "pointDraft", "readTarget",
            "checkHead", "release", "pointPublished", "commit"}
  /\ p = "pointDraft" => Inserted(c, w) /\ d = None
  /\ p \in Publishing => SaveDone(c, w, d)
  /\ p \in {"pointPublished", "commit"} => Saved(c, w) /\ IsReleased(c, w)
  /\ p = "pointPublished" => d = None \/ Pointed(c, d)
  /\ p = "commit" => Moved(c, d) \/ (d = None /\ c.id \in Releases)

PublishStory(p, c, w, d) ==
  /\ p \in {"readTarget", "checkHead", "release", "pointPublished", "commit"}
  /\ p \in {"checkHead", "release"} => Seen(c.id)
  /\ p = "pointPublished" => d = None /\ (IsReleased(c, w) \/ Gone(c.id))
  /\ p = "commit" => \/ w = Untouched /\ d = None
                     \/ Moved(c, d) /\ (IsReleased(c, w) \/ Gone(c.id))

Discarded(c, w) ==
  \/ c.id \in VersionIds /\ w[c.id] = Deleted
  \/ w = Untouched /\ (c.id = None \/ Gone(c.id) \/ c.id \in Releases)

DiscardStory(p, c, w, d) ==
  /\ p \in {"findDraft", "deleteDraft", "clearDraft", "commit"}
  /\ p = "findDraft" => c.id = None
  /\ p = "deleteDraft" => Seen(c.id)
  /\ p \in {"clearDraft", "commit"} => Discarded(c, w)
  /\ p = "clearDraft" => d = None
  /\ p = "commit" => Cleared(d)

UpdateStory(p, c, w, d) ==
  /\ p \in {"readDef", "writeDef", "commit"}
  /\ p = "commit" => w = Untouched /\ d = c.copy /\ d # None

DeleteStory(p, c, w, d) ==
  /\ p \in {"deleteDef", "commit"}
  /\ p = "commit" => w = Untouched /\ d # None /\ d.deleted

Story(p, c, w, d) ==
  /\ \A i \in VersionIds : w[i] # None => i = c.id
  /\ d # None => ~definition.deleted
  /\ c.kind = "none" => p = "idle"
  /\ c.kind = "save" => SaveStory(p, c, w, d)
  /\ c.kind = "both" => BothStory(p, c, w, d)
  /\ c.kind = "publish" => PublishStory(p, c, w, d)
  /\ c.kind = "discard" => DiscardStory(p, c, w, d)
  /\ c.kind = "update" => UpdateStory(p, c, w, d)
  /\ c.kind = "delete" => DeleteStory(p, c, w, d)

StoryInv == \A s \in Sessions : Story(pc[s], call[s], writes[s], defWrite[s])

\* What a session knows to be released it has not written, and will not.
KnownInv ==
  /\ DOMAIN known = Sessions
  /\ \A s \in Sessions : \A i \in known[s] :
       /\ i \in Releases /\ writes[s][i] = None
       /\ pc[s] \in {"update", "checkHead", "release", "deleteDraft"} => call[s].id # i

LEMMA NoneIsNoData == None \notin Row /\ None \notin Definition /\ None # Deleted /\ Deleted \notin Row
  BY RepoAssumption

\* The statement of a session tells the kind of its call.
LEMMA KindAt ==
  ASSUME NEW c \in Call, NEW p, NEW w, NEW d, Story(p, c, w, d)
  PROVE  /\ p = "idle" => c.kind = "none"
         /\ p \in {"readHead", "update", "insert", "pointDraft"} => c.kind \in {"save", "both"}
         /\ p \in {"readTarget", "checkHead", "release", "pointPublished"} =>
              c.kind \in {"publish", "both"}
         /\ p \in {"findDraft", "deleteDraft", "clearDraft"} => c.kind = "discard"
         /\ p \in {"readDef", "writeDef"} => c.kind = "update"
         /\ p = "deleteDef" => c.kind = "delete"
  <1>1. c.kind \in {"none", "save", "publish", "both", "discard", "update", "delete"}
    BY DEF Call
  <1> QED
    BY <1>1 DEF Story, SaveStory, BothStory, PublishStory, DiscardStory, UpdateStory, DeleteStory

\* What others do leaves the story of a session as it is.
LEMMA StoryStays ==
  ASSUME definition \in Definition, NEW c \in Call, NEW p, NEW w, NEW d, Story(p, c, w, d),
         \A i \in VersionIds : w[i] # None => versions'[i] = versions[i],
         d # None \/ definition.deleted => definition' = definition,
         \A i : Gone(i) => Gone(i)', \A i : Seen(i) => Seen(i)',
         \A i \in Releases : i \in Releases'
  PROVE  Story(p, c, w, d)'
  <1>1. c.id \in VersionIds \cup {None}
    BY DEF Call
  <1>2. ASSUME NEW new, new # None, DefinitionIs(d, new)
        PROVE  definition' = definition
    BY <1>2 DEF DefinitionIs
  <1>3. /\ [definition EXCEPT !.draft = c.id] # None
        /\ [definition EXCEPT !.draft = None, !.published = c.id] # None
        /\ [definition EXCEPT !.draft = None] # None
    <2>1. \A new \in Definition : new # None
      BY NoneIsNoData
    <2>2. /\ [definition EXCEPT !.draft = c.id] \in Definition
          /\ [definition EXCEPT !.draft = None, !.published = c.id] \in Definition
          /\ [definition EXCEPT !.draft = None] \in Definition
      BY <1>1 DEF Definition
    <2> QED
      BY <2>1, <2>2
  <1>4. /\ Pointed(c, d) => Pointed(c, d)'
        /\ Moved(c, d) => Moved(c, d)'
        /\ Cleared(d) => Cleared(d)'
    BY <1>2, <1>3 DEF Pointed, Moved, Cleared, DefinitionIs
  <1>5. Updated(c, w) => Updated(c, w)' /\ (Inserted(c, w) => Inserted(c, w)')
    BY NoneIsNoData DEF Updated, Inserted, Saved
  <1>6. /\ Inserted(c, w) => Inserted(c, w)'
        /\ Saved(c, w)' = Saved(c, w) /\ IsReleased(c, w)' = IsReleased(c, w)
    BY NoneIsNoData DEF Inserted, Saved, IsReleased
  <1>7. SaveDone(c, w, d) => SaveDone(c, w, d)'
    BY <1>4, <1>5, <1>6 DEF SaveDone
  <1>8. Discarded(c, w) => Discarded(c, w)'
    BY DEF Discarded, Untouched
  <1>9. /\ SaveStory(p, c, w, d) => SaveStory(p, c, w, d)'
        /\ BothStory(p, c, w, d) => BothStory(p, c, w, d)'
    BY <1>4, <1>6, <1>7 DEF SaveStory, BothStory
  <1>10. /\ PublishStory(p, c, w, d) => PublishStory(p, c, w, d)'
         /\ DiscardStory(p, c, w, d) => DiscardStory(p, c, w, d)'
    BY <1>4, <1>6, <1>8 DEF PublishStory, DiscardStory, Untouched
  <1>11. /\ UpdateStory(p, c, w, d)' = UpdateStory(p, c, w, d)
         /\ DeleteStory(p, c, w, d)' = DeleteStory(p, c, w, d)
    BY DEF UpdateStory, DeleteStory, Untouched
  <1> QED
    BY <1>9, <1>10, <1>11 DEF Story

\* A statement of s.
LEMMA StatementTells ==
  ASSUME VersionInv, StoryInv, NEW s \in Sessions, shared' = shared, minted \subseteq minted',
         NEW p, pc' = [pc EXCEPT ![s] = p],
         NEW c \in Call, call' = [call EXCEPT ![s] = c],
         NEW w, writes' = [writes EXCEPT ![s] = w],
         NEW d, defWrite' = [defWrite EXCEPT ![s] = d],
         \A i : Gone(i) => w[i] = None,
         Story(p, c, w, d)
  PROVE  StoryInv'
  <1>1. /\ versions' = versions /\ definition' = definition
        /\ pc'[s] = p /\ call'[s] = c /\ writes'[s] = w /\ defWrite'[s] = d
        /\ \A o \in Sessions \ {s} : /\ pc'[o] = pc[o] /\ call'[o] = call[o]
                                     /\ writes'[o] = writes[o]
                                     /\ defWrite'[o] = defWrite[o]
    BY DEF VersionInv, TypeOK, shared
  <1>2. ASSUME NEW i, Gone(i) PROVE Gone(i)'
    BY <1>1, <1>2 DEF Gone
  <1>3. ASSUME NEW i, Seen(i) PROVE Seen(i)'
    BY <1>1, <1>2, <1>3 DEF Seen
  <1>4. Releases' = Releases /\ definition \in Definition
    BY <1>1 DEF Releases, Rows, VersionInv, TypeOK
  <1>5. ASSUME NEW q, NEW e \in Call, NEW v, NEW f, Story(q, e, v, f)
        PROVE  Story(q, e, v, f)'
    BY <1>1, <1>2, <1>3, <1>4, <1>5, StoryStays
  <1> SUFFICES ASSUME NEW o \in Sessions,
                      NEW q, q = pc'[o], NEW e, e = call'[o],
                      NEW v, v = writes'[o], NEW f, f = defWrite'[o]
               PROVE  Story(q, e, v, f)'
    BY DEF StoryInv
  <1>6. CASE o = s
    BY <1>1, <1>5, <1>6
  <1>7. CASE o # s
    <2>1. q = pc[o] /\ e = call[o] /\ v = writes[o] /\ f = defWrite[o]
      BY <1>1, <1>7
    <2>2. Story(q, e, v, f) /\ e \in Call
      BY <2>1 DEF StoryInv, VersionInv, TypeOK
    <2> QED
      BY <1>5, <2>2
  <1> QED
    BY <1>6, <1>7

\* A statement that writes nothing.
LEMMA MoveTells ==
  ASSUME VersionInv, StoryInv, NEW s \in Sessions,
         NEW p, pc' = [pc EXCEPT ![s] = p],
         NEW c \in Call, call' = [call EXCEPT ![s] = c],
         UNCHANGED <<shared, minted, writes, defWrite>>,
         Story(p, c, writes[s], defWrite[s])
  PROVE  StoryInv'
  <1>1. /\ writes' = [writes EXCEPT ![s] = writes[s]]
        /\ defWrite' = [defWrite EXCEPT ![s] = defWrite[s]]
    BY DEF VersionInv, TypeOK
  <1>2. \A i : Gone(i) => writes[s][i] = None
    BY DEF Gone
  <1> QED
    BY <1>1, <1>2, StatementTells

\* A write of a row.
LEMMA WriteTells ==
  ASSUME VersionInv, StoryInv, NEW s \in Sessions, NEW i \in VersionIds, NEW r, NEW p,
         Write(s, i, r, p), Visible(s, i) # None,
         Story(p, call[s], [writes[s] EXCEPT ![i] = r], defWrite[s])
  PROVE  StoryInv'
  <1> DEFINE w == [writes[s] EXCEPT ![i] = r]
  <1>1. /\ call[s] \in Call /\ call' = [call EXCEPT ![s] = call[s]]
        /\ writes' = [writes EXCEPT ![s] = w]
        /\ defWrite' = [defWrite EXCEPT ![s] = defWrite[s]]
        /\ pc' = [pc EXCEPT ![s] = p] /\ shared' = shared /\ minted' = minted
    BY DEF VersionInv, TypeOK, Write
  <1>2. ~Gone(i)
    BY RepoAssumption DEF Gone, Visible
  <1>3. \A j : Gone(j) => w[j] = None
    <2> SUFFICES ASSUME NEW j, Gone(j) PROVE w[j] = None
      OBVIOUS
    <2>1. j \in VersionIds /\ j # i /\ writes[s][j] = None
      BY <1>2 DEF Gone, VersionInv, TypeOK
    <2> QED
      BY <2>1 DEF VersionInv, TypeOK
  <1> HIDE DEF w
  <1>4. Story(p, call[s], w, defWrite[s])
    BY DEF w
  <1> QED
    BY <1>1, <1>3, <1>4, StatementTells

\* A write of the definition.
LEMMA WriteDefTells ==
  ASSUME VersionInv, StoryInv, NEW s \in Sessions, NEW new, NEW p,
         WriteDef(s, new, p), NEW d,
         d = IF VisibleDef(s).deleted THEN defWrite[s] ELSE new,
         Story(p, call[s], writes[s], d)
  PROVE  StoryInv'
  <1>1. /\ call[s] \in Call /\ call' = [call EXCEPT ![s] = call[s]]
        /\ writes' = [writes EXCEPT ![s] = writes[s]]
        /\ defWrite' = [defWrite EXCEPT ![s] = d]
        /\ pc' = [pc EXCEPT ![s] = p] /\ shared' = shared /\ minted' = minted
    BY DEF VersionInv, TypeOK, WriteDef
  <1>2. \A i : Gone(i) => writes[s][i] = None
    BY DEF Gone
  <1> QED
    BY <1>1, <1>2, StatementTells

LEMMA RollbackTells ==
  ASSUME VersionInv, StoryInv, NEW s \in Sessions, Rollback(s)
  PROVE  StoryInv'
  <1>1. Story("idle", NoCall, Untouched, None)
    BY UntouchedNone DEF Story, NoCall
  <1>2. \A i : Gone(i) => Untouched[i] = None
    BY UntouchedNone DEF Gone, VersionInv, TypeOK
  <1>3. /\ pc' = [pc EXCEPT ![s] = "idle"] /\ call' = [call EXCEPT ![s] = NoCall]
        /\ writes' = [writes EXCEPT ![s] = Untouched]
        /\ defWrite' = [defWrite EXCEPT ![s] = None]
        /\ shared' = shared /\ minted' = minted
    BY DEF Rollback, Release
  <1> QED
    BY <1>1, <1>2, <1>3, NoCallTyped, StatementTells

LEMMA GotoTells ==
  ASSUME VersionInv, StoryInv, NEW s \in Sessions, NEW p, Goto(s, p),
         Story(p, call[s], writes[s], defWrite[s])
  PROVE  StoryInv'
  <1>1. call[s] \in Call /\ call' = [call EXCEPT ![s] = call[s]]
    BY DEF VersionInv, TypeOK, Goto
  <1> QED
    BY <1>1, MoveTells DEF Goto

LEMMA CallsTell ==
  ASSUME VersionInv, StoryInv, NEW s \in Sessions, Calls(s)
  PROVE  StoryInv'
  <1>1. pc[s] = "idle"
    BY DEF Calls, BeginSave, BeginPublish, BeginDiscard, BeginUpdate, BeginDelete, Begin
  <1>2. writes[s] = Untouched /\ defWrite[s] = None
    BY <1>1 DEF VersionInv, Local, WrittenSoFar, Early
  <1>3. ASSUME NEW c \in Call, NEW p, Begin(s, c, p),
               \/ c.kind \in {"save", "both"} /\ p = "readHead"
               \/ c.kind = "publish" /\ p = "readTarget"
               \/ c.kind = "discard" /\ p = "findDraft" /\ c.id = None
               \/ c.kind = "update" /\ p = "readDef"
               \/ c.kind = "delete" /\ p = "deleteDef"
        PROVE  StoryInv'
    <2>1. Story(p, c, writes[s], defWrite[s])
      BY <1>2, <1>3, UntouchedNone
         DEF Story, SaveStory, BothStory, PublishStory, DiscardStory, UpdateStory, DeleteStory,
             Publishing
    <2> QED
      BY <1>3, <2>1, MoveTells DEF Begin
  <1>4. CASE BeginSave(s)
    <2> PICK dsl \in DSLs, rev \in 0..MaxRevision, kind \in {"save", "both"} :
          Begin(s, [NoCall EXCEPT !.kind = kind, !.dsl = dsl, !.rev = rev], "readHead")
      BY <1>4 DEF BeginSave
    <2> DEFINE c == [NoCall EXCEPT !.kind = kind, !.dsl = dsl, !.rev = rev]
    <2>1. rev \in Nat
      BY RepoAssumption
    <2>2. c \in Call /\ c.kind = kind /\ Begin(s, c, "readHead")
      BY <2>1 DEF Call, NoCall
    <2> HIDE DEF c
    <2> QED
      BY <1>3, <2>2
  <1>5. CASE BeginPublish(s)
    <2> PICK i \in minted :
          Begin(s, [NoCall EXCEPT !.kind = "publish", !.id = i], "readTarget")
      BY <1>5 DEF BeginPublish
    <2> DEFINE c == [NoCall EXCEPT !.kind = "publish", !.id = i]
    <2>1. c \in Call /\ c.kind = "publish" /\ Begin(s, c, "readTarget")
      BY DEF Call, NoCall, VersionInv, TypeOK
    <2> HIDE DEF c
    <2> QED
      BY <1>3, <2>1
  <1>6. ASSUME NEW kind \in {"discard", "update", "delete"}, NEW p,
               Begin(s, [NoCall EXCEPT !.kind = kind], p),
               \/ kind = "discard" /\ p = "findDraft"
               \/ kind = "update" /\ p = "readDef"
               \/ kind = "delete" /\ p = "deleteDef"
        PROVE  StoryInv'
    <2> DEFINE c == [NoCall EXCEPT !.kind = kind]
    <2>1. c \in Call /\ c.kind = kind /\ c.id = None /\ Begin(s, c, p)
      BY <1>6 DEF Call, NoCall
    <2> HIDE DEF c
    <2> QED
      BY <1>3, <1>6, <2>1
  <1> QED
    BY <1>4, <1>5, <1>6 DEF Calls, BeginDiscard, BeginUpdate, BeginDelete

LEMMA SavesTell ==
  ASSUME VersionInv, StoryInv, NEW s \in Sessions,
         ReadHead(s) \/ UpdateDraft(s) \/ InsertDraft(s)
  PROVE  StoryInv'
  <1>1. /\ writes[s] = Untouched /\ defWrite[s] = None /\ call[s] \in Call
        /\ pc[s] \in {"readHead", "update", "insert"} /\ call[s].dsl \in DSLs
        /\ pc[s] = "update" => call[s].id \in VersionIds
        /\ call[s].number \in Nat
    BY DEF VersionInv, TypeOK, Local, WrittenSoFar, Early, Known, Call,
           ReadHead, UpdateDraft, InsertDraft
  <1>2. call[s].kind \in {"save", "both"}
    BY <1>1, KindAt DEF StoryInv
  <1>3. ASSUME NEW c \in Call, c.kind = call[s].kind, NEW p \in {"insert", "update"},
               pc' = [pc EXCEPT ![s] = p], call' = [call EXCEPT ![s] = c],
               UNCHANGED <<shared, minted, writes, defWrite>>
        PROVE  StoryInv'
    <2>1. Story(p, c, writes[s], defWrite[s])
      BY <1>1, <1>2, <1>3, UntouchedNone DEF Story, SaveStory, BothStory, Publishing
    <2> QED
      BY <1>3, <2>1, MoveTells
  <1>4. CASE ReadHead(s)
    <2>1. ASSUME NEW n \in Nat, InsertAs(s, n) PROVE StoryInv'
      <3> DEFINE c == [call[s] EXCEPT !.number = n]
      <3>1. c \in Call /\ c.kind = call[s].kind /\ call' = [call EXCEPT ![s] = c]
        BY <1>1, <2>1 DEF Call, InsertAs
      <3> HIDE DEF c
      <3> QED
        BY <1>3, <2>1, <3>1 DEF InsertAs
    <2>2. ASSUME NEW i \in VersionIds, call' = [call EXCEPT ![s].id = i],
                 pc' = [pc EXCEPT ![s] = "update"],
                 UNCHANGED <<shared, minted, writes, defWrite>>
          PROVE  StoryInv'
      <3> DEFINE c == [call[s] EXCEPT !.id = i]
      <3>1. c \in Call /\ c.kind = call[s].kind /\ call' = [call EXCEPT ![s] = c]
        BY <1>1, <2>2 DEF Call
      <3> HIDE DEF c
      <3> QED
        BY <1>3, <2>2, <3>1
    <2>3. \A i \in Heads(s) : i \in VersionIds /\ Visible(s, i) \in Row
      BY VisibleTyped DEF Heads, Existing, VersionInv
    <2>4. \A i \in Heads(s) : Visible(s, i).number + 1 \in Nat
      BY <2>3 DEF Row
    <2> QED
      BY <1>4, <2>1, <2>2, <2>3, <2>4, RollbackTells DEF ReadHead
  <1>5. CASE UpdateDraft(s)
    <2> DEFINE i == call[s].id
               rev == versions[i].rev + 1
               r == [versions[i] EXCEPT !.dsl = call[s].dsl, !.rev = rev]
               w == [writes[s] EXCEPT ![i] = r]
    <2>1. i \in VersionIds /\ Visible(s, i) = versions[i]
      BY <1>1, <1>5, EarlyReads DEF UpdateDraft
    <2>2. CASE Matches(s, i) /\ Write(s, i, r, AfterSave(s))
      <3>1. versions[i] \in Row /\ versions[i] # None
        BY <2>1, <2>2 DEF Matches, VersionInv, TypeOK
      <3>2. rev \in Nat
        BY <3>1 DEF Row
      <3> HIDE DEF rev
      <3>3. r \in Row /\ r.dsl = call[s].dsl /\ r.state = versions[i].state
        BY <1>1, <3>1, <3>2 DEF Row
      <3>5. w[i] = r /\ \A j \in VersionIds : w[j] # None => j = i
        BY <1>1, <2>1, UntouchedNone DEF VersionInv, TypeOK
      <3> HIDE DEF r, w
      <3>6. SaveDone(call[s], w, defWrite[s])
        BY <1>1, <2>1, <3>1, <3>3, <3>5 DEF SaveDone, Updated, Saved
      <3>7. Story(AfterSave(s), call[s], w, defWrite[s])
        BY <1>1, <1>2, <3>5, <3>6 DEF AfterSave, Story, SaveStory, BothStory, Publishing
      <3>8. Story(AfterSave(s), call[s], [writes[s] EXCEPT ![i] = r], defWrite[s])
        BY <3>7 DEF w
      <3> QED
        BY <2>1, <2>2, <3>1, <3>8, WriteTells
    <2>3. Rollback(s) \/ (Matches(s, i) /\ Write(s, i, r, AfterSave(s)))
      BY <1>5, <2>1 DEF UpdateDraft
    <2> QED
      BY <2>2, <2>3, RollbackTells
  <1>6. CASE InsertDraft(s)
    <2>1. ASSUME NEW i \in VersionIds \ minted, NEW r \in Row,
                 r.state = "draft", r.dsl = call[s].dsl,
                 minted' = minted \cup {i},
                 writes' = [writes EXCEPT ![s][i] = r],
                 call' = [call EXCEPT ![s].id = i],
                 pc' = [pc EXCEPT ![s] = "pointDraft"],
                 UNCHANGED <<shared, defWrite>>
          PROVE  StoryInv'
      <3> DEFINE c == [call[s] EXCEPT !.id = i]
                 w == [writes[s] EXCEPT ![i] = r]
      <3>1. /\ c \in Call /\ c.kind = call[s].kind /\ c.id = i /\ c.dsl = call[s].dsl
            /\ call' = [call EXCEPT ![s] = c]
        BY <1>1, <2>1 DEF Call
      <3>2. /\ w[i] = r /\ \A j \in VersionIds \ {i} : w[j] = None
            /\ writes' = [writes EXCEPT ![s] = w]
            /\ defWrite' = [defWrite EXCEPT ![s] = defWrite[s]]
            /\ minted \subseteq minted' /\ versions[i] = None
        BY <1>1, <2>1, UntouchedNone DEF VersionInv, TypeOK, MintedRows
      <3>3. \A j : Gone(j) => w[j] = None
        BY <2>1, <3>2 DEF Gone, VersionInv, TypeOK
      <3> HIDE DEF c, w
      <3>4. Inserted(c, w)
        BY <2>1, <3>1, <3>2 DEF Inserted, Saved
      <3>5. Story("pointDraft", c, w, defWrite[s])
        BY <1>1, <1>2, <3>1, <3>2, <3>4 DEF Story, SaveStory, BothStory, Publishing
      <3> QED
        BY <2>1, <3>1, <3>2, <3>3, <3>5, StatementTells
    <2>2. [number |-> call[s].number, state |-> "draft", dsl |-> call[s].dsl, rev |-> 1,
           by |-> None] \in Row
      BY <1>1 DEF Row
    <2> QED
      BY <1>6, <2>1, <2>2, RollbackTells DEF InsertDraft
  <1> QED
    BY <1>4, <1>5, <1>6

\* What a session reads of the definition.
LEMMA ReadsDefinition ==
  ASSUME VersionInv, NEW s \in Sessions
  PROVE  /\ defWrite[s] = None => VisibleDef(s) = definition
         /\ defWrite[s] # None => VisibleDef(s) = defWrite[s]
         /\ definition \in Definition /\ call[s] \in Call
         /\ call[s].id \in VersionIds \cup {None}
         /\ definition.deleted \in BOOLEAN
  BY DEF VisibleDef, VersionInv, TypeOK, Call, Definition

LEMMA PointDraftTells ==
  ASSUME VersionInv, StoryInv, NEW s \in Sessions, PointDraft(s)
  PROVE  StoryInv'
  <1> DEFINE c == call[s]
             w == writes[s]
             d == IF VisibleDef(s).deleted THEN defWrite[s]
                  ELSE [VisibleDef(s) EXCEPT !.draft = c.id]
  <1>1. Story("pointDraft", c, w, defWrite[s]) /\ c \in Call
    BY DEF StoryInv, PointDraft, VersionInv, TypeOK
  <1>2. c.kind \in {"save", "both"}
    BY <1>1, KindAt
  <1>3. Inserted(c, w) /\ defWrite[s] = None /\ \A i \in VersionIds : w[i] # None => i = c.id
    BY <1>1, <1>2 DEF Story, SaveStory, BothStory
  <1>4. /\ d = IF definition.deleted THEN None ELSE [definition EXCEPT !.draft = c.id]
        /\ definition \in Definition /\ c.id \in VersionIds \cup {None}
    BY <1>3, ReadsDefinition
  <1>5. WriteDef(s, [VisibleDef(s) EXCEPT !.draft = c.id], AfterSave(s))
    BY DEF PointDraft
  <1>6. AfterSave(s) = IF c.kind = "both" THEN "readTarget" ELSE "commit"
    BY DEF AfterSave
  <1> HIDE DEF c, w
  <1>7. Pointed(c, d) /\ (d # None => ~definition.deleted)
    BY <1>4 DEF Pointed, DefinitionIs
  <1> HIDE DEF d
  <1>8. SaveDone(c, w, d)
    BY <1>3, <1>7 DEF SaveDone
  <1>9. Story(AfterSave(s), c, w, d)
    BY <1>2, <1>3, <1>6, <1>7, <1>8 DEF Story, SaveStory, BothStory, Publishing
  <1> QED
    BY <1>5, <1>9, WriteDefTells DEF c, w, d

LEMMA ReadTargetTells ==
  ASSUME VersionInv, StoryInv, NEW s \in Sessions, ReadTarget(s) \/ CheckHead(s)
  PROVE  StoryInv'
  <1> DEFINE i == call[s].id
  <1>1. /\ pc[s] \in {"readTarget", "checkHead"} /\ call[s] \in Call /\ i \in VersionIds
        /\ Story(pc[s], call[s], writes[s], defWrite[s])
        /\ call[s].kind # "both" => writes[s] = Untouched /\ defWrite[s] = None
    BY DEF VersionInv, TypeOK, Local, WrittenSoFar, Early, Publishing, Known, StoryInv,
           ReadTarget, CheckHead
  <1>2. call[s].kind \in {"publish", "both"}
    BY <1>1, KindAt
  \* On to the next statement of the publication.
  <1>3. ASSUME NEW c \in Call, c.kind = call[s].kind, c.id = i, c.dsl = call[s].dsl,
               NEW p \in {"checkHead", "release"},
               c.kind = "publish" => Seen(i)
        PROVE  Story(p, c, writes[s], defWrite[s])
    <2>1. SaveDone(call[s], writes[s], defWrite[s]) => SaveDone(c, writes[s], defWrite[s])
      BY <1>3 DEF SaveDone, Updated, Inserted, Saved, Pointed
    <2> QED
      BY <1>1, <1>2, <1>3, <2>1 DEF Story, BothStory, PublishStory, Publishing
  <1>4. CASE ReadTarget(s)
    <2> DEFINE row == Visible(s, i)
    <2>1. pc[s] = "readTarget" /\ row \in Row \cup {None}
      BY <1>1, <1>4, VisibleTyped DEF ReadTarget, VersionInv
    <2>2. call[s].kind = "publish" => row = versions[i]
      BY <1>1, EarlyReads
    <2>3. call[s].kind = "both" => row = writes[s][i] /\ SaveDone(call[s], writes[s], defWrite[s])
      <3>1. call[s].kind = "both" => SaveDone(call[s], writes[s], defWrite[s])
        BY <1>1, <2>1 DEF Story, BothStory, Publishing
      <3>2. SaveDone(call[s], writes[s], defWrite[s]) => writes[s][i] \in Row
        BY DEF SaveDone, Updated, Inserted, Saved
      <3> QED
        BY <3>1, <3>2, NoneIsNoData DEF Visible
    <2> HIDE DEF row
    <2>4. CASE row # None /\ AlreadyReleased(row) /\ Goto(s, "commit")
      <3>1. CASE call[s].kind = "publish"
        <4>1. Story("commit", call[s], writes[s], defWrite[s])
          BY <1>1, <3>1 DEF Story, PublishStory
        <4> QED
          BY <2>4, <4>1, GotoTells
      <3>2. CASE call[s].kind = "both"
        <4>1. row.state = "release"
          BY <2>4 DEF AlreadyReleased
        <4>2. Updated(call[s], writes[s]) /\ defWrite[s] = None
          BY <2>3, <3>2, <4>1 DEF SaveDone, Inserted
        <4>3. /\ Saved(call[s], writes[s]) /\ IsReleased(call[s], writes[s])
              /\ i \in Releases
          BY <2>3, <3>2, <4>1, <4>2 DEF Updated, Saved, IsReleased, Releases, Rows
        <4>4. Story("commit", call[s], writes[s], defWrite[s])
          BY <1>1, <3>2, <4>2, <4>3 DEF Story, BothStory, Publishing
        <4> QED
          BY <2>4, <4>4, GotoTells
      <3> QED
        BY <1>2, <3>1, <3>2
    <2>5. ASSUME row # None, pc' = [pc EXCEPT ![s] = "checkHead"],
                 call' = [call EXCEPT ![s].number = row.number],
                 UNCHANGED <<shared, minted, writes, defWrite>>
          PROVE  StoryInv'
      <3> DEFINE c == [call[s] EXCEPT !.number = row.number]
      <3>1. /\ c \in Call /\ c.kind = call[s].kind /\ c.id = i /\ c.dsl = call[s].dsl
            /\ call' = [call EXCEPT ![s] = c]
        <4>1. row.number \in Nat
          BY <2>1, <2>5 DEF Row
        <4> QED
          BY <1>1, <2>5, <4>1 DEF Call
      <3>2. c.kind = "publish" => Seen(i)
        BY <1>1, <2>2, <2>5, <3>1 DEF Seen
      <3> HIDE DEF c
      <3>3. Story("checkHead", c, writes[s], defWrite[s])
        BY <1>3, <3>1, <3>2
      <3> QED
        BY <2>5, <3>1, <3>3, MoveTells
    <2> QED
      BY <1>4, <2>4, <2>5, RollbackTells DEF ReadTarget, row
  <1>5. CASE CheckHead(s)
    <2>1. pc[s] = "checkHead" /\ (Goto(s, "release") \/ Rollback(s))
      BY <1>5 DEF CheckHead
    <2>2. call[s].kind = "publish" => Seen(i)
      BY <1>1, <2>1 DEF Story, PublishStory
    <2>3. Story("release", call[s], writes[s], defWrite[s])
      BY <1>1, <1>3, <2>2
    <2> QED
      BY <2>1, <2>3, GotoTells, RollbackTells
  <1> QED
    BY <1>4, <1>5

LEMMA ReleaseTells ==
  ASSUME VersionInv, StoryInv, NEW s \in Sessions, ReleaseVersion(s)
  PROVE  StoryInv'
  <1> DEFINE i == call[s].id
             r == Released(s, i)
             w == [writes[s] EXCEPT ![i] = r]
  <1>1. /\ pc[s] = "release" /\ call[s] \in Call /\ i \in VersionIds
        /\ Story(pc[s], call[s], writes[s], defWrite[s])
        /\ call[s].kind # "both" => writes[s] = Untouched /\ defWrite[s] = None
        /\ writes[s] \in [VersionIds -> Row \cup {None, Deleted}]
    BY DEF VersionInv, TypeOK, Local, WrittenSoFar, Early, Publishing, Known, StoryInv,
           ReleaseVersion
  <1>2. call[s].kind \in {"publish", "both"}
    BY <1>1, KindAt
  <1>3. call[s].kind = "publish" => Seen(i) /\ Visible(s, i) = versions[i]
    BY <1>1, EarlyReads DEF Story, PublishStory
  <1>4. call[s].kind = "both" =>
          /\ SaveDone(call[s], writes[s], defWrite[s])
          /\ Saved(call[s], writes[s]) /\ Visible(s, i) = writes[s][i]
    <2>1. call[s].kind = "both" => SaveDone(call[s], writes[s], defWrite[s])
      BY <1>1 DEF Story, BothStory, Publishing
    <2>2. SaveDone(call[s], writes[s], defWrite[s]) => Saved(call[s], writes[s])
      BY DEF SaveDone, Updated, Inserted
    <2>3. Saved(call[s], writes[s]) => Visible(s, i) = writes[s][i]
      BY NoneIsNoData DEF Saved, Visible
    <2> QED
      BY <2>1, <2>2, <2>3
  <1>5. CASE Visible(s, i) = None /\ Goto(s, "pointPublished")
    <2>1. call[s].kind = "publish"
      BY <1>2, <1>4, <1>5, NoneIsNoData DEF Saved
    <2>2. Gone(i)
      BY <1>3, <1>5, <2>1 DEF Seen
    <2>3. Story("pointPublished", call[s], writes[s], defWrite[s])
      BY <1>1, <2>1, <2>2 DEF Story, PublishStory
    <2> QED
      BY <1>5, <2>3, GotoTells
  <1>6. CASE Visible(s, i) # None /\ Write(s, i, r, "pointPublished")
    <2>1. Visible(s, i) \in Row
      BY <1>1, <1>6, VisibleTyped DEF VersionInv
    <2>2. r \in Row /\ r.state = "release" /\ r.dsl = Visible(s, i).dsl
      BY <2>1 DEF Released, Row
    <2>3. w[i] = r /\ \A j \in VersionIds : w[j] # None => j = i
      <3>1. \A j \in VersionIds : writes[s][j] # None => j = i
        BY <1>1 DEF Story
      <3> QED
        BY <1>1, <3>1
    <2> HIDE DEF r, w
    <2>4. IsReleased(call[s], w)
      BY <1>1, <2>2, <2>3 DEF IsReleased
    <2>5. call[s].kind = "both" => /\ Saved(call[s], w)
                                   /\ defWrite[s] = None \/ Pointed(call[s], defWrite[s])
      BY <1>1, <1>4, <2>2, <2>3 DEF Saved, SaveDone
    <2>6. Story("pointPublished", call[s], w, defWrite[s])
      BY <1>1, <1>2, <2>3, <2>4, <2>5 DEF Story, BothStory, PublishStory, Publishing
    <2>7. Story("pointPublished", call[s], [writes[s] EXCEPT ![i] = r], defWrite[s])
      BY <2>6 DEF w
    <2> QED
      BY <1>1, <1>6, <2>7, WriteTells
  <1> QED
    BY <1>5, <1>6 DEF ReleaseVersion

LEMMA PointPublishedTells ==
  ASSUME VersionInv, StoryInv, NEW s \in Sessions, PointPublished(s)
  PROVE  StoryInv'
  <1> DEFINE c == call[s]
             w == writes[s]
             d == IF VisibleDef(s).deleted THEN defWrite[s]
                  ELSE [VisibleDef(s) EXCEPT !.draft = None, !.published = c.id]
  <1>1. Story("pointPublished", c, w, defWrite[s]) /\ c \in Call
    BY DEF StoryInv, PointPublished, VersionInv, TypeOK
  <1>2. c.kind \in {"publish", "both"}
    BY <1>1, KindAt
  <1>3. /\ defWrite[s] = None \/ Pointed(c, defWrite[s])
        /\ \A i \in VersionIds : w[i] # None => i = c.id
    BY <1>1, <1>2 DEF Story, PublishStory, BothStory
  <1>4. definition \in Definition /\ c.id \in VersionIds \cup {None}
    BY ReadsDefinition
  <1>5. d = IF definition.deleted THEN None
            ELSE [definition EXCEPT !.draft = None, !.published = c.id]
    <2>1. CASE defWrite[s] = None
      BY <2>1, ReadsDefinition
    <2>2. CASE defWrite[s] # None
      <3>1. ~definition.deleted /\ defWrite[s] = [definition EXCEPT !.draft = c.id]
        BY <1>3, <2>2 DEF Pointed, DefinitionIs
      <3>2. VisibleDef(s) = [definition EXCEPT !.draft = c.id]
        BY <2>2, <3>1, ReadsDefinition
      <3>3. ~VisibleDef(s).deleted
        BY <1>4, <3>1, <3>2 DEF Definition
      <3>4. [[definition EXCEPT !.draft = c.id] EXCEPT !.draft = None, !.published = c.id]
            = [definition EXCEPT !.draft = None, !.published = c.id]
        BY <1>4 DEF Definition
      <3> QED
        BY <3>1, <3>2, <3>3, <3>4
    <2> QED
      BY <2>1, <2>2
  <1>6. WriteDef(s, [VisibleDef(s) EXCEPT !.draft = None, !.published = c.id], "commit")
    BY DEF PointPublished
  <1> HIDE DEF c, w
  <1>7. Moved(c, d) /\ (d # None => ~definition.deleted)
    BY <1>5 DEF Moved, DefinitionIs
  <1> HIDE DEF d
  <1>8. Story("commit", c, w, d)
    BY <1>1, <1>2, <1>3, <1>7 DEF Story, PublishStory, BothStory, Publishing
  <1> QED
    BY <1>6, <1>8, WriteDefTells DEF c, w, d

LEMMA DiscardTells ==
  ASSUME VersionInv, StoryInv, NEW s \in Sessions,
         FindDraft(s) \/ DeleteDraft(s) \/ ClearDraft(s)
  PROVE  StoryInv'
  <1> DEFINE i == call[s].id
  <1>1. /\ pc[s] \in {"findDraft", "deleteDraft", "clearDraft"} /\ call[s] \in Call
        /\ Story(pc[s], call[s], writes[s], defWrite[s])
        /\ pc[s] # "clearDraft" => writes[s] = Untouched /\ defWrite[s] = None
        /\ pc[s] = "deleteDraft" => i \in VersionIds
        /\ writes[s] \in [VersionIds -> Row \cup {None, Deleted}]
    BY DEF VersionInv, TypeOK, Local, WrittenSoFar, Early, Publishing, Known, StoryInv,
           FindDraft, DeleteDraft, ClearDraft
  <1>2. call[s].kind = "discard"
    BY <1>1, KindAt
  <1>3. CASE FindDraft(s)
    <2>1. pc[s] = "findDraft" /\ i = None
      BY <1>1, <1>2, <1>3 DEF FindDraft, Story, DiscardStory
    <2>2. CASE Goto(s, "clearDraft")
      <3>1. Story("clearDraft", call[s], writes[s], defWrite[s])
        BY <1>1, <1>2, <2>1 DEF Story, DiscardStory, Discarded
      <3> QED
        BY <2>2, <3>1, GotoTells
    <2>3. ASSUME NEW j \in Existing(s), call' = [call EXCEPT ![s].id = j],
                 pc' = [pc EXCEPT ![s] = "deleteDraft"],
                 UNCHANGED <<shared, minted, writes, defWrite>>
          PROVE  StoryInv'
      <3> DEFINE c == [call[s] EXCEPT !.id = j]
      <3>1. Seen(j) /\ j \in VersionIds
        BY <1>1, <2>1, EarlyReads DEF Rows, Seen
      <3>2. /\ c \in Call /\ c.kind = "discard" /\ c.id = j
            /\ call' = [call EXCEPT ![s] = c]
        BY <1>1, <1>2, <2>3, <3>1 DEF Call
      <3> HIDE DEF c
      <3>3. Story("deleteDraft", c, writes[s], defWrite[s])
        BY <1>1, <2>1, <3>1, <3>2, UntouchedNone DEF Story, DiscardStory
      <3> QED
        BY <2>3, <3>2, <3>3, MoveTells
    <2> QED
      BY <1>3, <2>2, <2>3 DEF FindDraft
  <1>4. CASE DeleteDraft(s)
    <2>1. pc[s] = "deleteDraft" /\ Visible(s, i) = versions[i] /\ Seen(i)
      BY <1>1, <1>2, <1>4, EarlyReads DEF DeleteDraft, Story, DiscardStory
    <2>2. CASE ~StillADraft(s, i) /\ Goto(s, "clearDraft")
      <3>1. Gone(i) \/ i \in Releases
        BY <1>1, <2>1, <2>2, RowsTyped DEF StillADraft, Seen
      <3>2. Story("clearDraft", call[s], writes[s], defWrite[s])
        BY <1>1, <1>2, <2>1, <3>1 DEF Story, DiscardStory, Discarded
      <3> QED
        BY <2>2, <3>2, GotoTells
    <2>3. CASE StillADraft(s, i) /\ Write(s, i, Deleted, "clearDraft")
      <3> DEFINE w == [writes[s] EXCEPT ![i] = Deleted]
      <3>1. w[i] = Deleted /\ i \in VersionIds /\ \A j \in VersionIds : w[j] # None => j = i
        BY <1>1, <2>1, UntouchedNone
      <3> HIDE DEF w
      <3>2. Story("clearDraft", call[s], w, defWrite[s])
        BY <1>1, <1>2, <2>1, <3>1 DEF Story, DiscardStory, Discarded
      <3>3. Story("clearDraft", call[s], [writes[s] EXCEPT ![i] = Deleted], defWrite[s])
        BY <3>2 DEF w
      <3>4. Visible(s, i) # None
        BY <2>3 DEF StillADraft
      <3> QED
        BY <2>3, <3>1, <3>3, <3>4, WriteTells
    <2> QED
      BY <1>4, <2>2, <2>3 DEF DeleteDraft
  <1>5. CASE ClearDraft(s)
    <2> DEFINE d == IF VisibleDef(s).deleted THEN defWrite[s] ELSE DraftCleared(s)
    <2>1. /\ pc[s] = "clearDraft" /\ defWrite[s] = None
          /\ Discarded(call[s], writes[s])
          /\ WriteDef(s, DraftCleared(s), "commit")
      BY <1>1, <1>2, <1>5 DEF ClearDraft, Story, DiscardStory
    <2>2. d = IF definition.deleted THEN None ELSE [definition EXCEPT !.draft = None]
      BY <2>1, ReadsDefinition DEF DraftCleared
    <2>3. Cleared(d) /\ (d # None => ~definition.deleted)
      BY <2>2 DEF Cleared, DefinitionIs
    <2> HIDE DEF d
    <2>4. Story("commit", call[s], writes[s], d)
      BY <1>1, <1>2, <2>1, <2>3 DEF Story, DiscardStory
    <2> QED
      BY <2>1, <2>4, WriteDefTells DEF d
  <1> QED
    BY <1>3, <1>4, <1>5

LEMMA DefinitionsTell ==
  ASSUME VersionInv, StoryInv, NEW s \in Sessions,
         ReadDef(s) \/ UpdateDefinition(s) \/ DeleteDefinition(s)
  PROVE  StoryInv'
  <1>1. /\ pc[s] \in {"readDef", "writeDef", "deleteDef"} /\ call[s] \in Call
        /\ writes[s] = Untouched /\ defWrite[s] = None
        /\ Story(pc[s], call[s], writes[s], defWrite[s])
        /\ pc[s] = "writeDef" => call[s].copy \in Definition
    BY DEF VersionInv, TypeOK, Local, WrittenSoFar, Early, Known, StoryInv,
           ReadDef, UpdateDefinition, DeleteDefinition
  <1>2. VisibleDef(s) = definition /\ definition \in Definition
    BY <1>1, ReadsDefinition
  <1>3. CASE ReadDef(s)
    <2>1. ASSUME call' = [call EXCEPT ![s].copy = definition],
                 pc' = [pc EXCEPT ![s] = "writeDef"],
                 UNCHANGED <<shared, minted, writes, defWrite>>
          PROVE  StoryInv'
      <3> DEFINE c == [call[s] EXCEPT !.copy = definition]
      <3>1. c \in Call /\ c.kind = "update" /\ call' = [call EXCEPT ![s] = c]
        <4>1. call[s].kind = "update"
          BY <1>1, <1>3, KindAt DEF ReadDef
        <4> QED
          BY <1>1, <1>2, <2>1, <4>1 DEF Call
      <3> HIDE DEF c
      <3>2. Story("writeDef", c, writes[s], defWrite[s])
        BY <1>1, <3>1, UntouchedNone DEF Story, UpdateStory
      <3> QED
        BY <2>1, <3>1, <3>2, MoveTells
    <2> QED
      BY <1>3, <2>1, RollbackTells DEF ReadDef
  <1>4. CASE UpdateDefinition(s)
    <2>1. CASE ~definition.deleted /\ WriteDef(s, call[s].copy, "commit")
      <3>1. pc[s] = "writeDef" /\ call[s].kind = "update" /\ call[s].copy # None
        BY <1>1, <1>4, KindAt, NoneIsNoData DEF UpdateDefinition
      <3>2. Story("commit", call[s], writes[s], call[s].copy)
        BY <1>1, <2>1, <3>1, UntouchedNone DEF Story, UpdateStory
      <3> QED
        BY <1>2, <2>1, <3>2, WriteDefTells
    <2> QED
      BY <1>4, <2>1, RollbackTells DEF UpdateDefinition
  <1>5. CASE DeleteDefinition(s)
    <2> DEFINE d == [definition EXCEPT !.deleted = TRUE]
    <2>1. CASE ~definition.deleted /\ WriteDef(s, d, "commit")
      <3>1. pc[s] = "deleteDef" /\ call[s].kind = "delete"
        BY <1>1, <1>5, KindAt DEF DeleteDefinition
      <3>2. d \in Definition /\ d.deleted
        BY <1>2 DEF Definition
      <3> HIDE DEF d
      <3>3. d # None
        BY <3>2, NoneIsNoData
      <3>4. Story("commit", call[s], writes[s], d)
        BY <1>1, <2>1, <3>1, <3>2, <3>3, UntouchedNone DEF Story, DeleteStory
      <3> QED
        BY <1>2, <2>1, <3>4, WriteDefTells
    <2> QED
      BY <1>5, <2>1, RollbackTells DEF DeleteDefinition
  <1> QED
    BY <1>3, <1>4, <1>5

\* A commit of s: the rows that others have written are not its own.
LEMMA CommitTells ==
  ASSUME VersionInv, HeadInv, StoryInv, NEW s \in Sessions, Commit(s)
  PROVE  StoryInv'
  <1>1. /\ pc'[s] = "idle" /\ call'[s] = NoCall /\ writes'[s] = Untouched /\ defWrite'[s] = None
        /\ \A o \in Sessions \ {s} : /\ pc'[o] = pc[o] /\ call'[o] = call[o]
                                     /\ writes'[o] = writes[o]
                                     /\ defWrite'[o] = defWrite[o]
        /\ \A i \in VersionIds : versions'[i] = Visible(s, i)
        /\ definition' = VisibleDef(s) /\ minted' = minted
    BY DEF VersionInv, TypeOK, Commit, Release
  <1>2. ASSUME NEW i, Gone(i) PROVE Gone(i)'
    <2>1. i \in VersionIds /\ writes[s][i] = None /\ versions[i] = None
      BY <1>2 DEF Gone, VersionInv, TypeOK
    <2>2. versions'[i] = None
      BY <1>1, <2>1, RepoAssumption DEF Visible
    <2> QED
      BY <1>1, <1>2, <2>1, <2>2, UntouchedNone DEF Gone
  <1>3. ASSUME NEW i, Seen(i) PROVE Seen(i)'
    <2>1. CASE Gone(i)
      BY <1>2, <1>3, <2>1 DEF Seen
    <2>2. CASE versions[i] # None /\ versions'[i] = None
      <3>1. i \in VersionIds /\ i \in minted
        BY <1>3, <2>2 DEF Seen, VersionInv, MintedRows
      <3>2. writes[s][i] # None
        BY <1>1, <2>2, <3>1, RepoAssumption DEF Visible
      <3>3. \A o \in Sessions : writes'[o][i] = None
        BY <1>1, <3>1, <3>2, UntouchedNone DEF VersionInv, OneRowWriter
      <3> QED
        BY <1>1, <1>3, <2>2, <3>1, <3>3 DEF Seen, Gone
    <2> QED
      BY <1>3, <2>1, <2>2 DEF Seen
  <1>4. \A i \in Releases : i \in Releases'
    BY CommitMoves
  <1> SUFFICES ASSUME NEW o \in Sessions,
                      NEW p, p = pc'[o], NEW c, c = call'[o],
                      NEW w, w = writes'[o], NEW d, d = defWrite'[o]
               PROVE  Story(p, c, w, d)'
    BY DEF StoryInv
  <1>5. CASE o = s
    BY <1>1, <1>5, UntouchedNone DEF Story, NoCall
  <1>6. CASE o # s
    <2>1. /\ p = pc[o] /\ c = call[o] /\ w = writes[o] /\ d = defWrite[o]
          /\ Story(p, c, w, d) /\ c \in Call /\ definition \in Definition
      BY <1>1, <1>6 DEF StoryInv, VersionInv, TypeOK
    <2>2. ASSUME NEW i \in VersionIds, w[i] # None PROVE versions'[i] = versions[i]
      <3>1. writes[s][i] = None
        BY <1>6, <2>1, <2>2 DEF VersionInv, OneRowWriter
      <3> QED
        BY <1>1, <3>1, RepoAssumption DEF Visible
    <2>3. d # None \/ definition.deleted => definition' = definition
      <3>1. d # None \/ definition.deleted => defWrite[s] = None
        BY <1>6, <2>1 DEF VersionInv, OneDefWriter, StoryInv, Story
      <3> QED
        BY <1>1, <3>1 DEF VisibleDef
    <2> QED
      BY <1>2, <1>3, <1>4, <2>1, <2>2, <2>3, StoryStays
  <1> QED
    BY <1>5, <1>6

LEMMA StoryInit == Init => StoryInv
  <1> SUFFICES ASSUME Init, NEW s \in Sessions PROVE Story("idle", NoCall, Untouched, None)
    BY DEF Init, StoryInv
  <1> QED
    BY UntouchedNone DEF Story, NoCall

LEMMA StoryStep == VersionInv /\ HeadInv /\ StoryInv /\ [Next]_vars => StoryInv'
  <1> SUFFICES ASSUME VersionInv, HeadInv, StoryInv, [Next]_vars PROVE StoryInv'
    OBVIOUS
  <1>1. CASE UNCHANGED vars
    <2>1. /\ versions' = versions /\ definition' = definition /\ minted' = minted
          /\ pc' = pc /\ call' = call /\ writes' = writes /\ defWrite' = defWrite
      BY <1>1 DEF vars
    <2>2. /\ \A i : Gone(i) => Gone(i)'
          /\ Releases' = Releases
      BY <2>1 DEF Gone, Releases, Rows
    <2>3. \A i : Seen(i) => Seen(i)'
      BY <2>1, <2>2 DEF Seen
    <2> SUFFICES ASSUME NEW o \in Sessions,
                        NEW p, p = pc[o], NEW c, c = call[o],
                        NEW w, w = writes[o], NEW d, d = defWrite[o]
                 PROVE  Story(p, c, w, d)'
      BY <2>1 DEF StoryInv
    <2>4. Story(p, c, w, d) /\ c \in Call /\ definition \in Definition
      BY DEF StoryInv, VersionInv, TypeOK
    <2> QED
      BY <2>1, <2>2, <2>3, <2>4, StoryStays
  <1>2. ASSUME NEW s \in Sessions, Calls(s) \/ Statement(s) \/ ConnectionLost(s)
        PROVE  StoryInv'
    BY <1>2, CallsTell, SavesTell, PointDraftTells, ReadTargetTells, ReleaseTells,
       PointPublishedTells, DiscardTells, DefinitionsTell, CommitTells, RollbackTells
       DEF Statement, ConnectionLost
  <1> QED
    BY <1>1, <1>2 DEF Next

LEMMA StoryAlways == Spec => [](VersionInv /\ HeadInv /\ StoryInv)
  <1>1. Init => VersionInv /\ HeadInv /\ StoryInv
    BY VersionInit, HeadInit, StoryInit
  <1>2. (VersionInv /\ HeadInv /\ StoryInv) /\ [Next]_vars
          => (VersionInv /\ HeadInv /\ StoryInv)'
    BY VersionStep, HeadStep, StoryStep
  <1> QED
    BY <1>1, <1>2, PTL DEF Spec

(***************************************************************************)
(* Save-and-publish publishes what it saved (PublishesWhatItSaved), for    *)
(* any number of callers, versions and contents: from the save to the      *)
(* commit the row is locked by the one outer transaction, and a save that  *)
(* met a release finds nothing to publish (db.go:71-80).                   *)
(***************************************************************************)
THEOREM WhatIsSavedIsPublished == HistorySpec => PublishesWhatItSaved
  <1> DEFINE Published == \A s \in Sessions :
        pc[s] = "commit" /\ call[s].kind = "both" /\ versions' # versions
        /\ pc'[s] = "idle" =>
          /\ versions'[call[s].id].state = "release"
          /\ versions'[call[s].id].dsl = call[s].dsl
  <1>1. (VersionInv /\ HeadInv /\ StoryInv) /\ [Next]_vars => [Published]_vars
    <2> SUFFICES ASSUME VersionInv, StoryInv, Next, NEW s \in Sessions,
                        pc[s] = "commit", call[s].kind = "both", versions' # versions,
                        pc'[s] = "idle"
                 PROVE  /\ versions'[call[s].id].state = "release"
                        /\ versions'[call[s].id].dsl = call[s].dsl
      OBVIOUS
    <2>1. PICK o \in Sessions : Commit(o)
      BY OnlyCommits
    <2>2. o = s
      BY <2>1 DEF Commit, Release, VersionInv, TypeOK
    <2>3. Saved(call[s], writes[s]) /\ IsReleased(call[s], writes[s])
      BY DEF StoryInv, Story, BothStory
    <2>4. versions'[call[s].id] = writes[s][call[s].id]
      BY <2>1, <2>2, <2>3, NoneIsNoData DEF Commit, Visible, Saved
    <2> QED
      BY <2>3, <2>4 DEF Saved, IsReleased
  <1> QED
    BY <1>1, StoryAlways, HistoryIsSpec, PTL DEF Spec, PublishesWhatItSaved
-----------------------------------------------------------------------------
\* A step of s is of s only.
LEMMA StepOf ==
  ASSUME VersionInv, NEW s \in Sessions, Calls(s) \/ Statement(s) \/ ConnectionLost(s)
  PROVE  /\ \A o \in Sessions \ {s} :
              pc'[o] = pc[o] /\ call'[o] = call[o] /\ writes'[o] = writes[o]
         /\ shared' = shared \/ Commit(s)
  <1>1. pc \in [Sessions -> Pcs] /\ DOMAIN call = Sessions /\ DOMAIN writes = Sessions
    BY DEF VersionInv, TypeOK, Pcs
  <1> QED
    BY <1>1 DEF Calls, BeginSave, BeginPublish, BeginDiscard, BeginUpdate, BeginDelete,
       Begin, Statement, ReadHead, InsertAs, UpdateDraft, InsertDraft, PointDraft,
       ReadTarget, CheckHead, ReleaseVersion, PointPublished, FindDraft, DeleteDraft,
       ClearDraft, ReadDef, UpdateDefinition, DeleteDefinition, ConnectionLost, Commit,
       Rollback, Release, Write, WriteDef, Goto, shared

\* A release that s knows is no row it goes on to write.
LEMMA KnownUntouched ==
  ASSUME VersionInv, HeadInv, KnownInv, NEW s \in Sessions, Statement(s),
         pc'[s] \notin {"idle", "readDef", "deleteDef"}, NEW i \in known[s]
  PROVE  /\ writes'[s][i] = None
         /\ pc'[s] \in {"update", "checkHead", "release", "deleteDraft"} => call'[s].id # i
  <1> DEFINE Danger == {"update", "checkHead", "release", "deleteDraft"}
             Unwritten == /\ writes'[s][i] = None
                          /\ pc'[s] \in Danger => call'[s].id # i
  <1>1. /\ i \in Releases /\ writes[s][i] = None
        /\ pc[s] \in Danger => call[s].id # i
    BY DEF KnownInv
  <1>2. /\ i \in VersionIds /\ i \in Rows /\ versions[i] \in Row
        /\ versions[i] # None /\ versions[i].state = "release" /\ i \in minted
    BY <1>1, RowsTyped DEF VersionInv, MintedRows
  <1>3. /\ pc \in [Sessions -> Pcs] /\ call[s] \in Call
        /\ call \in [Sessions -> Call] /\ DOMAIN writes = Sessions
        /\ writes[s] \in [VersionIds -> Row \cup {None, Deleted}]
    BY DEF VersionInv, TypeOK, Pcs
  <1>4. Visible(s, i) = versions[i]
    BY <1>1, RepoAssumption DEF Visible
  <1>5. ~Rollback(s)
    BY <1>3 DEF Rollback, Release
  <1>6. \A p : Goto(s, p) => /\ writes'[s][i] = None
                             /\ pc'[s] = p /\ call'[s] = call[s]
    BY <1>1, <1>3 DEF Goto
  <1>7. \A d : \A p \in {"commit", "readTarget"} : WriteDef(s, d, p) => Unwritten
    BY <1>1, <1>3 DEF WriteDef
  <1>8. ASSUME NEW j \in VersionIds, NEW r, j # i,
               NEW p \in {"commit", "readTarget", "pointPublished", "clearDraft"},
               Write(s, j, r, p)
        PROVE  Unwritten
    BY <1>1, <1>3, <1>8 DEF Write
  <1>9. ASSUME NEW j, j # i, NEW p \in Danger,
               pc' = [pc EXCEPT ![s] = p], call' = [call EXCEPT ![s].id = j],
               UNCHANGED <<shared, minted, writes, defWrite>>
        PROVE  Unwritten
    <2>1. call'[s].id = j
      BY <1>3, <1>9 DEF Call
    <2> QED
      BY <1>1, <1>9, <2>1
  <1> SUFFICES Unwritten
    OBVIOUS
  <1>10. call[s].id \in VersionIds \/ pc[s] \notin Danger
    BY DEF VersionInv, Local, Known, Publishing
  <1> HIDE DEF Unwritten
  <1>11. CASE ReadHead(s)
    <2>1. ASSUME NEW n, InsertAs(s, n) PROVE Unwritten
      BY <1>1, <1>3, <2>1 DEF InsertAs, Unwritten
    <2>2. \A j \in Heads(s) : Visible(s, j).state = "draft" => j # i
      BY <1>2, <1>4
    <2> QED
      BY <1>5, <1>9, <1>11, <2>1, <2>2 DEF ReadHead
  <1>12. CASE UpdateDraft(s)
    <2>1. AfterSave(s) \in {"commit", "readTarget"} /\ pc[s] = "update"
      BY <1>12 DEF AfterSave, UpdateDraft
    <2> QED
      BY <1>1, <1>5, <1>8, <1>10, <1>12, <2>1 DEF UpdateDraft
  <1>13. CASE InsertDraft(s)
    <2>1. ASSUME NEW j \in VersionIds \ minted, NEW r,
                 writes' = [writes EXCEPT ![s][j] = r],
                 pc' = [pc EXCEPT ![s] = "pointDraft"]
          PROVE  Unwritten
      BY <1>1, <1>2, <1>3, <2>1 DEF Unwritten
    <2> QED
      BY <1>5, <1>13, <2>1 DEF InsertDraft
  <1>14. CASE PointDraft(s) \/ PointPublished(s) \/ ClearDraft(s)
    <2>1. AfterSave(s) \in {"commit", "readTarget"}
      BY DEF AfterSave
    <2> QED
      BY <1>7, <1>14, <2>1 DEF PointDraft, PointPublished, ClearDraft
  <1>15. CASE ReadTarget(s)
    <2>1. CASE Goto(s, "commit")
      BY <1>6, <2>1 DEF Unwritten
    <2>2. ASSUME ~AlreadyReleased(Visible(s, call[s].id)), NEW n,
                 pc' = [pc EXCEPT ![s] = "checkHead"],
                 call' = [call EXCEPT ![s].number = n],
                 UNCHANGED <<shared, minted, writes, defWrite>>
          PROVE  Unwritten
      <3>1. call[s].id # i
        BY <1>2, <1>4, <2>2 DEF AlreadyReleased
      <3>2. call'[s].id = call[s].id
        BY <1>3, <2>2 DEF Call
      <3> QED
        BY <1>1, <2>2, <3>1, <3>2 DEF Unwritten
    <2> QED
      BY <1>5, <1>15, <2>1, <2>2 DEF ReadTarget
  <1>16. CASE CheckHead(s)
    BY <1>1, <1>5, <1>6, <1>16 DEF CheckHead, Unwritten
  <1>17. CASE ReleaseVersion(s)
    <2>1. CASE Goto(s, "pointPublished")
      BY <1>6, <2>1 DEF Unwritten
    <2> QED
      BY <1>1, <1>8, <1>10, <1>17, <2>1 DEF ReleaseVersion
  <1>18. CASE FindDraft(s)
    <2>1. CASE Goto(s, "clearDraft")
      BY <1>6, <2>1 DEF Unwritten
    <2> QED
      BY <1>2, <1>4, <1>9, <1>18, <2>1 DEF FindDraft
  <1>19. CASE DeleteDraft(s)
    <2>1. CASE Goto(s, "clearDraft")
      BY <1>6, <2>1 DEF Unwritten
    <2> QED
      BY <1>1, <1>8, <1>10, <1>19, <2>1 DEF DeleteDraft
  <1>20. CASE ReadDef(s) \/ UpdateDefinition(s) \/ DeleteDefinition(s)
    <2>1. ASSUME pc' = [pc EXCEPT ![s] = "writeDef"],
                 UNCHANGED <<shared, minted, writes, defWrite>>
          PROVE  Unwritten
      BY <1>1, <1>3, <2>1 DEF Unwritten
    <2> QED
      BY <1>5, <1>7, <1>20, <2>1 DEF ReadDef, UpdateDefinition, DeleteDefinition
  <1>21. ~Commit(s)
    BY <1>3 DEF Commit, Release
  <1> QED
    BY <1>11, <1>12, <1>13, <1>14, <1>15, <1>16, <1>17, <1>18, <1>19, <1>20, <1>21
       DEF Statement

LEMMA KnownStep ==
  ASSUME VersionInv, HeadInv, KnownInv, [HistoryNext]_<<vars, historyVars>>
  PROVE  KnownInv'
  <1>1. CASE UNCHANGED <<vars, historyVars>>
    BY <1>1 DEF vars, historyVars, KnownInv, Releases, Rows
  <1>2. ASSUME NEW s \in Sessions, Calls(s) \/ Statement(s) \/ ConnectionLost(s), Remember(s)
        PROVE  KnownInv'
    <2>1. /\ \A o \in Sessions \ {s} :
               pc'[o] = pc[o] /\ call'[o] = call[o] /\ writes'[o] = writes[o]
          /\ versions' = versions \/ Commit(s)
      BY <1>2, StepOf DEF shared
    <2>2. \A i \in Releases : i \in Releases'
      BY <2>1, CommitMoves DEF Releases, Rows
    <2>3. /\ DOMAIN known' = Sessions
          /\ \A o \in Sessions \ {s} : known'[o] = known[o]
          /\ known'[s] = IF pc'[s] \in {"idle", "readDef", "deleteDef"} THEN {}
                         ELSE IF pc[s] = "idle" THEN Releases ELSE known[s]
      BY <1>2 DEF Remember, KnownInv
    <2>4. ASSUME NEW i \in known'[s]
          PROVE  /\ i \in Releases' /\ writes'[s][i] = None
                 /\ pc'[s] \in {"update", "checkHead", "release", "deleteDraft"} =>
                      call'[s].id # i
      <3>1. pc'[s] \notin {"idle", "readDef", "deleteDef"}
        BY <2>3, <2>4
      <3>2. CASE pc[s] = "idle"
        <4>1. i \in Releases /\ i \in Releases' /\ i \in VersionIds
          BY <2>2, <2>3, <2>4, <3>1, <3>2, RowsTyped
        <4>2. Calls(s)
          BY <1>2, <3>2 DEF Statement, ReadHead, UpdateDraft, InsertDraft, PointDraft,
             ReadTarget, CheckHead, ReleaseVersion, PointPublished, FindDraft, DeleteDraft,
             ClearDraft, ReadDef, UpdateDefinition, DeleteDefinition, Commit, ConnectionLost
        <4>3. /\ pc'[s] \in {"readHead", "readTarget", "findDraft", "readDef", "deleteDef"}
              /\ writes' = writes
          BY <4>2 DEF Calls, BeginSave, BeginPublish, BeginDiscard, BeginUpdate,
             BeginDelete, Begin, VersionInv, TypeOK
        <4>4. writes[s][i] = None
          BY <3>2, <4>1, UntouchedNone DEF VersionInv, Local, WrittenSoFar, Early
        <4> QED
          BY <4>1, <4>3, <4>4
      <3>3. CASE pc[s] # "idle"
        <4>1. i \in known[s] /\ i \in Releases'
          BY <2>2, <2>3, <2>4, <3>1, <3>3 DEF KnownInv
        <4>2. ~Calls(s)
          BY <3>3 DEF Calls, BeginSave, BeginPublish, BeginDiscard, BeginUpdate,
             BeginDelete, Begin
        <4>3. ~ConnectionLost(s)
          BY <3>1 DEF ConnectionLost, Rollback, Release, VersionInv, TypeOK
        <4> QED
          BY <1>2, <3>1, <4>1, <4>2, <4>3, KnownUntouched
      <3> QED
        BY <3>2, <3>3
    <2>5. ASSUME NEW o \in Sessions, NEW i \in known'[o]
          PROVE  /\ i \in Releases' /\ writes'[o][i] = None
                 /\ pc'[o] \in {"update", "checkHead", "release", "deleteDraft"} =>
                      call'[o].id # i
      <3>1. CASE o = s
        BY <2>4, <2>5, <3>1
      <3>2. CASE o # s
        BY <2>1, <2>2, <2>3, <2>5, <3>2 DEF KnownInv
      <3> QED
        BY <3>1, <3>2
    <2> QED
      BY <2>3, <2>5 DEF KnownInv
  <1> QED
    BY <1>1, <1>2 DEF HistoryNext

(***************************************************************************)
(* A release is frozen for every call that began after it                  *)
(* (KnownReleasesFrozen), for any number of callers and versions: a call   *)
(* writes only a row it has read to be a draft, and no release was one     *)
(* after the call began (repository.go:150, 236).                          *)
(***************************************************************************)
THEOREM KnownReleasesStayFrozen == HistorySpec => KnownReleasesFrozen
  <1> DEFINE Frozen == \A s \in Sessions : \A i \in known[s] :
        pc[s] = "commit" /\ pc'[s] = "idle" /\ versions' # versions =>
          versions'[i] = versions[i]
  <1>1. (VersionInv /\ KnownInv) /\ [HistoryNext]_<<vars, historyVars>> => [Frozen]_vars
    <2> SUFFICES ASSUME VersionInv, KnownInv, HistoryNext, NEW s \in Sessions,
                        NEW i \in known[s], pc[s] = "commit", pc'[s] = "idle",
                        versions' # versions
                 PROVE  versions'[i] = versions[i]
      BY DEF vars
    <2>1. PICK o \in Sessions : Commit(o)
      BY OnlyCommits DEF HistoryNext, Next
    <2>2. o = s
      BY <2>1 DEF Commit, Release, VersionInv, TypeOK
    <2>3. i \in VersionIds /\ writes[s][i] = None
      BY RowsTyped DEF KnownInv
    <2> QED
      BY <2>1, <2>2, <2>3, RepoAssumption DEF Commit, Visible
  <1>2. HistoryInit => KnownInv
    BY DEF HistoryInit, KnownInv
  <1>3. (VersionInv /\ HeadInv) /\ KnownInv /\ [HistoryNext]_<<vars, historyVars>> => KnownInv'
    BY KnownStep
  <1> QED
    BY <1>1, <1>2, <1>3, HeadAlways, HistoryIsSpec, PTL DEF HistorySpec, KnownReleasesFrozen
-----------------------------------------------------------------------------
(***************************************************************************)
(* The pointers.                                                           *)
(***************************************************************************)
\* A commit touches no row but its call's.
LEMMA CommitTouches ==
  ASSUME VersionInv, HeadInv, StoryInv, NEW s \in Sessions, Commit(s)
  PROVE  /\ \A i \in VersionIds \ {call[s].id} : versions'[i] = versions[i]
         /\ \A i \in VersionIds : writes[s][i] = None => versions'[i] = versions[i]
         /\ \A i \in VersionIds : writes[s][i] \in Row => versions'[i] = writes[s][i]
         /\ \A i \in VersionIds : writes[s][i] = Deleted => versions'[i] = None
         /\ definition' = IF defWrite[s] = None THEN definition ELSE defWrite[s]
         /\ pc[s] = "commit" /\ call[s] \in Call
         /\ Story("commit", call[s], writes[s], defWrite[s])
  <1>1. \A i \in VersionIds : versions'[i] = Visible(s, i)
    BY DEF Commit
  <1>2. \A i \in VersionIds : writes[s][i] = None => versions'[i] = versions[i]
    BY <1>1, RepoAssumption DEF Visible
  <1>3. \A i \in VersionIds : writes[s][i] \in Row => versions'[i] = writes[s][i]
    BY <1>1, NoneIsNoData DEF Visible
  <1>4. \A i \in VersionIds : writes[s][i] = Deleted => versions'[i] = None
    BY <1>1, NoneIsNoData DEF Visible
  <1>5. /\ pc[s] = "commit" /\ call[s] \in Call
        /\ Story("commit", call[s], writes[s], defWrite[s])
    BY DEF Commit, StoryInv, VersionInv, TypeOK
  <1>6. \A i \in VersionIds \ {call[s].id} : writes[s][i] = None
    BY <1>5 DEF Story
  <1> QED
    BY <1>2, <1>3, <1>4, <1>5, <1>6 DEF Commit, VisibleDef

\* Drafts and releases are as before.
SameRows ==
  /\ Drafts' = Drafts /\ Releases' = Releases
  /\ \A i \in Releases : versions'[i].number = versions[i].number

\* Version i is released: there is no draft, and it is the highest release.
ReleasedNow(i) ==
  /\ i \in Releases' /\ Drafts' = {}
  /\ \A j \in Releases' : versions'[j].number <= versions'[i].number

\* The draft, or a new row, becomes a release.
LEMMA ReleaseCommitted ==
  ASSUME VersionInv, HeadInv, StoryInv, NEW s \in Sessions, Commit(s),
         NEW i, i = call[s].id, IsReleased(call[s], writes[s]),
         i \in Drafts \/ versions[i] = None
  PROVE  ReleasedNow(i)
  <1>1. /\ i \in VersionIds /\ writes[s][i] \in Row /\ writes[s][i] # None
        /\ versions'[i] = writes[s][i] /\ versions'[i].state = "release"
        /\ \A j \in VersionIds \ {i} : versions'[j] = versions[j]
        /\ versions'[i] # None
    BY CommitTouches, NoneIsNoData DEF IsReleased
  <1>2. i \in Releases'
    BY <1>1 DEF Releases, Rows
  <1>3. Drafts \subseteq {i}
    <2>1. CASE i \in Drafts
      BY <2>1 DEF HeadInv, RowsInOrder
    <2>2. CASE versions[i] = None
      BY <1>1, <2>2 DEF HeadInv, WritesInOrder, Opens
    <2> QED
      BY <2>1, <2>2
  <1>4. \A j \in Rows' : /\ j \in VersionIds
                         /\ j # i => j \in Releases /\ versions'[j] = versions[j]
    <2> SUFFICES ASSUME NEW j \in Rows', j # i
                 PROVE  j \in Releases /\ versions'[j] = versions[j]
      BY DEF Rows
    <2>1. j \in Rows /\ versions'[j] = versions[j]
      BY <1>1 DEF Rows
    <2> QED
      BY <1>3, <2>1, RowsTyped
  <1>5. Drafts' = {}
    BY <1>1, <1>4 DEF Drafts, Releases
  <1>6. Above(versions'[i].number)
    <2>1. CASE i \in Drafts
      <3>1. Keeps(versions[i], writes[s][i])
        BY <1>1, <2>1, RowsTyped DEF HeadInv, WritesInOrder
      <3>2. versions'[i].number = versions[i].number
        BY <1>1, <3>1, NoneIsNoData DEF Keeps
      <3> QED
        BY <2>1, <3>2 DEF HeadInv, RowsInOrder
    <2>2. CASE versions[i] = None
      BY <1>1, <2>2 DEF HeadInv, WritesInOrder, Opens
    <2> QED
      BY <2>1, <2>2
  <1>7. versions'[i].number \in Nat
    BY <1>1 DEF Row
  <1>8. ASSUME NEW j \in Releases'
        PROVE  versions'[j].number <= versions'[i].number
    <2>1. CASE j = i
      BY <1>7, <2>1
    <2>2. CASE j # i
      <3>1. j \in Releases /\ versions'[j] = versions[j] /\ versions[j].number \in Nat
        BY <1>4, <2>2, RowsTyped DEF Releases
      <3> QED
        BY <1>6, <1>7, <3>1 DEF Above
    <2> QED
      BY <2>1, <2>2
  <1> QED
    BY <1>2, <1>5, <1>8 DEF ReleasedNow

\* A write that keeps the state of its row, or no write.
LEMMA SameStateCommitted ==
  ASSUME VersionInv, HeadInv, StoryInv, NEW s \in Sessions, Commit(s),
         NEW i, i = call[s].id,
         \/ writes[s] = Untouched
         \/ /\ i \in VersionIds /\ versions[i] # None /\ writes[s][i] \in Row
            /\ writes[s][i].state = versions[i].state
  PROVE  SameRows
  <1>1. /\ \A j \in VersionIds \ {i} : versions'[j] = versions[j]
        /\ \A j \in VersionIds : writes[s][j] = None => versions'[j] = versions[j]
        /\ \A j \in VersionIds : writes[s][j] \in Row => versions'[j] = writes[s][j]
    BY CommitTouches
  <1>2. ASSUME NEW j \in VersionIds
        PROVE  \/ versions'[j] = versions[j]
               \/ /\ versions'[j] # None /\ versions[j] # None
                  /\ versions'[j].state = versions[j].state
                  /\ versions'[j].number = versions[j].number
    <2>1. CASE writes[s][j] = None \/ j # i
      BY <1>1, <2>1
    <2>2. CASE j = i /\ writes[s][j] # None
      <3>1. /\ versions[j] # None /\ writes[s][j] \in Row
            /\ writes[s][j].state = versions[j].state
        BY <2>2, UntouchedNone
      <3>2. Keeps(versions[j], writes[s][j])
        BY <2>2, <3>1 DEF HeadInv, WritesInOrder
      <3> QED
        BY <1>1, <3>1, <3>2, NoneIsNoData DEF Keeps
    <2> QED
      BY <2>1, <2>2
  <1> QED
    BY <1>2 DEF SameRows, Drafts, Releases, Rows

(***************************************************************************)
(* One lemma per kind of commit: the pointer that was exact is exact, or   *)
(* its commit is overlooked.                                               *)
(***************************************************************************)
\* The definition keeps its pointers and its rows their states.
LEMMA NothingMoved ==
  ASSUME SameRows,
         definition'.draft = definition.draft, definition'.published = definition.published,
         definition.deleted => definition'.deleted
  PROVE  /\ DraftPointerExact => DraftPointerExact'
         /\ PublishedIsHighestRelease => PublishedIsHighestRelease'
  BY DEF SameRows, DraftPointerExact, PublishedIsHighestRelease

\* The pointers name what was released.
LEMMA ReleaseMoved ==
  ASSUME NEW i \in VersionIds, ReleasedNow(i),
         definition'.draft = None, definition'.published = i
  PROVE  DraftPointerExact' /\ PublishedIsHighestRelease'
  <1>1. i # None
    BY RepoAssumption
  <1> QED
    BY <1>1 DEF ReleasedNow, DraftPointerExact, PublishedIsHighestRelease

LEMMA CommitPoints ==
  ASSUME VersionInv, HeadInv, StoryInv, NEW s \in Sessions, Commit(s), shared' # shared
  PROVE  /\ DraftPointerExact /\ ~Overlooks(s, "draft") => DraftPointerExact'
         /\ PublishedIsHighestRelease /\ ~Overlooks(s, "published") =>
              PublishedIsHighestRelease'
  <1> DEFINE c == call[s]
             i == call[s].id
             w == writes[s]
             d == defWrite[s]
             Goal == /\ DraftPointerExact /\ ~Overlooks(s, "draft") => DraftPointerExact'
                     /\ PublishedIsHighestRelease /\ ~Overlooks(s, "published") =>
                          PublishedIsHighestRelease'
  <1>1. /\ \A j \in VersionIds \ {i} : versions'[j] = versions[j]
        /\ \A j \in VersionIds : w[j] = None => versions'[j] = versions[j]
        /\ \A j \in VersionIds : w[j] \in Row => versions'[j] = w[j]
        /\ \A j \in VersionIds : w[j] = Deleted => versions'[j] = None
        /\ definition' = IF d = None THEN definition ELSE d
        /\ Story("commit", c, w, d) /\ c \in Call
    BY CommitTouches
  <1>2. definition \in Definition
    BY DEF VersionInv, TypeOK
  <1>3. c.kind \in {"save", "both", "publish", "discard", "update", "delete"}
    BY <1>1 DEF Call, Story
  <1>4. definition.deleted => d = None
    BY <1>1 DEF Story
  <1> SUFFICES Goal
    OBVIOUS
  <1> HIDE DEF Goal
  \* A deleted definition stays deleted.
  <1>5. CASE definition'.deleted
    BY <1>5 DEF Goal, DraftPointerExact, PublishedIsHighestRelease
  <1>6. CASE d = None /\ SameRows
    BY <1>1, <1>6, NothingMoved DEF Goal
  <1>7. ASSUME ~definition.deleted, IsReleased(c, w), i \in Drafts \/ versions[i] = None,
               d = [definition EXCEPT !.draft = None, !.published = i]
        PROVE  Goal
    <2>1. i \in VersionIds
      BY <1>7 DEF IsReleased
    <2>2. definition' = [definition EXCEPT !.draft = None, !.published = i]
      <3>1. d \in Definition
        BY <1>2, <1>7, <2>1 DEF Definition
      <3> QED
        BY <1>1, <1>7, <3>1, NoneIsNoData
    <2>3. definition'.draft = None /\ definition'.published = i
      BY <1>2, <2>2 DEF Definition
    <2>4. ReleasedNow(i)
      BY <1>7, ReleaseCommitted
    <2> QED
      BY <2>1, <2>3, <2>4, ReleaseMoved DEF Goal
  <1>8. CASE c.kind = "save" /\ ~definition.deleted
    <2>1. SaveDone(c, w, d)
      BY <1>1, <1>8 DEF Story, SaveStory
    <2>2. CASE Updated(c, w) /\ d = None
      <3>1. SameRows
        BY <2>2, SameStateCommitted DEF Updated, Saved
      <3> QED
        BY <1>6, <2>2, <3>1
    <2>3. CASE Inserted(c, w) /\ Pointed(c, d)
      <3>1. /\ i \in VersionIds /\ w[i] \in Row /\ w[i].state = "draft"
            /\ versions[i] = None /\ w[i] # None
        BY <2>3, NoneIsNoData DEF Inserted, Saved
      <3>2. Drafts = {}
        BY <3>1 DEF HeadInv, WritesInOrder, Opens
      <3>3. d = [definition EXCEPT !.draft = i] /\ d # None
        <4>1. [definition EXCEPT !.draft = i] \in Definition
          BY <1>2, <3>1 DEF Definition
        <4> QED
          BY <1>8, <2>3, <4>1, NoneIsNoData DEF Pointed, DefinitionIs
      <3>4. /\ definition'.draft = i /\ definition'.published = definition.published
            /\ definition'.deleted = definition.deleted
        BY <1>1, <1>2, <3>3 DEF Definition
      <3>5. versions'[i] = w[i] /\ i \in Drafts'
        BY <1>1, <3>1 DEF Drafts, Rows
      <3>6. Releases' = Releases /\ \A j \in Releases : versions'[j] = versions[j]
        BY <1>1, <3>1, <3>5 DEF Releases, Rows
      <3>7. DraftPointerExact'
        BY <3>1, <3>4, <3>5, RepoAssumption DEF DraftPointerExact
      <3>8. PublishedIsHighestRelease => PublishedIsHighestRelease'
        BY <3>4, <3>6 DEF PublishedIsHighestRelease
      <3> QED
        BY <3>7, <3>8 DEF Goal
    <2> QED
      BY <2>1, <2>2, <2>3 DEF SaveDone
  <1>9. CASE c.kind = "both" /\ ~definition.deleted
    <2>1. /\ Saved(c, w) /\ IsReleased(c, w)
          /\ Moved(c, d) \/ (d = None /\ i \in Releases)
      BY <1>1, <1>9 DEF Story, BothStory
    <2>2. CASE d = None /\ i \in Releases
      <3>1. SameRows
        BY <2>1, <2>2, RowsTyped, SameStateCommitted DEF IsReleased
      <3> QED
        BY <1>6, <2>2, <3>1
    <2>3. CASE Moved(c, d)
      <3>1. d = [definition EXCEPT !.draft = None, !.published = i]
        BY <1>9, <2>3 DEF Moved, DefinitionIs
      <3>2. CASE i \in Drafts \/ versions[i] = None
        BY <1>7, <1>9, <2>1, <3>1, <3>2
      <3>3. CASE i \notin Drafts /\ versions[i] # None
        <4>1. d # None
          <5>1. d \in Definition
            BY <1>2, <2>1, <3>1 DEF Definition, IsReleased
          <5> QED
            BY <5>1, NoneIsNoData
        <4>2. \A pointer : Overlooks(s, pointer)
          BY <1>9, <3>3, <4>1 DEF Overlooks, PublishOverlooks
        <4> QED
          BY <4>2 DEF Goal
      <3> QED
        BY <3>2, <3>3
    <2> QED
      BY <2>1, <2>2, <2>3
  <1>10. CASE c.kind = "publish" /\ ~definition.deleted
    <2>1. \/ w = Untouched /\ d = None
          \/ Moved(c, d) /\ (IsReleased(c, w) \/ Gone(i))
      BY <1>1, <1>10 DEF Story, PublishStory
    <2>2. CASE w = Untouched /\ d = None
      BY <1>6, <2>2, SameStateCommitted
    <2>3. CASE Moved(c, d) /\ (IsReleased(c, w) \/ Gone(i))
      <3>1. d = [definition EXCEPT !.draft = None, !.published = i]
        BY <1>10, <2>3 DEF Moved, DefinitionIs
      <3>2. CASE i \in Drafts
        <4>1. IsReleased(c, w)
          BY <2>3, <3>2, RowsTyped DEF Gone
        <4> QED
          BY <1>7, <1>10, <3>1, <3>2, <4>1
      <3>3. CASE i \notin Drafts
        <4>1. d # None
          <5>1. i \in VersionIds \cup {None}
            BY <1>1 DEF Call
          <5>2. d \in Definition
            BY <1>2, <3>1, <5>1 DEF Definition
          <5> QED
            BY <5>2, NoneIsNoData
        <4>2. \A pointer : Overlooks(s, pointer)
          BY <1>10, <3>3, <4>1 DEF Overlooks, PublishOverlooks
        <4> QED
          BY <4>2 DEF Goal
      <3> QED
        BY <3>2, <3>3
    <2> QED
      BY <2>1, <2>2, <2>3
  <1>11. CASE c.kind = "discard" /\ ~definition.deleted
    <2>1. Discarded(c, w) /\ d = [definition EXCEPT !.draft = None]
      BY <1>1, <1>11 DEF Story, DiscardStory, Cleared, DefinitionIs
    <2>2. d # None
      <3>1. d \in Definition
        BY <1>2, <2>1 DEF Definition
      <3> QED
        BY <3>1, NoneIsNoData
    <2>3. /\ definition'.draft = None /\ definition'.published = definition.published
          /\ definition'.deleted = definition.deleted
      BY <1>1, <1>2, <2>1, <2>2 DEF Definition
    <2>4. w # Untouched => i \in VersionIds /\ w[i] = Deleted /\ versions'[i] = None
      BY <1>1, <2>1 DEF Discarded
    <2>5. w = Untouched => \A j \in VersionIds : versions'[j] = versions[j]
      BY <1>1, UntouchedNone
    <2>6. w # Untouched => i \notin Releases
      <3> SUFFICES ASSUME w # Untouched, i \in Releases PROVE FALSE
        OBVIOUS
      <3>1. /\ i \in VersionIds /\ versions[i] # None /\ versions[i].state = "release"
            /\ w[i] = Deleted /\ w[i] # None
        BY <2>4, RowsTyped, NoneIsNoData
      <3>2. Keeps(versions[i], w[i])
        BY <3>1 DEF HeadInv, WritesInOrder
      <3> QED
        BY <3>1, <3>2, NoneIsNoData DEF Keeps
    <2>7. \A j \in VersionIds : versions'[j] = versions[j] \/ (j = i /\ versions'[j] = None)
      BY <1>1, <2>4, <2>5
    <2>8. Releases' = Releases /\ \A j \in Releases : versions'[j] = versions[j]
      BY <2>4, <2>5, <2>6, <2>7 DEF Releases, Rows
    <2>9. PublishedIsHighestRelease => PublishedIsHighestRelease'
      BY <2>3, <2>8 DEF PublishedIsHighestRelease
    <2>10. ASSUME DraftPointerExact, ~Overlooks(s, "draft")
           PROVE  DraftPointerExact'
      <3>1. definition.draft \in {None, i}
        BY <1>11, <2>2, <2>10 DEF Overlooks, DiscardOverlooks
      <3>2. Drafts' \subseteq Drafts
        BY <2>7 DEF Drafts, Rows
      <3>3. CASE definition.draft = None
        <4>1. Drafts' = {}
          BY <1>11, <2>10, <3>2, <3>3 DEF DraftPointerExact
        <4> QED
          BY <2>3, <4>1 DEF DraftPointerExact
      <3>4. CASE definition.draft = i /\ i # None
        <4>1. i \in Drafts
          BY <1>11, <2>10, <3>4 DEF DraftPointerExact
        <4>2. Drafts \subseteq {i}
          BY <4>1 DEF HeadInv, RowsInOrder
        <4>3. w # Untouched
          BY <2>1, <3>4, <4>1, RowsTyped, NoneIsNoData, UntouchedNone DEF Discarded, Gone
        <4>4. Drafts' = {}
          BY <2>4, <3>2, <4>2, <4>3 DEF Drafts, Rows
        <4> QED
          BY <2>3, <4>4 DEF DraftPointerExact
      <3> QED
        BY <3>1, <3>3, <3>4
    <2> QED
      BY <2>9, <2>10 DEF Goal
  <1>12. CASE c.kind = "update" /\ ~definition.deleted
    <2>1. w = Untouched /\ d = c.copy /\ d # None
      BY <1>1, <1>12 DEF Story, UpdateStory
    <2>2. SameRows /\ definition' = c.copy
      BY <1>1, <2>1, SameStateCommitted
    <2>3. ASSUME DraftPointerExact, ~Overlooks(s, "draft") PROVE DraftPointerExact'
      <3>1. definition'.draft = definition.draft
        BY <1>12, <2>1, <2>2, <2>3 DEF Overlooks, RenameOverlooks
      <3> QED
        BY <1>12, <2>2, <2>3, <3>1 DEF SameRows, DraftPointerExact
    <2>4. ASSUME PublishedIsHighestRelease, ~Overlooks(s, "published")
          PROVE  PublishedIsHighestRelease'
      <3>1. definition'.published = definition.published
        BY <1>12, <2>1, <2>2, <2>4 DEF Overlooks, RenameOverlooks
      <3> QED
        BY <1>12, <2>2, <2>4, <3>1 DEF SameRows, PublishedIsHighestRelease
    <2> QED
      BY <2>3, <2>4 DEF Goal
  <1>13. CASE c.kind = "delete"
    BY <1>1, <1>5, <1>13 DEF Story, DeleteStory
  <1>14. definition.deleted => definition'.deleted
    BY <1>1, <1>4
  <1> QED
    BY <1>3, <1>5, <1>8, <1>9, <1>10, <1>11, <1>12, <1>13, <1>14

(***************************************************************************)
(* The pointers of a definition are exact unless one of three writes       *)
(* spoiled them (PointersExactUnlessSpoiled), for any number of callers    *)
(* and versions: a rename that writes back an older copy, a publication of *)
(* what no longer is the draft, a discard that clears the pointer to       *)
(* another's draft (repository.go:76, 269, 296).                           *)
(***************************************************************************)
THEOREM PointersExact == HistorySpec => []PointersExactUnlessSpoiled
  <1>1. HistoryInit => PointersExactUnlessSpoiled
    BY DEF HistoryInit, Init, PointersExactUnlessSpoiled, DraftPointerExact,
       PublishedIsHighestRelease, Drafts, Releases, Rows
  <1>2. (VersionInv /\ HeadInv /\ StoryInv) /\ PointersExactUnlessSpoiled
        /\ [HistoryNext]_<<vars, historyVars>> => PointersExactUnlessSpoiled'
    <2> SUFFICES ASSUME VersionInv, HeadInv, StoryInv, PointersExactUnlessSpoiled,
                        [HistoryNext]_<<vars, historyVars>>
                 PROVE  PointersExactUnlessSpoiled'
      OBVIOUS
    <2>1. CASE shared' = shared /\ spoiled' = spoiled
      BY <2>1 DEF shared, PointersExactUnlessSpoiled, DraftPointerExact,
         PublishedIsHighestRelease, Drafts, Releases, Rows
    <2>2. CASE UNCHANGED <<vars, historyVars>>
      BY <2>1, <2>2 DEF vars, historyVars, shared
    <2>3. ASSUME NEW s \in Sessions, Calls(s) \/ Statement(s) \/ ConnectionLost(s), Remember(s)
          PROVE  PointersExactUnlessSpoiled'
      <3>1. CASE shared' = shared
        BY <2>1, <2>3, <3>1 DEF Remember
      <3>2. CASE shared' # shared
        <4>1. Commit(s)
          BY <2>3, <3>2, StepOf
        <4>2. spoiled' = spoiled \cup {p \in {"draft", "published"} : Overlooks(s, p)}
          BY <2>3, <3>2 DEF Remember
        <4> QED
          BY <3>2, <4>1, <4>2, CommitPoints DEF PointersExactUnlessSpoiled
      <3> QED
        BY <3>1, <3>2
    <2> QED
      BY <2>2, <2>3 DEF HistoryNext
  <1> QED
    BY <1>1, <1>2, StoryAlways, HistoryIsSpec, PTL DEF HistorySpec
=============================================================================
