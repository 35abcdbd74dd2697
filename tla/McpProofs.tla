------------------------------- MODULE McpProofs -------------------------------
(***************************************************************************)
(* Why a user's switch survives every refresh, and what a refresh leaves,  *)
(* for any number of callers, tools and lists.  A row has one writer at a  *)
(* time; what a refresh writes over a committed row keeps its id and       *)
(* enabled, and nobody else can change that row before the refresh         *)
(* commits; what it deletes it does not list.                              *)
(***************************************************************************)
EXTENDS McpTools, TLAPS

LEMMA NoCallTyped == NoCall \in Call
  BY DEF NoCall, Call

LEMMA ContinueTyped ==
  ASSUME TypeOK, NEW s \in Sessions, NEW next, NEW c \in Call, Continue(s, next, c),
         next \in {"idle", "find", "delete", "upsert", "commit", "switch"}
  PROVE  /\ pc' \in [Sessions -> {"idle", "find", "delete", "upsert", "commit", "switch"}]
         /\ call' \in [Sessions -> Call]
  BY DEF TypeOK, Continue

LEMMA ReleaseTyped ==
  ASSUME TypeOK, NEW s \in Sessions, Release(s)
  PROVE  /\ pc' \in [Sessions -> {"idle", "find", "delete", "upsert", "commit", "switch"}]
         /\ call' \in [Sessions -> Call]
         /\ writes' \in [Sessions -> [Names -> Row \cup {None, Deleted}]]
  <1>1. Continue(s, "idle", NoCall)
    BY DEF Release
  <1>2. Untouched \in [Names -> Row \cup {None, Deleted}]
    BY DEF Untouched
  <1> QED
    BY <1>1, <1>2, NoCallTyped, ContinueTyped DEF Release, TypeOK

LEMMA VisibleTyped ==
  ASSUME TypeOK, NEW s \in Sessions, NEW n \in Names
  PROVE  Visible(s, n) \in Row \cup {None}
  BY DEF TypeOK, Visible

\* The name an INSERT is at.
LEMMA ListedTyped ==
  ASSUME NEW c \in Call, c.next \in 1..Len(c.list)
  PROVE  c.list[c.next] \in Names /\ c.list[c.next] \in Range(c.list)
  BY DEF Call, Range
-----------------------------------------------------------------------------
\* Where a session is in its call, and what it has written so far.
AtItsList ==
  \A s \in Sessions :
    /\ pc[s] \in {"find", "delete"} => call[s].next = 1
    /\ pc[s] = "upsert" => call[s].next \in 1..Len(call[s].list)

DoomedUnlisted ==
  \A s \in Sessions : pc[s] = "delete" =>
    \A d \in call[s].doomed : d[1] \in Names \ Listed(s)

WritesInCall ==
  \A s \in Sessions : pc[s] \notin {"delete", "upsert", "commit"} => writes[s] = Untouched

\* A row has one writer.
OneWriter ==
  \A s, o \in Sessions : \A n \in Names :
    writes[s][n] # None /\ writes[o][n] # None => s = o

\* What s does to a row, and that the committed row stays as it saw it.
WritesKeep ==
  \A s \in Sessions : \A n \in Names :
    /\ writes[s][n] = Deleted => n \notin Listed(s)
    /\ writes[s][n] \in Row =>
         /\ n \in Listed(s)
         /\ tools[n] # None => /\ writes[s][n].id = tools[n].id
                               /\ writes[s][n].enabled = tools[n].enabled

McpInv == TypeOK /\ AtItsList /\ DoomedUnlisted /\ WritesInCall /\ OneWriter /\ WritesKeep

LEMMA McpInit == Init => McpInv
  <1> SUFFICES ASSUME Init PROVE McpInv
    OBVIOUS
  <1>1. TypeOK
    BY NoCallTyped, ToolsAssumption DEF Init, TypeOK, Untouched
  <1> QED
    BY <1>1, ToolsAssumption DEF Init, McpInv, AtItsList, DoomedUnlisted,
       WritesInCall, OneWriter, WritesKeep, Untouched

\* A transaction that ends leaves no write behind.
LEMMA ReleaseKeeps ==
  ASSUME McpInv, NEW s \in Sessions, Release(s), tools' = tools
  PROVE  AtItsList' /\ DoomedUnlisted' /\ WritesInCall' /\ OneWriter' /\ WritesKeep'
  <1>1. /\ \A o \in Sessions \ {s} : /\ pc'[o] = pc[o] /\ call'[o] = call[o]
                                     /\ writes'[o] = writes[o]
        /\ pc'[s] = "idle" /\ writes'[s] = Untouched
    BY DEF McpInv, TypeOK, Release, Continue
  <1>2. \A n \in Names : Untouched[n] = None /\ None # Deleted /\ None \notin Row
    BY ToolsAssumption DEF Untouched
  <1>3. \A o \in Sessions \ {s} : Listed(o)' = Listed(o)
    BY <1>1 DEF Listed
  <1> QED
    BY <1>1, <1>2, <1>3 DEF McpInv, AtItsList, DoomedUnlisted, WritesInCall,
       OneWriter, WritesKeep

\* A step that only moves s within its call.
LEMMA MoveKeeps ==
  ASSUME McpInv, NEW s \in Sessions, NEW next, NEW c \in Call, Continue(s, next, c),
         UNCHANGED <<tools, writes>>,
         c.list = call[s].list \/ writes[s] = Untouched,
         next \in {"find", "delete"} => c.next = 1,
         next = "upsert" => c.next \in 1..Len(c.list),
         next = "delete" => \A d \in c.doomed : d[1] \in Names \ Range(c.list),
         next \notin {"delete", "upsert", "commit"} => writes[s] = Untouched
  PROVE  AtItsList' /\ DoomedUnlisted' /\ WritesInCall' /\ OneWriter' /\ WritesKeep'
  <1>1. /\ \A o \in Sessions \ {s} : pc'[o] = pc[o] /\ call'[o] = call[o]
        /\ pc'[s] = next /\ call'[s] = c
    BY DEF McpInv, TypeOK, Continue
  <1>2. \A n \in Names : Untouched[n] = None /\ None # Deleted /\ None \notin Row
    BY ToolsAssumption DEF Untouched
  <1>3. /\ \A o \in Sessions \ {s} : Listed(o)' = Listed(o)
        /\ Listed(s)' = Range(c.list)
    BY <1>1 DEF Listed
  <1>4. WritesKeep'
    BY <1>2, <1>3 DEF McpInv, WritesKeep, Listed
  <1> QED
    BY <1>1, <1>3, <1>4 DEF McpInv, AtItsList, DoomedUnlisted, WritesInCall, OneWriter

\* A step of s that writes one row nobody else has written.
LEMMA WriteKeeps ==
  ASSUME McpInv, NEW s \in Sessions, NEW n \in Names, NEW row \in Row \cup {None, Deleted},
         NEW next, NEW c \in Call, Continue(s, next, c), UNCHANGED tools,
         ~Locked(s, n), writes' = [writes EXCEPT ![s][n] = row],
         c.list = call[s].list,
         next \in {"delete", "upsert", "commit"},
         next = "delete" => c.next = 1,
         next = "upsert" => c.next \in 1..Len(c.list),
         next = "delete" => \A d \in c.doomed : d[1] \in Names \ Range(c.list),
         row = Deleted => n \notin Listed(s),
         row \in Row => /\ n \in Listed(s)
                        /\ tools[n] # None => /\ row.id = tools[n].id
                                              /\ row.enabled = tools[n].enabled
  PROVE  AtItsList' /\ DoomedUnlisted' /\ WritesInCall' /\ OneWriter' /\ WritesKeep'
  <1>1. /\ \A o \in Sessions \ {s} : /\ pc'[o] = pc[o] /\ call'[o] = call[o]
                                     /\ writes'[o] = writes[o]
        /\ pc'[s] = next /\ call'[s] = c
        /\ writes'[s][n] = row
        /\ \A m \in Names \ {n} : writes'[s][m] = writes[s][m]
    BY DEF McpInv, TypeOK, Continue
  <1>2. \A o \in Sessions : Listed(o)' = Listed(o)
    BY <1>1 DEF Listed
  <1>3. AtItsList' /\ WritesInCall'
    BY <1>1 DEF McpInv, AtItsList, WritesInCall
  <1>4. DoomedUnlisted'
    BY <1>1, <1>2 DEF McpInv, DoomedUnlisted, Listed
  <1>5. OneWriter'
    BY <1>1 DEF McpInv, OneWriter, Locked
  <1>6. WritesKeep'
    BY <1>1, <1>2 DEF McpInv, WritesKeep
  <1> QED
    BY <1>3, <1>4, <1>5, <1>6
-----------------------------------------------------------------------------
(***************************************************************************)
(* One lemma per action.                                                   *)
(***************************************************************************)
LEMMA BeginRefreshKeeps ==
  ASSUME McpInv, NEW s \in Sessions, BeginRefresh(s)
  PROVE  McpInv'
  <1>1. PICK list \in Lists, enabled \in BOOLEAN :
          Continue(s, "find", [NoCall EXCEPT !.kind = "refresh", !.number = refreshes',
                                             !.list = list, !.enabled = enabled])
    BY DEF BeginRefresh
  <1> DEFINE c == [NoCall EXCEPT !.kind = "refresh", !.number = refreshes',
                                 !.list = list, !.enabled = enabled]
  <1>2. refreshes' \in Nat /\ list \in Seq(Names)
    BY ToolsAssumption DEF McpInv, TypeOK, BeginRefresh
  <1>3. c \in Call /\ c.next = 1
    BY <1>2 DEF NoCall, Call
  <1>4. writes[s] = Untouched
    BY DEF McpInv, WritesInCall, BeginRefresh
  <1>5. Continue(s, "find", c)
    BY <1>1
  <1>6. TypeOK'
    BY <1>2, <1>3, <1>5, ContinueTyped DEF McpInv, TypeOK, BeginRefresh
  <1>7. UNCHANGED <<tools, writes>>
    BY DEF BeginRefresh
  <1> HIDE DEF c
  <1>8. AtItsList' /\ DoomedUnlisted' /\ WritesInCall' /\ OneWriter' /\ WritesKeep'
    BY <1>3, <1>4, <1>5, <1>7, MoveKeeps
  <1> QED
    BY <1>6, <1>8 DEF McpInv

LEMMA BeginSwitchKeeps ==
  ASSUME McpInv, NEW s \in Sessions, BeginSwitch(s)
  PROVE  McpInv'
  <1>1. PICK n \in Names, enabled \in BOOLEAN :
          /\ tools[n] # None
          /\ Continue(s, "switch", [NoCall EXCEPT !.kind = "switch", !.name = n,
                                      !.id = tools[n].id, !.enabled = enabled])
    BY DEF BeginSwitch
  <1> DEFINE c == [NoCall EXCEPT !.kind = "switch", !.name = n,
                                 !.id = tools[n].id, !.enabled = enabled]
  <1>2. tools[n].id \in Nat
    BY <1>1 DEF McpInv, TypeOK, Row
  <1>3. c \in Call
    BY <1>2, NoCallTyped DEF Call
  <1>4. writes[s] = Untouched
    BY DEF McpInv, WritesInCall, BeginSwitch
  <1>5. Continue(s, "switch", c)
    BY <1>1
  <1>6. TypeOK'
    BY <1>3, <1>5, ContinueTyped DEF McpInv, TypeOK, BeginSwitch
  <1>7. UNCHANGED <<tools, writes>>
    BY DEF BeginSwitch
  <1> HIDE DEF c
  <1>8. AtItsList' /\ DoomedUnlisted' /\ WritesInCall' /\ OneWriter' /\ WritesKeep'
    BY <1>3, <1>4, <1>5, <1>7, MoveKeeps
  <1> QED
    BY <1>6, <1>8 DEF McpInv

LEMMA FindDoomedKeeps ==
  ASSUME McpInv, NEW s \in Sessions, FindDoomed(s)
  PROVE  McpInv'
  <1> DEFINE doomed == {<<n, tools[n].id>> : n \in Doomed(s)}
             c == [call[s] EXCEPT !.doomed = doomed]
  <1>1. \A d \in doomed : d[1] \in Names \ Listed(s)
    BY DEF Doomed
  <1>2. doomed \in SUBSET (Names \X Nat)
    BY DEF Doomed, McpInv, TypeOK, Row
  <1>3. call[s] \in Call /\ call[s].next = 1 /\ writes[s] = Untouched
    BY DEF McpInv, TypeOK, AtItsList, WritesInCall, FindDoomed
  <1> HIDE DEF doomed
  <1>4. c \in Call /\ c.list = call[s].list /\ c.next = 1 /\ c.doomed = doomed
    BY <1>2, <1>3 DEF Call
  <1>5. Continue(s, "delete", c) /\ UNCHANGED <<tools, writes>>
    BY DEF FindDoomed, doomed
  <1>6. TypeOK'
    BY <1>4, <1>5, ContinueTyped DEF McpInv, TypeOK, FindDoomed
  <1> HIDE DEF c
  <1>7. AtItsList' /\ DoomedUnlisted' /\ WritesInCall' /\ OneWriter' /\ WritesKeep'
    BY <1>1, <1>3, <1>4, <1>5, MoveKeeps DEF Listed
  <1> QED
    BY <1>6, <1>7 DEF McpInv

LEMMA DeleteRowKeeps ==
  ASSUME McpInv, NEW s \in Sessions, DeleteRow(s)
  PROVE  McpInv'
  <1>1. PICK d \in call[s].doomed :
          /\ ~Locked(s, d[1])
          /\ writes' = IF Visible(s, d[1]) # None /\ Visible(s, d[1]).id = d[2]
                       THEN [writes EXCEPT ![s][d[1]] = Deleted] ELSE writes
          /\ Continue(s, "delete", [call[s] EXCEPT !.doomed = @ \ {d}])
    BY DEF DeleteRow
  <1> DEFINE c == [call[s] EXCEPT !.doomed = @ \ {d}]
  <1>2. d[1] \in Names \ Listed(s)
    BY DEF McpInv, DoomedUnlisted, DeleteRow
  <1>3. /\ call[s] \in Call /\ call[s].next = 1
        /\ \A e \in call[s].doomed : e[1] \in Names \ Listed(s)
    BY DEF McpInv, TypeOK, AtItsList, DoomedUnlisted, DeleteRow
  <1>4. c \in Call /\ c.list = call[s].list /\ c.next = 1
    BY <1>3 DEF Call
  <1>5. \A e \in c.doomed : e[1] \in Names \ Range(c.list)
    BY <1>3, <1>4 DEF Call, Listed
  <1>6. Continue(s, "delete", c) /\ UNCHANGED <<tools, refreshes, late>>
    BY <1>1 DEF DeleteRow
  <1>7. TypeOK'
    <2>1. writes' \in [Sessions -> [Names -> Row \cup {None, Deleted}]]
      BY <1>1, <1>2 DEF McpInv, TypeOK
    <2> QED
      BY <2>1, <1>4, <1>6, ContinueTyped DEF McpInv, TypeOK
  <1>8. Deleted \notin Row /\ None # Deleted
    BY ToolsAssumption
  <1> HIDE DEF c
  <1>9. CASE writes' = [writes EXCEPT ![s][d[1]] = Deleted]
    BY <1>1, <1>2, <1>4, <1>5, <1>6, <1>7, <1>8, <1>9, WriteKeeps DEF McpInv
  <1>10. CASE writes' = writes
    BY <1>4, <1>5, <1>6, <1>7, <1>10, MoveKeeps DEF McpInv
  <1> QED
    BY <1>1, <1>9, <1>10

LEMMA DeleteEndsKeeps ==
  ASSUME McpInv, NEW s \in Sessions, DeleteEnds(s)
  PROVE  McpInv'
  <1> DEFINE next == IF call[s].list = <<>> THEN "commit" ELSE "upsert"
  <1>1. call[s] \in Call /\ call[s].next = 1
    BY DEF McpInv, TypeOK, AtItsList, DeleteEnds
  <1>2. call[s].list # <<>> => 1 \in 1..Len(call[s].list)
    BY <1>1 DEF Call
  <1>3. Continue(s, next, call[s]) /\ UNCHANGED <<tools, refreshes, writes, late>>
    BY DEF DeleteEnds
  <1>4. TypeOK'
    BY <1>1, <1>3, ContinueTyped DEF McpInv, TypeOK
  <1>5. next = "commit" \/ (next = "upsert" /\ call[s].list # <<>>)
    OBVIOUS
  <1> HIDE DEF next
  <1>6. AtItsList' /\ DoomedUnlisted' /\ WritesInCall' /\ OneWriter' /\ WritesKeep'
    BY <1>1, <1>2, <1>3, <1>5, MoveKeeps
  <1> QED
    BY <1>4, <1>6 DEF McpInv

\* What an INSERT finds under a name of its list, and what it makes of it.
LEMMA UpsertWrites ==
  ASSUME McpInv, NEW s \in Sessions, NEW n \in Listed(s), n \in Names,
         NEW row, row = IF Visible(s, n) = None THEN NewRow(s)
                        ELSE Updated(s, Visible(s, n))
  PROVE  /\ row \in Row
         /\ tools[n] # None => /\ row.id = tools[n].id
                               /\ row.enabled = tools[n].enabled
  <1>1. writes[s][n] \in Row \cup {None} /\ tools[n] \in Row \cup {None}
    BY DEF McpInv, TypeOK, WritesKeep
  <1>2. call[s].number \in Nat /\ call[s].enabled \in BOOLEAN
    BY DEF McpInv, TypeOK, Call
  <1>3. None \notin Row /\ Deleted \notin Row /\ None # Deleted
    BY ToolsAssumption
  <1>4. CASE Visible(s, n) = None
    <2>1. tools[n] = None
      BY <1>1, <1>3, <1>4 DEF Visible
    <2> QED
      BY <2>1, <1>2, <1>4 DEF NewRow, Row
  <1>5. CASE Visible(s, n) # None
    <2>1. /\ Visible(s, n) \in Row
          /\ tools[n] # None => /\ Visible(s, n).id = tools[n].id
                                /\ Visible(s, n).enabled = tools[n].enabled
      BY <1>1, <1>3, <1>5 DEF Visible, McpInv, WritesKeep
    <2> QED
      BY <2>1, <1>2, <1>5 DEF Updated, Row
  <1> QED
    BY <1>4, <1>5

LEMMA UpsertRowKeeps ==
  ASSUME McpInv, NEW s \in Sessions, UpsertRow(s)
  PROVE  McpInv'
  <1> DEFINE n == call[s].list[call[s].next]
             row == IF Visible(s, n) = None THEN NewRow(s) ELSE Updated(s, Visible(s, n))
             next == IF call[s].next = Len(call[s].list) THEN "commit" ELSE "upsert"
             c == [call[s] EXCEPT !.next = @ + 1]
  <1>1. call[s] \in Call /\ call[s].next \in 1..Len(call[s].list)
    BY DEF McpInv, TypeOK, AtItsList, UpsertRow
  <1>2. n \in Names /\ n \in Listed(s)
    BY <1>1, ListedTyped DEF Listed
  <1>3. /\ ~Locked(s, n) /\ writes' = [writes EXCEPT ![s][n] = row]
        /\ Continue(s, next, c) /\ UNCHANGED <<tools, refreshes, late>>
    BY DEF UpsertRow
  <1>4. c \in Call /\ c.list = call[s].list /\ c.next = call[s].next + 1
    BY <1>1 DEF Call
  <1>5. /\ next \in {"commit", "upsert"}
        /\ next = "upsert" => c.next \in 1..Len(c.list)
    BY <1>1, <1>4 DEF Call
  <1> HIDE DEF n, next, c
  <1>6. /\ row \in Row
        /\ tools[n] # None => /\ row.id = tools[n].id
                              /\ row.enabled = tools[n].enabled
    BY <1>2, UpsertWrites
  <1>7. row # Deleted
    BY <1>6, ToolsAssumption
  <1> HIDE DEF row
  <1>8. TypeOK'
    <2>1. writes' \in [Sessions -> [Names -> Row \cup {None, Deleted}]]
      BY <1>2, <1>3, <1>6 DEF McpInv, TypeOK
    <2> QED
      BY <2>1, <1>3, <1>4, <1>5, ContinueTyped DEF McpInv, TypeOK
  <1>9. AtItsList' /\ DoomedUnlisted' /\ WritesInCall' /\ OneWriter' /\ WritesKeep'
    <2>1. row \in Row \cup {None, Deleted}
      BY <1>6
    <2>2. next \in {"delete", "upsert", "commit"}
      BY <1>5
    <2>3. next = "delete" => c.next = 1 /\ \A d \in c.doomed : d[1] \in Names \ Range(c.list)
      BY <1>5
    <2>4. Continue(s, next, c) /\ UNCHANGED tools /\ ~Locked(s, n)
          /\ writes' = [writes EXCEPT ![s][n] = row]
      BY <1>3
    <2>5. row \in Row => /\ n \in Listed(s)
                         /\ tools[n] # None => /\ row.id = tools[n].id
                                               /\ row.enabled = tools[n].enabled
      BY <1>2, <1>6
    <2>6. next = "upsert" => c.next \in 1..Len(c.list)
      BY <1>5
    <2> QED
      BY <2>1, <2>2, <2>3, <2>4, <2>5, <2>6, <1>2, <1>4, <1>7, WriteKeeps
  <1> QED
    BY <1>8, <1>9 DEF McpInv

LEMMA AbortKeeps ==
  ASSUME McpInv, NEW s \in Sessions, Abort(s)
  PROVE  McpInv'
  <1>1. Release(s) /\ tools' = tools /\ refreshes' = refreshes
        /\ late' = [late EXCEPT ![s] = {}]
    BY DEF Abort
  <1>2. TypeOK'
    BY <1>1, ReleaseTyped DEF McpInv, TypeOK
  <1> QED
    BY <1>1, <1>2, ReleaseKeeps DEF McpInv

LEMMA SetEnabledKeeps ==
  ASSUME McpInv, NEW s \in Sessions, SetEnabled(s)
  PROVE  McpInv'
  <1> DEFINE n == call[s].name
  <1>1. Release(s) /\ refreshes' = refreshes /\ late' = late
    BY DEF SetEnabled
  <1>2. CASE tools' = tools
    <2>1. TypeOK'
      BY <1>1, <1>2, ReleaseTyped DEF McpInv, TypeOK
    <2> QED
      BY <1>1, <1>2, <2>1, ReleaseKeeps DEF McpInv
  <1>3. CASE SameTool(s) /\ ~Locked(s, n) /\ tools' = [tools EXCEPT ![n].enabled = call[s].enabled]
    <2>1. n \in Names => tools[n] \in Row
      BY <1>3 DEF McpInv, TypeOK, SameTool
    <2>2. call[s].enabled \in BOOLEAN
      BY DEF McpInv, TypeOK, Call
    <2>3. tools' \in [Names -> Row \cup {None}]
      <3>1. tools \in [Names -> Row \cup {None}]
        BY DEF McpInv, TypeOK
      <3> HIDE DEF n
      <3> QED
        BY <1>3, <2>1, <2>2, <3>1 DEF Row
    <2>4. TypeOK'
      BY <1>1, <2>3, ReleaseTyped DEF McpInv, TypeOK
    <2>5. /\ \A o \in Sessions \ {s} : /\ pc'[o] = pc[o] /\ call'[o] = call[o]
                                       /\ writes'[o] = writes[o]
          /\ pc'[s] = "idle" /\ writes'[s] = Untouched
      BY <1>1 DEF McpInv, TypeOK, Release, Continue
    <2>6. \A m \in Names : Untouched[m] = None /\ None # Deleted /\ None \notin Row
      BY ToolsAssumption DEF Untouched
    <2>7. \A o \in Sessions \ {s} : Listed(o)' = Listed(o)
      BY <2>5 DEF Listed
    <2>8. AtItsList' /\ DoomedUnlisted' /\ WritesInCall' /\ OneWriter'
      BY <2>5, <2>6, <2>7 DEF McpInv, AtItsList, DoomedUnlisted, WritesInCall, OneWriter
    <2>9. \A o \in Sessions, m \in Names : writes'[o][m] # None => tools'[m] = tools[m]
      <3> SUFFICES ASSUME NEW o \in Sessions, NEW m \in Names, writes'[o][m] # None
                   PROVE  tools'[m] = tools[m]
        OBVIOUS
      <3>1. o # s /\ writes[o][m] # None
        BY <2>5, <2>6
      <3>2. m # n
        BY <1>3, <3>1 DEF Locked
      <3> HIDE DEF n
      <3> QED
        BY <1>3, <3>2 DEF McpInv, TypeOK
    <2>10. WritesKeep'
      BY <2>5, <2>6, <2>7, <2>9 DEF McpInv, WritesKeep
    <2> QED
      BY <2>4, <2>8, <2>10 DEF McpInv
  <1> QED
    BY <1>2, <1>3 DEF SetEnabled

LEMMA CommitKeeps ==
  ASSUME McpInv, NEW s \in Sessions, Commit(s)
  PROVE  McpInv'
  <1>1. /\ Release(s) /\ refreshes' = refreshes
        /\ tools' = [n \in Names |-> Visible(s, n)]
    BY DEF Commit
  <1>2. TypeOK'
    <2>1. tools' \in [Names -> Row \cup {None}]
      BY <1>1, VisibleTyped DEF McpInv
    <2>2. late' \in [Sessions -> SUBSET Names]
      BY DEF McpInv, TypeOK, Commit, NewRows
    <2> QED
      BY <1>1, <2>1, <2>2, ReleaseTyped DEF McpInv, TypeOK
  <1>3. /\ \A o \in Sessions \ {s} : /\ pc'[o] = pc[o] /\ call'[o] = call[o]
                                     /\ writes'[o] = writes[o]
        /\ pc'[s] = "idle" /\ writes'[s] = Untouched
    BY <1>1 DEF McpInv, TypeOK, Release, Continue
  <1>4. \A n \in Names : Untouched[n] = None /\ None # Deleted /\ None \notin Row
    BY ToolsAssumption DEF Untouched
  <1>5. \A o \in Sessions \ {s} : Listed(o)' = Listed(o)
    BY <1>3 DEF Listed
  <1>6. AtItsList' /\ DoomedUnlisted' /\ WritesInCall' /\ OneWriter'
    BY <1>3, <1>4, <1>5 DEF McpInv, AtItsList, DoomedUnlisted, WritesInCall, OneWriter
  <1>7. \A o \in Sessions, n \in Names : writes'[o][n] # None => tools'[n] = tools[n]
    BY <1>1, <1>3, <1>4 DEF McpInv, OneWriter, Visible
  <1>8. WritesKeep'
    BY <1>3, <1>4, <1>5, <1>7 DEF McpInv, WritesKeep
  <1> QED
    BY <1>2, <1>6, <1>8 DEF McpInv

LEMMA McpStep == McpInv /\ [Next]_vars => McpInv'
  <1> SUFFICES ASSUME McpInv, [Next]_vars PROVE McpInv'
    OBVIOUS
  <1>1. CASE UNCHANGED vars
    BY <1>1 DEF vars, McpInv, TypeOK, AtItsList, DoomedUnlisted, WritesInCall,
       OneWriter, WritesKeep, Listed
  <1>2. ASSUME NEW s \in Sessions, Begins(s) \/ Statement(s) \/ Abort(s)
        PROVE  McpInv'
    <2>1. CASE Begins(s)
      BY <2>1, BeginRefreshKeeps, BeginSwitchKeeps DEF Begins
    <2>2. CASE Statement(s)
      BY <2>2, FindDoomedKeeps, DeleteRowKeeps, DeleteEndsKeeps, UpsertRowKeeps,
         SetEnabledKeeps, CommitKeeps, AbortKeeps DEF Statement, DuplicateName
    <2>3. CASE Abort(s)
      BY <2>3, AbortKeeps
    <2> QED
      BY <1>2, <2>1, <2>2, <2>3
  <1> QED
    BY <1>1, <1>2 DEF Next

LEMMA McpAlways == Spec => []McpInv
  BY McpInit, McpStep, PTL DEF Spec

(***************************************************************************)
(* Rows, calls and uncommitted writes stay in their types, for any number  *)
(* of callers, tools and lists.                                            *)
(***************************************************************************)
THEOREM ToolsTypeCorrect == Spec => []TypeOK
  <1>1. McpInv => TypeOK
    BY DEF McpInv
  <1> QED
    BY <1>1, McpAlways, PTL
-----------------------------------------------------------------------------
(***************************************************************************)
(* A committed refresh drops only what it does not list, and keeps id and  *)
(* enabled of what it writes over.                                         *)
(***************************************************************************)
LEMMA CommitPrefers ==
  ASSUME McpInv, NEW s \in Sessions, Commit(s), NEW n \in Names, tools[n] # None
  PROVE  IF tools'[n] = None THEN n \notin Listed(s)
         ELSE tools'[n].id = tools[n].id /\ tools'[n].enabled = tools[n].enabled
  <1>1. tools'[n] = Visible(s, n)
    BY DEF Commit
  <1>2. writes[s][n] \in Row \cup {None, Deleted}
    BY DEF McpInv, TypeOK
  <1> QED
    BY <1>1, <1>2, ToolsAssumption DEF McpInv, WritesKeep, Visible

(***************************************************************************)
(* A switch changes one row, the one its user read, to what the user asked *)
(* for.                                                                    *)
(***************************************************************************)
LEMMA SwitchPrefers ==
  ASSUME McpInv, NEW s \in Sessions, SetEnabled(s), NEW n \in Names, tools[n] # None
  PROVE  /\ tools'[n] # None /\ tools'[n].id = tools[n].id
         /\ tools'[n].enabled = tools[n].enabled \/ SwitchedBy(s, n)
  <1>1. tools \in [Names -> Row \cup {None}] /\ tools[n] \in Row
    BY DEF McpInv, TypeOK
  <1>2. call[s].enabled \in BOOLEAN /\ pc[s] = "switch" /\ pc'[s] = "idle"
    BY DEF McpInv, TypeOK, Call, SetEnabled, Release, Continue
  <1>3. CASE tools' = tools
    BY <1>3
  <1>4. CASE /\ SameTool(s)
             /\ tools' = [tools EXCEPT ![call[s].name].enabled = call[s].enabled]
    <2>1. CASE call[s].name = n
      <3>1. tools'[n] = [tools[n] EXCEPT !.enabled = call[s].enabled]
        BY <1>1, <1>4, <2>1
      <3>2. tools'[n] \in Row /\ tools'[n].id = tools[n].id
            /\ tools'[n].enabled = call[s].enabled
        BY <1>1, <1>2, <3>1 DEF Row
      <3> QED
        BY <1>2, <1>4, <2>1, <3>2, ToolsAssumption DEF SwitchedBy, SameTool
    <2>2. CASE call[s].name # n
      BY <1>1, <1>4, <2>2
    <2> QED
      BY <2>1, <2>2
  <1> QED
    BY <1>3, <1>4 DEF SetEnabled

(***************************************************************************)
(* A user's switch survives every refresh (PreferenceKept), for any number *)
(* of callers, tools and lists: the UPSERT leaves enabled and id alone     *)
(* (mcp_tool_repository.go:92-97), and the row locks keep the row as the   *)
(* refresh saw it until it commits.                                        *)
(***************************************************************************)
THEOREM PreferenceSurvives == Spec => PreferenceKept
  <1> DEFINE Kept(n) ==
        IF tools'[n] = None
        THEN \E s \in Sessions : DroppedBy(s, n)
        ELSE /\ tools'[n].id = tools[n].id
             /\ \/ tools'[n].enabled = tools[n].enabled
                \/ \E s \in Sessions : SwitchedBy(s, n)
  <1>1. McpInv /\ [Next]_vars => [\A n \in Names : tools[n] # None => Kept(n)]_vars
    <2> SUFFICES ASSUME McpInv, Next, NEW n \in Names, tools[n] # None
                 PROVE  Kept(n)
      OBVIOUS
    <2>1. CASE tools' = tools
      BY <2>1
    <2>2. CASE \E s \in Sessions : Commit(s)
      BY <2>2, CommitPrefers DEF DroppedBy
    <2>3. CASE \E s \in Sessions : SetEnabled(s)
      BY <2>3, SwitchPrefers
    <2>4. tools' = tools \/ \E s \in Sessions : Commit(s) \/ SetEnabled(s)
      BY DEF Next, Begins, Statement, BeginRefresh, BeginSwitch, FindDoomed, DeleteRow,
         DeleteEnds, UpsertRow, DuplicateName, Abort
    <2> QED
      BY <2>1, <2>2, <2>3, <2>4
  <1> QED
    BY <1>1, McpAlways, PTL DEF Spec, PreferenceKept
-----------------------------------------------------------------------------
(***************************************************************************)
(* What a refresh has seen to, up to where it is: what it has gone through *)
(* of its list is written, and a row it does not list is deleted, still to *)
(* be deleted, or others committed it since.                               *)
(***************************************************************************)
Upserted(s) == 1..(IF pc[s] = "upsert" THEN call[s].next - 1 ELSE Len(call[s].list))

Brought(s) ==
  pc[s] \in {"upsert", "commit"} =>
    \A i \in Upserted(s) : LET row == writes[s][call[s].list[i]] IN
      row \in Row /\ row.content = call[s].number

Cleared(s) ==
  pc[s] \in {"delete", "upsert", "commit"} =>
    \A n \in Names \ Listed(s) :
      tools[n] # None /\ writes[s][n] # Deleted =>
        \/ n \in late[s]
        \/ pc[s] = "delete" /\ <<n, tools[n].id>> \in call[s].doomed

ReplaceInv == McpInv /\ \A s \in Sessions : Brought(s) /\ Cleared(s)

LEMMA ReplaceInit == Init => ReplaceInv
  BY McpInit DEF Init, ReplaceInv, Brought, Cleared

\* What the step of another session leaves as it is: the part of a refresh, and
\* of the committed rows what is not noted as late.
LEMMA OthersStay ==
  ASSUME McpInv, NEW o \in Sessions, Begins(o) \/ Statement(o) \/ Abort(o),
         NEW s \in Sessions \ {o}
  PROVE  /\ pc'[s] = pc[s] /\ call'[s] = call[s] /\ writes'[s] = writes[s]
         /\ pc[s] \in {"delete", "upsert", "commit"} =>
              /\ late[s] \subseteq late'[s]
              /\ \A n \in Names : tools'[n] # None =>
                   \/ n \in late'[s]
                   \/ tools[n] # None /\ tools[n].id = tools'[n].id
  <1>1. pc'[s] = pc[s] /\ call'[s] = call[s] /\ writes'[s] = writes[s]
    BY DEF McpInv, TypeOK, Begins, Statement, BeginRefresh, BeginSwitch, FindDoomed,
       DeleteRow, DeleteEnds, UpsertRow, DuplicateName, SetEnabled, Commit, Abort,
       Release, Continue
  <1>2. CASE Commit(o)
    BY <1>1, <1>2 DEF McpInv, TypeOK, Commit, NewRows
  <1>3. CASE SetEnabled(o)
    <2>1. \A n \in Names : tools'[n] # None => tools[n] # None /\ tools[n].id = tools'[n].id
      <3> SUFFICES ASSUME NEW n \in Names, tools'[n] # None
                   PROVE  tools[n] # None /\ tools[n].id = tools'[n].id
        OBVIOUS
      <3>1. tools[n] # None
        BY <1>3 DEF McpInv, TypeOK, SetEnabled, SameTool
      <3> QED
        BY <1>3, <3>1, SwitchPrefers
    <2> QED
      BY <1>1, <1>3, <2>1 DEF SetEnabled
  <1>4. CASE tools' = tools /\ late' = late
    BY <1>1, <1>4
  <1>5. CASE Abort(o)
    BY <1>1, <1>5 DEF McpInv, TypeOK, Abort
  <1>6. Commit(o) \/ SetEnabled(o) \/ Abort(o) \/ (tools' = tools /\ late' = late)
    BY DEF Begins, Statement, BeginRefresh, BeginSwitch, FindDoomed, DeleteRow, DeleteEnds,
       UpsertRow, DuplicateName
  <1> QED
    BY <1>2, <1>3, <1>4, <1>5, <1>6

LEMMA OthersKeep ==
  ASSUME ReplaceInv, NEW o \in Sessions, Begins(o) \/ Statement(o) \/ Abort(o),
         NEW s \in Sessions \ {o}
  PROVE  Brought(s)' /\ Cleared(s)'
  <1>1. pc'[s] = pc[s] /\ call'[s] = call[s] /\ writes'[s] = writes[s]
    BY OthersStay DEF ReplaceInv
  <1>2. pc[s] \in {"delete", "upsert", "commit"} =>
          /\ late[s] \subseteq late'[s]
          /\ \A n \in Names : tools'[n] # None =>
               \/ n \in late'[s]
               \/ tools[n] # None /\ tools[n].id = tools'[n].id
    BY OthersStay DEF ReplaceInv
  <1>3. Brought(s) /\ Cleared(s)
    BY DEF ReplaceInv
  <1>4. Upserted(s)' = Upserted(s) /\ Listed(s)' = Listed(s)
    BY <1>1 DEF Upserted, Listed
  <1> QED
    BY <1>1, <1>2, <1>3, <1>4 DEF Brought, Cleared

\* A session that is not refreshing the rows has nothing to show.
LEMMA IdleReplaces ==
  ASSUME NEW s, pc'[s] \in {"idle", "find", "switch"}
  PROVE  Brought(s)' /\ Cleared(s)'
  BY DEF Brought, Cleared

\* The names of a list, and where they stand in it.
LEMMA ListedAt ==
  ASSUME NEW c \in Call
  PROVE  /\ \A i \in 1..Len(c.list) : c.list[i] \in Names /\ c.list[i] \in Range(c.list)
         /\ \A n \in Range(c.list) : \E i \in 1..Len(c.list) : c.list[i] = n
         /\ Len(c.list) \in Nat
  BY DEF Call, Range

LEMMA FindReplaces ==
  ASSUME ReplaceInv, NEW s \in Sessions, FindDoomed(s)
  PROVE  Brought(s)' /\ Cleared(s)'
  <1> DEFINE doomed == {<<n, tools[n].id>> : n \in Doomed(s)}
  <1>1. call[s] \in Call
    BY DEF ReplaceInv, McpInv, TypeOK
  <1>2. /\ pc'[s] = "delete" /\ tools' = tools
        /\ call'[s] = [call[s] EXCEPT !.doomed = doomed]
    BY DEF ReplaceInv, McpInv, TypeOK, FindDoomed, Continue
  <1>3. \A n \in Names \ Listed(s) : tools[n] # None => <<n, tools[n].id>> \in doomed
    BY DEF Doomed
  <1> HIDE DEF doomed
  <1>4. call'[s].doomed = doomed /\ call'[s].list = call[s].list
    BY <1>1, <1>2 DEF Call
  <1>5. Listed(s)' = Listed(s)
    BY <1>4 DEF Listed
  <1> QED
    BY <1>2, <1>3, <1>4, <1>5 DEF Brought, Cleared

LEMMA DeleteReplaces ==
  ASSUME ReplaceInv, NEW s \in Sessions, DeleteRow(s)
  PROVE  Brought(s)' /\ Cleared(s)'
  <1>1. PICK d \in call[s].doomed :
          /\ ~Locked(s, d[1])
          /\ writes' = IF Visible(s, d[1]) # None /\ Visible(s, d[1]).id = d[2]
                       THEN [writes EXCEPT ![s][d[1]] = Deleted] ELSE writes
          /\ Continue(s, "delete", [call[s] EXCEPT !.doomed = @ \ {d}])
    BY DEF DeleteRow
  <1>2. call[s] \in Call /\ pc[s] = "delete" /\ Cleared(s)
    BY DEF ReplaceInv, McpInv, TypeOK, DeleteRow
  <1>3. /\ pc'[s] = "delete" /\ tools' = tools /\ late' = late
        /\ call'[s] = [call[s] EXCEPT !.doomed = @ \ {d}]
    BY <1>1 DEF ReplaceInv, McpInv, TypeOK, DeleteRow, Continue
  <1>4. call'[s].doomed = call[s].doomed \ {d} /\ call'[s].list = call[s].list
    BY <1>2, <1>3 DEF Call
  <1>5. Listed(s)' = Listed(s)
    BY <1>4 DEF Listed
  <1>6. d[1] \in Names /\ d = <<d[1], d[2]>>
    BY <1>2 DEF Call
  <1>7. \A n \in Names \ Listed(s) :
          /\ writes[s][n] \in {None, Deleted}
          /\ writes'[s][n] # Deleted => writes[s][n] # Deleted
          /\ n = d[1] /\ tools[n] # None /\ writes'[s][n] # Deleted => tools[n].id # d[2]
    <2> SUFFICES ASSUME NEW n \in Names \ Listed(s)
                 PROVE  /\ writes[s][n] \in {None, Deleted}
                        /\ writes'[s][n] # Deleted => writes[s][n] # Deleted
                        /\ n = d[1] /\ tools[n] # None /\ writes'[s][n] # Deleted =>
                             tools[n].id # d[2]
      OBVIOUS
    <2>1. writes[s][n] \in {None, Deleted}
      BY DEF ReplaceInv, McpInv, TypeOK, WritesKeep
    <2>2. writes \in [Sessions -> [Names -> Row \cup {None, Deleted}]]
      BY DEF ReplaceInv, McpInv, TypeOK
    <2>3. writes'[s][n] # Deleted => writes[s][n] # Deleted
      BY <1>1, <1>6, <2>2
    <2>4. ASSUME n = d[1], tools[n] # None, writes'[s][n] # Deleted
          PROVE  tools[n].id # d[2]
      <3>1. writes[s][n] = None /\ None # Deleted
        BY <2>1, <2>3, <2>4, ToolsAssumption
      <3>2. Visible(s, n) = tools[n]
        BY <3>1 DEF Visible
      <3> QED
        BY <1>1, <1>6, <2>2, <2>4, <3>2
    <2> QED
      BY <2>1, <2>3, <2>4
  <1>8. \A n \in Names \ Listed(s) :
          tools[n] # None /\ writes'[s][n] # Deleted =>
            n \in late[s] \/ <<n, tools[n].id>> \in call[s].doomed \ {d}
    <2> SUFFICES ASSUME NEW n \in Names \ Listed(s), tools[n] # None, writes'[s][n] # Deleted,
                        n \notin late[s]
                 PROVE  <<n, tools[n].id>> \in call[s].doomed \ {d}
      OBVIOUS
    <2>1. <<n, tools[n].id>> \in call[s].doomed
      BY <1>2, <1>7 DEF Cleared
    <2>2. <<n, tools[n].id>> # d
      BY <1>6, <1>7
    <2> QED
      BY <2>1, <2>2
  <1> QED
    BY <1>3, <1>4, <1>5, <1>8 DEF Brought, Cleared

LEMMA DeleteEndsReplaces ==
  ASSUME ReplaceInv, NEW s \in Sessions, DeleteEnds(s)
  PROVE  Brought(s)' /\ Cleared(s)'
  <1>1. call[s] \in Call /\ call[s].next = 1 /\ pc[s] = "delete" /\ Cleared(s)
    BY DEF ReplaceInv, McpInv, TypeOK, AtItsList, DeleteEnds
  <1>2. /\ pc'[s] = IF call[s].list = <<>> THEN "commit" ELSE "upsert"
        /\ call'[s] = call[s] /\ UNCHANGED <<tools, writes, late>>
        /\ call[s].doomed = {}
    BY DEF ReplaceInv, McpInv, TypeOK, DeleteEnds, Continue
  <1>3. Listed(s)' = Listed(s)
    BY <1>2 DEF Listed
  <1>4. Upserted(s)' = {}
    <2>1. CASE call[s].list = <<>>
      <3>1. Upserted(s)' = 1..Len(<<>>)
        BY <1>2, <2>1 DEF Upserted
      <3> QED
        BY <3>1
    <2>2. CASE call[s].list # <<>>
      <3>1. Upserted(s)' = 1..(1 - 1)
        BY <1>1, <1>2, <2>2 DEF Upserted
      <3> QED
        BY <3>1
    <2> QED
      BY <2>1, <2>2
  <1> QED
    BY <1>1, <1>2, <1>3, <1>4 DEF Brought, Cleared

LEMMA UpsertReplaces ==
  ASSUME ReplaceInv, NEW s \in Sessions, UpsertRow(s)
  PROVE  Brought(s)' /\ Cleared(s)'
  <1> DEFINE n == call[s].list[call[s].next]
             row == IF Visible(s, n) = None THEN NewRow(s) ELSE Updated(s, Visible(s, n))
             next == IF call[s].next = Len(call[s].list) THEN "commit" ELSE "upsert"
  <1>1. /\ call[s] \in Call /\ call[s].next \in 1..Len(call[s].list) /\ pc[s] = "upsert"
        /\ writes \in [Sessions -> [Names -> Row \cup {None, Deleted}]]
        /\ McpInv /\ Brought(s) /\ Cleared(s)
    BY DEF ReplaceInv, McpInv, TypeOK, AtItsList, UpsertRow
  <1>2. n \in Names /\ n \in Listed(s)
    BY <1>1, ListedTyped DEF Listed
  <1>3. /\ pc'[s] = next /\ UNCHANGED <<tools, late>>
        /\ call'[s] = [call[s] EXCEPT !.next = @ + 1]
        /\ writes' = [writes EXCEPT ![s][n] = row]
        /\ \A i \in 1..(call[s].next - 1) : call[s].list[i] # n
    BY DEF ReplaceInv, McpInv, TypeOK, UpsertRow, Continue
  <1>4. /\ call'[s].next = call[s].next + 1 /\ call'[s].list = call[s].list
        /\ call'[s].number = call[s].number
    BY <1>1, <1>3 DEF Call
  <1>5. row \in Row /\ row.content = call[s].number
    <2>1. row \in Row
      BY <1>1, <1>2, UpsertWrites
    <2>2. CASE Visible(s, n) = None
      <3>1. row = NewRow(s)
        BY <2>2
      <3> HIDE DEF row
      <3> QED
        BY <2>1, <3>1 DEF NewRow
    <2>3. CASE Visible(s, n) # None
      <3>1. Visible(s, n) \in Row /\ row = Updated(s, Visible(s, n))
        BY <1>1, <1>2, <2>3, VisibleTyped DEF McpInv
      <3> HIDE DEF n, row
      <3> QED
        BY <2>1, <3>1 DEF Updated, Row
    <2> QED
      BY <2>2, <2>3
  <1>6. Upserted(s)' = 1..call[s].next /\ Upserted(s) = 1..(call[s].next - 1)
    <2>1. Upserted(s) = 1..(call[s].next - 1)
      BY <1>1 DEF Upserted
    <2>2. /\ call[s].next = Len(call[s].list) => pc'[s] = "commit"
          /\ call[s].next # Len(call[s].list) => pc'[s] = "upsert"
      BY <1>3
    <2>3. Len(call[s].list) \in Nat /\ call[s].next \in Nat
      BY <1>1, ListedAt
    <2>4. CASE call[s].next = Len(call[s].list)
      BY <1>4, <2>1, <2>2, <2>4 DEF Upserted
    <2>5. CASE call[s].next # Len(call[s].list)
      <3>1. Upserted(s)' = 1..(call'[s].next - 1)
        BY <2>2, <2>5 DEF Upserted
      <3>2. call'[s].next - 1 = call[s].next
        BY <1>4, <2>3
      <3> QED
        BY <2>1, <3>1, <3>2
    <2> QED
      BY <2>4, <2>5
  <1>7. writes'[s][n] = row /\ \A m \in Names \ {n} : writes'[s][m] = writes[s][m]
    BY <1>1, <1>2, <1>3
  <1>8. Listed(s)' = Listed(s)
    BY <1>4 DEF Listed
  <1>9. next \in {"commit", "upsert"}
    OBVIOUS
  <1>10. \A i \in 1..(call[s].next - 1) : call[s].list[i] \in Names \ {n}
    BY <1>1, <1>3, ListedAt
  <1>11. call[s].list[call[s].next] = n
    OBVIOUS
  <1>12. \A i \in 1..call[s].next : i = call[s].next \/ i \in 1..(call[s].next - 1)
    BY <1>1
  <1> HIDE DEF n, row, next
  <1>13. Brought(s)'
    <2> SUFFICES ASSUME NEW i \in 1..call[s].next
                 PROVE  /\ writes'[s][call[s].list[i]] \in Row
                        /\ writes'[s][call[s].list[i]].content = call[s].number
      BY <1>4, <1>6 DEF Brought
    <2>1. CASE i = call[s].next
      BY <1>5, <1>7, <1>11, <2>1
    <2>2. CASE i \in 1..(call[s].next - 1)
      BY <1>1, <1>6, <1>7, <1>10, <2>2 DEF Brought
    <2> QED
      BY <1>12, <2>1, <2>2
  <1>14. Cleared(s)'
    BY <1>1, <1>2, <1>3, <1>7, <1>8, <1>9 DEF Cleared
  <1> QED
    BY <1>13, <1>14

LEMMA ReplaceStep == ReplaceInv /\ [Next]_vars => ReplaceInv'
  <1> SUFFICES ASSUME ReplaceInv, [Next]_vars PROVE ReplaceInv'
    OBVIOUS
  <1>1. McpInv'
    BY McpStep DEF ReplaceInv
  <1>2. CASE UNCHANGED vars
    BY <1>1, <1>2 DEF vars, ReplaceInv, Brought, Cleared, Upserted, Listed
  <1>3. ASSUME NEW o \in Sessions, Begins(o) \/ Statement(o) \/ Abort(o)
        PROVE  \A s \in Sessions : Brought(s)' /\ Cleared(s)'
    <2>1. \A s \in Sessions \ {o} : Brought(s)' /\ Cleared(s)'
      BY <1>3, OthersKeep
    <2>2. Brought(o)' /\ Cleared(o)'
      <3>1. CASE FindDoomed(o) \/ DeleteRow(o) \/ DeleteEnds(o) \/ UpsertRow(o)
        BY <3>1, FindReplaces, DeleteReplaces, DeleteEndsReplaces, UpsertReplaces
      <3>2. CASE pc'[o] \in {"idle", "find", "switch"}
        BY <3>2, IdleReplaces
      <3>3. \/ FindDoomed(o) \/ DeleteRow(o) \/ DeleteEnds(o) \/ UpsertRow(o)
            \/ pc'[o] \in {"idle", "find", "switch"}
        BY <1>3 DEF ReplaceInv, McpInv, TypeOK, Begins, Statement, BeginRefresh, BeginSwitch,
           DuplicateName, SetEnabled, Commit, Abort, Release, Continue
      <3> QED
        BY <3>1, <3>2, <3>3
    <2> QED
      BY <2>1, <2>2
  <1> QED
    BY <1>1, <1>2, <1>3 DEF Next, ReplaceInv

(***************************************************************************)
(* A committed refresh leaves its list with the content it brought, and    *)
(* beside it only what others committed after its DELETE had begun         *)
(* (RefreshReplaces), for any number of callers, tools and lists: what the *)
(* DELETE misses it never saw, and what the INSERT passed it has locked    *)
(* (mcp_tool_repository.go:61-83).                                         *)
(***************************************************************************)
THEOREM RefreshesReplace == Spec => RefreshReplaces
  <1>1. ASSUME ReplaceInv, NEW s \in Sessions, Commit(s), NEW n \in Names
        PROVE  IF n \in Listed(s) THEN tools'[n] # None /\ tools'[n].content = call[s].number
               ELSE tools'[n] = None \/ n \in late[s]
    <2>1. /\ tools'[n] = Visible(s, n) /\ pc[s] = "commit" /\ call[s] \in Call
          /\ Brought(s) /\ Cleared(s)
      BY <1>1 DEF Commit, ReplaceInv, McpInv, TypeOK
    <2>2. CASE n \in Listed(s)
      <3>1. PICK i \in 1..Len(call[s].list) : call[s].list[i] = n
        BY <2>1, <2>2, ListedAt DEF Listed
      <3>2. writes[s][n] \in Row /\ writes[s][n].content = call[s].number
        BY <2>1, <3>1 DEF Brought, Upserted
      <3> QED
        BY <2>1, <2>2, <3>2, ToolsAssumption DEF Visible
    <2>3. CASE n \notin Listed(s)
      <3>1. writes[s][n] \in {None, Deleted}
        BY <1>1, <2>3 DEF ReplaceInv, McpInv, TypeOK, WritesKeep
      <3> QED
        BY <2>1, <2>3, <3>1 DEF Visible, Cleared
    <2> QED
      BY <2>2, <2>3
  <1>2. ReplaceInv /\ [Next]_vars =>
          [\A s \in Sessions :
             Commit(s) =>
               \A n \in Names :
                 IF n \in Listed(s) THEN tools'[n] # None /\ tools'[n].content = call[s].number
                 ELSE tools'[n] = None \/ n \in late[s]]_vars
    BY <1>1
  <1> QED
    BY <1>2, ReplaceInit, ReplaceStep, PTL DEF Spec, RefreshReplaces
=============================================================================
