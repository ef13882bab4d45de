---------------------------- MODULE CanvasProofs ----------------------------
(***************************************************************************)
(* For any number of connections and of versions: undo always gets back to *)
(* the first draft, and only an outdated save can touch a finalized canvas.*)
(***************************************************************************)
EXTENDS Canvas, TLAPS

\* Nobody works on a canvas that is not there, and the first draft is written
\* by the only connection that knows it.
Untouched == status = "ABSENT" =>
                head = 0 /\ count = 0 /\ \A c \in Conns : At(c, "idle")
Drafting(c) == At(c, "draft_version") =>
                  head = 0 /\ count = 0 /\ conn[c].head = 0
                  /\ \A d \in Conns \ {c} : At(d, "idle")

\* A connection works from a version that exists, on a canvas that was not
\* finalized when it read it, and with the row itself unless another one has
\* saved since.
Known(c) == /\ conn[c].head <= count /\ conn[c].target <= count
            /\ conn[c].pc \in {"open_save", "nav_read", "nav_save", "change", "version",
                               "final_save"} => conn[c].head # 0
            /\ conn[c].pc \in {"nav_save", "version_save"} => conn[c].target # 0

\* ... and the canvas it was given has a head.
Seen(c) == Working(c) \/ At(c, "edit") =>
              head # 0 \/ conn[c].pc \in {"draft_version", "version_save"}
Unlocked(c) == Working(c) /\ ~At(c, "final_save") => conn[c].status \in {"DRAFTING", "EDITING"}
UpToDate(c) == Working(c) /\ c \notin behind => conn[c].status = status /\ conn[c].head = head

Sane(c) == Drafting(c) /\ Known(c) /\ Seen(c) /\ Unlocked(c) /\ UpToDate(c)

IInv == TypeOK /\ Lineage /\ Untouched /\ \A c \in Conns : Sane(c)

----------------------------------------------------------------------------
LEMMA InitOK == Init => IInv
<1> SUFFICES ASSUME Init PROVE IInv
  OBVIOUS
<1> USE MaxVersionsAssumption DEF Init, At
<1>1. IdleConn \in ConnRecord
  BY DEF IdleConn, ConnRecord, Pcs
<1>2. TypeOK
  <2>1. /\ status \in Statuses \cup {"ABSENT"} /\ count \in 0 .. MaxVersions
        /\ head \in 0 .. count /\ status \notin {"EDITING", "FINALIZED"}
    OBVIOUS
  <2>2. base \in [Versions -> 0 .. MaxVersions]
    OBVIOUS
  <2>3. conn \in [Conns -> ConnRecord] /\ behind \subseteq Conns
    BY <1>1
  <2>4. raced \in BOOLEAN /\ overlapped \in BOOLEAN
    BY Zenon
  <2> QED
    BY <2>1, <2>2, <2>3, <2>4 DEF TypeOK
<1>3. \A c \in Conns : conn[c].pc = "idle" /\ conn[c].head = 0 /\ conn[c].target = 0
  BY DEF IdleConn
<1>4. Lineage /\ Untouched
  BY <1>3 DEF Lineage, Untouched
<1>5. \A c \in Conns : Sane(c)
  BY <1>3 DEF Sane, Drafting, Known, Seen, Unlocked, UpToDate, Working
<1> QED
  BY <1>2, <1>4, <1>5 DEF IInv

(* What a save does, once for all the actions that save: the connection that *)
(* saves a version that exists, with a status a canvas has, leaves the rest  *)
(* of the invariant alone.                                                   *)
LEMMA SaveOK ==
    ASSUME IInv, NEW c \in Conns, NEW st \in {"DRAFTING", "EDITING", "FINALIZED"},
           NEW h \in 1 .. count, Save(c, st, h), UNCHANGED <<count, base>>,
           ~At(c, "idle"), ~At(c, "edit"), ~At(c, "draft_version"),
           NEW r \in ConnRecord, conn' = [conn EXCEPT ![c] = r],
           r.head <= count, r.target <= count,
           \/ r.pc \in {"idle", "edit"}
           \/ r.pc = "version" /\ r.head = h /\ r.status = st /\ st = "EDITING",
           History(c)
    PROVE  IInv'
<1> USE MaxVersionsAssumption DEF IInv, At, Versions
<1>1. Working(c)
  BY DEF Working
<1>2. conn'[c] = r /\ \A d \in Conns \ {c} : conn'[d] = conn[d]
  BY DEF TypeOK
<1>3. TypeOK'
  BY <1>1 DEF TypeOK, Save, History, Statuses
<1>4. Lineage'
  BY DEF Lineage
<1>5. Untouched'
  BY DEF Save, Untouched
<1>6. ASSUME NEW d \in Conns \ {c} PROVE Sane(d)'
  <2>1. ~At(d, "draft_version")
    BY <1>1 DEF Sane, Drafting, Working
  <2>2. Known(d)' /\ Seen(d)'
    BY <1>2 DEF Sane, Known, Seen, Save, Working
  <2>3. Unlocked(d)'
    BY <1>2 DEF Sane, Unlocked, Working
  <2>4. UpToDate(d)'
    BY <1>2 DEF UpToDate, Save, Working
  <2> QED
    BY <1>2, <2>1, <2>2, <2>3, <2>4 DEF Sane, Drafting
<1>7. Sane(c)'
  <2>1. head' = h /\ status' = st /\ h # 0
    BY DEF Save
  <2> QED
    BY <1>2, <2>1 DEF Sane, Drafting, Known, Seen, Unlocked, UpToDate, Working
<1> QED
  BY <1>3, <1>4, <1>5, <1>6, <1>7

(* A step that leaves the row, the versions and the other connections alone. *)
LEMMA LocalOK ==
    ASSUME IInv, NEW c \in Conns, UNCHANGED <<row, count, base, raced>>, status # "ABSENT",
           NEW r \in ConnRecord, conn' = [conn EXCEPT ![c] = r],
           behind' \in {behind, behind \ {c}}, History(c),
           head # 0 \/ ~At(c, "idle"),
           Sane(c)'
    PROVE  IInv'
<1> USE MaxVersionsAssumption DEF IInv, At, Versions, row
<1>1. conn'[c] = r /\ \A d \in Conns \ {c} : conn'[d] = conn[d]
  BY DEF TypeOK
<1>2. TypeOK'
  BY DEF TypeOK, History
<1>3. Lineage' /\ Untouched'
  BY DEF Lineage, Untouched
<1>4. ASSUME NEW d \in Conns \ {c} PROVE Sane(d)'
  <2>1. Known(d)' /\ Seen(d)' /\ Unlocked(d)' /\ UpToDate(d)'
    BY <1>1 DEF Sane, Known, Seen, Unlocked, UpToDate, Working
  <2>2. Drafting(d)'
    <3>1. ~At(d, "draft_version")
      BY DEF Sane, Drafting
    <3> QED
      BY <1>1, <3>1 DEF Drafting
  <2> QED
    BY <2>1, <2>2 DEF Sane
<1> QED
  BY <1>2, <1>3, <1>4

(* What Fetch leaves in the connection: an up-to-date copy of the row.       *)
LEMMA FetchOK ==
    ASSUME IInv, NEW c \in Conns, UNCHANGED <<row, count, base, raced>>, History(c),
           NEW pc \in {"open_save", "nav_read", "change", "final_save"}, Fetch(c, pc),
           head # 0, pc # "final_save" => status # "FINALIZED"
    PROVE  IInv'
<1> USE MaxVersionsAssumption DEF IInv, At
<1> DEFINE r == [pc |-> pc, status |-> status, head |-> head, target |-> 0]
<1>1. r = [pc |-> pc, status |-> status, head |-> head, target |-> 0]
  OBVIOUS
<1>2. status \in Statuses
  <2>1. status \in Statuses \cup {"ABSENT"}
    BY DEF TypeOK
  <2>2. status # "ABSENT"
    BY DEF Untouched
  <2> QED
    BY <2>1, <2>2
<1>3. r \in ConnRecord
  <2>1. pc \in Pcs /\ head \in 0 .. MaxVersions /\ 0 \in 0 .. MaxVersions
    BY DEF Pcs, TypeOK
  <2> QED
    BY <1>1, <1>2, <2>1 DEF ConnRecord
<1>4. conn' = [conn EXCEPT ![c] = r] /\ behind' = behind \ {c}
  BY DEF Fetch
<1>5. r.pc = pc /\ r.status = status /\ r.head = head /\ r.target = 0
  BY <1>1
<1> HIDE DEF r
<1>6. conn'[c] = r
  BY <1>4 DEF TypeOK
<1>7. Sane(c)'
  BY <1>2, <1>4, <1>5, <1>6
     DEF Sane, Drafting, Known, Seen, Unlocked, UpToDate, Working, Statuses, TypeOK, row
<1>8. status # "ABSENT"
  BY <1>2 DEF Statuses
<1> QED
  BY <1>3, <1>4, <1>7, <1>8, LocalOK DEF IInv

\* The copy of a connection after its step to another program point.
Moved(c, pc) == [pc |-> pc, status |-> conn[c].status, head |-> conn[c].head,
                 target |-> conn[c].target]

LEMMA MovedOK ==
    ASSUME TypeOK, NEW c \in Conns, NEW pc \in Pcs
    PROVE  /\ Moved(c, pc) \in ConnRecord
           /\ Goto(c, pc) => conn' = [conn EXCEPT ![c] = Moved(c, pc)]
<1>1. conn[c] \in ConnRecord
  BY DEF TypeOK
<1>2. conn[c] = [pc |-> conn[c].pc, status |-> conn[c].status, head |-> conn[c].head,
                 target |-> conn[c].target]
  BY <1>1 DEF ConnRecord
<1>3. Moved(c, pc) \in ConnRecord
  BY <1>1 DEF Moved, ConnRecord
<1>4. [conn[c] EXCEPT !.pc = pc] = Moved(c, pc)
  BY <1>1, <1>2 DEF Moved, ConnRecord
<1> QED
  BY <1>1, <1>2, <1>3, <1>4 DEF Moved, Goto, TypeOK, ConnRecord

\* ... and to another program point with a new status or a new target.
Recast(c, pc, st, t) == [pc |-> pc, status |-> st, head |-> conn[c].head, target |-> t]

LEMMA RecastStatus ==
    ASSUME TypeOK, NEW c \in Conns, NEW pc \in Pcs, NEW st \in Statuses,
           conn' = [conn EXCEPT ![c].pc = pc, ![c].status = st]
    PROVE  conn' = [conn EXCEPT ![c] = Recast(c, pc, st, conn[c].target)]
<1>1. conn \in [Conns -> ConnRecord] /\ conn[c] \in ConnRecord
  BY DEF TypeOK
<1> DEFINE e == [conn[c] EXCEPT !.pc = pc, !.status = st]
<1>2. e \in ConnRecord
  BY <1>1 DEF ConnRecord
<1>3. e.pc = pc /\ e.status = st /\ e.head = conn[c].head /\ e.target = conn[c].target
  BY <1>1 DEF ConnRecord
<1>4. conn' = [conn EXCEPT ![c] = e]
  BY <1>1
<1> HIDE DEF e
<1>5. e = [pc |-> e.pc, status |-> e.status, head |-> e.head, target |-> e.target]
  BY <1>2 DEF ConnRecord
<1>6. e = Recast(c, pc, st, conn[c].target)
  BY <1>3, <1>5 DEF Recast
<1> QED
  BY <1>4, <1>6

LEMMA RecastTarget ==
    ASSUME TypeOK, NEW c \in Conns, NEW pc \in Pcs, NEW t \in 0 .. MaxVersions,
           conn' = [conn EXCEPT ![c].pc = pc, ![c].target = t]
    PROVE  conn' = [conn EXCEPT ![c] = Recast(c, pc, conn[c].status, t)]
<1>1. conn \in [Conns -> ConnRecord] /\ conn[c] \in ConnRecord
  BY DEF TypeOK
<1> DEFINE e == [conn[c] EXCEPT !.pc = pc, !.target = t]
<1>2. e \in ConnRecord
  BY <1>1 DEF ConnRecord
<1>3. e.pc = pc /\ e.status = conn[c].status /\ e.head = conn[c].head /\ e.target = t
  BY <1>1 DEF ConnRecord
<1>4. conn' = [conn EXCEPT ![c] = e]
  BY <1>1
<1> HIDE DEF e
<1>5. e = [pc |-> e.pc, status |-> e.status, head |-> e.head, target |-> e.target]
  BY <1>2 DEF ConnRecord
<1>6. e = Recast(c, pc, conn[c].status, t)
  BY <1>3, <1>5 DEF Recast
<1> QED
  BY <1>4, <1>6

(* The steps that only move a connection.                                    *)
LEMMA QuietOK ==
    ASSUME IInv, NEW c \in Conns,
           Open(c) \/ Command(c) \/ NavRead(c) \/ NoChange(c) \/ Finalize(c)
    PROVE  IInv'
<1> USE MaxVersionsAssumption DEF IInv, At
<1>1. CASE Open(c)
  BY <1>1, FetchOK DEF Open
<1>2. CASE Command(c)
  <2>1. head # 0
    BY <1>2 DEF Command, Sane, Seen, Working
  <2> QED
    BY <1>2, <2>1, FetchOK DEF Command
<1>3. CASE Finalize(c)
  <2>1. head # 0
    BY <1>3 DEF Finalize, Sane, Seen
  <2> QED
    BY <1>3, <2>1, FetchOK DEF Finalize
<1>4. ASSUME NoChange(c) \/ (NavRead(c) /\ Goto(c, "edit")) PROVE IInv'
  <2>1. /\ conn[c].pc \in {"change", "nav_read"}
        /\ Goto(c, "edit") /\ History(c) /\ UNCHANGED <<row, count, base, behind, raced>>
    BY <1>4 DEF NoChange, NavRead
  <2>2. head # 0 /\ status # "ABSENT"
    <3>1. conn[c].head # 0 /\ conn[c].head <= count
      BY <2>1 DEF Sane, Known
    <3>2. count # 0 /\ status # "ABSENT"
      BY <2>1, <3>1 DEF Untouched, TypeOK, ConnRecord
    <3>3. head # 0
      BY <2>1, <3>2 DEF Sane, Seen, Working
    <3> QED
      BY <3>2, <3>3
  <2> DEFINE r == Moved(c, "edit")
  <2>3. r \in ConnRecord /\ conn' = [conn EXCEPT ![c] = r]
    BY <2>1, MovedOK DEF Pcs
  <2>4. r.pc = "edit" /\ r.head = conn[c].head /\ r.target = conn[c].target
    BY DEF Moved
  <2> HIDE DEF r
  <2>5. Sane(c)'
    BY <2>1, <2>2, <2>3, <2>4
       DEF Sane, Drafting, Known, Seen, Unlocked, UpToDate, Working, TypeOK, row
  <2> QED
    BY <2>1, <2>2, <2>3, <2>5, LocalOK
<1>5. ASSUME NEW t \in PreviousVersion(conn[c].head) \cup NextVersion(conn[c].head),
             At(c, "nav_read"), History(c), UNCHANGED <<row, count, base, behind, raced>>,
             conn' = [conn EXCEPT ![c].pc = "nav_save", ![c].target = t]
      PROVE  IInv'
  <2>1. conn[c].head \in 1 .. count
    BY <1>5 DEF Sane, Known, TypeOK, ConnRecord
  <2>2. t \in 1 .. count
    <3>1. CASE t \in PreviousVersion(conn[c].head)
      BY <2>1, <3>1 DEF PreviousVersion, Lineage, TypeOK, Versions
    <3>2. CASE t \in NextVersion(conn[c].head)
      BY <3>2 DEF NextVersion, LatestChild, Children
    <3> QED
      BY <3>1, <3>2
  <2>3. head # 0 /\ status # "ABSENT"
    <3>1. count # 0 /\ status # "ABSENT"
      BY <1>5, <2>1 DEF Untouched, TypeOK
    <3>2. head # 0
      BY <1>5 DEF Sane, Seen, Working
    <3> QED
      BY <3>1, <3>2
  <2> DEFINE r == Recast(c, "nav_save", conn[c].status, t)
  <2>3a. t \in 0 .. MaxVersions /\ "nav_save" \in Pcs
    BY <2>2 DEF TypeOK, Pcs
  <2>4. conn' = [conn EXCEPT ![c] = r]
    <3>1. conn' = [conn EXCEPT ![c].pc = "nav_save", ![c].target = t]
      BY <1>5
    <3> QED
      BY <3>1, <2>3a, RecastTarget
  <2>5. conn[c] \in ConnRecord /\ t \in 0 .. MaxVersions
    BY <2>2 DEF TypeOK
  <2>6. /\ r \in ConnRecord /\ r.pc = "nav_save" /\ r.head = conn[c].head
        /\ r.status = conn[c].status /\ r.target = t
    BY <2>5 DEF ConnRecord, Recast, Pcs
  <2> HIDE DEF r
  <2>7. Sane(c)'
    BY <1>5, <2>1, <2>2, <2>3, <2>4, <2>6
       DEF Sane, Drafting, Known, Seen, Unlocked, UpToDate, Working, TypeOK, row
  <2> QED
    BY <1>5, <2>3, <2>4, <2>6, <2>7, LocalOK
<1>6. CASE NavRead(c)
  <2>1. CASE Goto(c, "edit")
    BY <1>4, <1>6, <2>1
  <2>2. CASE ~Goto(c, "edit")
    <3>1. PICK t \in PreviousVersion(conn[c].head) \cup NextVersion(conn[c].head) :
             conn' = [conn EXCEPT ![c].pc = "nav_save", ![c].target = t]
      BY <1>6, <2>2 DEF NavRead
    <3> QED
      BY <1>5, <1>6, <3>1 DEF NavRead
  <2> QED
    BY <2>1, <2>2
<1>7. CASE NoChange(c)
  <2>1. NoChange(c) \/ (NavRead(c) /\ Goto(c, "edit"))
    BY <1>7
  <2> QED
    BY <1>4, <2>1
<1> QED
  BY <1>1, <1>2, <1>3, <1>6, <1>7

LEMMA DropOK == ASSUME IInv, NEW c \in Conns, Drop(c) PROVE IInv'
<1> USE MaxVersionsAssumption DEF IInv, At
<1>1. IdleConn \in ConnRecord /\ IdleConn.pc = "idle" /\ IdleConn.head = 0 /\ IdleConn.target = 0
  BY DEF IdleConn, ConnRecord, Pcs
<1>2. conn' = [conn EXCEPT ![c] = IdleConn] /\ behind' = behind \ {c}
  BY DEF Drop, EndTurn
<1>3. UNCHANGED <<row, count, base, raced>> /\ History(c) /\ ~At(c, "idle")
  BY DEF Drop
<1>4. status # "ABSENT"
  BY <1>3 DEF Untouched
<1>5. conn'[c].pc = "idle" /\ conn'[c].head = 0 /\ conn'[c].target = 0
  BY <1>1, <1>2 DEF TypeOK
<1>6. Sane(c)'
  BY <1>3, <1>5 DEF Sane, Drafting, Known, Seen, Unlocked, UpToDate, Working, TypeOK
<1> QED
  BY <1>1, <1>2, <1>3, <1>4, <1>6, LocalOK

(* The steps that save the row.                                              *)
LEMMA SavesOK ==
    ASSUME IInv, NEW c \in Conns,
           \/ OpenSave(c) \/ NavSave(c) \/ SetEditing(c) \/ SaveVersion(c) \/ FinalizeSave(c)
    PROVE  IInv'
<1> USE MaxVersionsAssumption DEF IInv, At
<1>1. conn[c] \in ConnRecord /\ Sane(c)
  BY DEF TypeOK
<1>2. ASSUME NEW st \in {"DRAFTING", "EDITING", "FINALIZED"}, NEW h \in 1 .. count,
             Save(c, st, h), UNCHANGED <<count, base>>, History(c), Goto(c, "edit"),
             ~At(c, "idle"), ~At(c, "edit"), ~At(c, "draft_version")
      PROVE  IInv'
  <2>1. Moved(c, "edit") \in ConnRecord /\ conn' = [conn EXCEPT ![c] = Moved(c, "edit")]
    BY <1>2, MovedOK DEF Pcs
  <2>2. /\ Moved(c, "edit").pc = "edit" /\ Moved(c, "edit").head = conn[c].head
        /\ Moved(c, "edit").target = conn[c].target
    BY DEF Moved
  <2>3. Moved(c, "edit").head <= count /\ Moved(c, "edit").target <= count
    BY <1>1, <2>2 DEF Sane, Known
  <2> QED
    BY <1>2, <2>1, <2>2, <2>3, SaveOK
<1>3. CASE OpenSave(c)
  <2>1. conn[c].head \in 1 .. count
    BY <1>1, <1>3 DEF OpenSave, Sane, Known, ConnRecord, TypeOK
  <2> QED
    BY <1>2, <1>3, <2>1 DEF OpenSave
<1>4. CASE NavSave(c) \/ SaveVersion(c)
  <2>1. conn[c].target \in 1 .. count /\ conn[c].status \in {"DRAFTING", "EDITING"}
    BY <1>1, <1>4 DEF NavSave, SaveVersion, Sane, Known, Unlocked, Working, ConnRecord, TypeOK
  <2> QED
    BY <1>2, <1>4, <2>1 DEF NavSave, SaveVersion
<1>5. CASE SetEditing(c)
  <2>1. conn[c].head \in 1 .. count
    BY <1>1, <1>5 DEF SetEditing, Sane, Known, ConnRecord, TypeOK
  <2> DEFINE r == Recast(c, "version", "EDITING", conn[c].target)
  <2>2. conn' = [conn EXCEPT ![c] = r]
    <3>1. conn' = [conn EXCEPT ![c].pc = "version", ![c].status = "EDITING"]
      BY <1>5 DEF SetEditing
    <3>2. "version" \in Pcs /\ "EDITING" \in Statuses
      BY DEF Pcs, Statuses
    <3> QED
      BY <3>1, <3>2, RecastStatus
  <2>4. /\ r \in ConnRecord /\ r.pc = "version" /\ r.head = conn[c].head
        /\ r.target = conn[c].target /\ r.status = "EDITING"
    BY <1>1 DEF ConnRecord, Statuses, Recast, Pcs
  <2> HIDE DEF r
  <2>5. r.head <= count /\ r.target <= count
    BY <1>1, <2>4 DEF Sane, Known
  <2>6. /\ Save(c, "EDITING", conn[c].head) /\ UNCHANGED <<count, base>> /\ History(c)
        /\ At(c, "change")
    BY <1>5 DEF SetEditing
  <2> QED
    BY <2>1, <2>2, <2>4, <2>5, <2>6, SaveOK
<1>6. CASE FinalizeSave(c)
  <2>1. conn[c].head \in 1 .. count
    BY <1>1, <1>6 DEF FinalizeSave, Sane, Known, ConnRecord, TypeOK
  <2>2. IdleConn \in ConnRecord /\ IdleConn.pc = "idle" /\ IdleConn.head = 0 /\ IdleConn.target = 0
    BY DEF IdleConn, ConnRecord, Pcs
  <2>3. /\ Save(c, "FINALIZED", conn[c].head) /\ UNCHANGED <<count, base>> /\ History(c)
        /\ At(c, "final_save") /\ conn' = [conn EXCEPT ![c] = IdleConn]
    BY <1>6 DEF FinalizeSave, EndTurn
  <2>4. IdleConn.head <= count /\ IdleConn.target <= count
    BY <2>2 DEF TypeOK
  <2> QED
    BY <2>1, <2>2, <2>3, <2>4, SaveOK
<1> QED
  BY <1>3, <1>4, <1>5, <1>6

(* The steps that create the row and the versions.                           *)
LEMMA DraftOK == ASSUME IInv, NEW c \in Conns, Draft(c) PROVE IInv'
<1> USE MaxVersionsAssumption DEF IInv, At
<1> DEFINE r == Recast(c, "draft_version", "DRAFTING", conn[c].target)
<1>1. conn' = [conn EXCEPT ![c] = r]
  <2>1. conn' = [conn EXCEPT ![c].pc = "draft_version", ![c].status = "DRAFTING"]
    BY DEF Draft
  <2>2. "draft_version" \in Pcs /\ "DRAFTING" \in Statuses
    BY DEF Pcs, Statuses
  <2> QED
    BY <2>1, <2>2, RecastStatus
<1>2. conn[c] \in ConnRecord /\ Known(c)
  BY DEF TypeOK, Sane
<1>3. /\ status = "ABSENT" /\ status' = "DRAFTING" /\ History(c)
      /\ UNCHANGED <<head, count, base, behind, raced>>
  BY DEF Draft
<1>4. head = 0 /\ count = 0 /\ \A d \in Conns : conn[d].pc = "idle"
  BY <1>3 DEF Untouched
<1>5. conn[c].head = 0 /\ conn[c].target = 0
  BY <1>2, <1>4 DEF Known, ConnRecord
<1>6. /\ r \in ConnRecord /\ r.pc = "draft_version" /\ r.head = 0 /\ r.target = 0
      /\ r.status = "DRAFTING"
  BY <1>2, <1>5 DEF ConnRecord, Recast, Pcs, Statuses
<1> HIDE DEF r
<1>7. conn'[c] = r /\ \A d \in Conns \ {c} : conn'[d] = conn[d]
  BY <1>1 DEF TypeOK
<1>8. TypeOK'
  BY <1>1, <1>3, <1>6 DEF TypeOK, History, Statuses
<1>9. Lineage' /\ Untouched'
  BY <1>3 DEF Lineage, Untouched
<1>10. \A d \in Conns : Sane(d)'
  BY <1>3, <1>4, <1>6, <1>7 DEF Sane, Drafting, Known, Seen, Unlocked, UpToDate, Working
<1> QED
  BY <1>8, <1>9, <1>10

LEMMA WriteOK == ASSUME IInv, NEW c \in Conns, WriteVersion(c) PROVE IInv'
<1> USE MaxVersionsAssumption DEF IInv, At
<1> DEFINE r == Recast(c, "version_save", conn[c].status, count + 1)
<1>1. conn' = [conn EXCEPT ![c] = r]
  <2>1. conn' = [conn EXCEPT ![c].pc = "version_save", ![c].target = count + 1]
    BY DEF WriteVersion
  <2>2. "version_save" \in Pcs /\ count + 1 \in 0 .. MaxVersions
    BY DEF Pcs, WriteVersion, TypeOK
  <2> QED
    BY <2>1, <2>2, RecastTarget
<1>2. conn[c] \in ConnRecord /\ Sane(c)
  BY DEF TypeOK
<1>3. /\ conn[c].pc \in {"draft_version", "version", "change"}
      /\ count < MaxVersions /\ count' = count + 1
      /\ base' = [base EXCEPT ![count + 1] = conn[c].head]
      /\ UNCHANGED <<row, behind, raced>> /\ History(c)
  BY DEF WriteVersion
<1>4. count \in Nat /\ count + 1 \in Versions /\ head \in 0 .. count
  BY <1>3 DEF TypeOK, Versions
<1>5. conn[c].head \in 0 .. count /\ (conn[c].head = 0 <=> count = 0)
  BY <1>2, <1>3, <1>4 DEF Sane, Drafting, Known, ConnRecord
<1>6. /\ r \in ConnRecord /\ r.pc = "version_save" /\ r.head = conn[c].head
      /\ r.target = count + 1 /\ r.status = conn[c].status
  BY <1>2, <1>4 DEF ConnRecord, Recast, Pcs, Versions
<1> HIDE DEF r
<1>7. conn'[c] = r /\ \A d \in Conns \ {c} : conn'[d] = conn[d]
  BY <1>1 DEF TypeOK
<1>8. TypeOK'
  <2>1. base' \in [Versions -> 0 .. MaxVersions]
    BY <1>3, <1>4, <1>5 DEF TypeOK
  <2>2. conn' \in [Conns -> ConnRecord]
    BY <1>1, <1>6 DEF TypeOK
  <2>3. count' \in 0 .. MaxVersions /\ head' \in 0 .. count'
    BY <1>3, <1>4 DEF row
  <2> QED
    BY <1>3, <2>1, <2>2, <2>3 DEF TypeOK, History, row
<1>9. Lineage'
  <2> SUFFICES ASSUME NEW v \in 1 .. count'
               PROVE  base'[v] < v /\ (base'[v] = 0 <=> v = 1)
    BY DEF Lineage
  <2>1. CASE v = count + 1
    BY <1>3, <1>4, <1>5, <2>1 DEF TypeOK
  <2>2. CASE v # count + 1
    <3>1. v \in 1 .. count
      BY <1>3, <1>4, <2>2
    <3>2. base'[v] = base[v]
      BY <1>3, <2>2, <3>1 DEF TypeOK, Versions
    <3> QED
      BY <3>1, <3>2 DEF Lineage
  <2> QED
    BY <2>1, <2>2
<1>10. Untouched'
  BY <1>3 DEF Untouched, row
<1>11. ASSUME NEW d \in Conns \ {c} PROVE Sane(d)'
  <2>1. ~At(d, "draft_version")
    BY <1>3 DEF Sane, Drafting
  <2>2. conn[d] \in ConnRecord /\ Sane(d)
    BY DEF TypeOK
  <2>3. Known(d)'
    BY <1>3, <1>4, <1>7, <2>2 DEF Sane, Known, ConnRecord
  <2>4. Seen(d)' /\ Unlocked(d)' /\ UpToDate(d)'
    BY <1>3, <1>7, <2>2 DEF Sane, Seen, Unlocked, UpToDate, Working, row
  <2> QED
    BY <1>7, <2>1, <2>3, <2>4 DEF Sane, Drafting
<1>12. Sane(c)'
  <2>1. Known(c)'
    BY <1>2, <1>3, <1>4, <1>5, <1>6, <1>7 DEF Known
  <2>2. Unlocked(c)' /\ UpToDate(c)' /\ Seen(c)'
    BY <1>2, <1>3, <1>6, <1>7 DEF Sane, Seen, Unlocked, UpToDate, Working, row
  <2> QED
    BY <1>6, <1>7, <2>1, <2>2 DEF Sane, Drafting
<1> QED
  BY <1>8, <1>9, <1>10, <1>11, <1>12

(* The invariant is inductive.                                               *)
LEMMA StepOK == IInv /\ [Next]_vars => IInv'
<1> SUFFICES ASSUME IInv, [Next]_vars PROVE IInv'
  OBVIOUS
<1>1. CASE UNCHANGED vars
  BY <1>1 DEF vars, row, IInv, TypeOK, Lineage, Untouched, Sane, Drafting, Known, Seen,
              Unlocked, UpToDate, Working, At
<1>2. ASSUME NEW c \in Conns, Step(c) PROVE IInv'
  BY <1>2, QuietOK, DropOK, SavesOK, DraftOK, WriteOK DEF Step
<1> QED
  BY <1>1, <1>2 DEF Next

(* Undo always gets back to the first draft.                                 *)
THEOREM UndoReachesDraft == Spec => []Lineage
<1>1. IInv => Lineage
  BY DEF IInv
<1> QED
  BY <1>1, InitOK, StepOK, PTL DEF Spec

(* A finalized canvas is changed by nothing but an outdated save.            *)
THEOREM LockIsKept == Spec => LockHolds
<1>1. ASSUME IInv, status = "FINALIZED", NEW c \in Conns, Step(c)
      PROVE  raced' \/ (status' = "FINALIZED" /\ head' = head)
  <2>1. Sane(c)
    BY <1>1 DEF IInv
  <2>2. CASE UNCHANGED row
    BY <1>1, <2>2 DEF row
  <2>3. CASE Draft(c)
    BY <1>1, <2>3 DEF Draft
  <2>4. CASE OpenSave(c) \/ NavSave(c) \/ SetEditing(c) \/ SaveVersion(c)
    <3>1. c \in behind
      BY <1>1, <2>1, <2>4
         DEF OpenSave, NavSave, SetEditing, SaveVersion, At, Sane, Unlocked, UpToDate, Working
    <3> QED
      BY <2>4, <3>1 DEF OpenSave, NavSave, SetEditing, SaveVersion, Save
  <2>5. CASE FinalizeSave(c)
    BY <1>1, <2>1, <2>5 DEF FinalizeSave, At, Save, Sane, UpToDate, Working
  <2>6. CASE \/ Open(c) \/ Command(c) \/ NavRead(c) \/ NoChange(c) \/ WriteVersion(c)
             \/ Finalize(c) \/ Drop(c)
    BY <2>2, <2>6 DEF Open, Command, NavRead, NoChange, WriteVersion, Finalize, Drop, row
  <2> QED
    BY <1>1, <2>3, <2>4, <2>5, <2>6 DEF Step
<1>2. IInv /\ [Next]_vars =>
        [status = "FINALIZED" => raced' \/ (status' = "FINALIZED" /\ head' = head)]_vars
  BY <1>1 DEF Next
<1> QED
  BY <1>2, InitOK, StepOK, PTL DEF Spec, LockHolds

----------------------------------------------------------------------------
(* The head moves one version at a time.                                     *)

\* A step writes one connection, and at most one version that nobody has read.
LEMMA StepFrame ==
    ASSUME IInv, NEW c \in Conns, Step(c)
    PROVE  /\ \A d \in Conns \ {c} : conn'[d] = conn[d]
           /\ \/ UNCHANGED <<count, base>>
              \/ WriteVersion(c)
           /\ count' \in {count, count + 1}
           /\ \A v \in 1 .. count : base'[v] = base[v]
<1>0. conn \in [Conns -> ConnRecord] /\ base \in [Versions -> 0 .. MaxVersions]
  BY DEF IInv, TypeOK
<1>1. \A d \in Conns \ {c} : conn'[d] = conn[d]
  BY <1>0 DEF Step, Draft, Open, OpenSave, Command, NavRead, NavSave, NoChange, SetEditing,
              WriteVersion, SaveVersion, Finalize, FinalizeSave, Drop, Fetch, Goto, EndTurn
<1>2. UNCHANGED <<count, base>> \/ WriteVersion(c)
  BY DEF Step, Draft, Open, OpenSave, Command, NavRead, NavSave, NoChange, SetEditing,
         SaveVersion, Finalize, FinalizeSave, Drop
<1>3. count \in Nat /\ MaxVersions \in Nat
  BY MaxVersionsAssumption DEF IInv, TypeOK
<1>4. ASSUME WriteVersion(c)
      PROVE  count' = count + 1 /\ \A v \in 1 .. count : base'[v] = base[v]
  BY <1>0, <1>3, <1>4 DEF WriteVersion
<1> QED
  BY <1>1, <1>2, <1>4

\* The version a connection is about to make the head is the base of the one it
\* has read, or derives from it.
Aim(c) == /\ At(c, "nav_save") => \/ base[conn[c].target] = conn[c].head
                                  \/ base[conn[c].head] = conn[c].target
          /\ At(c, "version_save") => base[conn[c].target] = conn[c].head
Aimed == \A c \in Conns : Aim(c)

\* What a connection that goes on to save has read or written.
LEMMA AimSelf ==
    ASSUME IInv, NEW c \in Conns, Step(c), conn'[c].pc \in {"nav_save", "version_save"}
    PROVE  Aim(c)' /\ Working(c)
<1>0. /\ conn \in [Conns -> ConnRecord] /\ base \in [Versions -> 0 .. MaxVersions]
      /\ conn[c] \in ConnRecord /\ count \in Nat /\ MaxVersions \in Nat
      /\ Known(c)
  BY MaxVersionsAssumption DEF IInv, TypeOK, Sane
<1>1. CASE NavRead(c)
  <2>1. conn'[c].pc # "edit"
    BY DEF Working
  <2>2. PICK target \in PreviousVersion(conn[c].head) \cup NextVersion(conn[c].head) :
           conn' = [conn EXCEPT ![c].pc = "nav_save", ![c].target = target]
    BY <1>0, <1>1, <2>1 DEF NavRead, Goto, ConnRecord
  <2>3. /\ conn'[c].pc = "nav_save" /\ conn'[c].target = target
        /\ conn'[c].head = conn[c].head
    BY <1>0, <2>2 DEF ConnRecord
  <2>4. base[target] = conn[c].head \/ base[conn[c].head] = target
    BY <2>2 DEF PreviousVersion, NextVersion, LatestChild, Children
  <2>5. UNCHANGED base /\ At(c, "nav_read")
    BY <1>1 DEF NavRead
  <2> QED
    BY <2>3, <2>4, <2>5 DEF Aim, At, Working
<1>2. CASE WriteVersion(c)
  <2>1. /\ conn'[c].pc = "version_save" /\ conn'[c].target = count + 1
        /\ conn'[c].head = conn[c].head
    BY <1>0, <1>2 DEF WriteVersion, ConnRecord
  <2>2. base'[count + 1] = conn[c].head
    BY <1>0, <1>2 DEF WriteVersion, Versions
  <2> QED
    BY <1>2, <2>1, <2>2 DEF Aim, At, WriteVersion, Working
<1>3. CASE \/ Draft(c) \/ Open(c) \/ OpenSave(c) \/ Command(c) \/ NavSave(c) \/ NoChange(c)
           \/ SetEditing(c) \/ SaveVersion(c) \/ Finalize(c) \/ FinalizeSave(c) \/ Drop(c)
  <2>1. conn'[c].pc \in {"draft_version", "open_save", "edit", "nav_read", "change", "version",
                         "final_save", "idle"}
    BY <1>0, <1>3 DEF Draft, Open, OpenSave, Command, NavSave, NoChange, SetEditing,
              SaveVersion, Finalize, FinalizeSave, Drop, Fetch, Goto, EndTurn, IdleConn, ConnRecord
  <2> QED
    BY <2>1
<1> QED
  BY <1>1, <1>2, <1>3 DEF Step

LEMMA AimedStep == IInv /\ Aimed /\ [Next]_vars => Aimed'
<1> SUFFICES ASSUME IInv, Aimed, [Next]_vars PROVE Aimed'
  OBVIOUS
<1>1. CASE UNCHANGED vars
  BY <1>1 DEF vars, Aimed, Aim, At
<1>2. ASSUME NEW c \in Conns, Step(c), NEW d \in Conns PROVE Aim(d)'
  <2>1. CASE d = c
    BY <1>2, <2>1, AimSelf DEF Aim, At
  <2>2. CASE d # c
    <3>1. conn'[d] = conn[d] /\ \A v \in 1 .. count : base'[v] = base[v]
      BY <1>2, <2>2, StepFrame
    <3>2. Aim(d) /\ Known(d) /\ conn[d] \in ConnRecord /\ count \in Nat /\ MaxVersions \in Nat
      BY MaxVersionsAssumption DEF Aimed, IInv, Sane, TypeOK
    <3>3. At(d, "nav_save") => conn[d].head \in 1 .. count /\ conn[d].target \in 1 .. count
      BY <3>2 DEF Known, At, ConnRecord
    <3>4. At(d, "version_save") => conn[d].target \in 1 .. count
      BY <3>2 DEF Known, At, ConnRecord
    <3> QED
      BY <3>1, <3>2, <3>3, <3>4 DEF Aim, At
  <2> QED
    BY <2>1, <2>2
<1> QED
  BY <1>1, <1>2 DEF Next, Aimed

LEMMA AimedInit == Init => Aimed
BY DEF Init, IdleConn, Aimed, Aim, At

\* Where a step leaves the head: only a save moves it.
LEMMA HeadSteps ==
    ASSUME IInv, NEW c \in Conns, Step(c)
    PROVE  \/ head' = head
           \/ head' = conn[c].head /\ Working(c) /\ raced' = (raced \/ c \in behind)
           \/ NavSave(c) \/ SaveVersion(c)
<1>1. CASE OpenSave(c) \/ SetEditing(c) \/ FinalizeSave(c)
  BY <1>1 DEF OpenSave, SetEditing, FinalizeSave, Save, Working, At
<1>2. CASE \/ Draft(c) \/ Open(c) \/ Command(c) \/ NavRead(c) \/ NoChange(c) \/ WriteVersion(c)
           \/ Finalize(c) \/ Drop(c)
  BY <1>2 DEF Draft, Open, Command, NavRead, NoChange, WriteVersion, Finalize, Drop, row
<1> QED
  BY <1>1, <1>2 DEF Step

(* Unless somebody saves a copy of the row that another save has outdated,   *)
(* the head only moves to the base of the version it was at, or to one that  *)
(* derives from it.                                                          *)
THEOREM OneMoveAtATime == Spec => HeadMovesByOne
<1>1. ASSUME IInv, Aimed, NEW c \in Conns, Step(c), head' # head
      PROVE  raced' \/ base'[head'] = head \/ base[head] = head'
  <2>1. Sane(c) /\ Aim(c)
    BY <1>1 DEF IInv, Aimed
  <2>2. CASE head' = conn[c].head /\ Working(c) /\ raced' = (raced \/ c \in behind)
    BY <1>1, <2>1, <2>2 DEF Sane, UpToDate
  <2>3. CASE NavSave(c) \/ SaveVersion(c)
    <3>1. /\ head' = conn[c].target /\ UNCHANGED base /\ Working(c)
          /\ raced' = (raced \/ c \in behind)
          /\ At(c, "nav_save") \/ At(c, "version_save")
      BY <2>3 DEF NavSave, SaveVersion, Save, Working, At
    <3>2. CASE c \in behind
      BY <3>1, <3>2
    <3>3. CASE c \notin behind
      BY <2>1, <3>1, <3>3 DEF Sane, UpToDate, Aim
    <3> QED
      BY <3>2, <3>3
  <2> QED
    BY <1>1, <2>2, <2>3, HeadSteps
<1>2. IInv /\ Aimed /\ [Next]_vars =>
        [head' # head => raced' \/ base'[head'] = head \/ base[head] = head']_vars
  BY <1>1 DEF Next
<1> QED
  BY <1>2, InitOK, StepOK, AimedInit, AimedStep, PTL DEF Spec, HeadMovesByOne

----------------------------------------------------------------------------
(* The single timeline.                                                      *)

\* While no two connections have been at work at once, nobody's copy is
\* outdated, and the version a connection is about to make the head is the base
\* of the head, the latest version that derives from it, or the last one written.
Solo == ~overlapped => behind = {} /\ \A c, d \in Conns : Working(c) /\ Working(d) => c = d
Forward(c) ==
    /\ At(c, "nav_save") => \/ base[conn[c].head] = conn[c].target
                            \/ conn[c].target \in LatestChild(conn[c].head)
    /\ At(c, "version_save") => conn[c].target = count
Forwards == ~overlapped => \A c \in Conns : Forward(c)

LEMMA StepHistory ==
    ASSUME IInv, NEW c \in Conns, Step(c), ~overlapped'
    PROVE  /\ ~overlapped
           /\ Working(c)' => \A d \in Conns \ {c} : ~Working(d)
           /\ \/ behind' \subseteq behind
              \/ Working(c) /\ behind' = {o \in Conns \ {c} : Working(o)}
<1>1. History(c)
  BY DEF Step, Draft, Open, OpenSave, Command, NavRead, NavSave, NoChange, SetEditing,
         WriteVersion, SaveVersion, Finalize, FinalizeSave, Drop
<1>2. CASE OpenSave(c) \/ NavSave(c) \/ SetEditing(c) \/ SaveVersion(c) \/ FinalizeSave(c)
  BY <1>1, <1>2 DEF History, OpenSave, NavSave, SetEditing, SaveVersion, FinalizeSave, Save,
                    Working, At
<1>3. CASE \/ Draft(c) \/ Open(c) \/ Command(c) \/ NavRead(c) \/ NoChange(c) \/ WriteVersion(c)
           \/ Finalize(c) \/ Drop(c)
  BY <1>1, <1>3 DEF History, Draft, Open, Command, NavRead, NoChange, WriteVersion, Finalize,
                    Drop, Fetch
<1> QED
  BY <1>2, <1>3 DEF Step

LEMMA SoloStep == IInv /\ Solo /\ [Next]_vars => Solo'
<1> SUFFICES ASSUME IInv, Solo, [Next]_vars PROVE Solo'
  OBVIOUS
<1>1. CASE UNCHANGED vars
  BY <1>1 DEF vars, Solo, Working
<1>2. ASSUME NEW c \in Conns, Step(c), ~overlapped'
      PROVE  behind' = {} /\ \A a, d \in Conns : Working(a)' /\ Working(d)' => a = d
  <2>1. \A d \in Conns \ {c} : Working(d)' <=> Working(d)
    BY <1>2, StepFrame DEF Working
  <2>2. behind' = {}
    BY <1>2, StepHistory DEF Solo
  <2> QED
    BY <1>2, <2>1, <2>2, StepHistory DEF Solo
<1> QED
  BY <1>1, <1>2 DEF Next, Solo

LEMMA ForwardsStep == IInv /\ Solo /\ Forwards /\ [Next]_vars => Forwards'
<1> SUFFICES ASSUME IInv, Solo, Forwards, [Next]_vars PROVE Forwards'
  OBVIOUS
<1>1. CASE UNCHANGED vars
  BY <1>1 DEF vars, Forwards, Forward, At, LatestChild, Children
<1>2. ASSUME NEW c \in Conns, Step(c), ~overlapped', NEW d \in Conns,
             conn'[d].pc \in {"nav_save", "version_save"}
      PROVE  Forward(d)'
  <2>0. /\ conn \in [Conns -> ConnRecord] /\ conn[c] \in ConnRecord
        /\ ~overlapped /\ Forward(d)
    BY <1>2, StepHistory DEF IInv, TypeOK, Forwards
  <2>1. CASE d # c
    <3>1. conn'[d] = conn[d] /\ Working(d)
      BY <1>2, <2>1, StepFrame DEF Working
    <3>2. ~Working(c) /\ ~Working(c)'
      BY <1>2, <2>0, <2>1, <3>1, StepHistory DEF Solo
    <3>3. UNCHANGED <<count, base>>
      BY <1>2, <3>2, StepFrame DEF WriteVersion, Working, At
    <3> QED
      BY <2>0, <3>1, <3>3 DEF Forward, At, LatestChild, Children
  <2>2. CASE d = c /\ NavRead(c)
    <3>1. PICK target \in PreviousVersion(conn[c].head) \cup NextVersion(conn[c].head) :
             conn' = [conn EXCEPT ![c].pc = "nav_save", ![c].target = target]
      BY <1>2, <2>0, <2>2 DEF NavRead, Goto, ConnRecord
    <3>2. /\ conn'[c].pc = "nav_save" /\ conn'[c].target = target
          /\ conn'[c].head = conn[c].head
      BY <2>0, <3>1 DEF ConnRecord
    <3>3. target \in LatestChild(conn[c].head) \/ base[conn[c].head] = target
      BY <3>1 DEF PreviousVersion, NextVersion
    <3>4. UNCHANGED <<count, base>>
      BY <2>2 DEF NavRead
    <3> QED
      BY <2>2, <3>2, <3>3, <3>4 DEF Forward, At, LatestChild, Children
  <2>3. CASE d = c /\ WriteVersion(c)
    <3>1. conn'[c].pc = "version_save" /\ conn'[c].target = count'
      BY <2>0, <2>3 DEF WriteVersion, ConnRecord
    <3> QED
      BY <2>3, <3>1 DEF Forward, At
  <2>4. CASE /\ d = c
             /\ \/ Draft(c) \/ Open(c) \/ OpenSave(c) \/ Command(c) \/ NavSave(c) \/ NoChange(c)
                \/ SetEditing(c) \/ SaveVersion(c) \/ Finalize(c) \/ FinalizeSave(c) \/ Drop(c)
    <3>1. conn'[c].pc \in {"draft_version", "open_save", "edit", "nav_read", "change", "version",
                           "final_save", "idle"}
      BY <2>0, <2>4 DEF Draft, Open, OpenSave, Command, NavSave, NoChange, SetEditing,
                SaveVersion, Finalize, FinalizeSave, Drop, Fetch, Goto, EndTurn, IdleConn,
                ConnRecord
    <3> QED
      BY <1>2, <2>4, <3>1
  <2> QED
    BY <1>2, <2>1, <2>2, <2>3, <2>4 DEF Step
<1>3. ASSUME NEW c \in Conns, Step(c), ~overlapped', NEW d \in Conns
      PROVE  Forward(d)'
  BY <1>2, <1>3 DEF Forward, At
<1> QED
  BY <1>1, <1>3 DEF Next, Forwards

----------------------------------------------------------------------------
(* The versions an undo can reach from a version.                            *)

LEMMA AncestorsBelow ==
    ASSUME IInv, NEW v \in 0 .. count
    PROVE  Ancestors(v) \subseteq 1 .. v
<1>0. count \in Nat
  BY MaxVersionsAssumption DEF IInv, TypeOK
<1>1. 1 .. v \in SUBSET (1 .. count) /\ v \in (1 .. v) \cup {0}
  BY <1>0
<1>2. HasBases(1 .. v)
  <2> SUFFICES ASSUME NEW w \in 1 .. v PROVE base[w] \in (1 .. v) \cup {0}
    BY DEF HasBases
  <2>1. w \in Versions /\ w \in 1 .. count /\ base[w] < w
    BY <1>0, MaxVersionsAssumption DEF IInv, TypeOK, Lineage, Versions
  <2>2. base[w] \in 0 .. MaxVersions
    BY <2>1 DEF IInv, TypeOK
  <2> QED
    BY <2>1, <2>2, MaxVersionsAssumption
<1> QED
  BY <1>1, <1>2 DEF Ancestors

LEMMA AncestorsOfBase ==
    ASSUME NEW v \in 1 .. count
    PROVE  Ancestors(base[v]) \subseteq Ancestors(v)
<1> SUFFICES ASSUME NEW w \in Ancestors(base[v]),
                    NEW S \in SUBSET (1 .. count), v \in S \cup {0}, HasBases(S)
             PROVE  w \in S
  BY DEF Ancestors
<1>1. v \in S
  OBVIOUS
<1>2. base[v] \in S \cup {0}
  BY <1>1 DEF HasBases
<1> QED
  BY <1>2 DEF Ancestors

LEMMA AncestorsOfNext ==
    ASSUME NEW w \in 1 .. count
    PROVE  Ancestors(w) \subseteq {w} \cup Ancestors(base[w])
<1> SUFFICES ASSUME NEW x \in Ancestors(w), x # w,
                    NEW S \in SUBSET (1 .. count), base[w] \in S \cup {0}, HasBases(S)
             PROVE  x \in S
  BY DEF Ancestors
<1>1. S \cup {w} \in SUBSET (1 .. count) /\ HasBases(S \cup {w})
  BY DEF HasBases
<1>2. x \in S \cup {w}
  BY <1>1 DEF Ancestors
<1> QED
  BY <1>2

\* A new version changes nobody's ancestors.
LEMMA AncestorsKept ==
    ASSUME IInv, count' = count + 1, \A v \in 1 .. count : base'[v] = base[v],
           NEW v \in 0 .. count
    PROVE  Ancestors(v)' \subseteq Ancestors(v)
<1>0. count \in Nat
  BY MaxVersionsAssumption DEF IInv, TypeOK
<1>1. ASSUME NEW S \in SUBSET (1 .. count), HasBases(S)
      PROVE  S \in SUBSET (1 .. count') /\ HasBases(S)'
  BY <1>0, <1>1 DEF HasBases
<1> SUFFICES ASSUME NEW w \in Ancestors(v)'
             PROVE  w \in Ancestors(v)
  OBVIOUS
<1>2. \A S \in SUBSET (1 .. count) : v \in S \cup {0} /\ HasBases(S) => w \in S
  BY <1>1 DEF Ancestors
<1>3. HasBases(1 .. count) /\ v \in (1 .. count) \cup {0}
  <2>1. ASSUME NEW x \in 1 .. count PROVE base[x] \in (1 .. count) \cup {0}
    <3>1. base[x] < x /\ x \in Versions
      BY <1>0, MaxVersionsAssumption DEF IInv, TypeOK, Lineage, Versions
    <3>2. base[x] \in 0 .. MaxVersions
      BY <3>1 DEF IInv, TypeOK
    <3> QED
      BY <1>0, <3>1, <3>2, MaxVersionsAssumption
  <2> QED
    BY <1>0, <2>1 DEF HasBases
<1>4. w \in 1 .. count
  BY <1>2, <1>3
<1> QED
  BY <1>2, <1>4 DEF Ancestors

----------------------------------------------------------------------------
Latest(v) == base[v] # 0 => v \in LatestChild(base[v])
OneLine   == ~overlapped => \A v \in Ancestors(head) : Latest(v)

\* A working connection that nobody has overlapped has read the row as it is.
LEMMA SoloCopy ==
    ASSUME IInv, Solo, ~overlapped, NEW c \in Conns, Working(c)
    PROVE  conn[c].head = head
BY DEF IInv, Sane, UpToDate, Solo

LEMMA OneLineStep == IInv /\ Aimed /\ Solo /\ Forwards /\ OneLine /\ [Next]_vars => OneLine'
<1> SUFFICES ASSUME IInv, Aimed, Solo, Forwards, OneLine, [Next]_vars PROVE OneLine'
  OBVIOUS
<1>0. /\ count \in Nat /\ head \in 0 .. count /\ MaxVersions \in Nat
      /\ base \in [Versions -> 0 .. MaxVersions] /\ count <= MaxVersions
  BY MaxVersionsAssumption DEF IInv, TypeOK
<1>1. CASE UNCHANGED vars
  BY <1>1 DEF vars, row, OneLine, Latest, Ancestors, HasBases, LatestChild, Children
<1>2. ASSUME NEW c \in Conns, Step(c), ~overlapped'
      PROVE  \A v \in Ancestors(head)' : Latest(v)'
  <2>0. ~overlapped /\ \A v \in Ancestors(head) : Latest(v)
    BY <1>2, StepHistory DEF OneLine
  <2>1. CASE WriteVersion(c)
    <3>1. /\ count' = count + 1 /\ head' = head
          /\ conn[c].head = head /\ base' = [base EXCEPT ![count + 1] = conn[c].head]
      BY <2>0, <2>1, SoloCopy DEF WriteVersion, Working, At, row
    <3>2. \A v \in 1 .. count : base'[v] = base[v]
      BY <1>2, StepFrame
    <3>3. base'[count + 1] = head
      BY <1>0, <2>1, <3>1 DEF WriteVersion, Versions
    <3> SUFFICES ASSUME NEW v \in Ancestors(head)', base'[v] # 0
                 PROVE  v \in LatestChild(base[v])'
      BY DEF Latest
    <3>4. v \in Ancestors(head)
      <4>1. PICK h \in 0 .. count : h = head
        BY <1>0
      <4>2. v \in Ancestors(h)'
        BY <3>1, <4>1 DEF Ancestors
      <4> QED
        BY <3>1, <3>2, <4>1, <4>2, AncestorsKept
    <3>5. v \in 1 .. count /\ v \in 1 .. head
      BY <1>0, <3>4, AncestorsBelow
    <3>6. base'[v] = base[v] /\ base[v] < head
      BY <1>0, <3>2, <3>5 DEF IInv, Lineage, Versions
    <3>7. v \in LatestChild(base[v])
      BY <2>0, <3>4, <3>6 DEF Latest
    <3>8. Children(base[v])' = Children(base[v])
      BY <1>0, <3>1, <3>2, <3>3, <3>6 DEF Children
    <3> QED
      BY <3>7, <3>8 DEF LatestChild
  <2>2. CASE UNCHANGED <<count, base>>
    <3>0. \A v : Latest(v)' = Latest(v)
      BY <2>2 DEF Latest, LatestChild, Children
    <3>1. CASE head' = head \/ (head' = conn[c].head /\ Working(c))
      <4>1. head' = head
        BY <2>0, <3>1, SoloCopy
      <4>2. Ancestors(head)' = Ancestors(head)
        BY <2>2, <4>1 DEF Ancestors, HasBases
      <4> QED
        BY <2>0, <3>0, <4>2
    <3>2. CASE NavSave(c) \/ SaveVersion(c)
      <4> DEFINE t == conn[c].target
      <4>1. /\ head' = t /\ Working(c) /\ Known(c) /\ Aim(c) /\ Forward(c)
            /\ At(c, "nav_save") \/ At(c, "version_save")
        BY <2>0, <3>2 DEF NavSave, SaveVersion, Save, Working, At, IInv, Sane, Aimed, Forwards
      <4>2. conn[c].head = head
        BY <2>0, <4>1, SoloCopy
      <4>3. t \in 1 .. count
        <5>1. t \in 0 .. MaxVersions
          BY DEF IInv, TypeOK, ConnRecord
        <5> QED
          BY <1>0, <4>1, <5>1 DEF Known, At
      <4>4. Ancestors(head)' = Ancestors(t)
        BY <2>2, <4>1 DEF Ancestors, HasBases
      <4> HIDE DEF t
      <4>5. CASE base[head] = t /\ head # 0
        <5>1. Ancestors(t) \subseteq Ancestors(head)
          BY <1>0, <4>5, AncestorsOfBase
        <5> QED
          BY <2>0, <3>0, <4>4, <5>1
      <4>6. CASE base[t] = head /\ Latest(t)
        <5>1. Ancestors(t) \subseteq {t} \cup Ancestors(head)
          BY <4>3, <4>6, AncestorsOfNext
        <5> QED
          BY <2>0, <3>0, <4>4, <4>6, <5>1
      <4>7. CASE At(c, "nav_save")
        <5>1. head # 0
          BY <4>1, <4>2, <4>7 DEF Known, At
        <5>2. t \in LatestChild(head) => base[t] = head
          BY DEF LatestChild, Children
        <5> QED
          BY <4>1, <4>2, <4>5, <4>6, <4>7, <5>1, <5>2 DEF Forward, Latest, t
      <4>8. CASE At(c, "version_save")
        <5>1. base[t] = head /\ t = count
          BY <4>1, <4>2, <4>8 DEF Aim, Forward, t
        <5>2. Latest(t)
          BY <1>0, <4>3, <5>1 DEF Latest, LatestChild, Children
        <5> QED
          BY <4>6, <5>1, <5>2
      <4> QED
        BY <4>1, <4>7, <4>8
    <3> QED
      BY <1>2, <3>1, <3>2, HeadSteps
  <2> QED
    BY <1>2, <2>1, <2>2, StepFrame
<1> QED
  BY <1>1, <1>2 DEF Next, OneLine

(* As long as no two commands have overlapped, every version between the     *)
(* draft and the head is the latest that derives from its base: redo         *)
(* retraces undo and an abandoned branch stays out of reach, even after an   *)
(* edit that died between its two writes.                                    *)
THEOREM SingleTimeline == Spec => []Timeline
<1>1. Init => Solo /\ Forwards /\ OneLine
  <2> SUFFICES ASSUME Init PROVE Solo /\ Forwards /\ OneLine
    OBVIOUS
  <2>1. \A c \in Conns : conn[c].pc = "idle"
    BY DEF Init, IdleConn
  <2>2. Ancestors(head) = {}
    BY DEF Init, Ancestors
  <2> QED
    BY <2>1, <2>2 DEF Init, Solo, Forwards, Forward, OneLine, Working, At
<1>2. OneLine => Timeline
  BY DEF OneLine, Latest, Timeline
<1> QED
  BY <1>1, <1>2, InitOK, StepOK, AimedInit, AimedStep, SoloStep, ForwardsStep, OneLineStep, PTL
     DEF Spec
=============================================================================
