------------------------------- MODULE Canvas -------------------------------
(***************************************************************************)
(* One canvas of the document graph and the connections that edit it: each *)
(* browser tab is a thread of its own, and each of its commands reads the  *)
(* canvas row, works on what it read (an LLM call may lie in between) and  *)
(* saves every column of it.  Versions are immutable and numbered in the   *)
(* order of created_at; 0 is "no version".  Every await is a step boundary.*)
(***************************************************************************)
EXTENDS Naturals, FiniteSets

CONSTANTS
    Conns,       \* connections (doc graph threads) of the canvas's owner
    MaxVersions  \* bound: versions ever written

ASSUME MaxVersionsAssumption == MaxVersions \in Nat

Versions == 1 .. MaxVersions
Statuses == {"DRAFTING", "EDITING", "FINALIZED"}

VARIABLES
    status, head,  \* the columns of the canvas row that edits change
    count,         \* versions written so far
    base,          \* base_version_id of each version
    conn,          \* per connection: where it is, its copy of the row, its target
    behind,        \* history: connections whose copy another save has outdated
    raced,         \* history: some connection has saved an outdated copy
    overlapped     \* history: two connections have been at work at once

row  == <<status, head>>
vars == <<row, count, base, conn, behind, raced, overlapped>>

Pcs == {"idle", "draft_version", "open_save", "edit", "nav_read", "nav_save",
        "change", "version", "version_save", "final_save"}

ConnRecord == [pc : Pcs, status : Statuses \cup {"ABSENT"}, head : 0 .. MaxVersions,
               target : 0 .. MaxVersions]
IdleConn   == [pc |-> "idle", status |-> "ABSENT", head |-> 0, target |-> 0]

Init ==
    /\ status = "ABSENT" /\ head = 0
    /\ count = 0 /\ base = [v \in Versions |-> 0]
    /\ conn = [c \in Conns |-> IdleConn]
    /\ behind = {} /\ raced = FALSE /\ overlapped = FALSE

At(c, pc)    == conn[c].pc = pc
Goto(c, pc)  == conn' = [conn EXCEPT ![c].pc = pc]
EndTurn(c)   == conn' = [conn EXCEPT ![c] = IdleConn]

\* The row as it is now becomes the connection's copy.
Fetch(c, pc) ==
    /\ conn' = [conn EXCEPT ![c] = [pc |-> pc, status |-> status, head |-> head,
                                    target |-> 0]]
    /\ behind' = behind \ {c}

\* Canvas.save(): status and head are written together, whatever they are by
\* now; everybody else at work has an outdated copy from here on.
Working(c) == conn[c].pc \notin {"idle", "edit"}
Save(c, st, h) ==
    /\ status' = st /\ head' = h
    /\ raced' = (raced \/ c \in behind)
    /\ behind' = {o \in Conns \ {c} : Working(o)}

History(c) == overlapped' = (overlapped \/ \E d \in Conns \ {c} : Working(c)' /\ Working(d))

----------------------------------------------------------------------------
(* The draft node and load_canvas.                                         *)

\* create_canvas: a row without a version, known to this connection only.
Draft(c) ==
    /\ At(c, "idle") /\ status = "ABSENT"
    /\ status' = "DRAFTING"
    /\ conn' = [conn EXCEPT ![c].pc = "draft_version", ![c].status = "DRAFTING"]
    /\ UNCHANGED <<head, count, base, behind, raced>>
    /\ History(c)

\* Mutant of Open: a finalized canvas is opened like any other.
OpenAny(c) ==
    /\ At(c, "idle") /\ head # 0
    /\ Fetch(c, "open_save")
    /\ UNCHANGED <<row, count, base, raced>>
    /\ History(c)

\* A canvas_id in the message: load_head.  A finalized canvas is only shown.
Open(c) ==
    /\ At(c, "idle") /\ head # 0
    /\ status # "FINALIZED"
    /\ Fetch(c, "open_save")
    /\ UNCHANGED <<row, count, base, raced>>
    /\ History(c)

\* set_status(canvas, EDITING).
OpenSave(c) ==
    /\ At(c, "open_save")
    /\ Save(c, "EDITING", conn[c].head)
    /\ Goto(c, "edit")
    /\ UNCHANGED <<count, base>>
    /\ History(c)

----------------------------------------------------------------------------
(* await_edit has the client's command: the apply_edit node.               *)

\* load_head; a finalized canvas refuses the command, any other is navigated
\* or changed.  (A command that changes nothing goes back to "edit".)
Command(c) ==
    /\ At(c, "edit") /\ status # "FINALIZED"
    /\ \E pc \in {"nav_read", "change"} : Fetch(c, pc)
    /\ UNCHANGED <<row, count, base, raced>>
    /\ History(c)

\* The targets of undo and redo: a set of one version, or of none.
Children(v)     == {w \in 1 .. count : base[w] = v}
LatestChild(v)  == {w \in Children(v) : \A x \in Children(v) : x <= w}
PreviousVersion(v) == {base[v]} \ {0}
\* Mutant of NextVersion: order_by("created_at"), the oldest child.
OldestChild(v)  == {w \in Children(v) : \A x \in Children(v) : w <= x}
\* Mutant of NextVersion: the last version written, whatever it derives from.
LastVersion(v)  == {count} \ {v}
NextVersion(v)  == LatestChild(v)

\* _navigate: undo looks up the base, redo the latest child; at either end of
\* the history nothing happens.
NavRead(c) ==
    /\ At(c, "nav_read")
    /\ \E targets \in {PreviousVersion(conn[c].head), NextVersion(conn[c].head)} :
          \/ targets = {} /\ Goto(c, "edit")
          \/ \E target \in targets :
                conn' = [conn EXCEPT ![c].pc = "nav_save", ![c].target = target]
    /\ UNCHANGED <<row, count, base, behind, raced>>
    /\ History(c)

\* set_head.
NavSave(c) ==
    /\ At(c, "nav_save")
    /\ Save(c, conn[c].status, conn[c].target)
    /\ Goto(c, "edit")
    /\ UNCHANGED <<count, base>>
    /\ History(c)

\* The operations are applied to a copy of the payload, with the LLM's help or
\* not; if nothing changed the command ends here.
NoChange(c) ==
    /\ At(c, "change")
    /\ Goto(c, "edit")
    /\ UNCHANGED <<row, count, base, behind, raced>>
    /\ History(c)

\* set_status, unless the copy says EDITING already.
SetEditing(c) ==
    /\ At(c, "change") /\ conn[c].status # "EDITING"
    /\ Save(c, "EDITING", conn[c].head)
    /\ conn' = [conn EXCEPT ![c].pc = "version", ![c].status = "EDITING"]
    /\ UNCHANGED <<count, base>>
    /\ History(c)

\* Mutant of WriteVersion: the base is that of the version read.
WriteSibling(c) ==
    /\ \/ At(c, "draft_version") \/ At(c, "version")
       \/ At(c, "change") /\ conn[c].status = "EDITING"
    /\ count < MaxVersions
    /\ count' = count + 1
    /\ base' = [base EXCEPT ![count + 1] =
                   IF conn[c].head = 0 THEN 0 ELSE base[conn[c].head]]
    /\ conn' = [conn EXCEPT ![c].pc = "version_save", ![c].target = count + 1]
    /\ UNCHANGED <<row, behind, raced>>
    /\ History(c)

\* CanvasVersion.create: a snapshot derived from the version that was read.
WriteVersion(c) ==
    /\ \/ At(c, "draft_version") \/ At(c, "version")
       \/ At(c, "change") /\ conn[c].status = "EDITING"
    /\ count < MaxVersions
    /\ count' = count + 1
    /\ base' = [base EXCEPT ![count + 1] = conn[c].head]
    /\ conn' = [conn EXCEPT ![c].pc = "version_save", ![c].target = count + 1]
    /\ UNCHANGED <<row, behind, raced>>
    /\ History(c)

\* ... and the head pointer moves to it.
SaveVersion(c) ==
    /\ At(c, "version_save")
    /\ Save(c, conn[c].status, conn[c].target)
    /\ Goto(c, "edit")
    /\ UNCHANGED <<count, base>>
    /\ History(c)

----------------------------------------------------------------------------
(* The finalize node, and the end of a connection.                         *)

\* get_canvas: the status is not looked at.
Finalize(c) ==
    /\ At(c, "edit")
    /\ Fetch(c, "final_save")
    /\ UNCHANGED <<row, count, base, raced>>
    /\ History(c)

FinalizeSave(c) ==
    /\ At(c, "final_save")
    /\ Save(c, "FINALIZED", conn[c].head)
    /\ EndTurn(c)
    /\ UNCHANGED <<count, base>>
    /\ History(c)

\* The tab is closed or the server dies, between any two steps.
Drop(c) ==
    /\ ~At(c, "idle")
    /\ EndTurn(c)
    /\ behind' = behind \ {c}
    /\ UNCHANGED <<row, count, base, raced>>
    /\ History(c)

----------------------------------------------------------------------------
Step(c) == \/ Draft(c) \/ Open(c) \/ OpenSave(c) \/ Command(c)
           \/ NavRead(c) \/ NavSave(c)
           \/ NoChange(c) \/ SetEditing(c) \/ WriteVersion(c) \/ SaveVersion(c)
           \/ Finalize(c) \/ FinalizeSave(c) \/ Drop(c)

Next == \E c \in Conns : Step(c)

Spec == Init /\ [][Next]_vars

----------------------------------------------------------------------------
(* Every variable has the shape the nodes rely on; a canvas the user has    *)
(* seen points at a version that exists.                                    *)
TypeOK ==
    /\ status \in Statuses \cup {"ABSENT"}
    /\ count \in 0 .. MaxVersions
    /\ head \in 0 .. count
    /\ status \in {"EDITING", "FINALIZED"} => head # 0
    /\ base \in [Versions -> 0 .. MaxVersions]
    /\ conn \in [Conns -> ConnRecord]
    /\ behind \subseteq Conns
    /\ raced \in BOOLEAN /\ overlapped \in BOOLEAN

(* Undo can always get back to the first draft: the bases of the versions   *)
(* form one tree whose root is the draft, however connections interleave,   *)
(* overwrite each other's head or die between the two writes of an edit.    *)
Lineage == \A v \in 1 .. count : base[v] < v /\ (base[v] = 0 <=> v = 1)

(* "Classic single-timeline editor semantics": every version on the way     *)
(* from the draft to the head is the latest child of its base, so that redo *)
(* retraces what undo has left and "the abandoned forward branch stays      *)
(* unreachable".  It takes that no two commands have overlapped; an edit    *)
(* that died half-way and left a version without its head does not break it.*)
HasBases(S)  == \A v \in S : base[v] \in S \cup {0}
Ancestors(v) == {w \in 1 .. count : \A S \in SUBSET (1 .. count) :
                                       v \in S \cup {0} /\ HasBases(S) => w \in S}
Timeline == ~overlapped => \A v \in Ancestors(head) : base[v] # 0 => v \in LatestChild(base[v])

(* The head moves one edit, one undo or one redo at a time, never over a    *)
(* version somebody else has made the head meanwhile, unless the save was   *)
(* an outdated one.                                                         *)
HeadMovesByOne ==
    [][head' # head => raced' \/ base'[head'] = head \/ base[head] = head']_vars

(* A finalized canvas stays as it was finalized unless a connection saves a *)
(* copy of the row it has read before: no open, undo or edit that begins    *)
(* afterwards changes it.                                                   *)
LockHolds ==
    [][status = "FINALIZED" => raced' \/ (status' = "FINALIZED" /\ head' = head)]_vars
=============================================================================
