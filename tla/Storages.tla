------------------------------ MODULE Storages ------------------------------
(***************************************************************************)
(* One source storage, the teams linked to it, and the documents each of   *)
(* them has of the one file in it.  Synchronisation passes, administrators *)
(* who connect, disconnect and delete, and the ingest worker (here: claim, *)
(* check, upsert, commit, fail; the Ingest module has it in full) run side *)
(* by side.                                                                *)
(* Every await is a step boundary.  A row that a foreign key removes goes  *)
(* without its chunks.                                                     *)
(***************************************************************************)
EXTENDS Naturals, FiniteSets

CONSTANTS
    Teams,        \* teams that exist at the start
    Owner,        \* the team that owns the storage
    Syncers,      \* passes that may run at once: the scan loop, requests
    Admins,       \* requests that may run at once
    MaxVersions,  \* bound: versions of the file
    MaxDocs,      \* bound: documents that exist or leave something behind
    MaxRequests   \* bound: requests of administrators

ASSUME OwnerAssumption  == Owner \in Teams
ASSUME BoundsAssumption == /\ MaxVersions \in Nat \ {0} /\ MaxDocs \in Nat
                           /\ MaxRequests \in Nat

Ids      == 1 .. MaxDocs
Versions == 1 .. MaxVersions

VARIABLES
    file,      \* version of the file in the storage's folder, 0 for none
    version,   \* versions written so far
    teams,     \* teams that exist
    storage,   \* the storage row exists
    links,     \* teams linked to the storage
    docs,      \* documents: row, job, run and chunks of each id
    sync,      \* per pass: where it is, its team, the fingerprint, the document
    admin,     \* per request: where it is, its team, the documents still to go
    requests,  \* requests of administrators so far
    interfered, \* history: a document or a link appeared during a removal
    twins,     \* history: teams one of whose passes wrote a version while another
               \* was about to create the row of a different one
    excused,   \* history: documents whose run ended, with its chunks written, after
               \* their removal had taken the chunks, or that went by a foreign key
    cascaded,  \* history: a foreign key removed a document row
    trouble    \* history: a job was lost, a run failed, or a source vanished

space  == <<file, version>>
rows   == <<teams, storage, links>>
past   == <<interfered, twins, excused, cascaded, trouble>>
vars   == <<space, rows, docs, sync, admin, requests, past>>

InFlight == {"UPLOADING", "PROCESSING", "DELETING"}
Statuses == InFlight \cup {"ACTIVE", "ERROR"}

DocRecord == [team : Teams, st : Statuses \cup {"GONE"}, fp : 0 .. MaxVersions,
              job : BOOLEAN, run : {"none", "loading", "checked", "embedded"},
              seen : 0 .. MaxVersions, chunks : 0 .. MaxVersions]
Blank == [team |-> Owner, st |-> "GONE", fp |-> 0, job |-> FALSE, run |-> "none",
          seen |-> 0, chunks |-> 0]

SyncPcs   == {"idle", "list", "find", "create", "save", "enqueue", "managed", "drop",
              "drop_row"}
AdminPcs  == {"idle", "connect", "disconnect", "delete_storage", "delete_team",
              "finalize", "finalize_row", "unlink", "drop_storage", "team_docs",
              "team_mark", "team_clean", "team_doc_row", "team_chunks", "team_storage",
              "drop_team"}

AdminOps  == {"none", "connect", "disconnect", "delete_storage", "delete_team"}

SyncRecord  == [pc : SyncPcs, team : Teams, fp : 0 .. MaxVersions, doc : {0} \cup Ids,
                todo : SUBSET Ids]
AdminRecord == [pc : AdminPcs, op : AdminOps, team : Teams, todo : SUBSET Ids,
                doc : {0} \cup Ids]
IdleSync  == [pc |-> "idle", team |-> Owner, fp |-> 0, doc |-> 0, todo |-> {}]
IdleAdmin == [pc |-> "idle", op |-> "none", team |-> Owner, todo |-> {}, doc |-> 0]

Init ==
    /\ file \in {0, 1} /\ version = file
    /\ teams = Teams /\ storage = TRUE /\ links = Teams
    /\ docs = [d \in Ids |-> Blank]
    /\ sync = [s \in Syncers |-> IdleSync]
    /\ admin = [a \in Admins |-> IdleAdmin]
    /\ requests = 0
    /\ interfered = FALSE /\ twins = {} /\ excused = {}
    /\ cascaded = FALSE /\ trouble = FALSE

Live(d)    == docs[d].st # "GONE"
RowsOf(t)  == {d \in Ids : Live(d) /\ docs[d].team = t}
\* An id stands for a new one when nothing is left of the document it stood for.
Held(d)    == \/ \E s \in Syncers : d = sync[s].doc \/ d \in sync[s].todo
              \/ \E a \in Admins : d = admin[a].doc \/ d \in admin[a].todo
Free       == {d \in Ids : docs[d] = [Blank EXCEPT !.team = docs[d].team] /\ ~Held(d)}
NewId      == CHOOSE d \in Free : \A e \in Free : d <= e
Chunkless(d) == [docs EXCEPT ![d].chunks = 0]
\* A removal under way: its requests have begun and not ended.
Removing   == \E a \in Admins : admin[a].pc \notin {"idle", "connect"}
\* Somebody has removed the chunks of d and is about to remove its row.
Doomed(d)  == \/ \E s \in Syncers : sync[s].pc = "drop_row" /\ sync[s].doc = d
              \/ \E a \in Admins : /\ admin[a].pc \in {"finalize_row", "team_doc_row"}
                                    /\ admin[a].doc = d
Gone(r)    == [r EXCEPT !.st = "GONE", !.fp = 0]
Rowless(D) == [d \in Ids |-> IF d \in D THEN Gone(docs[d]) ELSE docs[d]]

----------------------------------------------------------------------------
(* The folder: the owner team's files come and go.                         *)

FileChanges ==
    /\ storage /\ version < MaxVersions
    /\ version' = version + 1 /\ file' = version + 1
    /\ UNCHANGED <<rows, docs, sync, admin, requests, past>>

FileRemoved ==
    /\ file # 0
    /\ file' = 0
    /\ UNCHANGED <<version, rows, docs, sync, admin, requests, past>>

----------------------------------------------------------------------------
(* sync_team_storage.                                                      *)

SyncGoto(s, pc) ==
    sync' = [sync EXCEPT ![s] = IF pc = "idle" THEN IdleSync
                                ELSE [sync[s] EXCEPT !.pc = pc]]
SyncOnly == UNCHANGED <<space, rows, admin, requests>>

\* The link is there when the pass begins.
SyncStart(s, t) ==
    /\ sync[s].pc = "idle" /\ t \in links
    /\ sync' = [sync EXCEPT ![s].pc = "list", ![s].team = t]
    /\ SyncOnly /\ UNCHANGED <<docs, past>>

\* The folder is listed once.  A file that is listed is stat'ed, unless it is
\* gone by then or too young, and it counts as present until the pass ends.
SyncList(s) ==
    /\ sync[s].pc = "list"
    /\ \/ /\ file = 0
          /\ sync' = [sync EXCEPT ![s].pc = "managed", ![s].fp = 0]
       \/ /\ file # 0
          /\ sync' = [sync EXCEPT ![s].pc = "find", ![s].fp = file]
    /\ SyncOnly /\ UNCHANGED <<docs, past>>

\* A file that changed a moment ago is left to a later pass.
SyncUnstable(s) ==
    /\ sync[s].pc = "list" /\ file # 0
    /\ SyncGoto(s, "idle")
    /\ SyncOnly /\ UNCHANGED <<docs, past>>

\* Mutant of SyncFind: only searchable rows are looked for.
SyncFindActive(s) ==
    /\ sync[s].pc = "find"
    /\ \/ /\ \A d \in RowsOf(sync[s].team) : docs[d].st # "ACTIVE"
          /\ SyncGoto(s, "create")
       \/ \E d \in RowsOf(sync[s].team) :
            /\ docs[d].st = "ACTIVE" /\ docs[d].fp # sync[s].fp
            /\ sync' = [sync EXCEPT ![s].pc = "save", ![s].doc = d]
       \/ /\ \E d \in RowsOf(sync[s].team) :
                docs[d].st = "ACTIVE" /\ docs[d].fp = sync[s].fp
          /\ SyncGoto(s, "idle")
    /\ SyncOnly /\ UNCHANGED <<docs, past>>

\* get_or_none: two rows of one path are an error the pass only records; a row
\* with this fingerprint is done, a row in flight is left to a later pass.
SyncFind(s) ==
    /\ sync[s].pc = "find"
    /\ LET R == RowsOf(sync[s].team)
       IN  \/ R = {} /\ SyncGoto(s, "create")
           \/ \E d \in R :
                /\ R = {d} /\ docs[d].fp # sync[s].fp /\ docs[d].st \notin InFlight
                /\ sync' = [sync EXCEPT ![s].pc = "save", ![s].doc = d]
           \/ /\ \/ Cardinality(R) > 1
                 \/ \E d \in R : docs[d].fp = sync[s].fp \/ docs[d].st \in InFlight
              /\ SyncGoto(s, "idle")
    /\ SyncOnly /\ UNCHANGED <<docs, past>>

\* The fingerprint is unique; the group needs its team, the row its storage.
Taken(s)   == \E d \in RowsOf(sync[s].team) \ {sync[s].doc} : docs[d].fp = sync[s].fp
Refused(s) == \/ sync[s].team \notin teams \/ ~storage \/ Taken(s)

\* The pass writes its version while another pass of the team, which has found no row,
\* is about to create the row of a different one.
Twin(s)    == IF \E o \in Syncers \ {s} : /\ sync[o].pc = "create" /\ sync[o].fp # sync[s].fp
                                          /\ sync[o].team = sync[s].team
              THEN {sync[s].team} ELSE {}

SyncCreate(s) ==
    /\ sync[s].pc = "create" /\ ~Refused(s) /\ Free # {}
    /\ docs' = [docs EXCEPT ![NewId] = [Blank EXCEPT !.team = sync[s].team,
                                          !.st = "UPLOADING", !.fp = sync[s].fp]]
    /\ sync' = [sync EXCEPT ![s].pc = "enqueue", ![s].doc = NewId]
    /\ interfered' = (interfered \/ Removing \/ sync[s].team \notin links)
    /\ excused' = excused \ {NewId} /\ twins' = twins \cup Twin(s)
    /\ SyncOnly /\ UNCHANGED <<cascaded, trouble>>

\* Mutant of SyncSave: the status is left as it was.
SyncSaveKeepsStatus(s) ==
    /\ sync[s].pc = "save" /\ ~Taken(s)
    /\ docs' = [docs EXCEPT ![sync[s].doc].fp = IF Live(sync[s].doc) THEN sync[s].fp ELSE @]
    /\ twins' = twins \cup (IF Live(sync[s].doc) THEN Twin(s) ELSE {})
    /\ SyncGoto(s, "enqueue")
    /\ SyncOnly /\ UNCHANGED <<interfered, excused, cascaded, trouble>>

\* The row that was found is saved whole; one that is gone by now is not.
SyncSave(s) ==
    /\ sync[s].pc = "save" /\ ~Taken(s)
    /\ docs' = IF Live(sync[s].doc)
               THEN [docs EXCEPT ![sync[s].doc].st = "UPLOADING",
                                 ![sync[s].doc].fp = sync[s].fp]
               ELSE docs
    /\ twins' = twins \cup (IF Live(sync[s].doc) THEN Twin(s) ELSE {})
    /\ SyncGoto(s, "enqueue")
    /\ SyncOnly /\ UNCHANGED <<interfered, excused, cascaded, trouble>>

SyncRefused(s) ==
    /\ \/ sync[s].pc = "create" /\ Refused(s)
       \/ sync[s].pc = "save" /\ Taken(s)
    /\ SyncGoto(s, "idle")
    /\ SyncOnly /\ UNCHANGED <<docs, past>>

\* The job is queued, or Redis refuses it: the row keeps its new fingerprint.
SyncEnqueue(s) ==
    /\ sync[s].pc = "enqueue"
    /\ \/ docs' = [docs EXCEPT ![sync[s].doc].job = TRUE] /\ UNCHANGED trouble
       \/ trouble' = TRUE /\ UNCHANGED docs
    /\ SyncGoto(s, "idle")
    /\ SyncOnly /\ UNCHANGED <<interfered, twins, excused, cascaded>>

\* Documents whose file was not listed go, except those in flight.
SyncManaged(s) ==
    /\ sync[s].pc = "managed"
    /\ sync' = [sync EXCEPT ![s].pc = "drop",
                  ![s].todo = {d \in RowsOf(sync[s].team) : docs[d].st \notin InFlight}]
    /\ SyncOnly /\ UNCHANGED <<docs, past>>

\* finalize_document_deletion: the chunks, then the row, whatever it is by now.
SyncDrop(s) ==
    /\ sync[s].pc = "drop"
    /\ \/ \E d \in sync[s].todo :
            /\ docs' = Chunkless(d)
            /\ sync' = [sync EXCEPT ![s].pc = "drop_row", ![s].doc = d,
                                    ![s].todo = sync[s].todo \ {d}]
       \/ sync[s].todo = {} /\ SyncGoto(s, "idle") /\ UNCHANGED docs
    /\ SyncOnly /\ UNCHANGED past

SyncDropRow(s) ==
    /\ sync[s].pc = "drop_row"
    /\ docs' = Rowless({sync[s].doc})
    /\ SyncGoto(s, "drop")
    /\ SyncOnly /\ UNCHANGED past

SyncStep(s) ==
    \/ \E t \in Teams : SyncStart(s, t)
    \/ SyncList(s) \/ SyncUnstable(s) \/ SyncFind(s) \/ SyncCreate(s) \/ SyncSave(s)
    \/ SyncRefused(s) \/ SyncEnqueue(s) \/ SyncManaged(s) \/ SyncDrop(s) \/ SyncDropRow(s)

----------------------------------------------------------------------------
(* The worker's run of a document.                                         *)

WorkerOnly == UNCHANGED <<space, rows, sync, admin, requests, interfered, twins, cascaded>>

\* The source is stat'ed and the row claimed; a job of a row that is gone, or
\* not claimable, ends here.  A source that is gone raises before the claim.
Claim(d) ==
    /\ docs[d].job /\ docs[d].run = "none"
    /\ \/ /\ docs[d].st \in {"UPLOADING", "PROCESSING", "ERROR"} /\ file # 0
          /\ docs' = [docs EXCEPT ![d].job = FALSE, ![d].run = "loading",
                                  ![d].seen = file, ![d].st = "PROCESSING"]
          /\ UNCHANGED trouble
       \/ /\ docs[d].st \in {"UPLOADING", "PROCESSING", "ERROR"} /\ file = 0
          /\ docs' = [docs EXCEPT ![d].job = FALSE]
          /\ trouble' = TRUE
       \/ /\ docs[d].st = "DELETING"
          /\ docs' = [Rowless({d}) EXCEPT ![d].job = FALSE, ![d].chunks = 0]
          /\ UNCHANGED trouble
       \/ /\ docs[d].st \in {"ACTIVE", "GONE"}
          /\ docs' = [docs EXCEPT ![d].job = FALSE]
          /\ UNCHANGED trouble
    /\ WorkerOnly /\ UNCHANGED excused

\* fail_processing: only a row that is PROCESSING becomes ERROR.
Failed(d) == [docs EXCEPT ![d].run = "none", ![d].seen = 0,
                          ![d].st = IF docs[d].st = "PROCESSING" THEN "ERROR"
                                    ELSE docs[d].st]

\* A run that fails leaves what it has written: nobody looks after the chunks of a row
\* that is gone, or whose chunks its removal has dealt with already.
LeftBehind(d) == IF docs[d].run = "embedded" /\ (~Live(d) \/ Doomed(d)) THEN {d} ELSE {}

\* Parsing, embedding, the upsert or what follows it fails; when the file has
\* changed, that is expected.
Fail(d) ==
    /\ docs[d].run # "none"
    /\ docs' = Failed(d)
    /\ trouble' = (trouble \/ docs[d].seen = file \/ docs[d].st # "PROCESSING")
    /\ excused' = excused \cup LeftBehind(d)
    /\ WorkerOnly

\* Before it embeds, the run looks whether its row is still there.
Check(d) ==
    /\ docs[d].run = "loading" /\ docs[d].st \notin {"GONE", "DELETING"}
    /\ docs' = [docs EXCEPT ![d].run = "checked"]
    /\ UNCHANGED trouble
    /\ WorkerOnly /\ UNCHANGED excused

\* The source must be unchanged; the row is not looked at, chunks are replaced.
Upsert(d) ==
    /\ docs[d].run = "checked" /\ docs[d].seen = file
    /\ docs' = [docs EXCEPT ![d].run = "embedded", ![d].chunks = docs[d].seen]
    /\ UNCHANGED trouble
    /\ WorkerOnly /\ UNCHANGED excused

\* Before it embeds, a run notices that its document was deleted.
Abort(d) ==
    /\ docs[d].run = "loading" /\ docs[d].st \in {"GONE", "DELETING"}
    /\ docs' = [Rowless({d}) EXCEPT ![d].run = "none", ![d].seen = 0,
                  ![d].chunks = IF docs[d].st = "DELETING" THEN 0 ELSE docs[d].chunks]
    /\ UNCHANGED trouble
    /\ WorkerOnly /\ UNCHANGED excused

\* Mutant of Commit: a row that is gone is left as it is, chunks and all.
CommitOrLeave(d) ==
    /\ docs[d].run = "embedded"
    /\ docs' = [docs EXCEPT ![d].run = "none", ![d].seen = 0,
                            ![d].st = IF docs[d].st = "PROCESSING" THEN "ACTIVE"
                                      ELSE docs[d].st]
    /\ excused' = excused \cup (IF Doomed(d) /\ Live(d) THEN {d} ELSE {})
    /\ UNCHANGED trouble
    /\ WorkerOnly

\* try_activate, or _finalize_cancel when the row is gone or DELETING.
Commit(d) ==
    /\ docs[d].run = "embedded"
    /\ \/ /\ docs[d].st \in {"DELETING", "GONE"}
          /\ docs' = [Rowless({d}) EXCEPT ![d].run = "none", ![d].seen = 0, ![d].chunks = 0]
       \/ /\ docs[d].st \notin {"DELETING", "GONE"}
          /\ docs' = [docs EXCEPT ![d].run = "none", ![d].seen = 0,
                                  ![d].st = IF docs[d].st = "PROCESSING" THEN "ACTIVE"
                                            ELSE docs[d].st]
    /\ excused' = excused \cup (IF Doomed(d) /\ docs[d].st \notin {"DELETING", "GONE"}
                               THEN {d} ELSE {})
    /\ UNCHANGED trouble
    /\ WorkerOnly

WorkerStep(d) == \/ Claim(d) \/ Fail(d) \/ Check(d) \/ Upsert(d) \/ Abort(d) \/ Commit(d)

----------------------------------------------------------------------------
(* Administrators.                                                         *)

AdminGoto(a, pc) ==
    admin' = [admin EXCEPT ![a] = IF pc = "idle" THEN IdleAdmin
                                  ELSE [admin[a] EXCEPT !.pc = pc]]
AdminOnly  == UNCHANGED <<version, sync, twins, trouble>>
AdminQuiet == AdminOnly /\ UNCHANGED <<interfered, excused, cascaded>>

\* The rights are checked: every request is somebody's who has them.
AdminStart(a) ==
    /\ admin[a].pc = "idle" /\ requests < MaxRequests
    /\ requests' = requests + 1
    /\ \E t \in Teams, op \in {"connect", "disconnect", "delete_storage", "delete_team"} :
         /\ op # "delete_team" => storage
         /\ op \in {"connect", "disconnect"} => t # Owner
         /\ op = "delete_storage" => t = Owner
         /\ t \in teams
         /\ admin' = [admin EXCEPT ![a].pc = op, ![a].op = op, ![a].team = t]
    /\ AdminQuiet /\ UNCHANGED <<file, rows, docs>>

\* connect_storage: get_or_create; a storage or a team that is gone refuses it.
Connect(a) ==
    /\ admin[a].pc = "connect"
    /\ links' = IF storage /\ admin[a].team \in teams THEN links \cup {admin[a].team}
                ELSE links
    /\ interfered' = (interfered \/ Removing)
    /\ AdminGoto(a, "idle")
    /\ AdminOnly /\ UNCHANGED <<file, teams, storage, docs, requests, excused, cascaded>>

\* Mutant of Disconnect: documents in flight are left to their jobs.
DisconnectResting(a) ==
    /\ admin[a].pc = "disconnect"
    /\ admin' = [admin EXCEPT ![a].pc = "finalize",
                   ![a].todo = {d \in RowsOf(admin[a].team) : docs[d].st \notin InFlight}]
    /\ AdminQuiet /\ UNCHANGED <<file, rows, docs, requests>>

\* disconnect_storage: the team's documents of the storage, whatever they are.
Disconnect(a) ==
    /\ admin[a].pc = "disconnect"
    /\ admin' = [admin EXCEPT ![a].pc = "finalize", ![a].todo = RowsOf(admin[a].team)]
    /\ AdminQuiet /\ UNCHANGED <<file, rows, docs, requests>>

Unlink(a) ==
    /\ admin[a].pc = "unlink"
    /\ links' = links \ {admin[a].team}
    /\ AdminGoto(a, "idle")
    /\ AdminQuiet /\ UNCHANGED <<file, teams, storage, docs, requests>>

\* delete_source_storage: refused while another team is linked.
DeleteStorage(a) ==
    /\ admin[a].pc = "delete_storage"
    /\ \/ /\ links \subseteq {Owner}
          /\ admin' = [admin EXCEPT ![a].pc = "finalize", ![a].todo = {d \in Ids : Live(d)}]
       \/ ~ links \subseteq {Owner} /\ AdminGoto(a, "idle")
    /\ AdminQuiet /\ UNCHANGED <<file, rows, docs, requests>>

\* The documents listed go one by one: chunks, then the row.
Finalize(a) ==
    /\ admin[a].pc = "finalize"
    /\ \/ \E d \in admin[a].todo :
            /\ docs' = Chunkless(d)
            /\ admin' = [admin EXCEPT ![a].pc = "finalize_row", ![a].doc = d,
                                      ![a].todo = admin[a].todo \ {d}]
       \/ /\ admin[a].todo = {}
          /\ AdminGoto(a, IF admin[a].op = "disconnect" THEN "unlink" ELSE "drop_storage")
          /\ UNCHANGED docs
    /\ AdminQuiet /\ UNCHANGED <<file, rows, requests>>

FinalizeRow(a) ==
    /\ admin[a].pc = "finalize_row"
    /\ docs' = Rowless({admin[a].doc})
    /\ AdminGoto(a, "finalize")
    /\ AdminQuiet /\ UNCHANGED <<file, rows, requests>>

\* storage.delete(): links and remaining document rows follow by foreign key.
CascadeStorage ==
    /\ storage' = FALSE /\ links' = {}
    /\ docs' = Rowless(Ids)
    /\ excused' = excused \cup {d \in Ids : Live(d)}
    /\ cascaded' = (cascaded \/ \E d \in Ids : Live(d))

\* The folder is removed before the row.
DropStorage(a) ==
    /\ admin[a].pc = "drop_storage"
    /\ CascadeStorage /\ file' = 0
    /\ AdminGoto(a, "idle")
    /\ AdminOnly /\ UNCHANGED <<teams, requests, interfered>>

\* delete_team: refused while a storage it owns is linked elsewhere.  Documents that are
\* DELETING when they are listed are skipped.
DeleteTeam(a) ==
    /\ admin[a].pc = "delete_team"
    /\ \/ /\ admin[a].team = Owner => links \subseteq {Owner}
          /\ admin' = [admin EXCEPT ![a].pc = "team_docs",
                 ![a].todo = {d \in RowsOf(admin[a].team) : docs[d].st # "DELETING"}]
       \/ /\ admin[a].team = Owner /\ ~ links \subseteq {Owner}
          /\ AdminGoto(a, "idle")
    /\ AdminQuiet /\ UNCHANGED <<file, rows, docs, requests>>

\* delete_document_by_id of each document listed: one that is gone by now ends the request.
TeamDocument(a) ==
    /\ admin[a].pc = "team_docs"
    /\ \E d \in admin[a].todo :
         \/ ~Live(d) /\ AdminGoto(a, "idle")
         \/ /\ Live(d)
            /\ admin' = [admin EXCEPT ![a].pc = "team_mark", ![a].doc = d,
                                      ![a].todo = admin[a].todo \ {d}]
    /\ AdminQuiet /\ UNCHANGED <<file, rows, docs, requests>>

\* mark_deleting: a document in flight is left to its run; any other, one that has become
\* DELETING since it was listed included, is finalized here.
TeamMark(a) ==
    /\ admin[a].pc = "team_mark"
    /\ LET d == admin[a].doc
       IN  \/ /\ docs[d].st \in {"UPLOADING", "PROCESSING"}
              /\ docs' = [docs EXCEPT ![d].st = "DELETING"]
              /\ AdminGoto(a, "team_docs")
           \/ /\ docs[d].st \notin {"UPLOADING", "PROCESSING"}
              /\ AdminGoto(a, "team_clean") /\ UNCHANGED docs
    /\ AdminQuiet /\ UNCHANGED <<file, rows, requests>>

TeamClean(a) ==
    /\ admin[a].pc = "team_clean"
    /\ docs' = Chunkless(admin[a].doc)
    /\ AdminGoto(a, "team_doc_row")
    /\ AdminQuiet /\ UNCHANGED <<file, rows, requests>>

TeamDocumentRow(a) ==
    /\ admin[a].pc = "team_doc_row"
    /\ docs' = Rowless({admin[a].doc})
    /\ AdminGoto(a, "team_docs")
    /\ AdminQuiet /\ UNCHANGED <<file, rows, requests>>

\* Mutant of TeamCheck: the team goes although documents are left.
TeamCheckNothing(a) ==
    /\ admin[a].pc = "team_docs" /\ admin[a].todo = {}
    /\ AdminGoto(a, "team_chunks")
    /\ AdminQuiet /\ UNCHANGED <<file, rows, docs, requests>>

\* A document that is left is a conflict: the caller may try again later.
TeamCheck(a) ==
    /\ admin[a].pc = "team_docs" /\ admin[a].todo = {}
    /\ AdminGoto(a, IF RowsOf(admin[a].team) = {} THEN "team_chunks" ELSE "idle")
    /\ AdminQuiet /\ UNCHANGED <<file, rows, docs, requests>>

\* delete_team_chunks takes the chunks whose document is gone as well.
TeamChunks(a) ==
    /\ admin[a].pc = "team_chunks"
    /\ docs' = [d \in Ids |-> IF docs[d].team = admin[a].team
                              THEN [docs[d] EXCEPT !.chunks = 0] ELSE docs[d]]
    /\ AdminGoto(a, IF admin[a].team = Owner THEN "team_storage" ELSE "drop_team")
    /\ AdminQuiet /\ UNCHANGED <<file, rows, requests>>

\* Owned storages go, their folders only when so configured.
TeamStorage(a) ==
    /\ admin[a].pc = "team_storage"
    /\ CascadeStorage /\ file' \in {file, 0}
    /\ AdminGoto(a, "drop_team")
    /\ AdminOnly /\ UNCHANGED <<teams, requests, interfered>>

DropTeam(a) ==
    /\ admin[a].pc = "drop_team"
    /\ teams' = teams \ {admin[a].team} /\ links' = links \ {admin[a].team}
    /\ storage' = (storage /\ admin[a].team # Owner)
    /\ docs' = Rowless(RowsOf(admin[a].team))
    /\ excused' = excused \cup RowsOf(admin[a].team)
    /\ cascaded' = (cascaded \/ RowsOf(admin[a].team) # {})
    /\ AdminGoto(a, "idle")
    /\ AdminOnly /\ UNCHANGED <<file, requests, interfered>>

AdminStep(a) ==
    \/ AdminStart(a) \/ Connect(a) \/ Disconnect(a) \/ Unlink(a) \/ DeleteStorage(a)
    \/ Finalize(a) \/ FinalizeRow(a) \/ DropStorage(a) \/ DeleteTeam(a)
    \/ TeamDocument(a) \/ TeamMark(a) \/ TeamClean(a) \/ TeamDocumentRow(a)
    \/ TeamCheck(a) \/ TeamChunks(a) \/ TeamStorage(a) \/ DropTeam(a)

Next ==
    \/ FileChanges \/ FileRemoved
    \/ \E s \in Syncers : SyncStep(s)
    \/ \E d \in Ids : WorkerStep(d)
    \/ \E a \in Admins : AdminStep(a)

Spec == Init /\ [][Next]_vars

\* The scan loop visits every link again and again and a file that rests becomes
\* old enough; the worker takes queued jobs and its runs end.  Nothing is assumed
\* of administrators, whose requests may stay unfinished for ever.
Fairness ==
    /\ \A s \in Syncers :
         /\ WF_vars(SyncStep(s))
         /\ \A t \in Teams : /\ SF_vars(SyncStart(s, t))
                             /\ SF_vars(SyncList(s) /\ sync[s].team = t)
    /\ \A d \in Ids : WF_vars(WorkerStep(d))

FairSpec == Spec /\ Fairness

----------------------------------------------------------------------------
TypeOK ==
    /\ file \in 0 .. MaxVersions /\ version \in 0 .. MaxVersions
    /\ teams \subseteq Teams /\ links \subseteq Teams /\ storage \in BOOLEAN
    /\ docs \in [Ids -> DocRecord]
    /\ sync \in [Syncers -> SyncRecord] /\ admin \in [Admins -> AdminRecord]
    /\ requests \in 0 .. MaxRequests /\ twins \subseteq Teams /\ excused \subseteq Ids
    /\ interfered \in BOOLEAN /\ cascaded \in BOOLEAN /\ trouble \in BOOLEAN

\* A team has documents of the storage only while it is linked to it: once it
\* is disconnected, nothing is left to be found by its members (storage.py:105).
\* Only a pass that creates a row, or a connection made, during a removal breaks it.
LinkedOnly == ~interfered => \A t \in Teams : RowsOf(t) # {} => t \in links

\* Deleting a storage or a team never leaves it to a foreign key to remove a
\* document row, which would leave its chunks in the index: every document
\* has been dealt with before (team.py:255, storage.py:120).
NoCascade == ~interfered => ~cascaded

\* Whoever removes a document, and whenever, no chunks of it stay in the index
\* once no run is at work on it: a run that finds its row gone removes what it has
\* written (nodes.py:267).  Excused is only the document whose run, its chunks written,
\* fails when the row is gone (nodes.py:277), ends between the removal of the chunks and
\* that of the row, or whose row a foreign key takes.
NoOrphans ==
    \A d \in Ids \ excused : (docs[d].chunks # 0 /\ docs[d].run = "none") => Live(d)

\* One row per team and path: passes of a team may overlap, the unique fingerprint
\* refuses the second row of one version.  Only when a pass writes a version while
\* another, which has found no row, is about to create that of a different one are there
\* two, after which every later pass fails on the path (team_sync.py:96).
OneRow == \A t \in Teams \ twins : Cardinality(RowsOf(t)) <= 1

\* Each linked team ends up with exactly the file's last version, searchable, or
\* with nothing when there is no file, whatever changed during passes and runs.
Projected(t) ==
    IF file = 0 THEN RowsOf(t) = {}
    ELSE \E d \in RowsOf(t) : /\ docs[d].st = "ACTIVE"
                              /\ docs[d].fp = file /\ docs[d].chunks = file

\* Unless a job was lost, a run failed by itself, or the source vanished under a
\* queued job: then no later pass repairs the row (team_sync.py:101, :136, :151).
Converges == <>[](trouble \/ twins # {} \/ \A t \in links : Projected(t))
=============================================================================
