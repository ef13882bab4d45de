------------------------------- MODULE Ingest -------------------------------
(***************************************************************************)
(* The life of an uploaded document: the API calls that create, re-upload, *)
(* retry and delete it, the job queue between API and worker, and the      *)
(* worker runs of the ingest graph that turn its file into chunks of the   *)
(* vector index.  Every await of the source is a step boundary.            *)
(*                                                                         *)
(* All documents of the model share one identity (team, storage, path):    *)
(* the ids in Docs are the successive rows that identity may get.  A       *)
(* Version is the content of the file and, since the fingerprint embeds    *)
(* size and mtime, also its fingerprint; a chunk is named after the        *)
(* document and the version it was cut from (chunk ids are hashes of both).*)
(***************************************************************************)
EXTENDS Naturals, FiniteSets

CONSTANTS
    Docs,            \* document ids (ULIDs) that uploads may allocate
    Versions,        \* contents (= fingerprints) of the uploaded file
    Slots,           \* concurrent jobs of the worker process (max_jobs)
    Calls,           \* API requests that may be served at the same time
    None,            \* no document, no content
    TeamStorage,     \* cfg.team_storage.base_path is set
    DeletesMayFail,  \* the vector index may fail (or lose) a chunk deletion
    MaxOps,          \* bound: API calls ever made
    MaxRedeliveries, \* bound: jobs put back on the queue by ARQ
    MaxCrashes       \* bound: crashes of the API or of the worker process

ASSUME NoneAssumption == None \notin Docs \cup Versions
ASSUME SlotsAssumption == IsFiniteSet(Slots)
ASSUME BoundAssumption == /\ MaxOps \in Nat
                          /\ MaxRedeliveries \in Nat
                          /\ MaxCrashes \in Nat
ASSUME SwitchAssumption == /\ TeamStorage \in BOOLEAN
                           /\ DeletesMayFail \in BOOLEAN

VARIABLES
    status,       \* Document.status of each row, "ABSENT" when there is no row
    fp,           \* Document.source_fingerprint: the version last uploaded
    fresh,        \* ids no upload has allocated yet
    file,         \* content of the file a run of the document would read
    chunks,       \* versions with chunks in the vector index
    queue,        \* jobs waiting in the ARQ queue, per document
    run,          \* per worker slot, the state of its run_ingest_for_document
    call,         \* per API request, the state of its handler
    worker,       \* worker process: "down", "booting" (on_startup) or "up"
    sweep,        \* reconcile_deletions: rows it has still to finalize
    swept,        \* ... and the one whose chunks it has removed already
    ops, redeliveries, crashes,  \* counters of the bounds
    tainted,      \* history: documents hit by an overlap or crash (see below)
    lost,         \* history: documents whose job a crash has swallowed
    built         \* history: version cut by the run that made the row ACTIVE

env    == <<ops, redeliveries, crashes>>
table  == <<status, fp, fresh>>
boot   == <<worker, sweep, swept>>
past   == <<lost, built>>
vars   == <<table, file, chunks, queue, run, call, boot, env, tainted, past>>

Rows      == {"UPLOADING", "PROCESSING", "ACTIVE", "ERROR", "DELETING"}
\* Mutant of Claimable: a redelivered job does not claim its own row again.
ClaimableOnce == {"UPLOADING", "ERROR"}
Claimable == {"UPLOADING", "PROCESSING", "ERROR"}
Cancellable == {"UPLOADING", "PROCESSING"}

RunPc == {"idle", "parse", "claim", "reread", "load", "check", "embed",
          "upsert", "list", "prune", "activate", "fail", "raise",
          "abort_read", "cancel_read", "cancel_chunks", "cancel_row",
          "fin_chunks", "fin_row"}
CallPc == {"idle", "save_file", "save_row", "enqueue", "retry_save", "mark",
           "fin_chunks", "fin_row"}

\* A run knows its document (doc), the source revision it was started for
\* (expected), what it parsed, the chunk ids it listed, and whether the row was
\* there when it was cancelled (seen).  A request knows its document, the
\* version it uploads or has read, and whether the row existed.
RunRecord  == [pc : RunPc, doc : Docs \cup {None},
               expected : Versions \cup {None}, content : Versions \cup {None},
               listed : SUBSET Versions, seen : BOOLEAN]
CallRecord == [pc : CallPc, doc : Docs \cup {None},
               version : Versions \cup {None}, existing : BOOLEAN]

IdleRun  == [pc |-> "idle", doc |-> None, expected |-> None, content |-> None,
             listed |-> {}, seen |-> FALSE]
IdleCall == [pc |-> "idle", doc |-> None, version |-> None, existing |-> FALSE]

Init ==
    /\ status = [d \in Docs |-> "ABSENT"]
    /\ fp = [d \in Docs |-> None]
    /\ fresh = Docs
    /\ file = [d \in Docs |-> None]
    /\ chunks = [d \in Docs |-> {}]
    /\ queue = [d \in Docs |-> 0]
    /\ run = [s \in Slots |-> IdleRun]
    /\ call = [c \in Calls |-> IdleCall]
    /\ worker = "up" /\ sweep = {} /\ swept = {}
    /\ ops = 0 /\ redeliveries = 0 /\ crashes = 0
    /\ tainted = {} /\ lost = {} /\ built = [d \in Docs |-> None]

Exists(d)    == status[d] # "ABSENT"
RunOf(s, pc) == run[s].pc = pc
CallAt(c, pc) == call[c].pc = pc

RunTo(s, pc)  == run' = [run EXCEPT ![s].pc = pc]
CallTo(c, pc) == call' = [call EXCEPT ![c].pc = pc]
EndRun(s)     == run' = [run EXCEPT ![s] = IdleRun]
EndCall(c)    == call' = [call EXCEPT ![c] = IdleCall]

\* A single UPDATE ... WHERE id = d.
SetStatus(d, st) == status' = [status EXCEPT ![d] = st]

(***************************************************************************)
(* History.  The code relies on three disciplines it does not enforce: an  *)
(* API call that writes or finalizes a row has the document to itself,     *)
(* whoever removes chunks lives to remove the row (and the reverse), and   *)
(* runs of a document that overlap were started for the same revision of   *)
(* its source (they prune each other's chunks).                            *)
(* `tainted' collects the documents for which a behaviour broke one.       *)
(***************************************************************************)
Writing(c) == call[c].pc \in {"save_file", "save_row", "retry_save", "fin_chunks", "fin_row"}

Overlapped(d) ==
    \E c \in Calls :
       /\ Writing(c) /\ call[c].doc = d
       /\ \/ d \in sweep
          \/ \E s \in Slots : run[s].doc = d
          \/ \E o \in Calls \ {c} : Writing(o) /\ (TeamStorage \/ call[o].doc = d)

Diverged(d) ==
    \E s, t \in Slots : run[s].doc = d /\ run[t].doc = d /\ run[s].expected # run[t].expected

\* The step ends a run abnormally with the row gone or about to be removed by
\* another run, or an API call between its write to the file or the index and
\* the one to the row.
CutShort(d) ==
    \/ \E s \in Slots :
          /\ run[s].doc = d /\ run'[s].doc # d
          /\ worker' = "down" \/ RunOf(s, "raise")
          /\ \/ status[d] = "ABSENT"
             \/ \E o \in Slots \ {s} : run[o].doc = d /\ run[o].pc \in {"cancel_row", "fin_row"}
    \/ /\ status'[d] # "ABSENT"
       /\ \E c \in Calls : /\ call[c].pc \in {"save_row", "fin_row"} /\ call[c].doc = d
                           /\ call'[c].doc # d

History == tainted' = tainted \cup {d \in Docs : Overlapped(d)' \/ Diverged(d)' \/ CutShort(d)}

----------------------------------------------------------------------------
(* Storage and index primitives.                                           *)

\* save_upload writes into the document's own directory; a team storage
\* upload replaces the one file every row of this identity points at.
WriteFile(d, v) ==
    file' = [e \in Docs |-> IF TeamStorage \/ e = d THEN v ELSE file[e]]

\* remove_document_storage: team storage rows have no private directory.
FileRemoved(d) ==
    IF TeamStorage THEN file ELSE [file EXCEPT ![d] = None]

\* A deletion the vector index may lose: the callers swallow its errors.
DeleteChunks(d, ids) ==
    \/ chunks' = [chunks EXCEPT ![d] = @ \ ids]
    \/ DeletesMayFail /\ UNCHANGED chunks

----------------------------------------------------------------------------
(* POST /ingest/upload                                                     *)

\* A request is admitted; MaxOps bounds how many ever are.
Admit(c) == CallAt(c, "idle") /\ ops < MaxOps /\ ops' = ops + 1

\* upload_and_ingest looks the identity up: one row is re-uploaded whatever
\* its status, no row means a new id, two rows make get_or_none raise.
UploadLookup(c) ==
    /\ Admit(c)
    /\ \E v \in Versions :
          \/ /\ ~ \E d \in Docs : Exists(d)
             /\ \E d \in fresh :
                   /\ call' = [call EXCEPT ![c] = [pc |-> "save_file", doc |-> d,
                                    version |-> v, existing |-> FALSE]]
                   /\ fresh' = fresh \ {d}
          \/ \E d \in Docs :
                /\ Exists(d) /\ \A e \in Docs \ {d} : ~Exists(e)
                /\ call' = [call EXCEPT ![c] = [pc |-> "save_file", doc |-> d,
                                 version |-> v, existing |-> TRUE]]
                /\ UNCHANGED fresh
    /\ UNCHANGED <<status, fp, file, chunks, queue, run, boot, redeliveries, crashes, past>>
    /\ History

\* save_upload / save_team_source_upload: the file is replaced before the row.
UploadSaveFile(c) ==
    /\ CallAt(c, "save_file")
    /\ WriteFile(call[c].doc, call[c].version)
    /\ CallTo(c, "save_row")
    /\ UNCHANGED <<table, chunks, queue, run, boot, env, past>>
    /\ History

\* source_fingerprint is UNIQUE: no other row may carry version v.
Unique(d, v) == \A e \in Docs \ {d} : Exists(e) => fp[e] # v

\* Document.create, or the full-row save of the row read at the lookup: it
\* writes UPLOADING over any status, and no row at all if the row is gone.
UploadSaveRow(c) ==
    /\ CallAt(c, "save_row")
    /\ LET d == call[c].doc  v == call[c].version IN
          \/ /\ Exists(d) \/ ~call[c].existing
             /\ Unique(d, v)
             /\ SetStatus(d, "UPLOADING")
             /\ fp' = [fp EXCEPT ![d] = v]
             /\ CallTo(c, "enqueue")
          \/ /\ ~Exists(d) /\ call[c].existing
             /\ CallTo(c, "enqueue")
             /\ UNCHANGED <<status, fp>>
          \/ /\ ~Unique(d, v)
             /\ EndCall(c)
             /\ UNCHANGED <<status, fp>>
    /\ UNCHANGED <<fresh, file, chunks, queue, run, boot, env, past>>
    /\ History

\* arq.enqueue_job(INGEST_TASK_NAME, doc.id, team_id): no job id, so one more
\* job every time.
Enqueue(c) ==
    /\ CallAt(c, "enqueue")
    /\ queue' = [queue EXCEPT ![call[c].doc] = @ + 1]
    /\ EndCall(c)
    /\ UNCHANGED <<table, file, chunks, run, boot, env, past>>
    /\ History

----------------------------------------------------------------------------
(* POST /ingest/{id}/retry                                                 *)

Retryable(force) == {"ERROR"} \cup (IF force THEN {"ACTIVE"} ELSE {})

RetryRead(c) ==
    /\ Admit(c)
    /\ \E d \in Docs, force \in BOOLEAN :
          /\ status[d] \in Retryable(force)
          /\ call' = [call EXCEPT ![c] = [pc |-> "retry_save", doc |-> d,
                           version |-> fp[d], existing |-> TRUE]]
    /\ UNCHANGED <<table, file, chunks, queue, run, boot, redeliveries, crashes, past>>
    /\ History

\* doc.save() writes every column of the row as it was read.
RetrySave(c) ==
    /\ CallAt(c, "retry_save")
    /\ LET d == call[c].doc IN
          IF Exists(d)
          THEN SetStatus(d, "UPLOADING") /\ fp' = [fp EXCEPT ![d] = call[c].version]
          ELSE UNCHANGED <<status, fp>>
    /\ CallTo(c, "enqueue")
    /\ UNCHANGED <<fresh, file, chunks, queue, run, boot, env, past>>
    /\ History

----------------------------------------------------------------------------
(* DELETE /ingest/{id}                                                     *)

DeleteLookup(c) ==
    /\ Admit(c)
    /\ \E d \in Docs :
          /\ Exists(d)
          /\ call' = [call EXCEPT ![c] = [IdleCall EXCEPT !.pc = "mark", !.doc = d]]
    /\ UNCHANGED <<table, file, chunks, queue, run, boot, redeliveries, crashes, past>>
    /\ History

\* mark_deleting: an in-flight row is left to the worker, any other state
\* (DELETING included) is finalized by this very request.
DeleteMark(c) ==
    /\ CallAt(c, "mark")
    /\ LET d == call[c].doc IN
          IF status[d] \in Cancellable
          THEN SetStatus(d, "DELETING") /\ EndCall(c)
          ELSE CallTo(c, "fin_chunks") /\ UNCHANGED status
    /\ UNCHANGED <<fp, fresh, file, chunks, queue, run, boot, env, past>>
    /\ History

\* finalize_document_deletion, first half: cleanup_document_resources.
CleanUp(d) ==
    /\ DeleteChunks(d, Versions)
    /\ file' = IF Exists(d) THEN FileRemoved(d) ELSE file

\* ... second half: the unconditional DELETE of the row.
DropRow(d) == SetStatus(d, "ABSENT")

DeleteCleanUp(c) ==
    /\ CallAt(c, "fin_chunks")
    /\ CleanUp(call[c].doc)
    /\ CallTo(c, "fin_row")
    /\ UNCHANGED <<table, queue, run, boot, env, past>>
    /\ History

DeleteRow(c) ==
    /\ CallAt(c, "fin_row")
    /\ DropRow(call[c].doc)
    /\ EndCall(c)
    /\ UNCHANGED <<fp, fresh, file, chunks, queue, run, boot, env, past>>
    /\ History

----------------------------------------------------------------------------
(* The worker takes a job: ingest_document_task, run_ingest_for_document.  *)

\* ARQ removes the job from the queue; a row that is gone ends it at once.
TakeJob(s, d) ==
    /\ worker = "up" /\ RunOf(s, "idle") /\ queue[d] > 0

\* A team storage run remembers the source revision it was started for.
StartJob(s, d) ==
    /\ TakeJob(s, d)
    /\ queue' = [queue EXCEPT ![d] = @ - 1]
    /\ \/ ~Exists(d) /\ UNCHANGED run
       \/ /\ Exists(d) /\ (TeamStorage => file[d] # None)
          /\ run' = [run EXCEPT ![s] = [IdleRun EXCEPT !.pc = "parse", !.doc = d,
                            !.expected = IF TeamStorage THEN file[d] ELSE None]]
    /\ UNCHANGED <<table, file, chunks, call, boot, env, past>>
    /\ History

\* source.stat() raises outside the try: the job fails with the row untouched.
\* ARQ redelivers it or, its tries used up, drops it.
StartJobNoSource(s, d) ==
    /\ TakeJob(s, d) /\ Exists(d) /\ TeamStorage /\ file[d] = None
    /\ \/ /\ redeliveries < MaxRedeliveries
          /\ redeliveries' = redeliveries + 1
          /\ UNCHANGED <<queue, past>>
       \/ /\ queue' = [queue EXCEPT ![d] = @ - 1]
          /\ lost' = lost \cup {d}
          /\ UNCHANGED redeliveries
    /\ UNCHANGED <<table, file, chunks, run, call, boot, ops, crashes, built>>
    /\ History

\* parse_document reads the row first: a row that is gone ends the job.
ParseRead(s) ==
    /\ RunOf(s, "parse")
    /\ IF Exists(run[s].doc) THEN RunTo(s, "claim") ELSE EndRun(s)
    /\ UNCHANGED <<table, file, chunks, queue, call, boot, env, past>>
    /\ History

\* begin_processing.
Claim(s) ==
    /\ RunOf(s, "claim")
    /\ LET d == run[s].doc IN
          IF status[d] \in Claimable
          THEN SetStatus(d, "PROCESSING") /\ RunTo(s, "load")
          ELSE RunTo(s, "reread") /\ UNCHANGED status
    /\ UNCHANGED <<fp, fresh, file, chunks, queue, call, boot, env, past>>
    /\ History

\* Mutant of Reread: any failed claim is a cancellation.
RereadAsCancel(s) ==
    /\ RunOf(s, "reread")
    /\ RunTo(s, "fin_chunks")
    /\ UNCHANGED <<table, file, chunks, queue, call, boot, env, past>>
    /\ History

\* Mutant of Reread: a failed claim is never a cancellation.
RereadAsNoop(s) ==
    /\ RunOf(s, "reread")
    /\ EndRun(s)
    /\ UNCHANGED <<table, file, chunks, queue, call, boot, env, past>>
    /\ History

\* Why did the claim fail?  Only DELETING and a missing row are a cancellation.
Reread(s) ==
    /\ RunOf(s, "reread")
    /\ IF status[run[s].doc] \in {"DELETING", "ABSENT"}
       THEN RunTo(s, "fin_chunks") ELSE EndRun(s)
    /\ UNCHANGED <<table, file, chunks, queue, call, boot, env, past>>
    /\ History

\* The file is still the revision the run was started for.
SourceUnchanged(s) == TeamStorage => file[run[s].doc] = run[s].expected

\* parse_file between the two stat checks; an empty or unreadable file and a
\* changed source fail the run.
Load(s) ==
    /\ RunOf(s, "load")
    /\ \/ /\ SourceUnchanged(s) /\ file[run[s].doc] # None
          /\ run' = [run EXCEPT ![s].pc = "check", ![s].content = file[run[s].doc]]
       \/ RunTo(s, "fail")
    /\ UNCHANGED <<table, file, chunks, queue, call, boot, env, past>>
    /\ History

----------------------------------------------------------------------------
(* process_document.                                                       *)

\* The row is read again: gone ends the run, DELETING cancels it.
Check(s) ==
    /\ RunOf(s, "check")
    /\ LET st == status[run[s].doc] IN
          \/ st = "ABSENT" /\ EndRun(s)
          \/ st = "DELETING" /\ RunTo(s, "abort_read")
          \/ st \notin {"ABSENT", "DELETING"} /\ RunTo(s, "embed")
    /\ UNCHANGED <<table, file, chunks, queue, call, boot, env, past>>
    /\ History

\* Mutant of Embed: a changed source ends the run without failing the row.
EmbedGivesUp(s) ==
    /\ RunOf(s, "embed")
    /\ IF SourceUnchanged(s) THEN RunTo(s, "upsert") ELSE EndRun(s)
    /\ UNCHANGED <<table, file, chunks, queue, call, boot, env, past>>
    /\ History

\* split, embed and the last look at the source before anything is written.
Embed(s) ==
    /\ RunOf(s, "embed")
    /\ \/ SourceUnchanged(s) /\ RunTo(s, "upsert")
       \/ RunTo(s, "fail")
    /\ UNCHANGED <<table, file, chunks, queue, call, boot, env, past>>
    /\ History

\* vdb.upsert_documents writes in batches: a failure may come before or after
\* the chunks are visible.
Upsert(s) ==
    /\ RunOf(s, "upsert")
    /\ LET d == run[s].doc
           written == [chunks EXCEPT ![d] = @ \cup {run[s].content}]
       IN \/ chunks' = written /\ RunTo(s, "list")
          \/ chunks' \in {chunks, written} /\ RunTo(s, "fail")
    /\ UNCHANGED <<table, file, queue, call, boot, env, past>>
    /\ History

\* get_chunk_ids_by_document_id answers [] when the index fails.
ListChunks(s) ==
    /\ RunOf(s, "list")
    /\ \E ids \in {chunks[run[s].doc]} \cup (IF DeletesMayFail THEN {{}} ELSE {}) :
          run' = [run EXCEPT ![s].pc = "prune", ![s].listed = ids]
    /\ UNCHANGED <<table, file, chunks, queue, call, boot, env, past>>
    /\ History

\* Mutant of Prune: the chunks of earlier versions are left.
PruneNothing(s) ==
    /\ RunOf(s, "prune")
    /\ run' = [run EXCEPT ![s].pc = "activate", ![s].listed = {}]
    /\ UNCHANGED <<table, file, chunks, queue, call, boot, env, past>>
    /\ History

\* Mutant of Prune: the run's own chunks are among those it deletes.
PruneListed(s) ==
    /\ RunOf(s, "prune")
    /\ DeleteChunks(run[s].doc, run[s].listed)
    /\ run' = [run EXCEPT ![s].pc = "activate", ![s].listed = {}]
    /\ UNCHANGED <<table, file, queue, call, boot, env, past>>
    /\ History

\* Delete the chunks that were listed and are not this run's.
Prune(s) ==
    /\ RunOf(s, "prune")
    /\ DeleteChunks(run[s].doc, run[s].listed \ {run[s].content})
    /\ run' = [run EXCEPT ![s].pc = "activate", ![s].listed = {}]
    /\ UNCHANGED <<table, file, queue, call, boot, env, past>>
    /\ History

\* Mutant of Activate: a run that has lost its row leaves its chunks.
ActivateOrLeave(s) ==
    /\ RunOf(s, "activate")
    /\ LET d == run[s].doc IN
          IF status[d] = "PROCESSING"
          THEN SetStatus(d, "ACTIVE") /\ built' = [built EXCEPT ![d] = run[s].content]
          ELSE UNCHANGED <<status, built>>
    /\ EndRun(s)
    /\ UNCHANGED <<fp, fresh, file, chunks, queue, call, boot, env, lost>>
    /\ History

\* try_activate: PROCESSING -> ACTIVE, or find out why not.
Activate(s) ==
    /\ RunOf(s, "activate")
    /\ LET d == run[s].doc IN
          IF status[d] = "PROCESSING"
          THEN SetStatus(d, "ACTIVE") /\ built' = [built EXCEPT ![d] = run[s].content] /\ EndRun(s)
          ELSE RunTo(s, "cancel_read") /\ UNCHANGED <<status, built>>
    /\ UNCHANGED <<fp, fresh, file, chunks, queue, call, boot, env, lost>>
    /\ History

\* Mutant of Fail: the error is written over whatever the row says.
FailAlways(s) ==
    /\ RunOf(s, "fail")
    /\ IF Exists(run[s].doc) THEN SetStatus(run[s].doc, "ERROR") ELSE UNCHANGED status
    /\ RunTo(s, "raise")
    /\ UNCHANGED <<fp, fresh, file, chunks, queue, call, boot, env, past>>
    /\ History

\* fail_processing: PROCESSING -> ERROR, any other state is left alone.
Fail(s) ==
    /\ RunOf(s, "fail")
    /\ LET d == run[s].doc IN
          IF status[d] = "PROCESSING" THEN SetStatus(d, "ERROR") ELSE UNCHANGED status
    /\ RunTo(s, "raise")
    /\ UNCHANGED <<fp, fresh, file, chunks, queue, call, boot, env, past>>
    /\ History

\* run_ingest_for_document raises: ARQ may put the job back (max_tries).
Raise(s) ==
    /\ RunOf(s, "raise")
    /\ EndRun(s)
    /\ \/ /\ redeliveries < MaxRedeliveries
          /\ redeliveries' = redeliveries + 1
          /\ queue' = [queue EXCEPT ![run[s].doc] = @ + 1]
       \/ UNCHANGED <<queue, redeliveries>>
    /\ UNCHANGED <<table, file, chunks, call, boot, ops, crashes, past>>
    /\ History

----------------------------------------------------------------------------
(* _finalize_cancel, and finalize_document_deletion for a cancelled run.   *)

\* The row is read once more.  Called from the commit, any state but DELETING
\* and gone leaves the document to another run; called from the check before
\* embedding ("abort_read"), that answer is dropped and the run still reports
\* itself cancelled.
CancelRead(s) ==
    /\ run[s].pc \in {"abort_read", "cancel_read"}
    /\ LET st == status[run[s].doc] IN
          \/ /\ st \in {"DELETING", "ABSENT"}
             /\ run' = [run EXCEPT ![s].pc = "cancel_chunks", ![s].seen = (st = "DELETING")]
          \/ /\ st \notin {"DELETING", "ABSENT"}
             /\ IF RunOf(s, "cancel_read") THEN EndRun(s) ELSE RunTo(s, "fin_chunks")
    /\ UNCHANGED <<table, file, chunks, queue, call, boot, env, past>>
    /\ History

CancelChunks(s) ==
    /\ RunOf(s, "cancel_chunks")
    /\ DeleteChunks(run[s].doc, Versions)
    /\ RunTo(s, "cancel_row")
    /\ UNCHANGED <<table, file, queue, call, boot, env, past>>
    /\ History

\* DELETE ... WHERE status = DELETING, then the storage directory of the row
\* that was read.
CancelRow(s) ==
    /\ RunOf(s, "cancel_row")
    /\ LET d == run[s].doc IN
          /\ IF status[d] = "DELETING" THEN DropRow(d) ELSE UNCHANGED status
          /\ file' = IF run[s].seen THEN FileRemoved(d) ELSE file
    /\ RunTo(s, "fin_chunks")
    /\ UNCHANGED <<fp, fresh, chunks, queue, call, boot, env, past>>
    /\ History

\* result["cancelled"]: the deletion is finalized once more, unconditionally.
RunCleanUp(s) ==
    /\ RunOf(s, "fin_chunks")
    /\ CleanUp(run[s].doc)
    /\ RunTo(s, "fin_row")
    /\ UNCHANGED <<table, queue, call, boot, env, past>>
    /\ History

RunDropRow(s) ==
    /\ RunOf(s, "fin_row")
    /\ DropRow(run[s].doc)
    /\ EndRun(s)
    /\ UNCHANGED <<fp, fresh, file, chunks, queue, call, boot, env, past>>
    /\ History

----------------------------------------------------------------------------
(* Crashes, the worker's startup sweep, and the owner of the source files. *)

\* The API process dies: every request stops where it is.
ApiCrash ==
    /\ crashes < MaxCrashes /\ crashes' = crashes + 1
    /\ \E c \in Calls : ~CallAt(c, "idle")
    /\ call' = [c \in Calls |-> IdleCall]
    /\ lost' = lost \cup {call[c].doc : c \in {x \in Calls : CallAt(x, "enqueue")}}
    /\ UNCHANGED <<table, file, chunks, queue, run, boot, ops, redeliveries, built>>
    /\ History

\* The worker process dies.  ARQ redelivers the jobs of some runs (their
\* in-progress mark expires); the others had used their tries.
WorkerCrash ==
    /\ crashes < MaxCrashes /\ crashes' = crashes + 1
    /\ worker # "down" /\ worker' = "down"
    /\ sweep' = {} /\ swept' = {}
    /\ run' = [s \in Slots |-> IdleRun]
    /\ \E back \in SUBSET {s \in Slots : ~RunOf(s, "idle")} :
          /\ redeliveries + Cardinality(back) <= MaxRedeliveries
          /\ redeliveries' = redeliveries + Cardinality(back)
          /\ queue' = [d \in Docs |-> queue[d] + Cardinality({s \in back : run[s].doc = d})]
          /\ lost' = lost \cup {run[s].doc : s \in {x \in Slots \ back : ~RunOf(x, "idle")}}
    /\ UNCHANGED <<table, file, chunks, call, ops, built>>
    /\ History

\* _on_startup: reconcile_deletions lists the DELETING rows before any job
\* is taken, and finalizes them one after the other.
WorkerStart ==
    /\ worker = "down" /\ worker' = "booting"
    /\ sweep' = {d \in Docs : status[d] = "DELETING"}
    /\ UNCHANGED <<table, file, chunks, queue, run, call, swept, env, past>>
    /\ History

SweepCleanUp(d) ==
    /\ worker = "booting" /\ d \in sweep /\ swept = {}
    /\ CleanUp(d)
    /\ swept' = {d}
    /\ UNCHANGED <<table, queue, run, call, worker, sweep, env, past>>
    /\ History

SweepRow(d) ==
    /\ worker = "booting" /\ d \in swept
    /\ DropRow(d)
    /\ sweep' = sweep \ {d} /\ swept' = {}
    /\ UNCHANGED <<fp, fresh, file, chunks, queue, run, call, worker, env, past>>
    /\ History

WorkerReady ==
    /\ worker = "booting" /\ sweep = {} /\ worker' = "up"
    /\ UNCHANGED <<table, file, chunks, queue, run, call, sweep, swept, env, past>>
    /\ History

\* Team storage is the owner's folder: its one file may be replaced or disappear, or
\* be there again, at any time; the row learns of it from the next sync of the folder.
SourceChanged ==
    /\ TeamStorage
    /\ \E v \in Versions \cup {None} : file' = [d \in Docs |-> v]
    /\ file' # file
    /\ UNCHANGED <<table, chunks, queue, run, call, boot, env, past>>
    /\ History

----------------------------------------------------------------------------
Request(c) == UploadLookup(c) \/ RetryRead(c) \/ DeleteLookup(c)

Serve(c) == \/ UploadSaveFile(c) \/ UploadSaveRow(c) \/ Enqueue(c) \/ RetrySave(c)
            \/ DeleteMark(c) \/ DeleteCleanUp(c) \/ DeleteRow(c)

Job(s) == \/ ParseRead(s) \/ Claim(s) \/ Reread(s) \/ Load(s)
          \/ Check(s) \/ Embed(s) \/ Upsert(s) \/ ListChunks(s) \/ Prune(s)
          \/ Activate(s) \/ Fail(s) \/ Raise(s)
          \/ CancelRead(s) \/ CancelChunks(s) \/ CancelRow(s)
          \/ RunCleanUp(s) \/ RunDropRow(s)

Pickup == \E s \in Slots, d \in Docs : StartJob(s, d) \/ StartJobNoSource(s, d)

Sweep == WorkerReady \/ \E d \in Docs : SweepCleanUp(d) \/ SweepRow(d)

Next == \/ \E c \in Calls : Request(c) \/ Serve(c)
        \/ \E s \in Slots : Job(s)
        \/ Pickup \/ Sweep \/ WorkerStart \/ ApiCrash \/ WorkerCrash \/ SourceChanged

Spec == Init /\ [][Next]_vars

(* An admitted request is served, a job is taken and worked on, the startup *)
(* sweep goes on: each is a coroutine of a running event loop.  Nothing is  *)
(* assumed of clients, of the owner of the files, of crashes, of ARQ's      *)
(* redeliveries, nor that a dead worker is ever started again.              *)
Fairness == /\ \A c \in Calls : WF_vars(Serve(c))
            /\ \A s \in Slots : WF_vars(Job(s))
            /\ WF_vars(Pickup)
            /\ WF_vars(Sweep)

FairSpec == Spec /\ Fairness

----------------------------------------------------------------------------
\* A run at work names a document and, once it has parsed, a version.
Parsed == {"check", "embed", "upsert", "list", "prune", "activate"}
RunOK  == /\ run \in [Slots -> RunRecord]
          /\ \A s \in Slots : /\ ~RunOf(s, "idle") => run[s].doc \in Docs
                              /\ run[s].pc \in Parsed => run[s].content \in Versions
CallOK == /\ call \in [Calls -> CallRecord]
          /\ \A c \in Calls : ~CallAt(c, "idle") => call[c].doc \in Docs

(* Every variable has the shape the handlers rely on, and nobody at work    *)
(* has lost the document it works on.                                       *)
TypeOK ==
    /\ status \in [Docs -> Rows \cup {"ABSENT"}]
    /\ fp \in [Docs -> Versions \cup {None}]
    /\ fresh \subseteq Docs
    /\ file \in [Docs -> Versions \cup {None}]
    /\ chunks \in [Docs -> SUBSET Versions]
    /\ queue \in [Docs -> Nat]
    /\ RunOK /\ CallOK
    /\ worker \in {"down", "booting", "up"}
    /\ sweep \subseteq Docs /\ swept \subseteq sweep
    /\ worker # "booting" => sweep = {}
    /\ ops \in Nat /\ redeliveries \in Nat /\ crashes \in Nat
    /\ tainted \subseteq Docs /\ lost \subseteq Docs /\ built \in [Docs -> Versions \cup {None}]

(* A document that is waiting for its ingest still has somebody who will    *)
(* carry it to ACTIVE, ERROR or its removal: the request about to enqueue   *)
(* its job, the job, a run that has still to claim it or, once it is        *)
(* PROCESSING, a run that has still to commit or to fail it.  Whatever runs *)
(* and requests overlap, only a lost job strands it in a state retry and    *)
(* /ingest/check both refuse.                                               *)
Working(s) == run[s].pc \in {"load", "check", "embed", "upsert", "list", "prune",
                             "activate", "fail"}
Carried(d) ==
    \/ \E c \in Calls : CallAt(c, "enqueue") /\ call[c].doc = d
    \/ queue[d] > 0
    \/ \E s \in Slots : run[s].doc = d /\ run[s].pc \in {"parse", "claim"}
    \/ status[d] = "PROCESSING" /\ \E s \in Slots : run[s].doc = d /\ Working(s)

NoStranded == \A d \in Docs \ lost : status[d] \in {"UPLOADING", "PROCESSING"} => Carried(d)

(* No worker step brings a DELETING row back (fail_processing and           *)
(* try_activate are conditional), nor the startup sweep: once the user has  *)
(* asked for a deletion, only an API save of a row read before can undo it. *)
WorkerNeverResurrects ==
    [][\A d \in Docs :
         status[d] = "DELETING" /\ call' = call => status'[d] \in {"DELETING", "ABSENT"}]_vars

(* A worker or the sweep removes a row only if its deletion was requested:  *)
(* a run that reports itself cancelled finalizes without looking again, so  *)
(* this rests on nobody rewriting a row whose run has seen it DELETING.     *)
WorkerDeletesOnlyDeleting ==
    [][\A d \in Docs \ tainted' :
         Exists(d) /\ status'[d] = "ABSENT" /\ call' = call => status[d] = "DELETING"]_vars

(* Chunks without a row (they would be retrieved for ever: no request names *)
(* the document any more) exist only while a run that saw or will see the   *)
(* row missing has still to delete them.                                    *)
Purging(s) == run[s].pc \in {"upsert", "list", "prune", "activate", "abort_read",
                             "cancel_read", "cancel_chunks", "fin_chunks", "fail", "raise"}
NoOrphanChunks ==
    \A d \in Docs \ tainted :
       ~Exists(d) /\ chunks[d] # {} => \E s \in Slots : run[s].doc = d /\ Purging(s)

(* A searchable document has the chunks of the version its row announces,   *)
(* and no other once no run is at work on it: a duplicate job, a redelivery *)
(* or a crash of another run never prunes a finished run's chunks.          *)
Engaged(d) == \/ d \in sweep
              \/ \E s \in Slots : run[s].doc = d
              \/ \E c \in Calls : Writing(c) /\ call[c].doc = d
ActiveIsIndexed ==
    \A d \in Docs \ tainted :
       status[d] = "ACTIVE" /\ ~Engaged(d) => chunks[d] = {fp[d]}

(* Where the owner may replace the file under the queue and the runs, the   *)
(* version the row announces may never be indexed: it is put right by the   *)
(* next sync.  But a searchable document always has the chunks of the file  *)
(* that the run which made it ACTIVE has read, whatever is in the folder by *)
(* then, however many runs of that revision there were and whichever of     *)
(* their deletions were lost; in private directories that is the version    *)
(* its row announces.                                                       *)
ActiveHasChunks ==
    \A d \in Docs \ tainted :
       status[d] = "ACTIVE" /\ ~Engaged(d) =>
          built[d] \in chunks[d] /\ (~TeamStorage => built[d] = fp[d])

(* An upload settles: whatever requests overlap and however runs fail, a    *)
(* document in flight becomes ACTIVE, ERROR, DELETING or goes, unless a     *)
(* crash swallowed its job or the worker is down.                           *)
InFlight(d) == status[d] \in {"UPLOADING", "PROCESSING"}
Settles == \A d \in Docs : InFlight(d) ~> (~InFlight(d) \/ d \in lost \/ worker = "down")

(* A deletion that reaches the document before a run has claimed it is      *)
(* finished by the worker without waiting for the next restart.             *)
Unclaimed(d) == \/ queue[d] > 0
                \/ \E s \in Slots : run[s].doc = d /\ run[s].pc \in {"parse", "claim"}
DeletionBeforeClaimFinishes ==
    \A d \in Docs : (status[d] = "DELETING" /\ Unclaimed(d))
                       ~> (status[d] # "DELETING" \/ d \in lost \/ worker = "down")

(* What docs/ingest-api.md says of every deletion of a document in flight:  *)
(* "it is marked deleting and finalized by the worker shortly after".       *)
DeletionFinishes ==
    \A d \in Docs : status[d] = "DELETING" ~> (status[d] # "DELETING" \/ worker = "down")
=============================================================================
