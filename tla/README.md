# MARU-Lang: formal models, model checks and proofs

MARU-Lang (`src/maru_lang/`) is a FastAPI server with an ARQ worker. Teams upload
documents or connect storage folders; the worker parses, splits and embeds them
into a vector index; users chat over WebSockets with a RAG graph and author
structured documents (canvases) with a second graph. This directory holds TLA+
modules translated from that source, the TLC configurations that check them, and
TLAPS proofs about them.

`PROJECT.json` relates every definition to the lines it models, every property to
the run that checks it and to a mutation of the model it must catch, and every
known hazard of the code to the properties that guard it.

    tlc -workers 2 -config MCIngest.cfg MCIngest      # a model check
    tlapm IngestProofs.tla                            # a proof

## 1. Inventory of the system

| Component | State it keeps | Operations | Module |
|---|---|---|---|
| **Ingest life cycle** `services/ingest.py`, `services/document.py`, `graph/ingest/*`, `api/endpoints/ingest.py` | `Document` rows (status, fingerprint, path), files, chunks | upload / re-upload, retry, delete (one, folder), check, run of the ingest graph | `Ingest` |
| **Worker** `worker.py` | jobs in its slots, ARQ's queue and retry counters in Redis | take a job, startup sweep, shutdown | `Ingest` |
| **Vector index** `core/vector_db/*` | chunks keyed by (document, content) | upsert, list, delete by document or team, search | `Ingest`, `Storages` |
| **File storage** `utils/file_storage.py` | one directory per document, or the team's source folder | save, replace, stat, remove | `Ingest`, `Storages` |
| **KorDoc client** `graph/ingest/loader/kordoc_mcp.py` | one subprocess session per event loop, its request queue, a lock | parse, restart, close | `Kordoc` |
| **Team storage sync** `services/team_sync.py` | none of its own; a listing of the folder per pass | reconcile a storage with a team's rows; periodic loop | `Storages` |
| **Source storages** `services/storage.py` | `SourceStorage`, `TeamStorageLink` | create, connect, disconnect, delete | `Storages` |
| **Teams** `services/team.py` | `Team`, `TeamMember`, account roles | create, delete, invite, sign in, remove member, graph opt-in | `Members`, `Storages` |
| **Tokens** `services/auth.py` | `UserToken`, `RefreshToken`, `UserChatToken`, mailed codes | mail and verify a code, issue, rotate, revoke, one-time chat token | `Tokens` |
| **Canvas** `services/canvas.py`, `graph/doc/*` | `Canvas` row (status, head), immutable `CanvasVersion`s, the tree of sections and blocks | draft, open, edit, undo, redo, finalize | `Canvas`, `Edits` |
| **RAG workflow** `graph/rag/*`, `graph/router.py` | graph state of a turn (retry counter, scope, what was retrieved) | context, route, search loop, generate, feedback, summarize, remember | `Chat` |
| **Chat sessions** `api/endpoints/chat.py`, `api/ws/chat.py`, `services/session.py`, `services/memory.py` | per connection: auth, teams, active graph and thread; `Session`, `Conversation`, `UserMemory` | authenticate, configure, message, resume | `Chat` |
| **Terminal client** `commands/run.py` | the read-eval loop | connect, ask, receive, give up, rate | `Chat`, `Edits` |
| Parsers, LLM clients, configuration | none that outlives a call | | |

**Interactions.** API and worker are two processes that share the database, the
index, the files and a Redis queue; nothing locks a document across them. The
database rows are written in two styles: conditional `UPDATE ... WHERE status IN`
statements (`begin_processing`, `try_activate`, `fail_processing`,
`mark_deleting`), which are atomic, and `row.save()` calls, which write back every
column of a row read some awaits earlier. Most of the hazards in `PROJECT.json`
come from the second style, from check-then-act over several statements without a
transaction, from finalizations that touch three stores in turn, and from crashes
between their steps. The chat adds a protocol over one socket in which client and
server each believe to know whose turn it is.

**What is hard, and what makes each component right.**

* *Ingest.* Duplicate jobs, redeliveries, deletions in mid-run, re-uploads over
  a run, crashes of either process. Right when: a document in flight is always
  being carried by someone; an ACTIVE document is indexed under the version its
  row announces and nothing else; chunks never outlive their row; the worker
  neither revives nor removes a document behind its owner's back; an upload
  settles and a deletion is finished.
* *KorDoc.* Calls that time out while others queue, restarts that overlap,
  cancellation before a task's first step. Right when: there is never more than
  one subprocess; every call is answered once, and none hangs; nobody queues
  behind a document whose call has already timed out.
* *Canvas.* Tabs that work on copies of one row with an LLM call between read and
  write; block ids made from the length of a section, orders and batches that name
  blocks another tab has moved. Right when: undo always leads back to the draft
  and redo retraces it; the head moves one command at a time; a finalized document
  stays as it is; an operation hits the block its author saw; nothing vanishes.
* *Storages and team sync.* A pass lists a folder once and compares rows with it
  one by one while files change, the worker runs, and administrators disconnect
  and delete. Right when: each linked team ends up with the file's last version,
  searchable, and with nothing when there is no file; a team that is not linked
  has nothing of the storage; a deletion leaves no chunks.
* *Teams.* Check-then-act over memberships and accounts. Right when: a team keeps
  an administrator; a pending member is one who has never signed in; sign-ins do
  not mix organisations.
* *Tokens.* Rotation, revocation and code requests are several statements each.
  Right when: the device recovers from every race and lost answer; a revoked
  token stays revoked; a sign-out is final; rotation alone signs nobody out.
* *Chat and RAG.* Turn and interrupt protocol per connection, answers that rest on
  earlier turns, a bounded search loop, a write-back of four steps. Right when: an
  answer rests on teams of its own scope only; an answer is shown, rated and
  stored with its own question; client and server never wait for each other.

## 2. Plan

Done, in order of importance: `Ingest`, `Kordoc` (with the abstract `ParseService`),
`Canvas`, `Tokens`, `Storages`, `Members`, `Chat`, `Edits`; for each of the eight a
proof module with every safety property its runs check.

What composes with what: `Storages` takes the worker's run of a document in a few
steps (claim, check, upsert, commit, abort, and a failure after any), of which `Ingest` has every await;
`Members` takes the end of a team as one step, of which `Storages` has the documents
and links; `Tokens` ends where a sign-in begins to look for teams (`Members`);
`Chat` takes admission to a socket as one step after the tokens were checked, and
leaves what a document turn does to `Canvas` (interleavings) and `Edits` (content).

Left, in order:

1. An abstract document life cycle (absent, pending, searchable, failed, leaving)
   that both `Ingest` and the worker's part of `Storages` are shown to implement for
   documents nobody overlaps.
2. The choice between graphs per turn (`graph/router.py`), with teams that have opted
   in to another one, as an extension of `Chat`.
3. Folder deletion, group retry and the in-process mode of the ingest.

## 3. Ingest

One logical document (one team, storage and path); `Docs` are the ids its rows may
successively or, after a race, simultaneously have.

| In the model | In the code |
|---|---|
| `status`, `fp`, `fresh` | `Document.status`, `.source_fingerprint`, ids not used yet |
| `file` | content behind the path a run would read (private copy or the team folder) |
| `chunks` | versions of each document present in the vector index |
| `queue` | jobs in ARQ; jobs carry no id, so the same document may be there twice |
| `run[s]` | one worker slot in `run_ingest_for_document` and the graph nodes |
| `call[c]` | one API request in `upload_and_ingest`, `retry_document`, `delete_document_by_id` |
| `worker`, `sweep`, `swept` | `_on_startup` and `reconcile_deletions` |

Every `await` that touches shared state ends a step: an upload is look-up, file,
row, enqueue; a run is parse, claim, (reread), load, check, embed, upsert, list,
prune, activate, with the failure and cancellation paths; a finalization is chunks
and file, then row. `Claim`, `Activate`, `Fail`, `DeleteMark` are the conditional
updates; `UploadSaveRow` and `RetrySave` are the full-row saves. The constants
`TeamStorage` and `DeletesMayFail` select the storage mode and an index that loses
deletions. In team storage the folder is the owner's: `SourceChanged` replaces the file,
removes it or puts it back at any moment, between an upload and its run included. A run
indexes the file it finds when it starts (`expected`, the size and mtime of
ingest.py:187) and fails when that changes before the upsert; the row goes on announcing
what the upload saved until the next pass of the sync.

*History variables.* The code assumes, and does not enforce, that an API call
which writes or finalizes a row has the document to itself (`Overlapped`), that whoever
removes chunks lives to remove the row (`CutShort`), and that runs of one document
which overlap were started for the same revision of its source (`Diverged`: two queued
jobs, the file replaced between their starts; the late run prunes the chunks of the one
that has made the row ACTIVE). `tainted` collects the documents for which a behaviour
broke one of these; `lost` those whose job a crash or an exhausted ARQ retry swallowed;
`built[d]` is what the run that made `d` ACTIVE had read. They never influence a step. `NoStranded`, `WorkerNeverResurrects` and
`Settles` hold with no such exemption for overlaps.

| Run | Instance | What it shows |
|---|---|---|
| `ingest_legacy` | 2 ids, 2 contents, 2 slots, 2 concurrent requests; 3 requests in all, 1 redelivery, 1 crash | `NoStranded`, `NoOrphanChunks`, `ActiveIsIndexed`, `WorkerNeverResurrects`, `WorkerDeletesOnlyDeleting` for private storage |
| `ingest_team` | the same in team storage, deletions may fail, 1 redelivery | `NoStranded`, and `ActiveHasChunks` (a searchable document has the chunks of what the run that made it ACTIVE has read), while the owner replaces or removes the file and pruning may do nothing |
| `ingest_live` | 1 id, 1 content, 2 slots, 2 requests at a time; 3 requests, 1 redelivery, 1 crash, fair | `Settles`; `DeletionBeforeClaimFinishes` |
| `ingest_stuck` | as above, 2 requests, no crash | refutes `DeletionFinishes` (section 11) |

*Bounds.* Two slots are what duplicate jobs need to meet; three requests allow an
upload, a re-upload or retry, and a deletion to overlap, or two deletions of one upload;
two contents tell a chunk of an old version from one of the new; two ids allow the
double row of two first uploads, and a row deleted and created anew; one
redelivery and one crash each allow a second attempt, and each may hit any step. Two crashes
in a row are not covered. Liveness runs use one id and content because their
properties speak of one document's status only.

*Fairness.* Weak fairness of every coroutine that has been started (a request that was
admitted, a job in a slot, the startup sweep) and of picking up a queued job: the
event loop runs what is ready, ARQ polls its queue. None for clients, crashes, redeliveries,
file removal, nor for the restart of a dead worker: liveness conclusions therefore
exempt a dead worker.

`CHECK_DEADLOCK FALSE` in every configuration of this directory: once the bounded
requests are used up and all work is done, nothing has to happen.

## 4. Kordoc

`Kordoc` is the client object on one event loop. A *session* is one run of the
task `_run` with the queue created for it; a caller is a call of `parse`, or the
`close` at shutdown. Between two awaits nothing else runs, so `Submit` is
`_ensure_worker` and the `put` together, `Stop` the part of `_stop_locked` up to
the await of the cancelled task, `Stopped` what follows. `TimedOut` may fire in
the same loop turn in which the answer has arrived, as `wait_for` allows; `Die` of a session that
was cancelled before its first step skips `_run`'s `finally`; the request in
flight of a cancelled session is not failed by `_fail_pending`.

Run `kordoc`: three calls, up to three sessions, one shutdown, all
interleavings, under `FairSpec`. Three calls are one being served, one in the queue and
one that arrives during the restart; each call may need one new session, hence three.
`OneSession`, `Heard`, `NoQueueBehindHang` are invariants; `ParsesOnce` is the
refinement `ParseService`: each call is answered exactly once and every call is
answered. *Fairness*: timers fire and woken callers run (`Call`, `Restart`), a
cancelled or broken session ends (`Die`); KorDoc itself may never start or
reply. That a call ends nevertheless rests on its own timeout, which is why the
mutant that applies the timeout to the call and not to the queue breaks it.

## 5. Canvas and Edits

**`Canvas`: who writes when.** One canvas row, its versions numbered by `created_at`,
and `Conns` connections, each a LangGraph thread of its own (`api/endpoints/chat.py`
starts a fresh thread per message). `conn[c]` holds the copy of the row a node has
loaded, as in the code: `Save` writes both columns from that copy. `Command` is the
head of `apply_edit_node`, `NavRead`/`NavSave` undo and redo, `SetEditing`,
`WriteVersion`, `SaveVersion` an edit with its up to three writes,
`Open`/`OpenSave` `load_canvas`, `Finalize`/`FinalizeSave` the finalize node,
`Drop` a lost connection (or a new message, which abandons the turn) at any
point. An edit either changes the document or not.

*History variables.* `behind` is the set of connections whose copy somebody's save has
outdated since they read it, `raced` whether such a copy was ever saved,
`overlapped` whether two commands were ever at work at once. The code serializes
nothing, so `Timeline`, `HeadMovesByOne` and `LockHolds` are about the behaviours without
such a save; `Lineage` is about all.

Run `canvas` (2 connections, 5 versions): `Lineage` always; `Timeline` (redo
retraces undo, abandoned branches stay unreachable) unless commands overlap, a
connection dying between its two writes included; `HeadMovesByOne` and `LockHolds`
except for the save of an outdated copy. Five versions allow a draft, an edit, an
undo, an edit that branches, and a further edit on either branch; two connections
are all that a stale copy needs.

**`Edits`: what a command does.** `doc` is the payload of the head version: sections
of blocks, each with its id, the placeholders in its text and, as a ghost, the edit
that created it (`born`); `view[t]` is the payload a tab was last sent and aims by.
The operators are those of `services/canvas.py`: `Find`, `AssignIds`, `NextId`,
`AddBlock`, `DeleteBlock`, `Reorder` (with `Kept`, the blocks an order does not list), `SetText`,
`FillTerms`; `Apply` and `Payloads`
are `_apply_one_op` and `_apply_batch` with operations that fit nothing left out of
the batch; `Bind`, `ResolveAnchor`, `Ground`, `Draft`, `Regenerate` are the nodes of a
drafting turn. A command is one step, because `Canvas` has the interleavings.

*History variables.* `spent` and `reused` are ids ever given, and given again (after
the last block of a section was deleted, or by a redraft); `doubled` says that an
order listed an id twice; `loose` are labels an edit has written or taken away;
`missed`, `lost`, `entered` record what the properties speak of.

Run `edits` (2 tabs, 4 documents with 2 templates, 1 label, 1 party with 2 names, one
tree of 2 sections and 3 blocks, 2 commands, batches of up to 2 operations):
`UniqueIds`, `AimedRight`, `NothingLost`, `TermsMatch`, `Grounded`. Two commands of
two operations are what it takes for one tab to free an id, give it again, and
another tab to aim at it; a label in two blocks tells "everywhere" from "first".

## 6. Tokens

One user on one device. `access` and `refresh` are the rows of each issued pair, `jar`
the cookie all tabs of the browser share, `tab[t]` a tab with its one request,
`codes` and `inbox` the mailed codes. Each database statement of `services/auth.py`
is a step: `AskCode`, `CreateCode`, `SendCode` (`/auth/login`), `VerifyCode` and the
four `Login...` steps (`generate_token`), `RefreshRead` to `RefreshRotate`
(`refresh_token_flow`), `Logout...` (`revoke_token`), the answers, which alone touch
the browser, and `Lost`: a request that dies between two statements, or whose answer
gets lost. `RefreshRotate` is the full-row save of the row that was read three
statements before; `Answer401` keeps the cookie, because the `delete_cookie` goes with
the response that the exception replaces.

*History variables.* `crowd`: tabs whose request overlapped another of its kind;
`settled`: the last token request ran alone and to its end; `clean`: nothing
overlapped, died or got lost since the sign-in; `out`: a sign-out ran alone;
`codeAlone`: the last code was asked for alone.

Run `tokens` (2 tabs, 3 pairs, 2 codes): `SelfHealing`, `NeverSignedOut`, `SignedOut`,
`OneCode`, `NoResurrection`. Three pairs are a sign-in and the two successors of a
double refresh; a third refresh then finds and revokes both. Two codes collide.

## 7. Storages

One storage with one file, the teams linked to it, and for each document id its row,
its job, the run of the worker and its chunks in one record. `Sync...` is
`sync_team_storage` (`services/team_sync.py`), statement by statement: the folder is
listed once, the row looked up (`get_or_none`, which fails on two rows), created or
saved whole, the job enqueued, and rows without a file removed in two steps. `Claim`,
`Check`, `Upsert`, `Abort`, `Commit` are the worker's run, and `Fail` its failure after any of
them: past the upsert it leaves the chunks it has written, whatever has become of the row
(`fail_processing` does nothing to a row that is gone or DELETING). `Disconnect` ...
`DropTeam` are `disconnect_storage`, `delete_source_storage` and `delete_team`, with foreign
keys that take rows and not chunks (`CascadeStorage`, `DropTeam`). `delete_team` skips the
documents that are DELETING when it lists them; each of the others goes through
`TeamDocument` (look-up), `TeamMark` (`mark_deleting`) and, unless it is in flight by
then, `TeamClean` and `TeamDocumentRow`: also a document that has become DELETING
since it was listed, whose run may still be at work.

*History variables.* `interfered`: a document row was created or a team connected
during a removal, or after the link went; `twins`: teams one of whose passes wrote a version while another, which had
found no row, was about to create the row of a different one (of the same one the unique
fingerprint refuses the second); `excused`: documents whose run, its chunks written, failed
when the row was gone, or ended between the removal of the chunks and that of the row, or
whose row a foreign key took; `cascaded`: a foreign key removed a row; `trouble`: a job was lost, a
run failed by itself, or a source vanished under a queued job.

| Run | Instance | What it shows |
|---|---|---|
| `storages` | owner and one reader, 1 pass, 2 administrators with 2 requests, 1 version, 2 documents | `LinkedOnly`, `NoCascade`, `NoOrphans` under every overlap of a pass, a run and two removals |
| `storages_live` | one team, 2 passes at once, 2 versions, 2 documents, fair | `OneRow`; `Converges` |

*Bounds.* A removal meets at most one pass of its team unless two removals meet each
other: two requests and one pass. In `storages_live` two versions let the file change
between the listings of two passes, during a pass and during a run; the two documents are
the two rows that a collision makes, or one row and one whose remains are still there. One
team is enough, since passes of different teams share nothing but the file (`OneRow` is
proved for any number of either).
*Fairness*: the scan loop visits every link for ever, so starting a pass for a team,
and listing with a file that has rested long enough, are strongly fair; passes and
runs that have begun go on and the worker takes its jobs (weakly fair). Nothing is
assumed of administrators.

Outside the properties, since the code does nothing about them: a finalization by an
administrator's request that dies after the chunks leaves an ACTIVE row that nobody
indexes again (requests may stop for ever in the model, but `NoOrphans` speaks of
chunks, not of rows); a run that fails after its upsert with the row gone leaves chunks
that no request names any more (`excused`, nodes.py:277); a job that Redis refuses after the row was saved leaves an
UPLOADING row with the new fingerprint, which every later pass takes for done
(`trouble`, team_sync.py:136).

## 8. Members

Accounts, teams and memberships under `Requests` that run side by side, each a program
counter and what it has read. `Invite...` is `invite_member`; `SignIn...` is
`create_or_get_user` and the automatic team (`FindTeam`, `NewTeam`, `Provision`,
`CompareDomains`: the members of another domain send the user to a team named like the
whole domain); `Create...` is `create_team` with its compensation (`DeleteTeamRow`);
`Remove...` is `remove_member`: read the row, count the administrators, delete;
`CliFind`/`CliAdd` is `issue_cli_tokens`; `Die` ends a request anywhere. `row` says
whether the row a request has read is still there: deleting a team or a membership
tells those that hold it (`RowsGone`).

*History variables.* `led`: teams that have had an administrator; `contest`: a removal
counted while another of its team had counted and not deleted; `hasty`: users whose
invitation overlapped their sign-in, or whose first sign-in died half-way; `auto`: who
was added by a sign-in; `mingled`: teams with invitations or overlapping sign-ins.

Run `members` (2 users of 2 domains with the same first label, the system
administrator, 2 requests at a time, 4 in all): `LastAdmin`, `PendingMeansUnused`,
`DomainsApart`. Four requests allow a sign-in, an invitation, and two removals, or two
sign-ins with the creation and deletion of the team they join.

Known behaviour the properties leave aside: two removals that overlap leave a team
without an administrator (`contest`); a private team that a user names like the first
label of a domain receives that domain's sign-ins; provisioning that fails deletes the
members who have joined in between along with the team.

## 9. Chat

Connections of one user that share a session, each with its client
(`commands/run.py`), a queue in each direction, and its handler (`api/endpoints/chat.py`).
`Ask`, `Receive`, `GiveUp`, `Answer` are the read-eval loop; `ServeMessage`,
`ResolveGraphs`, `ServeResume`, `StreamEnd`, `StreamFails` the endpoint and the stream
of a turn; `BuildContext` to `Remember` the nodes of the RAG graph, with the interrupts
for a score and a reason, the search loop, and the four steps of the write-back.
`thread[c]` says where the graph of the current turn is paused, which decides what a
`resume` does; a node that failed is still due and is run again, the write-back
included. That has three statements that may each fail (`SaveTurn`: the conversation, then
its references; `SaveSummary`: the session), so that the turn may be stored although the
node is still due. `run[c].from` is the
set of teams whose documents can have reached the prompt, directly or through the
conversations of earlier turns.

*History variables.* `rolled`: turns that were written to the rolling summary;
`crossed`: two turns wrote back at the same time; `late` flags mark questions, answers
and turns of a socket on which the client has given up before: from then on its
questions and the events are one turn apart and its scores are those of another
answer. Its reply may also reach a thread whose write-back has failed, and run it again,
which stores the turn a second time. That is what the code does, and the properties
exempt it; a client that has not given up never replies to a turn that has failed.

Run `chat` (2 teams, 2 connections, questions with all teams or with one, at most 2
retries, 1 recent turn, 1 fault; one connection asks twice, also with two rows of a
memory key from the past, or two ask once each): `MemoryScoped`, `OwnAnswers`,
`SavedOnce`, `SummaryKeeps`, `NoMutualWait`. Two turns are what context needs, two
connections what the write-back needs; the fault (a timeout, a lost connection, a
changed membership) may hit any step. The run's `View` takes states for one that differ
only in what no later step reads (the counter of searches after the search, the summary
in hand once it is saved). No liveness is claimed: a model call may never
answer.

Two rows of one memory key make every later look-up of that key fail (memory.py:57),
which the run includes (`facts = 2` at the start): the turn fails after it was stored, and
the client is told.

## 10. How the modules fit together

Each property is about the module whose state it reads; what a module takes as one
step is another module's subject: the run of the worker (`Storages` / `Ingest`),
a team's end (`Members` / `Storages`), a sign-in (`Members` / `Tokens`), a canvas
command (`Edits` / `Canvas`), a document turn (`Chat` / `Canvas`), a parse
(`Ingest` / `Kordoc`, whose promise is `ParseService`).

## 11. Finding

*A deletion that meets a failing run is not finished* (`ingest_stuck`).
docs/ingest-api.md:230 promises that the worker finalizes a deletion of a document in
mid-ingest "shortly after"; a run that fails after the mark leaves the row DELETING
until the worker restarts or the client deletes again.

## 12. Proofs

All theorems hold for every value of the constants, under the named assumptions of the
modules: `NoneAssumption` (None is no document, content, session or caller),
`SlotsAssumption` and `UsersAssumption` (finitely many slots and users),
`DomainAssumption`, `NamesAssumption` (the names of teams and of the system
administrator are what they are), `SwitchAssumption`, `NumbersAssumption`,
`ScopesAssumption`, and the bounds being numbers.

**IngestProofs.** `TypeCorrect`: `Spec => []TypeOK`. `TypeOK` is inductive by itself because
it includes `RunOK` and `CallOK`: a run past "idle" names a document, a run past
parsing names the content it parsed, a request at work names a document; without
them the typing of `status'` and `chunks'` would not follow. One lemma per group of
actions (`TypeRequest`, `TypeServe`, `TypeJob`, `TypeRest`) on top of lemmas about
the primitives (`RunStepType`, `QueueType`, `HistoryType`...).
`NoStrandedHolds`: `Spec => []NoStranded`. `NoStranded` is inductive relative to
`TypeOK`. The argument is about who carries a document: a step of a
run or request that does not touch the document's row leaves its carriers (`CarriedKept`,
`CarriedByRuns`); a step that writes UPLOADING is a request that goes on to
"enqueue"; a claim that succeeds carries on as a working run; a working run stops
only by ending PROCESSING itself, or when the row is not PROCESSING any more;
a crash puts what it does not redeliver into `lost`.
`NeverResurrects`: `Spec => WorkerNeverResurrects`, action by action: only API
calls write to a DELETING row anything but its removal.

The other ingest properties exempt the documents that an API call overlapped with somebody
(`tainted`), and their invariants say what holds of all others. `Apart`: a document on
which an API call that writes overlaps a run, the sweep or another such call is tainted,
so the others are written by one actor at a time; and no run is at work while the worker
is down. `Condemned`: a row that the sweep or a cancelled run is about to remove is
DELETING, or gone already. From the two follows `DeletesOnlyDeleting`
(`WorkerDeletesOnlyDeleting`), although a cancelled run finalizes without looking at the
row again.

`IndexInv` adds what a run knows about the text it carries. `Sourced`: the stored file,
while there is one, holds what the row's fingerprint says, or what the request about to
save the row will make it say. `Built`: the content a run has parsed is what the row
announces, and past the upsert the index has its chunks. `Searchable`: so it has for an
ACTIVE row. In team storage, where nothing ties the file to the fingerprint, `Built` and
`Searchable` speak of the revision the run has started with (`Text`) and of `built`, and
need that runs of one document which overlap have the same revision (`Apart`). That is
`ActiveIsSearchable` (`ActiveHasChunks`), for both values of `TeamStorage` and of
`DeletesMayFail`. In private directories, with `Pruned` (a run past the listing knows of
every older version, and past the prune there is none) it gives `ActiveIsExact`
(`ActiveIsIndexed`), and with `Buried` (when a row is gone or about to go, chunks are left
only to a run that will still delete them) `ChunksFollowRows` (`NoOrphanChunks`). These
two have the hypothesis `~DeletesMayFail`, as the run that checks them does: the code logs
a failed deletion of chunks and goes on, so that without it both are false.

**KordocProofs.** `SingleSession`: `Spec => []OneSession`. `OneSession` is not inductive;
`Known` strengthens it: a live session is either the one in charge (`task`) or the one a
caller awaits under the lock (`stopping`), and while someone is stopping no other is in
charge. `FailuresSurface`: `Spec => []Heard`, with `Holding` (a session that was not
cancelled has a request in flight only while it calls KorDoc, and a session that was never
created is empty) as the strengthening.

`HangsAreKilled`: `Spec => []NoQueueBehindHang`, from `Killed` (the session a restart
waits for is one it has cancelled) and `HangInv` (the call that a session nobody has
cancelled is making has not reported a timeout). `AnswersOnce`: `Spec => Service!Safe`,
the safety half of the refinement of `ParseService`: with `Settled` (a call that has
stopped waiting has an outcome, and whoever holds the lock to stop a session has stopped
waiting) every step of `Kordoc` is a step of the service or leaves its answers alone. The
other half of `ParsesOnce`, that every call is answered, is liveness and only
model-checked.

**CanvasProofs.** `UndoReachesDraft`: `Spec => []Lineage` and `LockIsKept`:
`Spec => LockHolds`, from one inductive invariant `IInv`: `TypeOK`, `Lineage`,
`Untouched` (before the draft there is nothing) and, for every connection, `Sane`:
only the drafting connection exists before the first version (`Drafting`: that is why
no second root can appear), its copy's head and target are versions that exist (`Known`), it works only on a canvas with a
head (`Seen`), its copy is not FINALIZED unless it is finalizing itself (`Unlocked`), and unless it is in
`behind` its copy equals the row (`UpToDate`): a save by a connection that is not behind
starts from the row as it is, which is not FINALIZED.

`OneMoveAtATime`: `Spec => HeadMovesByOne`, from `Aimed`: what a connection is about
to make the head is the base of the head it has read, or derives from it. `SingleTimeline`:
`Spec => []Timeline`, from three invariants on top. `Solo`: while no commands have overlapped
nobody's copy is outdated and one connection works at most. `Forwards`: then an undo aims at the base, a
redo at the latest child, and an edit at the version it has just written. `OneLine`: every version
between the draft and the head is the latest of its base. `Ancestors` is the least set with the
head in it that has the bases of its members (`HasBases`), so that the proof needs no
induction: a set closed under bases that lacks a version would be smaller.

**TokensProofs.** `TypeCorrect` and all five properties of the run: `TokensStayDead`,
`RefreshHeals`, `RotationKeeps`, `SignOutIsFinal`, `CodeIsAlone`. The invariant has two
layers. `Rows` is about what is drawn and not yet written: pairs beyond `issued` have no
rows (`Undrawn`), two requests never write the same pair (`Distinct`), and the pair of a
request has no refresh row until the request writes it (`Fresh`). On top of it, for a
request that is alone (`Solo`), `Path` and `CodePath` say what the rows are at each of
its steps, since nobody else can have changed them; `Settled`, `Kept`, `Gone`, `CodeDone`
say what is left when it is over, and are the properties. A request that dies leaves the
path anywhere, which is why `Path` starts from nothing but `Rows`.

**ChatProofs.** `TypeCorrect` and all five properties of the run. `AnswersAreScoped`
(`MemoryScoped`) and `NobodyWaits` (`NoMutualWait`) rest on `TypeOK`, `Stored` (a stored
conversation rests on its own scope) and for each connection `Within` (what has reached
the prompt is within the scope, the scope within the teams read), `Turning` (a turn under
way or paused has a name), `Told` and `Heard`. `ContextScoped` carries the argument
through any number of turns: a conversation is context only for a scope that contains its
own, and inclusion is transitive. `NobodyWaits` needs `Told`: the last event a waiting
handler has sent and the client has not read is not a token of an answer, because whatever
brings the handler back to waiting sends an event that ends the client's wait.

`SummaryIsKept` (`SummaryKeeps`) rests on `SumInv`: unless two turns write back at once,
one turn at most is between reading the summary and saving it, and what it has read is
still the summary; the same for the key it has looked for.

`AnswersAreOwn` (`OwnAnswers`) rests on `ProtoInv`, the protocol between client and
handler while the client has not given up. A client that waits is in one of four
situations: the handler is gone (`Closed`), has its question or reply before it
(`Posted`), has sent how the turn ends (`Ended`), or is at work on the question with at
most the answer under way (`Working`); when the client does not wait, nothing is under way
in either direction (`Resting`). `Timely`: its reply is the first of its queue, and the
handler waits with the turn the reply is about; `Rated`: what a handler has noted as rated
is its own turn. `TurnsStoredOnce` (`SavedOnce`) adds that turns are stored in the order
of their names (`Ordered`), that one whose save lies ahead (`Ahead`) is not stored yet,
unless it is `late` (`Unsaved`), and then every stored copy of it is (`Alike`). A failure
after the insertion leaves a thread whose write-back is due with the turn stored. By
`ProtoInv` no client replies to a failed turn unless it has given up before, and by
`HeedsInv` what such a client sends reaches only turns it has asked for since, which are
`late` from the start (`Retries`).

**MembersProofs.** `TypeCorrect` and all three properties of the run: `KeepsAnAdmin`
(`LastAdmin`), `PendingIsUnused` (`PendingMeansUnused`) and `DomainsStayApart`
(`DomainsApart`), each with an invariant of its own above `TypeOK`. `LastAdmin` is far from
inductive: what keeps an administrator is what the removal under way has read. `Held`: a
row that was read and not deleted since still is a row, of a team that exists, and an
administrator's still is one (nobody is ever demoted). `Spare`: a removal that is about to
delete an administrator leaves another one and is the only such removal in its team,
unless `contest`; it starts when the count is at least two (`AnotherAdmin`) and stays true
because everybody else only adds members or deletes those who are no administrators.
`Headed` (the system administrator has no other role) makes sure that a team joins `led`
with an administrator in it, `Named` that invitations and sign-ins are about people with an
address. Most actions are instances of `GrowsOK` (a step after which everybody keeps what
they have); the removals and the deletion of a team have lemmas of their own.

`PendingMeansUnused` rests on `UInv`: of a user who is not `hasty`, an invitation and a
sign-in are never under way together (`Apart`); a sign-in past the account has made it an
editor's (`Past`); an invitation about to add a member gives the role the account calls
for (`Giving`), which no sign-in can change meanwhile; and a pending membership of an
editor exists only while a sign-in is about to settle it (`Used`).

`DomainsApart` rests on `DInv`: the members that sign-ins have added are members, and in a
team named after a domain they are of that domain (`Listed`); as long as nobody is invited
to the automatic team nobody else is a plain member of it (`Known`), so the comparison of
team.py:426 sees all whom it is about; a sign-in on its way to the automatic team has found
its own domain there or nobody (`Compared`), and that stays true until it joins because
sign-ins have not overlapped (`Lone`) and every other step only takes members away.

**StoragesProofs.** `TypeCorrect` and the four safety properties of the runs.
`OrphansNever` (`NoOrphans`) rests on `CleanAll`: a document whose row is gone or about to
go (`Doomed`) has chunks only while a run is between its upsert and its commit, where it
will still look at the row, unless the history excuses it. `Tidy` is what every step but
the worker's may do: remove chunks or leave them, and remove a row only after its chunks
or by a foreign key. A run that fails past its upsert is fine as long as the row is there,
where the next run or removal finds the chunks, and otherwise excused (`LeftBehind`).
`OneRowEach` (`OneRow`) rests on `LoneInv`: outside `twins` a team has one row at most
(`Sole`); a pass that saves a row has found it in its team (`Own`); and while a pass is
about to create a row, the rows that others have created since it looked are of the very
version it has listed (`Creating`), so that the unique fingerprint refuses its own.
`LinkedRows` (`LinkedOnly`) and
`CascadesNever` (`NoCascade`) rest on `CoverInv`: unless a row or a link was made during a
removal, the rows it is responsible for (`Scope`) are on its list while it deals with them
(`Pending`) and none is left when it comes to the link, the storage or the team
(`Covered`), whatever passes, runs and other removals take away meanwhile; and a team with
rows is linked (`Linked`). So there is nothing left for a foreign key.

**EditsProofs.** `TypeCorrect` and all five properties of the run: `IdsAreUnique`
(`UniqueIds`), `AimsHold` (`AimedRight`), `NothingIsLost` (`NothingLost`), `TermsTally`
(`TermsMatch`), `DraftsAreGrounded` (`Grounded`), for any trees, labels and batches of any
length. The invariant `EditInv` says of the canvas that an id names its section and one
block, copies included (`Sound`), that the open terms are those of the text but for loose
labels (`Tallied`) and that ids are `Distinct` unless an order listed one twice; of the
tabs, that the ids they see were given (`Seen`) and name what they name in the canvas
unless they were given again (`Agrees`). `UniqueIds` alone is not inductive: without
`Sound` a block could bear the id of another section, which `NextId` does not look at.

The lemmas go up in four layers: sequences (`KeptMembers`, `InsertAtMembers`,
`RemoveAtMembers`), payloads (`FindFinds`; `NextIdIsFree`, which is the pigeonhole
principle: one candidate more than the section has blocks), what each operation does to a
section and to the payload (`SectionStep`, `PayloadStep`, `ApplyStep`), and batches
(`BatchSteps`, `BatchAgrees`). `Kept` and `Payloads` are recursive functions; that they
exist and what they compute is proved by counting up (`Climb`, from the least number of a
nonempty set), with a set where an induction principle would have a predicate.
`ShapesAssumption` says that the trees the model writes are sequences of sections of
blocks.

**Only model-checked.** Liveness under fairness, which is out of the prover's reach here:
`Settles`, `DeletionBeforeClaimFinishes`, `Converges`, and of the refinement `ParsesOnce`
that every call is answered. Every invariant and every action property of the passing runs
is a theorem.

## 13. Not modelled

* Ingest: folder deletion, group retry, `/ingest/check` and the in-process mode; ARQ's
  job timeout (a cancelled job whose thread of the upsert goes on).
* KorDoc: a second event loop in one process.
* Canvas: the texts themselves, the classification of a request by a model, the source
  references of single blocks. A redraft in a reopened thread is grounded without the
  instruction of the canvas (edit.py:257); that is about texts only.
* Tokens: the one-time chat token (auth.py:346 checks and marks it in two statements, so
  that two connections presenting it at once are both admitted), renaming a user;
  `revoke_all_user_tokens` and `revoke_chat_token` have no callers.
* Storages: creating and listing storages; several files per storage, which do not
  interact beyond the pass that handles them one by one.
* Members: the graphs a team has opted in to, details and lists.
* Chat: the choice between graphs per turn. A graph that one team of the scope has opted
  in to is offered for the whole scope, other than the comment at chat.py:166 suggests;
  the properties here are about the default graph. Also heartbeats, tracing, listing and
  deletion of sessions and memories, and the `/team` command of the client.
* Retrieval and ranking compute scores with external models; parsers, splitters,
  embedders and LLM clients are external computations without a protocol of their own;
  configuration, CLI wiring and templates are input and output.
