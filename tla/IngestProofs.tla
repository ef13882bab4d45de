---------------------------- MODULE IngestProofs ----------------------------
(***************************************************************************)
(* Theorems about the document life cycle of Ingest, for every set of      *)
(* documents, slots and requests and every value of the bounds.            *)
(***************************************************************************)
EXTENDS Ingest, FiniteSetTheorems, TLAPS

----------------------------------------------------------------------------
(* What the building blocks of the actions do to the types.                *)

LEMMA IdleRecords == IdleCall \in CallRecord /\ IdleRun \in RunRecord
BY DEF IdleCall, CallRecord, CallPc, IdleRun, RunRecord, RunPc

LEMMA CallToType ==
    ASSUME CallOK, NEW c \in Calls, NEW pc \in CallPc, CallTo(c, pc), ~CallAt(c, "idle")
    PROVE  CallOK'
<1>1. /\ call' \in [Calls -> CallRecord]
      /\ \A x \in Calls : call'[x].doc = call[x].doc /\ (x # c => call'[x] = call[x])
  BY DEF CallOK, CallTo, CallRecord
<1> QED BY <1>1 DEF CallOK, CallAt

LEMMA EndCallType ==
    ASSUME CallOK, NEW c \in Calls, EndCall(c)
    PROVE  CallOK'
BY IdleRecords DEF CallOK, CallAt, EndCall, IdleCall

\* A request that enters the handler with a record that names a document.
LEMMA AdmitType ==
    ASSUME CallOK, NEW c \in Calls, NEW r \in CallRecord, r.doc \in Docs,
           call' = [call EXCEPT ![c] = r]
    PROVE  CallOK'
BY DEF CallOK, CallAt

\* A run that goes on keeps its document, and its version once it has one.
LEMMA RunStepType ==
    ASSUME RunOK, NEW s \in Slots, NEW r \in RunRecord, run' = [run EXCEPT ![s] = r],
           r.pc # "idle" => r.doc \in Docs,
           r.pc \in Parsed => r.content \in Versions
    PROVE  RunOK'
BY DEF RunOK, RunOf

LEMMA RunToType ==
    ASSUME RunOK, NEW s \in Slots, NEW pc \in RunPc, RunTo(s, pc), ~RunOf(s, "idle"),
           pc \in Parsed => run[s].pc \in Parsed
    PROVE  RunOK'
<1>1. /\ run' \in [Slots -> RunRecord]
      /\ \A x \in Slots : /\ run'[x].doc = run[x].doc /\ run'[x].content = run[x].content
                          /\ x # s => run'[x] = run[x]
      /\ run'[s].pc = pc
  BY DEF RunOK, RunTo, RunRecord
<1> QED BY <1>1 DEF RunOK, RunOf

LEMMA EndRunType ==
    ASSUME RunOK, NEW s \in Slots, EndRun(s)
    PROVE  RunOK'
BY IdleRecords, RunStepType DEF EndRun, IdleRun, Parsed

LEMMA QueueType ==
    ASSUME queue \in [Docs -> Nat], NEW d, NEW f, f = [queue EXCEPT ![d] = @ + 1]
    PROVE  f \in [Docs -> Nat]
<1>1. ASSUME NEW e \in Docs
      PROVE  f[e] \in Nat
  <2>1. CASE e = d
    <3>1. f[e] = queue[e] + 1 /\ queue[e] \in Nat
      BY <2>1
    <3> QED BY <3>1
  <2>2. CASE e # d
    BY <2>2
  <2> QED BY <2>1, <2>2
<1> QED BY <1>1

LEMMA SetStatusType ==
    ASSUME status \in [Docs -> Rows \cup {"ABSENT"}], NEW d,
           NEW st \in Rows \cup {"ABSENT"}, SetStatus(d, st)
    PROVE  status' \in [Docs -> Rows \cup {"ABSENT"}]
BY DEF SetStatus

LEMMA DeleteChunksType ==
    ASSUME chunks \in [Docs -> SUBSET Versions], NEW d, NEW ids, DeleteChunks(d, ids)
    PROVE  chunks' \in [Docs -> SUBSET Versions]
BY DEF DeleteChunks

LEMMA FileRemovedType ==
    ASSUME file \in [Docs -> Versions \cup {None}], NEW d
    PROVE  FileRemoved(d) \in [Docs -> Versions \cup {None}]
BY DEF FileRemoved

LEMMA CleanUpType ==
    ASSUME chunks \in [Docs -> SUBSET Versions], file \in [Docs -> Versions \cup {None}],
           NEW d, CleanUp(d)
    PROVE  chunks' \in [Docs -> SUBSET Versions] /\ file' \in [Docs -> Versions \cup {None}]
BY DeleteChunksType, FileRemovedType DEF CleanUp

LEMMA HistoryType ==
    ASSUME tainted \subseteq Docs, History
    PROVE  tainted' \subseteq Docs
BY DEF History

----------------------------------------------------------------------------
(* Type correctness.                                                       *)

LEMMA TypeInit == Init => TypeOK
BY IdleRecords DEF Init, TypeOK, RunOK, RunOf, CallOK, CallAt, IdleRun, IdleCall, Parsed

\* A request is admitted.
LEMMA TypeRequest ==
    ASSUME TypeOK, NEW c \in Calls, Request(c)
    PROVE  TypeOK'
<1> USE HistoryType DEF TypeOK, RunOK, RunOf, table, boot, env, past, Admit
<1>1. CASE UploadLookup(c)
  <2>1. ASSUME NEW d \in Docs, NEW v \in Versions, NEW b \in BOOLEAN
        PROVE  [pc |-> "save_file", doc |-> d, version |-> v, existing |-> b] \in CallRecord
    BY DEF CallRecord, CallPc
  <2>2. \E d \in Docs, v \in Versions, b \in BOOLEAN :
            call' = [call EXCEPT ![c] = [pc |-> "save_file", doc |-> d,
                                         version |-> v, existing |-> b]]
    BY <1>1, Zenon DEF UploadLookup
  <2>3. CallOK'
    BY <2>1, <2>2, AdmitType
  <2>4. fresh' \subseteq Docs /\ ops' \in Nat
    BY <1>1 DEF UploadLookup
  <2> QED BY <1>1, <2>3, <2>4 DEF UploadLookup
<1>2. CASE RetryRead(c)
  <2>1. ASSUME NEW d \in Docs
        PROVE  [pc |-> "retry_save", doc |-> d, version |-> fp[d], existing |-> TRUE] \in CallRecord
    BY DEF CallRecord, CallPc
  <2>2. CallOK'
    BY <1>2, <2>1, AdmitType DEF RetryRead
  <2> QED BY <1>2, <2>2 DEF RetryRead
<1>3. CASE DeleteLookup(c)
  <2>1. ASSUME NEW d \in Docs
        PROVE  /\ [IdleCall EXCEPT !.pc = "mark", !.doc = d] \in CallRecord
               /\ [IdleCall EXCEPT !.pc = "mark", !.doc = d].doc = d
    BY DEF CallRecord, CallPc, IdleCall
  <2>2. CallOK'
    BY <1>3, <2>1, AdmitType DEF DeleteLookup
  <2> QED BY <1>3, <2>2 DEF DeleteLookup
<1> QED BY <1>1, <1>2, <1>3 DEF Request

\* A request goes on.
LEMMA TypeServe ==
    ASSUME TypeOK, NEW c \in Calls, Serve(c)
    PROVE  TypeOK'
<1> USE HistoryType, CallToType, EndCallType, SetStatusType
    DEF TypeOK, RunOK, RunOf, CallAt, CallPc, Rows, table, boot, env, past
<1>0. call[c] \in CallRecord
  BY DEF CallOK
<1>1. CASE UploadSaveFile(c)
  <2>1. file' \in [Docs -> Versions \cup {None}]
    BY <1>0, <1>1 DEF UploadSaveFile, WriteFile, CallRecord
  <2> QED BY <1>1, <2>1 DEF UploadSaveFile
<1>2. CASE UploadSaveRow(c)
  <2>1. /\ status' \in [Docs -> Rows \cup {"ABSENT"}]
        /\ fp' \in [Docs -> Versions \cup {None}]
    BY <1>0, <1>2 DEF UploadSaveRow, CallRecord
  <2>2. CallOK'
    BY <1>2 DEF UploadSaveRow
  <2> QED BY <1>2, <2>1, <2>2 DEF UploadSaveRow
<1>3. CASE Enqueue(c)
  <2>1. queue' \in [Docs -> Nat]
    BY <1>3, QueueType DEF Enqueue
  <2> QED BY <1>3, <2>1 DEF Enqueue
<1>4. CASE RetrySave(c)
  <2>1. /\ status' \in [Docs -> Rows \cup {"ABSENT"}]
        /\ fp' \in [Docs -> Versions \cup {None}]
    BY <1>0, <1>4 DEF RetrySave, CallRecord
  <2> QED BY <1>4, <2>1 DEF RetrySave
<1>5. CASE DeleteMark(c)
  BY <1>5 DEF DeleteMark
<1>6. CASE DeleteCleanUp(c)
  BY <1>6, CleanUpType DEF DeleteCleanUp
<1>7. CASE DeleteRow(c)
  BY <1>7 DEF DeleteRow, DropRow
<1> QED BY <1>1, <1>2, <1>3, <1>4, <1>5, <1>6, <1>7 DEF Serve

\* A run goes on.
LEMMA TypeJob ==
    ASSUME TypeOK, NEW s \in Slots, Job(s)
    PROVE  TypeOK'
<1> USE HistoryType, RunToType, EndRunType, SetStatusType
    DEF TypeOK, CallOK, CallAt, RunOf, RunPc, Parsed, Rows, table, boot, env, past
<1>0. run[s] \in RunRecord
  BY DEF RunOK
<1>1. CASE ParseRead(s)
  BY <1>1 DEF ParseRead
<1>2. CASE Claim(s)
  BY <1>2 DEF Claim
<1>3. CASE Reread(s)
  BY <1>3 DEF Reread
<1>4. CASE Load(s)
  <2>1. RunOK'
    <3>1. CASE RunTo(s, "fail")
      BY <1>4, <3>1 DEF Load
    <3>2. CASE /\ file[run[s].doc] # None
               /\ run' = [run EXCEPT ![s].pc = "check", ![s].content = file[run[s].doc]]
      <4> DEFINE r == [run[s] EXCEPT !.pc = "check", !.content = file[run[s].doc]]
      <4>1. run[s].doc \in Docs
        BY <1>4 DEF RunOK, Load
      <4>2. r \in RunRecord /\ r.doc = run[s].doc /\ r.content \in Versions
        BY <1>0, <3>2, <4>1 DEF RunRecord
      <4>3. run' = [run EXCEPT ![s] = r]
        BY <3>2 DEF RunOK
      <4> HIDE DEF r
      <4> QED BY <4>1, <4>2, <4>3, RunStepType
    <3> QED BY <1>4, <3>1, <3>2 DEF Load
  <2> QED BY <1>4, <2>1 DEF Load
<1>5. CASE Check(s)
  BY <1>5 DEF Check
<1>6. CASE Embed(s)
  BY <1>6 DEF Embed
<1>7. CASE Upsert(s)
  <2>1. RunOK'
    BY <1>7 DEF Upsert
  <2>2. run[s].content \in Versions
    BY <1>7 DEF Upsert, RunOK
  <2>3. chunks' \in [Docs -> SUBSET Versions]
    BY <1>7, <2>2 DEF Upsert
  <2> QED BY <1>7, <2>1, <2>3 DEF Upsert
<1>8. CASE ListChunks(s)
  <2>1. PICK ids \in {chunks[run[s].doc]} \cup (IF DeletesMayFail THEN {{}} ELSE {}) :
            run' = [run EXCEPT ![s].pc = "prune", ![s].listed = ids]
    BY <1>8, Zenon DEF ListChunks
  <2> DEFINE r == [run[s] EXCEPT !.pc = "prune", !.listed = ids]
  <2>2. run[s].doc \in Docs /\ run[s].content \in Versions
    BY <1>8 DEF RunOK, ListChunks
  <2>3. r \in RunRecord /\ r.doc = run[s].doc /\ r.content = run[s].content
    BY <1>0, <2>1, <2>2 DEF RunRecord
  <2>4. run' = [run EXCEPT ![s] = r]
    BY <2>1 DEF RunOK
  <2> HIDE DEF r
  <2>5. RunOK'
    BY <2>2, <2>3, <2>4, RunStepType
  <2> QED BY <1>8, <2>5 DEF ListChunks
<1>9. CASE Prune(s)
  <2> DEFINE r == [run[s] EXCEPT !.pc = "activate", !.listed = {}]
  <2>2. run[s].doc \in Docs /\ run[s].content \in Versions
    BY <1>9 DEF RunOK, Prune
  <2>3. r \in RunRecord /\ r.doc = run[s].doc /\ r.content = run[s].content
    BY <1>0 DEF RunRecord
  <2>4. run' = [run EXCEPT ![s] = r]
    BY <1>9 DEF RunOK, Prune
  <2> HIDE DEF r
  <2>5. RunOK'
    BY <2>2, <2>3, <2>4, RunStepType
  <2> QED BY <1>9, <2>5, DeleteChunksType DEF Prune
<1>10. CASE Activate(s)
  <2>1. run[s].doc \in Docs /\ run[s].content \in Versions
    BY <1>10 DEF RunOK, Activate
  <2>2. built' \in [Docs -> Versions \cup {None}]
    BY <1>10, <2>1 DEF Activate
  <2>3. RunOK' /\ status' \in [Docs -> Rows \cup {"ABSENT"}]
    BY <1>10 DEF Activate
  <2> QED BY <1>10, <2>2, <2>3 DEF Activate
<1>11. CASE Fail(s)
  BY <1>11 DEF Fail
<1>12. CASE Raise(s)
  <2>1. queue' \in [Docs -> Nat] /\ redeliveries' \in Nat
    BY <1>12, QueueType DEF Raise
  <2> QED BY <1>12, <2>1 DEF Raise
<1>13. CASE CancelRead(s)
  <2>1. RunOK'
    <3>1. CASE EndRun(s) \/ RunTo(s, "fin_chunks")
      BY <1>13, <3>1 DEF CancelRead
    <3>2. CASE \E b \in BOOLEAN :
                  run' = [run EXCEPT ![s].pc = "cancel_chunks", ![s].seen = b]
      <4>1. PICK b \in BOOLEAN :
                  run' = [run EXCEPT ![s].pc = "cancel_chunks", ![s].seen = b]
        BY <3>2
      <4> DEFINE r == [run[s] EXCEPT !.pc = "cancel_chunks", !.seen = b]
      <4>2. run[s].doc \in Docs
        BY <1>13 DEF RunOK, CancelRead
      <4>3. r \in RunRecord /\ r.doc = run[s].doc /\ r.pc = "cancel_chunks"
        BY <1>0 DEF RunRecord
      <4>4. run' = [run EXCEPT ![s] = r]
        BY <4>1 DEF RunOK
      <4> HIDE DEF r
      <4> QED BY <4>2, <4>3, <4>4, RunStepType
    <3> QED BY <1>13, <3>1, <3>2 DEF CancelRead
  <2> QED BY <1>13, <2>1 DEF CancelRead
<1>14. CASE CancelChunks(s)
  BY <1>14, DeleteChunksType DEF CancelChunks
<1>15. CASE CancelRow(s)
  BY <1>15, FileRemovedType DEF CancelRow, DropRow
<1>16. CASE RunCleanUp(s)
  BY <1>16, CleanUpType DEF RunCleanUp
<1>17. CASE RunDropRow(s)
  BY <1>17 DEF RunDropRow, DropRow
<1> QED BY <1>1, <1>2, <1>3, <1>4, <1>5, <1>6, <1>7, <1>8, <1>9, <1>10, <1>11, <1>12,
           <1>13, <1>14, <1>15, <1>16, <1>17 DEF Job

\* A job is taken, the worker boots, a process crashes, a source disappears.
LEMMA TypeRest ==
    ASSUME TypeOK, Pickup \/ Sweep \/ WorkerStart \/ ApiCrash \/ WorkerCrash \/ SourceChanged
    PROVE  TypeOK'
<1> USE HistoryType, SetStatusType DEF TypeOK, CallOK, CallAt, RunOf, Rows, table, boot, env, past
<1>1. ASSUME NEW s \in Slots, NEW d \in Docs, StartJob(s, d)
      PROVE  TypeOK'
  <2>1. queue' \in [Docs -> Nat]
    BY <1>1 DEF StartJob, TakeJob
  <2>2. RunOK'
    <3>1. CASE UNCHANGED run
      BY <3>1 DEF RunOK
    <3>2. CASE ~UNCHANGED run
      <4> DEFINE r == [IdleRun EXCEPT !.pc = "parse", !.doc = d,
                                      !.expected = IF TeamStorage THEN file[d] ELSE None]
      <4>1. r \in RunRecord /\ r.doc = d /\ r.pc = "parse"
        BY DEF IdleRun, RunRecord, RunPc
      <4>2. run' = [run EXCEPT ![s] = r]
        BY <1>1, <3>2 DEF StartJob
      <4> HIDE DEF r
      <4> QED BY <4>1, <4>2, RunStepType DEF Parsed
    <3> QED BY <3>1, <3>2
  <2> QED BY <1>1, <2>1, <2>2 DEF StartJob
<1>2. ASSUME NEW s \in Slots, NEW d \in Docs, StartJobNoSource(s, d)
      PROVE  TypeOK'
  <2>1. queue' \in [Docs -> Nat] /\ redeliveries' \in Nat
    BY <1>2 DEF StartJobNoSource, TakeJob
  <2> QED BY <1>2, <2>1 DEF StartJobNoSource, RunOK
<1>3. CASE WorkerReady
  BY <1>3 DEF WorkerReady, RunOK
<1>4. ASSUME NEW d \in Docs, SweepCleanUp(d)
      PROVE  TypeOK'
  BY <1>4, CleanUpType DEF SweepCleanUp, RunOK
<1>5. ASSUME NEW d \in Docs, SweepRow(d)
      PROVE  TypeOK'
  BY <1>5 DEF SweepRow, DropRow, RunOK
<1>6. CASE WorkerStart
  <2>1. sweep' \subseteq Docs /\ swept' \subseteq sweep'
    BY <1>6 DEF WorkerStart
  <2> QED BY <1>6, <2>1 DEF WorkerStart, RunOK
<1>7. CASE ApiCrash
  <2>1. CallOK'
    BY <1>7, IdleRecords DEF ApiCrash, IdleCall
  <2>2. lost' \subseteq Docs
    BY <1>7 DEF ApiCrash
  <2>3. crashes' \in Nat
    BY <1>7 DEF ApiCrash
  <2> QED BY <1>7, <2>1, <2>2, <2>3 DEF ApiCrash, RunOK
<1>8. CASE WorkerCrash
  <2>1. ASSUME NEW S \in SUBSET Slots
        PROVE  Cardinality(S) \in Nat
    BY SlotsAssumption, FS_Subset, FS_CardinalityType
  <2>2. PICK back \in SUBSET {s \in Slots : ~RunOf(s, "idle")} :
          /\ redeliveries' = redeliveries + Cardinality(back)
          /\ queue' = [d \in Docs |-> queue[d] + Cardinality({s \in back : run[s].doc = d})]
          /\ lost' = lost \cup {run[s].doc : s \in {x \in Slots \ back : ~RunOf(x, "idle")}}
    BY <1>8, Zenon DEF WorkerCrash
  <2>3. redeliveries' \in Nat
    BY <2>1, <2>2
  <2>4. queue' \in [Docs -> Nat]
    <3>1. ASSUME NEW d \in Docs
          PROVE  queue[d] + Cardinality({s \in back : run[s].doc = d}) \in Nat
      <4>1. {s \in back : run[s].doc = d} \in SUBSET Slots
        BY <2>2
      <4> QED BY <2>1, <4>1
    <3> QED BY <2>2, <3>1
  <2>5. lost' \subseteq Docs
    BY <2>2 DEF RunOK
  <2>6. RunOK'
    BY <1>8, IdleRecords DEF WorkerCrash, RunOK, IdleRun, Parsed
  <2>7. /\ worker' \in {"down", "booting", "up"} /\ sweep' \subseteq Docs
        /\ swept' \subseteq sweep' /\ crashes' \in Nat
    BY <1>8 DEF WorkerCrash
  <2> QED BY <1>8, <2>3, <2>4, <2>5, <2>6, <2>7 DEF WorkerCrash
<1>9. CASE SourceChanged
  BY <1>9 DEF SourceChanged, RunOK
<1> QED BY <1>1, <1>2, <1>3, <1>4, <1>5, <1>6, <1>7, <1>8, <1>9 DEF Pickup, Sweep

LEMMA TypeStep == TypeOK /\ [Next]_vars => TypeOK'
<1> SUFFICES ASSUME TypeOK, [Next]_vars
             PROVE  TypeOK'
  OBVIOUS
<1>1. CASE UNCHANGED vars
  BY <1>1 DEF vars, TypeOK, RunOK, RunOf, CallOK, CallAt, table, boot, env, past
<1> QED BY <1>1, TypeRequest, TypeServe, TypeJob, TypeRest DEF Next

(* Every variable keeps the shape the handlers rely on, and nobody at work  *)
(* ever loses the document or the version it works on.                      *)
THEOREM TypeCorrect == Spec => []TypeOK
BY TypeInit, TypeStep, PTL DEF Spec
----------------------------------------------------------------------------
(* No document is stranded: NoStranded is inductive relative to TypeOK.     *)

InFlightCarried(d) == status[d] \in {"UPLOADING", "PROCESSING"} => Carried(d)

LEMMA RunToFacts ==
    ASSUME RunOK, NEW s \in Slots, NEW pc, RunTo(s, pc)
    PROVE  /\ run'[s].pc = pc
           /\ \A x \in Slots : run'[x].doc = run[x].doc /\ (x # s => run'[x] = run[x])
BY DEF RunOK, RunTo, RunRecord

LEMMA EndRunFacts ==
    ASSUME RunOK, NEW s \in Slots, EndRun(s)
    PROVE  run'[s].pc = "idle" /\ \A x \in Slots : x # s => run'[x] = run[x]
BY DEF RunOK, EndRun, IdleRun

LEMMA CallToFacts ==
    ASSUME CallOK, NEW c \in Calls, NEW pc, CallTo(c, pc)
    PROVE  /\ call'[c].pc = pc
           /\ \A x \in Calls : call'[x].doc = call[x].doc /\ (x # c => call'[x] = call[x])
BY DEF CallOK, CallTo, CallRecord

LEMMA EndCallFacts ==
    ASSUME CallOK, NEW c \in Calls, EndCall(c)
    PROVE  call'[c].pc = "idle" /\ \A x \in Calls : x # c => call'[x] = call[x]
BY DEF CallOK, EndCall, IdleCall

LEMMA SetStatusFacts ==
    ASSUME TypeOK, NEW d \in Docs, NEW st, SetStatus(d, st)
    PROVE  status'[d] = st /\ \A e \in Docs : e # d => status'[e] = status[e]
BY DEF TypeOK, SetStatus

\* A step that changes neither the queue, nor a run, nor what a call carries.
LEMMA CarriedKept ==
    ASSUME NEW d \in Docs, NEW c \in Calls, InFlightCarried(d),
           UNCHANGED <<queue, run>>,
           \A x \in Calls : x # c => call'[x] = call[x],
           ~CallAt(c, "enqueue"),
           status'[d] \in {"UPLOADING", "PROCESSING"} => status'[d] = status[d]
    PROVE  InFlightCarried(d)'
BY DEF InFlightCarried, Carried, CallAt, Working

LEMMA StrandedRequest ==
    ASSUME TypeOK, NoStranded, NEW c \in Calls, Request(c)
    PROVE  NoStranded'
<1>1. \A x \in Calls : x # c => call'[x] = call[x]
  BY DEF Request, UploadLookup, RetryRead, DeleteLookup, TypeOK, CallOK
<1>2. ~CallAt(c, "enqueue")
  BY DEF Request, UploadLookup, RetryRead, DeleteLookup, Admit, CallAt
<1>3. UNCHANGED <<status, queue, run, lost>>
  BY DEF Request, UploadLookup, RetryRead, DeleteLookup, table, past
<1>4. ASSUME NEW d \in Docs \ lost
      PROVE  InFlightCarried(d)'
  <2>1. InFlightCarried(d)
    BY DEF NoStranded, InFlightCarried
  <2> QED BY <1>1, <1>2, <1>3, <2>1, CarriedKept
<1> QED BY <1>3, <1>4 DEF NoStranded, InFlightCarried

LEMMA StrandedServe ==
    ASSUME TypeOK, NoStranded, NEW c \in Calls, Serve(c)
    PROVE  NoStranded'
<1> SUFFICES ASSUME NEW d \in Docs \ lost
             PROVE  InFlightCarried(d)'
  <2>1. lost' = lost
    BY DEF Serve, UploadSaveFile, UploadSaveRow, Enqueue, RetrySave, DeleteMark,
           DeleteCleanUp, DeleteRow, past
  <2> QED BY <2>1 DEF NoStranded, InFlightCarried
<1>a. InFlightCarried(d)
  BY DEF NoStranded, InFlightCarried
<1>b. CallOK
  BY DEF TypeOK
<1> USE CallToFacts, EndCallFacts, SetStatusFacts, CarriedKept DEF CallAt, table
<1>1. CASE UploadSaveFile(c)
  BY <1>a, <1>b, <1>1 DEF UploadSaveFile
<1>2. CASE UploadSaveRow(c)
  <2>1. call[c].doc \in Docs /\ UNCHANGED <<queue, run>>
    BY <1>b, <1>2 DEF UploadSaveRow, CallOK
  <2>2. CASE EndCall(c) /\ UNCHANGED status
    BY <1>a, <1>b, <1>2, <2>1, <2>2 DEF UploadSaveRow
  <2>3. CASE CallTo(c, "enqueue") /\ call[c].doc = d
    BY <1>b, <2>3 DEF InFlightCarried, Carried
  <2>4. CASE CallTo(c, "enqueue") /\ call[c].doc # d
    <3>1. status'[d] = status[d]
      BY <1>2, <2>1, <2>4 DEF UploadSaveRow
    <3> QED BY <1>a, <1>b, <1>2, <2>1, <2>4, <3>1 DEF UploadSaveRow
  <2> QED BY <1>2, <2>2, <2>3, <2>4 DEF UploadSaveRow
<1>3. CASE Enqueue(c)
  <2>1. /\ queue'[call[c].doc] = queue[call[c].doc] + 1
        /\ \A e \in Docs : e # call[c].doc => queue'[e] = queue[e]
        /\ queue[call[c].doc] \in Nat /\ UNCHANGED <<status, run>>
    BY <1>b, <1>3 DEF Enqueue, TypeOK, CallOK
  <2>2. CASE call[c].doc = d
    BY <2>1, <2>2 DEF InFlightCarried, Carried
  <2>3. CASE call[c].doc # d
    BY <1>a, <1>b, <1>3, <2>1, <2>3 DEF Enqueue, InFlightCarried, Carried, Working
  <2> QED BY <2>2, <2>3
<1>4. CASE RetrySave(c)
  <2>1. call[c].doc \in Docs /\ UNCHANGED <<queue, run>> /\ CallTo(c, "enqueue")
    BY <1>b, <1>4 DEF RetrySave, CallOK
  <2>2. CASE call[c].doc = d
    BY <1>b, <2>1, <2>2 DEF InFlightCarried, Carried
  <2>3. CASE call[c].doc # d
    <3>1. status'[d] = status[d]
      BY <1>4, <2>1, <2>3 DEF RetrySave
    <3> QED BY <1>a, <1>b, <1>4, <2>1, <3>1 DEF RetrySave
  <2> QED BY <2>2, <2>3
<1>5. CASE DeleteMark(c)
  <2>1. call[c].doc \in Docs
    BY <1>b, <1>5 DEF DeleteMark, CallOK
  <2> QED BY <1>a, <1>b, <1>5, <2>1 DEF DeleteMark
<1>6. CASE DeleteCleanUp(c)
  BY <1>a, <1>b, <1>6 DEF DeleteCleanUp
<1>7. CASE DeleteRow(c)
  <2>1. call[c].doc \in Docs
    BY <1>b, <1>7 DEF DeleteRow, CallOK
  <2> QED BY <1>a, <1>b, <1>7, <2>1 DEF DeleteRow, DropRow
<1> QED BY <1>1, <1>2, <1>3, <1>4, <1>5, <1>6, <1>7 DEF Serve

\* A run that moves on without losing a document it carries.
LEMMA CarriedByRuns ==
    ASSUME NEW d \in Docs, NEW s \in Slots, InFlightCarried(d), UNCHANGED call,
           queue'[d] > 0 \/ queue'[d] = queue[d],
           \A x \in Slots : x # s => run'[x] = run[x],
           status'[d] \in {"UPLOADING", "PROCESSING"} =>
             \/ status'[d] = status[d]
             \/ status'[d] = "PROCESSING" /\ run'[s].doc = d /\ Working(s)',
           run[s].doc = d /\ run[s].pc \in {"parse", "claim"} =>
             \/ status'[d] \notin {"UPLOADING", "PROCESSING"}
             \/ run'[s].doc = d /\ run'[s].pc \in {"parse", "claim"}
             \/ status'[d] = "PROCESSING" /\ run'[s].doc = d /\ Working(s)',
           run[s].doc = d /\ Working(s) =>
             \/ status'[d] # "PROCESSING"
             \/ run'[s].doc = d /\ Working(s)'
    PROVE  InFlightCarried(d)'
<1> SUFFICES ASSUME status'[d] \in {"UPLOADING", "PROCESSING"}
             PROVE  Carried(d)'
  BY DEF InFlightCarried
<1>1. CASE status'[d] # status[d]
  BY <1>1 DEF Carried, Working
<1>2. CASE status'[d] = status[d] /\ \E c \in Calls : CallAt(c, "enqueue") /\ call[c].doc = d
  BY <1>2 DEF Carried, CallAt
<1>3. CASE status'[d] = status[d] /\ queue[d] > 0
  BY <1>3 DEF Carried
<1>4. CASE /\ status'[d] = status[d]
           /\ \E x \in Slots : run[x].doc = d /\ run[x].pc \in {"parse", "claim"}
  BY <1>4 DEF Carried, Working
<1>5. CASE /\ status'[d] = status[d] /\ status[d] = "PROCESSING"
           /\ \E x \in Slots : run[x].doc = d /\ Working(x)
  BY <1>5 DEF Carried, Working
<1> QED BY <1>1, <1>2, <1>3, <1>4, <1>5 DEF InFlightCarried, Carried

LEMMA StrandedJob ==
    ASSUME TypeOK, NoStranded, NEW s \in Slots, Job(s)
    PROVE  NoStranded'
<1> SUFFICES ASSUME NEW d \in Docs \ lost
             PROVE  InFlightCarried(d)'
  <2>1. lost' = lost
    BY DEF Job, ParseRead, Claim, Reread, Load, Check, Embed, Upsert, ListChunks, Prune,
           Activate, Fail, Raise, CancelRead, CancelChunks, CancelRow, RunCleanUp, RunDropRow, past
  <2> QED BY <2>1 DEF NoStranded, InFlightCarried
<1>a. InFlightCarried(d)
  BY DEF NoStranded, InFlightCarried
<1>b. RunOK
  BY DEF TypeOK
<1>c. ~RunOf(s, "idle") /\ run[s].doc \in Docs
  BY <1>b DEF RunOK, RunOf, Job, ParseRead, Claim, Reread, Load, Check, Embed, Upsert,
     ListChunks, Prune, Activate, Fail, Raise, CancelRead, CancelChunks, CancelRow,
     RunCleanUp, RunDropRow
<1> USE <1>a, <1>b, <1>c, RunToFacts, EndRunFacts, SetStatusFacts, CarriedByRuns
    DEF RunOf, Working, table
<1>1. CASE ParseRead(s)
  BY <1>1 DEF ParseRead, Exists
<1>2. CASE Claim(s)
  BY <1>2 DEF Claim, Claimable
<1>3. CASE Reread(s)
  BY <1>3 DEF Reread
<1>4. CASE Load(s)
  <2>1. /\ run'[s].pc \in {"check", "fail"} /\ run'[s].doc = run[s].doc
        /\ \A x \in Slots : x # s => run'[x] = run[x]
    BY <1>4 DEF Load, RunOK, RunRecord, RunTo
  <2> QED BY <1>4, <2>1 DEF Load
<1>5. CASE Check(s)
  BY <1>5 DEF Check
<1>6. CASE Embed(s)
  BY <1>6 DEF Embed
<1>7. CASE Upsert(s)
  BY <1>7 DEF Upsert
<1>8. CASE ListChunks(s)
  <2>1. /\ run'[s].pc = "prune" /\ run'[s].doc = run[s].doc
        /\ \A x \in Slots : x # s => run'[x] = run[x]
    BY <1>8 DEF ListChunks, RunOK, RunRecord
  <2> QED BY <1>8, <2>1 DEF ListChunks
<1>9. CASE Prune(s)
  <2>1. /\ run'[s].pc = "activate" /\ run'[s].doc = run[s].doc
        /\ \A x \in Slots : x # s => run'[x] = run[x]
    BY <1>9 DEF Prune, RunOK, RunRecord
  <2>2. run[s].pc = "prune" /\ UNCHANGED <<status, queue, call>>
    BY <1>9 DEF Prune
  <2> QED BY <2>1, <2>2
<1>10. CASE Activate(s)
  BY <1>10 DEF Activate
<1>11. CASE Fail(s)
  BY <1>11 DEF Fail
<1>12. CASE Raise(s)
  <2>1. queue'[d] > 0 \/ queue'[d] = queue[d]
    BY <1>12 DEF Raise, TypeOK
  <2> QED BY <1>12, <2>1 DEF Raise
<1>13. CASE CancelRead(s)
  <2>1. /\ run'[s].pc \in {"cancel_chunks", "fin_chunks", "idle"}
        /\ \A x \in Slots : x # s => run'[x] = run[x]
    BY <1>13 DEF CancelRead, RunOK, RunRecord, RunTo, EndRun, IdleRun
  <2> QED BY <1>13, <2>1 DEF CancelRead
<1>14. CASE CancelChunks(s)
  BY <1>14 DEF CancelChunks
<1>15. CASE CancelRow(s)
  BY <1>15 DEF CancelRow, DropRow
<1>16. CASE RunCleanUp(s)
  BY <1>16 DEF RunCleanUp
<1>17. CASE RunDropRow(s)
  BY <1>17 DEF RunDropRow, DropRow
<1> QED BY <1>1, <1>2, <1>3, <1>4, <1>5, <1>6, <1>7, <1>8, <1>9, <1>10, <1>11, <1>12,
           <1>13, <1>14, <1>15, <1>16, <1>17 DEF Job

LEMMA StrandedRest ==
    ASSUME TypeOK, NoStranded,
           Pickup \/ Sweep \/ WorkerStart \/ ApiCrash \/ WorkerCrash \/ SourceChanged
    PROVE  NoStranded'
<1>a. \A d \in Docs \ lost : InFlightCarried(d)
  BY DEF NoStranded, InFlightCarried
<1>b. NoStranded' <=> \A d \in Docs \ lost' : InFlightCarried(d)'
  BY DEF NoStranded, InFlightCarried
<1>1. ASSUME NEW s \in Slots, NEW d \in Docs, StartJob(s, d)
      PROVE  NoStranded'
  <2>1. run[s].pc = "idle" /\ UNCHANGED <<status, call, lost>>
    BY <1>1 DEF StartJob, TakeJob, RunOf, table, past
  <2>2. \A x \in Slots : x # s => run'[x] = run[x]
    BY <1>1 DEF StartJob, TypeOK, RunOK
  <2>3. \A e \in Docs : e # d => queue'[e] = queue[e]
    BY <1>1 DEF StartJob, TypeOK
  <2>4. ASSUME NEW e \in Docs \ lost, e # d
        PROVE  InFlightCarried(e)'
    <3>1. /\ InFlightCarried(e) /\ UNCHANGED <<call, status>> /\ queue'[e] = queue[e]
          /\ ~(run[s].pc \in {"parse", "claim"}) /\ ~Working(s)
      BY <1>a, <2>1, <2>3, <2>4 DEF Working
    <3> QED BY <2>2, <3>1, CarriedByRuns
  <2>5. ASSUME d \notin lost
        PROVE  InFlightCarried(d)'
    <3>1. CASE Exists(d)
      <4> DEFINE r == [IdleRun EXCEPT !.pc = "parse", !.doc = d,
                                      !.expected = IF TeamStorage THEN file[d] ELSE None]
      <4>0. r.pc = "parse" /\ r.doc = d
        BY DEF IdleRun
      <4>1. run' = [run EXCEPT ![s] = r] /\ run \in [Slots -> RunRecord]
        BY <1>1, <3>1 DEF StartJob, TypeOK, RunOK
      <4> HIDE DEF r
      <4>2. run'[s].pc = "parse" /\ run'[s].doc = d
        BY <4>0, <4>1
      <4> QED BY <4>2 DEF InFlightCarried, Carried
    <3>2. CASE ~Exists(d)
      BY <2>1, <3>2 DEF InFlightCarried, Exists
    <3> QED BY <3>1, <3>2
  <2> QED BY <1>b, <2>1, <2>4, <2>5
<1>2. ASSUME NEW s \in Slots, NEW d \in Docs, StartJobNoSource(s, d)
      PROVE  NoStranded'
  <2>1. UNCHANGED <<status, run, call>>
    BY <1>2 DEF StartJobNoSource, table
  <2>2. ASSUME NEW e \in Docs, e \notin lost'
        PROVE  queue'[e] = queue[e] /\ e \notin lost
    BY <1>2, <2>2 DEF StartJobNoSource, TypeOK, past
  <2>3. ASSUME NEW e \in Docs, e \notin lost'
        PROVE  InFlightCarried(e)'
    BY <1>a, <2>1, <2>2, <2>3 DEF InFlightCarried, Carried, CallAt, Working
  <2> QED BY <1>b, <2>3
<1>3. CASE WorkerReady \/ WorkerStart \/ SourceChanged \/ \E d \in Docs : SweepCleanUp(d)
  <2>1. UNCHANGED <<status, queue, run, call, lost>>
    BY <1>3 DEF WorkerReady, WorkerStart, SourceChanged, SweepCleanUp, table, past
  <2> QED BY <2>1 DEF NoStranded, Carried, CallAt, Working
<1>4. ASSUME NEW d \in Docs, SweepRow(d)
      PROVE  NoStranded'
  <2>1. UNCHANGED <<queue, run, call, lost>> /\ SetStatus(d, "ABSENT")
    BY <1>4 DEF SweepRow, DropRow, past
  <2> QED BY <2>1, SetStatusFacts DEF NoStranded, Carried, CallAt, Working
<1>5. CASE ApiCrash
  <2>1. /\ UNCHANGED <<status, queue, run>>
        /\ lost' = lost \cup {call[c].doc : c \in {x \in Calls : CallAt(x, "enqueue")}}
    BY <1>5 DEF ApiCrash, table
  <2>2. ASSUME NEW e \in Docs, e \notin lost'
        PROVE  InFlightCarried(e)'
    <3>1. InFlightCarried(e) /\ \A c \in Calls : CallAt(c, "enqueue") => call[c].doc # e
      BY <1>a, <2>1, <2>2
    <3> QED BY <2>1, <3>1 DEF InFlightCarried, Carried, Working
  <2> QED BY <1>b, <2>2
<1>6. CASE WorkerCrash
  <2>1. UNCHANGED <<status, call>>
    BY <1>6 DEF WorkerCrash, table
  <2>2. PICK back \in SUBSET {s \in Slots : ~RunOf(s, "idle")} :
          /\ queue' = [d \in Docs |-> queue[d] + Cardinality({s \in back : run[s].doc = d})]
          /\ lost' = lost \cup {run[s].doc : s \in {x \in Slots \ back : ~RunOf(x, "idle")}}
    BY <1>6, Zenon DEF WorkerCrash
  <2>3. ASSUME NEW e \in Docs, e \notin lost'
        PROVE  InFlightCarried(e)'
    <3> DEFINE mine == {s \in back : run[s].doc = e}
    <3>1. IsFiniteSet(mine) /\ Cardinality(mine) \in Nat
      <4>1. mine \subseteq Slots
        BY <2>2
      <4> QED BY <4>1, SlotsAssumption, FS_Subset, FS_CardinalityType
    <3>2. queue'[e] = queue[e] + Cardinality(mine) /\ queue[e] \in Nat
      BY <2>2 DEF TypeOK
    <3>3. InFlightCarried(e)
      BY <1>a, <2>2, <2>3
    <3>4. CASE \E s \in Slots : run[s].doc = e /\ ~RunOf(s, "idle")
      <4>1. PICK s \in Slots : run[s].doc = e /\ ~RunOf(s, "idle")
        BY <3>4
      <4>2. s \in mine
        BY <2>2, <2>3, <4>1
      <4>3. Cardinality(mine) # 0
        BY <3>1, <4>2, FS_EmptySet
      <4>4. queue'[e] > 0
        <5> HIDE DEF mine
        <5> QED BY <3>1, <3>2, <4>3
      <4> QED BY <4>4 DEF InFlightCarried, Carried
    <3>5. CASE ~\E s \in Slots : run[s].doc = e /\ ~RunOf(s, "idle")
      <4>1. queue[e] > 0 => queue'[e] > 0
        <5> HIDE DEF mine
        <5> QED BY <3>1, <3>2
      <4> QED BY <2>1, <3>3, <3>5, <4>1 DEF InFlightCarried, Carried, CallAt, RunOf, Working
    <3> QED BY <3>4, <3>5
  <2> QED BY <1>b, <2>3
<1> QED BY <1>1, <1>2, <1>3, <1>4, <1>5, <1>6 DEF Pickup, Sweep

LEMMA StrandedStep == TypeOK /\ NoStranded /\ [Next]_vars => NoStranded'
<1> SUFFICES ASSUME TypeOK, NoStranded, [Next]_vars
             PROVE  NoStranded'
  OBVIOUS
<1>1. CASE UNCHANGED vars
  BY <1>1 DEF vars, table, past, NoStranded, Carried, CallAt, Working
<1> QED BY <1>1, StrandedRequest, StrandedServe, StrandedJob, StrandedRest DEF Next

(* However requests, duplicate jobs, redeliveries and crashes interleave, a  *)
(* document in flight whose job no crash has swallowed always has somebody   *)
(* who will carry it on: the request about to enqueue it, a queued job, a    *)
(* run that has still to claim it, or the run that is processing it.         *)
THEOREM NoStrandedHolds == Spec => []NoStranded
<1>1. Init => NoStranded
  BY DEF Init, NoStranded
<1> QED BY <1>1, TypeCorrect, StrandedStep, PTL DEF Spec

----------------------------------------------------------------------------
(* The worker never resurrects a document whose deletion was requested.     *)

LEMMA NeverResurrectsStep ==
    ASSUME TypeOK, Next, NEW d \in Docs, status[d] = "DELETING", call' = call
    PROVE  status'[d] \in {"DELETING", "ABSENT"}
<1> USE SetStatusFacts DEF table
<1>1. ASSUME NEW c \in Calls, Request(c)
      PROVE  status' = status
  BY <1>1 DEF Request, UploadLookup, RetryRead, DeleteLookup
<1>2. ASSUME NEW c \in Calls, Serve(c)
      PROVE  status'[d] \in {"DELETING", "ABSENT"}
  <2>0. CallOK /\ call[c] = call'[c]
    BY DEF TypeOK
  <2>1. CASE UploadSaveRow(c)
    BY <2>0, <2>1, CallToFacts DEF UploadSaveRow, CallAt
  <2>2. CASE RetrySave(c)
    BY <2>0, <2>2, CallToFacts DEF RetrySave, CallAt
  <2>3. CASE DeleteMark(c)
    BY <2>0, <2>3 DEF DeleteMark, CallOK, Cancellable, CallAt
  <2>4. CASE DeleteRow(c)
    BY <2>0, <2>4 DEF DeleteRow, DropRow, CallOK, CallAt
  <2>5. CASE UploadSaveFile(c) \/ Enqueue(c) \/ DeleteCleanUp(c)
    BY <2>5 DEF UploadSaveFile, Enqueue, DeleteCleanUp
  <2> QED BY <1>2, <2>1, <2>2, <2>3, <2>4, <2>5 DEF Serve
<1>3. ASSUME NEW s \in Slots, Job(s)
      PROVE  status'[d] \in {"DELETING", "ABSENT"}
  <2>0. ~RunOf(s, "idle") => run[s].doc \in Docs
    BY DEF TypeOK, RunOK
  <2>1. CASE Claim(s)
    BY <2>0, <2>1 DEF Claim, Claimable, RunOf
  <2>2. CASE Activate(s)
    BY <2>0, <2>2 DEF Activate, RunOf
  <2>3. CASE Fail(s)
    BY <2>0, <2>3 DEF Fail, RunOf
  <2>4. CASE CancelRow(s) \/ RunDropRow(s)
    BY <2>0, <2>4 DEF CancelRow, RunDropRow, DropRow, RunOf
  <2>5. CASE UNCHANGED status
    BY <2>5
  <2> QED BY <1>3, <2>1, <2>2, <2>3, <2>4, <2>5
          DEF Job, ParseRead, Reread, Load, Check, Embed, Upsert, ListChunks, Prune, Raise,
              CancelRead, CancelChunks, RunCleanUp
<1>4. CASE Pickup \/ WorkerStart \/ ApiCrash \/ WorkerCrash \/ SourceChanged
  BY <1>4 DEF Pickup, StartJob, StartJobNoSource, WorkerStart, ApiCrash, WorkerCrash,
              SourceChanged
<1>5. CASE Sweep
  BY <1>5 DEF Sweep, WorkerReady, SweepCleanUp, SweepRow, DropRow
<1> QED BY <1>1, <1>2, <1>3, <1>4, <1>5 DEF Next

(* In every behaviour, a step that is not a request's leaves a DELETING row *)
(* DELETING or removes it.                                                  *)
THEOREM NeverResurrects == Spec => WorkerNeverResurrects
<1>1. TypeOK /\ [Next]_vars =>
        [\A d \in Docs : status[d] = "DELETING" /\ call' = call
                            => status'[d] \in {"DELETING", "ABSENT"}]_vars
  BY NeverResurrectsStep
<1> QED BY <1>1, TypeCorrect, PTL DEF Spec, WorkerNeverResurrects

----------------------------------------------------------------------------
(* An undisturbed document: nobody overlaps an API call that writes it, its *)
(* runs are of one revision, and no step cuts short a pair of actions on    *)
(* its file, its chunks and its row.  What follows holds of every document  *)
(* that is not `tainted'.                                                   *)

Apart == /\ \A d \in Docs : Overlapped(d) \/ Diverged(d) => d \in tainted
         /\ worker # "up" => \A s \in Slots : run[s] = IdleRun

LEMMA HistoryStep == Next => History
BY DEF Next, Request, UploadLookup, RetryRead, DeleteLookup, Serve, UploadSaveFile,
       UploadSaveRow, Enqueue, RetrySave, DeleteMark, DeleteCleanUp, DeleteRow, Job, ParseRead,
       Claim, Reread, Load, Check, Embed, Upsert, ListChunks, Prune, Activate, Fail, Raise,
       CancelRead, CancelChunks, CancelRow, RunCleanUp, RunDropRow, Pickup, StartJob,
       StartJobNoSource, Sweep, WorkerReady, SweepCleanUp, SweepRow, WorkerStart, ApiCrash,
       WorkerCrash, SourceChanged

LEMMA Undisturbed ==
    ASSUME Apart, Next, NEW d \in Docs, d \notin tainted'
    PROVE  /\ d \notin tainted /\ ~Overlapped(d) /\ ~Overlapped(d)' /\ ~CutShort(d)
           /\ ~Diverged(d)
BY HistoryStep DEF Apart, History

\* While somebody writes a document, no run, no sweep and no other writer is on it.
LEMMA WriterAlone ==
    ASSUME NEW d \in Docs, ~Overlapped(d), NEW c \in Calls, Writing(c), call[c].doc = d
    PROVE  /\ d \notin sweep
           /\ \A s \in Slots : run[s].doc # d
           /\ \A o \in Calls \ {c} : Writing(o) => ~TeamStorage /\ call[o].doc # d
BY DEF Overlapped

----------------------------------------------------------------------------
(* What a step may touch: a run works on its own document, a request on     *)
(* its own, the sweep on one.                                               *)

\* Nothing about d changes, its file apart.
Untouched(d) ==
    /\ status'[d] = status[d] /\ fp'[d] = fp[d] /\ chunks'[d] = chunks[d]
    /\ (d \in sweep' <=> d \in sweep) /\ (d \in swept' <=> d \in swept)
    /\ \A s \in Slots : run[s].doc = d \/ run'[s].doc = d => run'[s] = run[s]
    /\ \A c \in Calls : call[c].doc = d \/ call'[c].doc = d => call'[c] = call[c]

LEMMA IdleNames == IdleRun.doc \notin Docs /\ IdleCall.doc \notin Docs /\ IdleRun.pc = "idle"
BY NoneAssumption DEF IdleRun, IdleCall

LEMMA RunToAll ==
    ASSUME RunOK, NEW s \in Slots, NEW pc, RunTo(s, pc)
    PROVE  /\ run'[s].pc = pc /\ run'[s].doc = run[s].doc
           /\ run'[s].content = run[s].content /\ run'[s].listed = run[s].listed
           /\ run'[s].expected = run[s].expected
           /\ \A x \in Slots : x # s => run'[x] = run[x]
BY DEF RunOK, RunTo, RunRecord

LEMMA EndRunAll ==
    ASSUME RunOK, NEW s \in Slots, EndRun(s)
    PROVE  run'[s] = IdleRun /\ \A x \in Slots : x # s => run'[x] = run[x]
BY DEF RunOK, EndRun

LEMMA JobFrame ==
    ASSUME TypeOK, NEW s \in Slots, Job(s)
    PROVE  /\ ~RunOf(s, "idle") /\ run[s].doc \in Docs
           /\ UNCHANGED <<fp, call, worker, sweep, swept>>
           /\ \A x \in Slots : x # s => run'[x] = run[x]
           /\ \/ run'[s] = IdleRun
              \/ run'[s].doc = run[s].doc /\ run'[s].expected = run[s].expected
           /\ \A e \in Docs : e # run[s].doc => /\ status'[e] = status[e]
                                                /\ chunks'[e] = chunks[e]
                                                /\ file'[e] = file[e]
<1> USE RunToAll, EndRunAll, SetStatusFacts DEF RunOf, table, boot, env, past
<1>0. /\ RunOK /\ run[s] \in RunRecord /\ (~RunOf(s, "idle") => run[s].doc \in Docs)
      /\ chunks \in [Docs -> SUBSET Versions] /\ file \in [Docs -> Versions \cup {None}]
  BY DEF TypeOK, RunOK
<1>1. CASE ParseRead(s)
  BY <1>0, <1>1 DEF ParseRead
<1>2. CASE Claim(s)
  BY <1>0, <1>2 DEF Claim
<1>3. CASE Reread(s)
  BY <1>0, <1>3 DEF Reread
<1>4. CASE Load(s)
  <2>1. /\ run'[s].doc = run[s].doc /\ run'[s].expected = run[s].expected
        /\ \A x \in Slots : x # s => run'[x] = run[x]
    BY <1>0, <1>4 DEF Load, RunOK, RunRecord
  <2> QED BY <1>0, <1>4, <2>1 DEF Load
<1>5. CASE Check(s)
  BY <1>0, <1>5 DEF Check
<1>6. CASE Embed(s)
  BY <1>0, <1>6 DEF Embed
<1>7. CASE Upsert(s)
  BY <1>0, <1>7 DEF Upsert
<1>8. CASE ListChunks(s)
  <2>1. /\ run'[s].doc = run[s].doc /\ run'[s].expected = run[s].expected
        /\ \A x \in Slots : x # s => run'[x] = run[x]
    BY <1>0, <1>8 DEF ListChunks, RunOK, RunRecord
  <2> QED BY <1>0, <1>8, <2>1 DEF ListChunks
<1>9. CASE Prune(s)
  <2>1. /\ run'[s].doc = run[s].doc /\ run'[s].expected = run[s].expected
        /\ \A x \in Slots : x # s => run'[x] = run[x]
    BY <1>0, <1>9 DEF Prune, RunOK, RunRecord
  <2>2. \A e \in Docs : e # run[s].doc => chunks'[e] = chunks[e]
    BY <1>0, <1>9 DEF Prune, DeleteChunks
  <2>3. UNCHANGED <<status, file, fp, call, worker, sweep, swept>> /\ ~RunOf(s, "idle")
    BY <1>9 DEF Prune
  <2> QED BY <1>0, <2>1, <2>2, <2>3
<1>10. CASE Activate(s)
  BY <1>0, <1>10 DEF Activate
<1>11. CASE Fail(s)
  BY <1>0, <1>11 DEF Fail
<1>12. CASE Raise(s)
  BY <1>0, <1>12 DEF Raise
<1>13. CASE CancelRead(s)
  <2>1. /\ \/ run'[s] = IdleRun
           \/ run'[s].doc = run[s].doc /\ run'[s].expected = run[s].expected
        /\ \A x \in Slots : x # s => run'[x] = run[x]
    BY <1>0, <1>13 DEF CancelRead, RunOK, RunRecord
  <2> QED BY <1>0, <1>13, <2>1 DEF CancelRead
<1>14. CASE CancelChunks(s)
  BY <1>0, <1>14 DEF CancelChunks, DeleteChunks
<1>15. CASE CancelRow(s)
  BY <1>0, <1>15 DEF CancelRow, DropRow, FileRemoved
<1>16. CASE RunCleanUp(s)
  BY <1>0, <1>16 DEF RunCleanUp, CleanUp, DeleteChunks, FileRemoved
<1>17. CASE RunDropRow(s)
  BY <1>0, <1>17 DEF RunDropRow, DropRow
<1> QED BY <1>1, <1>2, <1>3, <1>4, <1>5, <1>6, <1>7, <1>8, <1>9, <1>10, <1>11, <1>12,
           <1>13, <1>14, <1>15, <1>16, <1>17 DEF Job

LEMMA JobElsewhere ==
    ASSUME TypeOK, NEW s \in Slots, Job(s), NEW d \in Docs, d # run[s].doc
    PROVE  Untouched(d) /\ file'[d] = file[d]
BY JobFrame, IdleNames DEF Untouched

LEMMA CallToAll ==
    ASSUME CallOK, NEW c \in Calls, NEW pc, CallTo(c, pc)
    PROVE  /\ call'[c].pc = pc /\ call'[c].doc = call[c].doc
           /\ call'[c].version = call[c].version
           /\ \A x \in Calls : x # c => call'[x] = call[x]
BY DEF CallOK, CallTo, CallRecord

LEMMA EndCallAll ==
    ASSUME CallOK, NEW c \in Calls, EndCall(c)
    PROVE  call'[c] = IdleCall /\ \A x \in Calls : x # c => call'[x] = call[x]
BY DEF CallOK, EndCall

LEMMA ServeFrame ==
    ASSUME TypeOK, NEW c \in Calls, Serve(c)
    PROVE  /\ ~CallAt(c, "idle") /\ call[c].doc \in Docs
           /\ UNCHANGED <<run, worker, sweep, swept>>
           /\ \A x \in Calls : x # c => call'[x] = call[x]
           /\ \/ call'[c] = IdleCall
              \/ call'[c].doc = call[c].doc /\ call'[c].version = call[c].version
           /\ \A e \in Docs : e # call[c].doc =>
                 /\ status'[e] = status[e] /\ fp'[e] = fp[e] /\ chunks'[e] = chunks[e]
                 /\ ~TeamStorage \/ ~CallAt(c, "save_file") => file'[e] = file[e]
<1> USE CallToAll, EndCallAll, SetStatusFacts DEF CallAt, table, boot, env, past
<1>0. /\ CallOK /\ (~CallAt(c, "idle") => call[c].doc \in Docs)
      /\ fp \in [Docs -> Versions \cup {None}]
      /\ chunks \in [Docs -> SUBSET Versions] /\ file \in [Docs -> Versions \cup {None}]
  BY DEF TypeOK, CallOK
<1>1. CASE UploadSaveFile(c)
  BY <1>0, <1>1 DEF UploadSaveFile, WriteFile
<1>2. CASE UploadSaveRow(c)
  <2>1. call[c].doc \in Docs /\ UNCHANGED <<file, chunks, run, worker, sweep, swept>>
    BY <1>0, <1>2 DEF UploadSaveRow
  <2>2. /\ CallTo(c, "enqueue") \/ EndCall(c)
        /\ \A e \in Docs : e # call[c].doc => status'[e] = status[e] /\ fp'[e] = fp[e]
    BY <1>0, <1>2, <2>1 DEF UploadSaveRow
  <2> QED BY <1>0, <1>2, <2>1, <2>2 DEF UploadSaveRow
<1>3. CASE Enqueue(c)
  BY <1>0, <1>3 DEF Enqueue
<1>4. CASE RetrySave(c)
  <2>1. call[c].doc \in Docs
    BY <1>0, <1>4 DEF RetrySave
  <2>2. \A e \in Docs : e # call[c].doc => status'[e] = status[e] /\ fp'[e] = fp[e]
    BY <1>0, <1>4, <2>1 DEF RetrySave
  <2> QED BY <1>0, <1>4, <2>1, <2>2 DEF RetrySave
<1>5. CASE DeleteMark(c)
  BY <1>0, <1>5 DEF DeleteMark
<1>6. CASE DeleteCleanUp(c)
  BY <1>0, <1>6 DEF DeleteCleanUp, CleanUp, DeleteChunks, FileRemoved
<1>7. CASE DeleteRow(c)
  BY <1>0, <1>7 DEF DeleteRow, DropRow
<1> QED BY <1>1, <1>2, <1>3, <1>4, <1>5, <1>6, <1>7 DEF Serve

LEMMA ServeElsewhere ==
    ASSUME TypeOK, NEW c \in Calls, Serve(c), NEW d \in Docs, d # call[c].doc
    PROVE  Untouched(d) /\ (~TeamStorage \/ ~CallAt(c, "save_file") => file'[d] = file[d])
BY ServeFrame, IdleNames DEF Untouched

LEMMA RequestFrame ==
    ASSUME TypeOK, NEW c \in Calls, Request(c)
    PROVE  /\ UNCHANGED <<status, fp, file, chunks, run, worker, sweep, swept>>
           /\ \A x \in Calls : x # c => call'[x] = call[x]
           /\ call[c].pc = "idle" /\ call'[c].pc \in {"save_file", "retry_save", "mark"}
           /\ call'[c].pc = "retry_save" => call'[c].version = fp[call'[c].doc]
           /\ call'[c].pc = "save_file" => \A e \in Docs : Exists(e) => e = call'[c].doc
<1>0. CallOK
  BY DEF TypeOK
<1>1. CASE UploadLookup(c)
  <2>1. PICK d \in Docs, v \in Versions, b \in BOOLEAN :
            /\ call' = [call EXCEPT ![c] = [pc |-> "save_file", doc |-> d,
                                            version |-> v, existing |-> b]]
            /\ \A e \in Docs : Exists(e) => e = d
    BY <1>1, Zenon DEF UploadLookup, TypeOK
  <2>2. /\ call'[c].pc = "save_file" /\ call'[c].doc = d
        /\ \A x \in Calls : x # c => call'[x] = call[x]
    BY <1>0, <2>1 DEF CallOK
  <2> QED BY <1>1, <2>1, <2>2 DEF UploadLookup, Admit, CallAt, boot
<1>2. CASE RetryRead(c)
  <2>1. PICK d \in Docs :
            call' = [call EXCEPT ![c] = [pc |-> "retry_save", doc |-> d,
                                         version |-> fp[d], existing |-> TRUE]]
    BY <1>2 DEF RetryRead
  <2>2. /\ call'[c].pc = "retry_save" /\ call'[c].doc = d /\ call'[c].version = fp[d]
        /\ \A x \in Calls : x # c => call'[x] = call[x]
    BY <1>0, <2>1 DEF CallOK
  <2> QED BY <1>2, <2>2 DEF RetryRead, Admit, CallAt, table, boot
<1>3. CASE DeleteLookup(c)
  <2>1. PICK d \in Docs :
            call' = [call EXCEPT ![c] = [IdleCall EXCEPT !.pc = "mark", !.doc = d]]
    BY <1>3 DEF DeleteLookup
  <2>2. call'[c].pc = "mark" /\ \A x \in Calls : x # c => call'[x] = call[x]
    BY <1>0, <2>1 DEF CallOK, IdleCall
  <2> QED BY <1>3, <2>2 DEF DeleteLookup, Admit, CallAt, table, boot
<1> QED BY <1>1, <1>2, <1>3 DEF Request

LEMMA PickupFrame ==
    ASSUME TypeOK, Pickup
    PROVE  /\ worker = "up"
           /\ UNCHANGED <<status, fp, file, chunks, call, worker, sweep, swept>>
           /\ \A s \in Slots : run'[s] = run[s] \/ (run[s].pc = "idle" /\ run'[s].pc = "parse")
<1>0. RunOK
  BY DEF TypeOK
<1>1. ASSUME NEW s \in Slots, NEW d \in Docs, StartJob(s, d)
      PROVE  \A x \in Slots : run'[x] = run[x] \/ (run[x].pc = "idle" /\ run'[x].pc = "parse")
  <2> DEFINE r == [IdleRun EXCEPT !.pc = "parse", !.doc = d,
                                  !.expected = IF TeamStorage THEN file[d] ELSE None]
  <2>1. r.pc = "parse"
    BY DEF IdleRun
  <2>2. run' = run \/ run' = [run EXCEPT ![s] = r]
    BY <1>1 DEF StartJob
  <2> HIDE DEF r
  <2> QED BY <1>0, <1>1, <2>1, <2>2 DEF StartJob, TakeJob, RunOf, RunOK
<1>2. ASSUME NEW s \in Slots, NEW d \in Docs, StartJobNoSource(s, d)
      PROVE  UNCHANGED run
  BY <1>2 DEF StartJobNoSource
<1>3. /\ worker = "up"
      /\ UNCHANGED <<status, fp, file, chunks, call, worker, sweep, swept>>
  BY DEF Pickup, StartJob, StartJobNoSource, TakeJob, table, boot
<1> QED BY <1>1, <1>2, <1>3 DEF Pickup

LEMMA ApartStep ==
    ASSUME TypeOK, Apart, [Next]_vars
    PROVE  Apart'
<1>1. CASE UNCHANGED vars
  BY <1>1 DEF vars, boot, Apart, Overlapped, Diverged, Writing
<1>2. CASE Next
  <2>1. \A d \in Docs : Overlapped(d)' \/ Diverged(d)' => d \in tainted'
    BY <1>2, HistoryStep DEF History
  <2>2. CASE \E c \in Calls : Request(c) \/ Serve(c)
    BY <2>1, <2>2, RequestFrame, ServeFrame DEF Apart
  <2>3. ASSUME NEW s \in Slots, Job(s)
        PROVE  Apart'
    BY <2>1, <2>3, JobFrame, IdleNames DEF Apart, RunOf
  <2>4. CASE Pickup
    BY <2>1, <2>4, PickupFrame DEF Apart
  <2>5. CASE Sweep \/ WorkerStart \/ ApiCrash \/ SourceChanged
    BY <2>1, <2>5 DEF Apart, Sweep, WorkerReady, SweepCleanUp, SweepRow, WorkerStart, ApiCrash,
                      SourceChanged, boot
  <2>6. CASE WorkerCrash
    BY <2>1, <2>6 DEF Apart, WorkerCrash
  <2> QED BY <1>2, <2>2, <2>3, <2>4, <2>5, <2>6 DEF Next
<1> QED BY <1>1, <1>2

----------------------------------------------------------------------------
(* Whoever is about to remove a row without looking again, the startup      *)
(* sweep or a cancelled run, is about to remove one whose deletion was      *)
(* requested, or that is gone.                                              *)

Leaving == {"DELETING", "ABSENT"}
Cancelled(s) == run[s].pc \in {"abort_read", "cancel_chunks", "cancel_row", "fin_chunks", "fin_row"}
Removing(d) == d \in sweep \/ \E s \in Slots : run[s].doc = d /\ Cancelled(s)
Condemned == \A d \in Docs \ tainted : Removing(d) => status[d] \in Leaving

\* Only a request that writes the row brings it back, and none is about.
LEMMA LeavingStays ==
    ASSUME TypeOK, Next, NEW d \in Docs, ~Overlapped(d), status[d] \in Leaving,
           d \in sweep \/ \E s \in Slots : run[s].doc = d
    PROVE  status'[d] \in Leaving
<1> USE SetStatusFacts DEF Leaving, table
<1>1. ASSUME NEW c \in Calls, Request(c)
      PROVE  status'[d] \in Leaving
  BY <1>1, RequestFrame
<1>2. ASSUME NEW c \in Calls, Serve(c)
      PROVE  status'[d] \in Leaving
  <2>1. CASE call[c].doc # d
    BY <1>2, <2>1, ServeFrame
  <2>2. CASE call[c].doc = d
    <3>1. ~Writing(c)
      BY <2>2, WriterAlone
    <3>2. Enqueue(c) \/ DeleteMark(c)
      BY <1>2, <3>1 DEF Serve, Writing, UploadSaveFile, UploadSaveRow, RetrySave,
                        DeleteCleanUp, DeleteRow, CallAt
    <3> QED BY <2>2, <3>2 DEF Enqueue, DeleteMark, Cancellable
  <2> QED BY <2>1, <2>2
<1>3. ASSUME NEW s \in Slots, Job(s)
      PROVE  status'[d] \in Leaving
  <2>1. CASE run[s].doc # d
    BY <1>3, <2>1, JobFrame
  <2>2. CASE run[s].doc = d
    <3>1. CASE Claim(s)
      BY <2>2, <3>1 DEF Claim, Claimable
    <3>2. CASE Activate(s) \/ Fail(s)
      BY <2>2, <3>2 DEF Activate, Fail
    <3>3. CASE CancelRow(s) \/ RunDropRow(s)
      BY <2>2, <3>3 DEF CancelRow, RunDropRow, DropRow
    <3>4. CASE UNCHANGED status
      BY <3>4
    <3> QED BY <1>3, <3>1, <3>2, <3>3, <3>4
            DEF Job, ParseRead, Reread, Load, Check, Embed, Upsert, ListChunks, Prune, Raise,
                CancelRead, CancelChunks, RunCleanUp
  <2> QED BY <2>1, <2>2
<1>4. CASE Pickup \/ WorkerStart \/ ApiCrash \/ WorkerCrash \/ SourceChanged
  BY <1>4, PickupFrame DEF WorkerStart, ApiCrash, WorkerCrash, SourceChanged
<1>5. CASE Sweep
  BY <1>5 DEF Sweep, WorkerReady, SweepCleanUp, SweepRow, DropRow
<1> QED BY <1>1, <1>2, <1>3, <1>4, <1>5 DEF Next

\* A run cancels itself only when it has just read that the row is going.
LEMMA CancelledRead ==
    ASSUME TypeOK, NEW s \in Slots, Job(s), ~Cancelled(s), Cancelled(s)'
    PROVE  status[run[s].doc] \in Leaving /\ status' = status
<1> USE RunToAll, EndRunAll, IdleNames DEF Cancelled, Leaving, table, RunOf
<1>0. RunOK
  BY DEF TypeOK
<1>1. CASE Reread(s) \/ Check(s)
  BY <1>0, <1>1 DEF Reread, Check
<1>2. CASE CancelRead(s)
  BY <1>0, <1>2 DEF CancelRead
<1>3. CASE Load(s) \/ ListChunks(s) \/ Prune(s)
  <2>1. run'[s].pc \in {"check", "fail", "prune", "activate"}
    BY <1>0, <1>3 DEF Load, ListChunks, Prune, RunOK, RunRecord
  <2> QED BY <2>1
<1>4. CASE \/ ParseRead(s) \/ Claim(s) \/ Embed(s) \/ Upsert(s) \/ Activate(s) \/ Fail(s)
           \/ Raise(s)
  BY <1>0, <1>4 DEF ParseRead, Claim, Embed, Upsert, Activate, Fail, Raise
<1>5. CASE CancelChunks(s) \/ CancelRow(s) \/ RunCleanUp(s) \/ RunDropRow(s)
  BY <1>5 DEF CancelChunks, CancelRow, RunCleanUp, RunDropRow
<1> QED BY <1>1, <1>2, <1>3, <1>4, <1>5 DEF Job

LEMMA CondemnedStep ==
    ASSUME TypeOK, Apart, Condemned, [Next]_vars
    PROVE  Condemned'
<1>1. CASE UNCHANGED vars
  BY <1>1 DEF vars, table, boot, Condemned, Removing, Cancelled
<1>2. CASE Next
  <2> SUFFICES ASSUME NEW d \in Docs, d \notin tainted', Removing(d)'
               PROVE  status'[d] \in Leaving
    BY DEF Condemned
  <2>0. d \notin tainted /\ ~Overlapped(d)
    BY <1>2, Undisturbed
  <2>1. CASE Removing(d)
    BY <1>2, <2>0, <2>1, LeavingStays DEF Condemned, Removing
  <2>2. CASE ~Removing(d)
    <3>1. ASSUME NEW c \in Calls, Request(c) \/ Serve(c)
          PROVE  FALSE
      BY <2>2, <3>1, RequestFrame, ServeFrame DEF Removing, Cancelled
    <3>2. ASSUME NEW s \in Slots, Job(s)
          PROVE  status'[d] \in Leaving
      <4>1. run'[s].doc = d /\ Cancelled(s)' /\ ~Cancelled(s) /\ run[s].doc = d
        BY <2>2, <3>2, JobFrame, IdleNames DEF Removing, Cancelled
      <4> QED BY <3>2, <4>1, CancelledRead
    <3>3. CASE Pickup
      BY <2>2, <3>3, PickupFrame DEF Removing, Cancelled
    <3>4. CASE WorkerStart
      BY <2>2, <3>4 DEF WorkerStart, Removing, Cancelled, Leaving, table
    <3>5. CASE Sweep
      BY <2>2, <3>5 DEF Sweep, WorkerReady, SweepCleanUp, SweepRow, Removing, Cancelled
    <3>6. CASE ApiCrash \/ SourceChanged
      BY <2>2, <3>6 DEF ApiCrash, SourceChanged, Removing, Cancelled, boot
    <3>7. CASE WorkerCrash
      BY <2>2, <3>7, IdleNames DEF WorkerCrash, Removing
    <3> QED BY <1>2, <3>1, <3>2, <3>3, <3>4, <3>5, <3>6, <3>7 DEF Next
  <2> QED BY <2>1, <2>2
<1> QED BY <1>1, <1>2

LEMMA CondemnedHolds == Spec => [](TypeOK /\ Apart /\ Condemned)
<1>1. Init => Apart /\ Condemned
  BY IdleNames DEF Init, Apart, Overlapped, Diverged, Writing, Condemned, Removing, Cancelled,
                   IdleCall
<1> QED BY <1>1, TypeCorrect, ApartStep, CondemnedStep, PTL DEF Spec

LEMMA DeletesOnlyDeletingStep ==
    ASSUME TypeOK, Apart, Condemned, Next, NEW d \in Docs, d \notin tainted',
           Exists(d), status'[d] = "ABSENT", call' = call
    PROVE  status[d] = "DELETING"
<1>0. d \notin tainted /\ CallOK
  BY Undisturbed DEF TypeOK
<1>1. ASSUME NEW c \in Calls, Request(c) \/ Serve(c)
      PROVE  FALSE
  <2>1. CASE Request(c)
    BY <2>1, RequestFrame DEF Exists
  <2>2. CASE Serve(c)
    <3>1. CASE DeleteRow(c)
      BY <1>0, <3>1, EndCallAll DEF DeleteRow, CallAt, IdleCall
    <3>2. CASE ~DeleteRow(c)
      BY <1>0, <2>2, <3>2, SetStatusFacts
         DEF Serve, UploadSaveFile, UploadSaveRow, Enqueue, RetrySave, DeleteMark,
             DeleteCleanUp, Exists, CallOK, CallAt, table
    <3> QED BY <3>1, <3>2
  <2> QED BY <1>1, <2>1, <2>2
<1>2. ASSUME NEW s \in Slots, Job(s)
      PROVE  status[d] = "DELETING"
  <2>1. run[s].doc = d
    BY <1>2, JobFrame DEF Exists
  <2>2. CASE RunDropRow(s)
    BY <1>0, <2>1, <2>2 DEF RunDropRow, RunOf, Condemned, Removing, Cancelled, Leaving, Exists
  <2>3. CASE CancelRow(s)
    BY <2>1, <2>3 DEF CancelRow, Exists
  <2>4. CASE Claim(s) \/ Activate(s) \/ Fail(s)
    BY <2>1, <2>4, SetStatusFacts DEF Claim, Activate, Fail, Exists
  <2>5. CASE UNCHANGED status
    BY <2>5 DEF Exists
  <2> QED BY <1>2, <2>2, <2>3, <2>4, <2>5
          DEF Job, ParseRead, Reread, Load, Check, Embed, Upsert, ListChunks, Prune, Raise,
              CancelRead, CancelChunks, RunCleanUp, table
<1>3. CASE Pickup \/ WorkerStart \/ ApiCrash \/ WorkerCrash \/ SourceChanged
  BY <1>3, PickupFrame DEF WorkerStart, ApiCrash, WorkerCrash, SourceChanged, Exists, table
<1>4. CASE Sweep
  <2>1. ASSUME NEW e \in Docs, SweepRow(e)
        PROVE  status[d] = "DELETING"
    <3>1. e = d /\ d \in sweep
      BY <2>1, SetStatusFacts DEF SweepRow, DropRow, Exists, TypeOK
    <3> QED BY <1>0, <3>1 DEF Condemned, Removing, Leaving, Exists
  <2> QED BY <1>4, <2>1 DEF Sweep, WorkerReady, SweepCleanUp, Exists, table
<1> QED BY <1>1, <1>2, <1>3, <1>4 DEF Next

(* As long as nobody rewrites a document under a run, neither the worker    *)
(* nor its startup sweep removes a row whose deletion was not requested,    *)
(* although a cancelled run finalizes without looking at the row again.     *)
THEOREM DeletesOnlyDeleting == Spec => WorkerDeletesOnlyDeleting
<1>1. TypeOK /\ Apart /\ Condemned /\ [Next]_vars =>
        [\A d \in Docs \ tainted' :
            Exists(d) /\ status'[d] = "ABSENT" /\ call' = call => status[d] = "DELETING"]_vars
  BY DeletesOnlyDeletingStep
<1> QED BY <1>1, CondemnedHolds, PTL DEF Spec, WorkerDeletesOnlyDeleting

----------------------------------------------------------------------------
(* In its private directory, the file a run reads is the version the row    *)
(* announces, or no file.                                                   *)

Saving(d) == \E c \in Calls : CallAt(c, "save_row") /\ call[c].doc = d

\* Between the write of the file and the write of the row, the request knows
\* what it wrote; a retry knows the fingerprint it will save again.
SourcedAt(d) == ~TeamStorage =>
    /\ \A c \in Calls : call[c].doc = d =>
          /\ CallAt(c, "save_row") => file[d] \in {call[c].version, None}
          /\ CallAt(c, "retry_save") => call[c].version = fp[d]
    /\ Exists(d) /\ ~Saving(d) => file[d] \in {fp[d], None}
Sourced == \A d \in Docs \ tainted : SourcedAt(d)

\* No request moves, no row appears, no file but an empty one is written.
LEMMA SourcedKept ==
    ASSUME NEW d \in Docs, SourcedAt(d), UNCHANGED call, fp'[d] = fp[d],
           Exists(d)' => Exists(d), file'[d] \in {file[d], None}
    PROVE  SourcedAt(d)'
BY DEF SourcedAt, Saving, CallAt

LEMMA JobKeepsSource ==
    ASSUME TypeOK, NEW s \in Slots, Job(s), NEW d \in Docs
    PROVE  (Exists(d)' => Exists(d)) /\ file'[d] \in {file[d], None}
<1>1. CASE run[s].doc # d
  BY <1>1, JobFrame DEF Exists
<1>2. CASE run[s].doc = d
  <2>0. file \in [Docs -> Versions \cup {None}]
    BY DEF TypeOK
  <2>1. CASE Claim(s) \/ Activate(s) \/ Fail(s) \/ RunDropRow(s)
    BY <1>2, <2>1, SetStatusFacts DEF Claim, Claimable, Activate, Fail, RunDropRow, DropRow, Exists
  <2>2. CASE CancelRow(s)
    BY <1>2, <2>0, <2>2, SetStatusFacts DEF CancelRow, DropRow, FileRemoved, Exists
  <2>3. CASE RunCleanUp(s)
    BY <1>2, <2>0, <2>3 DEF RunCleanUp, CleanUp, FileRemoved, Exists, table
  <2>4. CASE UNCHANGED <<status, file>>
    BY <2>4 DEF Exists
  <2> QED BY <2>1, <2>2, <2>3, <2>4
          DEF Job, ParseRead, Reread, Load, Check, Embed, Upsert, ListChunks, Prune, Raise,
              CancelRead, CancelChunks, table
<1> QED BY <1>1, <1>2

LEMMA SourcedRequest ==
    ASSUME TypeOK, NEW c \in Calls, Request(c), NEW d \in Docs, SourcedAt(d)
    PROVE  SourcedAt(d)'
<1>1. Saving(d)' <=> Saving(d)
  BY RequestFrame DEF Saving, CallAt
<1> QED BY <1>1, RequestFrame DEF SourcedAt, CallAt, Exists

LEMMA SourcedServe ==
    ASSUME TypeOK, NEW c \in Calls, Serve(c), NEW d \in Docs, SourcedAt(d),
           ~Overlapped(d), ~CutShort(d)
    PROVE  SourcedAt(d)'
<1> SUFFICES ASSUME ~TeamStorage
             PROVE  SourcedAt(d)'
  BY DEF SourcedAt
<1>0. CallOK /\ file \in [Docs -> Versions \cup {None}] /\ fp \in [Docs -> Versions \cup {None}]
  BY DEF TypeOK
<1>1. CASE call[c].doc # d
  <2>1. /\ file'[d] = file[d] /\ fp'[d] = fp[d] /\ (Exists(d)' <=> Exists(d))
        /\ \A x \in Calls : call[x].doc = d \/ call'[x].doc = d => call'[x] = call[x]
    BY <1>1, ServeFrame, IdleNames DEF Exists
  <2>2. Saving(d)' <=> Saving(d)
    BY <2>1 DEF Saving, CallAt
  <2> QED BY <2>1, <2>2 DEF SourcedAt, CallAt
<1>2. CASE call[c].doc = d
  <2> USE <1>0, <1>2, SetStatusFacts, CallToAll, EndCallAll DEF CallAt
  <2>1. Writing(c) => \A x \in Calls \ {c} : Writing(x) => call[x].doc # d
    BY WriterAlone
  <2>2. CASE UploadSaveFile(c)
    <3>1. file'[d] = call[c].version /\ UNCHANGED <<status, fp>>
      BY <2>2 DEF UploadSaveFile, WriteFile, table
    <3> QED BY <2>1, <2>2, <3>1 DEF UploadSaveFile, SourcedAt, Saving, Writing, Exists
  <2>3. CASE UploadSaveRow(c)
    <3>1. Writing(c) /\ file'[d] \in {call[c].version, None} /\ call'[c].pc \in {"enqueue", "idle"}
      BY <2>3 DEF UploadSaveRow, Writing, SourcedAt, IdleCall
    <3>2. \A x \in Calls : call'[x].pc \in {"save_file", "save_row", "retry_save"}
                              => Writing(x) /\ call'[x] = call[x] /\ x # c
      BY <2>3, <3>1, ServeFrame DEF Writing
    <3>3. Exists(d)' => file'[d] \in {fp'[d], None}
      <4>1. CASE EndCall(c)
        <5>1. call'[c].doc # d
          BY <4>1, IdleNames
        <5> QED BY <2>3, <5>1 DEF CutShort, Exists, UploadSaveRow
      <4>2. CASE ~Exists(d) /\ UNCHANGED <<status, fp>>
        BY <4>2 DEF Exists
      <4>3. CASE fp' = [fp EXCEPT ![d] = call[c].version]
        BY <3>1, <4>3
      <4> QED BY <2>3, <4>1, <4>2, <4>3 DEF UploadSaveRow
    <3> QED BY <2>1, <3>1, <3>2, <3>3 DEF SourcedAt
  <2>4. CASE Enqueue(c)
    BY <2>4 DEF Enqueue, SourcedAt, Saving, Exists, table, IdleCall
  <2>5. CASE RetrySave(c)
    <3>1. fp'[d] = fp[d] /\ (Exists(d)' <=> Exists(d)) /\ UNCHANGED file
      BY <2>5 DEF RetrySave, SourcedAt, Exists
    <3> QED BY <2>1, <2>5, <3>1 DEF RetrySave, SourcedAt, Saving, Writing
  <2>6. CASE DeleteMark(c)
    BY <2>6 DEF DeleteMark, SourcedAt, Saving, Exists, Cancellable, IdleCall
  <2>7. CASE DeleteCleanUp(c)
    <3>1. file'[d] \in {file[d], None} /\ UNCHANGED <<status, fp>>
      BY <2>7 DEF DeleteCleanUp, CleanUp, FileRemoved, table
    <3> QED BY <2>1, <2>7, <3>1 DEF DeleteCleanUp, SourcedAt, Saving, Exists, Writing
  <2>8. CASE DeleteRow(c)
    BY <2>8 DEF DeleteRow, DropRow, SourcedAt, Saving, Exists, IdleCall
  <2> QED BY <2>2, <2>3, <2>4, <2>5, <2>6, <2>7, <2>8 DEF Serve
<1> QED BY <1>1, <1>2

LEMMA SourcedStep ==
    ASSUME TypeOK, Apart, Sourced, [Next]_vars
    PROVE  Sourced'
<1>1. CASE UNCHANGED vars
  BY <1>1 DEF vars, table, Sourced, SourcedAt, Saving, CallAt, Exists
<1>2. CASE Next
  <2> SUFFICES ASSUME NEW d \in Docs, d \notin tainted'
               PROVE  SourcedAt(d)'
    BY DEF Sourced
  <2>0. SourcedAt(d) /\ ~Overlapped(d) /\ ~CutShort(d)
    BY <1>2, Undisturbed DEF Sourced
  <2>1. ASSUME NEW c \in Calls, Request(c) \/ Serve(c)
        PROVE  SourcedAt(d)'
    BY <2>0, <2>1, SourcedRequest, SourcedServe
  <2>2. ASSUME NEW s \in Slots, Job(s)
        PROVE  SourcedAt(d)'
    BY <2>0, <2>2, JobFrame, JobKeepsSource, SourcedKept
  <2>3. CASE Pickup
    BY <2>0, <2>3, PickupFrame, SourcedKept DEF Exists
  <2>4. CASE Sweep
    <3>1. /\ UNCHANGED <<call, fp>> /\ (Exists(d)' => Exists(d)) /\ file'[d] \in {file[d], None}
      BY <2>4, SetStatusFacts DEF Sweep, WorkerReady, SweepCleanUp, SweepRow, CleanUp, FileRemoved,
                  DropRow, Exists, table, TypeOK
    <3> QED BY <2>0, <3>1, SourcedKept
  <2>5. CASE WorkerStart \/ WorkerCrash
    <3>1. /\ UNCHANGED <<call, fp, status>> /\ file'[d] \in {file[d], None}
      BY <2>5 DEF WorkerStart, WorkerCrash, table
    <3> QED BY <2>0, <3>1, SourcedKept DEF Exists
  <2>6. CASE ApiCrash
    <3>1. \A c \in Calls : call'[c].doc # d /\ call'[c].pc = "idle"
      BY <2>6, IdleNames DEF ApiCrash, IdleCall
    <3>2. Exists(d) => ~Saving(d)
      BY <2>0, <2>6, <3>1 DEF ApiCrash, CutShort, Saving, CallAt, Exists, table
    <3> QED BY <2>0, <2>6, <3>1, <3>2 DEF ApiCrash, SourcedAt, CallAt, Exists, table
  <2>7. CASE SourceChanged
    BY <2>7 DEF SourceChanged, SourcedAt
  <2> QED BY <1>2, <2>1, <2>2, <2>3, <2>4, <2>5, <2>6, <2>7 DEF Next
<1> QED BY <1>1, <1>2

----------------------------------------------------------------------------
(* What a run has cut is the version of its row (in a team storage: the     *)
(* revision it was started for), and once it has written the chunks nobody  *)
(* removes them from a row that is not being deleted.                       *)

Text(d, s) == IF TeamStorage THEN run[s].expected ELSE fp[d]

BuiltAt(d) == \A s \in Slots : run[s].doc = d =>
    /\ run[s].pc \in Parsed /\ Exists(d) => run[s].content = Text(d, s)
    /\ run[s].pc \in {"list", "prune", "activate"} /\ status[d] \notin Leaving
          => Text(d, s) \in chunks[d]
Built == \A d \in Docs \ tainted : BuiltAt(d)

Erasing(d) == \E c \in Calls : CallAt(c, "fin_row") /\ call[c].doc = d
Busy(s) == run[s].pc \in Parsed \cup {"load"}
SearchableAt(d) == status[d] = "ACTIVE" /\ ~Erasing(d) =>
    /\ built[d] \in chunks[d]
    /\ ~TeamStorage => built[d] = fp[d]
    /\ \A s \in Slots : run[s].doc = d /\ Busy(s) => Text(d, s) = built[d]
Searchable == \A d \in Docs \ tainted : SearchableAt(d)

\* A row appears, or changes its fingerprint, only by the hand of a writer.
LEMMA WrittenByCall ==
    ASSUME TypeOK, Next, NEW d \in Docs,
           ~\E c \in Calls : Writing(c) /\ call[c].doc = d
    PROVE  fp'[d] = fp[d] /\ (Exists(d)' => Exists(d))
<1>1. ASSUME NEW c \in Calls, Request(c)
      PROVE  fp'[d] = fp[d] /\ (Exists(d)' => Exists(d))
  BY <1>1, RequestFrame DEF Exists
<1>2. ASSUME NEW c \in Calls, Serve(c)
      PROVE  fp'[d] = fp[d] /\ (Exists(d)' => Exists(d))
  <2>1. CASE call[c].doc # d
    BY <1>2, <2>1, ServeFrame DEF Exists
  <2>2. CASE call[c].doc = d
    <3>1. Enqueue(c) \/ DeleteMark(c)
      BY <1>2, <2>2 DEF Serve, Writing, UploadSaveFile, UploadSaveRow, RetrySave,
                        DeleteCleanUp, DeleteRow, CallAt
    <3> QED BY <2>2, <3>1 DEF Enqueue, DeleteMark, Cancellable, Exists, table
  <2> QED BY <2>1, <2>2
<1>3. ASSUME NEW s \in Slots, Job(s)
      PROVE  fp'[d] = fp[d] /\ (Exists(d)' => Exists(d))
  BY <1>3, JobFrame, JobKeepsSource
<1>4. CASE Pickup \/ WorkerStart \/ ApiCrash \/ WorkerCrash \/ SourceChanged
  BY <1>4, PickupFrame DEF WorkerStart, ApiCrash, WorkerCrash, SourceChanged, Exists, table
<1>5. CASE Sweep
  BY <1>5, SetStatusFacts DEF Sweep, WorkerReady, SweepCleanUp, SweepRow, DropRow, Exists, table
<1> QED BY <1>1, <1>2, <1>3, <1>4, <1>5 DEF Next

\* Chunks of the one version a document's runs cut go only with the row: with a
\* requested deletion, or under a request that has still to remove the row.
LEMMA ChunksKept ==
    ASSUME TypeOK, Condemned, Next, NEW d \in Docs, d \notin tainted,
           status[d] \notin Leaving, NEW v \in chunks[d],
           \A s \in Slots : run[s].doc = d /\ run[s].pc = "prune" => run[s].content = v
    PROVE  v \in chunks'[d] \/ Erasing(d)'
<1>0. chunks \in [Docs -> SUBSET Versions] /\ CallOK
  BY DEF TypeOK
<1>1. ASSUME NEW c \in Calls, Request(c)
      PROVE  v \in chunks'[d]
  BY <1>1, RequestFrame
<1>2. ASSUME NEW c \in Calls, Serve(c)
      PROVE  v \in chunks'[d] \/ Erasing(d)'
  <2>1. CASE call[c].doc = d /\ DeleteCleanUp(c)
    BY <1>0, <2>1, CallToAll DEF DeleteCleanUp, Erasing, CallAt
  <2>2. CASE call[c].doc # d
    BY <1>2, <2>2, ServeFrame
  <2>3. CASE ~DeleteCleanUp(c)
    BY <1>2, <2>3 DEF Serve, UploadSaveFile, UploadSaveRow, Enqueue, RetrySave, DeleteMark,
                      DeleteRow
  <2> QED BY <2>1, <2>2, <2>3
<1>3. ASSUME NEW s \in Slots, Job(s)
      PROVE  v \in chunks'[d]
  <2>1. CASE run[s].doc # d
    BY <1>3, <2>1, JobFrame
  <2>2. CASE run[s].doc = d
    <3>1. CASE CancelChunks(s) \/ RunCleanUp(s)
      BY <2>2, <3>1 DEF CancelChunks, RunCleanUp, RunOf, Condemned, Removing, Cancelled
    <3>2. CASE Prune(s)
      BY <1>0, <2>2, <3>2 DEF Prune, DeleteChunks, RunOf
    <3>3. CASE Upsert(s)
      BY <1>0, <2>2, <3>3 DEF Upsert
    <3>4. CASE UNCHANGED chunks
      BY <3>4
    <3> QED BY <1>3, <3>1, <3>2, <3>3, <3>4
            DEF Job, ParseRead, Claim, Reread, Load, Check, Embed, ListChunks, Activate, Fail,
                Raise, CancelRead, CancelRow, RunDropRow
  <2> QED BY <2>1, <2>2
<1>4. CASE Pickup \/ WorkerStart \/ ApiCrash \/ WorkerCrash \/ SourceChanged
  BY <1>4, PickupFrame DEF WorkerStart, ApiCrash, WorkerCrash, SourceChanged
<1>5. CASE Sweep
  <2>1. ASSUME NEW e \in Docs, SweepCleanUp(e)
        PROVE  v \in chunks'[d]
    <3>1. e # d
      BY <2>1 DEF SweepCleanUp, Condemned, Removing
    <3> QED BY <1>0, <2>1, <3>1 DEF SweepCleanUp, CleanUp, DeleteChunks
  <2> QED BY <1>5, <2>1 DEF Sweep, WorkerReady, SweepRow
<1> QED BY <1>1, <1>2, <1>3, <1>4, <1>5 DEF Next

\* The runs of an undisturbed document are all of one text.
LEMMA OneText ==
    ASSUME NEW d \in Docs, ~Diverged(d), NEW s \in Slots, NEW x \in Slots,
           run[s].doc = d, run[x].doc = d
    PROVE  Text(d, s) = Text(d, x)
BY DEF Text, Diverged

\* What a run knows of its document as it moves on.
LEMMA BuiltJob ==
    ASSUME TypeOK, NEW s \in Slots, Job(s), NEW d \in Docs, run[s].doc = d, run'[s].doc = d,
           SourcedAt(d), BuiltAt(d), ~Overlapped(d)
    PROVE  /\ run'[s].pc \in Parsed /\ Exists(d)' => run'[s].content = Text(d, s)
           /\ run'[s].pc \in {"list", "prune", "activate"} /\ status'[d] \notin Leaving
                 => Text(d, s) \in chunks'[d]
<1> DEFINE t == Text(d, s)
<1>0. /\ RunOK /\ run[s] \in RunRecord /\ chunks \in [Docs -> SUBSET Versions]
      /\ run[s].pc \in Parsed /\ Exists(d) => run[s].content = t
      /\ run[s].pc \in {"list", "prune", "activate"} /\ status[d] \notin Leaving => t \in chunks[d]
  BY DEF TypeOK, RunOK, BuiltAt
<1>a. Load(s) /\ Exists(d) /\ SourceUnchanged(s) /\ file[d] # None => file[d] = t
  <2>1. ~Saving(d)
    BY DEF Saving, Overlapped, Writing, CallAt
  <2> QED BY <2>1 DEF SourceUnchanged, SourcedAt, Text
<1> HIDE DEF t
<1> SUFFICES /\ run'[s].pc \in Parsed /\ Exists(d)' => run'[s].content = t
             /\ run'[s].pc \in {"list", "prune", "activate"} /\ status'[d] \notin Leaving
                   => t \in chunks'[d]
  BY DEF t
<1> USE <1>0, RunToAll, EndRunAll, IdleNames DEF RunOf, Parsed, table
<1>1. CASE Load(s)
  <2>1. CASE RunTo(s, "fail")
    BY <2>1
  <2>2. CASE /\ SourceUnchanged(s) /\ file[d] # None
             /\ run' = [run EXCEPT ![s].pc = "check", ![s].content = file[d]]
    <3>1. run'[s].pc = "check" /\ run'[s].content = file[d]
      BY <2>2 DEF RunOK, RunRecord
    <3> QED BY <1>1, <1>a, <2>2, <3>1 DEF Load, Exists
  <2> QED BY <1>1, <2>1, <2>2 DEF Load
<1>2. CASE Check(s) \/ Embed(s)
  BY <1>2 DEF Check, Embed, Exists
<1>3. CASE Upsert(s)
  BY <1>3 DEF Upsert, Exists, Leaving
<1>4. CASE ListChunks(s)
  <2>1. run'[s].pc = "prune" /\ run'[s].content = run[s].content
    BY <1>4 DEF ListChunks, RunOK, RunRecord
  <2> QED BY <1>4, <2>1 DEF ListChunks, Exists
<1>5. CASE Prune(s)
  <2>1. run'[s].pc = "activate" /\ run'[s].content = run[s].content
    BY <1>5 DEF Prune, RunOK, RunRecord
  <2>2. UNCHANGED status /\ run[s].pc = "prune"
    BY <1>5 DEF Prune
  <2>3. chunks'[d] \in {chunks[d], chunks[d] \ (run[s].listed \ {run[s].content})}
    BY <1>5 DEF Prune, DeleteChunks
  <2> QED BY <2>1, <2>2, <2>3 DEF Exists, Leaving
<1>6. CASE Claim(s) \/ ParseRead(s) \/ Reread(s) \/ Activate(s) \/ Fail(s) \/ Raise(s)
  BY <1>6 DEF Claim, ParseRead, Reread, Activate, Fail, Raise, IdleRun
<1>7. CASE CancelRead(s)
  <2>1. run'[s].pc \in {"cancel_chunks", "fin_chunks", "idle"}
    BY <1>7 DEF CancelRead, RunOK, RunRecord, IdleRun
  <2> QED BY <2>1
<1>8. CASE CancelChunks(s) \/ CancelRow(s) \/ RunCleanUp(s) \/ RunDropRow(s)
  BY <1>8 DEF CancelChunks, CancelRow, RunCleanUp, RunDropRow, IdleRun
<1> QED BY <1>1, <1>2, <1>3, <1>4, <1>5, <1>6, <1>7, <1>8 DEF Job

\* A run that a step leaves on its document either did not move or moved on.
LEMMA RunMoves ==
    ASSUME TypeOK, Next, NEW s \in Slots, NEW d \in Docs, run'[s].doc = d,
           run'[s].pc \notin {"idle", "parse"}
    PROVE  /\ run[s].doc = d /\ run'[s].expected = run[s].expected
           /\ run'[s] = run[s] \/ Job(s)
<1>1. CASE \E c \in Calls : Request(c) \/ Serve(c)
  BY <1>1, RequestFrame, ServeFrame
<1>2. CASE \E x \in Slots : Job(x)
  BY <1>2, JobFrame, IdleNames
<1>3. CASE Pickup
  BY <1>3, PickupFrame
<1>4. CASE Sweep \/ WorkerStart \/ ApiCrash \/ SourceChanged
  BY <1>4 DEF Sweep, WorkerReady, SweepCleanUp, SweepRow, WorkerStart, ApiCrash, SourceChanged
<1>5. CASE WorkerCrash
  BY <1>5, IdleNames DEF WorkerCrash
<1> QED BY <1>1, <1>2, <1>3, <1>4, <1>5 DEF Next

LEMMA BuiltStep ==
    ASSUME TypeOK, Apart, Condemned, Sourced, Built, [Next]_vars
    PROVE  Built'
<1>1. CASE UNCHANGED vars
  BY <1>1 DEF vars, table, Built, BuiltAt, Text, Exists
<1>2. CASE Next
  <2> SUFFICES ASSUME NEW d \in Docs, d \notin tainted', NEW s \in Slots, run'[s].doc = d,
                      run'[s].pc \in Parsed
               PROVE  /\ Exists(d)' => run'[s].content = Text(d, s)'
                      /\ run'[s].pc \in {"list", "prune", "activate"} /\ status'[d] \notin Leaving
                            => Text(d, s)' \in chunks'[d]
    BY DEF Built, BuiltAt, Parsed
  <2>0. /\ d \notin tainted /\ ~Overlapped(d) /\ ~Overlapped(d)' /\ ~Diverged(d)
        /\ SourcedAt(d) /\ BuiltAt(d)
    BY <1>2, Undisturbed DEF Sourced, Built
  <2>1. run[s].doc = d /\ run'[s].expected = run[s].expected /\ (run'[s] = run[s] \/ Job(s))
    BY <1>2, RunMoves DEF Parsed
  <2>2. fp'[d] = fp[d] /\ (Exists(d)' => Exists(d))
    BY <1>2, <2>0, <2>1, WrittenByCall DEF Overlapped
  <2>3. Text(d, s)' = Text(d, s)
    BY <2>1, <2>2 DEF Text
  <2>4. CASE Job(s)
    BY <2>0, <2>1, <2>3, <2>4, BuiltJob
  <2>5. CASE run'[s] = run[s]
    <3>1. ASSUME run[s].pc \in {"list", "prune", "activate"}, status'[d] \notin Leaving
          PROVE  Text(d, s) \in chunks'[d]
      <4>1. status[d] \notin Leaving
        BY <1>2, <2>0, <2>1, <3>1, LeavingStays
      <4>2. ~Erasing(d)'
        BY <2>0 DEF Overlapped, Erasing, Writing, CallAt
      <4>3. \A x \in Slots : run[x].doc = d /\ run[x].pc = "prune" => run[x].content = Text(d, s)
        BY <2>0, <2>1, <4>1, OneText DEF BuiltAt, Parsed, Exists, Leaving
      <4> QED BY <1>2, <2>0, <2>1, <3>1, <4>1, <4>2, <4>3, ChunksKept DEF BuiltAt
    <3> QED BY <2>0, <2>1, <2>2, <2>3, <2>5, <3>1 DEF BuiltAt
  <2> QED BY <2>1, <2>4, <2>5
<1> QED BY <1>1, <1>2

\* Only a run's commit makes a document searchable, and says what was read.
LEMMA ActiveStarts ==
    ASSUME TypeOK, Next, NEW d \in Docs, status'[d] = "ACTIVE", status[d] # "ACTIVE"
    PROVE  /\ UNCHANGED <<fp, chunks>> /\ status[d] = "PROCESSING"
           /\ \E s \in Slots : /\ RunOf(s, "activate") /\ run[s].doc = d
                               /\ built'[d] = run[s].content
                               /\ EndRun(s)
<1>1. ASSUME NEW c \in Calls, Request(c) \/ Serve(c)
      PROVE  FALSE
  <2>1. CASE Request(c)
    BY <2>1, RequestFrame
  <2>2. CASE Serve(c)
    BY <2>2, ServeFrame, SetStatusFacts
       DEF Serve, UploadSaveFile, UploadSaveRow, Enqueue, RetrySave, DeleteMark,
           DeleteCleanUp, DeleteRow, DropRow, table
  <2> QED BY <1>1, <2>1, <2>2
<1>2. ASSUME NEW s \in Slots, Job(s)
      PROVE  Activate(s) /\ run[s].doc = d /\ status[d] = "PROCESSING"
  <2>1. run[s].doc = d
    BY <1>2, JobFrame
  <2>2. CASE Activate(s)
    BY <2>1, <2>2 DEF Activate
  <2>3. CASE Claim(s) \/ Fail(s) \/ CancelRow(s) \/ RunDropRow(s)
    BY <2>1, <2>3, SetStatusFacts DEF Claim, Fail, CancelRow, RunDropRow, DropRow
  <2>4. CASE UNCHANGED status
    BY <2>4
  <2> QED BY <1>2, <2>1, <2>2, <2>3, <2>4
          DEF Job, ParseRead, Reread, Load, Check, Embed, Upsert, ListChunks, Prune, Raise,
              CancelRead, CancelChunks, RunCleanUp, table
<1>3. CASE Pickup \/ WorkerStart \/ ApiCrash \/ WorkerCrash \/ SourceChanged
  BY <1>3, PickupFrame DEF WorkerStart, ApiCrash, WorkerCrash, SourceChanged, table
<1>4. CASE Sweep
  BY <1>4, SetStatusFacts DEF Sweep, WorkerReady, SweepCleanUp, SweepRow, DropRow, table
<1>5. built \in [Docs -> Versions \cup {None}]
  BY DEF TypeOK
<1> QED BY <1>1, <1>2, <1>3, <1>4, <1>5 DEF Next, Activate

\* The record of what was read changes only where a commit makes a row ACTIVE.
LEMMA BuiltByCommit ==
    ASSUME TypeOK, Next, NEW d \in Docs, built'[d] # built[d]
    PROVE  status[d] = "PROCESSING"
<1>1. CASE \E s \in Slots : Activate(s)
  BY <1>1 DEF Activate, TypeOK
<1>2. CASE UNCHANGED built
  BY <1>2
<1>3. CASE \E c \in Calls : Request(c) \/ Serve(c)
  BY <1>2, <1>3 DEF Request, UploadLookup, RetryRead, DeleteLookup, Serve, UploadSaveFile,
        UploadSaveRow, Enqueue, RetrySave, DeleteMark, DeleteCleanUp, DeleteRow, past
<1>4. CASE \E s \in Slots : Job(s)
  BY <1>1, <1>2, <1>4 DEF Job, ParseRead, Claim, Reread, Load, Check, Embed, Upsert, ListChunks,
        Prune, Fail, Raise, CancelRead, CancelChunks, CancelRow, RunCleanUp, RunDropRow, past
<1>5. CASE Pickup \/ Sweep \/ WorkerStart \/ ApiCrash \/ WorkerCrash \/ SourceChanged
  BY <1>2, <1>5 DEF Pickup, StartJob, StartJobNoSource, Sweep, WorkerReady, SweepCleanUp, SweepRow,
        WorkerStart, ApiCrash, WorkerCrash, SourceChanged, past
<1> QED BY <1>3, <1>4, <1>5 DEF Next

\* A run past its claim of a row that stays ACTIVE was past it before.
LEMMA ClaimedBefore ==
    ASSUME TypeOK, NEW s \in Slots, Job(s), status[run[s].doc] = "ACTIVE", Busy(s)'
    PROVE  Busy(s)
<1>0. RunOK /\ run[s] \in RunRecord
  BY DEF TypeOK, RunOK
<1> USE <1>0, RunToAll, EndRunAll, IdleNames DEF RunOf, Parsed, Busy
<1>1. CASE Busy(s)
  BY <1>1
<1>2. CASE ParseRead(s) \/ Claim(s) \/ Reread(s) \/ Fail(s) \/ Raise(s)
  BY <1>2 DEF ParseRead, Claim, Claimable, Reread, Fail, Raise
<1>3. CASE CancelRead(s)
  <2>1. run'[s].pc \in {"cancel_chunks", "fin_chunks", "idle"}
    BY <1>3 DEF CancelRead, RunOK, RunRecord, IdleRun
  <2> QED BY <2>1
<1>4. CASE CancelChunks(s) \/ CancelRow(s) \/ RunCleanUp(s) \/ RunDropRow(s)
  BY <1>4 DEF CancelChunks, CancelRow, RunCleanUp, RunDropRow
<1>5. CASE \/ Load(s) \/ Check(s) \/ Embed(s) \/ Upsert(s) \/ ListChunks(s) \/ Prune(s)
           \/ Activate(s)
  BY <1>5 DEF Load, Check, Embed, Upsert, ListChunks, Prune, Activate
<1> QED BY <1>2, <1>3, <1>4, <1>5 DEF Job

\* A request that has removed the chunks removes the row: it is not cut short.
LEMMA ErasingEnds ==
    ASSUME TypeOK, Next, NEW d \in Docs, Erasing(d), ~CutShort(d), Exists(d)'
    PROVE  Erasing(d)'
<1>1. PICK c \in Calls : CallAt(c, "fin_row") /\ call[c].doc = d
  BY DEF Erasing
<1>2. call'[c].doc = d
  BY <1>1 DEF CutShort, CallAt, Exists
<1>3. CASE call'[c] = call[c]
  BY <1>1, <1>3 DEF Erasing, CallAt
<1>4. CASE call'[c] # call[c]
  <2>1. CASE Serve(c)
    <3>1. DeleteRow(c)
      BY <1>1, <2>1 DEF Serve, UploadSaveFile, UploadSaveRow, Enqueue, RetrySave, DeleteMark,
                        DeleteCleanUp, CallAt
    <3> QED BY <1>1, <3>1, SetStatusFacts DEF DeleteRow, DropRow, Exists
  <2>2. CASE \E x \in Calls : Request(x) \/ (x # c /\ Serve(x))
    BY <1>1, <1>4, <2>2, RequestFrame, ServeFrame DEF CallAt
  <2>3. CASE \/ \E s \in Slots : Job(s)
             \/ Pickup
    BY <1>4, <2>3, JobFrame, PickupFrame
  <2>4. CASE Sweep \/ WorkerStart \/ WorkerCrash \/ SourceChanged
    BY <1>4, <2>4 DEF Sweep, WorkerReady, SweepCleanUp, SweepRow, WorkerStart, WorkerCrash,
                      SourceChanged
  <2>5. CASE ApiCrash
    BY <1>2, <2>5, IdleNames DEF ApiCrash
  <2> QED BY <2>1, <2>2, <2>3, <2>4, <2>5 DEF Next
<1> QED BY <1>3, <1>4

\* Writing the fingerprint of a searchable document ends its being searchable.
LEMMA ActiveKeepsFp ==
    ASSUME TypeOK, Next, NEW d \in Docs, status[d] = "ACTIVE", status'[d] = "ACTIVE"
    PROVE  fp'[d] = fp[d]
<1>1. ASSUME NEW c \in Calls, Request(c) \/ Serve(c)
      PROVE  fp'[d] = fp[d]
  <2>1. CASE Request(c)
    BY <2>1, RequestFrame
  <2>2. CASE Serve(c) /\ call[c].doc = d
    BY <2>2, SetStatusFacts
       DEF Serve, UploadSaveFile, UploadSaveRow, Enqueue, RetrySave, DeleteMark,
           DeleteCleanUp, DeleteRow, table, Exists
  <2>3. CASE Serve(c) /\ call[c].doc # d
    BY <2>3, ServeFrame
  <2> QED BY <1>1, <2>1, <2>2, <2>3
<1>2. ASSUME NEW s \in Slots, Job(s)
      PROVE  fp'[d] = fp[d]
  BY <1>2, JobFrame
<1>3. CASE Pickup \/ Sweep \/ WorkerStart \/ ApiCrash \/ WorkerCrash \/ SourceChanged
  BY <1>3, PickupFrame DEF Sweep, WorkerReady, SweepCleanUp, SweepRow, WorkerStart, ApiCrash,
                           WorkerCrash, SourceChanged, table
<1> QED BY <1>1, <1>2, <1>3 DEF Next

LEMMA SearchableStep ==
    ASSUME TypeOK, Apart, Condemned, Built, Searchable, [Next]_vars
    PROVE  Searchable'
<1>1. CASE UNCHANGED vars
  BY <1>1 DEF vars, table, past, Searchable, SearchableAt, Busy, Text, Erasing, CallAt
<1>2. CASE Next
  <2> SUFFICES ASSUME NEW d \in Docs, d \notin tainted', status'[d] = "ACTIVE", ~Erasing(d)'
               PROVE  /\ built'[d] \in chunks'[d]
                      /\ ~TeamStorage => built'[d] = fp'[d]
                      /\ \A s \in Slots : run'[s].doc = d /\ Busy(s)' => Text(d, s)' = built'[d]
    BY DEF Searchable, SearchableAt
  <2>0. d \notin tainted /\ ~CutShort(d) /\ ~Diverged(d) /\ BuiltAt(d) /\ SearchableAt(d)
    BY <1>2, Undisturbed DEF Built, Searchable
  <2>1. CASE status[d] = "ACTIVE"
    <3>1. ~Erasing(d)
      BY <1>2, <2>0, ErasingEnds DEF Exists
    <3>2. fp'[d] = fp[d] /\ built'[d] = built[d]
      BY <1>2, <2>1, ActiveKeepsFp, BuiltByCommit
    <3>3. \A x \in Slots : run[x].doc = d /\ run[x].pc = "prune" => run[x].content = built[d]
      BY <2>0, <2>1, <3>1 DEF BuiltAt, SearchableAt, Parsed, Busy, Exists
    <3>4. built[d] \in chunks'[d]
      BY <1>2, <2>0, <2>1, <3>1, <3>3, ChunksKept DEF SearchableAt, Leaving
    <3>5. ASSUME NEW s \in Slots, run'[s].doc = d, Busy(s)'
          PROVE  Text(d, s)' = built[d]
      <4>1. /\ run[s].doc = d /\ run'[s].expected = run[s].expected
            /\ run'[s] = run[s] \/ Job(s)
        BY <1>2, <3>5, RunMoves DEF Busy, Parsed
      <4>2. Busy(s)
        BY <2>1, <3>5, <4>1, ClaimedBefore DEF Busy
      <4> QED BY <2>0, <2>1, <3>1, <3>2, <4>1, <4>2 DEF SearchableAt, Text
    <3> QED BY <2>0, <2>1, <3>1, <3>2, <3>4, <3>5 DEF SearchableAt
  <2>2. CASE status[d] # "ACTIVE"
    <3>1. /\ UNCHANGED <<fp, chunks>> /\ status[d] = "PROCESSING"
          /\ \E s \in Slots : /\ RunOf(s, "activate") /\ run[s].doc = d
                              /\ built'[d] = run[s].content
                              /\ EndRun(s)
      BY <1>2, <2>2, ActiveStarts
    <3>2. PICK s \in Slots : /\ RunOf(s, "activate") /\ run[s].doc = d
                             /\ built'[d] = run[s].content
                             /\ EndRun(s)
      BY <3>1
    <3>3. built'[d] = Text(d, s) /\ Text(d, s) \in chunks[d]
      BY <2>0, <3>1, <3>2 DEF BuiltAt, RunOf, Parsed, Exists, Leaving
    <3>4. ASSUME NEW x \in Slots, run'[x].doc = d, Busy(x)'
          PROVE  Text(d, x)' = built'[d]
      <4>1. run[x].doc = d /\ run'[x].expected = run[x].expected
        BY <1>2, <3>4, RunMoves DEF Busy, Parsed
      <4> QED BY <2>0, <3>1, <3>2, <3>3, <4>1, OneText DEF Text
    <3> QED BY <3>1, <3>3, <3>4 DEF Text
  <2> QED BY <2>1, <2>2
<1> QED BY <1>1, <1>2

IndexInv == TypeOK /\ Apart /\ Condemned /\ Sourced /\ Built /\ Searchable

LEMMA IndexInvHolds == Spec => []IndexInv
<1>1. Init => Sourced /\ Built /\ Searchable
  BY IdleNames DEF Init, Sourced, SourcedAt, Saving, CallAt, Exists, Built, BuiltAt, Searchable,
                   SearchableAt, IdleCall
<1>2. Sourced /\ Built /\ Searchable /\ TypeOK /\ Apart /\ Condemned /\ [Next]_vars
         => (Sourced /\ Built /\ Searchable)'
  BY SourcedStep, BuiltStep, SearchableStep
<1> QED BY <1>1, <1>2, CondemnedHolds, PTL DEF Spec, IndexInv

(* Whatever runs, redeliveries and crashes overlap, whether or not the      *)
(* vector index loses deletions, and however the owner of a team storage    *)
(* replaces or removes the file: a document that is ACTIVE and at rest has  *)
(* the chunks of what the run that made it ACTIVE has read, which in a      *)
(* private directory is the version its row announces, unless an API call   *)
(* overlapped somebody or was cut short or its runs were of two revisions.  *)
THEOREM ActiveIsSearchable == Spec => []ActiveHasChunks
<1>1. IndexInv => ActiveHasChunks
  BY DEF IndexInv, Searchable, SearchableAt, ActiveHasChunks, Engaged, Writing, Erasing, CallAt
<1> QED BY <1>1, IndexInvHolds, PTL

----------------------------------------------------------------------------
(* In private directories, and with a vector index that deletes what it is  *)
(* asked to, no other version's chunks are left once a run has pruned.      *)

PrunedAt(d) ==
    /\ \A s \in Slots : run[s].doc = d /\ Exists(d) =>
          /\ RunOf(s, "prune") => chunks[d] \subseteq run[s].listed \cup {fp[d]}
          /\ RunOf(s, "activate") => chunks[d] \subseteq {fp[d]}
    /\ status[d] = "ACTIVE" /\ ~Erasing(d) => chunks[d] \subseteq {fp[d]}
Pruned == \A d \in Docs \ tainted : PrunedAt(d)

\* Every run of a document cuts the version its row announces.
LEMMA OnlyOwnChunks ==
    ASSUME ~TeamStorage, TypeOK, Built, Next, NEW d \in Docs, d \notin tainted, Exists(d)
    PROVE  chunks'[d] \subseteq chunks[d] \cup {fp[d]}
<1>0. chunks \in [Docs -> SUBSET Versions] /\ BuiltAt(d)
  BY DEF Built, TypeOK
<1>1. ASSUME NEW c \in Calls, Request(c) \/ Serve(c)
      PROVE  chunks'[d] \subseteq chunks[d]
  <2>1. CASE DeleteCleanUp(c)
    BY <1>0, <2>1 DEF DeleteCleanUp, CleanUp, DeleteChunks
  <2>2. CASE ~DeleteCleanUp(c)
    BY <1>1, <2>2, RequestFrame DEF Serve, UploadSaveFile, UploadSaveRow, Enqueue, RetrySave,
                                    DeleteMark, DeleteRow
  <2> QED BY <2>1, <2>2
<1>2. ASSUME NEW s \in Slots, Job(s)
      PROVE  chunks'[d] \subseteq chunks[d] \cup {fp[d]}
  <2>1. CASE run[s].doc # d
    BY <1>2, <2>1, JobFrame
  <2>2. CASE run[s].doc = d /\ Upsert(s)
    BY <1>0, <2>2 DEF Upsert, RunOf, BuiltAt, Text, Parsed
  <2>3. CASE Prune(s) \/ CancelChunks(s) \/ RunCleanUp(s)
    BY <1>0, <2>3 DEF Prune, CancelChunks, RunCleanUp, CleanUp, DeleteChunks
  <2>4. CASE UNCHANGED chunks
    BY <2>4
  <2> QED BY <1>2, <2>1, <2>2, <2>3, <2>4
          DEF Job, ParseRead, Claim, Reread, Load, Check, Embed, ListChunks, Activate, Fail,
              Raise, CancelRead, CancelRow, RunDropRow
<1>3. CASE Pickup \/ WorkerStart \/ ApiCrash \/ WorkerCrash \/ SourceChanged
  BY <1>3, PickupFrame DEF WorkerStart, ApiCrash, WorkerCrash, SourceChanged
<1>4. CASE Sweep
  BY <1>0, <1>4 DEF Sweep, WorkerReady, SweepCleanUp, SweepRow, CleanUp, DeleteChunks
<1> QED BY <1>1, <1>2, <1>3, <1>4 DEF Next

LEMMA PrunedJob ==
    ASSUME TypeOK, ~TeamStorage, ~DeletesMayFail, NEW s \in Slots, Job(s), NEW d \in Docs,
           run[s].doc = d, BuiltAt(d), PrunedAt(d), Exists(d)
    PROVE  /\ run'[s].pc = "prune" => chunks'[d] \subseteq run'[s].listed \cup {fp[d]}
           /\ run'[s].pc = "activate" => chunks'[d] \subseteq {fp[d]}
<1>0. RunOK /\ chunks \in [Docs -> SUBSET Versions]
  BY DEF TypeOK
<1> USE <1>0, RunToAll, EndRunAll, IdleNames DEF RunOf
<1>1. CASE ListChunks(s)
  <2>1. run'[s].pc = "prune" /\ run'[s].listed = chunks[d] /\ UNCHANGED chunks
    BY <1>1 DEF ListChunks, RunOK, RunRecord
  <2> QED BY <2>1
<1>2. CASE Prune(s)
  <2>1. run'[s].pc = "activate"
    BY <1>2 DEF Prune, RunOK, RunRecord
  <2>2. run[s].content = fp[d] /\ chunks[d] \subseteq run[s].listed \cup {fp[d]}
    BY <1>2 DEF Prune, BuiltAt, Text, PrunedAt, Parsed
  <2>3. chunks'[d] = chunks[d] \ (run[s].listed \ {run[s].content})
    BY <1>2 DEF Prune, DeleteChunks
  <2> QED BY <2>1, <2>2, <2>3
<1>3. CASE Load(s) \/ CancelRead(s)
  <2>1. run'[s].pc \in {"check", "fail", "cancel_chunks", "fin_chunks", "idle"}
    BY <1>3 DEF Load, CancelRead, RunOK, RunRecord
  <2> QED BY <2>1
<1>4. CASE \/ ParseRead(s) \/ Claim(s) \/ Reread(s) \/ Check(s) \/ Embed(s) \/ Upsert(s)
           \/ Activate(s) \/ Fail(s) \/ Raise(s)
  BY <1>4 DEF ParseRead, Claim, Reread, Check, Embed, Upsert, Activate, Fail, Raise
<1>5. CASE CancelChunks(s) \/ CancelRow(s) \/ RunCleanUp(s) \/ RunDropRow(s)
  BY <1>5 DEF CancelChunks, CancelRow, RunCleanUp, RunDropRow
<1> QED BY <1>1, <1>2, <1>3, <1>4, <1>5 DEF Job

LEMMA PrunedStep ==
    ASSUME ~TeamStorage, ~DeletesMayFail, IndexInv, Pruned, [Next]_vars
    PROVE  Pruned'
<1> USE DEF IndexInv
<1>1. CASE UNCHANGED vars
  BY <1>1 DEF vars, table, Pruned, PrunedAt, RunOf, Exists, Erasing, CallAt
<1>2. CASE Next
  <2> SUFFICES ASSUME NEW d \in Docs, d \notin tainted'
               PROVE  PrunedAt(d)'
    BY DEF Pruned
  <2>0. d \notin tainted /\ ~Overlapped(d) /\ ~CutShort(d) /\ BuiltAt(d) /\ PrunedAt(d)
    BY <1>2, Undisturbed DEF Built, Pruned
  <2>1. ASSUME NEW s \in Slots, run'[s].doc = d, Exists(d)', run'[s].pc \in {"prune", "activate"}
        PROVE  /\ run'[s].pc = "prune" => chunks'[d] \subseteq run'[s].listed \cup {fp'[d]}
               /\ run'[s].pc = "activate" => chunks'[d] \subseteq {fp'[d]}
    <3>1. run[s].doc = d /\ (run'[s] = run[s] \/ Job(s))
      BY <1>2, <2>1, RunMoves
    <3>2. fp'[d] = fp[d] /\ Exists(d)
      BY <1>2, <2>0, <2>1, <3>1, WrittenByCall DEF Overlapped
    <3>3. CASE Job(s)
      BY <2>0, <3>1, <3>2, <3>3, PrunedJob
    <3>4. CASE run'[s] = run[s]
      BY <1>2, <2>0, <3>1, <3>2, <3>4, OnlyOwnChunks DEF PrunedAt, RunOf
    <3> QED BY <3>1, <3>3, <3>4
  <2>2. ASSUME status'[d] = "ACTIVE", ~Erasing(d)'
        PROVE  chunks'[d] \subseteq {fp'[d]}
    <3>1. CASE status[d] = "ACTIVE"
      <4>1. ~Erasing(d)
        BY <1>2, <2>0, <2>2, ErasingEnds DEF Exists
      <4> QED BY <1>2, <2>0, <2>2, <3>1, <4>1, OnlyOwnChunks, ActiveKeepsFp DEF PrunedAt, Exists
    <3>2. CASE status[d] # "ACTIVE"
      BY <1>2, <2>0, <2>2, <3>2, ActiveStarts DEF PrunedAt, Exists
    <3> QED BY <3>1, <3>2
  <2> QED BY <2>1, <2>2 DEF PrunedAt, RunOf, Exists
<1> QED BY <1>1, <1>2

(* If the vector index deletes what it is asked to, a document that is      *)
(* ACTIVE and at rest is indexed under exactly the version its row          *)
(* announces, in private directories: the owner of a team storage may       *)
(* replace the file between the upload and its run.                         *)
THEOREM ActiveIsExact ==
    ASSUME ~TeamStorage, ~DeletesMayFail
    PROVE  Spec => []ActiveIsIndexed
<1>1. Init => Pruned
  BY IdleNames DEF Init, Pruned, PrunedAt, RunOf, Exists
<1>2. IndexInv /\ Pruned /\ [Next]_vars => Pruned'
  BY PrunedStep
<1>3. IndexInv /\ Pruned => ActiveIsIndexed
  BY DEF IndexInv, Searchable, SearchableAt, Pruned, PrunedAt, ActiveIsIndexed, Engaged, Writing,
         Erasing, CallAt
<1> QED BY <1>1, <1>2, <1>3, IndexInvHolds, PTL DEF Spec

----------------------------------------------------------------------------
(* Chunks never outlive their row: whoever removes a row, or may remove it  *)
(* at its next step, leaves chunks only to a run that will delete them.     *)

Doomed(d) == \/ ~Exists(d) \/ d \in swept \/ Erasing(d)
             \/ \E s \in Slots : run[s].doc = d /\ run[s].pc \in {"cancel_row", "fin_row"}
Tended(d) == \E s \in Slots : run[s].doc = d /\ Purging(s)
BuriedAt(d) == Doomed(d) /\ chunks[d] # {} => Tended(d)
Buried == \A d \in Docs \ tainted : BuriedAt(d)

LEMMA BuriedKept ==
    ASSUME NEW d \in Docs, BuriedAt(d), chunks'[d] = chunks[d], Doomed(d)' => Doomed(d),
           \A s \in Slots : run[s].doc = d /\ Purging(s) => run'[s] = run[s]
    PROVE  BuriedAt(d)'
BY DEF BuriedAt, Tended, Purging

LEMMA BuriedElsewhere ==
    ASSUME NEW d \in Docs, BuriedAt(d), Untouched(d)
    PROVE  BuriedAt(d)'
<1>1. Doomed(d)' => Doomed(d)
  BY DEF Untouched, Doomed, Erasing, CallAt, Exists
<1> QED BY <1>1, BuriedKept DEF Untouched

LEMMA BuriedServe ==
    ASSUME TypeOK, ~DeletesMayFail, NEW c \in Calls, Serve(c), NEW d \in Docs, call[c].doc = d,
           BuriedAt(d)
    PROVE  BuriedAt(d)'
<1>0. CallOK /\ chunks \in [Docs -> SUBSET Versions]
  BY DEF TypeOK
<1> USE <1>0, CallToAll, EndCallAll, SetStatusFacts DEF CallAt
<1>1. CASE DeleteCleanUp(c)
  BY <1>1 DEF DeleteCleanUp, CleanUp, DeleteChunks, BuriedAt
<1>2. CASE ~DeleteCleanUp(c)
  <2>1. UNCHANGED <<chunks, run, swept>>
    BY <1>2 DEF Serve, UploadSaveFile, UploadSaveRow, Enqueue, RetrySave, DeleteMark,
                DeleteRow, boot
  <2>2. call'[c].pc # "fin_row"
    BY <1>2 DEF Serve, UploadSaveFile, UploadSaveRow, Enqueue, RetrySave, DeleteMark, DeleteRow,
                IdleCall
  <2>3. Erasing(d)' => Erasing(d)
    BY <2>2, ServeFrame DEF Erasing
  <2>4. Exists(d) => Exists(d)' \/ Erasing(d)
    BY <1>2 DEF Serve, UploadSaveFile, UploadSaveRow, Enqueue, RetrySave, DeleteMark, DeleteRow,
                Exists, Erasing, Cancellable, table
  <2>5. Doomed(d)' => Doomed(d)
    BY <2>1, <2>3, <2>4 DEF Doomed
  <2> QED BY <2>1, <2>5, BuriedKept
<1> QED BY <1>1, <1>2

LEMMA BuriedJob ==
    ASSUME TypeOK, Apart, Condemned, ~DeletesMayFail, NEW s \in Slots, Job(s), NEW d \in Docs,
           run[s].doc = d, BuriedAt(d), d \notin tainted, ~Overlapped(d), ~CutShort(d)
    PROVE  BuriedAt(d)'
<1>0. RunOK /\ chunks \in [Docs -> SUBSET Versions] /\ run[s] \in RunRecord
  BY DEF TypeOK, RunOK
<1> USE <1>0, RunToAll, EndRunAll, SetStatusFacts DEF RunOf
<1>a. d \notin swept /\ d \notin swept' /\ ~Erasing(d) /\ ~Erasing(d)'
  BY JobFrame, IdleNames DEF Apart, TypeOK, Erasing, Overlapped, Writing, CallAt
<1>b. run'[s].doc = d /\ Purging(s)' => BuriedAt(d)'
  BY DEF BuriedAt, Tended
\* The run goes on, or ends, without having been at its chunks.
<1>c. ASSUME ~Purging(s), UNCHANGED chunks, Exists(d) => Exists(d)' \/ RunOf(s, "fin_row"),
             run'[s].pc \notin {"cancel_row", "fin_row"}
      PROVE  BuriedAt(d)'
  <2>1. Doomed(d)' => Doomed(d)
    BY <1>a, <1>c, JobFrame DEF Doomed
  <2> QED BY <1>c, <2>1, BuriedKept, JobFrame
\* The run ends, and the row stays.
<1>d. ASSUME EndRun(s), status[d] \notin Leaving, Exists(d)'
      PROVE  BuriedAt(d)'
  <2>1. \A x \in Slots : run[x].doc = d => run[x].pc \notin {"cancel_row", "fin_row"}
    BY <1>d DEF Condemned, Removing, Cancelled
  <2>2. \A x \in Slots : run'[x].doc = d => run'[x].pc \notin {"cancel_row", "fin_row"}
    BY <1>d, <2>1, IdleNames
  <2> QED BY <1>a, <1>d, <2>2 DEF BuriedAt, Doomed
<1>1. CASE ParseRead(s) \/ Reread(s) \/ Check(s)
  <2>1. UNCHANGED <<status, chunks>>
    BY <1>1 DEF ParseRead, Reread, Check, table
  <2>2. run'[s].pc \in {"claim", "idle", "fin_chunks", "abort_read", "embed"}
    BY <1>1, IdleNames DEF ParseRead, Reread, Check
  <2>3. ~Purging(s)
    BY <1>1 DEF ParseRead, Reread, Check, Purging
  <2> QED BY <1>c, <2>1, <2>2, <2>3 DEF Exists
<1>2. CASE Claim(s)
  <2>1. (Exists(d) => Exists(d)') /\ UNCHANGED chunks
    BY <1>2 DEF Claim, Exists
  <2>2. run'[s].pc \in {"load", "reread"} /\ ~Purging(s)
    BY <1>2 DEF Claim, Purging
  <2> QED BY <1>c, <2>1, <2>2
<1>3. CASE Load(s)
  <2>1. run'[s].pc \in {"check", "fail"} /\ run'[s].doc = d
    BY <1>3 DEF Load, RunOK, RunRecord
  <2>2. UNCHANGED <<status, chunks>> /\ ~Purging(s)
    BY <1>3 DEF Load, Purging, table
  <2> QED BY <1>c, <2>1, <2>2 DEF Exists
<1>4. CASE Embed(s) \/ Upsert(s)
  BY <1>4, <1>b DEF Embed, Upsert, Purging
<1>5. CASE ListChunks(s) \/ Prune(s)
  <2>1. run'[s].pc \in {"prune", "activate"} /\ run'[s].doc = d
    BY <1>5 DEF ListChunks, Prune, RunOK, RunRecord
  <2> QED BY <1>b, <2>1 DEF Purging
<1>6. CASE Activate(s)
  BY <1>6, <1>b, <1>d DEF Activate, Purging, Leaving, Exists
<1>7. CASE Fail(s) \/ CancelRow(s)
  BY <1>7, <1>b DEF Fail, CancelRow, Purging
<1>8. CASE Raise(s)
  <2>1. run'[s].doc # d /\ RunOf(s, "raise") /\ UNCHANGED <<status, chunks>>
    BY <1>8, IdleNames DEF Raise, table
  <2>2. /\ Exists(d)
        /\ \A x \in Slots \ {s} : run[x].doc = d => run[x].pc \notin {"cancel_row", "fin_row"}
    BY <2>1 DEF CutShort, Exists
  <2>3. ~Doomed(d)'
    BY <1>a, <2>1, <2>2, JobFrame, IdleNames DEF Doomed, Exists
  <2> QED BY <2>3 DEF BuriedAt
<1>9. CASE CancelRead(s)
  <2>1. CASE EndRun(s) /\ status[d] \notin Leaving
    BY <1>9, <2>1, <1>d DEF CancelRead, Exists, Leaving, table
  <2>2. CASE RunTo(s, "fin_chunks")
    BY <2>2, <1>b DEF Purging
  <2>3. CASE run' = [run EXCEPT ![s].pc = "cancel_chunks", ![s].seen = (status[d] = "DELETING")]
    <3>1. run'[s].pc = "cancel_chunks" /\ run'[s].doc = d
      BY <2>3 DEF RunOK, RunRecord
    <3> QED BY <1>b, <3>1 DEF Purging
  <2> QED BY <1>9, <2>1, <2>2, <2>3 DEF CancelRead, Leaving
<1>10. CASE CancelChunks(s) \/ RunCleanUp(s)
  BY <1>10 DEF CancelChunks, RunCleanUp, CleanUp, DeleteChunks, BuriedAt
<1>11. CASE RunDropRow(s)
  BY <1>11, <1>c, IdleNames DEF RunDropRow, Purging
<1> QED BY <1>1, <1>2, <1>3, <1>4, <1>5, <1>6, <1>7, <1>8, <1>9, <1>10, <1>11 DEF Job

LEMMA BuriedStep ==
    ASSUME TypeOK, Apart, Condemned, ~DeletesMayFail, Buried, [Next]_vars
    PROVE  Buried'
<1>1. CASE UNCHANGED vars
  BY <1>1 DEF vars, table, boot, Buried, BuriedAt, Doomed, Tended, Purging, Exists, Erasing, CallAt
<1>2. CASE Next
  <2> SUFFICES ASSUME NEW d \in Docs, d \notin tainted'
               PROVE  BuriedAt(d)'
    BY DEF Buried
  <2>0. d \notin tainted /\ ~Overlapped(d) /\ ~CutShort(d) /\ BuriedAt(d)
    BY <1>2, Undisturbed DEF Buried
  <2>1. ASSUME NEW c \in Calls, Request(c)
        PROVE  BuriedAt(d)'
    <3>1. Erasing(d)' => Erasing(d)
      BY <2>1, RequestFrame DEF Erasing, CallAt
    <3>2. Doomed(d)' => Doomed(d)
      BY <2>1, <3>1, RequestFrame DEF Doomed, Exists
    <3> QED BY <2>0, <2>1, <3>2, RequestFrame, BuriedKept
  <2>2. ASSUME NEW c \in Calls, Serve(c)
        PROVE  BuriedAt(d)'
    BY <2>0, <2>2, ServeElsewhere, BuriedElsewhere, BuriedServe
  <2>3. ASSUME NEW s \in Slots, Job(s)
        PROVE  BuriedAt(d)'
    BY <2>0, <2>3, JobElsewhere, BuriedElsewhere, BuriedJob
  <2>4. CASE Pickup
    <3>1. \A s \in Slots : run[s].doc = d /\ Purging(s) => run'[s] = run[s]
      BY <2>4, PickupFrame DEF Purging
    <3>2. Doomed(d)' => Doomed(d)
      BY <2>4, PickupFrame DEF Doomed, Exists, Erasing, CallAt
    <3> QED BY <2>0, <2>4, <3>1, <3>2, PickupFrame, BuriedKept
  <2>5. CASE WorkerReady \/ WorkerStart \/ SourceChanged
    <3>1. UNCHANGED <<status, chunks, run, call, swept>>
      BY <2>5 DEF WorkerReady, WorkerStart, SourceChanged, table, boot
    <3> QED BY <2>0, <3>1, BuriedKept DEF Doomed, Exists, Erasing, CallAt
  <2>6. ASSUME NEW e \in Docs, SweepCleanUp(e)
        PROVE  BuriedAt(d)'
    <3>0. chunks \in [Docs -> SUBSET Versions]
      BY DEF TypeOK
    <3>1. CASE e = d
      BY <2>6, <3>0, <3>1 DEF SweepCleanUp, CleanUp, DeleteChunks, BuriedAt
    <3>2. CASE e # d
      <4>1. chunks'[d] = chunks[d] /\ UNCHANGED <<status, run, call>> /\ d \notin swept'
        BY <2>6, <3>0, <3>2 DEF SweepCleanUp, CleanUp, DeleteChunks, table
      <4> QED BY <2>0, <4>1, BuriedKept DEF Doomed, Exists, Erasing, CallAt
    <3> QED BY <3>1, <3>2
  <2>7. ASSUME NEW e \in Docs, SweepRow(e)
        PROVE  BuriedAt(d)'
    <3>1. /\ UNCHANGED <<chunks, run, call>> /\ swept' = {} /\ e \in swept
          /\ e = d \/ status'[d] = status[d]
      BY <2>7, SetStatusFacts DEF SweepRow, DropRow
    <3> QED BY <2>0, <3>1, BuriedKept DEF Doomed, Exists, Erasing, CallAt
  <2>8. CASE ApiCrash
    <3>1. UNCHANGED <<status, chunks, run, swept>> /\ ~Erasing(d)'
      BY <2>8, IdleNames DEF ApiCrash, table, boot, Erasing
    <3> QED BY <2>0, <3>1, BuriedKept DEF Doomed, Exists
  <2>9. CASE WorkerCrash
    <3>1. /\ UNCHANGED <<status, chunks, call>> /\ swept' = {} /\ worker' = "down"
          /\ \A s \in Slots : run'[s].doc # d
      BY <2>9, IdleNames DEF WorkerCrash, table
    <3>2. Exists(d) \/ ~Tended(d)
      BY <2>0, <3>1 DEF CutShort, Tended, Exists
    <3>3. Erasing(d) => ~Tended(d)
      BY <2>0 DEF Overlapped, Erasing, Tended, Writing, CallAt
    <3>4. Doomed(d)' => Doomed(d) /\ ~Tended(d)
      BY <3>1, <3>2, <3>3 DEF Doomed, Exists, Erasing, CallAt
    <3> QED BY <2>0, <3>1, <3>4 DEF BuriedAt
  <2> QED BY <1>2, <2>1, <2>2, <2>3, <2>4, <2>5, <2>6, <2>7, <2>8, <2>9 DEF Next, Sweep
<1> QED BY <1>1, <1>2

(* If the vector index deletes what it is asked to, no chunk outlives the   *)
(* row of its document except under a run that will still delete it, unless *)
(* an API call overlapped somebody or one of the two halves of a removal    *)
(* was cut off.                                                             *)
THEOREM ChunksFollowRows ==
    ASSUME ~DeletesMayFail
    PROVE  Spec => []NoOrphanChunks
<1>1. Init => Buried
  BY DEF Init, Buried, BuriedAt
<1>2. TypeOK /\ Apart /\ Condemned /\ Buried /\ [Next]_vars => Buried'
  BY BuriedStep
<1>3. Buried => NoOrphanChunks
  BY DEF Buried, BuriedAt, Doomed, Tended, NoOrphanChunks
<1> QED BY <1>1, <1>2, <1>3, CondemnedHolds, PTL DEF Spec
=============================================================================
