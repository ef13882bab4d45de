--------------------------- MODULE StoragesProofs ---------------------------
(***************************************************************************)
(* For any teams, passes, requests and bounds: no chunks outlive the row   *)
(* of their document, a team has one row of the path, and a removal leaves *)
(* nothing behind its back.                                                *)
(***************************************************************************)
EXTENDS Storages, FiniteSetTheorems, WellFoundedInduction, TLAPS

----------------------------------------------------------------------------
(* What the steps do to the rows.                                          *)

\* A set of ids that is not empty has a least one.
LEMMA NewIdFree == Free # {} => NewId \in Free
<1> SUFFICES ASSUME Free # {} PROVE NewId \in Free
  OBVIOUS
<1>1. Free \subseteq Nat
  BY BoundsAssumption DEF Free, Ids
<1> DEFINE R == OpToRel(<, Nat)
<1>2. IsWellFoundedOn(R, Nat)
  BY NatLessThanWellFounded
<1>3. \A x, y \in Nat : x < y => <<x, y>> \in R
  BY DEF OpToRel
<1> HIDE DEF R
<1>4. PICK d \in Free : \A e \in Free : ~ (<<e, d>> \in R)
  BY <1>1, <1>2, WFMin
<1>5. \A e \in Free : d <= e
  <2> TAKE e \in Free
  <2>1. d \in Nat /\ e \in Nat /\ ~(e < d)
    BY <1>1, <1>3, <1>4
  <2> QED
    BY <2>1
<1> QED
  BY <1>5 DEF NewId

LEMMA DocFields ==
    ASSUME TypeOK, NEW d \in Ids
    PROVE  /\ docs[d] \in DocRecord /\ docs[d].team \in Teams
           /\ docs[d].st \in Statuses \cup {"GONE"}
           /\ docs[d].fp \in 0 .. MaxVersions /\ docs[d].job \in BOOLEAN
           /\ docs[d].run \in {"none", "loading", "checked", "embedded"}
           /\ docs[d].seen \in 0 .. MaxVersions /\ docs[d].chunks \in 0 .. MaxVersions
BY DEF TypeOK, DocRecord

\* Of the documents only d changes, and neither its team nor, while it has a row, its version.
Becomes(d, st, run, chunks) ==
    \E rec \in DocRecord : /\ docs' = [docs EXCEPT ![d] = rec] /\ rec.team = docs[d].team
                           /\ st # "GONE" => rec.fp = docs[d].fp
                           /\ rec.st = st /\ rec.run = run /\ rec.chunks = chunks

LEMMA BecomesFacts ==
    ASSUME TypeOK, NEW d \in Ids, NEW st, NEW run, NEW chunks, Becomes(d, st, run, chunks)
    PROVE  /\ docs' \in [Ids -> DocRecord] /\ \A e \in Ids \ {d} : docs'[e] = docs[e]
           /\ docs'[d].team = docs[d].team /\ docs'[d].st = st /\ docs'[d].run = run
           /\ docs'[d].chunks = chunks
           /\ st # "GONE" => docs'[d].fp = docs[d].fp
BY DEF Becomes, TypeOK

LEMMA RowlessOne ==
    ASSUME TypeOK, NEW d \in Ids
    PROVE  Rowless({d}) = [docs EXCEPT ![d] = Gone(docs[d])]
BY DEF Rowless, TypeOK

LEMMA ChunklessDoc ==
    ASSUME TypeOK, NEW d \in Ids, docs' = Chunkless(d)
    PROVE  Becomes(d, docs[d].st, docs[d].run, 0)
<1> DEFINE q   == docs[d]
           rec == [q EXCEPT !.chunks = 0]
<1>1. q \in DocRecord
  BY DocFields
<1>2. docs' = [docs EXCEPT ![d] = rec]
  BY DEF Chunkless, TypeOK
<1> HIDE DEF q
<1>3. /\ rec \in DocRecord /\ rec.team = q.team /\ rec.st = q.st /\ rec.run = q.run
      /\ rec.chunks = 0 /\ rec.fp = q.fp
  BY <1>1, BoundsAssumption DEF DocRecord
<1> QED
  BY <1>2, <1>3 DEF Becomes, q

LEMMA RowlessDoc ==
    ASSUME TypeOK, NEW d \in Ids, docs' = Rowless({d})
    PROVE  Becomes(d, "GONE", docs[d].run, docs[d].chunks)
<1> DEFINE q   == docs[d]
           rec == [q EXCEPT !.st = "GONE", !.fp = 0]
<1>1. q \in DocRecord /\ 0 \in 0 .. MaxVersions
  BY DocFields, BoundsAssumption
<1>2. docs' = [docs EXCEPT ![d] = rec]
  BY RowlessOne DEF Gone
<1> HIDE DEF q
<1>3. /\ rec \in DocRecord /\ rec.team = q.team /\ rec.st = "GONE" /\ rec.run = q.run
      /\ rec.chunks = q.chunks
  BY <1>1 DEF DocRecord
<1> QED
  BY <1>2, <1>3 DEF Becomes, q

LEMMA ClaimDoc ==
    ASSUME TypeOK, NEW d \in Ids, Claim(d)
    PROVE  \/ Becomes(d, "PROCESSING", "loading", docs[d].chunks) /\ docs[d].st # "GONE"
           \/ Becomes(d, docs[d].st, docs[d].run, docs[d].chunks)
           \/ Becomes(d, "GONE", docs[d].run, 0)
<1> DEFINE q == docs[d]
<1>1. q \in DocRecord /\ docs \in [Ids -> DocRecord] /\ 0 \in 0 .. MaxVersions
  BY DocFields, BoundsAssumption DEF TypeOK
<1>2. CASE /\ docs[d].st \in {"UPLOADING", "PROCESSING", "ERROR"} /\ file # 0
           /\ docs' = [docs EXCEPT ![d].job = FALSE, ![d].run = "loading",
                                   ![d].seen = file, ![d].st = "PROCESSING"]
  <2> DEFINE rec == [q EXCEPT !.job = FALSE, !.run = "loading", !.seen = file, !.st = "PROCESSING"]
  <2>1. docs' = [docs EXCEPT ![d] = rec] /\ file \in 0 .. MaxVersions /\ docs[d].st # "GONE"
    BY <1>1, <1>2 DEF TypeOK
  <2> HIDE DEF q
  <2>2. /\ rec \in DocRecord /\ rec.team = q.team /\ rec.st = "PROCESSING"
        /\ rec.run = "loading" /\ rec.chunks = q.chunks /\ rec.fp = q.fp
    BY <1>1, <2>1 DEF DocRecord, Statuses, InFlight
  <2> QED
    BY <2>1, <2>2 DEF Becomes, q
<1>3. CASE docs' = [docs EXCEPT ![d].job = FALSE]
  <2> DEFINE rec == [q EXCEPT !.job = FALSE]
  <2>1. docs' = [docs EXCEPT ![d] = rec]
    BY <1>1, <1>3
  <2> HIDE DEF q
  <2>2. /\ rec \in DocRecord /\ rec.team = q.team /\ rec.st = q.st
        /\ rec.run = q.run /\ rec.chunks = q.chunks /\ rec.fp = q.fp
    BY <1>1, <2>1 DEF DocRecord
  <2> QED
    BY <2>1, <2>2 DEF Becomes, q
<1>4. CASE docs' = [Rowless({d}) EXCEPT ![d].job = FALSE, ![d].chunks = 0]
  <2> DEFINE rec == [q EXCEPT !.st = "GONE", !.fp = 0, !.job = FALSE, !.chunks = 0]
  <2>1. docs' = [docs EXCEPT ![d] = rec]
    BY <1>1, <1>4, RowlessOne DEF Gone
  <2> HIDE DEF q
  <2>2. /\ rec \in DocRecord /\ rec.team = q.team /\ rec.st = "GONE"
        /\ rec.run = q.run /\ rec.chunks = 0
    BY <1>1, <2>1 DEF DocRecord
  <2> QED
    BY <2>1, <2>2 DEF Becomes, q
<1> QED
  BY <1>2, <1>3, <1>4 DEF Claim

LEMMA FailDoc ==
    ASSUME TypeOK, NEW d \in Ids, Fail(d)
    PROVE  \E st \in Statuses \cup {"GONE"} :
              Becomes(d, st, "none", docs[d].chunks) /\ (st = "GONE" <=> docs[d].st = "GONE")
<1> DEFINE q   == docs[d]
           st  == IF q.st = "PROCESSING" THEN "ERROR" ELSE q.st
           rec == [q EXCEPT !.run = "none", !.seen = 0, !.st = st]
<1>1. q \in DocRecord /\ 0 \in 0 .. MaxVersions
  BY DocFields, BoundsAssumption
<1>2. docs' = [docs EXCEPT ![d] = rec]
  BY DEF Fail, Failed, TypeOK
<1>3. st \in Statuses \cup {"GONE"} /\ (st = "GONE" <=> q.st = "GONE")
  BY DocFields DEF Statuses
<1> HIDE DEF q, st
<1>4. /\ rec \in DocRecord /\ rec.team = q.team /\ rec.st = st /\ rec.run = "none"
      /\ rec.chunks = q.chunks /\ rec.fp = q.fp
  BY <1>1, <1>3 DEF DocRecord
<1> QED
  BY <1>2, <1>3, <1>4 DEF Becomes, q

LEMMA CheckDoc ==
    ASSUME TypeOK, NEW d \in Ids, Check(d)
    PROVE  Becomes(d, docs[d].st, "checked", docs[d].chunks)
<1> DEFINE q   == docs[d]
           rec == [q EXCEPT !.run = "checked"]
<1>1. q \in DocRecord
  BY DocFields
<1>2. docs' = [docs EXCEPT ![d] = rec]
  BY DEF Check, TypeOK
<1> HIDE DEF q
<1>3. /\ rec \in DocRecord /\ rec.team = q.team /\ rec.st = q.st /\ rec.run = "checked"
      /\ rec.chunks = q.chunks /\ rec.fp = q.fp
  BY <1>1 DEF DocRecord
<1> QED
  BY <1>2, <1>3 DEF Becomes, q

LEMMA UpsertDoc ==
    ASSUME TypeOK, NEW d \in Ids, Upsert(d)
    PROVE  Becomes(d, docs[d].st, "embedded", docs[d].seen)
<1> DEFINE q   == docs[d]
           rec == [q EXCEPT !.run = "embedded", !.chunks = q.seen]
<1>1. q \in DocRecord /\ q.seen \in 0 .. MaxVersions
  BY DocFields
<1>2. docs' = [docs EXCEPT ![d] = rec]
  BY DEF Upsert, TypeOK
<1> HIDE DEF q
<1>3. /\ rec \in DocRecord /\ rec.team = q.team /\ rec.st = q.st /\ rec.run = "embedded"
      /\ rec.chunks = q.seen /\ rec.fp = q.fp
  BY <1>1 DEF DocRecord
<1> QED
  BY <1>2, <1>3 DEF Becomes, q

LEMMA AbortDoc ==
    ASSUME TypeOK, NEW d \in Ids, Abort(d)
    PROVE  Becomes(d, "GONE", "none", IF docs[d].st = "DELETING" THEN 0 ELSE docs[d].chunks)
<1> DEFINE q   == docs[d]
           left == IF q.st = "DELETING" THEN 0 ELSE q.chunks
           rec == [q EXCEPT !.st = "GONE", !.fp = 0, !.run = "none", !.seen = 0, !.chunks = left]
<1>1. q \in DocRecord /\ 0 \in 0 .. MaxVersions /\ left \in 0 .. MaxVersions
  BY DocFields, BoundsAssumption
<1>2. docs' = [docs EXCEPT ![d] = rec]
  BY RowlessOne DEF Gone, Abort, TypeOK
<1> HIDE DEF q, left
<1>3. /\ rec \in DocRecord /\ rec.team = q.team /\ rec.st = "GONE" /\ rec.run = "none"
      /\ rec.chunks = left
  BY <1>1 DEF DocRecord
<1> QED
  BY <1>2, <1>3 DEF Becomes, q, left

LEMMA CommitDoc ==
    ASSUME TypeOK, NEW d \in Ids, Commit(d)
    PROVE  \/ Becomes(d, "GONE", "none", 0)
           \/ \E st \in Statuses : /\ Becomes(d, st, "none", docs[d].chunks)
                                   /\ docs[d].st \notin {"DELETING", "GONE"}
<1> DEFINE q   == docs[d]
<1>1. q \in DocRecord /\ 0 \in 0 .. MaxVersions
  BY DocFields, BoundsAssumption
<1>2. CASE docs' = [Rowless({d}) EXCEPT ![d].run = "none", ![d].seen = 0, ![d].chunks = 0]
  <2> DEFINE rec == [q EXCEPT !.st = "GONE", !.fp = 0, !.run = "none", !.seen = 0, !.chunks = 0]
  <2>1. docs' = [docs EXCEPT ![d] = rec]
    BY <1>2, RowlessOne DEF Gone, TypeOK
  <2> HIDE DEF q
  <2>2. /\ rec \in DocRecord /\ rec.team = q.team /\ rec.st = "GONE" /\ rec.run = "none"
        /\ rec.chunks = 0
    BY <1>1 DEF DocRecord
  <2> QED
    BY <2>1, <2>2 DEF Becomes, q
<1>3. CASE docs[d].st \notin {"DELETING", "GONE"}
  <2> DEFINE st  == IF q.st = "PROCESSING" THEN "ACTIVE" ELSE q.st
             rec == [q EXCEPT !.run = "none", !.seen = 0, !.st = st]
  <2>1. docs' = [docs EXCEPT ![d] = rec]
    BY <1>3 DEF Commit, TypeOK
  <2>2. st \in Statuses
    BY <1>3, DocFields DEF Statuses
  <2> HIDE DEF q, st
  <2>3. /\ rec \in DocRecord /\ rec.team = q.team /\ rec.st = st /\ rec.run = "none"
        /\ rec.chunks = q.chunks /\ rec.fp = q.fp
    BY <1>1, <2>2 DEF DocRecord
  <2> QED
    BY <1>3, <2>1, <2>2, <2>3 DEF Becomes, q
<1> QED
  BY <1>2, <1>3 DEF Commit

----------------------------------------------------------------------------
(* Where the steps take a pass and a request.                              *)

Passes(s, pc, team, doc, todo) ==
    \E rec \in SyncRecord : /\ sync' = [sync EXCEPT ![s] = rec] /\ rec.pc = pc
                            /\ rec.team = team /\ rec.doc = doc /\ rec.todo = todo

Goes(a, pc, op, team, doc, todo) ==
    \E rec \in AdminRecord : /\ admin' = [admin EXCEPT ![a] = rec] /\ rec.pc = pc
                             /\ rec.op = op /\ rec.team = team /\ rec.doc = doc
                             /\ rec.todo = todo

LEMMA PassesFacts ==
    ASSUME TypeOK, NEW s \in Syncers, NEW pc, NEW team, NEW doc, NEW todo,
           Passes(s, pc, team, doc, todo)
    PROVE  /\ sync' \in [Syncers -> SyncRecord] /\ \A o \in Syncers \ {s} : sync'[o] = sync[o]
           /\ sync'[s].pc = pc /\ sync'[s].team = team /\ sync'[s].doc = doc
           /\ sync'[s].todo = todo
BY DEF Passes, TypeOK

LEMMA GoesFacts ==
    ASSUME TypeOK, NEW a \in Admins, NEW pc, NEW op, NEW team, NEW doc, NEW todo,
           Goes(a, pc, op, team, doc, todo)
    PROVE  /\ admin' \in [Admins -> AdminRecord] /\ \A o \in Admins \ {a} : admin'[o] = admin[o]
           /\ admin'[a].pc = pc /\ admin'[a].op = op /\ admin'[a].team = team
           /\ admin'[a].doc = doc /\ admin'[a].todo = todo
BY DEF Goes, TypeOK

LEMMA PassFields ==
    ASSUME TypeOK, NEW s \in Syncers
    PROVE  /\ sync[s] \in SyncRecord /\ sync[s].pc \in SyncPcs /\ sync[s].team \in Teams
           /\ sync[s].fp \in 0 .. MaxVersions /\ sync[s].doc \in {0} \cup Ids
           /\ sync[s].todo \in SUBSET Ids
BY DEF TypeOK, SyncRecord

LEMMA RequestFields ==
    ASSUME TypeOK, NEW a \in Admins
    PROVE  /\ admin[a] \in AdminRecord /\ admin[a].pc \in AdminPcs /\ admin[a].op \in AdminOps
           /\ admin[a].team \in Teams /\ admin[a].doc \in {0} \cup Ids
           /\ admin[a].todo \in SUBSET Ids
BY DEF TypeOK, AdminRecord

LEMMA IdleRecords == IdleSync \in SyncRecord /\ IdleAdmin \in AdminRecord
<1>1. 0 \in 0 .. MaxVersions
  BY BoundsAssumption
<1> QED
  BY <1>1, OwnerAssumption DEF IdleSync, IdleAdmin, SyncRecord, AdminRecord, SyncPcs,
         AdminPcs, AdminOps

LEMMA SyncGotoPasses ==
    ASSUME TypeOK, NEW s \in Syncers, NEW pc \in SyncPcs, SyncGoto(s, pc)
    PROVE  IF pc = "idle" THEN Passes(s, "idle", Owner, 0, {})
           ELSE Passes(s, pc, sync[s].team, sync[s].doc, sync[s].todo)
<1>1. CASE pc = "idle"
  <2>1. sync' = [sync EXCEPT ![s] = IdleSync]
    BY <1>1 DEF SyncGoto
  <2> QED
    BY <1>1, <2>1, IdleRecords DEF Passes, IdleSync
<1>2. CASE pc # "idle"
  <2> DEFINE q   == sync[s]
             rec == [q EXCEPT !.pc = pc]
  <2>1. sync' = [sync EXCEPT ![s] = rec] /\ q \in SyncRecord
    BY <1>2, PassFields DEF SyncGoto
  <2> HIDE DEF q
  <2>2. /\ rec \in SyncRecord /\ rec.pc = pc /\ rec.team = q.team /\ rec.doc = q.doc
        /\ rec.todo = q.todo
    BY <2>1 DEF SyncRecord
  <2> QED
    BY <1>2, <2>1, <2>2 DEF Passes, q
<1> QED
  BY <1>1, <1>2

LEMMA AdminGotoGoes ==
    ASSUME TypeOK, NEW a \in Admins, NEW pc \in AdminPcs, AdminGoto(a, pc)
    PROVE  IF pc = "idle" THEN Goes(a, "idle", "none", Owner, 0, {})
           ELSE Goes(a, pc, admin[a].op, admin[a].team, admin[a].doc, admin[a].todo)
<1>1. CASE pc = "idle"
  <2>1. admin' = [admin EXCEPT ![a] = IdleAdmin]
    BY <1>1 DEF AdminGoto
  <2> QED
    BY <1>1, <2>1, IdleRecords DEF Goes, IdleAdmin
<1>2. CASE pc # "idle"
  <2> DEFINE q   == admin[a]
             rec == [q EXCEPT !.pc = pc]
  <2>1. admin' = [admin EXCEPT ![a] = rec] /\ q \in AdminRecord
    BY <1>2, RequestFields DEF AdminGoto
  <2> HIDE DEF q
  <2>2. /\ rec \in AdminRecord /\ rec.pc = pc /\ rec.op = q.op /\ rec.team = q.team
        /\ rec.doc = q.doc /\ rec.todo = q.todo
    BY <2>1 DEF AdminRecord
  <2> QED
    BY <1>2, <2>1, <2>2 DEF Goes, q
<1> QED
  BY <1>1, <1>2

\* A pass that goes on with another document or another list.
LEMMA SyncPuts ==
    ASSUME TypeOK, NEW s \in Syncers
    PROVE  /\ \A t \in Teams :
                sync' = [sync EXCEPT ![s].pc = "list", ![s].team = t]
                   => Passes(s, "list", t, sync[s].doc, sync[s].todo)
           /\ \A pc \in {"managed", "find"}, fp \in 0 .. MaxVersions :
                sync' = [sync EXCEPT ![s].pc = pc, ![s].fp = fp]
                   => Passes(s, pc, sync[s].team, sync[s].doc, sync[s].todo)
           /\ \A pc \in {"save", "enqueue"}, d \in Ids :
                sync' = [sync EXCEPT ![s].pc = pc, ![s].doc = d]
                   => Passes(s, pc, sync[s].team, d, sync[s].todo)
           /\ \A D \in SUBSET Ids :
                sync' = [sync EXCEPT ![s].pc = "drop", ![s].todo = D]
                   => Passes(s, "drop", sync[s].team, sync[s].doc, D)
           /\ \A d \in Ids :
                sync' = [sync EXCEPT ![s].pc = "drop_row", ![s].doc = d,
                                     ![s].todo = sync[s].todo \ {d}]
                   => Passes(s, "drop_row", sync[s].team, d, sync[s].todo \ {d})
<1> DEFINE q == sync[s]
<1>0. q \in SyncRecord /\ q.todo \in SUBSET Ids
  BY PassFields
<1>2. ASSUME NEW t \in Teams, sync' = [sync EXCEPT ![s].pc = "list", ![s].team = t]
      PROVE  Passes(s, "list", t, sync[s].doc, sync[s].todo)
  <2> DEFINE rec == [q EXCEPT !.pc = "list", !.team = t]
  <2>1. sync' = [sync EXCEPT ![s] = rec]
    BY <1>2 DEF TypeOK
  <2> HIDE DEF q
  <2>2. /\ rec \in SyncRecord /\ rec.pc = "list" /\ rec.team = t /\ rec.doc = q.doc
        /\ rec.todo = q.todo
    BY <1>0 DEF SyncRecord, SyncPcs
  <2> QED
    BY <2>1, <2>2 DEF Passes, q
<1>3. ASSUME NEW pc \in {"managed", "find"}, NEW fp \in 0 .. MaxVersions,
             sync' = [sync EXCEPT ![s].pc = pc, ![s].fp = fp]
      PROVE  Passes(s, pc, sync[s].team, sync[s].doc, sync[s].todo)
  <2> DEFINE rec == [q EXCEPT !.pc = pc, !.fp = fp]
  <2>1. sync' = [sync EXCEPT ![s] = rec]
    BY <1>3 DEF TypeOK
  <2> HIDE DEF q
  <2>2. /\ rec \in SyncRecord /\ rec.pc = pc /\ rec.team = q.team /\ rec.doc = q.doc
        /\ rec.todo = q.todo
    BY <1>0 DEF SyncRecord, SyncPcs
  <2> QED
    BY <2>1, <2>2 DEF Passes, q
<1>4. ASSUME NEW pc \in {"save", "enqueue"}, NEW d \in Ids,
             sync' = [sync EXCEPT ![s].pc = pc, ![s].doc = d]
      PROVE  Passes(s, pc, sync[s].team, d, sync[s].todo)
  <2> DEFINE rec == [q EXCEPT !.pc = pc, !.doc = d]
  <2>1. sync' = [sync EXCEPT ![s] = rec]
    BY <1>4 DEF TypeOK
  <2> HIDE DEF q
  <2>2. /\ rec \in SyncRecord /\ rec.pc = pc /\ rec.team = q.team /\ rec.doc = d
        /\ rec.todo = q.todo
    BY <1>0 DEF SyncRecord, SyncPcs
  <2> QED
    BY <2>1, <2>2 DEF Passes, q
<1>5. ASSUME NEW D \in SUBSET Ids, sync' = [sync EXCEPT ![s].pc = "drop", ![s].todo = D]
      PROVE  Passes(s, "drop", sync[s].team, sync[s].doc, D)
  <2> DEFINE rec == [q EXCEPT !.pc = "drop", !.todo = D]
  <2>1. sync' = [sync EXCEPT ![s] = rec]
    BY <1>5 DEF TypeOK
  <2> HIDE DEF q
  <2>2. /\ rec \in SyncRecord /\ rec.pc = "drop" /\ rec.team = q.team /\ rec.doc = q.doc
        /\ rec.todo = D
    BY <1>0 DEF SyncRecord, SyncPcs
  <2> QED
    BY <2>1, <2>2 DEF Passes, q
<1>6. ASSUME NEW d \in Ids,
             sync' = [sync EXCEPT ![s].pc = "drop_row", ![s].doc = d,
                                  ![s].todo = sync[s].todo \ {d}]
      PROVE  Passes(s, "drop_row", sync[s].team, d, sync[s].todo \ {d})
  <2> DEFINE D   == q.todo \ {d}
             rec == [q EXCEPT !.pc = "drop_row", !.doc = d, !.todo = D]
  <2>1. sync' = [sync EXCEPT ![s] = rec] /\ D \in SUBSET Ids
    BY <1>0, <1>6 DEF TypeOK
  <2> HIDE DEF q, D
  <2>2. /\ rec \in SyncRecord /\ rec.pc = "drop_row" /\ rec.team = q.team /\ rec.doc = d
        /\ rec.todo = D
    BY <1>0, <2>1 DEF SyncRecord, SyncPcs
  <2> QED
    BY <2>1, <2>2 DEF Passes, q, D
<1> QED
  BY <1>2, <1>3, <1>4, <1>5, <1>6

LEMMA AdminPuts ==
    ASSUME TypeOK, NEW a \in Admins
    PROVE  /\ \A op \in AdminOps \ {"none"}, t \in Teams :
                admin' = [admin EXCEPT ![a].pc = op, ![a].op = op, ![a].team = t]
                   => Goes(a, op, op, t, admin[a].doc, admin[a].todo)
           /\ \A pc \in {"finalize", "team_docs"}, D \in SUBSET Ids :
                admin' = [admin EXCEPT ![a].pc = pc, ![a].todo = D]
                   => Goes(a, pc, admin[a].op, admin[a].team, admin[a].doc, D)
           /\ \A pc \in {"finalize_row", "team_mark"}, d \in Ids :
                admin' = [admin EXCEPT ![a].pc = pc, ![a].doc = d,
                                       ![a].todo = admin[a].todo \ {d}]
                   => Goes(a, pc, admin[a].op, admin[a].team, d, admin[a].todo \ {d})
<1> DEFINE q == admin[a]
<1>1. q \in AdminRecord /\ q.todo \in SUBSET Ids
  BY RequestFields
<1>2. ASSUME NEW op \in AdminOps \ {"none"}, NEW t \in Teams,
             admin' = [admin EXCEPT ![a].pc = op, ![a].op = op, ![a].team = t]
      PROVE  Goes(a, op, op, t, admin[a].doc, admin[a].todo)
  <2> DEFINE rec == [q EXCEPT !.pc = op, !.op = op, !.team = t]
  <2>1. admin' = [admin EXCEPT ![a] = rec] /\ op \in AdminPcs
    BY <1>2 DEF TypeOK, AdminOps, AdminPcs
  <2> HIDE DEF q
  <2>2. /\ rec \in AdminRecord /\ rec.pc = op /\ rec.op = op /\ rec.team = t
        /\ rec.doc = q.doc /\ rec.todo = q.todo
    BY <1>1, <2>1 DEF AdminRecord
  <2> QED
    BY <2>1, <2>2 DEF Goes, q
<1>3. ASSUME NEW pc \in {"finalize", "team_docs"}, NEW D \in SUBSET Ids,
             admin' = [admin EXCEPT ![a].pc = pc, ![a].todo = D]
      PROVE  Goes(a, pc, admin[a].op, admin[a].team, admin[a].doc, D)
  <2> DEFINE rec == [q EXCEPT !.pc = pc, !.todo = D]
  <2>1. admin' = [admin EXCEPT ![a] = rec]
    BY <1>3 DEF TypeOK
  <2> HIDE DEF q
  <2>2. /\ rec \in AdminRecord /\ rec.pc = pc /\ rec.op = q.op /\ rec.team = q.team
        /\ rec.doc = q.doc /\ rec.todo = D
    BY <1>1 DEF AdminRecord, AdminPcs
  <2> QED
    BY <2>1, <2>2 DEF Goes, q
<1>4. ASSUME NEW pc \in {"finalize_row", "team_mark"}, NEW d \in Ids,
             admin' = [admin EXCEPT ![a].pc = pc, ![a].doc = d,
                                    ![a].todo = admin[a].todo \ {d}]
      PROVE  Goes(a, pc, admin[a].op, admin[a].team, d, admin[a].todo \ {d})
  <2> DEFINE D   == q.todo \ {d}
             rec == [q EXCEPT !.pc = pc, !.doc = d, !.todo = D]
  <2>1. admin' = [admin EXCEPT ![a] = rec] /\ D \in SUBSET Ids
    BY <1>1, <1>4 DEF TypeOK
  <2> HIDE DEF q, D
  <2>2. /\ rec \in AdminRecord /\ rec.pc = pc /\ rec.op = q.op /\ rec.team = q.team
        /\ rec.doc = d /\ rec.todo = D
    BY <1>1, <2>1 DEF AdminRecord, AdminPcs
  <2> QED
    BY <2>1, <2>2 DEF Goes, q, D
<1> QED
  BY <1>2, <1>3, <1>4

----------------------------------------------------------------------------
(* No chunks stay behind.                                                  *)

\* A document whose row is gone or about to go, and not excused, has chunks only while
\* a run is between its upsert and its commit.
Clean(d) == d \notin excused /\ (~Live(d) \/ Doomed(d)) =>
                docs[d].chunks = 0 \/ docs[d].run = "embedded"

\* A step that is not the worker's: chunks are removed or left, and a row goes only after
\* its chunks, or by a foreign key.
Tidy == /\ excused \subseteq excused'
        /\ \A d \in Ids :
             /\ \/ docs'[d].chunks = 0
                \/ (docs'[d].chunks = docs[d].chunks /\ docs'[d].run = docs[d].run)
             /\ docs'[d].st = "GONE" => (docs[d].st = "GONE" \/ Doomed(d) \/ d \in excused')
             /\ Doomed(d)' => (Doomed(d) \/ docs'[d].chunks = 0)

\* No row appears, and none changes its team.
Shrinks == \A d \in Ids :
    docs'[d].st # "GONE" => docs[d].st # "GONE" /\ docs'[d].team = docs[d].team

\* No row changes its version.
Versioned == \A d \in Ids : docs'[d].st # "GONE" => docs'[d].fp = docs[d].fp

\* Before a pass has found a row.
Looking == {"idle", "list", "find", "create"}

LEMMA TidyClean ==
    ASSUME \A d \in Ids : Clean(d), Tidy
    PROVE  \A d \in Ids : Clean(d)'
BY DEF Clean, Tidy, Live

\* What a pass does, but for the row it creates.
LEMMA SyncEffects ==
    ASSUME TypeOK, NEW s \in Syncers, SyncStep(s), ~SyncCreate(s)
    PROVE  /\ docs' \in [Ids -> DocRecord] /\ sync' \in [Syncers -> SyncRecord]
           /\ Shrinks /\ Tidy /\ (Versioned \/ SyncSave(s))
           /\ \A o \in Syncers \ {s} : sync'[o] = sync[o]
           /\ sync'[s].pc = "create" => /\ RowsOf(sync[s].team) = {}
                                        /\ sync'[s].team = sync[s].team
           /\ sync'[s].pc = "save" => /\ sync'[s].doc \in RowsOf(sync[s].team)
                                      /\ sync'[s].team = sync[s].team
           /\ sync'[s].pc \in Looking =>
                sync'[s].doc = 0 \/ (sync[s].pc \in Looking /\ sync'[s].doc = sync[s].doc)
<1> USE DEF Looking
<1>0. docs \in [Ids -> DocRecord] /\ UNCHANGED <<admin, excused>>
  BY DEF TypeOK, SyncStep, SyncOnly, SyncStart, SyncList, SyncUnstable, SyncFind, SyncSave,
         SyncRefused, SyncEnqueue, SyncManaged, SyncDrop, SyncDropRow, past, SyncCreate
<1> DEFINE Pass == /\ sync' \in [Syncers -> SyncRecord]
                   /\ \A o \in Syncers \ {s} : sync'[o] = sync[o]
<1>1. ASSUME Pass, sync'[s].pc # "drop_row", docs' = docs
      PROVE  docs' \in [Ids -> DocRecord] /\ Shrinks /\ Tidy /\ Versioned
  BY <1>0, <1>1 DEF Shrinks, Tidy, Doomed, Versioned
<1>2. CASE \E t \in Teams : SyncStart(s, t)
  <2>1. PICK t \in Teams : SyncStart(s, t)
    BY <1>2
  <2>2. Passes(s, "list", t, sync[s].doc, sync[s].todo) /\ UNCHANGED docs
    BY <2>1, SyncPuts DEF SyncStart
  <2>3. /\ Pass /\ sync'[s].pc = "list" /\ sync'[s].doc = sync[s].doc
        /\ sync[s].pc = "idle"
    BY <2>1, <2>2, PassesFacts DEF SyncStart
  <2> QED
    BY <1>1, <2>1, <2>2, <2>3
<1>3. CASE SyncList(s)
  <2>1. UNCHANGED docs /\ \E pc \in {"managed", "find"} :
           sync[s].pc = "list" /\ Passes(s, pc, sync[s].team, sync[s].doc, sync[s].todo)
    <3>1. file \in 0 .. MaxVersions /\ 0 \in 0 .. MaxVersions
      BY BoundsAssumption DEF TypeOK
    <3> QED
      BY <1>3, <3>1, SyncPuts DEF SyncList
  <2>2. /\ Pass /\ sync'[s].pc \in {"managed", "find"} /\ sync'[s].doc = sync[s].doc
        /\ sync[s].pc = "list"
    BY <2>1, PassesFacts
  <2> QED
    BY <1>1, <2>1, <2>2
<1>4. ASSUME SyncGoto(s, "idle") PROVE Pass /\ sync'[s].pc = "idle" /\ sync'[s].doc = 0
  <2>1. Passes(s, "idle", Owner, 0, {})
    BY <1>4, SyncGotoPasses DEF SyncPcs
  <2> QED
    BY <2>1, PassesFacts
<1>5. ASSUME NEW pc \in SyncPcs \ {"idle"}, SyncGoto(s, pc)
      PROVE  /\ Pass /\ sync'[s].pc = pc /\ sync'[s].team = sync[s].team
             /\ sync'[s].doc = sync[s].doc
  <2>1. Passes(s, pc, sync[s].team, sync[s].doc, sync[s].todo)
    BY <1>5, SyncGotoPasses
  <2> QED
    BY <2>1, PassesFacts
<1>6. CASE SyncUnstable(s) \/ SyncRefused(s)
  <2>1. SyncGoto(s, "idle") /\ docs' = docs
    BY <1>6 DEF SyncUnstable, SyncRefused
  <2> QED
    BY <1>1, <1>4, <2>1
<1>7. CASE SyncFind(s)
  <2>1. docs' = docs /\ sync[s].pc = "find"
    BY <1>7 DEF SyncFind
  <2>2. CASE SyncGoto(s, "idle")
    BY <1>1, <1>4, <2>1, <2>2
  <2>3. CASE RowsOf(sync[s].team) = {} /\ SyncGoto(s, "create")
    BY <1>1, <1>5, <2>1, <2>3 DEF SyncPcs
  <2>4. CASE \E d \in RowsOf(sync[s].team) : sync' = [sync EXCEPT ![s].pc = "save", ![s].doc = d]
    <3>1. PICK d \in RowsOf(sync[s].team) : sync' = [sync EXCEPT ![s].pc = "save", ![s].doc = d]
      BY <2>4
    <3>2. Passes(s, "save", sync[s].team, d, sync[s].todo)
      BY <3>1, SyncPuts DEF RowsOf
    <3>3. Pass /\ sync'[s].pc = "save" /\ sync'[s].team = sync[s].team /\ sync'[s].doc = d
      BY <3>2, PassesFacts
    <3> QED
      BY <1>1, <2>1, <3>1, <3>3
  <2> QED
    BY <1>7, <2>2, <2>3, <2>4 DEF SyncFind
<1>8. CASE SyncManaged(s)
  <2>1. /\ docs' = docs /\ sync[s].pc = "managed"
        /\ \E D \in SUBSET Ids : sync' = [sync EXCEPT ![s].pc = "drop", ![s].todo = D]
    BY <1>8 DEF SyncManaged, RowsOf
  <2>2. \E D : Passes(s, "drop", sync[s].team, sync[s].doc, D)
    BY <2>1, SyncPuts
  <2>3. Pass /\ sync'[s].pc = "drop" /\ sync'[s].team = sync[s].team
    BY <2>2, PassesFacts
  <2> QED
    BY <1>1, <2>1, <2>3
<1>9. CASE SyncDrop(s)
  <2>1. CASE SyncGoto(s, "idle") /\ UNCHANGED docs
    BY <1>1, <1>4, <2>1
  <2>2. CASE \E d \in sync[s].todo :
               /\ docs' = Chunkless(d)
               /\ sync' = [sync EXCEPT ![s].pc = "drop_row", ![s].doc = d,
                                       ![s].todo = sync[s].todo \ {d}]
    <3>1. PICK d \in Ids :
               /\ docs' = Chunkless(d)
               /\ sync' = [sync EXCEPT ![s].pc = "drop_row", ![s].doc = d,
                                       ![s].todo = sync[s].todo \ {d}]
      BY <2>2, PassFields
    <3>2. Passes(s, "drop_row", sync[s].team, d, sync[s].todo \ {d})
      BY <3>1, SyncPuts
    <3>3. Pass /\ sync'[s].pc = "drop_row" /\ sync'[s].team = sync[s].team /\ sync'[s].doc = d
      BY <3>2, PassesFacts
    <3>4. Becomes(d, docs[d].st, docs[d].run, 0)
      BY <3>1, ChunklessDoc
    <3>5. /\ docs' \in [Ids -> DocRecord] /\ \A e \in Ids \ {d} : docs'[e] = docs[e]
          /\ docs'[d].team = docs[d].team /\ docs'[d].st = docs[d].st /\ docs'[d].chunks = 0
          /\ docs'[d].st # "GONE" => docs'[d].fp = docs[d].fp
      BY <3>4, BecomesFacts
    <3>6. Shrinks /\ Versioned
      BY <3>5 DEF Shrinks, Versioned
    <3>7. Tidy
      BY <1>0, <3>3, <3>5 DEF Tidy, Doomed
    <3>8. sync[s].pc = "drop"
      BY <1>9 DEF SyncDrop
    <3> QED
      BY <3>3, <3>5, <3>6, <3>7, <3>8
  <2> QED
    BY <1>9, <2>1, <2>2 DEF SyncDrop
<1>10. CASE SyncDropRow(s)
  <2> DEFINE d == sync[s].doc
  <2>1. sync[s].pc = "drop_row" /\ docs' = Rowless({d}) /\ SyncGoto(s, "drop")
    BY <1>10 DEF SyncDropRow
  <2>2. Pass /\ sync'[s].pc = "drop" /\ sync'[s].team = sync[s].team
    BY <1>5, <2>1 DEF SyncPcs
  <2>3. CASE d \in Ids
    <3>1. Becomes(d, "GONE", docs[d].run, docs[d].chunks)
      BY <2>1, <2>3, RowlessDoc
    <3>2. /\ docs' \in [Ids -> DocRecord] /\ \A e \in Ids \ {d} : docs'[e] = docs[e]
          /\ docs'[d].st = "GONE" /\ docs'[d].chunks = docs[d].chunks
          /\ docs'[d].run = docs[d].run
      BY <2>3, <3>1, BecomesFacts
    <3>3. Doomed(d) /\ Shrinks /\ Versioned
      BY <2>1, <3>2 DEF Doomed, Shrinks, Versioned
    <3>4. Tidy
      BY <1>0, <2>2, <3>2, <3>3 DEF Tidy, Doomed
    <3> QED
      BY <2>1, <2>2, <3>2, <3>3, <3>4
  <2>4. CASE d \notin Ids
    <3>1. docs' = docs
      BY <1>0, <2>1, <2>4 DEF Rowless
    <3> QED
      BY <1>1, <2>1, <2>2, <3>1
  <2> QED
    BY <2>3, <2>4
<1>11. CASE SyncSave(s)
  <2> DEFINE d == sync[s].doc
  <2>1. /\ SyncGoto(s, "enqueue") /\ sync[s].pc = "save"
        /\ docs' = IF Live(d) THEN [docs EXCEPT ![d].st = "UPLOADING", ![d].fp = sync[s].fp]
                   ELSE docs
    BY <1>11 DEF SyncSave
  <2>2. Pass /\ sync'[s].pc = "enqueue" /\ sync'[s].team = sync[s].team
    BY <1>5, <2>1 DEF SyncPcs
  <2>3. CASE d \in Ids /\ Live(d)
    <3> DEFINE q   == docs[d]
               n   == sync[s].fp
               rec == [q EXCEPT !.st = "UPLOADING", !.fp = n]
    <3>1. docs' = [docs EXCEPT ![d] = rec] /\ q \in DocRecord /\ n \in 0 .. MaxVersions
      BY <1>0, <2>1, <2>3, PassFields
    <3> HIDE DEF q, n
    <3>2. /\ rec \in DocRecord /\ rec.team = q.team /\ rec.st = "UPLOADING" /\ rec.run = q.run
          /\ rec.chunks = q.chunks
      BY <3>1 DEF DocRecord, Statuses, InFlight
    <3>4. /\ docs' \in [Ids -> DocRecord] /\ \A e \in Ids \ {d} : docs'[e] = docs[e]
          /\ docs'[d].st = "UPLOADING" /\ docs'[d].chunks = docs[d].chunks
          /\ docs'[d].run = docs[d].run /\ docs'[d].team = docs[d].team
      BY <1>0, <2>3, <3>1, <3>2 DEF q
    <3>5. Shrinks
      BY <2>3, <3>4 DEF Shrinks, Live
    <3>6. Tidy
      BY <1>0, <2>2, <3>4 DEF Tidy, Doomed
    <3> QED
      BY <1>11, <2>1, <2>2, <3>4, <3>5, <3>6
  <2>4. CASE ~(d \in Ids /\ Live(d))
    <3>1. docs' = docs
      BY <1>0, <2>1, <2>4
    <3> QED
      BY <1>1, <2>1, <2>2, <3>1
  <2> QED
    BY <2>3, <2>4
<1>12. CASE SyncEnqueue(s)
  <2> DEFINE d == sync[s].doc
  <2>1. SyncGoto(s, "idle") /\ (docs' = docs \/ docs' = [docs EXCEPT ![d].job = TRUE])
    BY <1>12 DEF SyncEnqueue
  <2>2. Pass /\ sync'[s].pc = "idle" /\ sync'[s].doc = 0
    BY <1>4, <2>1
  <2>3. CASE docs' = [docs EXCEPT ![d].job = TRUE] /\ d \in Ids
    <3> DEFINE q   == docs[d]
               rec == [q EXCEPT !.job = TRUE]
    <3>1. docs' = [docs EXCEPT ![d] = rec] /\ q \in DocRecord
      BY <1>0, <2>3
    <3> HIDE DEF q
    <3>2. /\ rec \in DocRecord /\ rec.team = q.team /\ rec.st = q.st /\ rec.run = q.run
          /\ rec.chunks = q.chunks /\ rec.fp = q.fp
      BY <3>1 DEF DocRecord
    <3>3. Becomes(d, docs[d].st, docs[d].run, docs[d].chunks) /\ d \in Ids
      BY <2>3, <3>1, <3>2 DEF Becomes, q
    <3> HIDE DEF d
    <3>4. /\ docs' \in [Ids -> DocRecord] /\ \A e \in Ids \ {d} : docs'[e] = docs[e]
          /\ docs'[d].st = docs[d].st /\ docs'[d].chunks = docs[d].chunks
          /\ docs'[d].run = docs[d].run /\ docs'[d].team = docs[d].team
          /\ docs'[d].st # "GONE" => docs'[d].fp = docs[d].fp
      BY <3>3, BecomesFacts
    <3>5. Shrinks /\ Versioned
      BY <3>4 DEF Shrinks, Versioned
    <3>6. Tidy
      BY <1>0, <2>2, <3>4 DEF Tidy, Doomed
    <3> QED
      BY <2>2, <3>4, <3>5, <3>6
  <2>4. CASE docs' = docs
    BY <1>1, <2>2, <2>4
  <2>5. CASE docs' = [docs EXCEPT ![d].job = TRUE] /\ d \notin Ids
    <3>1. docs' = docs
      BY <1>0, <2>5
    <3> QED
      BY <2>4, <3>1
  <2> QED
    BY <2>1, <2>3, <2>4, <2>5
<1> QED
  BY <1>2, <1>3, <1>6, <1>7, <1>8, <1>9, <1>10, <1>11, <1>12 DEF SyncStep

LEMMA RowlessFacts ==
    ASSUME TypeOK, NEW D, docs' = Rowless(D)
    PROVE  /\ docs' \in [Ids -> DocRecord]
           /\ \A d \in Ids : d \notin D => docs'[d] = docs[d]
           /\ \A d \in Ids : d \in D =>
                /\ docs'[d].st = "GONE" /\ docs'[d].team = docs[d].team
                /\ docs'[d].run = docs[d].run /\ docs'[d].chunks = docs[d].chunks
<1>1. ASSUME NEW d \in Ids
      PROVE  /\ Gone(docs[d]) \in DocRecord /\ Gone(docs[d]).st = "GONE"
             /\ Gone(docs[d]).team = docs[d].team /\ Gone(docs[d]).run = docs[d].run
             /\ Gone(docs[d]).chunks = docs[d].chunks
  <2> DEFINE q == docs[d]
  <2>1. q \in DocRecord /\ 0 \in 0 .. MaxVersions
    BY DocFields, BoundsAssumption
  <2> HIDE DEF q
  <2>2. /\ Gone(q) \in DocRecord /\ Gone(q).st = "GONE" /\ Gone(q).team = q.team
        /\ Gone(q).run = q.run /\ Gone(q).chunks = q.chunks
    BY <2>1 DEF Gone, DocRecord
  <2> QED
    BY <2>2 DEF q
<1>2. /\ docs \in [Ids -> DocRecord]
      /\ docs' = [d \in Ids |-> IF d \in D THEN Gone(docs[d]) ELSE docs[d]]
  BY DEF Rowless, TypeOK
<1>3. docs' \in [Ids -> DocRecord]
  BY <1>1, <1>2
<1> HIDE DEF Gone
<1> QED
  BY <1>1, <1>2, <1>3

\* Where a request is after a step of its own; the other requests stay where they are.
Went(a, pc, op, team, doc, todo) ==
    /\ admin' \in [Admins -> AdminRecord] /\ \A o \in Admins \ {a} : admin'[o] = admin[o]
    /\ admin'[a].pc = pc /\ admin'[a].op = op /\ admin'[a].team = team
    /\ admin'[a].doc = doc /\ admin'[a].todo = todo

LEMMA GoesWent ==
    ASSUME TypeOK, NEW a \in Admins, NEW pc, NEW op, NEW team, NEW doc, NEW todo,
           Goes(a, pc, op, team, doc, todo)
    PROVE  Went(a, pc, op, team, doc, todo)
BY GoesFacts DEF Went

\* Between the removal of a document's chunks and that of its row.
Dooms == {"finalize_row", "team_doc_row"}

\* A request goes on as it is, with a new list, with the next document, or ends.
Stays(a, pc)    == Went(a, pc, admin[a].op, admin[a].team, admin[a].doc, admin[a].todo)
Lists(a, pc, D) == Went(a, pc, admin[a].op, admin[a].team, admin[a].doc, D)
Takes(a, pc, d) == Went(a, pc, admin[a].op, admin[a].team, d, admin[a].todo \ {d})
Ends(a)         == Went(a, "idle", "none", Owner, 0, {})

LEMMA AdminMoves ==
    ASSUME TypeOK, NEW a \in Admins
    PROVE  /\ AdminStart(a) => \E op \in AdminOps \ {"none"}, t \in Teams :
                                 Went(a, op, op, t, admin[a].doc, admin[a].todo)
           /\ Connect(a) \/ Unlink(a) \/ DropStorage(a) \/ DropTeam(a) => Ends(a)
           /\ Disconnect(a) => Lists(a, "finalize", RowsOf(admin[a].team))
           /\ DeleteStorage(a) => Lists(a, "finalize", {d \in Ids : Live(d)}) \/ Ends(a)
           /\ Finalize(a) =>
                \/ \E d \in admin[a].todo : Takes(a, "finalize_row", d) /\ docs' = Chunkless(d)
                \/ /\ admin[a].todo = {} /\ docs' = docs
                   /\ Stays(a, IF admin[a].op = "disconnect" THEN "unlink" ELSE "drop_storage")
           /\ FinalizeRow(a) => Stays(a, "finalize")
           /\ DeleteTeam(a) => (\E D \in SUBSET Ids : Lists(a, "team_docs", D)) \/ Ends(a)
           /\ TeamDocument(a) => \E d \in admin[a].todo : Ends(a) \/ Takes(a, "team_mark", d)
           /\ TeamMark(a) =>
                \/ /\ Stays(a, "team_docs") /\ docs[admin[a].doc].st # "GONE"
                   /\ docs' = [docs EXCEPT ![admin[a].doc].st = "DELETING"]
                \/ Stays(a, "team_clean") /\ docs' = docs
           /\ TeamClean(a) => Stays(a, "team_doc_row")
           /\ TeamDocumentRow(a) => Stays(a, "team_docs")
           /\ TeamCheck(a) => \/ Ends(a)
                              \/ RowsOf(admin[a].team) = {} /\ Stays(a, "team_chunks")
           /\ TeamChunks(a) =>
                Stays(a, IF admin[a].team = Owner THEN "team_storage" ELSE "drop_team")
           /\ TeamStorage(a) => Stays(a, "drop_team")
<1>1. ASSUME NEW pc \in AdminPcs \ {"idle"}, AdminGoto(a, pc) PROVE Stays(a, pc)
  BY <1>1, AdminGotoGoes, GoesWent DEF Stays
<1>2. ASSUME AdminGoto(a, "idle") PROVE Ends(a)
  <2>1. Goes(a, "idle", "none", Owner, 0, {})
    BY <1>2, AdminGotoGoes DEF AdminPcs
  <2> QED
    BY <2>1, GoesWent DEF Ends
<1>3. ASSUME NEW pc \in {"finalize", "team_docs"}, NEW D \in SUBSET Ids,
             admin' = [admin EXCEPT ![a].pc = pc, ![a].todo = D]
      PROVE  Lists(a, pc, D)
  BY <1>3, AdminPuts, GoesWent DEF Lists
<1>4. ASSUME NEW pc \in {"finalize_row", "team_mark"}, NEW d \in Ids,
             admin' = [admin EXCEPT ![a].pc = pc, ![a].doc = d,
                                    ![a].todo = admin[a].todo \ {d}]
      PROVE  Takes(a, pc, d)
  BY <1>4, AdminPuts, GoesWent DEF Takes
<1>5. admin[a].todo \in SUBSET Ids /\ RowsOf(admin[a].team) \in SUBSET Ids
  BY RequestFields DEF RowsOf
<1>6. AdminStart(a) => \E op \in AdminOps \ {"none"}, t \in Teams :
                          Went(a, op, op, t, admin[a].doc, admin[a].todo)
  <2> SUFFICES ASSUME AdminStart(a)
               PROVE  \E op \in AdminOps \ {"none"}, t \in Teams :
                          Went(a, op, op, t, admin[a].doc, admin[a].todo)
    OBVIOUS
  <2>1. PICK t \in Teams, op \in AdminOps \ {"none"} :
          admin' = [admin EXCEPT ![a].pc = op, ![a].op = op, ![a].team = t]
    BY DEF AdminStart, AdminOps
  <2>2. Goes(a, op, op, t, admin[a].doc, admin[a].todo)
    BY <2>1, AdminPuts
  <2> QED
    BY <2>2, GoesWent
<1>7. Connect(a) \/ Unlink(a) \/ DropStorage(a) \/ DropTeam(a) => Ends(a)
  BY <1>2 DEF Connect, Unlink, DropStorage, DropTeam
<1>8. Disconnect(a) => Lists(a, "finalize", RowsOf(admin[a].team))
  BY <1>3, <1>5 DEF Disconnect
<1>9. DeleteStorage(a) => Lists(a, "finalize", {d \in Ids : Live(d)}) \/ Ends(a)
  BY <1>2, <1>3 DEF DeleteStorage
<1>10. Finalize(a) =>
         \/ \E d \in admin[a].todo : Takes(a, "finalize_row", d) /\ docs' = Chunkless(d)
         \/ /\ admin[a].todo = {} /\ docs' = docs
            /\ Stays(a, IF admin[a].op = "disconnect" THEN "unlink" ELSE "drop_storage")
  <2>1. CASE \E d \in admin[a].todo :
               /\ docs' = Chunkless(d)
               /\ admin' = [admin EXCEPT ![a].pc = "finalize_row", ![a].doc = d,
                                         ![a].todo = admin[a].todo \ {d}]
    BY <1>4, <1>5, <2>1
  <2>2. CASE /\ admin[a].todo = {} /\ docs' = docs
             /\ AdminGoto(a, IF admin[a].op = "disconnect" THEN "unlink" ELSE "drop_storage")
    <3>1. (IF admin[a].op = "disconnect" THEN "unlink" ELSE "drop_storage") \in AdminPcs \ {"idle"}
      BY DEF AdminPcs
    <3> QED
      BY <1>1, <2>2, <3>1
  <2> QED
    BY <2>1, <2>2 DEF Finalize
<1>11. FinalizeRow(a) => Stays(a, "finalize")
  BY <1>1 DEF FinalizeRow, AdminPcs
<1>12. DeleteTeam(a) => (\E D \in SUBSET Ids : Lists(a, "team_docs", D)) \/ Ends(a)
  <2>1. {d \in RowsOf(admin[a].team) : docs[d].st # "DELETING"} \in SUBSET Ids
    BY DEF RowsOf
  <2> QED
    BY <1>2, <1>3, <2>1 DEF DeleteTeam
<1>13. TeamDocument(a) => \E d \in admin[a].todo : Ends(a) \/ Takes(a, "team_mark", d)
  <2> SUFFICES ASSUME NEW d \in admin[a].todo,
                 \/ AdminGoto(a, "idle")
                 \/ admin' = [admin EXCEPT ![a].pc = "team_mark", ![a].doc = d,
                                           ![a].todo = admin[a].todo \ {d}]
               PROVE  Ends(a) \/ Takes(a, "team_mark", d)
    BY DEF TeamDocument
  <2>1. d \in Ids
    BY <1>5
  <2> QED
    BY <1>2, <1>4, <2>1
<1>18. TeamMark(a) =>
         \/ /\ Stays(a, "team_docs") /\ docs[admin[a].doc].st # "GONE"
            /\ docs' = [docs EXCEPT ![admin[a].doc].st = "DELETING"]
         \/ Stays(a, "team_clean") /\ docs' = docs
  BY <1>1 DEF TeamMark, AdminPcs
<1>19. TeamClean(a) => Stays(a, "team_doc_row")
  BY <1>1 DEF TeamClean, AdminPcs
<1>14. TeamDocumentRow(a) => Stays(a, "team_docs")
  BY <1>1 DEF TeamDocumentRow, AdminPcs
<1>15. TeamCheck(a) => Ends(a) \/ (RowsOf(admin[a].team) = {} /\ Stays(a, "team_chunks"))
  BY <1>1, <1>2 DEF TeamCheck, AdminPcs
<1>16. TeamChunks(a) => Stays(a, IF admin[a].team = Owner THEN "team_storage" ELSE "drop_team")
  <2>1. (IF admin[a].team = Owner THEN "team_storage" ELSE "drop_team") \in AdminPcs \ {"idle"}
    BY DEF AdminPcs
  <2> QED
    BY <1>1, <2>1 DEF TeamChunks
<1>17. TeamStorage(a) => Stays(a, "drop_team")
  BY <1>1 DEF TeamStorage, AdminPcs
<1> QED
  BY <1>6, <1>7, <1>8, <1>9, <1>10, <1>11, <1>12, <1>13, <1>14, <1>15, <1>16, <1>17, <1>18, <1>19

LEMMA AdminEffects ==
    ASSUME TypeOK, NEW a \in Admins, AdminStep(a)
    PROVE  /\ docs' \in [Ids -> DocRecord] /\ admin' \in [Admins -> AdminRecord]
           /\ UNCHANGED sync /\ Shrinks /\ Tidy /\ Versioned
           /\ \A o \in Admins \ {a} : admin'[o] = admin[o]
<1> USE DEF Dooms
<1>0. /\ docs \in [Ids -> DocRecord] /\ UNCHANGED sync
      /\ excused' = excused \/ DropStorage(a) \/ TeamStorage(a) \/ DropTeam(a)
  BY DEF TypeOK, AdminStep, AdminOnly, AdminQuiet, AdminStart, Connect, Disconnect, Unlink,
         DeleteStorage, Finalize, FinalizeRow, DropStorage, DeleteTeam, TeamDocument,
         TeamMark, TeamClean, TeamDocumentRow, TeamCheck, TeamChunks, TeamStorage, DropTeam
<1> DEFINE Request == /\ admin' \in [Admins -> AdminRecord]
                      /\ \A o \in Admins \ {a} : admin'[o] = admin[o]
           Docs == docs' \in [Ids -> DocRecord] /\ Shrinks /\ Tidy /\ Versioned
<1>1. ASSUME NEW pc, NEW op, NEW team, NEW doc, NEW todo, Went(a, pc, op, team, doc, todo)
      PROVE  /\ Request /\ admin'[a].pc = pc /\ admin'[a].doc = doc
             /\ pc \notin Dooms => \A d \in Ids : Doomed(d)' => Doomed(d)
  BY <1>0, <1>1 DEF Went, Doomed
<1>2. ASSUME docs' = docs, excused' = excused, \A d \in Ids : Doomed(d)' => Doomed(d)
      PROVE  Docs
  BY <1>0, <1>2 DEF Shrinks, Tidy, Versioned
<1>3. ASSUME NEW pc \in Dooms, NEW op, NEW team, NEW d, NEW todo, Went(a, pc, op, team, d, todo),
             docs' = Chunkless(d), excused' = excused
      PROVE  Request /\ Docs
  <2>1. Request /\ admin'[a].doc = d
    BY <1>1, <1>3
  <2>2. CASE d \in Ids
    <3>1. Becomes(d, docs[d].st, docs[d].run, 0)
      BY <1>3, <2>2, ChunklessDoc
    <3>2. /\ docs' \in [Ids -> DocRecord] /\ \A e \in Ids \ {d} : docs'[e] = docs[e]
          /\ docs'[d].team = docs[d].team /\ docs'[d].st = docs[d].st /\ docs'[d].chunks = 0
          /\ docs'[d].st # "GONE" => docs'[d].fp = docs[d].fp
      BY <2>2, <3>1, BecomesFacts
    <3>3. Shrinks /\ Versioned
      BY <3>2 DEF Shrinks, Versioned
    <3>4. Tidy
      BY <1>0, <1>3, <2>1, <3>2 DEF Tidy, Doomed
    <3> QED
      BY <2>1, <3>2, <3>3, <3>4
  <2>3. CASE d \notin Ids
    <3>1. docs' = docs
      BY <1>0, <1>3, <2>3 DEF Chunkless
    <3>2. \A e \in Ids : Doomed(e)' => Doomed(e)
      BY <1>0, <2>1, <2>3 DEF Doomed
    <3> QED
      BY <1>2, <1>3, <2>1, <3>1, <3>2
  <2> QED
    BY <2>2, <2>3
<1>4. ASSUME Stays(a, "finalize") \/ Stays(a, "team_docs"), admin[a].pc \in Dooms,
             docs' = Rowless({admin[a].doc}), excused' = excused
      PROVE  Request /\ Docs
  <2>1. Request /\ \A d \in Ids : Doomed(d)' => Doomed(d)
    BY <1>1, <1>4 DEF Stays
  <2> DEFINE D == {admin[a].doc}
  <2>2. docs' = Rowless(D) /\ \A d \in Ids : d \in D => Doomed(d)
    BY <1>4 DEF Doomed
  <2> HIDE DEF D
  <2>3. /\ docs' \in [Ids -> DocRecord] /\ \A d \in Ids : d \notin D => docs'[d] = docs[d]
        /\ \A d \in Ids : d \in D =>
             /\ docs'[d].st = "GONE" /\ docs'[d].team = docs[d].team
             /\ docs'[d].run = docs[d].run /\ docs'[d].chunks = docs[d].chunks
    BY <2>2, RowlessFacts
  <2>4. Shrinks /\ Versioned
    BY <2>3 DEF Shrinks, Versioned
  <2>5. Tidy
    BY <1>4, <2>1, <2>2, <2>3 DEF Tidy
  <2> QED
    BY <2>1, <2>3, <2>4, <2>5
<1>5. ASSUME NEW D, docs' = Rowless(D), excused \subseteq excused',
             \A d \in Ids : d \in D /\ Live(d) => d \in excused',
             \A d \in Ids : Doomed(d)' => Doomed(d)
      PROVE  Docs
  <2>3. /\ docs' \in [Ids -> DocRecord] /\ \A d \in Ids : d \notin D => docs'[d] = docs[d]
        /\ \A d \in Ids : d \in D =>
             /\ docs'[d].st = "GONE" /\ docs'[d].team = docs[d].team
             /\ docs'[d].run = docs[d].run /\ docs'[d].chunks = docs[d].chunks
    BY <1>5, RowlessFacts
  <2>4. Shrinks /\ Versioned
    BY <2>3 DEF Shrinks, Versioned
  <2>5. Tidy
    BY <1>5, <2>3 DEF Tidy, Live
  <2> QED
    BY <2>3, <2>4, <2>5
<1>6. CASE AdminStart(a)
  <2>1. PICK op \in AdminOps \ {"none"}, t \in Teams :
           Went(a, op, op, t, admin[a].doc, admin[a].todo)
    BY <1>6, AdminMoves
  <2>2. op \notin Dooms /\ docs' = docs /\ excused' = excused
    BY <1>6 DEF AdminOps, AdminStart, AdminQuiet
  <2> QED
    BY <1>0, <1>1, <1>2, <2>1, <2>2
<1>7. CASE Connect(a) \/ Unlink(a)
  <2>1. Ends(a) /\ docs' = docs /\ excused' = excused
    BY <1>7, AdminMoves DEF Connect, Unlink, AdminQuiet
  <2> QED
    BY <1>0, <1>1, <1>2, <2>1 DEF Ends
<1>8. CASE DropStorage(a)
  <2>1. Ends(a)
    BY <1>8, AdminMoves
  <2>2. docs' = Rowless(Ids) /\ excused' = excused \cup {d \in Ids : Live(d)}
    BY <1>8 DEF DropStorage, CascadeStorage
  <2>3. Request /\ \A d \in Ids : Doomed(d)' => Doomed(d)
    BY <1>1, <2>1 DEF Ends
  <2> QED
    BY <1>0, <1>5, <2>2, <2>3
<1>9. CASE DropTeam(a)
  <2>1. Ends(a)
    BY <1>9, AdminMoves
  <2>2. docs' = Rowless(RowsOf(admin[a].team)) /\ excused' = excused \cup RowsOf(admin[a].team)
    BY <1>9 DEF DropTeam
  <2>3. Request /\ \A d \in Ids : Doomed(d)' => Doomed(d)
    BY <1>1, <2>1 DEF Ends
  <2> QED
    BY <1>0, <1>5, <2>2, <2>3
<1>10. CASE TeamStorage(a)
  <2>1. Stays(a, "drop_team")
    BY <1>10, AdminMoves
  <2>2. docs' = Rowless(Ids) /\ excused' = excused \cup {d \in Ids : Live(d)}
    BY <1>10 DEF TeamStorage, CascadeStorage
  <2>3. Request /\ \A d \in Ids : Doomed(d)' => Doomed(d)
    BY <1>1, <2>1 DEF Stays
  <2> QED
    BY <1>0, <1>5, <2>2, <2>3
<1>11. CASE Disconnect(a) \/ DeleteStorage(a) \/ DeleteTeam(a)
  <2>1. docs' = docs /\ excused' = excused
    BY <1>11 DEF Disconnect, DeleteStorage, DeleteTeam, AdminQuiet
  <2>2. Ends(a) \/ \E D \in SUBSET Ids : Lists(a, "finalize", D) \/ Lists(a, "team_docs", D)
    <3>1. /\ RowsOf(admin[a].team) \in SUBSET Ids /\ {d \in Ids : Live(d)} \in SUBSET Ids
      BY DEF RowsOf
    <3> QED
      BY <1>11, <3>1, AdminMoves
  <2>3. Request /\ \A d \in Ids : Doomed(d)' => Doomed(d)
    BY <1>1, <2>2 DEF Ends, Lists
  <2> QED
    BY <1>0, <1>2, <2>1, <2>3
<1>12. CASE Finalize(a)
  <2>1. excused' = excused /\ admin[a].todo \in SUBSET Ids
    BY <1>12, RequestFields DEF Finalize, AdminQuiet
  <2>2. CASE \E d \in admin[a].todo : Takes(a, "finalize_row", d) /\ docs' = Chunkless(d)
    BY <1>0, <1>3, <2>1, <2>2 DEF Takes
  <2>3. CASE /\ docs' = docs
             /\ Stays(a, IF admin[a].op = "disconnect" THEN "unlink" ELSE "drop_storage")
    <3>1. Request /\ \A d \in Ids : Doomed(d)' => Doomed(d)
      BY <1>1, <2>3 DEF Stays
    <3> QED
      BY <1>0, <1>2, <2>1, <2>3, <3>1
  <2> QED
    BY <1>12, <2>2, <2>3, AdminMoves
<1>13. CASE FinalizeRow(a) \/ TeamDocumentRow(a)
  <2>1. /\ excused' = excused /\ docs' = Rowless({admin[a].doc}) /\ admin[a].pc \in Dooms
    BY <1>13 DEF FinalizeRow, TeamDocumentRow, AdminQuiet
  <2> QED
    BY <1>0, <1>4, <1>13, <2>1, AdminMoves
<1>14. CASE TeamDocument(a)
  <2>1. docs' = docs /\ excused' = excused
    BY <1>14 DEF TeamDocument, AdminQuiet
  <2>2. PICK d \in admin[a].todo : Ends(a) \/ Takes(a, "team_mark", d)
    BY <1>14, AdminMoves
  <2>3. Request /\ \A e \in Ids : Doomed(e)' => Doomed(e)
    <3>1. Ends(a) => Request /\ \A e \in Ids : Doomed(e)' => Doomed(e)
      BY <1>1 DEF Ends
    <3>2. Takes(a, "team_mark", d) => Request /\ \A e \in Ids : Doomed(e)' => Doomed(e)
      BY <1>1 DEF Takes
    <3> QED
      BY <2>2, <3>1, <3>2
  <2> QED
    BY <1>0, <1>2, <2>1, <2>3
<1>17. CASE TeamMark(a)
  <2> DEFINE d == admin[a].doc
  <2>1. \/ /\ Stays(a, "team_docs") /\ docs[d].st # "GONE"
           /\ docs' = [docs EXCEPT ![d].st = "DELETING"]
        \/ Stays(a, "team_clean") /\ docs' = docs
    BY <1>17, AdminMoves
  <2>2. excused' = excused
    BY <1>17 DEF TeamMark, AdminQuiet
  <2>3. Request /\ \A e \in Ids : Doomed(e)' => Doomed(e)
    BY <1>1, <2>1 DEF Stays
  <2>4. CASE docs' = docs
    BY <1>0, <1>2, <2>2, <2>3, <2>4
  <2>5. CASE docs' = [docs EXCEPT ![d].st = "DELETING"] /\ d \notin Ids
    <3>1. docs' = docs
      BY <1>0, <2>5
    <3> QED
      BY <2>4, <3>1
  <2>6. CASE docs' = [docs EXCEPT ![d].st = "DELETING"] /\ d \in Ids /\ docs[d].st # "GONE"
    <3> DEFINE q   == docs[d]
               rec == [q EXCEPT !.st = "DELETING"]
    <3>1. docs' = [docs EXCEPT ![d] = rec] /\ q \in DocRecord
      BY <1>0, <2>6
    <3> HIDE DEF q
    <3>2. /\ rec \in DocRecord /\ rec.team = q.team /\ rec.st = "DELETING" /\ rec.run = q.run
          /\ rec.chunks = q.chunks /\ rec.fp = q.fp
      BY <3>1 DEF DocRecord, Statuses, InFlight
    <3>3. /\ docs' \in [Ids -> DocRecord] /\ \A e \in Ids \ {d} : docs'[e] = docs[e]
          /\ docs'[d].team = docs[d].team /\ docs'[d].st = "DELETING"
          /\ docs'[d].run = docs[d].run /\ docs'[d].chunks = docs[d].chunks
          /\ docs'[d].fp = docs[d].fp
      BY <1>0, <2>6, <3>1, <3>2 DEF q
    <3>4. Shrinks /\ Versioned
      BY <2>6, <3>3 DEF Shrinks, Versioned
    <3>5. Tidy
      BY <2>2, <2>3, <3>3 DEF Tidy
    <3> QED
      BY <1>0, <2>3, <3>3, <3>4, <3>5
  <2> QED
    BY <2>1, <2>4, <2>5, <2>6
<1>18. CASE TeamClean(a)
  <2>1. Stays(a, "team_doc_row")
    BY <1>18, AdminMoves
  <2>2. docs' = Chunkless(admin[a].doc) /\ excused' = excused
    BY <1>18 DEF TeamClean, AdminQuiet
  <2> QED
    BY <1>0, <1>3, <2>1, <2>2 DEF Stays
<1>15. CASE TeamCheck(a)
  <2>1. docs' = docs /\ excused' = excused
    BY <1>15 DEF TeamCheck, AdminQuiet
  <2>2. Ends(a) \/ Stays(a, "team_chunks")
    BY <1>15, AdminMoves
  <2>3. Request /\ \A d \in Ids : Doomed(d)' => Doomed(d)
    BY <1>1, <2>2 DEF Ends, Stays
  <2> QED
    BY <1>0, <1>2, <2>1, <2>3
<1>16. CASE TeamChunks(a)
  <2>1. Stays(a, IF admin[a].team = Owner THEN "team_storage" ELSE "drop_team")
    BY <1>16, AdminMoves
  <2>2. Request /\ \A d \in Ids : Doomed(d)' => Doomed(d)
    BY <1>1, <2>1 DEF Stays
  <2>3. /\ excused' = excused
        /\ docs' = [d \in Ids |-> IF docs[d].team = admin[a].team
                                  THEN [docs[d] EXCEPT !.chunks = 0] ELSE docs[d]]
    BY <1>16 DEF TeamChunks, AdminQuiet
  <2>4. ASSUME NEW d \in Ids
        PROVE  /\ docs'[d] \in DocRecord /\ docs'[d].team = docs[d].team /\ docs'[d].st = docs[d].st
               /\ docs'[d].run = docs[d].run /\ docs'[d].fp = docs[d].fp
               /\ docs'[d].chunks \in {docs[d].chunks, 0}
    <3> DEFINE q == docs[d]
    <3>1. q \in DocRecord /\ 0 \in 0 .. MaxVersions
      BY DocFields, BoundsAssumption
    <3>2. docs'[d] = q \/ docs'[d] = [q EXCEPT !.chunks = 0]
      BY <2>3
    <3> HIDE DEF q
    <3>3. /\ docs'[d] \in DocRecord /\ docs'[d].team = q.team /\ docs'[d].st = q.st
          /\ docs'[d].run = q.run /\ docs'[d].chunks \in {q.chunks, 0}
          /\ docs'[d].fp = q.fp
      BY <3>1, <3>2 DEF DocRecord
    <3> QED
      BY <3>3 DEF q
  <2>5. docs' \in [Ids -> DocRecord]
    BY <2>3, <2>4
  <2>6. Shrinks /\ Versioned
    BY <2>4 DEF Shrinks, Versioned
  <2>7. Tidy
    BY <2>2, <2>3, <2>4 DEF Tidy
  <2> QED
    BY <1>0, <2>2, <2>5, <2>6, <2>7
<1> QED
  BY <1>6, <1>7, <1>8, <1>9, <1>10, <1>11, <1>12, <1>13, <1>14, <1>15, <1>16, <1>17, <1>18
  DEF AdminStep

\* A pass creates a row under an id of which nothing is left and nobody thinks.
LEMMA CreateEffects ==
    ASSUME TypeOK, NEW s \in Syncers, SyncCreate(s)
    PROVE  /\ NewId \in Ids /\ docs[NewId].st = "GONE" /\ docs[NewId].chunks = 0 /\ ~Held(NewId)
           /\ docs' \in [Ids -> DocRecord] /\ \A e \in Ids \ {NewId} : docs'[e] = docs[e]
           /\ docs'[NewId].team = sync[s].team /\ docs'[NewId].st = "UPLOADING"
           /\ docs'[NewId].run = "none" /\ docs'[NewId].chunks = 0
           /\ docs'[NewId].fp = sync[s].fp /\ ~Taken(s)
           /\ sync' \in [Syncers -> SyncRecord] /\ \A o \in Syncers \ {s} : sync'[o] = sync[o]
           /\ sync'[s].pc = "enqueue" /\ sync'[s].team = sync[s].team /\ sync[s].pc = "create"
           /\ UNCHANGED admin /\ twins' = twins \cup Twin(s) /\ excused' = excused \ {NewId}
<1> DEFINE n  == NewId
           q  == sync[s].fp
           t  == sync[s].team
           rec == [Blank EXCEPT !.team = t, !.st = "UPLOADING", !.fp = q]
<1>1. /\ Free # {} /\ docs' = [docs EXCEPT ![n] = rec] /\ sync[s].pc = "create"
      /\ sync' = [sync EXCEPT ![s].pc = "enqueue", ![s].doc = n]
      /\ UNCHANGED admin /\ twins' = twins \cup Twin(s) /\ excused' = excused \ {n}
      /\ ~Taken(s)
  BY DEF SyncCreate, SyncOnly, Refused
<1>2. n \in Free /\ n \in Ids
  BY <1>1, NewIdFree DEF Free
<1>3. docs[n] = [Blank EXCEPT !.team = docs[n].team] /\ ~Held(n)
  BY <1>2 DEF Free
<1>4. q \in 0 .. MaxVersions /\ t \in Teams /\ docs \in [Ids -> DocRecord] /\ 0 \in 0 .. MaxVersions
  BY PassFields, BoundsAssumption DEF TypeOK
<1> HIDE DEF n, q, t
<1>5. docs[n].st = "GONE" /\ docs[n].chunks = 0
  BY <1>3 DEF Blank
<1>6. /\ rec \in DocRecord /\ rec.team = t /\ rec.st = "UPLOADING" /\ rec.run = "none"
      /\ rec.chunks = 0 /\ rec.fp = q
  BY <1>4 DEF Blank, DocRecord, Statuses, InFlight
<1>7. /\ docs' \in [Ids -> DocRecord] /\ \A e \in Ids \ {n} : docs'[e] = docs[e]
      /\ docs'[n] = rec
  BY <1>1, <1>2, <1>4, <1>6
<1>8. Passes(s, "enqueue", sync[s].team, n, sync[s].todo)
  BY <1>1, <1>2, SyncPuts
<1>9. /\ sync' \in [Syncers -> SyncRecord] /\ \A o \in Syncers \ {s} : sync'[o] = sync[o]
      /\ sync'[s].pc = "enqueue" /\ sync'[s].team = sync[s].team
  BY <1>8, PassesFacts
<1> HIDE DEF rec
<1> QED
  BY <1>1, <1>2, <1>3, <1>5, <1>6, <1>7, <1>9 DEF n, q, t

LEMMA WorkerEffects ==
    ASSUME TypeOK, NEW d \in Ids, WorkerStep(d)
    PROVE  /\ docs' \in [Ids -> DocRecord] /\ UNCHANGED <<sync, admin, twins, rows, cascaded>>
           /\ excused \subseteq excused' /\ excused' \subseteq excused \cup {d}
           /\ UNCHANGED <<space, requests, interfered>> /\ trouble' \in BOOLEAN
           /\ Shrinks /\ Versioned
           /\ (\A e \in Ids : Clean(e)) => \A e \in Ids : Clean(e)'
<1>1. /\ UNCHANGED <<sync, admin, twins, rows, cascaded>>
      /\ UNCHANGED <<space, requests, interfered>>
      /\ excused \subseteq excused' /\ excused' \subseteq excused \cup {d}
  BY DEF WorkerStep, WorkerOnly, Claim, Fail, LeftBehind, Check, Upsert, Abort, Commit
<1>2. trouble' \in BOOLEAN
  <2>1. \/ trouble' \in {trouble, TRUE}
        \/ trouble' = (trouble \/ docs[d].seen = file \/ docs[d].st # "PROCESSING")
    BY DEF WorkerStep, Claim, Fail, Check, Upsert, Abort, Commit
  <2> QED
    BY <2>1, Zenon DEF TypeOK
<1>3. ASSUME NEW st, NEW run, NEW chunks, Becomes(d, st, run, chunks),
             docs[d].st = "GONE" => st = "GONE"
      PROVE  docs' \in [Ids -> DocRecord] /\ Shrinks /\ Versioned
  <2>1. /\ docs' \in [Ids -> DocRecord] /\ \A e \in Ids \ {d} : docs'[e] = docs[e]
        /\ docs'[d].team = docs[d].team /\ docs'[d].st = st
        /\ st # "GONE" => docs'[d].fp = docs[d].fp
    BY <1>3, BecomesFacts
  <2> QED
    BY <1>3, <2>1 DEF Shrinks, Versioned
<1>4. ASSUME NEW st, NEW run, NEW chunks, Becomes(d, st, run, chunks), \A e \in Ids : Clean(e),
             \/ chunks = 0 \/ run = "embedded"
             \/ /\ chunks = docs[d].chunks /\ docs[d].run # "embedded"
                /\ st = "GONE" => docs[d].st = "GONE"
             \/ st = "GONE" \/ Doomed(d) => d \in excused'
      PROVE  \A e \in Ids : Clean(e)'
  <2>1. /\ \A e \in Ids \ {d} : docs'[e] = docs[e]
        /\ docs'[d].st = st /\ docs'[d].run = run /\ docs'[d].chunks = chunks
    BY <1>4, BecomesFacts
  <2>2. \A e \in Ids : Doomed(e)' <=> Doomed(e)
    BY <1>1 DEF Doomed
  <2>3. Clean(d)'
    BY <1>1, <1>4, <2>1, <2>2 DEF Clean, Live
  <2>4. ASSUME NEW e \in Ids \ {d} PROVE Clean(e)'
    BY <1>1, <1>4, <2>1, <2>2, <2>4 DEF Clean, Live
  <2> QED
    BY <2>3, <2>4
<1>5. CASE Claim(d)
  <2>1. docs[d].run = "none"
    BY <1>5 DEF Claim
  <2>2. CASE Becomes(d, "PROCESSING", "loading", docs[d].chunks) /\ docs[d].st # "GONE"
    BY <1>1, <1>2, <1>3, <1>4, <2>1, <2>2
  <2>3. CASE Becomes(d, docs[d].st, docs[d].run, docs[d].chunks)
    BY <1>1, <1>2, <1>3, <1>4, <2>1, <2>3
  <2>4. CASE Becomes(d, "GONE", docs[d].run, 0)
    BY <1>1, <1>2, <1>3, <1>4, <2>4
  <2> QED
    BY <1>5, <2>2, <2>3, <2>4, ClaimDoc
<1>6. CASE Fail(d)
  <2>1. PICK st : Becomes(d, st, "none", docs[d].chunks) /\ (st = "GONE" <=> docs[d].st = "GONE")
    BY <1>6, FailDoc
  <2>2. CASE docs[d].run = "embedded"
    <3>1. docs[d].st = "GONE" \/ Doomed(d) => d \in excused'
      BY <1>6, <2>2 DEF Fail, LeftBehind, Live
    <3> QED
      BY <1>1, <1>2, <1>3, <1>4, <2>1, <3>1
  <2>3. CASE docs[d].run # "embedded"
    BY <1>1, <1>2, <1>3, <1>4, <2>1, <2>3
  <2> QED
    BY <2>2, <2>3
<1>7. CASE Upsert(d)
  BY <1>1, <1>2, <1>3, <1>4, <1>7, UpsertDoc
<1>10. CASE Check(d)
  <2>1. docs[d].run = "loading"
    BY <1>10 DEF Check
  <2> QED
    BY <1>1, <1>2, <1>3, <1>4, <1>10, <2>1, CheckDoc
<1>8. CASE Abort(d)
  <2> DEFINE left == IF docs[d].st = "DELETING" THEN 0 ELSE docs[d].chunks
  <2>1. /\ Becomes(d, "GONE", "none", left) /\ docs[d].run = "loading"
        /\ docs[d].st \in {"GONE", "DELETING"}
    BY <1>8, AbortDoc DEF Abort
  <2>2. left = 0 \/ (left = docs[d].chunks /\ docs[d].st = "GONE")
    BY <2>1
  <2> HIDE DEF left
  <2> QED
    BY <1>1, <1>2, <1>3, <1>4, <2>1, <2>2
<1>9. CASE Commit(d)
  <2>1. CASE Becomes(d, "GONE", "none", 0)
    BY <1>1, <1>2, <1>3, <1>4, <2>1
  <2>2. CASE \E st \in Statuses : /\ Becomes(d, st, "none", docs[d].chunks)
                                 /\ docs[d].st \notin {"DELETING", "GONE"}
    <3>1. PICK st \in Statuses : /\ Becomes(d, st, "none", docs[d].chunks)
                                 /\ docs[d].st \notin {"DELETING", "GONE"}
      BY <2>2
    <3>2. st # "GONE" /\ (Doomed(d) => d \in excused')
      BY <1>9, <3>1 DEF Statuses, InFlight, Commit
    <3> QED
      BY <1>1, <1>2, <1>3, <1>4, <3>1, <3>2
  <2> QED
    BY <1>9, <2>1, <2>2, CommitDoc
<1> QED
  BY <1>5, <1>6, <1>7, <1>8, <1>9, <1>10 DEF WorkerStep

LEMMA TypeInit == Init => TypeOK
<1> SUFFICES ASSUME Init PROVE TypeOK
  OBVIOUS
<1>1. 0 \in 0 .. MaxVersions /\ 1 \in 0 .. MaxVersions /\ 0 \in 0 .. MaxRequests
  BY BoundsAssumption
<1>2. Blank \in DocRecord
  BY <1>1, OwnerAssumption DEF Blank, DocRecord
<1>3. docs \in [Ids -> DocRecord]
  BY <1>2 DEF Init
<1>4. sync \in [Syncers -> SyncRecord] /\ admin \in [Admins -> AdminRecord]
  BY IdleRecords DEF Init
<1> QED
  BY <1>1, <1>3, <1>4 DEF Init, TypeOK

LEMMA TypeStep == TypeOK /\ [Next]_vars => TypeOK'
<1> SUFFICES ASSUME TypeOK, [Next]_vars PROVE TypeOK'
  OBVIOUS
<1>0. 0 \in 0 .. MaxVersions
  BY BoundsAssumption
<1>1. CASE FileChanges \/ FileRemoved
  <2>1. file' \in 0 .. MaxVersions /\ version' \in 0 .. MaxVersions
    BY <1>0, <1>1, BoundsAssumption DEF FileChanges, FileRemoved, TypeOK
  <2>2. UNCHANGED <<rows, docs, sync, admin, requests, past>>
    BY <1>1 DEF FileChanges, FileRemoved
  <2> QED
    BY <2>1, <2>2 DEF TypeOK, rows, past
<1>2. ASSUME NEW s \in Syncers, SyncStep(s) PROVE TypeOK'
  <2>1. docs' \in [Ids -> DocRecord] /\ sync' \in [Syncers -> SyncRecord] /\ UNCHANGED admin
    <3>1. CASE SyncCreate(s)
      BY <3>1, CreateEffects
    <3>2. CASE ~SyncCreate(s)
      <4>1. UNCHANGED admin
        BY <1>2, <3>2 DEF SyncStep, SyncOnly, SyncStart, SyncList, SyncUnstable, SyncFind,
               SyncSave, SyncRefused, SyncEnqueue, SyncManaged, SyncDrop, SyncDropRow
      <4> QED
        BY <1>2, <3>2, <4>1, SyncEffects
    <3> QED
      BY <3>1, <3>2
  <2>2. UNCHANGED <<space, rows, requests>>
    BY <1>2 DEF SyncStep, SyncOnly, SyncStart, SyncList, SyncUnstable, SyncFind, SyncCreate,
           SyncSave, SyncRefused, SyncEnqueue, SyncManaged, SyncDrop, SyncDropRow
  <2>0. Twin(s) \subseteq Teams
    BY PassFields DEF Twin
  <2>3. /\ twins' \subseteq Teams /\ excused' \subseteq Ids /\ cascaded' = cascaded
        /\ \/ trouble' = trouble
           \/ trouble' = TRUE
        /\ \/ interfered' = interfered
           \/ interfered' = (interfered \/ Removing \/ sync[s].team \notin links)
    BY <1>2, <2>0 DEF SyncStep, SyncStart, SyncList, SyncUnstable, SyncFind, SyncCreate, SyncSave,
           SyncRefused, SyncEnqueue, SyncManaged, SyncDrop, SyncDropRow, past, TypeOK
  <2>4. trouble' \in BOOLEAN /\ interfered' \in BOOLEAN /\ cascaded' \in BOOLEAN
    BY <2>3, Zenon DEF TypeOK
  <2> QED
    BY <2>1, <2>2, <2>3, <2>4 DEF TypeOK, space, rows
<1>3. ASSUME NEW d \in Ids, WorkerStep(d) PROVE TypeOK'
  <2>1. /\ docs' \in [Ids -> DocRecord] /\ UNCHANGED <<sync, admin, twins, rows, cascaded>>
        /\ excused' \subseteq excused \cup {d} /\ UNCHANGED <<space, requests, interfered>>
        /\ trouble' \in BOOLEAN
    BY <1>3, WorkerEffects
  <2> QED
    BY <2>1 DEF TypeOK, space, rows
<1>4. ASSUME NEW a \in Admins, AdminStep(a) PROVE TypeOK'
  <2>1. docs' \in [Ids -> DocRecord] /\ admin' \in [Admins -> AdminRecord] /\ UNCHANGED sync
    BY <1>4, AdminEffects
  <2>2. UNCHANGED <<version, twins, trouble>> /\ file' \in {file, 0}
    BY <1>4 DEF AdminStep, AdminOnly, AdminQuiet, AdminStart, Connect, Disconnect, Unlink,
         DeleteStorage, Finalize, FinalizeRow, DropStorage, DeleteTeam, TeamDocument,
         TeamMark, TeamClean, TeamDocumentRow, TeamCheck, TeamChunks, TeamStorage, DropTeam
  <2>3. requests' \in 0 .. MaxRequests
    <3>1. requests' = requests \/ (requests < MaxRequests /\ requests' = requests + 1)
      BY <1>4 DEF AdminStep, AdminStart, Connect, Disconnect, Unlink, DeleteStorage, Finalize,
           FinalizeRow, DropStorage, DeleteTeam, TeamDocument, TeamMark, TeamClean, TeamDocumentRow, TeamCheck,
           TeamChunks, TeamStorage, DropTeam
    <3>2. requests \in 0 .. MaxRequests
      BY DEF TypeOK
    <3> QED
      BY <3>1, <3>2, BoundsAssumption
  <2>4. admin[a].team \in Teams /\ RowsOf(admin[a].team) \subseteq Ids
    BY RequestFields DEF RowsOf
  <2>5. teams' \subseteq Teams /\ links' \subseteq Teams /\ excused' \subseteq Ids
    BY <1>4, <2>4 DEF TypeOK, AdminStep, AdminQuiet, rows, AdminStart, Connect, Disconnect,
         Unlink, DeleteStorage, Finalize, FinalizeRow, DropStorage, DeleteTeam, TeamDocument,
         TeamMark, TeamClean, TeamDocumentRow, TeamCheck, TeamChunks, TeamStorage, DropTeam, CascadeStorage
  <2>6. /\ \/ storage' \in {storage, FALSE}
           \/ storage' = (storage /\ admin[a].team # Owner)
        /\ \/ interfered' = interfered
           \/ interfered' = (interfered \/ Removing)
        /\ \/ cascaded' = cascaded
           \/ cascaded' = (cascaded \/ RowsOf(admin[a].team) # {})
           \/ cascaded' = (cascaded \/ \E d \in Ids : Live(d))
    BY <1>4 DEF AdminStep, AdminQuiet, rows, AdminStart, Connect, Disconnect,
         Unlink, DeleteStorage, Finalize, FinalizeRow, DropStorage, DeleteTeam, TeamDocument,
         TeamMark, TeamClean, TeamDocumentRow, TeamCheck, TeamChunks, TeamStorage, DropTeam, CascadeStorage
  <2>7. storage' \in BOOLEAN /\ interfered' \in BOOLEAN /\ cascaded' \in BOOLEAN
    BY <2>6, Zenon DEF TypeOK
  <2> QED
    BY <1>0, <2>1, <2>2, <2>3, <2>5, <2>7 DEF TypeOK
<1>5. CASE UNCHANGED vars
  BY <1>5 DEF vars, space, rows, past, TypeOK
<1> QED
  BY <1>1, <1>2, <1>3, <1>4, <1>5 DEF Next

\* The rows of the storage, its links, its passes, its requests and the histories stay within
\* their types, the bookkeeping of every pass and request (team_sync.py, storage.py, team.py)
\* included.
THEOREM TypeCorrect == Spec => []TypeOK
<1> QED
  BY TypeInit, TypeStep, PTL DEF Spec

CleanAll == \A d \in Ids : Clean(d)

LEMMA CleanStep == TypeOK /\ CleanAll /\ [Next]_vars => CleanAll'
<1> SUFFICES ASSUME TypeOK, CleanAll, [Next]_vars PROVE CleanAll'
  OBVIOUS
<1> USE DEF CleanAll
<1>1. CASE FileChanges \/ FileRemoved \/ UNCHANGED vars
  <2>1. UNCHANGED <<docs, sync, admin, excused>>
    BY <1>1 DEF FileChanges, FileRemoved, vars, past
  <2> QED
    BY <2>1 DEF Clean, Live, Doomed
<1>2. ASSUME NEW s \in Syncers, SyncStep(s) PROVE CleanAll'
  <2>1. CASE ~SyncCreate(s)
    <3>1. Tidy
      BY <1>2, <2>1, SyncEffects
    <3> QED
      BY <3>1, TidyClean
  <2>2. CASE SyncCreate(s)
    <3>0. PICK n \in Ids : n = NewId
      BY <2>2, CreateEffects
    <3>1. /\ docs[n].chunks = 0 /\ docs'[n].chunks = 0
          /\ \A e \in Ids \ {n} : docs'[e] = docs[e]
          /\ \A o \in Syncers \ {s} : sync'[o] = sync[o]
          /\ sync'[s].pc = "enqueue"
          /\ UNCHANGED admin /\ excused' = excused \ {n}
      BY <2>2, <3>0, CreateEffects
    <3>2. \A e \in Ids : Doomed(e)' => Doomed(e)
      BY <3>1 DEF Doomed
    <3>3. Clean(n)'
      BY <3>1 DEF Clean
    <3>4. ASSUME NEW e \in Ids \ {n} PROVE Clean(e)'
      BY <3>1, <3>2, <3>4 DEF Clean, Live
    <3> QED
      BY <3>3, <3>4
  <2> QED
    BY <2>1, <2>2
<1>3. ASSUME NEW d \in Ids, WorkerStep(d) PROVE CleanAll'
  BY <1>3, WorkerEffects
<1>4. ASSUME NEW a \in Admins, AdminStep(a) PROVE CleanAll'
  BY <1>4, AdminEffects, TidyClean
<1> QED
  BY <1>1, <1>2, <1>3, <1>4 DEF Next

\* Whoever removes a document (a pass, a disconnection, a storage or a team that is deleted),
\* and whatever runs are at work on it, no chunks of a document without a row stay once its
\* last run has ended: it finds the row gone and removes what it wrote (nodes.py:267).
\* Excused are only the documents whose run fails after its upsert with the row gone or
\* going (nodes.py:277), or ends well between the two deletes of a removal, and those a
\* foreign key takes.
THEOREM OrphansNever == Spec => []NoOrphans
<1>1. Init => CleanAll
  <2> SUFFICES ASSUME Init PROVE CleanAll
    OBVIOUS
  <2>1. \A d \in Ids : docs[d].chunks = 0
    BY DEF Init, Blank
  <2> QED
    BY <2>1 DEF CleanAll, Clean
<1>2. CleanAll => NoOrphans
  BY DEF CleanAll, Clean, NoOrphans
<1> QED
  BY <1>1, <1>2, CleanStep, TypeInit, TypeStep, PTL DEF Spec

----------------------------------------------------------------------------
(* One row of a team's path.                                               *)

Sole(t) == \A d, e \in RowsOf(t) : d = e

\* A pass thinks of no document until it has found a row, which is one of its team's.
Own(s) == /\ sync[s].pc \in Looking => sync[s].doc = 0
          /\ (sync[s].pc = "save" /\ sync[s].doc \in Ids /\ Live(sync[s].doc))
                => docs[sync[s].doc].team = sync[s].team

\* A pass about to create a row has seen none; those that have come since are of its version.
Creating(s) == (sync[s].pc = "create" /\ sync[s].team \notin twins) =>
                   \A d \in RowsOf(sync[s].team) : docs[d].fp = sync[s].fp

LoneInv == /\ \A t \in Teams \ twins : Sole(t)
           /\ \A s \in Syncers : Own(s) /\ Creating(s)

LEMMA ShrinksRows ==
    ASSUME Shrinks, NEW t
    PROVE  RowsOf(t)' \subseteq RowsOf(t)
BY DEF Shrinks, RowsOf, Live

\* A step that brings no row and no version leaves the passes that stand still as they were.
LEMMA StillLone ==
    ASSUME LoneInv, Shrinks, Versioned, twins \subseteq twins', NEW s \in Syncers,
           sync'[s] = sync[s]
    PROVE  Own(s)' /\ Creating(s)'
<1> PICK t : t = sync[s].team
  OBVIOUS
<1>1. RowsOf(t)' \subseteq RowsOf(t) /\ \A d \in RowsOf(t)' : docs'[d].fp = docs[d].fp
  BY ShrinksRows DEF Versioned, RowsOf, Live
<1>2. Own(s)'
  BY DEF LoneInv, Own, Shrinks, Live
<1>3. Creating(s)'
  <2> SUFFICES ASSUME sync[s].pc = "create", t \notin twins', NEW d \in RowsOf(t)'
               PROVE  docs'[d].fp = sync[s].fp
    BY DEF Creating, RowsOf, Live
  <2> QED
    BY <1>1 DEF LoneInv, Creating
<1> QED
  BY <1>2, <1>3

LEMMA StillSole ==
    ASSUME LoneInv, Shrinks, twins \subseteq twins', NEW t \in Teams, t \notin twins'
    PROVE  Sole(t)'
BY ShrinksRows DEF LoneInv, Sole

LEMMA QuietLone ==
    ASSUME LoneInv, Shrinks, Versioned, UNCHANGED <<sync, twins>>
    PROVE  LoneInv'
BY StillLone, StillSole DEF LoneInv

LEMMA AdminTwins ==
    ASSUME NEW a \in Admins, AdminStep(a)
    PROVE  UNCHANGED twins
BY DEF AdminStep, AdminOnly, AdminQuiet, AdminStart, Connect, Disconnect, Unlink,
       DeleteStorage, Finalize, FinalizeRow, DropStorage, DeleteTeam, TeamDocument,
       TeamMark, TeamClean, TeamDocumentRow, TeamCheck, TeamChunks, TeamStorage, DropTeam

\* A pass that saves the row it has found gives it its version: a pass of the team that is
\* about to create the row of another one makes them twins.
LEMMA SaveLone ==
    ASSUME TypeOK, LoneInv, NEW s \in Syncers, SyncSave(s)
    PROVE  LoneInv'
<1> DEFINE d == sync[s].doc
           t == sync[s].team
<1>1. /\ Shrinks /\ \A o \in Syncers \ {s} : sync'[o] = sync[o]
  BY SyncEffects DEF SyncStep, SyncSave, SyncCreate
<1>2. /\ SyncGoto(s, "enqueue") /\ sync[s].pc = "save"
      /\ docs' = IF Live(d) THEN [docs EXCEPT ![d].st = "UPLOADING", ![d].fp = sync[s].fp]
                 ELSE docs
      /\ twins' = twins \cup (IF Live(d) THEN Twin(s) ELSE {})
  BY DEF SyncSave
<1>3. Own(s)' /\ Creating(s)'
  <2>1. sync'[s].pc = "enqueue"
    <3>1. Passes(s, "enqueue", sync[s].team, sync[s].doc, sync[s].todo)
      BY <1>2, SyncGotoPasses DEF SyncPcs
    <3> QED
      BY <3>1, PassesFacts
  <2> QED
    BY <2>1 DEF Own, Creating, Looking
<1>4. twins \subseteq twins'
  BY <1>2
<1>5. ASSUME NEW u \in Teams \ twins' PROVE Sole(u)'
  BY <1>1, <1>4, <1>5, StillSole
<1>6. CASE Versioned
  <2>1. \A o \in Syncers \ {s} : Own(o)' /\ Creating(o)'
    BY <1>1, <1>4, <1>6, StillLone
  <2> QED
    BY <1>3, <1>5, <2>1 DEF LoneInv
<1>7. CASE d \in Ids /\ Live(d)
  <2>1. docs \in [Ids -> DocRecord] /\ docs[d].team = t
    BY <1>2, <1>7 DEF TypeOK, LoneInv, Own
  <2>2. /\ \A e \in Ids \ {d} : docs'[e] = docs[e]
        /\ docs'[d].fp = sync[s].fp
    <3>1. docs[d] \in DocRecord
      BY <1>7, DocFields
    <3> QED
      BY <1>2, <1>7, <2>1, <3>1 DEF DocRecord
  <2>3. ASSUME NEW o \in Syncers \ {s} PROVE Own(o)'
    BY <1>1 DEF LoneInv, Own, Shrinks, Live
  <2>4. ASSUME NEW o \in Syncers \ {s} PROVE Creating(o)'
    <3> PICK u : u = sync[o].team
      OBVIOUS
    <3> SUFFICES ASSUME sync[o].pc = "create", u \notin twins', NEW e \in RowsOf(u)'
                 PROVE  docs'[e].fp = sync[o].fp
      BY <1>1 DEF Creating, RowsOf, Live
    <3>1. e \in RowsOf(u)
      BY <1>1, ShrinksRows
    <3>2. CASE e # d
      BY <1>4, <2>2, <3>1, <3>2 DEF LoneInv, Creating, RowsOf
    <3>3. CASE e = d
      <4>1. u = t
        BY <2>1, <3>1, <3>3 DEF RowsOf
      <4>2. sync[o].fp = sync[s].fp
        BY <1>2, <1>7, <4>1 DEF Twin
      <4> QED
        BY <2>2, <3>3, <4>2
    <3> QED
      BY <3>2, <3>3
  <2> QED
    BY <1>3, <1>5, <2>3, <2>4 DEF LoneInv
<1>8. CASE ~(d \in Ids /\ Live(d))
  <2>1. docs' = docs
    BY <1>2, <1>8 DEF TypeOK
  <2> QED
    BY <1>6, <2>1 DEF Versioned
<1> QED
  BY <1>7, <1>8

\* A pass that creates a row finds none of another version, and none of its own.
LEMMA CreateLone ==
    ASSUME TypeOK, LoneInv, NEW s \in Syncers, SyncCreate(s)
    PROVE  LoneInv'
<1>0. PICK n \in Ids, t \in Teams : n = NewId /\ t = sync[s].team
  BY CreateEffects, PassFields
<1>1. /\ \A e \in Ids \ {n} : docs'[e] = docs[e]
      /\ docs'[n].team = t /\ docs'[n].st = "UPLOADING" /\ docs'[n].fp = sync[s].fp
      /\ \A o \in Syncers \ {s} : sync'[o] = sync[o]
      /\ sync'[s].pc = "enqueue" /\ sync[s].pc = "create"
      /\ twins' = twins \cup Twin(s) /\ ~Taken(s) /\ ~Held(n)
  BY <1>0, CreateEffects
<1>2. \A u \in Teams : RowsOf(u)' = IF u = t THEN RowsOf(u) \cup {n} ELSE RowsOf(u) \ {n}
  BY <1>1 DEF RowsOf, Live
<1>3. t \notin twins => RowsOf(t) = {}
  <2>1. sync[s].doc = 0
    BY <1>1 DEF LoneInv, Own, Looking
  <2>2. 0 \notin Ids
    BY DEF Ids
  <2>3. \A d \in RowsOf(t) : docs[d].fp # sync[s].fp
    BY <1>0, <1>1, <2>1, <2>2 DEF Taken, RowsOf
  <2> QED
    BY <1>0, <1>1, <2>3 DEF LoneInv, Creating
<1>4. ASSUME NEW u \in Teams \ twins' PROVE Sole(u)'
  <2>1. u \in Teams /\ u \notin twins
    BY <1>1, <1>4
  <2>2. CASE u = t
    BY <1>2, <1>3, <2>1, <2>2 DEF Sole
  <2>3. CASE u # t
    BY <1>2, <2>1, <2>3 DEF LoneInv, Sole
  <2> QED
    BY <2>2, <2>3
<1>5. Own(s)' /\ Creating(s)'
  BY <1>1 DEF Own, Creating, Looking
<1>6. ASSUME NEW o \in Syncers \ {s} PROVE Own(o)'
  <2>1. sync'[o] = sync[o] /\ sync[o].doc # n
    BY <1>1 DEF Held
  <2> QED
    BY <1>1, <2>1 DEF LoneInv, Own, Live
<1>7. ASSUME NEW o \in Syncers \ {s} PROVE Creating(o)'
  <2>0. PICK u \in Teams : u = sync[o].team
    BY PassFields
  <2> SUFFICES ASSUME sync[o].pc = "create", u \notin twins', NEW e \in RowsOf(u)'
               PROVE  docs'[e].fp = sync[o].fp
    BY <1>1, <2>0 DEF Creating, RowsOf, Live
  <2>1. u \notin twins
    BY <1>1
  <2>2. CASE e # n
    <3>1. e \in Ids /\ docs'[e] = docs[e] /\ e \in RowsOf(u)
      BY <1>1, <2>2 DEF RowsOf, Live
    <3> QED
      BY <2>0, <2>1, <3>1 DEF LoneInv, Creating
  <2>3. CASE e = n
    <3>1. u = t
      BY <1>1, <2>3 DEF RowsOf
    <3>2. sync[o].fp = sync[s].fp
      BY <1>0, <1>1, <2>0, <3>1 DEF Twin
    <3> QED
      BY <1>1, <2>3, <3>2
  <2> QED
    BY <2>2, <2>3
<1> QED
  BY <1>4, <1>5, <1>6, <1>7 DEF LoneInv

LEMMA LoneStep == TypeOK /\ LoneInv /\ [Next]_vars => LoneInv'
<1> SUFFICES ASSUME TypeOK, LoneInv, [Next]_vars PROVE LoneInv'
  OBVIOUS
<1>1. CASE FileChanges \/ FileRemoved \/ UNCHANGED vars
  <2>1. UNCHANGED <<docs, sync, twins>>
    BY <1>1 DEF FileChanges, FileRemoved, vars, past
  <2>2. Shrinks /\ Versioned
    BY <2>1 DEF Shrinks, Versioned
  <2> QED
    BY <2>1, <2>2, QuietLone
<1>2. ASSUME NEW d \in Ids, WorkerStep(d) PROVE LoneInv'
  BY <1>2, WorkerEffects, QuietLone
<1>3. ASSUME NEW a \in Admins, AdminStep(a) PROVE LoneInv'
  BY <1>3, AdminEffects, AdminTwins, QuietLone
<1>4. ASSUME NEW s \in Syncers, SyncStep(s), ~SyncCreate(s), ~SyncSave(s) PROVE LoneInv'
  <2>1. /\ Shrinks /\ Versioned /\ \A o \in Syncers \ {s} : sync'[o] = sync[o]
        /\ sync'[s].pc = "create" => RowsOf(sync[s].team) = {} /\ sync'[s].team = sync[s].team
        /\ sync'[s].pc = "save" => /\ sync'[s].doc \in RowsOf(sync[s].team)
                                   /\ sync'[s].team = sync[s].team
        /\ sync'[s].pc \in Looking =>
             sync'[s].doc = 0 \/ (sync[s].pc \in Looking /\ sync'[s].doc = sync[s].doc)
    BY <1>4, SyncEffects
  <2>2. twins' = twins
    BY <1>4 DEF SyncStep, SyncStart, SyncList, SyncUnstable, SyncFind, SyncRefused,
           SyncEnqueue, SyncManaged, SyncDrop, SyncDropRow, past
  <2>3. ASSUME NEW t \in Teams \ twins' PROVE Sole(t)'
    BY <2>1, <2>2, <2>3, StillSole
  <2>4. ASSUME NEW o \in Syncers \ {s} PROVE Own(o)' /\ Creating(o)'
    BY <2>1, <2>2, <2>4, StillLone
  <2>5. Own(s)'
    BY <2>1 DEF LoneInv, Own, Looking, Shrinks, Live, RowsOf
  <2>6. Creating(s)'
    <3> SUFFICES ASSUME sync'[s].pc = "create"
                 PROVE  \A d \in Ids : ~(docs'[d].st # "GONE" /\ docs'[d].team = sync'[s].team)
      BY DEF Creating, RowsOf, Live
    <3> PICK t : t = sync[s].team
      OBVIOUS
    <3>1. sync'[s].team = t /\ RowsOf(t)' = {}
      BY <2>1, ShrinksRows
    <3> QED
      BY <3>1 DEF RowsOf, Live
  <2> QED
    BY <2>3, <2>4, <2>5, <2>6 DEF LoneInv
<1> QED
  BY <1>1, <1>2, <1>3, <1>4, SaveLone, CreateLone DEF Next

\* Whatever passes, runs and requests do, a team has one row of the path at most: passes of
\* the team may overlap, and look for the row and create it in two steps (team_sync.py:96),
\* but the unique fingerprint refuses the second row of one version.  The history excepts
\* the teams one of whose passes wrote a version while another, which had found no row, was
\* about to create that of a different one.
THEOREM OneRowEach == Spec => []OneRow
<1>1. Init => LoneInv
  <2> SUFFICES ASSUME Init PROVE LoneInv
    OBVIOUS
  <2>1. \A d \in Ids : docs[d].st = "GONE"
    BY DEF Init, Blank
  <2>2. \A t : RowsOf(t) = {}
    BY <2>1 DEF RowsOf, Live
  <2>3. \A s \in Syncers : sync[s].pc = "idle" /\ sync[s].doc = 0
    BY DEF Init, IdleSync
  <2> QED
    BY <2>2, <2>3 DEF LoneInv, Sole, Own, Creating
<1>2. LoneInv => OneRow
  <2> SUFFICES ASSUME LoneInv, NEW t \in Teams \ twins PROVE Cardinality(RowsOf(t)) <= 1
    BY DEF OneRow
  <2>1. CASE RowsOf(t) = {}
    BY <2>1, FS_EmptySet
  <2>2. CASE RowsOf(t) # {}
    <3>1. PICK d \in RowsOf(t) : RowsOf(t) = {d}
      BY <2>2 DEF LoneInv, Sole
    <3> QED
      BY <3>1, FS_Singleton
  <2> QED
    BY <2>1, <2>2
<1> QED
  BY <1>1, <1>2, LoneStep, TypeInit, TypeStep, PTL DEF Spec

----------------------------------------------------------------------------
(* What a removal has listed is all there is to remove.                    *)

LiveDocs   == {d \in Ids : Live(d)}
Scope(a)   == IF admin[a].op = "disconnect" THEN RowsOf(admin[a].team) ELSE LiveDocs
Pending(a) == admin[a].todo \cup (IF admin[a].pc = "finalize_row" THEN {admin[a].doc} ELSE {})

DocPcs  == {"team_docs", "team_mark", "team_clean", "team_doc_row"}
TeamPcs == DocPcs \cup {"team_chunks", "team_storage", "drop_team"}

\* No row of what a request removes escapes its list, none is left when the list is done, and
\* a team that is deleted with the storage it owns is the only one with documents of it.
Covered(a) ==
    /\ admin[a].pc \in {"disconnect", "delete_storage"} => admin[a].op = admin[a].pc
    /\ admin[a].pc \in {"finalize", "finalize_row"} => Scope(a) \subseteq Pending(a)
    /\ admin[a].pc \in {"unlink", "drop_storage"} => Scope(a) = {}
    /\ admin[a].pc = "unlink" => admin[a].op = "disconnect"
    /\ admin[a].pc = "drop_storage" => admin[a].op # "disconnect"
    /\ admin[a].pc \in {"team_chunks", "team_storage", "drop_team"} => RowsOf(admin[a].team) = {}
    /\ admin[a].pc = "team_storage" => admin[a].team = Owner
    /\ (admin[a].pc \in TeamPcs /\ admin[a].team = Owner) => LiveDocs \subseteq RowsOf(Owner)

Linked == \A t \in Teams : RowsOf(t) # {} => t \in links

CoverInv == ~interfered => ((\A a \in Admins : Covered(a)) /\ Linked /\ ~cascaded)

LEMMA ShrinksLive ==
    ASSUME Shrinks
    PROVE  /\ \A t : RowsOf(t)' \subseteq RowsOf(t)
           /\ LiveDocs' \subseteq LiveDocs
           /\ LiveDocs \subseteq RowsOf(Owner) => LiveDocs' \subseteq RowsOf(Owner)'
BY DEF Shrinks, RowsOf, Live, LiveDocs

LEMMA CoveredShrinks ==
    ASSUME Shrinks, NEW b \in Admins, Covered(b), admin'[b] = admin[b]
    PROVE  Covered(b)'
<1>1. Scope(b)' \subseteq Scope(b) /\ Pending(b)' = Pending(b)
  BY ShrinksLive DEF Scope, Pending
<1>2. RowsOf(admin[b].team)' \subseteq RowsOf(admin[b].team)
  <2> PICK t : t = admin[b].team
    OBVIOUS
  <2>1. RowsOf(t)' \subseteq RowsOf(t)
    BY ShrinksLive
  <2> QED
    BY <2>1 DEF RowsOf
<1> QED
  BY <1>1, <1>2, ShrinksLive DEF Covered

LEMMA AdminCovered ==
    ASSUME TypeOK, NEW a \in Admins, AdminStep(a), Covered(a), Linked, ~cascaded
    PROVE  Covered(a)' /\ Linked' /\ ~cascaded'
<1> USE DEF TeamPcs, DocPcs
<1>0. Shrinks
  BY AdminEffects
<1>1. /\ \A t : RowsOf(t)' \subseteq RowsOf(t)
      /\ LiveDocs' \subseteq LiveDocs
      /\ LiveDocs \subseteq RowsOf(Owner) => LiveDocs' \subseteq RowsOf(Owner)'
  BY <1>0, ShrinksLive
<1>2. ASSUME links \subseteq links' PROVE Linked'
  BY <1>1, <1>2 DEF Linked
<1>3. ASSUME LiveDocs = {} PROVE Linked'
  <2>1. \A t : RowsOf(t)' = {}
    BY <1>1, <1>3 DEF RowsOf, LiveDocs
  <2> QED
    BY <2>1 DEF Linked
<1>4. ASSUME NEW t \in Teams, RowsOf(t) = {}, links \ {t} \subseteq links' PROVE Linked'
  BY <1>1, <1>4 DEF Linked
<1>5. ASSUME Ends(a) PROVE Covered(a)'
  BY <1>5 DEF Ends, Went, Covered
<1>6. ASSUME NEW pc, NEW doc, NEW D, Went(a, pc, admin[a].op, admin[a].team, doc, D)
      PROVE  /\ Scope(a)' \subseteq Scope(a)
             /\ RowsOf(admin[a].team)' \subseteq RowsOf(admin[a].team)
             /\ Pending(a)' = D \cup (IF pc = "finalize_row" THEN {doc} ELSE {})
             /\ admin'[a].pc = pc /\ admin'[a].op = admin[a].op /\ admin'[a].team = admin[a].team
  <2>1. /\ admin'[a].pc = pc /\ admin'[a].op = admin[a].op /\ admin'[a].team = admin[a].team
        /\ admin'[a].doc = doc /\ admin'[a].todo = D
    BY <1>6 DEF Went
  <2>2. PICK t : t = admin[a].team
    OBVIOUS
  <2>3. RowsOf(t)' \subseteq RowsOf(t)
    BY <1>1
  <2>4. RowsOf(admin[a].team)' \subseteq RowsOf(admin[a].team)
    BY <2>1, <2>2, <2>3 DEF RowsOf
  <2> QED
    BY <1>1, <2>1, <2>4 DEF Scope, Pending
<1>7. CASE AdminStart(a)
  <2>1. PICK op \in AdminOps \ {"none"}, t \in Teams :
           Went(a, op, op, t, admin[a].doc, admin[a].todo)
    BY <1>7, AdminMoves
  <2>2. admin'[a].pc = op /\ admin'[a].op = op
    BY <2>1 DEF Went
  <2>3. Covered(a)'
    BY <2>2 DEF Covered, AdminOps
  <2>4. links' = links /\ cascaded' = cascaded
    BY <1>7 DEF AdminStart, AdminQuiet, rows
  <2> QED
    BY <1>2, <2>3, <2>4
<1>8. CASE Connect(a)
  <2>1. Ends(a) /\ links \subseteq links' /\ cascaded' = cascaded
    BY <1>8, AdminMoves DEF Connect
  <2> QED
    BY <1>2, <1>5, <2>1
<1>9. CASE Disconnect(a)
  <2>1. /\ Lists(a, "finalize", RowsOf(admin[a].team)) /\ admin[a].pc = "disconnect"
        /\ links' = links /\ cascaded' = cascaded /\ docs' = docs
    BY <1>9, AdminMoves DEF Disconnect, AdminQuiet, rows
  <2>2. /\ Scope(a)' \subseteq Scope(a) /\ Pending(a)' = RowsOf(admin[a].team)
        /\ admin'[a].pc = "finalize"
    BY <1>6, <2>1 DEF Lists
  <2>3. Scope(a) = RowsOf(admin[a].team)
    BY <2>1 DEF Covered, Scope
  <2>4. Covered(a)'
    BY <2>2, <2>3 DEF Covered
  <2> QED
    BY <1>2, <2>1, <2>4
<1>10. CASE Unlink(a)
  <2>1. /\ Ends(a) /\ admin[a].pc = "unlink" /\ links' = links \ {admin[a].team}
        /\ cascaded' = cascaded
    BY <1>10, AdminMoves DEF Unlink, AdminQuiet
  <2>2. RowsOf(admin[a].team) = {}
    BY <2>1 DEF Covered, Scope
  <2> QED
    BY <1>4, <1>5, <2>1, <2>2, RequestFields
<1>11. CASE DeleteStorage(a)
  <2>1. /\ links' = links /\ cascaded' = cascaded /\ admin[a].pc = "delete_storage"
    BY <1>11 DEF DeleteStorage, AdminQuiet, rows
  <2>2. CASE Lists(a, "finalize", {d \in Ids : Live(d)})
    <3>1. Lists(a, "finalize", LiveDocs)
      BY <2>2 DEF LiveDocs
    <3>2. /\ Scope(a)' \subseteq Scope(a) /\ Pending(a)' = LiveDocs /\ admin'[a].pc = "finalize"
      BY <1>6, <3>1 DEF Lists
    <3>3. Scope(a) = LiveDocs
      BY <2>1 DEF Covered, Scope
    <3>4. Covered(a)'
      BY <3>2, <3>3 DEF Covered
    <3> QED
      BY <1>2, <2>1, <3>4
  <2> QED
    BY <1>2, <1>5, <1>11, <2>1, <2>2, AdminMoves
<1>12. CASE Finalize(a)
  <2>1. links' = links /\ cascaded' = cascaded /\ admin[a].pc = "finalize"
    BY <1>12 DEF Finalize, AdminQuiet, rows
  <2>2. Scope(a) \subseteq admin[a].todo
    BY <2>1 DEF Covered, Pending
  <2>3. CASE \E d \in admin[a].todo : Takes(a, "finalize_row", d) /\ docs' = Chunkless(d)
    <3>1. PICK d \in admin[a].todo : Takes(a, "finalize_row", d)
      BY <2>3
    <3>2. /\ Scope(a)' \subseteq Scope(a) /\ admin'[a].pc = "finalize_row"
          /\ Pending(a)' = (admin[a].todo \ {d}) \cup
                           (IF "finalize_row" = "finalize_row" THEN {d} ELSE {})
      BY <1>6, <3>1 DEF Takes
    <3>3. Scope(a)' \subseteq Pending(a)'
      BY <2>2, <3>2
    <3>4. Covered(a)'
      BY <3>2, <3>3 DEF Covered
    <3> QED
      BY <1>2, <2>1, <3>4
  <2>4. CASE /\ admin[a].todo = {}
             /\ Stays(a, IF admin[a].op = "disconnect" THEN "unlink" ELSE "drop_storage")
    <3> DEFINE pc == IF admin[a].op = "disconnect" THEN "unlink" ELSE "drop_storage"
    <3>1. Scope(a)' \subseteq Scope(a) /\ admin'[a].pc = pc /\ admin'[a].op = admin[a].op
      BY <1>6, <2>4 DEF Stays
    <3>2. Covered(a)'
      BY <2>2, <2>4, <3>1 DEF Covered
    <3> QED
      BY <1>2, <2>1, <3>2
  <2> QED
    BY <1>12, <2>3, <2>4, AdminMoves
<1>13. CASE FinalizeRow(a)
  <2>1. /\ links' = links /\ cascaded' = cascaded /\ admin[a].pc = "finalize_row"
        /\ docs' = Rowless({admin[a].doc}) /\ Stays(a, "finalize")
    BY <1>13, AdminMoves DEF FinalizeRow, AdminQuiet, rows
  <2>2. Scope(a)' \subseteq Scope(a) /\ admin'[a].pc = "finalize" /\ Pending(a)' = admin[a].todo
    BY <1>6, <2>1 DEF Stays
  <2>3. Scope(a) \subseteq admin[a].todo \cup {admin[a].doc}
    BY <2>1 DEF Covered, Pending
  <2>4. \A d \in Ids : d = admin[a].doc => docs'[d].st = "GONE"
    BY <2>1, RowlessFacts
  <2>5. \A d \in Scope(a)' : d \in Ids /\ docs'[d].st # "GONE"
    BY DEF Scope, RowsOf, LiveDocs, Live
  <2>6. Scope(a)' \subseteq Pending(a)'
    BY <2>2, <2>3, <2>4, <2>5
  <2>7. Covered(a)'
    BY <2>2, <2>6 DEF Covered
  <2> QED
    BY <1>2, <2>1, <2>7
<1>14. CASE DropStorage(a)
  <2>1. /\ Ends(a) /\ admin[a].pc = "drop_storage"
        /\ cascaded' = (cascaded \/ \E d \in Ids : Live(d))
    BY <1>14, AdminMoves DEF DropStorage, CascadeStorage
  <2>2. LiveDocs = {}
    BY <2>1 DEF Covered, Scope
  <2>3. ~ \E d \in Ids : Live(d)
    BY <2>2 DEF LiveDocs
  <2> QED
    BY <1>3, <1>5, <2>1, <2>2, <2>3
<1>15. CASE DeleteTeam(a)
  <2>1. links' = links /\ cascaded' = cascaded
    BY <1>15 DEF DeleteTeam, AdminQuiet, rows
  <2>2. CASE Ends(a)
    BY <1>2, <1>5, <2>1, <2>2
  <2>3. CASE ~Ends(a)
    <3>1. PICK D \in SUBSET Ids : Lists(a, "team_docs", D)
      BY <1>15, <2>3, AdminMoves
    <3>2. admin'[a].pc = "team_docs" /\ admin'[a].team = admin[a].team
      BY <1>6, <3>1 DEF Lists
    <3>3. admin[a].team = Owner => links \subseteq {Owner}
      <4>1. AdminGoto(a, "idle") => Ends(a)
        <5> SUFFICES ASSUME AdminGoto(a, "idle") PROVE Ends(a)
          OBVIOUS
        <5>1. Goes(a, "idle", "none", Owner, 0, {})
          BY AdminGotoGoes DEF AdminPcs
        <5> QED
          BY <5>1, GoesWent DEF Ends
      <4> QED
        BY <1>15, <2>3, <4>1 DEF DeleteTeam
    <3>4. admin[a].team = Owner => LiveDocs \subseteq RowsOf(Owner)
      <4> SUFFICES ASSUME links \subseteq {Owner}, NEW d \in LiveDocs PROVE d \in RowsOf(Owner)
        BY <3>3
      <4>1. d \in Ids /\ Live(d) /\ docs[d].team \in Teams
        BY DocFields DEF LiveDocs
      <4>2. d \in RowsOf(docs[d].team)
        BY <4>1 DEF RowsOf
      <4> QED
        BY <4>1, <4>2 DEF Linked
    <3>5. Covered(a)'
      BY <1>1, <3>2, <3>4 DEF Covered
    <3> QED
      BY <1>2, <2>1, <3>5
  <2> QED
    BY <2>2, <2>3
<1>16. CASE TeamDocument(a) \/ TeamMark(a) \/ TeamClean(a) \/ TeamDocumentRow(a)
  <2>1. /\ links' = links /\ cascaded' = cascaded /\ admin[a].pc \in DocPcs
    BY <1>16 DEF TeamDocument, TeamMark, TeamClean, TeamDocumentRow, AdminQuiet, rows
  <2>2. \/ Ends(a)
        \/ \E pc \in DocPcs, doc \in {0} \cup Ids, D \in SUBSET Ids :
              Went(a, pc, admin[a].op, admin[a].team, doc, D)
    <3>1. /\ admin[a].todo \in SUBSET Ids /\ admin[a].doc \in {0} \cup Ids
          /\ \A d \in admin[a].todo : admin[a].todo \ {d} \in SUBSET Ids
      BY RequestFields
    <3>2. CASE TeamMark(a) \/ TeamClean(a) \/ TeamDocumentRow(a)
      <4>1. PICK pc \in DocPcs : Stays(a, pc)
        BY <3>2, AdminMoves
      <4> QED
        BY <3>1, <4>1 DEF Stays
    <3>3. CASE TeamDocument(a)
      <4>1. PICK d \in admin[a].todo : Ends(a) \/ Takes(a, "team_mark", d)
        BY <3>3, AdminMoves
      <4> QED
        BY <3>1, <4>1 DEF Takes
    <3> QED
      BY <1>16, <3>2, <3>3
  <2>3. CASE \E pc \in DocPcs, doc \in {0} \cup Ids, D \in SUBSET Ids :
                Went(a, pc, admin[a].op, admin[a].team, doc, D)
    <3>1. admin'[a].pc \in DocPcs /\ admin'[a].team = admin[a].team
      BY <1>6, <2>3
    <3>2. Covered(a)'
      BY <1>1, <2>1, <3>1 DEF Covered
    <3> QED
      BY <1>2, <2>1, <3>2
  <2> QED
    BY <1>2, <1>5, <2>1, <2>2, <2>3
<1>17. CASE TeamCheck(a)
  <2>1. links' = links /\ cascaded' = cascaded /\ admin[a].pc = "team_docs"
    BY <1>17 DEF TeamCheck, AdminQuiet, rows
  <2>2. CASE RowsOf(admin[a].team) = {} /\ Stays(a, "team_chunks")
    <3>1. /\ RowsOf(admin[a].team)' \subseteq RowsOf(admin[a].team)
          /\ admin'[a].pc = "team_chunks" /\ admin'[a].team = admin[a].team
      BY <1>6, <2>2 DEF Stays
    <3>2. Covered(a)'
      BY <1>1, <2>1, <2>2, <3>1 DEF Covered
    <3> QED
      BY <1>2, <2>1, <3>2
  <2> QED
    BY <1>2, <1>5, <1>17, <2>1, <2>2, AdminMoves
<1>18. CASE TeamChunks(a)
  <2>1. links' = links /\ cascaded' = cascaded /\ admin[a].pc = "team_chunks"
    BY <1>18 DEF TeamChunks, AdminQuiet, rows
  <2> DEFINE pc == IF admin[a].team = Owner THEN "team_storage" ELSE "drop_team"
  <2>2. Stays(a, pc)
    BY <1>18, AdminMoves
  <2>3. /\ RowsOf(admin[a].team)' \subseteq RowsOf(admin[a].team)
        /\ admin'[a].pc = pc /\ admin'[a].team = admin[a].team
    BY <1>6, <2>2 DEF Stays
  <2>4. Covered(a)'
    BY <1>1, <2>1, <2>3 DEF Covered
  <2> QED
    BY <1>2, <2>1, <2>4
<1>19. CASE TeamStorage(a)
  <2>1. /\ admin[a].pc = "team_storage" /\ Stays(a, "drop_team")
        /\ cascaded' = (cascaded \/ \E d \in Ids : Live(d))
    BY <1>19, AdminMoves DEF TeamStorage, CascadeStorage
  <2>2. /\ RowsOf(admin[a].team)' \subseteq RowsOf(admin[a].team)
        /\ admin'[a].pc = "drop_team" /\ admin'[a].team = admin[a].team
    BY <1>6, <2>1 DEF Stays
  <2>3. admin[a].team = Owner /\ RowsOf(Owner) = {} /\ LiveDocs = {}
    BY <2>1 DEF Covered
  <2>4. ~ \E d \in Ids : Live(d)
    BY <2>3 DEF LiveDocs
  <2>5. Covered(a)'
    BY <1>1, <2>1, <2>2, <2>3 DEF Covered
  <2> QED
    BY <1>3, <2>1, <2>3, <2>4, <2>5
<1>20. CASE DropTeam(a)
  <2>1. /\ Ends(a) /\ admin[a].pc = "drop_team" /\ links' = links \ {admin[a].team}
        /\ cascaded' = (cascaded \/ RowsOf(admin[a].team) # {})
    BY <1>20, AdminMoves DEF DropTeam
  <2>2. RowsOf(admin[a].team) = {}
    BY <2>1 DEF Covered
  <2> QED
    BY <1>4, <1>5, <2>1, <2>2, RequestFields
<1> QED
  BY <1>7, <1>8, <1>9, <1>10, <1>11, <1>12, <1>13, <1>14, <1>15, <1>16, <1>17, <1>18, <1>19, <1>20
  DEF AdminStep

LEMMA CoverStep == TypeOK /\ CoverInv /\ [Next]_vars => CoverInv'
<1> SUFFICES ASSUME TypeOK, CoverInv, [Next]_vars, ~interfered'
             PROVE  (\A b \in Admins : Covered(b)') /\ Linked' /\ ~cascaded'
  BY DEF CoverInv
<1>1. CASE FileChanges \/ FileRemoved \/ UNCHANGED vars
  <2>1. UNCHANGED <<docs, admin, links, interfered, cascaded>>
    BY <1>1 DEF FileChanges, FileRemoved, vars, rows, past
  <2>2. Shrinks
    BY <2>1 DEF Shrinks
  <2>3. \A b \in Admins : Covered(b)'
    BY <2>1, <2>2, CoveredShrinks DEF CoverInv
  <2> QED
    BY <2>1, <2>2, <2>3, ShrinksLive DEF CoverInv, Linked
<1>2. ASSUME NEW d \in Ids, WorkerStep(d)
      PROVE  (\A b \in Admins : Covered(b)') /\ Linked' /\ ~cascaded'
  <2>1. UNCHANGED <<admin, links, interfered, cascaded>> /\ Shrinks
    BY <1>2, WorkerEffects DEF rows
  <2>2. \A b \in Admins : Covered(b)'
    BY <2>1, CoveredShrinks DEF CoverInv
  <2> QED
    BY <2>1, <2>2, ShrinksLive DEF CoverInv, Linked
<1>3. ASSUME NEW s \in Syncers, SyncStep(s)
      PROVE  (\A b \in Admins : Covered(b)') /\ Linked' /\ ~cascaded'
  <2>1. /\ UNCHANGED <<admin, links, cascaded>>
        /\ interfered' = interfered \/ SyncCreate(s)
    BY <1>3 DEF SyncStep, SyncOnly, SyncStart, SyncList, SyncUnstable, SyncFind, SyncCreate,
           SyncSave, SyncRefused, SyncEnqueue, SyncManaged, SyncDrop, SyncDropRow, rows, past
  <2>2. CASE ~SyncCreate(s)
    <3>1. Shrinks
      BY <1>3, <2>2, SyncEffects
    <3>2. \A b \in Admins : Covered(b)'
      BY <2>1, <2>2, <3>1, CoveredShrinks DEF CoverInv
    <3> QED
      BY <2>1, <2>2, <3>1, <3>2, ShrinksLive DEF CoverInv, Linked
  <2>3. CASE SyncCreate(s)
    <3>1. ~interfered /\ ~Removing /\ sync[s].team \in links
      BY <2>3 DEF SyncCreate
    <3>2. \A b \in Admins : admin[b].pc \in {"idle", "connect"}
      BY <3>1 DEF Removing
    <3>3. \A b \in Admins : Covered(b)'
      BY <2>1, <3>2 DEF Covered, TeamPcs, DocPcs
    <3>4. PICK n \in Ids, t \in Teams : n = NewId /\ t = sync[s].team
      BY <2>3, CreateEffects, PassFields
    <3>5. /\ \A e \in Ids \ {n} : docs'[e] = docs[e]
          /\ docs'[n].team = t
      BY <2>3, <3>4, CreateEffects
    <3>6. \A u \in Teams : u # t => RowsOf(u)' \subseteq RowsOf(u)
      BY <3>5 DEF RowsOf, Live
    <3>7. Linked'
      BY <2>1, <3>1, <3>4, <3>6 DEF CoverInv, Linked
    <3> QED
      BY <2>1, <3>1, <3>3, <3>7 DEF CoverInv
  <2> QED
    BY <2>2, <2>3
<1>4. ASSUME NEW a \in Admins, AdminStep(a)
      PROVE  (\A b \in Admins : Covered(b)') /\ Linked' /\ ~cascaded'
  <2>1. interfered' = interfered \/ interfered' = (interfered \/ Removing)
    BY <1>4 DEF AdminStep, AdminOnly, AdminQuiet, AdminStart, Connect, Disconnect, Unlink,
           DeleteStorage, Finalize, FinalizeRow, DropStorage, DeleteTeam, TeamDocument,
           TeamMark, TeamClean, TeamDocumentRow, TeamCheck, TeamChunks, TeamStorage, DropTeam
  <2>2. (\A b \in Admins : Covered(b)) /\ Linked /\ ~cascaded
    BY <2>1 DEF CoverInv
  <2>3. Covered(a)' /\ Linked' /\ ~cascaded'
    BY <1>4, <2>2, AdminCovered
  <2>4. Shrinks /\ \A b \in Admins \ {a} : admin'[b] = admin[b]
    BY <1>4, AdminEffects
  <2>5. \A b \in Admins \ {a} : Covered(b)'
    BY <2>2, <2>4, CoveredShrinks
  <2> QED
    BY <2>3, <2>5
<1> QED
  BY <1>1, <1>2, <1>3, <1>4 DEF Next

LEMMA CoverInit == Init => CoverInv
<1> SUFFICES ASSUME Init PROVE CoverInv
  OBVIOUS
<1>1. \A d \in Ids : docs[d].st = "GONE"
  BY DEF Init, Blank
<1>2. \A t : RowsOf(t) = {}
  BY <1>1 DEF RowsOf, Live
<1>3. \A a \in Admins : admin[a].pc = "idle"
  BY DEF Init, IdleAdmin
<1> QED
  BY <1>2, <1>3 DEF CoverInv, Covered, Linked, Init, TeamPcs, DocPcs

LEMMA Covers == Spec => [](TypeOK /\ CoverInv)
<1> QED
  BY TypeInit, TypeStep, CoverInit, CoverStep, PTL DEF Spec

\* Once a team is disconnected, nothing of the storage is left for its members to find: the
\* documents go before the link (storage.py:105), in whatever order passes, runs and other
\* requests step in; only a row created, or a connection made, during a removal is excepted.
THEOREM LinkedRows == Spec => []LinkedOnly
<1>1. CoverInv => LinkedOnly
  BY DEF CoverInv, Linked, LinkedOnly
<1> QED
  BY <1>1, Covers, PTL

\* Nobody leaves a document row to a foreign key: when the storage or the team is deleted, no
\* document is left of all that the request had listed (storage.py:120, team.py:255).
THEOREM CascadesNever == Spec => []NoCascade
<1>1. CoverInv => NoCascade
  BY DEF CoverInv, NoCascade
<1> QED
  BY <1>1, Covers, PTL
=============================================================================
