-------------------------------- MODULE Edits --------------------------------
(***************************************************************************)
(* What the commands of the document graph do to a canvas: how a draft is  *)
(* grounded and normalised, and the operations on the tree of sections and *)
(* blocks.  Several tabs edit one canvas; a tab aims by the block ids of   *)
(* the canvas it was last sent.  A command is one step here: how the steps *)
(* of two commands interleave, undo, redo and finalizing are the Canvas    *)
(* module's.  The text of a block is the set of placeholders in it, and a  *)
(* party is its name.                                                      *)
(***************************************************************************)
EXTENDS Naturals, Sequences, FiniteSets, SequencesExt

CONSTANTS
    Tabs,
    Documents,   \* documents of the vector index
    Templates,   \* templates of the teams of the turn
    TeamFiles,   \* documents of the teams of the turn
    Shapes,      \* trees the model may write: sequences of sections of blocks
    Labels,      \* labels of placeholders
    Parties,     \* labels of the preset's parties
    Names,       \* names of parties
    Blank,       \* no name
    MaxCommands, \* bound: commands after the first draft
    MaxBatch     \* bound: operations of a batch

ASSUME DocumentsAssumption == Templates \subseteq TeamFiles /\ TeamFiles \subseteq Documents
ASSUME BoundAssumption     == MaxCommands \in Nat /\ MaxBatch \in Nat /\ Blank \notin Names
ASSUME ShapesAssumption    == Shapes \subseteq Seq(Seq(SUBSET Labels))

VARIABLES
    stage,    \* of the drafting turn
    strict,   \* anchor_only: no retrieval
    sources,  \* documents that ground the draft
    doc,      \* the payload of the head version
    view,     \* per tab: the payload it was last sent
    commands, \* commands so far
    spent,    \* history: block ids ever given
    reused,   \* history: ids given again
    doubled,  \* history: an order has listed an id twice
    missed,   \* history: ids that named another block than the one the tab saw
    lost,     \* history: blocks that vanished without being deleted
    entered,  \* history: the names the user has given
    loose     \* history: labels that an edit has written or may have removed

history == <<spent, reused, doubled, missed, lost, entered, loose>>
vars    == <<stage, strict, sources, doc, view, commands, history>>

Stages == {"new", "choice", "ground", "draft", "edit"}

NoDoc == [secs |-> <<>>, missing |-> {}, parties |-> [p \in Parties |-> Blank]]

Init ==
    /\ stage = "new" /\ strict \in BOOLEAN /\ sources = {}
    /\ doc = NoDoc /\ view = [t \in Tabs |-> NoDoc] /\ commands = 0
    /\ spent = {} /\ reused = {} /\ doubled = FALSE /\ missed = {} /\ lost = {}
    /\ entered = [p \in Parties |-> Blank] /\ loose = {}

----------------------------------------------------------------------------
(* The tree.                                                               *)

Places(p)   == UNION {{<<s, b>> : b \in DOMAIN p.secs[s]} : s \in DOMAIN p.secs}
Block(p, x) == p.secs[x[1]][x[2]]
Ids(p)      == {Block(p, x).id : x \in Places(p)}
Born(p)     == {Block(p, x).born : x \in Places(p)}
Tokens(p)   == UNION {Block(p, x).tokens : x \in Places(p)}
Before(x, y) == x[1] < y[1] \/ (x[1] = y[1] /\ x[2] <= y[2])

\* find_block: the first block with the id.
Find(p, id) ==
    LET hits == {x \in Places(p) : Block(p, x).id = id}
    IN CHOOSE x \in hits : \A y \in hits : Before(x, y)

\* assign_ids.
AssignIds(shape, draft) ==
    [s \in DOMAIN shape |-> [b \in DOMAIN shape[s] |->
        [id |-> <<s, b>>, born |-> <<draft, s, b>>, tokens |-> shape[s][b]]]]

\* Mutant of NextId: the length of the section plus one, whether used or not.
NextIdLength(p, s) == <<s, Len(p.secs[s]) + 1>>

\* _next_block_id: from the length of the section plus one, the first that is not used.
NextId(p, s) ==
    LET free == {n \in Len(p.secs[s]) + 1 .. 2 * Len(p.secs[s]) + 1 :
                    \A b \in DOMAIN p.secs[s] : p.secs[s][b].id # <<s, n>>}
    IN <<s, CHOOSE n \in free : \A m \in free : n <= m>>

WithSection(p, s, blocks) == [p EXCEPT !.secs[s] = blocks]

SetText(p, id, tokens) == [p EXCEPT !.secs[Find(p, id)[1]][Find(p, id)[2]].tokens = tokens]

\* add_block: after the block that is named, at the end of the section that is named,
\* or at the end of the last section.
AddSection(p, op) ==
    IF op.after \in Ids(p) THEN Find(p, op.after)[1]
    ELSE IF op.sec \in DOMAIN p.secs THEN op.sec ELSE Len(p.secs)
AddBlock(p, op, born) ==
    LET s  == AddSection(p, op)
        at == IF op.after \in Ids(p) THEN Find(p, op.after)[2] + 1 ELSE Len(p.secs[s]) + 1
    IN WithSection(p, s, InsertAt(p.secs[s], at,
                        [id |-> NextId(p, s), born |-> born, tokens |-> op.tokens]))

\* Mutant of DeleteBlock: the blocks of the section are numbered anew.
DeleteBlockRenumber(p, id) ==
    LET s    == Find(p, id)[1]
        kept == RemoveAt(p.secs[s], Find(p, id)[2])
    IN WithSection(p, s, [b \in DOMAIN kept |-> [kept[b] EXCEPT !.id = <<s, b>>]])

DeleteBlock(p, id) ==
    WithSection(p, Find(p, id)[1], RemoveAt(p.secs[Find(p, id)[1]], Find(p, id)[2]))

\* The members of a sequence at the positions in at, in their order.
Kept(seq, at) ==
    LET upto[n \in 0 .. Len(seq)] ==
          IF n = 0 THEN <<>>
          ELSE IF n \in at THEN Append(upto[n - 1], seq[n]) ELSE upto[n - 1]
    IN upto[Len(seq)]

\* reorder_blocks: the section that is named, or the one of the first id; the listed
\* blocks, then the others as they were.
ReorderSection(p, op) ==
    IF op.sec \in DOMAIN p.secs THEN {op.sec}
    ELSE IF op.sec = 0 /\ op.order # <<>> /\ op.order[1] \in Ids(p)
         THEN {Find(p, op.order[1])[1]} ELSE {}
Reorder(p, op) ==
    LET s      == CHOOSE n \in ReorderSection(p, op) : TRUE
        old    == p.secs[s]
        has(i) == \E b \in DOMAIN old : old[b].id = i
        block(i) == old[CHOOSE b \in DOMAIN old :
                          old[b].id = i /\ \A d \in DOMAIN old : old[d].id = i => d <= b]
        listed == Kept(op.order, {n \in DOMAIN op.order : has(op.order[n])})
        rest   == Kept(old, {b \in DOMAIN old : old[b].id \notin Range(op.order)})
    IN WithSection(p, s, [n \in DOMAIN listed |-> block(listed[n])] \o rest)

\* Mutant of FillTerms: the value goes to the first block that asks for it.
FillFirst(p, labels) ==
    LET hits  == {x \in Places(p) : Block(p, x).tokens \cap labels # {}}
        first == {x \in hits : \A y \in hits : Before(x, y)}
    IN [p EXCEPT !.missing = @ \ labels,
                 !.secs = [s \in DOMAIN p.secs |-> [b \in DOMAIN p.secs[s] |->
                     IF <<s, b>> \in first THEN [p.secs[s][b] EXCEPT !.tokens = @ \ labels]
                     ELSE p.secs[s][b]]]]

\* fill_terms: everywhere, and off the list.
FillTerms(p, labels) ==
    [p EXCEPT !.missing = @ \ labels,
              !.secs = [s \in DOMAIN p.secs |-> [b \in DOMAIN p.secs[s] |->
                  [p.secs[s][b] EXCEPT !.tokens = @ \ labels]]]]

----------------------------------------------------------------------------
(* Commands (_apply_one_op, _apply_batch).                                 *)

\* An operation that names no block or section of the payload changes nothing and is
\* reported; the others of its batch still land.
Fits(p, op) ==
    CASE op.op \in {"edit", "delete"} -> op.id \in Ids(p)
      [] op.op = "add"     -> p.secs # <<>>
      [] op.op = "reorder" -> ReorderSection(p, op) # {}
      [] OTHER             -> TRUE

Apply(p, op, born) ==
    IF ~Fits(p, op) THEN p ELSE
    CASE op.op = "edit"    -> SetText(p, op.id, op.tokens)
      [] op.op = "add"     -> AddBlock(p, op, born)
      [] op.op = "delete"  -> DeleteBlock(p, op.id)
      [] op.op = "reorder" -> Reorder(p, op)
      [] op.op = "terms"   -> FillTerms(p, op.labels)
      [] op.op = "parties" -> [p EXCEPT !.parties[op.party] = op.name]

\* What a client can ask for: it names blocks by the ids it sees.  A feedback instead
\* of a text is a call of the model, whose text may be any.  The model's batches hold
\* operations on blocks only, and no reorder.
EditOps(v)    == [op : {"edit"}, id : Ids(v), tokens : SUBSET Labels]
AddOps(v)     == [op : {"add"}, after : Ids(v) \cup {<<>>}, sec : {0}, tokens : SUBSET Labels]
                 \cup [op : {"add"}, after : {<<>>}, sec : DOMAIN v.secs, tokens : {{}}]
DeleteOps(v)  == [op : {"delete"}, id : Ids(v)]
ReorderOps(v) == [op : {"reorder"}, sec : {0} \cup DOMAIN v.secs,
                  order : {<<i, j>> : i, j \in Ids(v)}]
FillOps       == [op : {"terms"}, labels : SUBSET Labels \ {{}}]
                 \cup [op : {"parties"}, party : Parties, name : Names \cup {Blank}]
BlockOps(v)   == DeleteOps(v) \cup {o \in EditOps(v) \cup AddOps(v) : o.tokens = {}}
Batches(v) ==
    {<<o>> : o \in EditOps(v) \cup AddOps(v) \cup DeleteOps(v) \cup ReorderOps(v) \cup FillOps}
    \cup UNION {[1 .. n -> BlockOps(v)] : n \in 2 .. MaxBatch}

\* The payload before each operation of a batch, and after the last one.
Payloads(p, ops) ==
    LET f[n \in 0 .. Len(ops)] ==
          IF n = 0 THEN p ELSE Apply(f[n - 1], ops[n], <<0, commands + 1, n>>)
    IN f

Aims(op)      == IF op.op \in {"edit", "delete"} THEN {op.id}
                 ELSE IF op.op = "add" THEN {op.after} ELSE {}
BornAs(p, id) == {Block(p, x).born : x \in {y \in Places(p) : Block(p, y).id = id}}
\* The ids an operation names that are those of other blocks than the ones in view.
Missed(p, op, v) == {i \in Aims(op) \cap Ids(p) : BornAs(p, i) \cap BornAs(v, i) = {}}

\* Labels that the text of an edit brings in or takes away.
Touched(p, op) ==
    CASE op.op = "add"    -> op.tokens
      [] op.op = "edit"   -> op.tokens \cup
                             IF Fits(p, op) THEN Block(p, Find(p, op.id)).tokens ELSE {}
      [] op.op = "delete" -> IF Fits(p, op) THEN Block(p, Find(p, op.id)).tokens ELSE {}
      [] OTHER            -> {}

Deleted(p, op) == IF op.op = "delete" /\ Fits(p, op) THEN {Block(p, Find(p, op.id)).born} ELSE {}

Command(t) ==
    /\ stage = "edit" /\ view[t] # NoDoc /\ commands < MaxCommands
    /\ \E ops \in Batches(view[t]) :
         LET f  == Payloads(doc, ops)
             at == DOMAIN ops
             n  == Len(ops)
             given == UNION {Ids(f[i]) \ Ids(f[i - 1]) : i \in at}
         IN /\ doc' = f[n]
            /\ view' = [view EXCEPT ![t] = f[n]]
            /\ spent' = spent \cup given
            /\ reused' = reused \cup
                 UNION {(Ids(f[i]) \ Ids(f[i - 1])) \cap (spent \cup UNION {Ids(f[j]) : j \in 0 .. i - 1}) : i \in at}
            /\ doubled' = (doubled \/ \E i \in at : ops[i].op = "reorder" /\ ~IsInjective(ops[i].order))
            /\ missed' = missed \cup UNION {Missed(f[i - 1], ops[i], view[t]) : i \in at}
            /\ lost' = lost \cup UNION {Born(f[i - 1]) \ (Born(f[i]) \cup Deleted(f[i - 1], ops[i])) : i \in at}
            /\ loose' = loose \cup UNION {Touched(f[i - 1], ops[i]) : i \in at}
            /\ entered' = IF ops[1].op = "parties"
                          THEN [entered EXCEPT ![ops[1].party] = ops[1].name] ELSE entered
    /\ commands' = commands + 1
    /\ UNCHANGED <<stage, strict, sources>>

----------------------------------------------------------------------------
(* Drafts.                                                                 *)

\* bind_reference: a clear winner is bound, several plausible templates are a question;
\* a preset without a family of standards has none.
Bind ==
    /\ stage = "new"
    /\ \/ Cardinality(Templates) > 1 /\ stage' = "choice" /\ UNCHANGED sources
       \/ /\ stage' = "ground"
          /\ \E d \in {{}} \cup {{x} : x \in Templates} : sources' = d
    /\ UNCHANGED <<strict, doc, view, commands, history>>

\* Mutant of Choose: the answer is taken as it comes.
ChooseAny(ids) == ids

\* resolve_anchor: only the candidates that were offered can be chosen.
Choose(ids) == ids \cap Templates

\* What a client may answer: any documents, with or without retrieval.
AnchorAnswers == [ids : SUBSET Documents, only : BOOLEAN]

ResolveAnchor ==
    /\ stage = "choice"
    /\ \E answer \in AnchorAnswers :
         /\ sources' = Choose(answer.ids)
         /\ strict' = (strict \/ answer.only)
    /\ stage' = "ground"
    /\ UNCHANGED <<doc, view, commands, history>>

\* The ground node: retrieval among the teams' documents, unless only anchors count.
Ground ==
    /\ stage = "ground"
    /\ \E hits \in IF strict THEN {{}} ELSE SUBSET TeamFiles : sources' = sources \cup hits
    /\ stage' = "draft"
    /\ UNCHANGED <<strict, doc, view, commands, history>>

\* Mutant of PartiesOf: what the model writes wins over what the user has entered.
PartiesOfModel(guess, prior) ==
    [p \in Parties |-> IF guess[p] # Blank THEN guess[p] ELSE prior[p]]

\* The preset's parties, the names the model has found, then those that are filled in.
PartiesOf(guess, prior) ==
    [p \in Parties |-> IF prior[p] # Blank THEN prior[p] ELSE guess[p]]

\* generate_canvas_tree.
Generated(shape, guess, prior) ==
    LET tree == [secs |-> AssignIds(shape, commands + 1), missing |-> {},
                 parties |-> PartiesOf(guess, prior)]
    IN [tree EXCEPT !.missing = Tokens(tree)]

\* The sources become the canvas's references; no command below changes them.
Draft(t) ==
    /\ stage = "draft"
    /\ \E shape \in Shapes, guess \in [Parties -> Names \cup {Blank}] :
         /\ doc' = Generated(shape, guess, NoDoc.parties)
         /\ view' = [view EXCEPT ![t] = doc']
         /\ spent' = Ids(doc')
    /\ stage' = "edit" /\ strict' = FALSE /\ sources' = {}
    /\ UNCHANGED <<commands, reused, doubled, missed, lost, entered, loose>>

\* regenerate: the tree is replaced; the ids start again.
Regenerate(t) ==
    /\ stage = "edit" /\ view[t] # NoDoc /\ commands < MaxCommands
    /\ commands' = commands + 1
    /\ \E shape \in Shapes, guess \in [Parties -> Names \cup {Blank}] :
         doc' = Generated(shape, guess, doc.parties)
    /\ view' = [view EXCEPT ![t] = doc']
    /\ spent' = spent \cup Ids(doc')
    /\ reused' = reused \cup (Ids(doc') \cap spent)
    /\ doubled' = FALSE /\ loose' = {}
    /\ UNCHANGED <<stage, strict, sources, missed, lost, entered>>

\* load_canvas in another tab.
Open(t) ==
    /\ stage = "edit"
    /\ view[t] # doc
    /\ view' = [view EXCEPT ![t] = doc]
    /\ UNCHANGED <<stage, strict, sources, doc, commands, history>>

Next == \/ Bind \/ ResolveAnchor \/ Ground
        \/ \E t \in Tabs : Draft(t) \/ Open(t) \/ Command(t) \/ Regenerate(t)

Spec == Init /\ [][Next]_vars

----------------------------------------------------------------------------
\* Block ids name blocks: no two blocks of a payload have one id, through any edits
\* and batches, unless an order listed an id twice (canvas.py:346).
UniqueIds ==
    ~doubled => \A x, y \in Places(doc) : Block(doc, x).id = Block(doc, y).id => x = y

\* An operation hits the block its author saw, or none, however old the tab's canvas
\* is and whatever came before it in its batch, unless the id has been given again:
\* after the last block of a section was deleted, or by a redraft (canvas.py:248).
AimedRight == missed \subseteq reused

\* "already-filled names carry over" (chat.py:71) and "never dropped" (canvas.py:331):
\* only a delete takes a block away, one at a time, and the name the user gave last
\* survives every command and every redraft.
NothingLost ==
    /\ lost = {}
    /\ \A p \in Parties : entered[p] # Blank => doc.parties[p] = entered[p]

\* "token <-> missing_term <-> block_ids are 1:1 by construction" (canvas.py:424): the
\* list of open terms is exactly what the text still asks for, except for labels that
\* an edit has written or taken away since the last redraft.
TermsMatch == \A l \in Labels \ loose : l \in doc.missing <=> l \in Tokens(doc)

\* A draft rests on the teams' documents only and, when only standards count, on
\* templates that were offered (bind.py:186, ground.py:41).
Grounded ==
    /\ sources \subseteq TeamFiles
    /\ strict => sources \subseteq Templates
=============================================================================
