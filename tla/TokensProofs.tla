----------------------------- MODULE TokensProofs -----------------------------
(***************************************************************************)
(* For any number of tabs and any numbers of pairs and codes: what the     *)
(* model checker finds of two tabs holds of all of them.  IInv says what   *)
(* the rows of a pair are while its request is at work, and how far a      *)
(* request that has been alone since it began has brought the device.      *)
(***************************************************************************)
EXTENDS Tokens, FiniteSetTheorems, TLAPS

AllPcs == {"idle"} \cup CodePcs \cup TokenPcs

\* A request that has drawn its pair and not yet created both of its rows.
Drawn   == {"login_access", "login_refresh", "login_new_access", "login_new_refresh",
            "refresh_access", "refresh_new_access", "refresh_new"}
Halfway == {"login_new_refresh", "refresh_new"}

\* The rows of a pair that is drawn are not there yet, and no other request has it.
Fresh(t) == tab[t].pc \in Drawn =>
              /\ tab[t].new \in 1 .. issued
              /\ refresh[tab[t].new] = "none"
              /\ tab[t].pc \notin Halfway => access[tab[t].new] = "none"
Undrawn  == \A p \in Pairs : p > issued => access[p] = "none" /\ refresh[p] = "none"
Distinct == \A t, u \in Tabs :
              t # u /\ tab[t].pc \in Drawn /\ tab[u].pc \in Drawn => tab[t].new # tab[u].new

Rows == TypeOK /\ Undrawn /\ Distinct /\ \A t \in Tabs : Fresh(t)

\* Whoever is not in the crowd has its class of requests to itself.
Solo(t) == t \notin crowd => \A u \in Tabs \ {t} :
             /\ tab[t].pc \in TokenPcs => tab[u].pc \notin TokenPcs
             /\ tab[t].pc \in CodePcs => tab[u].pc \notin CodePcs

AtMostOne == \A p, q \in Active : p = q
NoValid   == \A p \in Pairs : access[p] # "valid"
Matches   == Active = {jar} \ {0}

\* What a request that is alone has achieved at each of its steps.
Path(t) == t \notin crowd =>
    /\ tab[t].pc \in {"login_new_access", "login_new_refresh", "answer_bye"} => Active = {}
    /\ tab[t].pc \in {"refresh_access", "refresh_new_access", "refresh_new"}
          => Active = {tab[t].cookie}
    /\ At(t, "refresh_rotate") => Active = {tab[t].cookie, tab[t].new}
                                  /\ tab[t].cookie # tab[t].new
    /\ At(t, "answer_tokens") => Active = {tab[t].new}
    /\ At(t, "duplicates") => ~clean
    /\ At(t, "answer_401") => AtMostOne /\ (clean => Matches)
    /\ tab[t].pc \in {"logout_access", "logout_refresh"} => (clean => Matches)
    /\ At(t, "logout_refresh") => NoValid
CodePath(t) == t \notin crowd =>
    /\ tab[t].pc \in CodePcs => tab[t].code = asked
    /\ At(t, "code_create") => codes = {}
    /\ At(t, "code_send") => codes = {asked}

Settled  == settled => Quiet /\ AtMostOne
Kept     == clean /\ Quiet => Matches
Gone     == out => Active = {} /\ NoValid /\ \A t \in Tabs : tab[t].pc \notin Drawn
CodeDone == codeAlone => codes \in {{}, {asked} \cap inbox}
                         /\ \A t \in Tabs : tab[t].pc \notin CodePcs

IInv == /\ Rows
        /\ \A t \in Tabs : Solo(t) /\ Path(t) /\ CodePath(t)
        /\ Settled /\ Kept /\ Gone /\ CodeDone

\* IInv without what a step of t has to show for itself.
Others(t) == /\ \A u \in Tabs : Solo(u) /\ CodePath(u)
             /\ \A u \in Tabs \ {t} : Path(u)
             /\ CodeDone

----------------------------------------------------------------------------
(* Moves of a tab, said once.                                              *)

Moved(t, pc, new, cookie, code) ==
    /\ tab' \in [Tabs -> TabRecord]
    /\ tab'[t].pc = pc /\ tab'[t].new = new /\ tab'[t].cookie = cookie /\ tab'[t].code = code
    /\ \A u \in Tabs \ {t} : tab'[u] = tab[u]

LEMMA SetTab ==
    ASSUME tab \in [Tabs -> TabRecord], NEW t \in Tabs, NEW r \in TabRecord,
           tab' = [tab EXCEPT ![t] = r]
    PROVE  Moved(t, r.pc, r.new, r.cookie, r.code)
<1>1. tab' \in [Tabs -> TabRecord] /\ tab'[t] = r /\ \A u \in Tabs \ {t} : tab'[u] = tab[u]
  OBVIOUS
<1> QED
  BY <1>1 DEF Moved

LEMMA GotoMoves ==
    ASSUME tab \in [Tabs -> TabRecord], NEW t \in Tabs, NEW pc \in AllPcs, Goto(t, pc)
    PROVE  Moved(t, pc, tab[t].new, tab[t].cookie, tab[t].code)
<1> DEFINE r == [pc |-> pc, held |-> tab[t].held, cookie |-> tab[t].cookie,
                 new |-> tab[t].new, code |-> tab[t].code]
<1>1. tab[t] \in TabRecord
  OBVIOUS
<1>2. r \in TabRecord
  BY <1>1 DEF TabRecord, AllPcs
<1>3. [tab[t] EXCEPT !.pc = pc] = r
  BY <1>1 DEF TabRecord
<1>4. tab' = [tab EXCEPT ![t] = r]
  BY <1>3 DEF Goto
<1>5. r.pc = pc /\ r.new = tab[t].new /\ r.cookie = tab[t].cookie /\ r.code = tab[t].code
  OBVIOUS
<1> HIDE DEF r
<1> QED
  BY <1>2, <1>4, <1>5, SetTab

LEMMA DoneMoves ==
    ASSUME tab \in [Tabs -> TabRecord], NEW t \in Tabs, NEW held \in 0 .. MaxPairs,
           Done(t, held)
    PROVE  Moved(t, "idle", 0, 0, 0)
<1> DEFINE r == [pc |-> "idle", held |-> held, cookie |-> 0, new |-> 0, code |-> 0]
<1>1. r \in TabRecord
  BY BoundsAssumption DEF TabRecord
<1>2. tab' = [tab EXCEPT ![t] = r]
  BY DEF Done
<1>3. r.pc = "idle" /\ r.new = 0 /\ r.cookie = 0 /\ r.code = 0
  OBVIOUS
<1> HIDE DEF r
<1> QED
  BY <1>1, <1>2, <1>3, SetTab

----------------------------------------------------------------------------
(* The rows.                                                               *)

LEMMA PairsFacts == MaxPairs \in Nat /\ MaxCodes \in Nat /\ Pairs = 1 .. MaxPairs
BY BoundsAssumption DEF Pairs

LEMMA ActiveType == TypeOK => Active = {p \in Pairs : refresh[p] = "active"}
                              /\ Active \subseteq Pairs
BY DEF Active

\* A request creates rows of the pair it has drawn only.
LEMMA RowsKept ==
    ASSUME Rows, NEW t \in Tabs, NEW pc,
           NEW cookie, NEW code, Moved(t, pc, tab[t].new, cookie, code),
           UNCHANGED issued,
           access' \in [Pairs -> AccessStates], refresh' \in [Pairs -> RefreshStates],
           \A p \in Pairs : refresh[p] = "none" =>
              refresh'[p] = "none" \/ (p = tab[t].new /\ tab[t].pc \in Halfway /\ pc \notin Drawn),
           \A p \in Pairs : access[p] = "none" =>
              access'[p] = "none" \/ (p = tab[t].new /\ tab[t].pc \in Drawn \ Halfway /\ pc \in Halfway),
           pc \in Drawn => tab[t].pc \in Drawn,
           pc \in Drawn \ Halfway => tab[t].pc \notin Halfway
    PROVE  Undrawn' /\ Distinct' /\ \A u \in Tabs : Fresh(u)'
<1> USE PairsFacts DEF Rows
<1>1. issued \in 0 .. MaxPairs /\ tab \in [Tabs -> TabRecord]
  BY DEF TypeOK
<1>2. Undrawn'
  BY <1>1 DEF Undrawn, Fresh, Halfway, Drawn
<1>3. \A u \in Tabs : tab'[u].new = tab[u].new /\ (tab'[u].pc \in Drawn => tab[u].pc \in Drawn)
  BY DEF Moved
<1>4. Distinct'
  BY <1>3 DEF Distinct
<1>5. Fresh(t)'
  <2> SUFFICES ASSUME pc \in Drawn PROVE Fresh(t)'
    BY DEF Fresh, Moved
  <2>1. tab[t].new \in 1 .. issued /\ refresh[tab[t].new] = "none" /\ tab[t].new \in Pairs
    BY <1>1 DEF Fresh
  <2>2. refresh'[tab[t].new] = "none"
    BY <2>1
  <2>3. pc \notin Halfway => access'[tab[t].new] = "none"
    BY <2>1 DEF Fresh
  <2> QED
    BY <2>1, <2>2, <2>3 DEF Fresh, Moved
<1>6. ASSUME NEW u \in Tabs \ {t} PROVE Fresh(u)'
  <2>1. tab'[u] = tab[u]
    BY DEF Moved
  <2> SUFFICES ASSUME tab[u].pc \in Drawn PROVE Fresh(u)'
    BY <2>1 DEF Fresh
  <2>2. tab[u].new \in 1 .. issued /\ refresh[tab[u].new] = "none" /\ tab[u].new \in Pairs
    BY <1>1 DEF Fresh
  <2>3. tab[t].pc \in Drawn => tab[t].new # tab[u].new
    BY DEF Distinct
  <2>4. refresh'[tab[u].new] = "none"
    BY <2>2, <2>3 DEF Halfway, Drawn
  <2>5. tab[u].pc \notin Halfway => access'[tab[u].new] = "none"
    BY <2>2, <2>3 DEF Fresh
  <2> QED
    BY <2>1, <2>2, <2>4, <2>5 DEF Fresh
<1> QED
  BY <1>2, <1>4, <1>5, <1>6

\* A step of a request at work: its place and the rows change.
Works(t, pc) ==
    /\ pc \in AllPcs /\ Goto(t, pc)
    /\ pc \in Drawn => tab[t].pc \in Drawn
    /\ pc \in Drawn \ Halfway => tab[t].pc \notin Halfway
    /\ UNCHANGED <<codeRows, issued, jar, crowd, settled, clean>> /\ out' \in BOOLEAN
    /\ access' \in [Pairs -> AccessStates] /\ refresh' \in [Pairs -> RefreshStates]
    /\ \A p \in Pairs : refresh[p] = "none" =>
          refresh'[p] = "none" \/ (p = tab[t].new /\ tab[t].pc \in Halfway /\ pc \notin Drawn)
    /\ \A p \in Pairs : access[p] = "none" =>
          access'[p] = "none" \/ (p = tab[t].new /\ tab[t].pc \in Drawn \ Halfway /\ pc \in Halfway)

LEMMA WorkRows == ASSUME Rows, NEW t \in Tabs, NEW pc, Works(t, pc) PROVE Rows'
<1>1. Moved(t, pc, tab[t].new, tab[t].cookie, tab[t].code)
  BY GotoMoves DEF Rows, TypeOK, Works
<1>2. Undrawn' /\ Distinct' /\ \A u \in Tabs : Fresh(u)'
  BY <1>1, RowsKept DEF Works
<1>3. TypeOK'
  BY <1>1 DEF Rows, TypeOK, Moved, codeRows, Works
<1> QED
  BY <1>2, <1>3 DEF Rows

\* A request ends: its tab is idle, and the rows stay.
LEMMA EndRows ==
    ASSUME Rows, NEW t \in Tabs, NEW held \in 0 .. MaxPairs, Done(t, held),
           jar' \in 0 .. MaxPairs,
           UNCHANGED <<codeRows, tokenRows, issued, crowd, out>>,
           settled' \in BOOLEAN, clean' \in BOOLEAN
    PROVE  Rows'
<1> USE DEF Rows
<1>1. Moved(t, "idle", 0, 0, 0)
  BY DoneMoves DEF TypeOK
<1>2. TypeOK'
  BY <1>1 DEF TypeOK, Moved, codeRows, tokenRows
<1>3. Undrawn'
  BY DEF Undrawn, tokenRows
<1>4. \A u \in Tabs : tab'[u].pc \in Drawn => tab'[u] = tab[u]
  BY <1>1 DEF Moved, Drawn
<1>5. Distinct'
  BY <1>4 DEF Distinct
<1>6. \A u \in Tabs : Fresh(u)'
  BY <1>4 DEF Fresh, tokenRows
<1> QED
  BY <1>2, <1>3, <1>5, <1>6

\* A request of a class begins, or goes on, without a pair.
LEMMA PlainRows ==
    ASSUME Rows, NEW t \in Tabs, NEW pc \in AllPcs \ Drawn, NEW new, NEW cookie, NEW code,
           Moved(t, pc, new, cookie, code), UNCHANGED <<tokenRows, issued, jar, clean, out>>,
           codes' \subseteq 0 .. MaxCodes, inbox' \subseteq 0 .. MaxCodes, asked' \in 0 .. MaxCodes,
           codeAlone' \in BOOLEAN, crowd' \subseteq Tabs, settled' \in BOOLEAN
    PROVE  Rows'
<1> USE DEF Rows
<1>1. TypeOK'
  BY DEF TypeOK, Moved, tokenRows
<1>2. Undrawn'
  BY DEF Undrawn, tokenRows
<1>3. \A u \in Tabs : tab'[u].pc \in Drawn => tab'[u] = tab[u]
  BY DEF Moved
<1>4. Distinct'
  BY <1>3 DEF Distinct
<1>5. \A u \in Tabs : Fresh(u)'
  BY <1>3 DEF Fresh, tokenRows
<1> QED
  BY <1>1, <1>2, <1>4, <1>5

\* A request begins that draws a pair.
LEMMA DrawRows ==
    ASSUME Rows, NEW t \in Tabs, NEW pc \in {"login_access", "refresh_access"}, NEW cookie,
           NEW code, Moved(t, pc, issued + 1, cookie, code), issued < MaxPairs,
           issued' = issued + 1, UNCHANGED <<codeRows, tokenRows, jar>>, tab[t].pc = "idle",
           crowd' \subseteq Tabs, settled' \in BOOLEAN, clean' \in BOOLEAN, out' \in BOOLEAN
    PROVE  Rows'
<1> USE PairsFacts DEF Rows
<1>1. issued \in 0 .. MaxPairs /\ issued + 1 \in Pairs
  BY DEF TypeOK
<1>2. TypeOK'
  BY <1>1 DEF TypeOK, Moved, codeRows, tokenRows
<1>3. Undrawn'
  BY <1>1 DEF Undrawn, tokenRows
<1>4. \A u \in Tabs \ {t} : tab'[u] = tab[u] /\ (tab[u].pc \in Drawn => tab[u].new \in 1 .. issued)
  BY DEF Moved, Fresh
<1>5. tab'[t].new = issued + 1 /\ tab'[t].pc = pc
  BY DEF Moved
<1>6. Distinct'
  BY <1>1, <1>4, <1>5 DEF Distinct
<1>7. Fresh(t)'
  BY <1>1, <1>5 DEF Fresh, Undrawn, tokenRows
<1>8. ASSUME NEW u \in Tabs \ {t} PROVE Fresh(u)'
  BY <1>1, <1>4 DEF Fresh, tokenRows
<1> QED
  BY <1>2, <1>3, <1>6, <1>7, <1>8

\* What NoResurrection says of one step.
NoReturn == \A p \in Pairs : /\ refresh[p] \in {"rotated", "revoked"} => refresh'[p] # "active"
                             /\ access[p] = "invalid" => access'[p] # "valid"

LEMMA OverlapType == ASSUME TypeOK, NEW t \in Tabs, NEW pcs, Overlap(t, pcs)
                     PROVE  crowd' \subseteq Tabs
BY DEF Overlap, TypeOK

LEMMA AskMoves ==
    ASSUME TypeOK, NEW t \in Tabs, AskCode(t)
    PROVE  Moved(t, "code_create", tab[t].new, tab[t].cookie, asked + 1)
<1>0. tab \in [Tabs -> TabRecord] /\ tab[t] \in TabRecord
  BY DEF TypeOK
<1> DEFINE q == tab[t]
           r == [q EXCEPT !.pc = "code_create", !.code = asked + 1]
<1>1. asked + 1 \in 0 .. MaxCodes
  BY PairsFacts DEF AskCode, TypeOK
<1>2. /\ r \in TabRecord /\ r.pc = "code_create" /\ r.code = asked + 1
      /\ r.new = q.new /\ r.cookie = q.cookie
  <2>1. q \in TabRecord
    BY <1>0
  <2> HIDE DEF q
  <2> QED
    BY <2>1, <1>1 DEF TabRecord, CodePcs
<1>3. tab' = [tab EXCEPT ![t] = r]
  BY <1>0 DEF AskCode
<1>4. r.pc = "code_create" /\ r.new = tab[t].new /\ r.cookie = tab[t].cookie /\ r.code = asked + 1
  BY <1>2
<1> HIDE DEF r
<1> QED
  BY <1>0, <1>2, <1>3, <1>4, SetTab

LEMMA CodeRows ==
    ASSUME Rows, NEW t \in Tabs, AskCode(t) \/ CreateCode(t) \/ SendCode(t)
    PROVE  Rows' /\ NoReturn
<1> USE PairsFacts DEF Rows
<1>0. tab \in [Tabs -> TabRecord] /\ tab[t] \in TabRecord
  BY DEF TypeOK
<1>1. CASE AskCode(t)
  <2>1. asked + 1 \in 0 .. MaxCodes
    BY <1>1 DEF AskCode, TypeOK
  <2>2. Moved(t, "code_create", tab[t].new, tab[t].cookie, asked + 1)
    BY <1>1, AskMoves
  <2>3. crowd' \subseteq Tabs
    BY <1>1, OverlapType DEF AskCode
  <2>4. "code_create" \in AllPcs \ Drawn
    BY DEF AllPcs, CodePcs, Drawn
  <2>5. UNCHANGED <<tokenRows, issued, jar, clean, out, settled, inbox>> /\ codes' = {}
        /\ asked' = asked + 1 /\ codeAlone' = FALSE
    BY <1>1 DEF AskCode, past
  <2>6. Rows'
    <3>1. codes' \subseteq 0 .. MaxCodes /\ inbox' \subseteq 0 .. MaxCodes /\ asked' \in 0 .. MaxCodes
          /\ codeAlone' \in BOOLEAN /\ settled' \in BOOLEAN
      BY <2>1, <2>5 DEF TypeOK
    <3> QED
      BY <2>2, <2>3, <2>4, <2>5, <3>1, PlainRows
  <2> QED
    BY <2>5, <2>6 DEF NoReturn, tokenRows
<1>2. CASE CreateCode(t)
  <2>1. Moved(t, "code_send", tab[t].new, tab[t].cookie, tab[t].code)
    BY <1>0, <1>2, GotoMoves DEF CreateCode, AllPcs, CodePcs
  <2>2. UNCHANGED <<tokenRows, issued, jar, clean, out, settled, inbox, asked, codeAlone, crowd>>
        /\ codes' = codes \cup {tab[t].code} /\ "code_send" \in AllPcs \ Drawn
    BY <1>2 DEF CreateCode, past, AllPcs, CodePcs, Drawn
  <2>3. tab[t].code \in 0 .. MaxCodes
    BY <1>0 DEF TabRecord
  <2>4. Rows'
    BY <2>1, <2>2, <2>3, PlainRows DEF TypeOK
  <2> QED
    BY <2>2, <2>4 DEF NoReturn, tokenRows
<1>3. CASE SendCode(t)
  <2>1. Moved(t, "idle", tab[t].new, tab[t].cookie, tab[t].code)
    BY <1>0, <1>3, GotoMoves DEF SendCode, AllPcs
  <2>2. UNCHANGED <<tokenRows, issued, jar, clean, out, settled, asked, crowd>>
        /\ codes' \subseteq codes /\ inbox' \subseteq inbox \cup {tab[t].code}
        /\ "idle" \in AllPcs \ Drawn
    BY <1>3 DEF SendCode, past, AllPcs, Drawn
  <2>3. tab[t].code \in 0 .. MaxCodes
    BY <1>0 DEF TabRecord
  <2>4. codeAlone' \in BOOLEAN
    BY <1>3 DEF SendCode
  <2>5. Rows'
    BY <2>1, <2>2, <2>3, <2>4, PlainRows DEF TypeOK
  <2> QED
    BY <2>2, <2>5 DEF NoReturn, tokenRows
<1> QED
  BY <1>1, <1>2, <1>3

LEMMA WorkTokens ==
    ASSUME Rows, NEW t \in Tabs,
           \/ LoginDeleteAccess(t) \/ LoginDeleteRefresh(t)
           \/ RevokeDuplicates(t) \/ RefreshRevokeAccess(t) \/ RefreshRotate(t)
           \/ LogoutAccess(t) \/ LogoutRefresh(t)
    PROVE  Rows' /\ NoReturn
<1>0. /\ access \in [Pairs -> AccessStates] /\ refresh \in [Pairs -> RefreshStates]
      /\ out \in BOOLEAN
  BY DEF Rows, TypeOK
<1>1. CASE LoginDeleteAccess(t)
  <2>1. /\ Goto(t, "login_refresh") /\ tab[t].pc = "login_access"
        /\ UNCHANGED <<codeRows, issued, jar, crowd, settled, clean>> /\ out' \in BOOLEAN
    BY <1>0, <1>1 DEF LoginDeleteAccess, At, past
  <2>2. /\ access' \in [Pairs -> AccessStates] /\ refresh' \in [Pairs -> RefreshStates]
        /\ \A p \in Pairs : refresh[p] = "none" => refresh'[p] = "none"
        /\ \A p \in Pairs : access[p] = "none" => access'[p] = "none"
    BY <1>0, <1>1 DEF LoginDeleteAccess, AccessStates, RefreshStates, tokenRows
  <2>3. /\ "login_refresh" \in AllPcs
        /\ "login_refresh" \in Drawn => tab[t].pc \in Drawn
        /\ "login_refresh" \in Drawn \ Halfway => tab[t].pc \notin Halfway
    BY <2>1 DEF Drawn, Halfway, AllPcs, TokenPcs
  <2>4. Works(t, "login_refresh")
    BY <2>1, <2>2, <2>3 DEF Works
  <2>5. Rows'
    BY <2>4, WorkRows
  <2> QED
    BY <1>0, <1>1, <2>5 DEF NoReturn, LoginDeleteAccess, tokenRows
<1>2. CASE LoginDeleteRefresh(t)
  <2>1. /\ Goto(t, "login_new_access") /\ tab[t].pc = "login_refresh"
        /\ UNCHANGED <<codeRows, issued, jar, crowd, settled, clean>> /\ out' \in BOOLEAN
    BY <1>0, <1>2 DEF LoginDeleteRefresh, At, past
  <2>2. /\ access' \in [Pairs -> AccessStates] /\ refresh' \in [Pairs -> RefreshStates]
        /\ \A p \in Pairs : refresh[p] = "none" => refresh'[p] = "none"
        /\ \A p \in Pairs : access[p] = "none" => access'[p] = "none"
    BY <1>0, <1>2 DEF LoginDeleteRefresh, AccessStates, RefreshStates, tokenRows
  <2>3. /\ "login_new_access" \in AllPcs
        /\ "login_new_access" \in Drawn => tab[t].pc \in Drawn
        /\ "login_new_access" \in Drawn \ Halfway => tab[t].pc \notin Halfway
    BY <2>1 DEF Drawn, Halfway, AllPcs, TokenPcs
  <2>4. Works(t, "login_new_access")
    BY <2>1, <2>2, <2>3 DEF Works
  <2>5. Rows'
    BY <2>4, WorkRows
  <2> QED
    BY <1>0, <1>2, <2>5 DEF NoReturn, LoginDeleteRefresh, tokenRows
<1>3. CASE RevokeDuplicates(t)
  <2>1. /\ Goto(t, "answer_401") /\ tab[t].pc = "duplicates"
        /\ UNCHANGED <<codeRows, issued, jar, crowd, settled, clean>> /\ out' \in BOOLEAN
    BY <1>0, <1>3 DEF RevokeDuplicates, At, past
  <2>2. /\ access' \in [Pairs -> AccessStates] /\ refresh' \in [Pairs -> RefreshStates]
        /\ \A p \in Pairs : refresh[p] = "none" => refresh'[p] = "none"
        /\ \A p \in Pairs : access[p] = "none" => access'[p] = "none"
    BY <1>0, <1>3 DEF RevokeDuplicates, Revoked, AccessStates, RefreshStates, tokenRows
  <2>3. /\ "answer_401" \in AllPcs
        /\ "answer_401" \in Drawn => tab[t].pc \in Drawn
        /\ "answer_401" \in Drawn \ Halfway => tab[t].pc \notin Halfway
    BY <2>1 DEF Drawn, Halfway, AllPcs, TokenPcs
  <2>4. Works(t, "answer_401")
    BY <2>1, <2>2, <2>3 DEF Works
  <2>5. Rows'
    BY <2>4, WorkRows
  <2> QED
    BY <1>0, <1>3, <2>5 DEF NoReturn, RevokeDuplicates, Revoked, tokenRows
<1>4. CASE RefreshRevokeAccess(t)
  <2>1. /\ Goto(t, "refresh_new_access") /\ tab[t].pc = "refresh_access"
        /\ UNCHANGED <<codeRows, issued, jar, crowd, settled, clean>> /\ out' \in BOOLEAN
    BY <1>0, <1>4 DEF RefreshRevokeAccess, At, past
  <2>2. /\ access' \in [Pairs -> AccessStates] /\ refresh' \in [Pairs -> RefreshStates]
        /\ \A p \in Pairs : refresh[p] = "none" => refresh'[p] = "none"
        /\ \A p \in Pairs : access[p] = "none" => access'[p] = "none"
    BY <1>0, <1>4 DEF RefreshRevokeAccess, Invalidated, AccessStates, RefreshStates, tokenRows
  <2>3. /\ "refresh_new_access" \in AllPcs
        /\ "refresh_new_access" \in Drawn => tab[t].pc \in Drawn
        /\ "refresh_new_access" \in Drawn \ Halfway => tab[t].pc \notin Halfway
    BY <2>1 DEF Drawn, Halfway, AllPcs, TokenPcs
  <2>4. Works(t, "refresh_new_access")
    BY <2>1, <2>2, <2>3 DEF Works
  <2>5. Rows'
    BY <2>4, WorkRows
  <2> QED
    BY <1>0, <1>4, <2>5 DEF NoReturn, RefreshRevokeAccess, Invalidated, tokenRows
<1>5. CASE RefreshRotate(t)
  <2>1. /\ Goto(t, "answer_tokens") /\ tab[t].pc = "refresh_rotate"
        /\ UNCHANGED <<codeRows, issued, jar, crowd, settled, clean>> /\ out' \in BOOLEAN
    BY <1>0, <1>5 DEF RefreshRotate, At, past
  <2>2. /\ access' \in [Pairs -> AccessStates] /\ refresh' \in [Pairs -> RefreshStates]
        /\ \A p \in Pairs : refresh[p] = "none" => refresh'[p] = "none"
        /\ \A p \in Pairs : access[p] = "none" => access'[p] = "none"
    BY <1>0, <1>5 DEF RefreshRotate, AccessStates, RefreshStates, tokenRows
  <2>3. /\ "answer_tokens" \in AllPcs
        /\ "answer_tokens" \in Drawn => tab[t].pc \in Drawn
        /\ "answer_tokens" \in Drawn \ Halfway => tab[t].pc \notin Halfway
    BY <2>1 DEF Drawn, Halfway, AllPcs, TokenPcs
  <2>4. Works(t, "answer_tokens")
    BY <2>1, <2>2, <2>3 DEF Works
  <2>5. Rows'
    BY <2>4, WorkRows
  <2> QED
    BY <1>0, <1>5, <2>5 DEF NoReturn, RefreshRotate, tokenRows
<1>6. CASE LogoutAccess(t)
  <2>1. /\ Goto(t, "logout_refresh") /\ tab[t].pc = "logout_access"
        /\ UNCHANGED <<codeRows, issued, jar, crowd, settled, clean>> /\ out' \in BOOLEAN
    BY <1>0, <1>6 DEF LogoutAccess, At, past
  <2>2. /\ access' \in [Pairs -> AccessStates] /\ refresh' \in [Pairs -> RefreshStates]
        /\ \A p \in Pairs : refresh[p] = "none" => refresh'[p] = "none"
        /\ \A p \in Pairs : access[p] = "none" => access'[p] = "none"
    BY <1>0, <1>6 DEF LogoutAccess, Invalidated, AccessStates, RefreshStates, tokenRows
  <2>3. /\ "logout_refresh" \in AllPcs
        /\ "logout_refresh" \in Drawn => tab[t].pc \in Drawn
        /\ "logout_refresh" \in Drawn \ Halfway => tab[t].pc \notin Halfway
    BY <2>1 DEF Drawn, Halfway, AllPcs, TokenPcs
  <2>4. Works(t, "logout_refresh")
    BY <2>1, <2>2, <2>3 DEF Works
  <2>5. Rows'
    BY <2>4, WorkRows
  <2> QED
    BY <1>0, <1>6, <2>5 DEF NoReturn, LogoutAccess, Invalidated, tokenRows
<1>7. CASE LogoutRefresh(t)
  <2>1. /\ Goto(t, "answer_bye") /\ tab[t].pc = "logout_refresh"
        /\ UNCHANGED <<codeRows, issued, jar, crowd, settled, clean>> /\ out' \in BOOLEAN
    BY <1>0, <1>7 DEF LogoutRefresh, At, past
  <2>2. /\ access' \in [Pairs -> AccessStates] /\ refresh' \in [Pairs -> RefreshStates]
        /\ \A p \in Pairs : refresh[p] = "none" => refresh'[p] = "none"
        /\ \A p \in Pairs : access[p] = "none" => access'[p] = "none"
    BY <1>0, <1>7 DEF LogoutRefresh, Revoked, AccessStates, RefreshStates, tokenRows
  <2>3. /\ "answer_bye" \in AllPcs
        /\ "answer_bye" \in Drawn => tab[t].pc \in Drawn
        /\ "answer_bye" \in Drawn \ Halfway => tab[t].pc \notin Halfway
    BY <2>1 DEF Drawn, Halfway, AllPcs, TokenPcs
  <2>4. Works(t, "answer_bye")
    BY <2>1, <2>2, <2>3 DEF Works
  <2>5. Rows'
    BY <2>4, WorkRows
  <2> QED
    BY <1>0, <1>7, <2>5 DEF NoReturn, LogoutRefresh, Revoked, tokenRows
<1> QED
  BY <1>1, <1>2, <1>3, <1>4, <1>5, <1>6, <1>7

LEMMA CreateRows ==
    ASSUME Rows, NEW t \in Tabs,
           \/ LoginCreateAccess(t) \/ LoginCreateRefresh(t)
           \/ RefreshCreateAccess(t) \/ RefreshCreate(t)
    PROVE  Rows' /\ NoReturn
<1>0. /\ access \in [Pairs -> AccessStates] /\ refresh \in [Pairs -> RefreshStates]
      /\ out \in BOOLEAN /\ issued \in 0 .. MaxPairs /\ Fresh(t)
  BY DEF Rows, TypeOK
<1>1. ASSUME NEW from \in Drawn \ Halfway, NEW to \in Halfway, CreateAccess(t, from, to)
      PROVE  Rows' /\ NoReturn
  <2>1. /\ Goto(t, to) /\ tab[t].pc = from
        /\ UNCHANGED <<codeRows, issued, jar, crowd, settled, clean>> /\ out' \in BOOLEAN
    BY <1>0, <1>1 DEF CreateAccess, At, past
  <2>2. /\ refresh' = refresh /\ access' = [access EXCEPT ![tab[t].new] = "valid"]
        /\ access[tab[t].new] = "none"
    BY <1>0, <1>1, <2>1 DEF CreateAccess, Fresh
  <2>3. Works(t, to)
    BY <1>0, <1>1, <2>1, <2>2 DEF Works, Drawn, Halfway, AllPcs, TokenPcs, AccessStates
  <2> QED
    BY <1>0, <2>2, <2>3, WorkRows DEF NoReturn
<1>2. ASSUME NEW from \in Halfway, NEW to \in {"answer_tokens", "refresh_rotate"},
             CreateRefresh(t, from, to)
      PROVE  Rows' /\ NoReturn
  <2>1. /\ Goto(t, to) /\ tab[t].pc = from
        /\ UNCHANGED <<codeRows, issued, jar, crowd, settled, clean>> /\ out' \in BOOLEAN
    BY <1>0, <1>2 DEF CreateRefresh, At, past
  <2>2. /\ access' = access /\ refresh' = [refresh EXCEPT ![tab[t].new] = "active"]
        /\ refresh[tab[t].new] = "none"
    BY <1>0, <1>2, <2>1 DEF CreateRefresh, Fresh, Drawn, Halfway
  <2>3. Works(t, to)
    BY <1>0, <1>2, <2>1, <2>2 DEF Works, Drawn, Halfway, AllPcs, TokenPcs, RefreshStates
  <2> QED
    BY <1>0, <2>2, <2>3, WorkRows DEF NoReturn
<1> QED
  BY <1>1, <1>2 DEF LoginCreateAccess, LoginCreateRefresh, RefreshCreateAccess, RefreshCreate,
     Drawn, Halfway

LEMMA VerifyMoves ==
    ASSUME TypeOK, NEW t \in Tabs, VerifyCode(t)
    PROVE  Moved(t, "login_access", issued + 1, tab[t].cookie, tab[t].code)
<1> USE PairsFacts
<1>1. tab \in [Tabs -> TabRecord] /\ tab[t] \in TabRecord /\ issued + 1 \in 0 .. MaxPairs
  BY DEF TypeOK, VerifyCode
<1> DEFINE q == tab[t]
           r == [q EXCEPT !.pc = "login_access", !.new = issued + 1]
<1>2. tab' = [tab EXCEPT ![t] = r]
  BY <1>1 DEF VerifyCode
<1>3. /\ r \in TabRecord /\ r.pc = "login_access" /\ r.new = issued + 1
      /\ r.cookie = q.cookie /\ r.code = q.code
  <2>1. q \in TabRecord /\ "login_access" \in AllPcs
    BY <1>1 DEF AllPcs, TokenPcs
  <2> HIDE DEF q
  <2> QED
    BY <1>1, <2>1 DEF TabRecord, AllPcs
<1>4. r.cookie = tab[t].cookie /\ r.code = tab[t].code
  BY <1>3
<1> HIDE DEF r
<1> QED
  BY <1>1, <1>2, <1>3, <1>4, SetTab

\* What a refresh reads, and where it goes on.
ReadTo(t, pc, new) ==
    /\ Moved(t, pc, new, jar, tab[t].code)
    /\ \/ pc = "duplicates" /\ Cardinality(Active) > 1 /\ new = tab[t].new /\ issued' = issued
       \/ /\ pc = "refresh_access" /\ Active = {jar} /\ issued < MaxPairs /\ new = issued + 1
          /\ issued' = issued + 1
       \/ pc = "answer_401" /\ Cardinality(Active) <= 1 /\ new = tab[t].new /\ issued' = issued

LEMMA ReadMoves ==
    ASSUME TypeOK, NEW t \in Tabs, RefreshRead(t)
    PROVE  \E pc \in {"duplicates", "refresh_access", "answer_401"}, new \in 0 .. MaxPairs :
             ReadTo(t, pc, new)
<1> USE PairsFacts
<1> DEFINE k == tab[t]
           q == [k EXCEPT !.cookie = jar]
           c == [tab EXCEPT ![t] = q]
           Plain(pc) == [q EXCEPT !.pc = pc]
           Paired == [q EXCEPT !.pc = "refresh_access", !.new = issued + 1]
<1>1. tab \in [Tabs -> TabRecord] /\ k \in TabRecord /\ jar \in 0 .. MaxPairs
      /\ issued \in 0 .. MaxPairs
  BY DEF TypeOK
<1>2. {"duplicates", "refresh_access", "answer_401"} \subseteq AllPcs
  BY DEF AllPcs, TokenPcs
<1>3. k.new \in 0 .. MaxPairs
  BY <1>1 DEF TabRecord
<1>4. q \in TabRecord /\ q.new = tab[t].new /\ q.cookie = jar /\ q.code = tab[t].code
  <2>2. q.new = k.new /\ q.code = k.code /\ q.cookie = jar /\ q \in TabRecord
    <3> HIDE DEF k
    <3> QED
      BY <1>1 DEF TabRecord
  <2> QED
    BY <2>2
<1>5. /\ [tab EXCEPT ![t].cookie = jar] = c /\ c \in [Tabs -> TabRecord] /\ c[t] = q
      /\ \A r \in TabRecord : [c EXCEPT ![t] = r] = [tab EXCEPT ![t] = r]
  BY <1>1, <1>4
<1>6. \/ /\ Cardinality(Active) > 1 /\ issued' = issued
         /\ tab' = [c EXCEPT ![t].pc = "duplicates"]
      \/ /\ Active = {jar} /\ issued < MaxPairs /\ issued' = issued + 1
         /\ tab' = [c EXCEPT ![t].pc = "refresh_access", ![t].new = issued + 1]
      \/ /\ Cardinality(Active) <= 1 /\ issued' = issued
         /\ tab' = [c EXCEPT ![t].pc = "answer_401"]
  BY <1>5 DEF RefreshRead
<1> HIDE DEF q
<1>7. ASSUME NEW pc \in {"duplicates", "answer_401"}, tab' = [c EXCEPT ![t].pc = pc]
      PROVE  Moved(t, pc, tab[t].new, jar, tab[t].code)
  <2>1. [c EXCEPT ![t].pc = pc] = [c EXCEPT ![t] = Plain(pc)]
    BY <1>5
  <2>2. /\ Plain(pc) \in TabRecord /\ Plain(pc).pc = pc /\ Plain(pc).new = q.new
        /\ Plain(pc).cookie = q.cookie /\ Plain(pc).code = q.code
    BY <1>2, <1>4 DEF TabRecord, AllPcs
  <2> HIDE DEF Plain, c
  <2>3. tab' = [tab EXCEPT ![t] = Plain(pc)]
    BY <1>5, <1>7, <2>1, <2>2
  <2> QED
    BY <1>1, <1>4, <2>2, <2>3, SetTab
<1>8. ASSUME tab' = [c EXCEPT ![t].pc = "refresh_access", ![t].new = issued + 1],
             issued < MaxPairs
      PROVE  Moved(t, "refresh_access", issued + 1, jar, tab[t].code)
  <2>1. [[c EXCEPT ![t].pc = "refresh_access"] EXCEPT ![t].new = issued + 1]
          = [c EXCEPT ![t] = Paired]
    BY <1>5
  <2>0. issued + 1 \in 0 .. MaxPairs /\ "refresh_access" \in AllPcs
    BY <1>1, <1>2, <1>8
  <2>2. /\ Paired \in TabRecord /\ Paired.pc = "refresh_access" /\ Paired.new = issued + 1
        /\ Paired.cookie = q.cookie /\ Paired.code = q.code
    BY <1>4, <2>0 DEF TabRecord, AllPcs
  <2> HIDE DEF Paired, c
  <2>3. tab' = [tab EXCEPT ![t] = Paired]
    BY <1>5, <1>8, <2>1, <2>2
  <2> QED
    BY <1>1, <1>4, <2>2, <2>3, SetTab
<1> HIDE DEF c
<1>9. CASE Cardinality(Active) > 1 /\ issued' = issued /\ tab' = [c EXCEPT ![t].pc = "duplicates"]
  <2>1. ReadTo(t, "duplicates", tab[t].new)
    BY <1>7, <1>9 DEF ReadTo
  <2> QED
    BY <1>3, <2>1
<1>10. CASE Active = {jar} /\ issued < MaxPairs /\ issued' = issued + 1
            /\ tab' = [c EXCEPT ![t].pc = "refresh_access", ![t].new = issued + 1]
  <2>1. ReadTo(t, "refresh_access", issued + 1) /\ issued + 1 \in 0 .. MaxPairs
    BY <1>1, <1>8, <1>10 DEF ReadTo
  <2> QED
    BY <2>1
<1>11. CASE Cardinality(Active) <= 1 /\ issued' = issued /\ tab' = [c EXCEPT ![t].pc = "answer_401"]
  <2>1. ReadTo(t, "answer_401", tab[t].new)
    BY <1>7, <1>11 DEF ReadTo
  <2> QED
    BY <1>3, <2>1
<1> QED
  BY <1>6, <1>9, <1>10, <1>11

LEMMA BeginRows ==
    ASSUME Rows, NEW t \in Tabs, VerifyCode(t) \/ RefreshRead(t) \/ Logout(t)
    PROVE  Rows' /\ NoReturn
<1> USE PairsFacts
<1>0. TypeOK /\ tab \in [Tabs -> TabRecord] /\ tab[t].code \in 0 .. MaxCodes
  BY DEF Rows, TypeOK, TabRecord
<1>1. CASE VerifyCode(t)
  <2>1. Moved(t, "login_access", issued + 1, tab[t].cookie, tab[t].code)
    BY <1>0, <1>1, VerifyMoves
  <2>2. /\ issued < MaxPairs /\ issued' = issued + 1 /\ UNCHANGED <<codeRows, tokenRows, jar>>
        /\ tab[t].pc = "idle" /\ settled' = FALSE /\ clean' = FALSE /\ out' = FALSE
    BY <1>1 DEF VerifyCode, Begin, At
  <2>3. crowd' \subseteq Tabs
    BY <1>0, <1>1, OverlapType DEF VerifyCode, Begin
  <2>4. Rows'
    BY <2>1, <2>2, <2>3, DrawRows
  <2> QED
    BY <2>2, <2>4 DEF NoReturn, tokenRows
<1>2. CASE RefreshRead(t)
  <2>1. PICK pc \in {"duplicates", "refresh_access", "answer_401"}, new \in 0 .. MaxPairs :
             ReadTo(t, pc, new)
    BY <1>0, <1>2, ReadMoves
  <2>2. /\ UNCHANGED <<codeRows, tokenRows, jar, clean, out>> /\ tab[t].pc = "idle" /\ settled' = FALSE
    BY <1>2 DEF RefreshRead, Begin, At
  <2>3. crowd' \subseteq Tabs
    BY <1>0, <1>2, OverlapType DEF RefreshRead, Begin
  <2>4. CASE pc = "refresh_access"
    <3>1. /\ Moved(t, "refresh_access", issued + 1, jar, tab[t].code)
          /\ issued < MaxPairs /\ issued' = issued + 1
      BY <2>1, <2>4 DEF ReadTo
    <3>2. settled' \in BOOLEAN /\ clean' \in BOOLEAN /\ out' \in BOOLEAN
      BY <1>0, <2>2 DEF TypeOK
    <3>3. Rows'
      BY <2>2, <2>3, <3>1, <3>2, DrawRows
    <3> QED
      BY <2>2, <3>3 DEF NoReturn, tokenRows
  <2>5. CASE pc \in {"duplicates", "answer_401"}
    <3>1. Moved(t, pc, new, jar, tab[t].code) /\ issued' = issued
      BY <2>1, <2>5 DEF ReadTo
    <3>2. pc \in AllPcs \ Drawn
      BY <2>5 DEF AllPcs, TokenPcs, Drawn
    <3>3. /\ codes' \subseteq 0 .. MaxCodes /\ inbox' \subseteq 0 .. MaxCodes
          /\ asked' \in 0 .. MaxCodes /\ codeAlone' \in BOOLEAN /\ settled' \in BOOLEAN
      BY <1>0, <2>2 DEF TypeOK, codeRows
    <3>4. Rows'
      BY <2>2, <2>3, <3>1, <3>2, <3>3, PlainRows
    <3> QED
      BY <2>2, <3>4 DEF NoReturn, tokenRows
  <2> QED
    BY <2>4, <2>5
<1>3. CASE Logout(t)
  <2>1. Moved(t, "logout_access", tab[t].new, tab[t].cookie, tab[t].code)
    BY <1>0, <1>3, GotoMoves DEF Logout, AllPcs, TokenPcs
  <2>2. /\ UNCHANGED <<codeRows, tokenRows, issued, jar, clean, out>> /\ settled' = FALSE
    BY <1>3 DEF Logout, Begin
  <2>3. crowd' \subseteq Tabs
    BY <1>0, <1>3, OverlapType DEF Logout, Begin
  <2>4. "logout_access" \in AllPcs \ Drawn
    BY DEF AllPcs, TokenPcs, Drawn
  <2>5. /\ codes' \subseteq 0 .. MaxCodes /\ inbox' \subseteq 0 .. MaxCodes
        /\ asked' \in 0 .. MaxCodes /\ codeAlone' \in BOOLEAN /\ settled' \in BOOLEAN
    BY <1>0, <2>2 DEF TypeOK, codeRows
  <2>6. Rows'
    BY <2>1, <2>2, <2>3, <2>4, <2>5, PlainRows
  <2> QED
    BY <2>2, <2>6 DEF NoReturn, tokenRows
<1> QED
  BY <1>1, <1>2, <1>3

LEMMA AnswerRows ==
    ASSUME Rows, NEW t \in Tabs, AnswerStep(t)
    PROVE  Rows' /\ NoReturn
<1> USE PairsFacts
<1>0. /\ tab[t].new \in 0 .. MaxPairs /\ tab[t].held \in 0 .. MaxPairs /\ jar \in 0 .. MaxPairs
      /\ clean \in BOOLEAN /\ settled \in BOOLEAN
  BY DEF Rows, TypeOK, TabRecord
<1>1. CASE AnswerTokens(t)
  BY <1>0, <1>1, EndRows DEF AnswerTokens, NoReturn, tokenRows
<1>2. CASE Answer401(t)
  BY <1>0, <1>2, EndRows DEF Answer401, NoReturn, tokenRows
<1>3. CASE AnswerBye(t)
  BY <1>0, <1>3, EndRows DEF AnswerBye, NoReturn, tokenRows
<1>4. CASE Lost(t)
  BY <1>0, <1>4, EndRows DEF Lost, NoReturn, tokenRows
<1> QED
  BY <1>1, <1>2, <1>3, <1>4 DEF AnswerStep

LEMMA ExpireRows ==
    ASSUME Rows, NEW e \in Pairs, ExpireAccess(e)
    PROVE  Rows' /\ NoReturn
<1> USE DEF Rows
<1>1. /\ UNCHANGED <<codeRows, refresh, issued, jar, tab, crowd, past>>
      /\ access' = [access EXCEPT ![e] = "invalid"] /\ access[e] = "valid"
      /\ access \in [Pairs -> AccessStates]
  BY DEF ExpireAccess, TypeOK
<1>2. TypeOK'
  BY <1>1 DEF TypeOK, AccessStates, codeRows, past
<1>3. \A p \in Pairs : access[p] = "none" => access'[p] = "none"
  BY <1>1
<1>4. Undrawn'
  BY <1>1, <1>3 DEF Undrawn
<1>5. Distinct'
  BY <1>1 DEF Distinct
<1>6. \A u \in Tabs : Fresh(u)'
  BY <1>1, <1>3, PairsFacts DEF Fresh, TypeOK
<1>7. NoReturn
  BY <1>1 DEF NoReturn
<1> QED
  BY <1>2, <1>4, <1>5, <1>6, <1>7

LEMMA RowsInit == Init => Rows
<1> SUFFICES ASSUME Init PROVE Rows
  OBVIOUS
<1> USE PairsFacts DEF Init
<1>1. [pc |-> "idle", held |-> 0, cookie |-> 0, new |-> 0, code |-> 0] \in TabRecord
  BY DEF TabRecord
<1>2. tab \in [Tabs -> TabRecord]
  BY <1>1
<1>3. TypeOK
  <2>1. /\ access \in [Pairs -> AccessStates] /\ refresh \in [Pairs -> RefreshStates]
        /\ issued \in 0 .. MaxPairs /\ jar \in 0 .. MaxPairs /\ asked \in 0 .. MaxCodes
    BY DEF AccessStates, RefreshStates
  <2>2. codes \subseteq 0 .. MaxCodes /\ inbox \subseteq 0 .. MaxCodes /\ crowd \subseteq Tabs
    OBVIOUS
  <2>3. settled \in BOOLEAN /\ clean \in BOOLEAN /\ out \in BOOLEAN /\ codeAlone \in BOOLEAN
    BY Zenon
  <2> QED
    BY <1>2, <2>1, <2>2, <2>3 DEF TypeOK
<1>4. Undrawn
  BY DEF Undrawn
<1>5. \A t \in Tabs : tab[t].pc \notin Drawn
  BY DEF Drawn
<1> QED
  BY <1>3, <1>4, <1>5 DEF Rows, Distinct, Fresh

LEMMA RowsStep == Rows /\ [Next]_vars => Rows' /\ (Next => NoReturn)
<1> SUFFICES ASSUME Rows, [Next]_vars PROVE Rows' /\ (Next => NoReturn)
  OBVIOUS
<1>1. ASSUME NEW t \in Tabs, LoginStep(t) PROVE Rows' /\ NoReturn
  BY <1>1, CodeRows, WorkTokens, CreateRows, BeginRows DEF LoginStep
<1>2. ASSUME NEW t \in Tabs, RefreshStep(t) PROVE Rows' /\ NoReturn
  BY <1>2, WorkTokens, CreateRows, BeginRows DEF RefreshStep
<1>3. ASSUME NEW t \in Tabs, LogoutStep(t) PROVE Rows' /\ NoReturn
  BY <1>3, WorkTokens, BeginRows DEF LogoutStep
<1>4. ASSUME NEW t \in Tabs, AnswerStep(t) PROVE Rows' /\ NoReturn
  BY <1>4, AnswerRows
<1>5. ASSUME NEW e \in Pairs, ExpireAccess(e) PROVE Rows' /\ NoReturn
  BY <1>5, ExpireRows
<1>6. CASE Next
  BY <1>1, <1>2, <1>3, <1>4, <1>5, <1>6 DEF Next
<1>7. CASE ~Next
  <2>1. vars' = vars
    BY <1>7
  <2> QED
    BY <1>7, <2>1 DEF vars, Rows, TypeOK, codeRows, tokenRows, past, Undrawn, Distinct, Fresh
<1> QED
  BY <1>6, <1>7

\* Every variable keeps its shape; a request always has the pair it needs.
THEOREM TypeCorrect == Spec => []TypeOK
<1>1. Rows => TypeOK
  BY DEF Rows
<1> QED
  BY RowsInit, RowsStep, <1>1, PTL DEF Spec

\* Used and revoked tokens stay so, for any number of tabs, pairs and codes.
THEOREM TokensStayDead == Spec => NoResurrection
<1>1. Rows /\ [Next]_vars => [NoReturn]_vars
  BY RowsStep
<1>2. [NoReturn]_vars <=> [\A p \in Pairs :
           /\ refresh[p] \in {"rotated", "revoked"} => refresh'[p] # "active"
           /\ access[p] = "invalid" => access'[p] # "valid"]_vars
  BY DEF NoReturn
<1> QED
  BY RowsInit, RowsStep, <1>1, <1>2, PTL DEF Spec, NoResurrection

----------------------------------------------------------------------------
(* Requests that are alone.                                                *)

\* While a token request works, nobody else's path matters.
LEMMA WorkOthers ==
    ASSUME IInv, NEW t \in Tabs, NEW pc \in TokenPcs \cup {"idle"}, NEW new, NEW cookie,
           NEW code, Moved(t, pc, new, cookie, code), tab[t].pc \in TokenPcs,
           UNCHANGED <<codeRows, crowd>>
    PROVE  Others(t)'
<1> USE DEF IInv
<1>1. /\ tab'[t].pc = pc /\ \A u \in Tabs \ {t} : tab'[u] = tab[u]
      /\ UNCHANGED <<codes, asked, inbox, codeAlone, crowd>>
  BY DEF Moved, codeRows
<1>2. pc \notin CodePcs /\ tab[t].pc \notin CodePcs
  BY DEF TokenPcs, CodePcs
<1>3. ASSUME NEW u \in Tabs PROVE Solo(u)'
  <2> SUFFICES ASSUME u \notin crowd, NEW w \in Tabs \ {u}
               PROVE  /\ tab'[u].pc \in TokenPcs => tab'[w].pc \notin TokenPcs
                      /\ tab'[u].pc \in CodePcs => tab'[w].pc \notin CodePcs
    BY <1>1 DEF Solo
  <2>1. /\ tab[u].pc \in TokenPcs => tab[w].pc \notin TokenPcs
        /\ tab[u].pc \in CodePcs => tab[w].pc \notin CodePcs
    BY DEF Solo
  <2>2. \A v \in Tabs : /\ tab'[v].pc \in TokenPcs => tab[v].pc \in TokenPcs
                        /\ tab'[v].pc \in CodePcs => tab[v].pc \in CodePcs
    BY <1>1, <1>2
  <2> QED
    BY <2>1, <2>2
<1>4. ASSUME NEW u \in Tabs PROVE CodePath(u)'
  <2>1. CASE u = t
    BY <1>1, <1>2, <2>1 DEF CodePath, At, CodePcs
  <2>2. CASE u # t
    BY <1>1, <2>2 DEF CodePath, At
  <2> QED
    BY <2>1, <2>2
<1>5. ASSUME NEW u \in Tabs \ {t} PROVE Path(u)'
  <2> SUFFICES ASSUME u \notin crowd PROVE Path(u)'
    BY <1>1 DEF Path
  <2>1. tab[u].pc \notin TokenPcs
    BY DEF Solo
  <2>2. tab'[u].pc \notin TokenPcs
    BY <1>1, <2>1
  <2> QED
    BY <2>2 DEF Path, At, TokenPcs
<1>6. CodeDone'
  BY <1>1, <1>2 DEF CodeDone
<1> QED
  BY <1>3, <1>4, <1>5, <1>6 DEF Others

\* A request on its way: nothing is settled, and no dead device comes alive.
LEMMA WorkPast ==
    ASSUME IInv, NEW t \in Tabs, NEW pc \in TokenPcs, NEW new, NEW cookie,
           NEW code, Moved(t, pc, new, cookie, code), tab[t].pc \in TokenPcs,
           UNCHANGED past, pc \in Drawn => tab[t].pc \in Drawn,
           \A p \in Pairs : refresh'[p] = "active" => refresh[p] = "active" \/ tab[t].pc \in Drawn,
           \A p \in Pairs : access'[p] = "valid" => access[p] = "valid" \/ tab[t].pc \in Drawn
    PROVE  Settled' /\ Kept' /\ Gone'
<1> USE DEF IInv
<1>1. /\ tab'[t].pc = pc /\ \A u \in Tabs \ {t} : tab'[u] = tab[u]
      /\ UNCHANGED <<settled, clean, out>>
  BY DEF Moved, past
<1>2. ~Quiet /\ ~Quiet'
  BY <1>1 DEF Quiet
<1>3. Settled' /\ Kept'
  BY <1>1, <1>2 DEF Settled, Kept
<1>4. Gone'
  <2> SUFFICES ASSUME out PROVE Active' = {} /\ NoValid' /\ \A u \in Tabs : tab'[u].pc \notin Drawn
    BY <1>1 DEF Gone
  <2>1. Active = {} /\ NoValid /\ \A u \in Tabs : tab[u].pc \notin Drawn
    BY DEF Gone
  <2>2. Active' = {}
    BY <2>1 DEF Active
  <2>3. NoValid'
    BY <2>1 DEF NoValid
  <2> QED
    BY <1>1, <2>1, <2>2, <2>3
<1> QED
  BY <1>3, <1>4

LEMMA WorkAlone ==
    ASSUME IInv, NEW t \in Tabs, NEW pc \in TokenPcs, Goto(t, pc), tab[t].pc \in TokenPcs,
           Rows', UNCHANGED <<codeRows, crowd, past>>, pc \in Drawn => tab[t].pc \in Drawn,
           \A p \in Pairs : refresh'[p] = "active" => refresh[p] = "active" \/ tab[t].pc \in Drawn,
           \A p \in Pairs : access'[p] = "valid" => access[p] = "valid" \/ tab[t].pc \in Drawn,
           Path(t)'
    PROVE  IInv'
<1>1. Moved(t, pc, tab[t].new, tab[t].cookie, tab[t].code)
  BY GotoMoves DEF IInv, Rows, TypeOK, AllPcs
<1>2. Others(t)'
  BY <1>1, WorkOthers
<1>3. Settled' /\ Kept' /\ Gone'
  BY <1>1, WorkPast
<1> QED
  BY <1>2, <1>3 DEF IInv, Others

(* One lemma per kind of statement; the rows are in the lemmas above.       *)

\* What Goto says of the tab that moves.
LEMMA GotoTab ==
    ASSUME TypeOK, NEW t \in Tabs, NEW pc \in TokenPcs, Goto(t, pc)
    PROVE  tab'[t].pc = pc /\ tab'[t].new = tab[t].new /\ tab'[t].cookie = tab[t].cookie
BY GotoMoves DEF TypeOK, AllPcs, Moved

LEMMA AloneWork ==
    ASSUME IInv, Rows', NEW t \in Tabs,
           \/ LoginDeleteAccess(t) \/ LoginDeleteRefresh(t)
           \/ RevokeDuplicates(t) \/ RefreshRevokeAccess(t) \/ RefreshRotate(t)
           \/ LogoutAccess(t)
    PROVE  IInv'
<1>0. /\ TypeOK /\ access \in [Pairs -> AccessStates] /\ refresh \in [Pairs -> RefreshStates]
      /\ Path(t)
  BY DEF IInv, Rows, TypeOK
<1>1. CASE LoginDeleteAccess(t)
  <2>1. /\ Goto(t, "login_refresh") /\ tab[t].pc = "login_access"
        /\ UNCHANGED <<codeRows, crowd, past>> /\ clean' = clean /\ crowd' = crowd
    BY <1>1 DEF LoginDeleteAccess, At, past
  <2>2. /\ tab'[t].pc = "login_refresh" /\ tab'[t].new = tab[t].new
        /\ tab'[t].cookie = tab[t].cookie
    BY <1>0, <2>1, GotoTab DEF TokenPcs
  <2>3. /\ \A p \in Pairs : refresh'[p] = "active" => refresh[p] = "active"
        /\ \A p \in Pairs : access'[p] = "valid" => access[p] = "valid"
    BY <1>0, <1>1 DEF LoginDeleteAccess, tokenRows
  <2>5. Path(t)'
    BY <2>2 DEF Path, At
  <2>6. /\ "login_refresh" \in TokenPcs /\ tab[t].pc \in TokenPcs
        /\ "login_refresh" \in Drawn => tab[t].pc \in Drawn
    BY <2>1 DEF TokenPcs, Drawn
  <2> QED
    BY <2>1, <2>3, <2>5, <2>6, WorkAlone
<1>2. CASE LoginDeleteRefresh(t)
  <2>1. /\ Goto(t, "login_new_access") /\ tab[t].pc = "login_refresh"
        /\ UNCHANGED <<codeRows, crowd, past>> /\ clean' = clean /\ crowd' = crowd
    BY <1>2 DEF LoginDeleteRefresh, At, past
  <2>2. /\ tab'[t].pc = "login_new_access" /\ tab'[t].new = tab[t].new
        /\ tab'[t].cookie = tab[t].cookie
    BY <1>0, <2>1, GotoTab DEF TokenPcs
  <2>3. /\ \A p \in Pairs : refresh'[p] = "active" => refresh[p] = "active"
        /\ \A p \in Pairs : access'[p] = "valid" => access[p] = "valid"
    BY <1>0, <1>2 DEF LoginDeleteRefresh, tokenRows
  <2>4. Active' = {}
    BY <1>0, <1>2, <2>1 DEF LoginDeleteRefresh, Active, Path, At, past, AccessStates, RefreshStates
  <2>5. Path(t)'
    BY <2>1, <2>2, <2>4 DEF Path, At, AtMostOne
  <2>6. /\ "login_new_access" \in TokenPcs /\ tab[t].pc \in TokenPcs
        /\ "login_new_access" \in Drawn => tab[t].pc \in Drawn
    BY <2>1 DEF TokenPcs, Drawn
  <2> QED
    BY <2>1, <2>3, <2>5, <2>6, WorkAlone
<1>3. CASE RevokeDuplicates(t)
  <2>1. /\ Goto(t, "answer_401") /\ tab[t].pc = "duplicates"
        /\ UNCHANGED <<codeRows, crowd, past>> /\ clean' = clean /\ crowd' = crowd
    BY <1>3 DEF RevokeDuplicates, At, past
  <2>2. /\ tab'[t].pc = "answer_401" /\ tab'[t].new = tab[t].new
        /\ tab'[t].cookie = tab[t].cookie
    BY <1>0, <2>1, GotoTab DEF TokenPcs
  <2>3. /\ \A p \in Pairs : refresh'[p] = "active" => refresh[p] = "active"
        /\ \A p \in Pairs : access'[p] = "valid" => access[p] = "valid"
    BY <1>0, <1>3 DEF RevokeDuplicates, Revoked, tokenRows
  <2>4. Active' = {} /\ (t \notin crowd => ~clean')
    BY <1>0, <1>3, <2>1 DEF RevokeDuplicates, Revoked, Active, Path, At, past, AccessStates, RefreshStates
  <2>5. Path(t)'
    BY <2>1, <2>2, <2>4 DEF Path, At, AtMostOne
  <2>6. /\ "answer_401" \in TokenPcs /\ tab[t].pc \in TokenPcs
        /\ "answer_401" \in Drawn => tab[t].pc \in Drawn
    BY <2>1 DEF TokenPcs, Drawn
  <2> QED
    BY <2>1, <2>3, <2>5, <2>6, WorkAlone
<1>4. CASE RefreshRevokeAccess(t)
  <2>1. /\ Goto(t, "refresh_new_access") /\ tab[t].pc = "refresh_access"
        /\ UNCHANGED <<codeRows, crowd, past>> /\ clean' = clean /\ crowd' = crowd
    BY <1>4 DEF RefreshRevokeAccess, At, past
  <2>2. /\ tab'[t].pc = "refresh_new_access" /\ tab'[t].new = tab[t].new
        /\ tab'[t].cookie = tab[t].cookie
    BY <1>0, <2>1, GotoTab DEF TokenPcs
  <2>3. /\ \A p \in Pairs : refresh'[p] = "active" => refresh[p] = "active"
        /\ \A p \in Pairs : access'[p] = "valid" => access[p] = "valid"
    BY <1>0, <1>4 DEF RefreshRevokeAccess, Invalidated, tokenRows
  <2>4. Active' = Active /\ (t \notin crowd => Active = {tab[t].cookie})
    BY <1>0, <1>4, <2>1 DEF RefreshRevokeAccess, Invalidated, Active, Path, At, past, AccessStates, RefreshStates
  <2>5. Path(t)'
    BY <2>1, <2>2, <2>4 DEF Path, At, AtMostOne
  <2>6. /\ "refresh_new_access" \in TokenPcs /\ tab[t].pc \in TokenPcs
        /\ "refresh_new_access" \in Drawn => tab[t].pc \in Drawn
    BY <2>1 DEF TokenPcs, Drawn
  <2> QED
    BY <2>1, <2>3, <2>5, <2>6, WorkAlone
<1>5. CASE RefreshRotate(t)
  <2>1. /\ Goto(t, "answer_tokens") /\ tab[t].pc = "refresh_rotate"
        /\ UNCHANGED <<codeRows, crowd, past>> /\ clean' = clean /\ crowd' = crowd
    BY <1>5 DEF RefreshRotate, At, past
  <2>2. /\ tab'[t].pc = "answer_tokens" /\ tab'[t].new = tab[t].new
        /\ tab'[t].cookie = tab[t].cookie
    BY <1>0, <2>1, GotoTab DEF TokenPcs
  <2>3. /\ \A p \in Pairs : refresh'[p] = "active" => refresh[p] = "active"
        /\ \A p \in Pairs : access'[p] = "valid" => access[p] = "valid"
    BY <1>0, <1>5 DEF RefreshRotate, tokenRows
  <2>4. t \notin crowd => Active' = {tab[t].new}
    BY <1>0, <1>5, <2>1 DEF RefreshRotate, Active, Path, At, past, AccessStates, RefreshStates
  <2>5. Path(t)'
    BY <2>1, <2>2, <2>4 DEF Path, At, AtMostOne
  <2>6. /\ "answer_tokens" \in TokenPcs /\ tab[t].pc \in TokenPcs
        /\ "answer_tokens" \in Drawn => tab[t].pc \in Drawn
    BY <2>1 DEF TokenPcs, Drawn
  <2> QED
    BY <2>1, <2>3, <2>5, <2>6, WorkAlone
<1>6. CASE LogoutAccess(t)
  <2>1. /\ Goto(t, "logout_refresh") /\ tab[t].pc = "logout_access"
        /\ UNCHANGED <<codeRows, crowd, past>> /\ clean' = clean /\ crowd' = crowd
    BY <1>6 DEF LogoutAccess, At, past
  <2>2. /\ tab'[t].pc = "logout_refresh" /\ tab'[t].new = tab[t].new
        /\ tab'[t].cookie = tab[t].cookie
    BY <1>0, <2>1, GotoTab DEF TokenPcs
  <2>3. /\ \A p \in Pairs : refresh'[p] = "active" => refresh[p] = "active"
        /\ \A p \in Pairs : access'[p] = "valid" => access[p] = "valid"
    BY <1>0, <1>6 DEF LogoutAccess, Invalidated, tokenRows
  <2>4. /\ NoValid' /\ UNCHANGED <<Active, jar, clean>> /\ (t \notin crowd /\ clean => Matches)
    BY <1>0, <1>6, <2>1 DEF LogoutAccess, Invalidated, Active, Path, At, past, AccessStates, RefreshStates, NoValid, Matches
  <2>5. Path(t)'
    BY <2>1, <2>2, <2>4 DEF Path, At, AtMostOne, Matches
  <2>6. /\ "logout_refresh" \in TokenPcs /\ tab[t].pc \in TokenPcs
        /\ "logout_refresh" \in Drawn => tab[t].pc \in Drawn
    BY <2>1 DEF TokenPcs, Drawn
  <2> QED
    BY <2>1, <2>3, <2>5, <2>6, WorkAlone
<1> QED
  BY <1>1, <1>2, <1>3, <1>4, <1>5, <1>6

LEMMA AloneLogout ==
    ASSUME IInv, Rows', NEW t \in Tabs, LogoutRefresh(t)
    PROVE  IInv'
<1>0. /\ TypeOK /\ refresh \in [Pairs -> RefreshStates] /\ Path(t) /\ Solo(t)
  BY DEF IInv, Rows, TypeOK
<1>1. /\ Goto(t, "answer_bye") /\ tab[t].pc = "logout_refresh" /\ out' = (t \notin crowd)
      /\ UNCHANGED <<codeRows, crowd, settled, clean, access>> /\ crowd' = crowd
  BY DEF LogoutRefresh, At
<1>2. Moved(t, "answer_bye", tab[t].new, tab[t].cookie, tab[t].code)
  BY <1>0, <1>1, GotoMoves DEF TypeOK, AllPcs, TokenPcs
<1>3. "answer_bye" \in TokenPcs /\ tab[t].pc \in TokenPcs
  BY <1>1 DEF TokenPcs
<1>4. Others(t)'
  BY <1>1, <1>2, <1>3, WorkOthers
<1>5. tab'[t].pc = "answer_bye" /\ \A u \in Tabs \ {t} : tab'[u] = tab[u]
  BY <1>2 DEF Moved
<1>6. Active' = {}
  BY <1>0 DEF LogoutRefresh, Revoked, Active
<1>7. Path(t)'
  BY <1>5, <1>6 DEF Path, At
<1>8. ~Quiet /\ ~Quiet'
  BY <1>3, <1>5 DEF Quiet
<1>9. Settled' /\ Kept'
  BY <1>1, <1>8 DEF IInv, Settled, Kept
<1>10. Gone'
  <2> SUFFICES ASSUME t \notin crowd
               PROVE  Active' = {} /\ NoValid' /\ \A u \in Tabs : tab'[u].pc \notin Drawn
    BY <1>1 DEF Gone
  <2>1. NoValid'
    BY <1>0, <1>1 DEF Path, At, NoValid
  <2>2. \A u \in Tabs \ {t} : tab[u].pc \notin TokenPcs
    BY <1>0, <1>3 DEF Solo
  <2> QED
    BY <1>5, <1>6, <2>1, <2>2 DEF Drawn, TokenPcs
<1> QED
  BY <1>4, <1>7, <1>9, <1>10 DEF IInv, Others

LEMMA AloneCreate ==
    ASSUME IInv, Rows', NEW t \in Tabs,
           \/ LoginCreateAccess(t) \/ LoginCreateRefresh(t)
           \/ RefreshCreateAccess(t) \/ RefreshCreate(t)
    PROVE  IInv'
<1> USE PairsFacts
<1>0. /\ TypeOK /\ access \in [Pairs -> AccessStates] /\ refresh \in [Pairs -> RefreshStates]
      /\ Path(t) /\ Fresh(t) /\ issued \in 0 .. MaxPairs
  BY DEF IInv, Rows, TypeOK
<1>1. ASSUME NEW from \in {"login_new_access", "refresh_new_access"}, NEW to \in Halfway,
             CreateAccess(t, from, to),
             from = "login_new_access" <=> to = "login_new_refresh"
      PROVE  IInv'
  <2>1. /\ Goto(t, to) /\ tab[t].pc = from /\ refresh' = refresh
        /\ UNCHANGED <<codeRows, crowd, past>> /\ crowd' = crowd
    BY <1>1 DEF CreateAccess, At, past
  <2>2. /\ to \in TokenPcs /\ tab[t].pc \in TokenPcs /\ tab[t].pc \in Drawn
    BY <1>1, <2>1 DEF TokenPcs, Drawn, Halfway
  <2>3. tab'[t].pc = to /\ tab'[t].cookie = tab[t].cookie
    BY <1>0, <2>1, <2>2, GotoTab
  <2>4. Active' = Active
    BY <2>1 DEF Active
  <2>5. Path(t)'
    BY <1>0, <1>1, <2>1, <2>3, <2>4 DEF Path, At, Halfway
  <2> QED
    BY <2>1, <2>2, <2>5, WorkAlone
<1>2. ASSUME NEW from \in Halfway, NEW to \in {"answer_tokens", "refresh_rotate"},
             CreateRefresh(t, from, to),
             from = "login_new_refresh" <=> to = "answer_tokens"
      PROVE  IInv'
  <2>1. /\ Goto(t, to) /\ tab[t].pc = from /\ access' = access
        /\ refresh' = [refresh EXCEPT ![tab[t].new] = "active"]
        /\ UNCHANGED <<codeRows, crowd, past>> /\ crowd' = crowd
    BY <1>2 DEF CreateRefresh, At, past
  <2>2. /\ to \in TokenPcs /\ tab[t].pc \in TokenPcs /\ tab[t].pc \in Drawn
    BY <1>2, <2>1 DEF TokenPcs, Drawn, Halfway
  <2>3. tab'[t].pc = to /\ tab'[t].cookie = tab[t].cookie /\ tab'[t].new = tab[t].new
    BY <1>0, <2>1, <2>2, GotoTab
  <2>4. tab[t].new \in Pairs /\ refresh[tab[t].new] = "none"
    BY <1>0, <2>2 DEF Fresh
  <2>5. Active' = Active \cup {tab[t].new} /\ tab[t].new \notin Active
    BY <1>0, <2>1, <2>4 DEF Active
  <2>6. Path(t)'
    <3>1. CASE to = "answer_tokens"
      BY <1>0, <1>2, <2>1, <2>3, <2>5, <3>1 DEF Path, At
    <3>2. CASE to = "refresh_rotate"
      <4>1. t \notin crowd => Active = {tab[t].cookie}
        BY <1>0, <1>2, <2>1, <3>2 DEF Path, Halfway
      <4> QED
        BY <2>1, <2>3, <2>5, <3>2, <4>1 DEF Path, At
    <3> QED
      BY <3>1, <3>2
  <2> QED
    BY <2>1, <2>2, <2>6, WorkAlone
<1> QED
  BY <1>1, <1>2 DEF LoginCreateAccess, LoginCreateRefresh, RefreshCreateAccess, RefreshCreate, Halfway

LEMMA ActiveFinite == IsFiniteSet(Active) /\ Cardinality(Active) \in Nat
<1>1. IsFiniteSet(Pairs)
  BY PairsFacts, FS_Interval
<1> QED
  BY <1>1, FS_Subset, FS_CardinalityType DEF Active

\* One active pair at most, as the code counts it.
LEMMA AtMostOneCard == TypeOK => (AtMostOne <=> Cardinality(Active) <= 1)
<1> SUFFICES ASSUME TypeOK PROVE AtMostOne <=> Cardinality(Active) <= 1
  OBVIOUS
<1>1. IsFiniteSet(Active) /\ Cardinality(Active) \in Nat
  BY ActiveFinite
<1>2. ASSUME AtMostOne PROVE Cardinality(Active) <= 1
  <2>1. CASE Active = {}
    BY <2>1, FS_EmptySet
  <2>2. CASE Active # {}
    <3>1. PICK p \in Active : TRUE
      BY <2>2
    <3>2. Active = {p}
      BY <1>2, <3>1 DEF AtMostOne
    <3>3. Cardinality({p}) = 1
      BY FS_Singleton
    <3> QED
      BY <3>2, <3>3
  <2> QED
    BY <2>1, <2>2
<1>3. ASSUME Cardinality(Active) <= 1, NEW p \in Active, NEW q \in Active, p # q PROVE FALSE
  <2>1. IsFiniteSet({p}) /\ Cardinality({p}) = 1 /\ q \notin {p}
    BY <1>3, FS_Singleton
  <2>2. Cardinality({p} \cup {q}) = 2
    BY <2>1, FS_AddElement
  <2>3. {p} \cup {q} \subseteq Active
    BY <1>3
  <2>4. Cardinality({p} \cup {q}) <= Cardinality(Active)
    BY <1>1, <2>3, FS_Subset
  <2> QED
    BY <1>1, <1>3, <2>2, <2>4
<1> QED
  BY <1>2, <1>3 DEF AtMostOne

\* A token request begins: whoever else is at work joins the crowd with it.
LEMMA BeginOthers ==
    ASSUME IInv, NEW t \in Tabs, NEW pc \in TokenPcs, NEW new, NEW cookie, NEW code,
           Moved(t, pc, new, cookie, code), tab[t].pc = "idle", Overlap(t, TokenPcs),
           UNCHANGED codeRows
    PROVE  Others(t)' /\ (t \notin crowd' => Quiet) /\ ~Quiet'
<1> DEFINE others == {u \in Tabs \ {t} : tab[u].pc \in TokenPcs}
<1>1. /\ tab'[t].pc = pc /\ \A u \in Tabs \ {t} : tab'[u] = tab[u]
      /\ UNCHANGED <<codes, asked, inbox, codeAlone>>
  BY DEF Moved, codeRows
<1>2. pc \notin CodePcs /\ tab[t].pc \notin CodePcs /\ tab[t].pc \notin TokenPcs
  BY DEF TokenPcs, CodePcs
<1>3. /\ t \notin crowd' => others = {}
      /\ \A u \in Tabs \ {t} : u \notin crowd' => u \notin crowd /\ tab[u].pc \notin TokenPcs
  BY DEF Overlap
<1>4. ASSUME NEW u \in Tabs PROVE Solo(u)'
  <2> SUFFICES ASSUME u \notin crowd', NEW w \in Tabs \ {u}
               PROVE  /\ tab'[u].pc \in TokenPcs => tab'[w].pc \notin TokenPcs
                      /\ tab'[u].pc \in CodePcs => tab'[w].pc \notin CodePcs
    BY DEF Solo
  <2>1. CASE u = t
    BY <1>1, <1>2, <1>3, <2>1
  <2>2. CASE u # t
    <3>1. tab'[u] = tab[u] /\ u \notin crowd /\ tab[u].pc \notin TokenPcs
      BY <1>1, <1>3, <2>2
    <3>2. tab[u].pc \in CodePcs => tab[w].pc \notin CodePcs
      BY <3>1 DEF IInv, Solo
    <3>3. tab'[w].pc \in CodePcs => tab[w].pc \in CodePcs
      BY <1>1, <1>2
    <3> QED
      BY <3>1, <3>2, <3>3
  <2> QED
    BY <2>1, <2>2
<1>5. ASSUME NEW u \in Tabs PROVE CodePath(u)'
  <2>1. CASE u = t
    BY <1>1, <1>2, <2>1 DEF CodePath, At, CodePcs
  <2>2. CASE u # t
    BY <1>1, <1>3, <2>2 DEF IInv, CodePath, At
  <2> QED
    BY <2>1, <2>2
<1>6. ASSUME NEW u \in Tabs \ {t} PROVE Path(u)'
  <2> SUFFICES ASSUME u \notin crowd' PROVE Path(u)'
    BY DEF Path
  <2>1. tab'[u].pc \notin TokenPcs
    BY <1>1, <1>3
  <2> QED
    BY <2>1 DEF Path, At, TokenPcs
<1>7. CodeDone'
  BY <1>1, <1>2 DEF IInv, CodeDone
<1>8. t \notin crowd' => Quiet
  BY <1>2, <1>3 DEF Quiet
<1>9. ~Quiet'
  BY <1>1 DEF Quiet
<1> QED
  BY <1>4, <1>5, <1>6, <1>7, <1>8, <1>9 DEF Others

LEMMA AloneBegin ==
    ASSUME IInv, Rows', NEW t \in Tabs, VerifyCode(t) \/ RefreshRead(t) \/ Logout(t)
    PROVE  IInv'
<1> USE PairsFacts
<1>0. TypeOK /\ Kept /\ Gone /\ tab \in [Tabs -> TabRecord] /\ jar \in 0 .. MaxPairs
  BY DEF IInv, Rows, TypeOK
<1>1. CASE VerifyCode(t)
  <2>1. Moved(t, "login_access", issued + 1, tab[t].cookie, tab[t].code)
    BY <1>0, <1>1, VerifyMoves
  <2>2. /\ UNCHANGED codeRows /\ tab[t].pc = "idle" /\ Overlap(t, TokenPcs)
        /\ settled' = FALSE /\ clean' = FALSE /\ out' = FALSE /\ "login_access" \in TokenPcs
    BY <1>1 DEF VerifyCode, Begin, At, TokenPcs
  <2>3. Others(t)' /\ ~Quiet'
    BY <2>1, <2>2, BeginOthers
  <2>4. Path(t)'
    BY <2>1 DEF Moved, Path, At
  <2>5. Settled' /\ Kept' /\ Gone'
    BY <2>2 DEF Settled, Kept, Gone
  <2> QED
    BY <2>3, <2>4, <2>5 DEF IInv, Others
<1>2. CASE RefreshRead(t)
  <2>1. PICK pc \in {"duplicates", "refresh_access", "answer_401"}, new \in 0 .. MaxPairs :
             ReadTo(t, pc, new)
    BY <1>0, <1>2, ReadMoves
  <2>2. /\ UNCHANGED <<codeRows, access, refresh, jar, clean, out>> /\ tab[t].pc = "idle"
        /\ Overlap(t, TokenPcs) /\ settled' = FALSE /\ jar # 0
    BY <1>2 DEF RefreshRead, Begin, At, tokenRows
  <2>3. Moved(t, pc, new, jar, tab[t].code) /\ pc \in TokenPcs
    BY <2>1 DEF ReadTo, TokenPcs
  <2>4. Others(t)' /\ (t \notin crowd' => Quiet) /\ ~Quiet'
    BY <2>2, <2>3, BeginOthers
  <2>5. /\ tab'[t].pc = pc /\ tab'[t].cookie = jar /\ \A u \in Tabs \ {t} : tab'[u] = tab[u]
        /\ Active' = Active
    BY <2>2, <2>3 DEF Moved, Active
  <2>6. Settled' /\ Kept'
    BY <2>2, <2>4 DEF Settled, Kept
  <2>7. Matches => AtMostOne
    BY DEF Matches, AtMostOne
  <2>8. Path(t)'
    <3> SUFFICES ASSUME t \notin crowd' PROVE Path(t)'
      BY DEF Path
    <3>1. Quiet /\ (clean => Matches)
      BY <1>0, <2>4 DEF Kept
    <3>2. CASE pc = "duplicates"
      <4>1. ~AtMostOne
        <5>1. Cardinality(Active) > 1
          BY <2>1, <3>2 DEF ReadTo
        <5>2. IsFiniteSet(Active) /\ Cardinality(Active) \in Nat
          BY ActiveFinite
        <5> QED
          BY <1>0, <5>1, <5>2, AtMostOneCard
      <4> QED
        BY <2>2, <2>5, <2>7, <3>1, <3>2, <4>1 DEF Path, At
    <3>3. CASE pc = "refresh_access"
      <4>1. Active = {jar}
        BY <2>1, <3>3 DEF ReadTo
      <4> QED
        BY <2>5, <3>3, <4>1 DEF Path, At
    <3>4. CASE pc = "answer_401"
      <4>1. AtMostOne
        BY <1>0, <2>1, <3>4, AtMostOneCard DEF ReadTo
      <4> QED
        BY <2>2, <2>5, <3>1, <3>4, <4>1 DEF Path, At, AtMostOne, Matches
    <3> QED
      BY <3>2, <3>3, <3>4
  <2>9. Gone'
    <3>1. pc = "refresh_access" => Active = {jar}
      BY <2>1 DEF ReadTo
    <3>2. pc # "refresh_access" => pc \notin Drawn
      BY DEF Drawn
    <3>3. NoValid' <=> NoValid
      BY <2>2 DEF NoValid
    <3> QED
      BY <1>0, <2>2, <2>5, <3>1, <3>2, <3>3 DEF Gone
  <2> QED
    BY <2>4, <2>6, <2>8, <2>9 DEF IInv, Others
<1>3. CASE Logout(t)
  <2>1. Moved(t, "logout_access", tab[t].new, tab[t].cookie, tab[t].code)
    BY <1>0, <1>3, GotoMoves DEF Logout, AllPcs, TokenPcs
  <2>2. /\ UNCHANGED <<codeRows, access, refresh, jar, clean, out>> /\ tab[t].pc = "idle"
        /\ Overlap(t, TokenPcs) /\ settled' = FALSE /\ "logout_access" \in TokenPcs
    BY <1>3 DEF Logout, Begin, At, tokenRows, TokenPcs
  <2>3. Others(t)' /\ (t \notin crowd' => Quiet) /\ ~Quiet'
    BY <2>1, <2>2, BeginOthers
  <2>4. /\ tab'[t].pc = "logout_access" /\ \A u \in Tabs \ {t} : tab'[u] = tab[u]
        /\ Active' = Active /\ (NoValid' <=> NoValid)
    BY <2>1, <2>2 DEF Moved, Active, NoValid
  <2>5. Path(t)'
    BY <1>0, <2>2, <2>3, <2>4 DEF Path, At, Kept, Matches
  <2>6. Settled' /\ Kept' /\ Gone'
    BY <1>0, <2>2, <2>3, <2>4 DEF Settled, Kept, Gone, Drawn
  <2> QED
    BY <2>3, <2>5, <2>6 DEF IInv, Others
<1> QED
  BY <1>1, <1>2, <1>3

\* The end of a token request, in whatever way.
LEMMA AloneEnd ==
    ASSUME IInv, Rows', NEW t \in Tabs, tab[t].pc \in TokenPcs,
           AnswerTokens(t) \/ Answer401(t) \/ AnswerBye(t) \/ Lost(t)
    PROVE  IInv'
<1> USE PairsFacts
<1>0. /\ TypeOK /\ tab[t].new \in 0 .. MaxPairs /\ tab[t].held \in 0 .. MaxPairs
      /\ Path(t) /\ Solo(t) /\ Settled /\ Gone
  BY DEF IInv, Rows, TypeOK, TabRecord
<1>1. \E held \in 0 .. MaxPairs : Done(t, held)
  BY <1>0 DEF AnswerTokens, Answer401, AnswerBye, Lost
<1>2. Moved(t, "idle", 0, 0, 0)
  BY <1>0, <1>1, DoneMoves DEF TypeOK
<1>3. UNCHANGED <<codeRows, access, refresh, crowd, out>>
  BY DEF AnswerTokens, Answer401, AnswerBye, Lost, tokenRows
<1>4. Others(t)'
  BY <1>2, <1>3, WorkOthers
<1>5. /\ tab'[t].pc = "idle" /\ \A u \in Tabs \ {t} : tab'[u] = tab[u]
      /\ Active' = Active /\ (NoValid' <=> NoValid) /\ (AtMostOne' <=> AtMostOne)
  BY <1>2, <1>3 DEF Moved, Active, NoValid, AtMostOne
<1>6. Path(t)'
  BY <1>5 DEF Path, At
<1>7. Gone'
  BY <1>0, <1>3, <1>5 DEF Gone, Drawn
<1>8. t \notin crowd => Quiet'
  BY <1>0, <1>5 DEF Solo, Quiet, TokenPcs
<1>9. ~settled
  BY <1>0 DEF Settled, Quiet
<1>10. Settled' /\ Kept'
  <2>1. CASE AnswerTokens(t)
    <3>1. /\ tab[t].pc = "answer_tokens" /\ jar' = tab[t].new
          /\ clean' = (t \notin crowd /\ (tab[t].cookie = 0 \/ clean)) /\ settled' = (t \notin crowd)
      BY <2>1 DEF AnswerTokens, At
    <3>2. t \notin crowd => Active = {tab[t].new}
      BY <1>0, <3>1 DEF Path, At
    <3>3. t \notin crowd => AtMostOne
      BY <3>2 DEF AtMostOne
    <3>4. t \notin crowd => tab[t].new # 0
      BY <3>2 DEF Active
    <3>5. t \notin crowd => Active' = {jar'} \ {0}
      BY <1>5, <3>1, <3>2, <3>4
    <3>6. Kept'
      BY <3>1, <3>5 DEF Kept, Matches
    <3> QED
      BY <1>5, <1>8, <3>1, <3>3, <3>6 DEF Settled
  <2>2. CASE Answer401(t)
    <3>1. /\ tab[t].pc = "answer_401" /\ jar' = jar
          /\ clean' = (t \notin crowd /\ clean) /\ settled' = (t \notin crowd)
      BY <2>2 DEF Answer401, At
    <3>2. t \notin crowd => AtMostOne /\ (clean => Matches)
      BY <1>0, <3>1 DEF Path, At
    <3>3. Kept'
      BY <1>5, <3>1, <3>2 DEF Kept, Matches
    <3> QED
      BY <1>5, <1>8, <3>1, <3>2, <3>3 DEF Settled
  <2>3. CASE AnswerBye(t)
    <3>1. /\ tab[t].pc = "answer_bye" /\ jar' = 0
          /\ clean' = (t \notin crowd /\ clean) /\ settled' = (t \notin crowd)
      BY <2>3 DEF AnswerBye, At
    <3>2. t \notin crowd => Active = {}
      BY <1>0, <3>1 DEF Path, At
    <3>3. t \notin crowd => AtMostOne
      BY <3>2 DEF AtMostOne
    <3>4. Kept'
      BY <1>5, <3>1, <3>2 DEF Kept, Matches
    <3> QED
      BY <1>5, <1>8, <3>1, <3>3, <3>4 DEF Settled
  <2>4. CASE Lost(t)
    <3>1. tab[t].pc \notin CodePcs
      BY DEF TokenPcs, CodePcs
    <3>2. settled' = settled /\ ~clean'
      BY <2>4, <3>1 DEF Lost
    <3> QED
      BY <1>9, <3>2 DEF Settled, Kept
  <2> QED
    BY <2>1, <2>2, <2>3, <2>4
<1> QED
  BY <1>4, <1>6, <1>7, <1>10 DEF IInv, Others

\* Requests for a code leave the token rows and requests alone.
LEMMA CodePast ==
    ASSUME IInv, NEW t \in Tabs, NEW pc \in CodePcs \cup {"idle"}, NEW new, NEW cookie, NEW code,
           Moved(t, pc, new, cookie, code), tab[t].pc \in CodePcs \cup {"idle"},
           UNCHANGED <<access, refresh, jar, settled, clean, out>>,
           \A u \in Tabs \ {t} : u \notin crowd' => u \notin crowd
    PROVE  Settled' /\ Kept' /\ Gone' /\ \A u \in Tabs : Path(u)'
<1>1. /\ tab'[t].pc = pc /\ \A u \in Tabs \ {t} : tab'[u] = tab[u]
      /\ (NoValid' <=> NoValid) /\ (AtMostOne' <=> AtMostOne) /\ (Matches' <=> Matches)
  BY DEF Moved, Active, NoValid, AtMostOne, Matches
<1>2. Active' = Active
  BY DEF Active
<1>3. pc \notin TokenPcs /\ tab[t].pc \notin TokenPcs
  BY DEF TokenPcs, CodePcs
<1>4. Quiet' <=> Quiet
  BY <1>1, <1>3 DEF Quiet
<1>5. Settled' /\ Kept'
  BY <1>1, <1>4 DEF IInv, Settled, Kept
<1>6. Gone'
  BY <1>1, <1>2, <1>3 DEF IInv, Gone, Drawn, TokenPcs
<1>7. ASSUME NEW u \in Tabs PROVE Path(u)'
  <2>1. CASE u = t
    BY <1>1, <1>3, <2>1 DEF Path, At, TokenPcs
  <2>2. CASE u # t
    <3> SUFFICES ASSUME u \notin crowd' PROVE Path(u)'
      BY DEF Path
    <3>1. tab'[u] = tab[u] /\ u \notin crowd /\ Path(u) /\ clean' = clean
      BY <1>1, <2>2 DEF IInv
    <3> QED
      BY <1>1, <1>2, <3>1 DEF Path, At
  <2> QED
    BY <2>1, <2>2
<1> QED
  BY <1>5, <1>6, <1>7

\* A request for a code goes on, or ends.
LEMMA CodeGoesOn ==
    ASSUME IInv, Rows', NEW t \in Tabs, NEW pc \in {"code_send", "idle"}, NEW c, NEW k, NEW n,
           Moved(t, pc, n, c, k), tab[t].pc \in CodePcs,
           UNCHANGED <<access, refresh, jar, settled, clean, out, crowd, asked>>,
           t \notin crowd /\ pc = "code_send" => k = asked /\ codes' = {asked},
           codeAlone' => /\ codes' \in {{}, {asked} \cap inbox'}
                         /\ pc = "idle" /\ (t \notin crowd \/ codeAlone)
    PROVE  IInv'
<1>0. Solo(t) /\ CodeDone
  BY DEF IInv
<1>1. Settled' /\ Kept' /\ Gone' /\ \A u \in Tabs : Path(u)'
  BY CodePast DEF CodePcs
<1>2. /\ tab'[t].pc = pc /\ tab'[t].code = k
      /\ \A u \in Tabs \ {t} : tab'[u] = tab[u]
  BY DEF Moved
<1>3. \A w \in Tabs : /\ tab'[w].pc \in TokenPcs => tab[w].pc \in TokenPcs
                      /\ tab'[w].pc \in CodePcs => tab[w].pc \in CodePcs
  BY <1>2 DEF TokenPcs, CodePcs
<1>4. ASSUME NEW u \in Tabs PROVE Solo(u)' /\ CodePath(u)'
  <2> SUFFICES ASSUME u \notin crowd PROVE Solo(u)' /\ CodePath(u)'
    BY DEF Solo, CodePath
  <2>1. Solo(u)'
    BY <1>3 DEF IInv, Solo
  <2>2. CodePath(u)'
    <3>1. CASE u = t
      BY <1>2, <3>1 DEF CodePath, At, CodePcs
    <3>2. CASE u # t
      <4>1. tab'[u] = tab[u] /\ tab[u].pc \notin CodePcs
        BY <1>2, <3>2 DEF IInv, Solo
      <4> QED
        BY <4>1 DEF CodePath, At, CodePcs
    <3> QED
      BY <3>1, <3>2
  <2> QED
    BY <2>1, <2>2
<1>5. CodeDone'
  <2> SUFFICES ASSUME codeAlone'
               PROVE  /\ codes' \in {{}, {asked'} \cap inbox'}
                      /\ \A u \in Tabs : tab'[u].pc \notin CodePcs
    BY DEF CodeDone
  <2>1. ~codeAlone
    BY <1>0 DEF CodeDone
  <2>2. \A u \in Tabs \ {t} : tab[u].pc \notin CodePcs
    BY <1>0, <2>1 DEF Solo
  <2> QED
    BY <1>2, <2>2 DEF CodePcs
<1> QED
  BY <1>1, <1>4, <1>5 DEF IInv

LEMMA AloneCode ==
    ASSUME IInv, Rows', NEW t \in Tabs, AskCode(t) \/ CreateCode(t) \/ SendCode(t)
    PROVE  IInv'
<1>0. TypeOK /\ Solo(t) /\ CodePath(t) /\ CodeDone
  BY DEF IInv, Rows
<1>1. CASE AskCode(t)
  <2>1. Moved(t, "code_create", tab[t].new, tab[t].cookie, asked + 1)
    BY <1>0, <1>1, AskMoves
  <2>2. /\ UNCHANGED <<access, refresh, jar, settled, clean, out>> /\ tab[t].pc = "idle"
        /\ codes' = {} /\ asked' = asked + 1 /\ codeAlone' = FALSE /\ Overlap(t, CodePcs)
    BY <1>1 DEF AskCode, At, tokenRows, past
  <2>3. /\ \A u \in Tabs \ {t} : u \notin crowd' => u \notin crowd /\ tab[u].pc \notin CodePcs
        /\ t \notin crowd' => \A u \in Tabs \ {t} : tab[u].pc \notin CodePcs
    BY <2>2 DEF Overlap
  <2>4. Settled' /\ Kept' /\ Gone' /\ \A u \in Tabs : Path(u)'
    BY <2>1, <2>2, <2>3, CodePast DEF CodePcs
  <2>5. /\ tab'[t].pc = "code_create" /\ tab'[t].code = asked'
        /\ \A u \in Tabs \ {t} : tab'[u] = tab[u]
    BY <2>1, <2>2 DEF Moved
  <2>6. ASSUME NEW u \in Tabs PROVE Solo(u)' /\ CodePath(u)'
    <3>1. CASE u = t
      BY <2>2, <2>3, <2>5, <3>1 DEF Solo, CodePath, At, CodePcs, TokenPcs
    <3>2. CASE u # t
      <4> SUFFICES ASSUME u \notin crowd' PROVE Solo(u)' /\ CodePath(u)'
        BY DEF Solo, CodePath
      <4>1. u \notin crowd /\ tab'[u] = tab[u] /\ tab[u].pc \notin CodePcs /\ Solo(u)
        BY <2>3, <2>5, <3>2 DEF IInv
      <4>2. CodePath(u)'
        BY <4>1 DEF CodePath, At, CodePcs
      <4>3. \A w \in Tabs : tab'[w].pc \in TokenPcs => tab[w].pc \in TokenPcs
        BY <2>5 DEF TokenPcs
      <4>4. Solo(u)'
        BY <4>1, <4>3 DEF Solo
      <4> QED
        BY <4>2, <4>4
    <3> QED
      BY <3>1, <3>2
  <2>7. CodeDone'
    BY <2>2 DEF CodeDone
  <2> QED
    BY <2>4, <2>6, <2>7 DEF IInv
<1>2. ASSUME NEW pc \in {"code_send", "idle"}, NEW c, NEW k, NEW n,
             Moved(t, pc, n, c, k), tab[t].pc \in CodePcs,
             UNCHANGED <<access, refresh, jar, settled, clean, out, crowd, asked>>,
             t \notin crowd /\ pc = "code_send" => k = asked /\ codes' = {asked},
             codeAlone' => /\ codes' \in {{}, {asked} \cap inbox'}
                           /\ pc = "idle" /\ (t \notin crowd \/ codeAlone)
      PROVE  IInv'
  <2>1. Settled' /\ Kept' /\ Gone' /\ \A u \in Tabs : Path(u)'
    BY <1>2, CodePast DEF CodePcs
  <2>2. /\ tab'[t].pc = pc /\ tab'[t].code = k
        /\ \A u \in Tabs \ {t} : tab'[u] = tab[u]
    BY <1>2 DEF Moved
  <2>3. \A w \in Tabs : /\ tab'[w].pc \in TokenPcs => tab[w].pc \in TokenPcs
                        /\ tab'[w].pc \in CodePcs => tab[w].pc \in CodePcs
    BY <1>2, <2>2 DEF TokenPcs, CodePcs
  <2>4. ASSUME NEW u \in Tabs PROVE Solo(u)' /\ CodePath(u)'
    <3> SUFFICES ASSUME u \notin crowd PROVE Solo(u)' /\ CodePath(u)'
      BY <1>2 DEF Solo, CodePath
    <3>1. Solo(u)'
      BY <1>2, <2>3 DEF IInv, Solo
    <3>2. CodePath(u)'
      <4>1. CASE u = t
        BY <1>2, <2>2, <4>1 DEF CodePath, At, CodePcs
      <4>2. CASE u # t
        <5>1. tab'[u] = tab[u] /\ tab[u].pc \notin CodePcs
          BY <1>2, <2>2, <4>2 DEF IInv, Solo
        <5> QED
          BY <5>1 DEF CodePath, At, CodePcs
      <4> QED
        BY <4>1, <4>2
    <3> QED
      BY <3>1, <3>2
  <2>5. CodeDone'
    <3> SUFFICES ASSUME codeAlone'
                 PROVE  /\ codes' \in {{}, {asked'} \cap inbox'}
                        /\ \A u \in Tabs : tab'[u].pc \notin CodePcs
      BY DEF CodeDone
    <3>1. ~codeAlone
      BY <1>0, <1>2 DEF CodeDone
    <3>2. \A u \in Tabs \ {t} : tab[u].pc \notin CodePcs
      BY <1>0, <1>2, <3>1 DEF Solo
    <3> QED
      BY <1>2, <2>2, <3>2 DEF CodePcs
  <2> QED
    BY <2>1, <2>4, <2>5 DEF IInv
<1>3. CASE CreateCode(t)
  <2>1. Moved(t, "code_send", tab[t].new, tab[t].cookie, tab[t].code)
    BY <1>0, <1>3, GotoMoves DEF CreateCode, TypeOK, AllPcs, CodePcs
  <2>2. /\ UNCHANGED <<access, refresh, jar, settled, clean, out, crowd, asked>>
        /\ codeAlone' = codeAlone /\ tab[t].pc = "code_create" /\ codes' = codes \cup {tab[t].code}
    BY <1>3 DEF CreateCode, At, tokenRows, past
  <2>3. t \notin crowd => tab[t].code = asked /\ codes = {}
    BY <1>0, <2>2 DEF CodePath, At, CodePcs
  <2>4. tab[t].pc \in CodePcs /\ ~codeAlone
    BY <1>0, <2>2 DEF CodePcs, CodeDone
  <2>5. t \notin crowd => codes' = {asked}
    BY <2>2, <2>3
  <2> QED
    BY <2>1, <2>2, <2>3, <2>4, <2>5, CodeGoesOn
<1>4. CASE SendCode(t)
  <2>1. Moved(t, "idle", tab[t].new, tab[t].cookie, tab[t].code)
    BY <1>0, <1>4, GotoMoves DEF SendCode, TypeOK, AllPcs
  <2>2. /\ UNCHANGED <<access, refresh, jar, settled, clean, out, crowd, asked>>
        /\ codeAlone' = (t \notin crowd) /\ tab[t].pc = "code_send"
        /\ \/ inbox' = inbox \cup {tab[t].code} /\ codes' = codes
           \/ codes' = codes \ {tab[t].code} /\ inbox' = inbox
    BY <1>4 DEF SendCode, At, tokenRows, past
  <2>3. t \notin crowd => tab[t].code = asked /\ codes = {asked}
    BY <1>0, <2>2 DEF CodePath, At, CodePcs
  <2>4. t \notin crowd => codes' \in {{}, {asked} \cap inbox'}
    BY <2>2, <2>3
  <2>5. tab[t].pc \in CodePcs
    BY <2>2 DEF CodePcs
  <2> QED
    BY <2>1, <2>2, <2>4, <2>5, CodeGoesOn
<1> QED
  BY <1>1, <1>3, <1>4

LEMMA AloneLostCode ==
    ASSUME IInv, Rows', NEW t \in Tabs, Lost(t), tab[t].pc \in CodePcs
    PROVE  IInv'
<1>1. tab[t].held \in 0 .. MaxPairs /\ tab \in [Tabs -> TabRecord] /\ clean \in BOOLEAN
  BY DEF IInv, Rows, TypeOK, TabRecord
<1>2. Moved(t, "idle", 0, 0, 0)
  BY <1>1, DoneMoves DEF Lost
<1>3. /\ UNCHANGED <<access, refresh, jar, settled, out, crowd, asked>> /\ codeAlone' = codeAlone
      /\ clean' = (tab[t].pc \in CodePcs /\ clean)
  BY DEF Lost, tokenRows, codeRows
<1>4. clean' = clean
  BY <1>1, <1>3
<1>5. ~codeAlone'
  BY <1>3 DEF IInv, CodeDone
<1> QED
  BY <1>2, <1>3, <1>4, <1>5, CodeGoesOn

LEMMA AloneExpire ==
    ASSUME IInv, Rows', NEW e \in Pairs, ExpireAccess(e)
    PROVE  IInv'
<1>1. /\ UNCHANGED <<codes, asked, inbox, codeAlone, refresh, jar, tab, crowd, settled, clean, out>>
      /\ access' = [access EXCEPT ![e] = "invalid"]
      /\ access \in [Pairs -> AccessStates]
  BY DEF ExpireAccess, IInv, Rows, TypeOK, codeRows, past
<1>2. NoValid => NoValid'
  BY <1>1 DEF NoValid
<1>3. Active' = Active /\ (Matches' <=> Matches) /\ (AtMostOne' <=> AtMostOne)
      /\ (Quiet' <=> Quiet)
  BY <1>1 DEF Active, Matches, AtMostOne, Quiet
<1>4. ASSUME NEW t \in Tabs PROVE Solo(t)' /\ CodePath(t)' /\ Path(t)'
  <2>1. Solo(t) /\ CodePath(t) /\ Path(t)
    BY DEF IInv
  <2>2. Solo(t)' /\ CodePath(t)'
    BY <1>1, <2>1 DEF Solo, CodePath, At
  <2>3. Path(t)'
    BY <1>1, <1>2, <1>3, <2>1 DEF Path, At
  <2> QED
    BY <2>2, <2>3
<1>5. Settled' /\ Kept' /\ Gone' /\ CodeDone'
  BY <1>1, <1>2, <1>3 DEF IInv, Settled, Kept, Gone, CodeDone
<1> QED
  BY <1>4, <1>5 DEF IInv

LEMMA InitInv == Init => IInv
<1> SUFFICES ASSUME Init PROVE IInv
  OBVIOUS
<1>1. Rows
  BY RowsInit
<1>2. \A t \in Tabs : tab[t].pc = "idle"
  BY DEF Init
<1>3. \A t \in Tabs : Solo(t) /\ Path(t) /\ CodePath(t)
  BY <1>2 DEF Solo, Path, CodePath, At, TokenPcs, CodePcs
<1>4. Settled /\ Kept /\ Gone /\ CodeDone
  BY DEF Init, Settled, Kept, Gone, CodeDone
<1> QED
  BY <1>1, <1>3, <1>4 DEF IInv

LEMMA NextInv == IInv /\ [Next]_vars => IInv'
<1> SUFFICES ASSUME IInv, [Next]_vars PROVE IInv'
  OBVIOUS
<1>0. Rows'
  BY RowsStep DEF IInv
<1>1. ASSUME NEW t \in Tabs, LoginStep(t) PROVE IInv'
  BY <1>0, <1>1, AloneCode, AloneWork, AloneCreate, AloneBegin DEF LoginStep
<1>2. ASSUME NEW t \in Tabs, RefreshStep(t) PROVE IInv'
  BY <1>0, <1>2, AloneWork, AloneCreate, AloneBegin DEF RefreshStep
<1>3. ASSUME NEW t \in Tabs, LogoutStep(t) PROVE IInv'
  BY <1>0, <1>3, AloneWork, AloneLogout, AloneBegin DEF LogoutStep
<1>4. ASSUME NEW t \in Tabs, AnswerStep(t) PROVE IInv'
  <2>1. CASE AnswerTokens(t) \/ Answer401(t) \/ AnswerBye(t)
    <3>1. tab[t].pc \in TokenPcs
      BY <2>1 DEF AnswerTokens, Answer401, AnswerBye, At, TokenPcs
    <3> QED
      BY <1>0, <2>1, <3>1, AloneEnd
  <2>2. CASE Lost(t)
    <3>1. tab[t].pc \in TokenPcs \/ tab[t].pc \in CodePcs
      BY <2>2 DEF IInv, Rows, TypeOK, TabRecord, Lost, At
    <3> QED
      BY <1>0, <2>2, <3>1, AloneEnd, AloneLostCode
  <2> QED
    BY <1>4, <2>1, <2>2 DEF AnswerStep
<1>5. ASSUME NEW e \in Pairs, ExpireAccess(e) PROVE IInv'
  BY <1>0, <1>5, AloneExpire
<1>6. CASE Next
  BY <1>1, <1>2, <1>3, <1>4, <1>5, <1>6 DEF Next
<1>7. CASE vars' = vars
  <2>1. UNCHANGED <<codes, asked, inbox, codeAlone, access, refresh, issued, jar, tab, crowd,
                    settled, clean, out>>
    BY <1>7 DEF vars, codeRows, tokenRows, past
  <2>2. Active' = Active
    BY <2>1 DEF Active
  <2>3. \A t \in Tabs : Solo(t)' /\ CodePath(t)' /\ Path(t)'
    BY <2>1, <2>2 DEF IInv, Solo, CodePath, Path, At, NoValid, Matches, AtMostOne
  <2>4. Settled' /\ Kept' /\ Gone' /\ CodeDone'
    BY <2>1, <2>2 DEF IInv, Settled, Kept, Gone, CodeDone, Quiet, NoValid, Matches, AtMostOne
  <2> QED
    BY <1>0, <2>3, <2>4 DEF IInv
<1> QED
  BY <1>6, <1>7

\* A token request that runs alone leaves one usable refresh token at most.
THEOREM RefreshHeals == Spec => []SelfHealing
<1>1. IInv => SelfHealing
  BY AtMostOneCard DEF IInv, Rows, Settled, SelfHealing
<1> QED
  BY InitInv, NextInv, <1>1, PTL DEF Spec

\* Rotation alone signs no browser out.
THEOREM RotationKeeps == Spec => []NeverSignedOut
<1>1. IInv => NeverSignedOut
  BY DEF IInv, Kept, Matches, NeverSignedOut
<1> QED
  BY InitInv, NextInv, <1>1, PTL DEF Spec

\* A sign-out that runs alone is final.
THEOREM SignOutIsFinal == Spec => []SignedOut
<1>1. IInv => SignedOut
  BY DEF IInv, Gone, NoValid, SignedOut
<1> QED
  BY InitInv, NextInv, <1>1, PTL DEF Spec

\* A code that was asked for alone is the only one of its address.
THEOREM CodeIsAlone == Spec => []OneCode
<1>1. IInv => OneCode
  BY DEF IInv, CodeDone, OneCode
<1> QED
  BY InitInv, NextInv, <1>1, PTL DEF Spec
=============================================================================
