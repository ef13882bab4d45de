------------------------------- MODULE Tokens -------------------------------
(***************************************************************************)
(* The sign-in of one user on one device: the mailed code, the access and  *)
(* refresh token rows of the device, and the browser tabs that share its   *)
(* refresh cookie.  A pair is what one sign-in or one refresh issues: an   *)
(* access token and a refresh token.  Every database statement is a step;  *)
(* a request may die between two of them, and its answer may get lost.     *)
(***************************************************************************)
EXTENDS Naturals, FiniteSets

CONSTANTS
    Tabs,      \* browser tabs of the device, each with one request at a time
    MaxPairs,  \* bound: token pairs ever issued
    MaxCodes   \* bound: codes ever mailed

ASSUME BoundsAssumption == MaxPairs \in Nat /\ MaxCodes \in Nat

Pairs == 1 .. MaxPairs

VARIABLES
    codes,      \* EmailVerificationCode rows of the address
    asked,      \* codes drawn so far
    inbox,      \* codes that have reached the user
    access,     \* UserToken row of each pair
    refresh,    \* RefreshToken row of each pair
    issued,     \* pairs drawn so far
    jar,        \* the refresh cookie, 0 for none
    tab,        \* per tab: its request and the access token it holds
    crowd,      \* history: tabs whose request has overlapped another one
    settled,    \* history: the last request ran alone and to its end
    clean,      \* history: nothing overlapped, died or got lost since sign-in
    out,        \* history: signed out by a request that ran alone
    codeAlone   \* history: the last code was requested alone and to the end

codeRows  == <<codes, asked, inbox, codeAlone>>
tokenRows == <<access, refresh>>
past      == <<settled, clean, out>>
vars      == <<codeRows, tokenRows, issued, jar, tab, crowd, past>>

CodePcs  == {"code_create", "code_send"}
TokenPcs == {"login_access", "login_refresh", "login_new_access", "login_new_refresh",
             "duplicates", "refresh_access", "refresh_new_access", "refresh_new",
             "refresh_rotate", "logout_access", "logout_refresh",
             "answer_tokens", "answer_401", "answer_bye"}

AccessStates  == {"none", "valid", "invalid"}
RefreshStates == {"none", "active", "rotated", "revoked"}
TabRecord == [pc : {"idle"} \cup CodePcs \cup TokenPcs,
              held : 0 .. MaxPairs, cookie : 0 .. MaxPairs, new : 0 .. MaxPairs,
              code : 0 .. MaxCodes]

Init ==
    /\ codes = {} /\ asked = 0 /\ inbox = {}
    /\ access = [p \in Pairs |-> "none"] /\ refresh = [p \in Pairs |-> "none"]
    /\ issued = 0 /\ jar = 0
    /\ tab = [t \in Tabs |-> [pc |-> "idle", held |-> 0, cookie |-> 0, new |-> 0,
                              code |-> 0]]
    /\ crowd = {} /\ settled = FALSE /\ clean = FALSE /\ out = FALSE
    /\ codeAlone = FALSE

At(t, pc)   == tab[t].pc = pc
Goto(t, pc) == tab' = [tab EXCEPT ![t].pc = pc]
Active      == {p \in Pairs : refresh[p] = "active"}

\* A request of a class begins: whoever else is in that class overlaps it.
Overlap(t, pcs) ==
    LET others == {u \in Tabs \ {t} : tab[u].pc \in pcs}
    IN  crowd' = IF others = {} THEN crowd \ {t} ELSE crowd \cup others \cup {t}

----------------------------------------------------------------------------
(* POST /auth/login: a code is mailed.                                     *)

\* Mutant of AskCode: the codes mailed before stay valid.
AskCodeOnly(t) ==
    /\ At(t, "idle") /\ asked < MaxCodes
    /\ asked' = asked + 1
    /\ tab' = [tab EXCEPT ![t].pc = "code_create", ![t].code = asked + 1]
    /\ Overlap(t, CodePcs)
    /\ codeAlone' = FALSE
    /\ UNCHANGED <<codes, inbox, tokenRows, issued, jar, past>>

\* generate_email_verification_code: the rows of the address are deleted.
AskCode(t) ==
    /\ At(t, "idle") /\ asked < MaxCodes
    /\ codes' = {}
    /\ asked' = asked + 1
    /\ tab' = [tab EXCEPT ![t].pc = "code_create", ![t].code = asked + 1]
    /\ Overlap(t, CodePcs)
    /\ codeAlone' = FALSE
    /\ UNCHANGED <<inbox, tokenRows, issued, jar, past>>

CreateCode(t) ==
    /\ At(t, "code_create")
    /\ codes' = codes \cup {tab[t].code}
    /\ Goto(t, "code_send")
    /\ UNCHANGED <<asked, inbox, codeAlone, tokenRows, issued, jar, crowd, past>>

\* The mail goes out, or the row is deleted again.
SendCode(t) ==
    /\ At(t, "code_send")
    /\ \/ inbox' = inbox \cup {tab[t].code} /\ UNCHANGED codes
       \/ codes' = codes \ {tab[t].code} /\ UNCHANGED inbox
    /\ Goto(t, "idle")
    /\ codeAlone' = (t \notin crowd)
    /\ UNCHANGED <<asked, tokenRows, issued, jar, crowd, past>>

----------------------------------------------------------------------------
(* POST /auth/verify/code: sign-in.                                        *)

Begin(t) ==
    /\ Overlap(t, TokenPcs)
    /\ settled' = FALSE

\* verify_email_code: the one row of the address must carry the code (more
\* than one is an error), not yet five minutes old; the codes that are too old
\* are those it refuses for no other reason, so refusing is always possible.
\* The user and the teams are the Members module's; generate_token draws a pair.
VerifyCode(t) ==
    /\ At(t, "idle") /\ issued < MaxPairs
    /\ \E k \in inbox : codes = {k}
    /\ issued' = issued + 1
    /\ tab' = [tab EXCEPT ![t].pc = "login_access", ![t].new = issued + 1]
    /\ Begin(t)
    /\ clean' = FALSE /\ out' = FALSE
    /\ UNCHANGED <<codeRows, tokenRows, jar>>

\* The rows of the device are deleted, access tokens first.
LoginDeleteAccess(t) ==
    /\ At(t, "login_access")
    /\ access' = [p \in Pairs |-> "none"]
    /\ Goto(t, "login_refresh")
    /\ UNCHANGED <<codeRows, refresh, issued, jar, crowd, past>>

\* Mutant of LoginDeleteRefresh: the refresh tokens of the device stay.
LoginKeepRefresh(t) ==
    /\ At(t, "login_refresh")
    /\ Goto(t, "login_new_access")
    /\ UNCHANGED <<codeRows, tokenRows, issued, jar, crowd, past>>

LoginDeleteRefresh(t) ==
    /\ At(t, "login_refresh")
    /\ refresh' = [p \in Pairs |-> "none"]
    /\ Goto(t, "login_new_access")
    /\ UNCHANGED <<codeRows, access, issued, jar, crowd, past>>

CreateAccess(t, from, to) ==
    /\ At(t, from)
    /\ access' = [access EXCEPT ![tab[t].new] = "valid"]
    /\ Goto(t, to)
    /\ UNCHANGED <<codeRows, refresh, issued, jar, crowd, past>>

CreateRefresh(t, from, to) ==
    /\ At(t, from)
    /\ refresh' = [refresh EXCEPT ![tab[t].new] = "active"]
    /\ Goto(t, to)
    /\ UNCHANGED <<codeRows, access, issued, jar, crowd, past>>

LoginCreateAccess(t)  == CreateAccess(t, "login_new_access", "login_new_refresh")
LoginCreateRefresh(t) == CreateRefresh(t, "login_new_refresh", "answer_tokens")

----------------------------------------------------------------------------
(* POST /auth/refresh: refresh_token_flow.                                 *)

\* The rows that are neither revoked nor rotated are read.  More than one is
\* answered by revoking all of them; the only one must be the one presented
\* (an expired one is refused like an unknown one).
RefreshRead(t) ==
    /\ At(t, "idle") /\ jar # 0
    /\ LET c == [tab EXCEPT ![t].cookie = jar]
       IN  \/ /\ Cardinality(Active) > 1
              /\ tab' = [c EXCEPT ![t].pc = "duplicates"]
              /\ UNCHANGED issued
           \/ /\ Active = {jar} /\ issued < MaxPairs
              /\ tab' = [c EXCEPT ![t].pc = "refresh_access", ![t].new = issued + 1]
              /\ issued' = issued + 1
           \/ /\ Cardinality(Active) <= 1
              /\ tab' = [c EXCEPT ![t].pc = "answer_401"]
              /\ UNCHANGED issued
    /\ Begin(t)
    /\ UNCHANGED <<codeRows, tokenRows, jar, clean, out>>

\* update(revoked_at=now) on the device's rows; a rotated row stays unusable.
Revoked == [p \in Pairs |-> IF refresh[p] = "active" THEN "revoked" ELSE refresh[p]]
Invalidated == [p \in Pairs |-> IF access[p] = "valid" THEN "invalid" ELSE access[p]]

\* Mutant of RevokeDuplicates: only the token presented is revoked.
RevokePresented(t) ==
    /\ At(t, "duplicates")
    /\ refresh' = [refresh EXCEPT ![tab[t].cookie] = "revoked"]
    /\ Goto(t, "answer_401")
    /\ UNCHANGED <<codeRows, access, issued, jar, crowd, past>>

RevokeDuplicates(t) ==
    /\ At(t, "duplicates")
    /\ refresh' = Revoked
    /\ Goto(t, "answer_401")
    /\ UNCHANGED <<codeRows, access, issued, jar, crowd, past>>

RefreshRevokeAccess(t) ==
    /\ At(t, "refresh_access")
    /\ access' = Invalidated
    /\ Goto(t, "refresh_new_access")
    /\ UNCHANGED <<codeRows, refresh, issued, jar, crowd, past>>

RefreshCreateAccess(t) == CreateAccess(t, "refresh_new_access", "refresh_new")
RefreshCreate(t)       == CreateRefresh(t, "refresh_new", "refresh_rotate")

\* Mutant of RefreshRotate: only replaced_by is set; the save of the row that
\* was read puts revoked_at and rotated_at back to NULL.
RotateStale(t) ==
    /\ At(t, "refresh_rotate")
    /\ refresh' = [refresh EXCEPT ![tab[t].cookie] = IF @ = "none" THEN @ ELSE "active"]
    /\ Goto(t, "answer_tokens")
    /\ UNCHANGED <<codeRows, access, issued, jar, crowd, past>>

\* db_refresh.save() writes every column of the row as it was read, with
\* rotated_at set; a row that is gone by now is updated nowhere.
RefreshRotate(t) ==
    /\ At(t, "refresh_rotate")
    /\ refresh' = [refresh EXCEPT ![tab[t].cookie] = IF @ = "none" THEN @ ELSE "rotated"]
    /\ Goto(t, "answer_tokens")
    /\ UNCHANGED <<codeRows, access, issued, jar, crowd, past>>

----------------------------------------------------------------------------
(* POST /auth/logout: get_user, then revoke_token.                         *)

Logout(t) ==
    /\ At(t, "idle") /\ tab[t].held # 0
    /\ access[tab[t].held] = "valid"
    /\ Goto(t, "logout_access")
    /\ Begin(t)
    /\ UNCHANGED <<codeRows, tokenRows, issued, jar, clean, out>>

LogoutAccess(t) ==
    /\ At(t, "logout_access")
    /\ access' = Invalidated
    /\ Goto(t, "logout_refresh")
    /\ UNCHANGED <<codeRows, refresh, issued, jar, crowd, past>>

\* Mutant of LogoutRefresh: the newest refresh token only.
LogoutNewest(t) ==
    /\ At(t, "logout_refresh")
    /\ refresh' = [refresh EXCEPT ![tab[t].held] = IF @ = "active" THEN "revoked" ELSE @]
    /\ out' = (t \notin crowd)
    /\ Goto(t, "answer_bye")
    /\ UNCHANGED <<codeRows, access, issued, jar, crowd, settled, clean>>

LogoutRefresh(t) ==
    /\ At(t, "logout_refresh")
    /\ refresh' = Revoked
    /\ out' = (t \notin crowd)
    /\ Goto(t, "answer_bye")
    /\ UNCHANGED <<codeRows, access, issued, jar, crowd, settled, clean>>

----------------------------------------------------------------------------
(* The answer, and what may go wrong.                                      *)

Done(t, held) == tab' = [tab EXCEPT ![t] = [pc |-> "idle", held |-> held, cookie |-> 0,
                                            new |-> 0, code |-> 0]]

\* set_cookie and the access token.
AnswerTokens(t) ==
    /\ At(t, "answer_tokens")
    /\ jar' = tab[t].new
    /\ Done(t, tab[t].new)
    /\ clean' = (t \notin crowd /\ (tab[t].cookie = 0 \/ clean))
    /\ settled' = (t \notin crowd)
    /\ UNCHANGED <<codeRows, tokenRows, issued, crowd, out>>

\* delete_cookie on a response that the HTTPException replaces: the cookie
\* of a failed refresh stays where it is.
Answer401(t) ==
    /\ At(t, "answer_401")
    /\ Done(t, tab[t].held)
    /\ clean' = (t \notin crowd /\ clean)
    /\ settled' = (t \notin crowd)
    /\ UNCHANGED <<codeRows, tokenRows, issued, jar, crowd, out>>

AnswerBye(t) ==
    /\ At(t, "answer_bye")
    /\ jar' = 0
    /\ Done(t, 0)
    /\ clean' = (t \notin crowd /\ clean)
    /\ settled' = (t \notin crowd)
    /\ UNCHANGED <<codeRows, tokenRows, issued, crowd, out>>

\* A request dies between two statements, or its answer is lost on the way.
Lost(t) ==
    /\ ~At(t, "idle")
    /\ Done(t, tab[t].held)
    /\ clean' = (tab[t].pc \in CodePcs /\ clean)
    /\ UNCHANGED <<codeRows, tokenRows, issued, jar, crowd, settled, out>>

\* An access token lasts an hour.
ExpireAccess(p) ==
    /\ access[p] = "valid"
    /\ access' = [access EXCEPT ![p] = "invalid"]
    /\ UNCHANGED <<codeRows, refresh, issued, jar, tab, crowd, past>>

LoginStep(t) ==
    \/ AskCode(t) \/ CreateCode(t) \/ SendCode(t) \/ VerifyCode(t)
    \/ LoginDeleteAccess(t) \/ LoginDeleteRefresh(t)
    \/ LoginCreateAccess(t) \/ LoginCreateRefresh(t)
RefreshStep(t) ==
    \/ RefreshRead(t) \/ RevokeDuplicates(t) \/ RefreshRevokeAccess(t)
    \/ RefreshCreateAccess(t) \/ RefreshCreate(t) \/ RefreshRotate(t)
LogoutStep(t) == Logout(t) \/ LogoutAccess(t) \/ LogoutRefresh(t)
AnswerStep(t) == AnswerTokens(t) \/ Answer401(t) \/ AnswerBye(t) \/ Lost(t)

Next ==
    \/ \E t \in Tabs : LoginStep(t) \/ RefreshStep(t) \/ LogoutStep(t) \/ AnswerStep(t)
    \/ \E p \in Pairs : ExpireAccess(p)

Spec == Init /\ [][Next]_vars

----------------------------------------------------------------------------
TypeOK ==
    /\ codes \subseteq 0 .. MaxCodes /\ inbox \subseteq 0 .. MaxCodes /\ asked \in 0 .. MaxCodes
    /\ access \in [Pairs -> AccessStates] /\ refresh \in [Pairs -> RefreshStates]
    /\ issued \in 0 .. MaxPairs /\ jar \in 0 .. MaxPairs
    /\ tab \in [Tabs -> TabRecord] /\ crowd \subseteq Tabs
    /\ settled \in BOOLEAN /\ clean \in BOOLEAN /\ out \in BOOLEAN
    /\ codeAlone \in BOOLEAN

Quiet == \A t \in Tabs : tab[t].pc \notin TokenPcs

\* Whatever races, deaths and lost answers came before, a token request that
\* runs alone and to its end leaves at most one usable refresh token: more than
\* one is found and revoked by the next refresh (auth.py:187).
SelfHealing == settled => Cardinality(Active) <= 1

\* A browser whose requests did not overlap, die or lose their answers since it
\* signed in always presents exactly the token the server accepts: rotation
\* signs nobody out by itself (auth.py:195-246).
NeverSignedOut == (clean /\ Quiet) => Active = {jar} \ {0}

\* A sign-out that no other token request overlapped is final: nothing that was
\* issued before it, by whatever history, is accepted until the next sign-in,
\* not even tokens whose answer was lost (auth.py:249).
SignedOut == out => /\ Active = {}
                    /\ \A p \in Pairs : access[p] # "valid"

\* No interleaving brings a used or revoked token back, although a refresh
\* saves every column of a row it has read long before (auth.py:242).
NoResurrection ==
    [][\A p \in Pairs : /\ refresh[p] \in {"rotated", "revoked"} => refresh'[p] # "active"
                        /\ access[p] = "invalid" => access'[p] # "valid"]_vars

\* A code that was asked for alone is the only one of its address and works:
\* an earlier collision of two requests, which leaves two rows and makes every
\* verification fail, does not outlive the next request (auth.py:103).
OneCode == codeAlone => codes \in {{}, {asked} \cap inbox}
=============================================================================
