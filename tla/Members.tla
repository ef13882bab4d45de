------------------------------- MODULE Members -------------------------------
(***************************************************************************)
(* Accounts, teams and memberships: invitations, first and later sign-ins  *)
(* with the automatic team of an e-mail domain, team creation and removal, *)
(* removal of members, the CLI's system administrator.  All domains of the *)
(* model share their first label.  Requests run side by side, every await  *)
(* is a step boundary, and a request may die between two steps.            *)
(***************************************************************************)
EXTENDS Naturals, FiniteSets

CONSTANTS
    Users,        \* e-mail addresses of people
    Domains,      \* e-mail domains; also the names of their separate teams
    Domain,       \* [Users -> Domains]
    Root,         \* the system administrator
    Prefix,       \* the first label of all domains: a team name
    Public,       \* the team of everybody
    Requests,     \* requests that may run at once
    MaxRequests   \* bound: requests ever begun

ASSUME DomainAssumption == Domain \in [Users -> Domains]
ASSUME NamesAssumption  == /\ Root \notin Users /\ Prefix # Public
                           /\ {Prefix, Public} \cap Domains = {}
ASSUME UsersAssumption  == IsFiniteSet(Users)
ASSUME BoundAssumption  == MaxRequests \in Nat

People == Users \cup {Root}
Names  == Domains \cup {Prefix, Public}

VARIABLES
    account,  \* of each address: no user row, or the user's role
    teams,    \* names of the team rows
    role,     \* per team and person: the membership row
    req,      \* per request: where it is and what it has read
    begun,    \* requests begun so far
    led,      \* history: teams that have had an administrator
    contest,  \* history: a removal has counted administrators while another, in the
              \* same team, had counted and not yet deleted
    hasty,    \* history: users whose invitation overlapped their sign-in, or whose
              \* first sign-in died half-way
    auto,     \* history: members that a sign-in has added
    mingled   \* history: teams with an invitation, or with overlapping sign-ins

history == <<led, contest, hasty, auto, mingled>>
vars    == <<account, teams, role, req, begun, history>>

Accounts == {"none", "anonymous", "editor"}
Roles    == {"none", "pending", "member", "admin"}
InvitePcs == {"invite_user", "invite_create", "invite_add"}
RemovePcs == {"remove_read", "remove_count", "remove_row"}
SignInPcs == {"signin_create", "signin_activate", "signin_pending", "signin_team",
              "signin_new", "signin_provision", "signin_members", "signin_admin",
              "signin_join", "signin_public"}
OtherPcs  == {"idle", "team_new", "team_provision", "team_admin", "cli_add", "delete_team"}

\* "row": the team or membership row that was read has not been deleted since.
ReqRecord == [pc : InvitePcs \cup RemovePcs \cup SignInPcs \cup OtherPcs,
              by : People, user : People, team : Names, give : Roles, row : BOOLEAN]
Idle == [pc |-> "idle", by |-> Root, user |-> Root, team |-> Public, give |-> "none",
         row |-> TRUE]

Init ==
    /\ account \in [Users -> {"none", "editor"}]
    /\ teams = {Public}
    /\ role = [t \in Names |-> [p \in People |->
                  IF t = Public /\ p = Root THEN "admin" ELSE "none"]]
    /\ req = [r \in Requests |-> Idle]
    /\ begun = 0
    /\ led = {Public} /\ contest = FALSE /\ hasty = {} /\ auto = {} /\ mingled = {}

At(r, pc)   == req[r].pc = pc
Goto(r, pc) == req' = [req EXCEPT ![r].pc = pc]
End(r)      == req' = [req EXCEPT ![r] = Idle]
Admins(t)   == {p \in People : role[t][p] = "admin"}
Busy(pcs, u)    == \E r \in Requests : req[r].pc \in pcs /\ req[r].user = u

Begin(r, pc, by, u, t) ==
    /\ At(r, "idle") /\ begun < MaxRequests
    /\ begun' = begun + 1
    /\ req' = [req EXCEPT ![r] = [Idle EXCEPT !.pc = pc, !.by = by, !.user = u, !.team = t]]

Quiet == UNCHANGED <<account, teams, role, begun, history>>

\* A row goes, and the request that deletes it ends: the others that have read the
\* row hold something that no longer exists.
NamePcs == {"idle", "signin_team", "signin_new", "team_new"}
HoldTeam(t)      == {r \in Requests : req[r].team = t /\ req[r].pc \notin NamePcs}
HoldMember(t, p) == {r \in Requests : /\ req[r].team = t /\ req[r].user = p
                                       /\ req[r].pc \in {"remove_count", "remove_row"}}
RowsGone(me, holders) ==
    [r \in Requests |-> IF r = me THEN Idle
                        ELSE [req[r] EXCEPT !.row = @ /\ r \notin holders]]

Give(t, p, what) == role' = [role EXCEPT ![t][p] = what]
Exists(r)        == req[r].team \in teams /\ req[r].row

----------------------------------------------------------------------------
(* invite_member.                                                          *)

InviteCheck(r) ==
    /\ \E t \in teams, u \in Users : \E by \in Admins(t) \ {u} :
         /\ Begin(r, "invite_user", by, u, t)
         /\ hasty' = hasty \cup (IF Busy(SignInPcs, u) THEN {u} ELSE {})
         /\ mingled' = mingled \cup {t}
    /\ UNCHANGED <<account, teams, role, led, contest, auto>>

\* The role the membership will have comes from the user row as it is now.
InviteUser(r) ==
    /\ At(r, "invite_user")
    /\ \/ account[req[r].user] = "none" /\ Goto(r, "invite_create")
       \/ /\ account[req[r].user] # "none"
          /\ req' = [req EXCEPT ![r].pc = "invite_add",
                ![r].give = IF account[req[r].user] = "anonymous" THEN "pending" ELSE "member"]
    /\ Quiet

\* The address is unique: a row that somebody else has created is an error.
InviteCreate(r) ==
    /\ At(r, "invite_create")
    /\ \/ /\ account[req[r].user] = "none"
          /\ account' = [account EXCEPT ![req[r].user] = "anonymous"]
          /\ req' = [req EXCEPT ![r].pc = "invite_add", ![r].give = "pending"]
       \/ account[req[r].user] # "none" /\ End(r) /\ UNCHANGED account
    /\ UNCHANGED <<teams, role, begun, history>>

InviteAdd(r) ==
    /\ At(r, "invite_add")
    /\ IF Exists(r) /\ role[req[r].team][req[r].user] = "none"
       THEN Give(req[r].team, req[r].user, req[r].give) ELSE UNCHANGED role
    /\ End(r)
    /\ UNCHANGED <<account, teams, begun, history>>

----------------------------------------------------------------------------
(* verify_code: create_or_get_user, then the teams.                        *)

SignInUser(r) ==
    /\ \E u \in Users :
         /\ Begin(r, CASE account[u] = "none"      -> "signin_create"
                       [] account[u] = "anonymous" -> "signin_activate"
                       [] account[u] = "editor"    -> "signin_team", u, u, Prefix)
         /\ hasty' = hasty \cup (IF Busy(InvitePcs, u) THEN {u} ELSE {})
    /\ mingled' = mingled \cup (IF \E o \in Requests : req[o].pc \in SignInPcs
                                THEN Names ELSE {})
    /\ UNCHANGED <<account, teams, role, led, contest, auto>>

SignInCreate(r) ==
    /\ At(r, "signin_create")
    /\ \/ /\ account[req[r].user] = "none"
          /\ account' = [account EXCEPT ![req[r].user] = "editor"]
          /\ Goto(r, "signin_team")
       \/ account[req[r].user] # "none" /\ End(r) /\ UNCHANGED account
    /\ UNCHANGED <<teams, role, begun, history>>

\* _activate_anonymous_user: the user row, then the memberships.
SignInActivate(r) ==
    /\ At(r, "signin_activate")
    /\ account' = [account EXCEPT ![req[r].user] = "editor"]
    /\ Goto(r, "signin_pending")
    /\ UNCHANGED <<teams, role, begun, history>>

\* Mutant of SignInPending: only the membership of the automatic team.
ActivatePrefix(r) ==
    /\ At(r, "signin_pending")
    /\ role' = [role EXCEPT ![Prefix][req[r].user] = IF @ = "pending" THEN "member" ELSE @]
    /\ Goto(r, "signin_team")
    /\ UNCHANGED <<account, teams, begun, history>>

SignInPending(r) ==
    /\ At(r, "signin_pending")
    /\ role' = [t \in Names |-> [role[t] EXCEPT ![req[r].user] =
                                    IF @ = "pending" THEN "member" ELSE @]]
    /\ Goto(r, "signin_team")
    /\ UNCHANGED <<account, teams, begun, history>>

\* get_or_create_team.
FindTeam(r) ==
    /\ At(r, "signin_team")
    /\ Goto(r, IF req[r].team \notin teams THEN "signin_new"
               ELSE IF req[r].team = Prefix THEN "signin_members" ELSE "signin_join")
    /\ Quiet

\* A name is unique: losing the race for it ends the sign-in.
NewTeam(r) ==
    /\ At(r, "signin_new")
    /\ \/ /\ req[r].team \notin teams
          /\ teams' = teams \cup {req[r].team}
          /\ Goto(r, "signin_provision")
       \/ req[r].team \in teams /\ End(r) /\ UNCHANGED teams
    /\ UNCHANGED <<account, role, begun, history>>

Provision(r) ==
    /\ At(r, "signin_provision")
    /\ Goto(r, "signin_admin")
    /\ Quiet

\* A team row goes, and every membership with it.
DeleteTeamRow(r) ==
    /\ teams' = IF Exists(r) THEN teams \ {req[r].team} ELSE teams
    /\ role' = IF Exists(r) THEN [role EXCEPT ![req[r].team] = [p \in People |-> "none"]]
               ELSE role
    /\ auto' = IF Exists(r) THEN {x \in auto : x[1] # req[r].team} ELSE auto
    /\ led' = IF Exists(r) THEN led \ {req[r].team} ELSE led
    /\ req' = IF Exists(r) THEN RowsGone(r, HoldTeam(req[r].team)) ELSE [req EXCEPT ![r] = Idle]
    /\ UNCHANGED <<account, begun, contest, hasty, mingled>>

\* The folder of the new team cannot be made: the team is taken back.
ProvisionFails(r) ==
    /\ At(r, "signin_provision") \/ At(r, "team_provision")
    /\ DeleteTeamRow(r)

\* Mutant of CompareDomains: members of other domains do not matter.
CompareNothing(r) ==
    /\ At(r, "signin_members")
    /\ Goto(r, "signin_join")
    /\ Quiet

\* The domains of the members who are not administrators: when this one is not
\* among them, the user goes to the team of the whole domain.
CompareDomains(r) ==
    /\ At(r, "signin_members")
    /\ LET others == {Domain[u] : u \in {v \in Users : /\ Exists(r)
                                          /\ role[req[r].team][v] \in {"pending", "member"}}}
           mine   == Domain[req[r].user]
       IN  req' = [req EXCEPT ![r] =
                     IF others # {} /\ mine \notin others
                     THEN [@ EXCEPT !.pc = "signin_team", !.team = mine, !.row = TRUE]
                     ELSE [@ EXCEPT !.pc = "signin_join"]]
    /\ Quiet

\* get_or_create of a membership; without the team it is an error.
AddMember(r, p, what, next) ==
    /\ IF Exists(r) /\ role[req[r].team][p] = "none"
       THEN Give(req[r].team, p, what) ELSE UNCHANGED role
    /\ IF Exists(r) THEN next ELSE End(r)
    /\ led' = IF Exists(r) /\ what = "admin" THEN led \cup {req[r].team} ELSE led

SignInAdmin(r) ==
    /\ At(r, "signin_admin")
    /\ AddMember(r, Root, "admin", Goto(r, "signin_join"))
    /\ UNCHANGED <<account, teams, begun, contest, hasty, auto, mingled>>

SignInJoin(r) ==
    /\ At(r, "signin_join")
    /\ auto' = IF Exists(r) /\ role[req[r].team][req[r].user] = "none"
               THEN auto \cup {<<req[r].team, req[r].user>>} ELSE auto
    /\ AddMember(r, req[r].user, "member",
                 req' = [req EXCEPT ![r].pc = "signin_public", ![r].team = Public])
    /\ UNCHANGED <<account, teams, begun, contest, hasty, mingled>>

SignInPublic(r) ==
    /\ At(r, "signin_public")
    /\ AddMember(r, req[r].user, "member", End(r))
    /\ UNCHANGED <<account, teams, begun, contest, hasty, auto, mingled>>

----------------------------------------------------------------------------
(* create_team, delete_team (its documents and storages are the Storages   *)
(* module's) and the CLI.                                                  *)

CreateCheck(r) ==
    /\ \E u \in Users, t \in Names \ teams :
         account[u] = "editor" /\ Begin(r, "team_new", u, u, t)
    /\ UNCHANGED <<account, teams, role, history>>

CreateTeam(r) ==
    /\ At(r, "team_new")
    /\ \/ /\ req[r].team \notin teams
          /\ teams' = teams \cup {req[r].team}
          /\ Goto(r, "team_provision")
       \/ req[r].team \in teams /\ End(r) /\ UNCHANGED teams
    /\ UNCHANGED <<account, role, begun, history>>

CreateProvision(r) ==
    /\ At(r, "team_provision")
    /\ Goto(r, "team_admin")
    /\ Quiet

CreateAdmin(r) ==
    /\ At(r, "team_admin")
    /\ \/ /\ role[req[r].team][req[r].by] = "none"
          /\ AddMember(r, req[r].by, "admin", End(r))
          /\ UNCHANGED <<teams, auto, account, begun, contest, hasty, mingled>>
       \/ /\ role[req[r].team][req[r].by] # "none"  \* already a member: taken back
          /\ DeleteTeamRow(r)

DeleteCheck(r) ==
    /\ \E t \in teams \ {Public} : \E by \in Admins(t) : Begin(r, "delete_team", by, by, t)
    /\ UNCHANGED <<account, teams, role, history>>

DeleteTeam(r) ==
    /\ At(r, "delete_team")
    /\ DeleteTeamRow(r)

\* issue_cli_tokens joins teams that exist, as an administrator.
CliFind(r) ==
    /\ \E t \in teams : Begin(r, "cli_add", Root, Root, t)
    /\ UNCHANGED <<account, teams, role, history>>

CliAdd(r) ==
    /\ At(r, "cli_add")
    /\ AddMember(r, Root, "admin", End(r))
    /\ UNCHANGED <<account, teams, begun, contest, hasty, auto, mingled>>

----------------------------------------------------------------------------
(* remove_member.                                                          *)

RemoveCheck(r) ==
    /\ \E t \in teams : \E by \in Admins(t), u \in People :
         u # by /\ Begin(r, "remove_read", by, u, t)
    /\ UNCHANGED <<account, teams, role, history>>

RemoveRead(r) ==
    /\ At(r, "remove_read")
    /\ \/ ~Exists(r) /\ End(r)
       \/ Exists(r) /\ role[req[r].team][req[r].user] = "none" /\ End(r)
       \/ Exists(r) /\ role[req[r].team][req[r].user] = "admin" /\ Goto(r, "remove_count")
       \/ /\ Exists(r) /\ role[req[r].team][req[r].user] \in {"pending", "member"}
          /\ Goto(r, "remove_row")
    /\ Quiet

\* Another removal in this team has counted and not yet deleted.
Counted(r) == \E o \in Requests \ {r} : At(o, "remove_row") /\ req[o].team = req[r].team

\* Mutant of RemoveCount: one administrator may go when it is the only one.
RemoveCountNone(r) ==
    /\ At(r, "remove_count")
    /\ IF Admins(req[r].team) = {} THEN End(r) ELSE Goto(r, "remove_row")
    /\ contest' = (contest \/ Counted(r))
    /\ UNCHANGED <<account, teams, role, begun, led, hasty, auto, mingled>>

RemoveCount(r) ==
    /\ At(r, "remove_count")
    /\ IF Cardinality(Admins(req[r].team)) <= 1 THEN End(r) ELSE Goto(r, "remove_row")
    /\ contest' = (contest \/ Counted(r))
    /\ UNCHANGED <<account, teams, role, begun, led, hasty, auto, mingled>>

\* The row that was read, if it is still there.
RemoveRow(r) ==
    /\ At(r, "remove_row")
    /\ \/ /\ Exists(r)
          /\ Give(req[r].team, req[r].user, "none")
          /\ auto' = auto \ {<<req[r].team, req[r].user>>}
          /\ req' = RowsGone(r, HoldMember(req[r].team, req[r].user))
       \/ ~Exists(r) /\ End(r) /\ UNCHANGED <<role, auto>>
    /\ UNCHANGED <<account, teams, begun, led, contest, hasty, mingled>>

Die(r) ==
    /\ ~At(r, "idle")
    /\ hasty' = hasty \cup (IF At(r, "signin_pending") THEN {req[r].user} ELSE {})
    /\ End(r)
    /\ UNCHANGED <<account, teams, role, begun, led, contest, auto, mingled>>

Step(r) ==
    \/ InviteCheck(r) \/ InviteUser(r) \/ InviteCreate(r) \/ InviteAdd(r)
    \/ SignInUser(r) \/ SignInCreate(r) \/ SignInActivate(r) \/ SignInPending(r)
    \/ FindTeam(r) \/ NewTeam(r) \/ Provision(r) \/ ProvisionFails(r) \/ CompareDomains(r)
    \/ SignInAdmin(r) \/ SignInJoin(r) \/ SignInPublic(r)
    \/ CreateCheck(r) \/ CreateTeam(r) \/ CreateProvision(r) \/ CreateAdmin(r)
    \/ DeleteCheck(r) \/ DeleteTeam(r) \/ CliFind(r) \/ CliAdd(r)
    \/ RemoveCheck(r) \/ RemoveRead(r) \/ RemoveCount(r) \/ RemoveRow(r) \/ Die(r)

Next == \E r \in Requests : Step(r)

Spec == Init /\ [][Next]_vars

----------------------------------------------------------------------------
TypeOK ==
    /\ account \in [Users -> Accounts] /\ teams \subseteq Names
    /\ role \in [Names -> [People -> Roles]]
    /\ req \in [Requests -> ReqRecord] /\ begun \in 0 .. MaxRequests
    /\ led \subseteq Names /\ contest \in BOOLEAN /\ hasty \subseteq Users
    /\ auto \subseteq Names \X Users /\ mingled \subseteq Names

\* "Last admin cannot be removed" (docs/teams-api.md:63): a team that has had an
\* administrator keeps one as long as it exists, whatever else goes on, unless a
\* removal counts while another has counted and not yet deleted: each then counts
\* the one the other removes (team.py:346).
LastAdmin == ~contest => \A t \in led : Admins(t) # {}

\* "Pending" says of a member that the account is not used yet: it never stays
\* after the first sign-in and nobody is a member before it, unless an invitation
\* overlapped that sign-in or the sign-in died between its two writes (auth.py:83).
PendingMeansUnused ==
    \A u \in Users \ hasty : ~Busy(SignInPcs, u) =>
        \A t \in Names : /\ role[t][u] = "pending" => account[u] # "editor"
                         /\ role[t][u] = "member" => account[u] = "editor"

\* Sign-ins never gather two domains in one automatic team just because their
\* first labels are the same (team.py:426), unless two of them overlap, each
\* before the other is a member, or somebody of another domain was invited.
DomainsApart ==
    \A x, y \in auto : (x[1] = y[1] /\ x[1] \notin mingled) => Domain[x[2]] = Domain[y[2]]
=============================================================================
