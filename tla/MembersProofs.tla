----------------------------- MODULE MembersProofs -----------------------------
(***************************************************************************)
(* For any users, teams and requests: a team keeps an administrator (the   *)
(* removal of team.py:346 among every other request of Members), a pending *)
(* membership is that of an account not used yet, and sign-ins keep the    *)
(* domains apart.  The first proof follows what each removal has read      *)
(* (Held, Spare), the second what the account says of a user (Used), the   *)
(* third what a sign-in has seen of the team before it joins (Compared).   *)
(***************************************************************************)
EXTENDS Members, FiniteSetTheorems, TLAPS

\* The removals that have read a membership row which is still there.
Counting(r) == req[r].pc = "remove_count" /\ req[r].row
Removing(r) == req[r].pc = "remove_row" /\ req[r].row
RoleOf(r)   == role[req[r].team][req[r].user]

\* A row that was read and not deleted since is still a row, of a team that exists,
\* and the row of an administrator is still one.
Held(r) == /\ (Counting(r) \/ Removing(r)) => /\ RoleOf(r) # "none"
                                              /\ req[r].team \in teams
           /\ Counting(r) => RoleOf(r) = "admin"

\* A request that is about to remove an administrator leaves another one, and is the
\* only one in its team that is about to do so.
Spare(r) ==
    (Removing(r) /\ RoleOf(r) = "admin") =>
        /\ \E p \in Admins(req[r].team) : p # req[r].user
        /\ \A o \in Requests \ {r} :
              Removing(o) /\ req[o].team = req[r].team => RoleOf(o) # "admin"

Led == \A t \in led : Admins(t) # {}

\* Only a person with an address signs in or is invited.
PersonPcs == SignInPcs \cup InvitePcs
Named(r)  == req[r].pc \in PersonPcs => req[r].user \in Users

\* The system administrator has no other role.
Headed == \A t \in Names : role[t][Root] \in {"none", "admin"}

IInv == /\ TypeOK
        /\ \A r \in Requests : Held(r) /\ Named(r)
        /\ Headed
        /\ ~contest => Led /\ \A r \in Requests : Spare(r)

----------------------------------------------------------------------------
(* Steps that take nobody's membership away.                               *)

RemovalPcs == {"remove_count", "remove_row"}

\* The request goes on, or ends, and is not about to remove a row.
Moves(r) == \E rec \in ReqRecord :
    /\ rec.pc \notin RemovalPcs /\ (rec.pc \in PersonPcs => rec.user \in Users)
    /\ req' = [req EXCEPT ![r] = rec]

\* Who has a membership keeps it, an administrator as such, and nobody else who has
\* one becomes an administrator.
Grows == \A t \in Names, p \in People :
    role[t][p] # "none" => /\ role'[t][p] # "none"
                           /\ (role'[t][p] = "admin" <=> role[t][p] = "admin")

\* The history and the rows other than memberships keep their shape.
Shaped == /\ account' \in [Users -> Accounts] /\ begun' \in 0 .. MaxRequests
          /\ hasty' \subseteq Users /\ auto' \subseteq Names \X Users /\ mingled' \subseteq Names

LEMMA Idling == Idle \in ReqRecord /\ Idle.pc = "idle" /\ Idle.pc \notin RemovalPcs \cup PersonPcs
BY DEF Idle, ReqRecord, OtherPcs, People, Names, Roles, RemovalPcs, SignInPcs, InvitePcs, PersonPcs

LEMMA RecordOf ==
    ASSUME TypeOK, NEW r \in Requests
    PROVE  /\ req[r] \in ReqRecord /\ req[r].by \in People /\ req[r].user \in People
           /\ req[r].team \in Names /\ req[r].give \in Roles /\ req[r].row \in BOOLEAN
BY DEF TypeOK, ReqRecord

LEMMA EndMoves == ASSUME NEW r, End(r) PROVE Moves(r)
<1> QED
  BY Idling DEF End, Moves

LEMMA GotoMoves ==
    ASSUME TypeOK, NEW r \in Requests, NEW x \in InvitePcs \cup {"remove_read"} \cup SignInPcs \cup OtherPcs,
           Goto(r, x), x \in PersonPcs => req[r].user \in Users
    PROVE  Moves(r)
<1> DEFINE q == req[r]
           rec == [q EXCEPT !.pc = x]
<1>1. req' = [req EXCEPT ![r] = rec]
  BY DEF Goto
<1>2. q \in ReqRecord /\ (x \in PersonPcs => q.user \in Users)
  BY RecordOf
<1> HIDE DEF q
<1>3. rec \in ReqRecord /\ rec.pc = x /\ rec.user = q.user
  BY <1>2 DEF ReqRecord, RemovePcs
<1>4. x \notin RemovalPcs
  BY DEF RemovalPcs, InvitePcs, SignInPcs, OtherPcs
<1> QED
  BY <1>1, <1>2, <1>3, <1>4 DEF Moves

LEMMA BeginMoves ==
    ASSUME TypeOK, NEW r \in Requests, NEW x \in InvitePcs \cup {"remove_read"} \cup SignInPcs \cup OtherPcs,
           NEW by \in People, NEW u \in People, NEW t \in Names, Begin(r, x, by, u, t),
           x \in PersonPcs => u \in Users
    PROVE  Moves(r) /\ begun' \in 0 .. MaxRequests
<1> DEFINE rec == [Idle EXCEPT !.pc = x, !.by = by, !.user = u, !.team = t]
<1>1. req' = [req EXCEPT ![r] = rec] /\ begun' = begun + 1 /\ begun < MaxRequests
  BY DEF Begin
<1>2. rec \in ReqRecord /\ rec.pc = x /\ rec.user = u
  BY DEF Idle, ReqRecord, RemovePcs, Names, Roles
<1> HIDE DEF rec
<1>3. x \notin RemovalPcs
  BY DEF RemovalPcs, InvitePcs, SignInPcs, OtherPcs
<1>4. Moves(r)
  BY <1>1, <1>2, <1>3 DEF Moves
<1>5. begun' \in 0 .. MaxRequests
  BY <1>1, BoundAssumption DEF TypeOK
<1> QED
  BY <1>4, <1>5

\* Such a step keeps the invariant.
LEMMA GrowsOK ==
    ASSUME IInv, NEW r \in Requests, Moves(r), Grows, Shaped, contest' \in BOOLEAN,
           contest => contest',
           role' \in [Names -> [People -> Roles]], teams \subseteq teams', teams' \subseteq Names, Headed',
           led' \subseteq Names, \A t \in led' \ led : \E p \in People : role'[t][p] = "admin"
    PROVE  IInv'
<1>0. TypeOK
  BY DEF IInv
<1>1. PICK rec \in ReqRecord :
        /\ rec.pc \notin RemovalPcs /\ (rec.pc \in PersonPcs => rec.user \in Users)
        /\ req' = [req EXCEPT ![r] = rec]
  BY DEF Moves
<1>2. /\ req' \in [Requests -> ReqRecord] /\ req'[r] = rec
      /\ \A o \in Requests \ {r} : req'[o] = req[o]
  BY <1>0, <1>1 DEF TypeOK
<1>3. TypeOK'
  BY <1>0, <1>2 DEF TypeOK, Shaped
<1>4. ~Counting(r)' /\ ~Removing(r)'
  BY <1>1, <1>2 DEF Counting, Removing, RemovalPcs
<1>5. ASSUME NEW o \in Requests \ {r}
      PROVE  /\ (Counting(o)' <=> Counting(o)) /\ (Removing(o)' <=> Removing(o))
             /\ req'[o] = req[o]
             /\ RoleOf(o) # "none" => /\ RoleOf(o)' # "none"
                                      /\ (RoleOf(o)' = "admin" <=> RoleOf(o) = "admin")
  <2>1. req[o].team \in Names /\ req[o].user \in People /\ req'[o] = req[o]
    BY <1>0, <1>2, RecordOf
  <2> QED
    BY <2>1 DEF Counting, Removing, RoleOf, Grows
<1>6. ASSUME NEW o \in Requests PROVE Held(o)' /\ Named(o)'
  <2>1. CASE o = r
    BY <1>1, <1>2, <1>4, <2>1 DEF Held, Named
  <2>2. CASE o # r
    <3>1. Held(o) /\ Named(o)
      BY DEF IInv
    <3> QED
      BY <1>5, <2>2, <3>1 DEF Held, Named
  <2> QED
    BY <2>1, <2>2
<1>7. ASSUME NEW t \in Names, NEW p \in Admins(t) PROVE p \in Admins(t)'
  BY <1>7 DEF Admins, Grows
<1>8. ASSUME ~contest PROVE Led'
  <2> SUFFICES ASSUME NEW t \in led' PROVE Admins(t)' # {}
    BY DEF Led
  <2>1. CASE t \in led
    BY <1>7, <1>8, <2>1 DEF IInv, Led
  <2>2. CASE t \notin led
    BY <2>2 DEF Admins
  <2> QED
    BY <2>1, <2>2
<1>9. ASSUME ~contest, NEW o \in Requests PROVE Spare(o)'
  <2>1. CASE o = r
    BY <1>4, <2>1 DEF Spare
  <2>2. CASE o # r
    <3> SUFFICES ASSUME Removing(o)', RoleOf(o)' = "admin"
                 PROVE  /\ \E p \in Admins(req[o].team)' : p # req'[o].user
                        /\ \A q \in Requests \ {o} :
                              Removing(q)' /\ req'[q].team = req'[o].team => RoleOf(q)' # "admin"
      BY DEF Spare
    <3>1. Removing(o) /\ Held(o) /\ Spare(o) /\ req'[o] = req[o] /\ req[o].team \in Names
      BY <1>0, <1>5, <1>9, <2>2, RecordOf DEF IInv
    <3>2. RoleOf(o) = "admin"
      BY <1>5, <2>2, <3>1 DEF Held
    <3>3. \E p \in Admins(req[o].team) : p # req[o].user
      BY <3>1, <3>2 DEF Spare
    <3>4. \E p \in Admins(req[o].team)' : p # req'[o].user
      BY <1>7, <3>1, <3>3
    <3>5. ASSUME NEW q \in Requests \ {o}, Removing(q)', req'[q].team = req'[o].team
          PROVE  RoleOf(q)' # "admin"
      <4>1. q # r
        BY <1>4, <3>5
      <4>2. Removing(q) /\ req'[q] = req[q]
        BY <1>5, <3>5, <4>1
      <4>3. RoleOf(q) # "admin"
        BY <3>1, <3>2, <3>5, <4>2 DEF Spare
      <4>4. Held(q)
        BY DEF IInv
      <4> QED
        BY <1>5, <4>1, <4>2, <4>3, <4>4 DEF Held
    <3> QED
      BY <3>4, <3>5
  <2> QED
    BY <2>1, <2>2
<1> QED
  BY <1>3, <1>6, <1>8, <1>9 DEF IInv

----------------------------------------------------------------------------
(* Steps that take memberships away.                                       *)

\* The rows of the holders are gone for them; everything else stays.
LEMMA RowsGoneType ==
    ASSUME TypeOK, NEW me \in Requests, NEW H, req' = RowsGone(me, H)
    PROVE  /\ req' \in [Requests -> ReqRecord] /\ req'[me] = Idle
           /\ \A o \in Requests \ {me} :
                 /\ req'[o].pc = req[o].pc /\ req'[o].user = req[o].user
                 /\ req'[o].team = req[o].team /\ req'[o].give = req[o].give
                 /\ req'[o].row => req[o].row /\ o \notin H
<1>1. ASSUME NEW o \in Requests \ {me}
      PROVE  /\ req'[o] \in ReqRecord
             /\ req'[o].pc = req[o].pc /\ req'[o].user = req[o].user
             /\ req'[o].team = req[o].team /\ req'[o].give = req[o].give
             /\ req'[o].row => req[o].row /\ o \notin H
  <2> DEFINE q == req[o]
             b == q.row /\ o \notin H
             rec == [q EXCEPT !.row = b]
  <2>1. req'[o] = rec
    BY Zenon DEF RowsGone
  <2>2. q \in ReqRecord
    BY RecordOf
  <2>3. b \in BOOLEAN /\ (b => q.row /\ o \notin H)
    BY Zenon
  <2> HIDE DEF b
  <2>4. q = req[o]
    OBVIOUS
  <2> HIDE DEF q
  <2>5. rec \in ReqRecord /\ rec.pc = q.pc /\ rec.user = q.user /\ rec.team = q.team
        /\ rec.give = q.give /\ rec.row = b
    BY <2>2, <2>3 DEF ReqRecord
  <2> HIDE DEF rec
  <2> QED
    BY <2>1, <2>3, <2>4, <2>5
<1>2. req'[me] = Idle /\ Idle \in ReqRecord
  BY Idling DEF RowsGone
<1>3. req' \in [Requests -> ReqRecord]
  <2>1. req' = [o \in Requests |-> req'[o]]
    BY DEF RowsGone
  <2>2. \A o \in Requests : req'[o] \in ReqRecord
    BY <1>1, <1>2
  <2> HIDE DEF RowsGone
  <2> QED
    BY <2>1, <2>2
<1> QED
  BY <1>1, <1>2, <1>3

LEMMA DeleteTeamRowOK == ASSUME IInv, NEW r \in Requests, DeleteTeamRow(r) PROVE IInv'
<1>0. TypeOK /\ req[r].team \in Names
  BY RecordOf DEF IInv
<1>a. UNCHANGED <<account, begun, contest, hasty, mingled>>
  BY DEF DeleteTeamRow
<1>1. CASE ~Exists(r)
  <2>1. req' = [req EXCEPT ![r] = Idle] /\ UNCHANGED <<teams, role, auto, led>>
    BY <1>1 DEF DeleteTeamRow
  <2>2. Moves(r)
    BY <2>1, EndMoves DEF End
  <2>3. Grows /\ Shaped
    BY <1>0, <1>a, <2>1 DEF Grows, Shaped, TypeOK
  <2>4. /\ role' \in [Names -> [People -> Roles]] /\ teams \subseteq teams' /\ teams' \subseteq Names
        /\ led' \subseteq Names /\ led' = led /\ contest' = contest /\ contest' \in BOOLEAN
    BY <1>0, <1>a, <2>1 DEF TypeOK
  <2>5. Headed'
    BY <2>1 DEF IInv, Headed
  <2> QED
    BY <1>a, <2>2, <2>3, <2>4, <2>5, GrowsOK
<1>2. CASE Exists(r)
  <2> DEFINE t == req[r].team
  <2>1. /\ teams' = teams \ {t} /\ led' = led \ {t} /\ req' = RowsGone(r, HoldTeam(t))
        /\ role' = [role EXCEPT ![t] = [p \in People |-> "none"]]
        /\ auto' = {x \in auto : x[1] # t}
    BY <1>2 DEF DeleteTeamRow
  <2>2. t \in Names
    BY <1>0
  <2>3. /\ req' \in [Requests -> ReqRecord] /\ req'[r] = Idle
        /\ \A o \in Requests \ {r} :
              /\ req'[o].pc = req[o].pc /\ req'[o].user = req[o].user
              /\ req'[o].team = req[o].team
              /\ req'[o].row => req[o].row /\ o \notin HoldTeam(t)
    BY <1>0, <2>1, RowsGoneType
  <2> HIDE DEF t
  <2>4. /\ role' \in [Names -> [People -> Roles]]
        /\ \A s \in Names \ {t} : role'[s] = role[s]
    BY <1>0, <2>1, <2>2 DEF TypeOK, Roles
  <2>5. TypeOK'
    BY <1>0, <1>a, <2>1, <2>3, <2>4 DEF TypeOK
  <2>6. ~Counting(r)' /\ ~Removing(r)' /\ Named(r)'
    BY <2>3, Idling DEF Counting, Removing, Named
  <2>7. ASSUME NEW o \in Requests \ {r}, Counting(o)' \/ Removing(o)'
        PROVE  /\ Counting(o)' <=> Counting(o)
               /\ Removing(o)' <=> Removing(o)
               /\ req[o].team # t /\ req[o].team \in Names
               /\ RoleOf(o)' = RoleOf(o) /\ req'[o].team = req[o].team
               /\ req'[o].user = req[o].user
    <3>1. o \notin HoldTeam(t) /\ req[o].row
      BY <2>3, <2>7 DEF Counting, Removing
    <3>2. req[o].pc \in {"remove_count", "remove_row"} /\ req[o].team \in Names
      BY <1>0, <2>3, <2>7, RecordOf DEF Counting, Removing
    <3>3. req[o].team # t
      BY <3>1, <3>2 DEF HoldTeam, NamePcs
    <3> QED
      BY <2>3, <2>4, <2>7, <3>1, <3>2, <3>3 DEF Counting, Removing, RoleOf
  <2>8. ASSUME NEW o \in Requests PROVE Held(o)' /\ Named(o)'
    <3>1. CASE o = r
      BY <2>6, <3>1 DEF Held
    <3>2. CASE o # r
      <4>1. Held(o) /\ Named(o)
        BY DEF IInv
      <4>2. Named(o)'
        BY <2>3, <3>2, <4>1 DEF Named
      <4>3. Held(o)'
        BY <2>1, <2>7, <3>2, <4>1 DEF Held
      <4> QED
        BY <4>2, <4>3
    <3> QED
      BY <3>1, <3>2
  <2>9. \A s \in Names \ {t} : Admins(s)' = Admins(s)
    BY <2>4 DEF Admins
  <2>10. ASSUME ~contest PROVE Led'
    BY <1>0, <2>1, <2>9, <2>10 DEF IInv, Led, TypeOK
  <2>11. ASSUME ~contest, NEW o \in Requests PROVE Spare(o)'
    <3>1. CASE o = r
      BY <2>6, <3>1 DEF Spare
    <3>2. CASE o # r
      <4> SUFFICES ASSUME Removing(o)', RoleOf(o)' = "admin"
                   PROVE  /\ \E p \in Admins(req[o].team)' : p # req'[o].user
                          /\ \A q \in Requests \ {o} :
                                Removing(q)' /\ req'[q].team = req'[o].team => RoleOf(q)' # "admin"
        BY <2>7, <3>2 DEF Spare
      <4>1. Removing(o) /\ RoleOf(o) = "admin" /\ Spare(o) /\ req[o].team \in Names \ {t}
        BY <2>7, <2>11, <3>2 DEF IInv
      <4>2. \E p \in Admins(req[o].team)' : p # req'[o].user
        BY <2>7, <2>9, <3>2, <4>1 DEF Spare
      <4>3. ASSUME NEW q \in Requests \ {o}, Removing(q)', req'[q].team = req'[o].team
            PROVE  RoleOf(q)' # "admin"
        <5>1. q # r
          BY <2>6, <4>3
        <5>2. Removing(q) /\ req[q].team = req[o].team /\ RoleOf(q)' = RoleOf(q)
          BY <2>7, <3>2, <4>3, <5>1
        <5> QED
          BY <4>1, <5>2 DEF Spare
      <4> QED
        BY <4>2, <4>3
    <3> QED
      BY <3>1, <3>2
  <2>12. Headed'
    <3>1. ASSUME NEW s \in Names PROVE role'[s][Root] \in {"none", "admin"}
      <4>1. CASE s = t
        BY <1>0, <2>1, <4>1 DEF TypeOK, People
      <4>2. CASE s # t
        BY <2>4, <4>2 DEF IInv, Headed
      <4> QED
        BY <4>1, <4>2
    <3> QED
      BY <3>1 DEF Headed
  <2> QED
    BY <1>a, <2>5, <2>8, <2>10, <2>11, <2>12 DEF IInv
<1> QED
  BY <1>1, <1>2

\* A removal goes on: it has read, or counted.
LEMMA RemovalOK ==
    ASSUME IInv, NEW r \in Requests, NEW x \in RemovalPcs, Goto(r, x), contest' \in BOOLEAN,
           contest => contest', UNCHANGED <<account, teams, role, begun, led, hasty, auto, mingled>>,
           req[r].row => req[r].team \in teams /\ RoleOf(r) # "none",
           x = "remove_count" /\ req[r].row => RoleOf(r) = "admin",
           ~contest' /\ x = "remove_row" /\ req[r].row /\ RoleOf(r) = "admin" =>
              /\ \E p \in Admins(req[r].team) : p # req[r].user
              /\ \A o \in Requests \ {r} : ~(Removing(o) /\ req[o].team = req[r].team)
    PROVE  IInv'
<1>0. TypeOK /\ req[r] \in ReqRecord
  BY RecordOf DEF IInv
<1> DEFINE q == req[r]
           rec == [q EXCEPT !.pc = x]
<1>1. req' = [req EXCEPT ![r] = rec] /\ q = req[r]
  BY DEF Goto
<1> HIDE DEF q
<1>2. /\ rec \in ReqRecord /\ rec.pc = x /\ rec.team = q.team /\ rec.user = q.user
      /\ rec.row = q.row
  BY <1>0, <1>1 DEF ReqRecord, RemovePcs, RemovalPcs
<1> HIDE DEF rec
<1>3. /\ req' \in [Requests -> ReqRecord] /\ \A o \in Requests \ {r} : req'[o] = req[o]
      /\ req'[r].pc = x /\ req'[r].team = req[r].team /\ req'[r].user = req[r].user
      /\ req'[r].row = req[r].row
  BY <1>0, <1>1, <1>2 DEF TypeOK
<1>4. TypeOK'
  BY <1>0, <1>3 DEF TypeOK
<1>5. RoleOf(r)' = RoleOf(r) /\ (Removing(r)' <=> x = "remove_row" /\ req[r].row)
      /\ (Counting(r)' <=> x = "remove_count" /\ req[r].row)
  BY <1>3 DEF RoleOf, Removing, Counting
<1>6. \A o \in Requests \ {r} : /\ RoleOf(o)' = RoleOf(o) /\ (Removing(o)' <=> Removing(o))
                                /\ (Counting(o)' <=> Counting(o))
  BY <1>3 DEF RoleOf, Removing, Counting
<1>7. ASSUME NEW o \in Requests PROVE Held(o)' /\ Named(o)'
  <2>1. CASE o = r
    BY <1>3, <1>5, <2>1 DEF Held, Named, RemovalPcs, SignInPcs, InvitePcs, PersonPcs
  <2>2. CASE o # r
    BY <1>3, <1>6, <2>2 DEF IInv, Held, Named
  <2> QED
    BY <2>1, <2>2
<1>8. \A t : Admins(t)' = Admins(t)
  BY DEF Admins
<1>9. ASSUME ~contest' PROVE Led'
  BY <1>8, <1>9 DEF IInv, Led
<1>10. ASSUME ~contest', NEW o \in Requests PROVE Spare(o)'
  <2>1. CASE o = r
    <3> SUFFICES ASSUME Removing(r)', RoleOf(r)' = "admin"
                 PROVE  /\ \E p \in Admins(req[r].team)' : p # req'[r].user
                        /\ \A s \in Requests \ {r} :
                              Removing(s)' /\ req'[s].team = req'[r].team => RoleOf(s)' # "admin"
      BY <1>3, <2>1 DEF Spare
    <3>1. /\ \E p \in Admins(req[r].team) : p # req[r].user
          /\ \A s \in Requests \ {r} : ~(Removing(s) /\ req[s].team = req[r].team)
      BY <1>5, <1>10
    <3> QED
      BY <1>3, <1>6, <1>8, <3>1
  <2>2. CASE o # r
    <3> SUFFICES ASSUME Removing(o)', RoleOf(o)' = "admin"
                 PROVE  /\ \E p \in Admins(req[o].team)' : p # req'[o].user
                        /\ \A s \in Requests \ {o} :
                              Removing(s)' /\ req'[s].team = req'[o].team => RoleOf(s)' # "admin"
      BY <1>3, <2>2 DEF Spare
    <3>1. Removing(o) /\ RoleOf(o) = "admin" /\ Spare(o) /\ req'[o] = req[o]
      BY <1>3, <1>6, <1>10, <2>2 DEF IInv
    <3>2. \E p \in Admins(req[o].team)' : p # req'[o].user
      BY <1>8, <3>1 DEF Spare
    <3>3. ASSUME NEW s \in Requests \ {o}, Removing(s)', req'[s].team = req'[o].team
          PROVE  RoleOf(s)' # "admin"
      <4>1. CASE s = r
        BY <1>3, <1>5, <1>10, <2>2, <3>1, <3>3, <4>1
      <4>2. CASE s # r
        BY <1>3, <1>6, <3>1, <3>3, <4>2 DEF Spare
      <4> QED
        BY <4>1, <4>2
    <3> QED
      BY <3>2, <3>3
  <2> QED
    BY <2>1, <2>2
<1>11. Headed'
  BY DEF IInv, Headed
<1> QED
  BY <1>4, <1>7, <1>9, <1>10, <1>11 DEF IInv

\* A step that leaves memberships alone and takes no team away.
LEMMA SteadyOK ==
    ASSUME IInv, NEW r \in Requests, Moves(r), Shaped, UNCHANGED <<role, led>>,
           contest' \in BOOLEAN, contest => contest', teams \subseteq teams', teams' \subseteq Names
    PROVE  IInv'
<1>0. TypeOK
  BY DEF IInv
<1>1. Grows /\ Headed'
  BY DEF Grows, Headed, IInv
<1>2. role' \in [Names -> [People -> Roles]] /\ led' \subseteq Names /\ led' = led
  BY <1>0 DEF TypeOK
<1> QED
  BY <1>1, <1>2, GrowsOK

\* A step that changes nothing but where the request is.
LEMMA QuietOK ==
    ASSUME IInv, NEW r \in Requests, Moves(r), UNCHANGED <<account, teams, role, begun, history>>
    PROVE  IInv'
<1>1. /\ Shaped /\ UNCHANGED <<role, led>> /\ teams \subseteq teams' /\ teams' \subseteq Names
      /\ contest' = contest /\ contest' \in BOOLEAN
  BY DEF history, IInv, Shaped, TypeOK
<1> QED
  BY <1>1, SteadyOK

LEMMA RemoveReadOK == ASSUME IInv, NEW r \in Requests, RemoveRead(r) PROVE IInv'
<1>0. TypeOK
  BY DEF IInv
<1>1. UNCHANGED <<account, teams, role, begun, history>>
  BY DEF RemoveRead, Quiet
<1>2. CASE End(r)
  BY <1>1, <1>2, EndMoves, QuietOK
<1>3. UNCHANGED <<account, teams, role, begun, led, contest, hasty, auto, mingled>>
      /\ contest' \in BOOLEAN
  BY <1>0, <1>1 DEF history, TypeOK
<1>4. CASE Exists(r) /\ role[req[r].team][req[r].user] = "admin" /\ Goto(r, "remove_count")
  <2>1. req[r].row /\ req[r].team \in teams /\ RoleOf(r) = "admin"
    BY <1>4 DEF Exists, RoleOf
  <2>2. "remove_count" \in RemovalPcs
    BY DEF RemovalPcs
  <2> QED
    BY <1>3, <1>4, <2>1, <2>2, RemovalOK
<1>5. CASE /\ Exists(r) /\ role[req[r].team][req[r].user] \in {"pending", "member"}
           /\ Goto(r, "remove_row")
  <2>1. req[r].row /\ req[r].team \in teams /\ RoleOf(r) # "none" /\ RoleOf(r) # "admin"
    BY <1>5 DEF Exists, RoleOf
  <2>2. "remove_row" \in RemovalPcs
    BY DEF RemovalPcs
  <2> QED
    BY <1>3, <1>5, <2>1, <2>2, RemovalOK
<1> QED
  BY <1>2, <1>4, <1>5 DEF RemoveRead

\* Two administrators are one and another.
LEMMA AnotherAdmin ==
    ASSUME TypeOK, NEW t \in Names, NEW u, ~(Cardinality(Admins(t)) <= 1)
    PROVE  \E p \in Admins(t) : p # u
<1>1. IsFiniteSet(People)
  BY UsersAssumption, FS_AddElement DEF People
<1>2. Admins(t) \subseteq People
  BY DEF Admins
<1>3. SUFFICES ASSUME \A p \in Admins(t) : p = u PROVE FALSE
  OBVIOUS
<1>4. Admins(t) \subseteq {u}
  BY <1>3
<1>5. IsFiniteSet({u}) /\ Cardinality({u}) = 1
  BY FS_Singleton
<1>6. Cardinality(Admins(t)) <= Cardinality({u})
  BY <1>4, <1>5, FS_Subset
<1> QED
  BY <1>5, <1>6

LEMMA RemoveCountOK == ASSUME IInv, NEW r \in Requests, RemoveCount(r) PROVE IInv'
<1>0. TypeOK /\ req[r].team \in Names /\ Held(r)
  BY RecordOf DEF IInv
<1>1. /\ UNCHANGED <<account, teams, role, begun, led, hasty, auto, mingled>>
      /\ contest' = (contest \/ Counted(r)) /\ req[r].pc = "remove_count"
  BY DEF RemoveCount, At
<1>2. contest' \in BOOLEAN /\ (contest => contest') /\ (~contest' => ~Counted(r))
  BY <1>0, <1>1, Zenon DEF TypeOK
<1>3. CASE End(r)
  <2>1. Shaped /\ teams \subseteq teams' /\ teams' \subseteq Names
    BY <1>0, <1>1 DEF Shaped, TypeOK
  <2>2. Moves(r)
    BY <1>3, EndMoves
  <2> QED
    BY <1>1, <1>2, <2>1, <2>2, SteadyOK
<1>4. CASE ~(Cardinality(Admins(req[r].team)) <= 1) /\ Goto(r, "remove_row")
  <2>1. "remove_row" \in RemovalPcs
    BY DEF RemovalPcs
  <2>2. req[r].row => req[r].team \in teams /\ RoleOf(r) # "none"
    BY <1>0, <1>1 DEF Held, Counting
  <2>3. \E p \in Admins(req[r].team) : p # req[r].user
    BY <1>0, <1>4, AnotherAdmin
  <2>4. ~contest' => \A o \in Requests \ {r} : ~(Removing(o) /\ req[o].team = req[r].team)
    BY <1>2 DEF Counted, At, Removing
  <2> QED
    BY <1>1, <1>2, <1>4, <2>1, <2>2, <2>3, <2>4, RemovalOK
<1>5. End(r) \/ (~(Cardinality(Admins(req[r].team)) <= 1) /\ Goto(r, "remove_row"))
  BY DEF RemoveCount
<1> QED
  BY <1>3, <1>4, <1>5

LEMMA RemoveRowOK == ASSUME IInv, NEW r \in Requests, RemoveRow(r) PROVE IInv'
<1>0. TypeOK /\ req[r].team \in Names /\ req[r].user \in People
  BY RecordOf DEF IInv
<1>a. UNCHANGED <<account, teams, begun, led, contest, hasty, mingled>> /\ req[r].pc = "remove_row"
  BY DEF RemoveRow, At
<1>1. CASE End(r) /\ UNCHANGED <<role, auto>>
  BY <1>1, <1>a, EndMoves, QuietOK DEF history
<1>2. CASE ~(End(r) /\ UNCHANGED <<role, auto>>)
  <2> DEFINE t == req[r].team
             u == req[r].user
  <2>1. /\ Exists(r) /\ role' = [role EXCEPT ![t][u] = "none"]
        /\ auto' = auto \ {<<t, u>>} /\ req' = RowsGone(r, HoldMember(t, u))
    BY <1>2 DEF RemoveRow, Give
  <2>2. /\ req' \in [Requests -> ReqRecord] /\ req'[r] = Idle
        /\ \A o \in Requests \ {r} :
              /\ req'[o].pc = req[o].pc /\ req'[o].user = req[o].user
              /\ req'[o].team = req[o].team
              /\ req'[o].row => req[o].row /\ o \notin HoldMember(t, u)
    BY <1>0, <2>1, RowsGoneType
  <2>3. /\ role' \in [Names -> [People -> Roles]]
        /\ \A s \in Names, p \in People : role'[s][p] = IF s = t /\ p = u THEN "none" ELSE role[s][p]
    BY <1>0, <2>1 DEF TypeOK, Roles
  <2>4. TypeOK'
    BY <1>0, <1>a, <2>1, <2>2, <2>3 DEF TypeOK
  <2>5. ~Counting(r)' /\ ~Removing(r)' /\ Named(r)' /\ Removing(r) /\ Spare(r)' /\ Held(r)'
    BY <1>a, <2>1, <2>2, Idling DEF Counting, Removing, Named, Exists, Spare, Held
  <2>6. ASSUME NEW o \in Requests \ {r}, Counting(o)' \/ Removing(o)'
        PROVE  /\ (Counting(o)' <=> Counting(o)) /\ (Removing(o)' <=> Removing(o))
               /\ req[o].team \in Names /\ req[o].user \in People
               /\ RoleOf(o)' = RoleOf(o) /\ req'[o].team = req[o].team
               /\ req'[o].user = req[o].user
    <3>1. o \notin HoldMember(t, u) /\ req[o].row
      BY <2>2, <2>6 DEF Counting, Removing
    <3>2. /\ req[o].pc \in {"remove_count", "remove_row"} /\ req[o].team \in Names
          /\ req[o].user \in People
      BY <1>0, <2>2, <2>6, RecordOf DEF Counting, Removing
    <3>3. ~(req[o].team = t /\ req[o].user = u)
      BY <3>1, <3>2 DEF HoldMember
    <3>4. RoleOf(o)' = RoleOf(o)
      BY <2>2, <2>3, <3>2, <3>3 DEF RoleOf
    <3> QED
      BY <2>2, <2>6, <3>1, <3>2, <3>4 DEF Counting, Removing
  <2>7. ASSUME NEW o \in Requests PROVE Held(o)' /\ Named(o)'
    <3>1. CASE o = r
      BY <2>5, <3>1
    <3>2. CASE o # r
      <4>1. Held(o) /\ Named(o)
        BY DEF IInv
      <4>2. Named(o)'
        BY <2>2, <3>2, <4>1 DEF Named
      <4>3. Held(o)'
        BY <1>a, <2>6, <3>2, <4>1 DEF Held
      <4> QED
        BY <4>2, <4>3
    <3> QED
      BY <3>1, <3>2
  \* Whoever is an administrator now, and is not the one removed, remains one.
  <2>8. \A s \in Names : \A p \in Admins(s) : s # t \/ p # u => p \in Admins(s)'
    BY <2>3 DEF Admins
  <2>9. ASSUME ~contest PROVE Led'
    <3> SUFFICES ASSUME NEW s \in led PROVE Admins(s)' # {}
      BY <1>a DEF Led
    <3>1. Admins(s) # {} /\ s \in Names
      BY <1>0, <2>9 DEF IInv, Led, TypeOK
    <3>2. CASE s = t /\ u \in Admins(t)
      <4>1. RoleOf(r) = "admin"
        BY <3>2 DEF RoleOf, Admins
      <4>2. Spare(r)
        BY <2>9 DEF IInv
      <4>3. \E p \in Admins(t) : p # u
        BY <2>5, <4>1, <4>2 DEF Spare
      <4> QED
        BY <2>8, <3>1, <3>2, <4>3
    <3>3. CASE ~(s = t /\ u \in Admins(t))
      BY <2>8, <3>1, <3>3
    <3> QED
      BY <3>2, <3>3
  <2>10. ASSUME ~contest, NEW o \in Requests PROVE Spare(o)'
    <3>1. CASE o = r
      BY <2>5, <3>1
    <3>2. CASE o # r
      <4> SUFFICES ASSUME Removing(o)', RoleOf(o)' = "admin"
                   PROVE  /\ \E p \in Admins(req[o].team)' : p # req'[o].user
                          /\ \A q \in Requests \ {o} :
                                Removing(q)' /\ req'[q].team = req'[o].team => RoleOf(q)' # "admin"
        BY <2>6, <3>2 DEF Spare
      <4>1. Removing(o) /\ RoleOf(o) = "admin" /\ Spare(o) /\ req[o].team \in Names
        BY <2>6, <2>10, <3>2 DEF IInv
      <4>2. \E p \in Admins(req[o].team)' : p # req'[o].user
        <5>1. PICK p \in Admins(req[o].team) : p # req[o].user
          BY <4>1 DEF Spare
        <5>2. ~(req[o].team = t /\ p = u)
          BY <2>5, <3>2, <4>1, <5>1 DEF Spare, RoleOf, Admins
        <5> QED
          BY <2>2, <2>8, <3>2, <4>1, <5>1, <5>2
      <4>3. ASSUME NEW q \in Requests \ {o}, Removing(q)', req'[q].team = req'[o].team
            PROVE  RoleOf(q)' # "admin"
        <5>1. q # r
          BY <2>5, <4>3
        <5>2. Removing(q) /\ req[q].team = req[o].team /\ RoleOf(q)' = RoleOf(q)
          BY <2>6, <3>2, <4>3, <5>1
        <5> QED
          BY <4>1, <5>2 DEF Spare
      <4> QED
        BY <4>2, <4>3
    <3> QED
      BY <3>1, <3>2
  <2>11. Headed'
    BY <2>3 DEF IInv, Headed, People
  <2> QED
    BY <1>a, <2>4, <2>7, <2>9, <2>10, <2>11 DEF IInv
<1> QED
  BY <1>1, <1>2

----------------------------------------------------------------------------
(* The other steps, one by one.                                            *)

\* A membership is made where there is none, for a member, the first administrator
\* of a team, or the system administrator.
LEMMA AddMemberOK ==
    ASSUME IInv, NEW r \in Requests, NEW p \in People, NEW what \in {"member", "admin"},
           Moves(r), Shaped, UNCHANGED <<teams, contest>>,
           role' = IF Exists(r) /\ role[req[r].team][p] = "none"
                   THEN [role EXCEPT ![req[r].team][p] = what] ELSE role,
           led' = IF Exists(r) /\ what = "admin" THEN led \cup {req[r].team} ELSE led,
           p = Root => what = "admin",
           what = "admin" => p = Root \/ role[req[r].team][p] = "none"
    PROVE  IInv'
<1> DEFINE t == req[r].team
<1>1. TypeOK /\ t \in Names
  BY RecordOf DEF IInv
<1>2. /\ teams \subseteq teams' /\ teams' \subseteq Names
      /\ contest' = contest /\ contest' \in BOOLEAN
  BY <1>1 DEF TypeOK
<1> HIDE DEF t
<1>3. /\ role' \in [Names -> [People -> Roles]]
      /\ \A s \in Names, x \in People :
            role'[s][x] = IF s = t /\ x = p /\ Exists(r) /\ role[t][p] = "none"
                          THEN what ELSE role[s][x]
  <2>1. CASE Exists(r) /\ role[t][p] = "none"
    <3>1. role' = [role EXCEPT ![t][p] = what] /\ what \in Roles
      BY <2>1 DEF t, Roles
    <3> QED
      BY <1>1, <2>1, <3>1 DEF TypeOK
  <2>2. CASE ~(Exists(r) /\ role[t][p] = "none")
    BY <1>1, <2>2 DEF t, TypeOK
  <2> QED
    BY <2>1, <2>2
<1>4. Grows
  BY <1>3 DEF Grows
<1>5. Headed'
  BY <1>3 DEF IInv, Headed, People
<1>6. led' \subseteq Names
  BY <1>1 DEF t, TypeOK
<1>7. \A s \in led' \ led : \E x \in People : role'[s][x] = "admin"
  <2> SUFFICES ASSUME NEW s \in led' \ led PROVE \E x \in People : role'[s][x] = "admin"
    OBVIOUS
  <2>1. Exists(r) /\ what = "admin" /\ s = t
    BY DEF t
  <2>2. role[t][p] \in {"none", "admin"}
    BY <1>1, <2>1 DEF t, IInv, Headed
  <2>3. role'[s][p] = "admin"
    BY <1>1, <1>3, <2>1, <2>2
  <2> QED
    BY <2>3
<1> QED
  BY <1>2, <1>3, <1>4, <1>5, <1>6, <1>7, GrowsOK

\* An invitation or a removal begins, a team is named, found or looked for.
LEMMA BeginOK ==
    ASSUME IInv, NEW r \in Requests,
           NEW x \in InvitePcs \cup {"remove_read"} \cup SignInPcs \cup OtherPcs,
           NEW by \in People, NEW u \in People, NEW t \in Names, Begin(r, x, by, u, t),
           x \in PersonPcs => u \in Users,
           UNCHANGED <<account, teams, role, led, contest, auto>>,
           hasty' \subseteq Users, mingled' \subseteq Names
    PROVE  IInv'
<1>1. TypeOK
  BY DEF IInv
<1>2. Moves(r) /\ begun' \in 0 .. MaxRequests
  BY <1>1, BeginMoves
<1>3. /\ Shaped /\ teams \subseteq teams' /\ teams' \subseteq Names
      /\ contest' = contest /\ contest' \in BOOLEAN
  BY <1>1, <1>2 DEF TypeOK, Shaped
<1> QED
  BY <1>2, <1>3, SteadyOK

LEMMA ChecksOK ==
    ASSUME IInv, NEW r \in Requests,
           InviteCheck(r) \/ SignInUser(r) \/ CreateCheck(r) \/ DeleteCheck(r) \/ CliFind(r)
             \/ RemoveCheck(r)
    PROVE  IInv'
<1>0. /\ teams \subseteq Names /\ hasty \subseteq Users /\ mingled \subseteq Names
      /\ Users \subseteq People /\ Root \in People /\ Prefix \in Names
      /\ \A t : Admins(t) \subseteq People
  BY DEF IInv, TypeOK, People, Names, Admins
<1>1. CASE InviteCheck(r)
  <2>1. PICK t \in teams, u \in Users : \E by \in Admins(t) \ {u} :
          /\ Begin(r, "invite_user", by, u, t)
          /\ hasty' = hasty \cup (IF Busy(SignInPcs, u) THEN {u} ELSE {})
          /\ mingled' = mingled \cup {t}
    BY <1>1 DEF InviteCheck
  <2>2. PICK by \in Admins(t) \ {u} : Begin(r, "invite_user", by, u, t)
    BY <2>1
  <2>3. /\ UNCHANGED <<account, teams, role, led, contest, auto>>
        /\ hasty' \subseteq Users /\ mingled' \subseteq Names
    BY <1>0, <1>1, <2>1 DEF InviteCheck
  <2>4. by \in People /\ u \in People /\ t \in Names
    BY <1>0
  <2>5. "invite_user" \in InvitePcs
    BY DEF InvitePcs
  <2> QED
    BY <2>2, <2>3, <2>4, <2>5, BeginOK
<1>2. CASE SignInUser(r)
  <2>1. PICK u \in Users :
          /\ Begin(r, CASE account[u] = "none"      -> "signin_create"
                        [] account[u] = "anonymous" -> "signin_activate"
                        [] account[u] = "editor"    -> "signin_team", u, u, Prefix)
          /\ hasty' = hasty \cup (IF Busy(InvitePcs, u) THEN {u} ELSE {})
    BY <1>2 DEF SignInUser
  <2>2. account[u] \in {"none", "anonymous", "editor"}
    BY DEF IInv, TypeOK, Accounts
  <2>3. PICK x \in SignInPcs : Begin(r, x, u, u, Prefix)
    BY <2>1, <2>2 DEF SignInPcs
  <2>4. /\ UNCHANGED <<account, teams, role, led, contest, auto>>
        /\ hasty' \subseteq Users /\ mingled' \subseteq Names
    BY <1>0, <1>2, <2>1 DEF SignInUser
  <2> QED
    BY <1>0, <2>3, <2>4, BeginOK
<1>3. CASE CreateCheck(r)
  <2>1. PICK u \in Users, t \in Names \ teams : Begin(r, "team_new", u, u, t)
    BY <1>3 DEF CreateCheck
  <2>2. UNCHANGED <<account, teams, role, led, contest, auto, hasty, mingled>>
    BY <1>3 DEF CreateCheck, history
  <2>3. "team_new" \in OtherPcs /\ "team_new" \notin PersonPcs
    BY DEF OtherPcs, PersonPcs, InvitePcs, SignInPcs
  <2> QED
    BY <1>0, <2>1, <2>2, <2>3, BeginOK
<1>4. CASE DeleteCheck(r)
  <2>1. PICK t \in teams \ {Public} : \E by \in Admins(t) : Begin(r, "delete_team", by, by, t)
    BY <1>4 DEF DeleteCheck
  <2>2. PICK by \in Admins(t) : Begin(r, "delete_team", by, by, t)
    BY <2>1
  <2>3. UNCHANGED <<account, teams, role, led, contest, auto, hasty, mingled>>
    BY <1>4 DEF DeleteCheck, history
  <2>4. "delete_team" \in OtherPcs /\ "delete_team" \notin PersonPcs
    BY DEF OtherPcs, PersonPcs, InvitePcs, SignInPcs
  <2>5. by \in People /\ t \in Names
    BY <1>0
  <2> QED
    BY <1>0, <2>2, <2>3, <2>4, <2>5, BeginOK
<1>5. CASE CliFind(r)
  <2>1. PICK t \in teams : Begin(r, "cli_add", Root, Root, t)
    BY <1>5 DEF CliFind
  <2>2. UNCHANGED <<account, teams, role, led, contest, auto, hasty, mingled>>
    BY <1>5 DEF CliFind, history
  <2>3. "cli_add" \in OtherPcs /\ "cli_add" \notin PersonPcs
    BY DEF OtherPcs, PersonPcs, InvitePcs, SignInPcs
  <2> QED
    BY <1>0, <2>1, <2>2, <2>3, BeginOK
<1>6. CASE RemoveCheck(r)
  <2>1. PICK t \in teams : \E by \in Admins(t), u \in People : Begin(r, "remove_read", by, u, t)
    BY <1>6 DEF RemoveCheck
  <2>2. PICK by \in Admins(t), u \in People : Begin(r, "remove_read", by, u, t)
    BY <2>1
  <2>3. UNCHANGED <<account, teams, role, led, contest, auto, hasty, mingled>>
    BY <1>6 DEF RemoveCheck, history
  <2>4. "remove_read" \notin PersonPcs
    BY DEF PersonPcs, InvitePcs, SignInPcs
  <2>5. by \in People /\ t \in Names
    BY <1>0
  <2> QED
    BY <1>0, <2>2, <2>3, <2>4, <2>5, BeginOK
<1> QED
  BY <1>1, <1>2, <1>3, <1>4, <1>5, <1>6

\* Invitations and sign-ins are about a person with an address.
LEMMA PersonOf ==
    ASSUME IInv, NEW r \in Requests, req[r].pc \in PersonPcs
    PROVE  req[r].user \in Users /\ Users \subseteq People /\ Root \notin Users
BY NamesAssumption DEF IInv, Named, People

LEMMA InviteOK ==
    ASSUME IInv, NEW r \in Requests, InviteUser(r) \/ InviteCreate(r) \/ InviteAdd(r)
    PROVE  IInv'
<1>0. TypeOK /\ req[r] \in ReqRecord /\ req[r].pc \in InvitePcs /\ req[r].pc \in PersonPcs
  BY RecordOf DEF IInv, InviteUser, InviteCreate, InviteAdd, At, InvitePcs, PersonPcs
<1>1. req[r].user \in Users /\ Users \subseteq People /\ Root \notin Users
  BY <1>0, PersonOf
<1>2. ASSUME NEW x \in {"invite_create", "invite_add"}, NEW g \in Roles,
             req' = [req EXCEPT ![r].pc = x, ![r].give = g]
      PROVE  Moves(r)
  <2> DEFINE q == req[r]
             rec == [[q EXCEPT !.pc = x] EXCEPT !.give = g]
  <2>1. q \in ReqRecord /\ q.user \in Users /\ x \in InvitePcs
    BY <1>0, <1>1 DEF InvitePcs
  <2>2. req' = [req EXCEPT ![r] = rec]
    BY <1>0, <1>2 DEF TypeOK
  <2> HIDE DEF q
  <2>3. rec \in ReqRecord /\ rec.pc = x /\ rec.user = q.user
    BY <2>1 DEF ReqRecord
  <2> HIDE DEF rec
  <2>4. x \notin RemovalPcs
    BY <2>1 DEF RemovalPcs, InvitePcs
  <2> QED
    BY <2>1, <2>2, <2>3, <2>4 DEF Moves
<1>3. "invite_create" \in InvitePcs /\ "invite_add" \in InvitePcs
      /\ "pending" \in Roles /\ "member" \in Roles
  BY DEF InvitePcs, Roles
<1>4. CASE InviteUser(r)
  <2>1. Moves(r)
    <3>1. CASE Goto(r, "invite_create")
      BY <1>0, <1>1, <1>3, <3>1, GotoMoves
    <3>2. CASE ~Goto(r, "invite_create")
      <4> DEFINE g == IF account[req[r].user] = "anonymous" THEN "pending" ELSE "member"
      <4>1. req' = [req EXCEPT ![r].pc = "invite_add", ![r].give = g]
        BY <1>4, <3>2 DEF InviteUser
      <4>2. g \in Roles
        BY <1>3
      <4> HIDE DEF g
      <4> QED
        BY <1>2, <4>1, <4>2
    <3> QED
      BY <3>1, <3>2
  <2> QED
    BY <1>4, <2>1, QuietOK DEF InviteUser, Quiet
<1>5. CASE InviteCreate(r)
  <2>1. Moves(r)
    BY <1>2, <1>3, <1>5, EndMoves DEF InviteCreate
  <2>2. account' \in [Users -> Accounts]
    BY <1>0, <1>5 DEF InviteCreate, TypeOK, Accounts
  <2>3. UNCHANGED <<teams, role, begun, led, contest, hasty, auto, mingled>>
    BY <1>5 DEF InviteCreate, history
  <2>4. Shaped /\ teams \subseteq teams' /\ teams' \subseteq Names /\ contest' \in BOOLEAN
        /\ contest' = contest
    BY <1>0, <2>2, <2>3 DEF Shaped, TypeOK
  <2> QED
    BY <2>1, <2>3, <2>4, SteadyOK
<1>6. CASE InviteAdd(r)
  <2>1. Moves(r)
    BY <1>6, EndMoves DEF InviteAdd
  <2>2. UNCHANGED <<account, teams, begun, led, contest, hasty, auto, mingled>>
    BY <1>6 DEF InviteAdd, history
  <2> DEFINE t == req[r].team
             p == req[r].user
             g == req[r].give
  <2>3. t \in Names /\ p \in People /\ p # Root /\ g \in Roles
    BY <1>0, <1>1, RecordOf
  <2>4. role' = IF Exists(r) /\ role[t][p] = "none" THEN [role EXCEPT ![t][p] = g] ELSE role
    BY <1>6 DEF InviteAdd, Give
  <2> HIDE DEF t, p, g
  <2>5. /\ role' \in [Names -> [People -> Roles]]
        /\ \A s \in Names, x \in People :
             role'[s][x] = IF s = t /\ x = p /\ Exists(r) /\ role[t][p] = "none"
                           THEN g ELSE role[s][x]
    <3>1. CASE Exists(r) /\ role[t][p] = "none"
      BY <1>0, <2>3, <2>4, <3>1 DEF TypeOK
    <3>2. CASE ~(Exists(r) /\ role[t][p] = "none")
      BY <1>0, <2>4, <3>2 DEF TypeOK
    <3> QED
      BY <3>1, <3>2
  <2>6. Grows
    BY <2>5 DEF Grows
  <2>7. Headed'
    BY <2>3, <2>5 DEF IInv, Headed, People
  <2>8. /\ Shaped /\ teams \subseteq teams' /\ teams' \subseteq Names /\ contest' \in BOOLEAN
        /\ contest' = contest /\ led' = led /\ led' \subseteq Names
    BY <1>0, <2>2 DEF Shaped, TypeOK
  <2> QED
    BY <2>1, <2>5, <2>6, <2>7, <2>8, GrowsOK
<1> QED
  BY <1>4, <1>5, <1>6

LEMMA AccountOK ==
    ASSUME IInv, NEW r \in Requests, SignInCreate(r) \/ SignInActivate(r) \/ SignInPending(r)
    PROVE  IInv'
<1>0. TypeOK /\ req[r].pc \in PersonPcs
  BY DEF IInv, SignInCreate, SignInActivate, SignInPending, At, SignInPcs, PersonPcs
<1>1. req[r].user \in Users /\ Users \subseteq People /\ Root \notin Users
  BY <1>0, PersonOf
<1>2. "signin_team" \in SignInPcs /\ "signin_pending" \in SignInPcs
  BY DEF SignInPcs
<1>3. Moves(r)
  <2>1. CASE End(r)
    BY <2>1, EndMoves
  <2>2. CASE Goto(r, "signin_team")
    BY <1>0, <1>1, <1>2, <2>2, GotoMoves
  <2>3. CASE Goto(r, "signin_pending")
    BY <1>0, <1>1, <1>2, <2>3, GotoMoves
  <2> QED
    BY <2>1, <2>2, <2>3 DEF SignInCreate, SignInActivate, SignInPending
<1>4. UNCHANGED <<teams, begun, led, contest, hasty, auto, mingled>>
  BY DEF SignInCreate, SignInActivate, SignInPending, history
<1>5. account' \in [Users -> Accounts]
  BY <1>0 DEF SignInCreate, SignInActivate, SignInPending, TypeOK, Accounts
<1>6. /\ Shaped /\ teams \subseteq teams' /\ teams' \subseteq Names /\ contest' \in BOOLEAN
      /\ contest' = contest /\ led' = led /\ led' \subseteq Names
  BY <1>0, <1>4, <1>5 DEF Shaped, TypeOK
<1>7. CASE UNCHANGED role
  BY <1>3, <1>6, <1>7, SteadyOK
<1>8. CASE SignInPending(r)
  <2> DEFINE p == req[r].user
  <2>1. p \in People /\ p # Root
    BY <1>1
  <2>2. role' = [t \in Names |-> [role[t] EXCEPT ![p] =
                                     IF role[t][p] = "pending" THEN "member" ELSE role[t][p]]]
    BY <1>8 DEF SignInPending
  <2> HIDE DEF p
  <2>3. \A t \in Names : role[t] \in [People -> Roles]
    BY <1>0 DEF TypeOK
  <2>4. /\ role' \in [Names -> [People -> Roles]]
        /\ \A t \in Names, x \in People :
             role'[t][x] = IF x = p /\ role[t][p] = "pending" THEN "member" ELSE role[t][x]
    BY <2>1, <2>2, <2>3 DEF Roles
  <2>5. Grows
    BY <2>4 DEF Grows
  <2>6. Headed'
    BY <2>1, <2>4 DEF IInv, Headed, People
  <2> QED
    BY <1>3, <1>6, <2>4, <2>5, <2>6, GrowsOK
<1> QED
  BY <1>7, <1>8 DEF SignInCreate, SignInActivate

LEMMA TeamOK ==
    ASSUME IInv, NEW r \in Requests,
           FindTeam(r) \/ NewTeam(r) \/ Provision(r) \/ CreateTeam(r) \/ CreateProvision(r)
    PROVE  IInv'
<1>0. TypeOK /\ req[r].team \in Names
  BY RecordOf DEF IInv
<1>1. ASSUME NEW x \in {"signin_new", "signin_members", "signin_join", "signin_provision",
                        "signin_admin"},
             Goto(r, x), FindTeam(r) \/ NewTeam(r) \/ Provision(r)
      PROVE  Moves(r)
  <2>1. req[r].pc \in PersonPcs
    BY <1>1 DEF FindTeam, NewTeam, Provision, At, SignInPcs, PersonPcs
  <2>2. req[r].user \in Users
    BY <2>1, PersonOf
  <2>3. x \in SignInPcs
    BY DEF SignInPcs
  <2> QED
    BY <1>0, <1>1, <2>2, <2>3, GotoMoves
<1>2. ASSUME NEW x \in {"team_provision", "team_admin"}, Goto(r, x) PROVE Moves(r)
  <2>1. x \in OtherPcs /\ x \notin PersonPcs
    BY DEF OtherPcs, SignInPcs, InvitePcs, PersonPcs
  <2> QED
    BY <1>0, <1>2, <2>1, GotoMoves
<1>3. Moves(r)
  BY <1>1, <1>2, EndMoves DEF FindTeam, NewTeam, Provision, CreateTeam, CreateProvision
<1>4. /\ UNCHANGED <<account, role, begun, led, contest, hasty, auto, mingled>>
      /\ teams' = teams \/ teams' = teams \cup {req[r].team}
  BY DEF FindTeam, NewTeam, Provision, CreateTeam, CreateProvision, Quiet, history
<1>5. /\ Shaped /\ teams \subseteq teams' /\ teams' \subseteq Names /\ contest' \in BOOLEAN
      /\ contest' = contest
  BY <1>0, <1>4 DEF Shaped, TypeOK
<1> QED
  BY <1>3, <1>4, <1>5, SteadyOK

LEMMA CompareOK == ASSUME IInv, NEW r \in Requests, CompareDomains(r) PROVE IInv'
<1>0. TypeOK /\ req[r].pc \in PersonPcs /\ req[r] \in ReqRecord
  BY RecordOf DEF IInv, CompareDomains, At, SignInPcs, PersonPcs
<1>1. req[r].user \in Users
  BY <1>0, PersonOf
<1> DEFINE q == req[r]
           mine == Domain[q.user]
           there == [[[q EXCEPT !.pc = "signin_team"] EXCEPT !.team = mine] EXCEPT !.row = TRUE]
           here == [q EXCEPT !.pc = "signin_join"]
<1>2. req' = [req EXCEPT ![r] = there] \/ req' = [req EXCEPT ![r] = here]
  <2> DEFINE others == {Domain[u] : u \in {v \in Users : /\ Exists(r)
                                /\ role[req[r].team][v] \in {"pending", "member"}}}
  <2>1. req' = [req EXCEPT ![r] = IF others # {} /\ mine \notin others
                   THEN [@ EXCEPT !.pc = "signin_team", !.team = mine, !.row = TRUE]
                   ELSE [@ EXCEPT !.pc = "signin_join"]]
    BY DEF CompareDomains
  <2> HIDE DEF others
  <2>2. CASE others # {} /\ mine \notin others
    BY <1>0, <2>1, <2>2 DEF TypeOK
  <2>3. CASE ~(others # {} /\ mine \notin others)
    BY <1>0, <2>1, <2>3 DEF TypeOK
  <2> QED
    BY <2>2, <2>3
<1>3. mine \in Names
  BY <1>1, DomainAssumption DEF Names
<1>4. q \in ReqRecord /\ q.user \in Users /\ "signin_team" \in SignInPcs /\ "signin_join" \in SignInPcs
  BY <1>0, <1>1 DEF SignInPcs
<1> HIDE DEF q, mine
<1>5. there \in ReqRecord /\ there.pc = "signin_team" /\ there.user = q.user
  BY <1>3, <1>4 DEF ReqRecord
<1>6. here \in ReqRecord /\ here.pc = "signin_join" /\ here.user = q.user
  BY <1>4 DEF ReqRecord
<1> HIDE DEF there, here
<1>7. Moves(r)
  <2>1. "signin_team" \notin RemovalPcs /\ "signin_join" \notin RemovalPcs
    BY DEF RemovalPcs
  <2> QED
    BY <1>2, <1>4, <1>5, <1>6, <2>1 DEF Moves
<1>8. UNCHANGED <<account, teams, role, begun, history>>
  BY DEF CompareDomains, Quiet
<1> QED
  BY <1>7, <1>8, QuietOK

LEMMA JoinOK ==
    ASSUME IInv, NEW r \in Requests, SignInJoin(r) \/ SignInPublic(r) PROVE IInv'
<1>0. TypeOK /\ req[r].pc \in PersonPcs /\ req[r] \in ReqRecord /\ req[r].team \in Names
  BY RecordOf DEF IInv, SignInJoin, SignInPublic, At, SignInPcs, PersonPcs
<1>1. req[r].user \in Users /\ req[r].user \in People /\ req[r].user # Root
  BY <1>0, PersonOf
<1>2. Moves(r)
  <2>1. CASE End(r)
    BY <2>1, EndMoves
  <2>2. CASE req' = [req EXCEPT ![r].pc = "signin_public", ![r].team = Public]
    <3> DEFINE q == req[r]
               rec == [[q EXCEPT !.pc = "signin_public"] EXCEPT !.team = Public]
    <3>1. req' = [req EXCEPT ![r] = rec]
      BY <1>0, <2>2 DEF TypeOK
    <3>2. q \in ReqRecord /\ q.user \in Users
      BY <1>0, <1>1
    <3> HIDE DEF q
    <3>3. rec \in ReqRecord /\ rec.pc = "signin_public" /\ rec.user = q.user
      BY <3>2 DEF ReqRecord, SignInPcs, Names
    <3> HIDE DEF rec
    <3> QED
      BY <3>1, <3>2, <3>3 DEF Moves, RemovalPcs
  <2> QED
    BY <2>1, <2>2 DEF SignInJoin, SignInPublic, AddMember
<1>3. auto' \subseteq Names \X Users
  BY <1>0, <1>1 DEF SignInJoin, SignInPublic, TypeOK
<1>4. UNCHANGED <<account, teams, begun, contest, hasty, mingled>>
  BY DEF SignInJoin, SignInPublic
<1>5. Shaped
  BY <1>0, <1>3, <1>4 DEF Shaped, TypeOK
<1>6. /\ role' = IF Exists(r) /\ role[req[r].team][req[r].user] = "none"
                 THEN [role EXCEPT ![req[r].team][req[r].user] = "member"] ELSE role
      /\ led' = IF Exists(r) /\ "member" = "admin" THEN led \cup {req[r].team} ELSE led
  BY DEF SignInJoin, SignInPublic, AddMember, Give
<1>7. "member" \in {"member", "admin"} /\ "member" # "admin"
  OBVIOUS
<1> QED
  BY <1>1, <1>2, <1>4, <1>5, <1>6, <1>7, AddMemberOK

LEMMA AdminOK ==
    ASSUME IInv, NEW r \in Requests, SignInAdmin(r) \/ CliAdd(r) \/ CreateAdmin(r) PROVE IInv'
<1>0. TypeOK /\ req[r].by \in People /\ Root \in People
  BY RecordOf DEF IInv, People
<1>1. CASE DeleteTeamRow(r)
  BY <1>1, DeleteTeamRowOK
<1>2. ASSUME NEW p \in People, NEW ACTION next, AddMember(r, p, "admin", next), Moves(r),
             UNCHANGED <<account, teams, begun, contest, hasty, auto, mingled>>,
             p = Root \/ role[req[r].team][p] = "none"
      PROVE  IInv'
  <2>1. Shaped
    BY <1>0, <1>2 DEF Shaped, TypeOK
  <2>2. /\ role' = IF Exists(r) /\ role[req[r].team][p] = "none"
                   THEN [role EXCEPT ![req[r].team][p] = "admin"] ELSE role
        /\ led' = IF Exists(r) /\ "admin" = "admin" THEN led \cup {req[r].team} ELSE led
    BY <1>2 DEF AddMember, Give
  <2>3. "admin" \in {"member", "admin"}
    OBVIOUS
  <2> QED
    BY <1>2, <2>1, <2>2, <2>3, AddMemberOK
<1>3. CASE SignInAdmin(r)
  <2>1. req[r].pc \in PersonPcs
    BY <1>3 DEF SignInAdmin, At, SignInPcs, PersonPcs
  <2>2. req[r].user \in Users /\ "signin_join" \in SignInPcs
    BY <2>1, PersonOf DEF SignInPcs
  <2>3. Goto(r, "signin_join") => Moves(r)
    BY <1>0, <2>2, GotoMoves
  <2>4. Moves(r)
    BY <1>3, <2>3, EndMoves DEF SignInAdmin, AddMember
  <2>5. UNCHANGED <<account, teams, begun, contest, hasty, auto, mingled>>
    BY <1>3 DEF SignInAdmin
  <2>6. AddMember(r, Root, "admin", Goto(r, "signin_join"))
    BY <1>3 DEF SignInAdmin
  <2> QED
    BY <1>0, <1>2, <2>4, <2>5, <2>6
<1>4. CASE CliAdd(r)
  <2>1. AddMember(r, Root, "admin", End(r))
        /\ UNCHANGED <<account, teams, begun, contest, hasty, auto, mingled>>
    BY <1>4 DEF CliAdd
  <2>2. Moves(r)
    BY <2>1, EndMoves DEF AddMember
  <2> QED
    BY <1>0, <1>2, <2>1, <2>2
<1>5. CASE CreateAdmin(r) /\ ~DeleteTeamRow(r)
  <2>1. /\ AddMember(r, req[r].by, "admin", End(r)) /\ role[req[r].team][req[r].by] = "none"
        /\ UNCHANGED <<account, teams, begun, contest, hasty, auto, mingled>>
    BY <1>5 DEF CreateAdmin
  <2>2. Moves(r)
    BY <2>1, EndMoves DEF AddMember
  <2> QED
    BY <1>0, <1>2, <2>1, <2>2
<1> QED
  BY <1>1, <1>3, <1>4, <1>5

LEMMA DieOK == ASSUME IInv, NEW r \in Requests, Die(r) PROVE IInv'
<1>1. TypeOK /\ Moves(r)
  BY EndMoves DEF Die, IInv
<1>2. hasty' \subseteq Users
  <2>1. CASE At(r, "signin_pending")
    <3>1. req[r].pc \in PersonPcs
      BY <2>1 DEF At, SignInPcs, PersonPcs
    <3>2. req[r].user \in Users
      BY <3>1, PersonOf
    <3> QED
      BY <1>1, <3>2 DEF Die, TypeOK
  <2>2. CASE ~At(r, "signin_pending")
    BY <1>1, <2>2 DEF Die, TypeOK
  <2> QED
    BY <2>1, <2>2
<1>3. UNCHANGED <<account, teams, role, begun, led, contest, auto, mingled>>
  BY DEF Die
<1>4. /\ Shaped /\ teams \subseteq teams' /\ teams' \subseteq Names /\ contest' \in BOOLEAN
      /\ contest' = contest
  BY <1>1, <1>2, <1>3 DEF Shaped, TypeOK
<1> QED
  BY <1>1, <1>3, <1>4, SteadyOK

----------------------------------------------------------------------------
(* The invariant, and what it says.                                        *)

LEMMA InitOK == Init => IInv
<1> SUFFICES ASSUME Init PROVE IInv
  OBVIOUS
<1>1. Public \in Names /\ Root \in People
  BY DEF Names, People
<1>2. /\ role \in [Names -> [People -> Roles]] /\ role[Public][Root] = "admin"
      /\ \A t \in Names : role[t][Root] \in {"none", "admin"}
  BY <1>1 DEF Init, Roles
<1>3. \A r \in Requests : req[r] = Idle
  BY DEF Init
<1>4. TypeOK
  <2>1. account \in [Users -> Accounts]
    BY DEF Init, Accounts
  <2>2. begun \in 0 .. MaxRequests
    BY BoundAssumption DEF Init
  <2>3. req \in [Requests -> ReqRecord]
    BY Idling DEF Init
  <2> QED
    BY <1>1, <1>2, <2>1, <2>2, <2>3 DEF Init, TypeOK
<1>5. Led
  BY <1>1, <1>2 DEF Init, Led, Admins
<1>6. \A r \in Requests : Held(r) /\ Named(r) /\ Spare(r)
  BY <1>3, Idling DEF Held, Named, Spare, Counting, Removing, RemovalPcs
<1> QED
  BY <1>2, <1>4, <1>5, <1>6 DEF IInv, Headed

LEMMA StepOK == ASSUME IInv, NEW r \in Requests, Step(r) PROVE IInv'
<1>1. CASE \/ InviteCheck(r) \/ SignInUser(r) \/ CreateCheck(r) \/ DeleteCheck(r) \/ CliFind(r)
           \/ RemoveCheck(r)
  BY <1>1, ChecksOK
<1>2. CASE InviteUser(r) \/ InviteCreate(r) \/ InviteAdd(r)
  BY <1>2, InviteOK
<1>3. CASE SignInCreate(r) \/ SignInActivate(r) \/ SignInPending(r)
  BY <1>3, AccountOK
<1>4. CASE FindTeam(r) \/ NewTeam(r) \/ Provision(r) \/ CreateTeam(r) \/ CreateProvision(r)
  BY <1>4, TeamOK
<1>5. CASE ProvisionFails(r) \/ DeleteTeam(r)
  BY <1>5, DeleteTeamRowOK DEF ProvisionFails, DeleteTeam
<1>6. CASE CompareDomains(r)
  BY <1>6, CompareOK
<1>7. CASE SignInJoin(r) \/ SignInPublic(r)
  BY <1>7, JoinOK
<1>8. CASE SignInAdmin(r) \/ CliAdd(r) \/ CreateAdmin(r)
  BY <1>8, AdminOK
<1>9. CASE RemoveRead(r)
  BY <1>9, RemoveReadOK
<1>10. CASE RemoveCount(r)
  BY <1>10, RemoveCountOK
<1>11. CASE RemoveRow(r)
  BY <1>11, RemoveRowOK
<1>12. CASE Die(r)
  BY <1>12, DieOK
<1> QED
  BY <1>1, <1>2, <1>3, <1>4, <1>5, <1>6, <1>7, <1>8, <1>9, <1>10, <1>11, <1>12 DEF Step

LEMMA StutterOK == IInv /\ UNCHANGED vars => IInv'
BY DEF vars, history, IInv, TypeOK, Held, Named, Headed, Led, Spare, Counting, Removing, RoleOf,
       Admins

LEMMA Inductive == Spec => []IInv
<1>1. IInv /\ [Next]_vars => IInv'
  BY StepOK, StutterOK DEF Next
<1> QED
  BY InitOK, <1>1, PTL DEF Spec

\* Whatever requests run side by side, accounts, team rows, memberships, what the
\* requests have read and the history stay of their types.
THEOREM TypeCorrect == Spec => []TypeOK
<1>1. IInv => TypeOK
  BY DEF IInv
<1> QED
  BY Inductive, <1>1, PTL

\* Whatever users, teams and requests there are, a team that has had an administrator
\* keeps one as long as it exists, unless a removal in it counts its administrators
\* while another has counted and not yet deleted (team.py:346).
THEOREM KeepsAnAdmin == Spec => []LastAdmin
<1>1. IInv => LastAdmin
  BY DEF IInv, Led, LastAdmin
<1> QED
  BY Inductive, <1>1, PTL

----------------------------------------------------------------------------
(* Pending memberships.                                                    *)

Signed == SignInPcs \ {"signin_create", "signin_activate"}

\* A sign-in that has got past the account has made it an editor's.
Past(r) == req[r].pc \in Signed => account[req[r].user] = "editor"

\* An invitation gives what the account says.
Giving(r) == req[r].pc = "invite_add" /\ req[r].user \notin hasty =>
                \/ req[r].give = "pending" /\ account[req[r].user] = "anonymous"
                \/ req[r].give = "member" /\ account[req[r].user] = "editor"

Apart == \A u \in Users \ hasty : ~(Busy(SignInPcs, u) /\ Busy(InvitePcs, u))

\* A membership says what the account says, or a sign-in is about to make it so.
Settling(u) == \E r \in Requests : req[r].pc = "signin_pending" /\ req[r].user = u
Used(u) == u \notin hasty => \A t \in Names :
              /\ role[t][u] = "pending" => account[u] = "anonymous" \/ Settling(u)
              /\ role[t][u] = "member" => account[u] = "editor"

UInv == Apart /\ (\A r \in Requests : Past(r) /\ Giving(r)) /\ \A u \in Users : Used(u)

\* A step of r does not touch the other requests but for the rows they have read.
Alone(r) == \A o \in Requests \ {r} : /\ req'[o].pc = req[o].pc /\ req'[o].user = req[o].user
                                      /\ req'[o].give = req[o].give

\* It enters a class of requests only when it was in it, or nobody of the other is there.
Enters(r, pcs, others) ==
    req'[r].pc \in pcs => \/ req[r].pc \in pcs /\ req'[r].user = req[r].user
                          \/ req'[r].user \in hasty'
                          \/ ~Busy(others, req'[r].user)

\* The memberships it makes say what the account says.
Says == \A t \in Names, u \in Users :
    \/ role'[t][u] \in {role[t][u], "none", "admin"}
    \/ role'[t][u] = "member" /\ account[u] = "editor"
    \/ role'[t][u] = "pending" /\ account[u] = "anonymous"
    \/ u \in hasty'

\* When it leaves the place where pending memberships are settled, none is left.
Settled(r) == req[r].pc = "signin_pending" =>
    req[r].user \in hasty' \/ \A t \in Names : role'[t][req[r].user] # "pending"

LEMMA ApartOK ==
    ASSUME UInv, NEW r \in Requests, Alone(r), hasty \subseteq hasty',
           Enters(r, SignInPcs, InvitePcs), Enters(r, InvitePcs, SignInPcs)
    PROVE  Apart'
<1> SUFFICES ASSUME NEW u \in Users, u \notin hasty', NEW a \in Requests, NEW b \in Requests,
                    req'[a].pc \in SignInPcs, req'[a].user = u,
                    req'[b].pc \in InvitePcs, req'[b].user = u
             PROVE  FALSE
  BY DEF Apart, Busy
<1>1. a # b
  BY DEF SignInPcs, InvitePcs
<1>2. ~(Busy(SignInPcs, u) /\ Busy(InvitePcs, u))
  BY DEF UInv, Apart
<1>3. a = r \/ Busy(SignInPcs, u)
  BY DEF Alone, Busy
<1>4. b = r \/ Busy(InvitePcs, u)
  BY DEF Alone, Busy
<1>5. CASE a = r
  <2>1. Busy(InvitePcs, u)
    BY <1>1, <1>4, <1>5
  <2> QED
    BY <1>2, <1>5, <2>1 DEF Enters, Busy
<1>6. CASE b = r
  <2>1. Busy(SignInPcs, u)
    BY <1>1, <1>3, <1>6
  <2> QED
    BY <1>2, <1>6, <2>1 DEF Enters, Busy
<1> QED
  BY <1>2, <1>3, <1>4, <1>5, <1>6

\* A step that leaves the accounts alone.
LEMMA FrameOK ==
    ASSUME TypeOK, UInv, NEW r \in Requests, Alone(r), UNCHANGED account, hasty \subseteq hasty',
           Enters(r, SignInPcs, InvitePcs), Enters(r, InvitePcs, SignInPcs),
           Past(r)', Giving(r)', Says, Settled(r)
    PROVE  UInv'
<1>1. Apart'
  BY ApartOK
<1>2. ASSUME NEW o \in Requests PROVE Past(o)' /\ Giving(o)'
  <2>1. CASE o = r
    BY <2>1
  <2>2. CASE o # r
    <3>1. /\ req'[o].pc = req[o].pc /\ req'[o].user = req[o].user /\ req'[o].give = req[o].give
          /\ Past(o) /\ Giving(o)
      BY <2>2 DEF Alone, UInv
    <3> QED
      BY <3>1 DEF Past, Giving
  <2> QED
    BY <2>1, <2>2
<1>3. ASSUME NEW u \in Users PROVE Used(u)'
  <2> SUFFICES ASSUME u \notin hasty', NEW t \in Names
               PROVE  /\ role'[t][u] = "pending" => account[u] = "anonymous" \/ Settling(u)'
                      /\ role'[t][u] = "member" => account[u] = "editor"
    BY DEF Used
  <2>1. /\ role[t][u] = "pending" => account[u] = "anonymous" \/ Settling(u)
        /\ role[t][u] = "member" => account[u] = "editor"
    BY DEF UInv, Used
  <2>2. role'[t][u] = "member" => account[u] = "editor"
    BY <2>1 DEF Says
  <2>3. ASSUME role'[t][u] = "pending", account[u] # "anonymous" PROVE Settling(u)'
    <3>1. role[t][u] = "pending"
      BY <2>3 DEF Says
    <3>2. PICK o \in Requests : req[o].pc = "signin_pending" /\ req[o].user = u
      BY <2>1, <2>3, <3>1 DEF Settling
    <3>3. o # r
      BY <2>3, <3>2 DEF Settled
    <3> QED
      BY <3>2, <3>3 DEF Alone, Settling
  <2> QED
    BY <2>2, <2>3
<1> QED
  BY <1>1, <1>2, <1>3 DEF UInv

\* A request that is neither an invitation nor a sign-in afterwards.
LEMMA LeavesOK ==
    ASSUME TypeOK, UInv, NEW r \in Requests, Alone(r), UNCHANGED account, hasty \subseteq hasty',
           req'[r].pc \notin PersonPcs, Says, Settled(r)
    PROVE  UInv'
<1>1. Enters(r, SignInPcs, InvitePcs) /\ Enters(r, InvitePcs, SignInPcs)
  BY DEF Enters, PersonPcs
<1>2. Past(r)' /\ Giving(r)'
  BY DEF Past, Giving, Signed, PersonPcs, InvitePcs
<1> QED
  BY <1>1, <1>2, FrameOK

\* A sign-in that goes on.
LEMMA GoesOnOK ==
    ASSUME TypeOK, UInv, NEW r \in Requests, Alone(r), UNCHANGED account, hasty \subseteq hasty',
           req[r].pc \in Signed, req'[r].pc \in Signed, req'[r].user = req[r].user,
           Says, Settled(r)
    PROVE  UInv'
<1>1. req[r].pc \in SignInPcs /\ req'[r].pc \in SignInPcs \ InvitePcs
  BY DEF Signed, SignInPcs, InvitePcs
<1>2. Enters(r, SignInPcs, InvitePcs) /\ Enters(r, InvitePcs, SignInPcs)
  BY <1>1 DEF Enters
<1>3. Past(r)' /\ Giving(r)'
  BY <1>1 DEF UInv, Past, Giving, InvitePcs
<1> QED
  BY <1>2, <1>3, FrameOK

\* Where a step may take a request.
LEMMA AloneFacts ==
    ASSUME TypeOK, NEW r \in Requests
    PROVE  /\ End(r) => Alone(r) /\ req'[r].pc = "idle"
           /\ \A x : Goto(r, x) => /\ Alone(r) /\ req'[r].pc = x
                                   /\ req'[r].user = req[r].user /\ req'[r].give = req[r].give
           /\ \A x, by, u, t : Begin(r, x, by, u, t) =>
                 /\ Alone(r) /\ req'[r].pc = x /\ req'[r].user = u /\ req[r].pc = "idle"
           /\ DeleteTeamRow(r) => Alone(r) /\ req'[r].pc = "idle"
<1>1. End(r) => Alone(r) /\ req'[r].pc = "idle"
  BY DEF End, Alone, TypeOK, Idle
<1>2. ASSUME NEW x, Goto(r, x)
      PROVE  /\ Alone(r) /\ req'[r].pc = x
             /\ req'[r].user = req[r].user /\ req'[r].give = req[r].give
  <2> DEFINE q == req[r]
             rec == [q EXCEPT !.pc = x]
  <2>1. req' = [req EXCEPT ![r] = rec]
    BY <1>2 DEF Goto
  <2>2. q \in ReqRecord
    BY RecordOf
  <2> HIDE DEF q
  <2>3. rec.pc = x /\ rec.user = q.user /\ rec.give = q.give
    BY <2>2 DEF ReqRecord
  <2> HIDE DEF rec
  <2>4. q = req[r]
    BY DEF q
  <2> QED
    BY <2>1, <2>3, <2>4 DEF Alone, TypeOK
<1>3. ASSUME NEW x, NEW by, NEW u, NEW t, Begin(r, x, by, u, t)
      PROVE  Alone(r) /\ req'[r].pc = x /\ req'[r].user = u /\ req[r].pc = "idle"
  BY <1>3 DEF Begin, Alone, TypeOK, Idle, At
<1>4. ASSUME DeleteTeamRow(r) PROVE Alone(r) /\ req'[r].pc = "idle"
  <2>1. CASE Exists(r)
    <3>1. req' = RowsGone(r, HoldTeam(req[r].team))
      BY <1>4, <2>1 DEF DeleteTeamRow
    <3> QED
      BY <3>1, RowsGoneType, Idling DEF Alone
  <2>2. CASE ~Exists(r)
    <3>1. End(r)
      BY <1>4, <2>2 DEF DeleteTeamRow, End
    <3> QED
      BY <1>1, <3>1
  <2> QED
    BY <2>1, <2>2
<1> QED
  BY <1>1, <1>2, <1>3, <1>4

\* Requests that begin.
LEMMA UsedBegin ==
    ASSUME TypeOK, UInv, NEW r \in Requests,
           InviteCheck(r) \/ SignInUser(r) \/ CreateCheck(r) \/ DeleteCheck(r) \/ CliFind(r)
             \/ RemoveCheck(r)
    PROVE  UInv'
<1>0. UNCHANGED <<account, role>> /\ hasty \subseteq hasty'
  BY DEF InviteCheck, SignInUser, CreateCheck, DeleteCheck, CliFind, RemoveCheck, history
<1>1. Says
  BY <1>0 DEF Says
<1>2. CASE InviteCheck(r)
  <2>1. PICK u \in Users, by \in People, t \in teams :
          /\ Begin(r, "invite_user", by, u, t)
          /\ hasty' = hasty \cup (IF Busy(SignInPcs, u) THEN {u} ELSE {})
    BY <1>2 DEF InviteCheck, Admins
  <2>2. /\ Alone(r) /\ req'[r].pc = "invite_user" /\ req'[r].user = u /\ req[r].pc = "idle"
    BY <2>1, AloneFacts
  <2>3. Enters(r, SignInPcs, InvitePcs) /\ Enters(r, InvitePcs, SignInPcs)
    BY <2>1, <2>2 DEF Enters, SignInPcs
  <2>4. Past(r)' /\ Giving(r)' /\ Settled(r)
    BY <2>2 DEF Past, Giving, Settled, Signed, SignInPcs
  <2> QED
    BY <1>0, <1>1, <2>2, <2>3, <2>4, FrameOK
<1>3. CASE SignInUser(r)
  <2>1. PICK u \in Users :
          /\ Begin(r, CASE account[u] = "none"      -> "signin_create"
                        [] account[u] = "anonymous" -> "signin_activate"
                        [] account[u] = "editor"    -> "signin_team", u, u, Prefix)
          /\ hasty' = hasty \cup (IF Busy(InvitePcs, u) THEN {u} ELSE {})
    BY <1>3 DEF SignInUser
  <2>2. account[u] \in {"none", "anonymous", "editor"}
    BY DEF TypeOK, Accounts
  <2>3. PICK x \in {"signin_create", "signin_activate", "signin_team"} :
          Begin(r, x, u, u, Prefix) /\ (x = "signin_team" => account[u] = "editor")
    BY <2>1, <2>2
  <2>4. /\ Alone(r) /\ req'[r].pc = x /\ req'[r].user = u /\ req[r].pc = "idle"
    BY <2>3, AloneFacts
  <2>5. Enters(r, SignInPcs, InvitePcs) /\ Enters(r, InvitePcs, SignInPcs)
    BY <2>1, <2>4 DEF Enters, InvitePcs
  <2>6. Past(r)' /\ Giving(r)' /\ Settled(r)
    BY <1>0, <2>3, <2>4 DEF Past, Giving, Settled, Signed, SignInPcs
  <2> QED
    BY <1>0, <1>1, <2>4, <2>5, <2>6, FrameOK
<1>4. CASE CreateCheck(r) \/ DeleteCheck(r) \/ CliFind(r) \/ RemoveCheck(r)
  <2>1. PICK x \in {"team_new", "delete_team", "cli_add", "remove_read"} :
          \E by, u, t : Begin(r, x, by, u, t)
    BY <1>4 DEF CreateCheck, DeleteCheck, CliFind, RemoveCheck
  <2>2. /\ Alone(r) /\ req'[r].pc = x /\ req[r].pc = "idle"
    BY <2>1, AloneFacts
  <2>3. req'[r].pc \notin PersonPcs /\ Settled(r)
    BY <2>2 DEF PersonPcs, SignInPcs, InvitePcs, Settled
  <2> QED
    BY <1>0, <1>1, <2>2, <2>3, LeavesOK
<1> QED
  BY <1>2, <1>3, <1>4

\* Requests that are about neither an invitation nor a sign-in, and ends.
LEMMA UsedOther ==
    ASSUME TypeOK, UInv, NEW r \in Requests,
           \/ CreateTeam(r) \/ CreateProvision(r) \/ CreateAdmin(r) \/ ProvisionFails(r)
           \/ DeleteTeam(r) \/ CliAdd(r) \/ RemoveRead(r) \/ RemoveCount(r) \/ RemoveRow(r)
           \/ Die(r)
    PROVE  UInv'
<1>1. UNCHANGED account /\ hasty \subseteq hasty'
  BY DEF CreateTeam, CreateProvision, CreateAdmin, ProvisionFails, DeleteTeam, CliAdd, RemoveRead,
         RemoveCount, RemoveRow, Die, DeleteTeamRow, AddMember, Quiet, history
<1>2. Settled(r)
  BY DEF Settled, CreateTeam, CreateProvision, CreateAdmin, ProvisionFails, DeleteTeam, CliAdd,
         RemoveRead, RemoveCount, RemoveRow, Die, At
<1>3. Alone(r) /\ req'[r].pc \notin PersonPcs
  <2>1. CASE End(r)
    BY <2>1, AloneFacts DEF PersonPcs, SignInPcs, InvitePcs
  <2>2. CASE DeleteTeamRow(r)
    BY <2>2, AloneFacts DEF PersonPcs, SignInPcs, InvitePcs
  <2>3. ASSUME NEW x \in {"team_provision", "team_admin", "remove_count", "remove_row"}, Goto(r, x)
        PROVE  Alone(r) /\ req'[r].pc \notin PersonPcs
    BY <2>3, AloneFacts DEF PersonPcs, SignInPcs, InvitePcs
  <2>4. CASE req' = RowsGone(r, HoldMember(req[r].team, req[r].user))
    BY <2>4, RowsGoneType, Idling DEF Alone
  <2>5. CASE RemoveRead(r)
    BY <2>1, <2>3, <2>5 DEF RemoveRead
  <2>6. CASE RemoveCount(r)
    BY <2>1, <2>3, <2>6 DEF RemoveCount
  <2>7. CASE RemoveRow(r)
    BY <2>1, <2>4, <2>7 DEF RemoveRow
  <2>8. CASE CreateTeam(r) \/ CreateProvision(r)
    BY <2>1, <2>3, <2>8 DEF CreateTeam, CreateProvision
  <2>9. CASE CreateAdmin(r)
    BY <2>1, <2>2, <2>9 DEF CreateAdmin, AddMember
  <2>10. CASE ProvisionFails(r) \/ DeleteTeam(r) \/ CliAdd(r) \/ Die(r)
    BY <2>1, <2>2, <2>10 DEF ProvisionFails, DeleteTeam, CliAdd, AddMember, Die
  <2> QED
    BY <2>5, <2>6, <2>7, <2>8, <2>9, <2>10
<1>4. Says
  <2>1. ASSUME NEW p \in People, NEW x \in {"none", "admin"}, Give(req[r].team, p, x) PROVE Says
    <3>1. req[r].team \in Names
      BY RecordOf
    <3> QED
      BY <2>1, <3>1 DEF Says, Give, TypeOK, People
  <2>2. CASE UNCHANGED role
    BY <2>2 DEF Says
  <2>3. CASE DeleteTeamRow(r)
    <3>1. req[r].team \in Names
      BY RecordOf
    <3> QED
      BY <2>2, <2>3, <3>1 DEF DeleteTeamRow, Says, TypeOK, People
  <2>4. req[r].by \in People /\ req[r].user \in People /\ Root \in People
    BY RecordOf DEF People
  <2>5. CASE CreateAdmin(r)
    BY <2>1, <2>2, <2>3, <2>4, <2>5 DEF CreateAdmin, AddMember
  <2>6. CASE CliAdd(r)
    BY <2>1, <2>2, <2>4, <2>6 DEF CliAdd, AddMember
  <2>7. CASE RemoveRow(r)
    BY <2>1, <2>2, <2>4, <2>7 DEF RemoveRow
  <2>8. CASE ProvisionFails(r) \/ DeleteTeam(r)
    BY <2>3, <2>8 DEF ProvisionFails, DeleteTeam
  <2>9. CASE CreateTeam(r) \/ CreateProvision(r) \/ RemoveRead(r) \/ RemoveCount(r) \/ Die(r)
    BY <2>2, <2>9 DEF CreateTeam, CreateProvision, RemoveRead, RemoveCount, Die, Quiet
  <2> QED
    BY <2>5, <2>6, <2>7, <2>8, <2>9
<1> QED
  BY <1>1, <1>2, <1>3, <1>4, LeavesOK

\* The steps of a sign-in after the account.
LEMMA UsedTeam ==
    ASSUME IInv, UInv, NEW r \in Requests,
           \/ FindTeam(r) \/ NewTeam(r) \/ Provision(r) \/ CompareDomains(r) \/ SignInAdmin(r)
           \/ SignInJoin(r) \/ SignInPublic(r)
    PROVE  UInv'
<1>0. TypeOK
  BY DEF IInv
<1>1. UNCHANGED <<account, hasty>>
  BY DEF FindTeam, NewTeam, Provision, CompareDomains, SignInAdmin, SignInJoin, SignInPublic,
         AddMember, Quiet, history
<1>2. /\ req[r].pc \in Signed /\ req[r].pc \in PersonPcs /\ req[r].pc # "signin_pending"
  BY DEF FindTeam, NewTeam, Provision, CompareDomains, SignInAdmin, SignInJoin, SignInPublic, At,
         Signed, SignInPcs, PersonPcs
<1>3. /\ req[r].user \in Users /\ req[r].user \in People /\ req[r].team \in Names
      /\ Root \notin Users /\ Root \in People
  BY <1>0, <1>2, PersonOf, RecordOf DEF People
<1>4. Says /\ Settled(r)
  <2>1. CASE UNCHANGED role
    BY <1>2, <2>1 DEF Says, Settled
  <2>2. CASE Give(req[r].team, Root, "admin")
    BY <1>0, <1>2, <1>3, <2>2 DEF Says, Settled, Give, TypeOK, People
  <2>3. CASE Give(req[r].team, req[r].user, "member")
    <3>1. account[req[r].user] = "editor"
      BY <1>2 DEF UInv, Past
    <3> QED
      BY <1>0, <1>2, <1>3, <2>3, <3>1 DEF Says, Settled, Give, TypeOK, People
  <2> QED
    BY <2>1, <2>2, <2>3 DEF FindTeam, NewTeam, Provision, CompareDomains, SignInAdmin,
       SignInJoin, SignInPublic, AddMember, Quiet
<1>5. CASE Alone(r) /\ req'[r].pc = "idle"
  <2>1. req'[r].pc \notin PersonPcs
    BY <1>5 DEF PersonPcs, SignInPcs, InvitePcs
  <2> QED
    BY <1>0, <1>1, <1>4, <1>5, <2>1, LeavesOK
<1>6. CASE Alone(r) /\ req'[r].pc \in Signed /\ req'[r].user = req[r].user
  BY <1>0, <1>1, <1>2, <1>4, <1>6, GoesOnOK
<1>7. CASE End(r)
  BY <1>0, <1>5, <1>7, AloneFacts
<1>8. ASSUME NEW x \in {"signin_new", "signin_members", "signin_join", "signin_provision",
                        "signin_admin"}, Goto(r, x)
      PROVE  UInv'
  BY <1>0, <1>6, <1>8, AloneFacts DEF Signed, SignInPcs
<1>9. CASE CompareDomains(r)
  <2>1. /\ Alone(r) /\ req'[r].pc \in {"signin_team", "signin_join"}
        /\ req'[r].user = req[r].user
    <3> DEFINE q == req[r]
               others == {Domain[u] : u \in {v \in Users : /\ Exists(r)
                                  /\ role[req[r].team][v] \in {"pending", "member"}}}
               mine  == Domain[q.user]
               there == [[[q EXCEPT !.pc = "signin_team"] EXCEPT !.team = mine] EXCEPT !.row = TRUE]
               here  == [q EXCEPT !.pc = "signin_join"]
    <3>1. req' = [req EXCEPT ![r] = IF others # {} /\ mine \notin others
                     THEN [@ EXCEPT !.pc = "signin_team", !.team = mine, !.row = TRUE]
                     ELSE [@ EXCEPT !.pc = "signin_join"]]
      BY <1>9 DEF CompareDomains
    <3> HIDE DEF others
    <3>2. /\ \A o \in Requests \ {r} : req'[o] = req[o]
          /\ req'[r] = there \/ req'[r] = here
      BY <1>0, <3>1 DEF TypeOK
    <3>3. q \in ReqRecord
      BY <1>0, RecordOf
    <3> HIDE DEF q, mine
    <3>4. /\ there.pc = "signin_team" /\ there.user = q.user
          /\ here.pc = "signin_join" /\ here.user = q.user
      BY <3>3 DEF ReqRecord
    <3> HIDE DEF there, here
    <3> QED
      BY <3>2, <3>4 DEF Alone, q
  <2> QED
    BY <1>6, <2>1 DEF Signed, SignInPcs
<1>10. CASE SignInJoin(r) /\ ~End(r)
  <2> DEFINE q == req[r]
             rec == [[q EXCEPT !.pc = "signin_public"] EXCEPT !.team = Public]
  <2>1. req' = [req EXCEPT ![r] = rec]
    BY <1>0, <1>10 DEF SignInJoin, AddMember, TypeOK
  <2>2. q \in ReqRecord
    BY <1>0, RecordOf
  <2> HIDE DEF q
  <2>3. rec.pc = "signin_public" /\ rec.user = q.user
    BY <2>2 DEF ReqRecord
  <2> HIDE DEF rec
  <2>4. /\ Alone(r) /\ req'[r].pc = "signin_public" /\ req'[r].user = req[r].user
    BY <1>0, <2>1, <2>3 DEF Alone, TypeOK, q
  <2> QED
    BY <1>6, <2>4 DEF Signed, SignInPcs
<1>11. CASE FindTeam(r) \/ NewTeam(r) \/ Provision(r)
  BY <1>7, <1>8, <1>11 DEF FindTeam, NewTeam, Provision
<1>12. CASE SignInAdmin(r) \/ SignInPublic(r)
  BY <1>7, <1>8, <1>12 DEF SignInAdmin, SignInPublic, AddMember
<1> QED
  BY <1>7, <1>9, <1>10, <1>11, <1>12

\* The memberships of a person who has signed in are settled.
LEMMA UsedPending ==
    ASSUME IInv, UInv, NEW r \in Requests, SignInPending(r) PROVE UInv'
<1>0. TypeOK
  BY DEF IInv
<1>1. /\ req[r].pc = "signin_pending" /\ Goto(r, "signin_team")
      /\ UNCHANGED <<account, hasty>>
  BY DEF SignInPending, At, history
<1>2. req[r].pc \in Signed /\ req[r].pc \in PersonPcs
  BY <1>1 DEF Signed, SignInPcs, PersonPcs
<1>3. account[req[r].user] = "editor" /\ req[r].user \in Users /\ req[r].user \in People
  BY <1>0, <1>2, PersonOf, RecordOf DEF UInv, Past
<1> DEFINE p == req[r].user
<1>4. role' = [t \in Names |-> [role[t] EXCEPT ![p] =
                                   IF role[t][p] = "pending" THEN "member" ELSE role[t][p]]]
  BY DEF SignInPending
<1>5. \A t \in Names : role[t] \in [People -> Roles]
  BY <1>0 DEF TypeOK
<1>6. \A t \in Names, x \in People :
        role'[t][x] = IF x = p /\ role[t][p] = "pending" THEN "member" ELSE role[t][x]
  BY <1>3, <1>4, <1>5
<1>7. Says /\ Settled(r)
  BY <1>3, <1>6 DEF Says, Settled, People
<1>8. /\ Alone(r) /\ req'[r].pc = "signin_team" /\ req'[r].user = req[r].user
  BY <1>0, <1>1, AloneFacts
<1>9. req'[r].pc \in Signed
  BY <1>8 DEF Signed, SignInPcs
<1> QED
  BY <1>0, <1>1, <1>2, <1>7, <1>8, <1>9, GoesOnOK

\* The steps of a sign-in that write the account.
LEMMA UsedAccount ==
    ASSUME IInv, UInv, NEW r \in Requests, SignInCreate(r) \/ SignInActivate(r) PROVE UInv'
<1>0. TypeOK /\ \A u \in Users : Used(u)
  BY DEF IInv, UInv
<1>1. /\ req[r].pc \in {"signin_create", "signin_activate"} /\ UNCHANGED <<role, hasty>>
  BY DEF SignInCreate, SignInActivate, At, history
<1>2. req[r].user \in Users /\ req[r].pc \in SignInPcs
  <2>1. req[r].pc \in PersonPcs /\ req[r].pc \in SignInPcs
    BY <1>1 DEF SignInPcs, PersonPcs
  <2> QED
    BY <2>1, PersonOf
<1> DEFINE p == req[r].user
<1>3. CASE End(r) /\ UNCHANGED account
  <2>1. Alone(r) /\ req'[r].pc \notin PersonPcs
    BY <1>0, <1>3, AloneFacts DEF PersonPcs, SignInPcs, InvitePcs
  <2>2. Says /\ Settled(r)
    BY <1>1 DEF Says, Settled
  <2> QED
    BY <1>0, <1>1, <1>3, <2>1, <2>2, LeavesOK
<1>4. CASE ~(End(r) /\ UNCHANGED account)
  <2>1. /\ account' = [account EXCEPT ![p] = "editor"]
        /\ account[p] = "none" \/ Goto(r, "signin_pending")
        /\ Goto(r, "signin_team") \/ Goto(r, "signin_pending")
    BY <1>4 DEF SignInCreate, SignInActivate
  <2>2. /\ Alone(r) /\ req'[r].pc \in {"signin_team", "signin_pending"} /\ req'[r].user = p
        /\ account[p] = "none" \/ req'[r].pc = "signin_pending"
    BY <1>0, <2>1, AloneFacts
  <2>3. account'[p] = "editor" /\ \A u \in Users \ {p} : account'[u] = account[u]
    BY <1>0, <1>2, <2>1 DEF TypeOK
  <2>4. Enters(r, SignInPcs, InvitePcs) /\ Enters(r, InvitePcs, SignInPcs)
    BY <1>2, <2>2 DEF Enters, InvitePcs
  <2>5. Apart'
    BY <1>1, <2>2, <2>4, ApartOK
  <2>6. ASSUME NEW o \in Requests PROVE Past(o)' /\ Giving(o)'
    <3>1. CASE o = r
      BY <2>2, <2>3, <3>1 DEF Past, Giving
    <3>2. CASE o # r
      <4>1. /\ req'[o].pc = req[o].pc /\ req'[o].user = req[o].user
            /\ req'[o].give = req[o].give /\ Past(o) /\ Giving(o)
        BY <2>2, <3>2 DEF Alone, UInv
      <4>2. req[o].pc \in PersonPcs => req[o].user \in Users
        BY PersonOf
      <4>3. Past(o)'
        BY <2>3, <4>1, <4>2 DEF Past, Signed, PersonPcs
      <4>4. Giving(o)'
        <5> SUFFICES ASSUME req[o].pc = "invite_add", req[o].user \notin hasty
                     PROVE  req[o].user # p
          BY <1>1, <2>3, <4>1, <4>2 DEF Giving, PersonPcs, InvitePcs
        <5>1. req[o].pc \in InvitePcs /\ req[o].user \in Users
          BY <4>2 DEF InvitePcs, PersonPcs
        <5>2. ~(Busy(SignInPcs, req[o].user) /\ Busy(InvitePcs, req[o].user))
          BY <5>1 DEF UInv, Apart
        <5> QED
          BY <1>2, <5>1, <5>2 DEF Busy
      <4> QED
        BY <4>3, <4>4
    <3> QED
      BY <3>1, <3>2
  <2>7. ASSUME NEW u \in Users PROVE Used(u)'
    <3> SUFFICES ASSUME u \notin hasty, NEW t \in Names
                 PROVE  /\ role[t][u] = "pending" => account'[u] = "anonymous" \/ Settling(u)'
                        /\ role[t][u] = "member" => account'[u] = "editor"
      BY <1>1 DEF Used
    <3>1. /\ role[t][u] = "pending" => account[u] = "anonymous" \/ Settling(u)
          /\ role[t][u] = "member" => account[u] = "editor"
      BY <1>0 DEF Used
    <3>2. role[t][u] = "member" => account'[u] = "editor"
      BY <2>3, <3>1
    <3>3. Settling(u) => Settling(u)'
      BY <1>1, <2>2 DEF Settling, Alone
    <3>4. role[t][u] = "pending" => account'[u] = "anonymous" \/ Settling(u)'
      <4>1. CASE u # p
        BY <2>3, <3>1, <3>3, <4>1
      <4>2. CASE u = p
        <5>1. req'[r].pc = "signin_pending" => Settling(u)'
          BY <2>2, <4>2 DEF Settling
        <5> QED
          BY <2>2, <3>1, <3>3, <4>2, <5>1
      <4> QED
        BY <4>1, <4>2
    <3> QED
      BY <3>2, <3>4
  <2> QED
    BY <2>5, <2>6, <2>7 DEF UInv
<1> QED
  BY <1>3, <1>4

\* The steps of an invitation.
LEMMA UsedInvite ==
    ASSUME IInv, UInv, NEW r \in Requests, InviteUser(r) \/ InviteCreate(r) \/ InviteAdd(r)
    PROVE  UInv'
<1>0. TypeOK /\ \A u \in Users : Used(u)
  BY DEF IInv, UInv
<1>1. /\ req[r].pc \in InvitePcs /\ UNCHANGED hasty
      /\ req[r].pc # "signin_pending" /\ req[r].pc \in PersonPcs
  BY DEF InviteUser, InviteCreate, InviteAdd, At, history, Quiet, InvitePcs, PersonPcs
<1>2. req[r].user \in Users /\ req[r].user \in People /\ req[r].team \in Names
  BY <1>0, <1>1, PersonOf, RecordOf
<1>3. Settled(r)
  BY <1>1 DEF Settled
<1> DEFINE p == req[r].user
<1>4. ASSUME Alone(r), req'[r].pc \in {"invite_create", "invite_add"}, req'[r].user = p
      PROVE  Enters(r, SignInPcs, InvitePcs) /\ Enters(r, InvitePcs, SignInPcs) /\ Past(r)'
  BY <1>1, <1>4 DEF Enters, Past, Signed, SignInPcs
<1>5. ASSUME NEW x \in {"invite_create", "invite_add"}, NEW g,
             req' = [req EXCEPT ![r].pc = x, ![r].give = g]
      PROVE  Alone(r) /\ req'[r].pc = x /\ req'[r].user = p /\ req'[r].give = g
  <2> DEFINE q == req[r]
             rec == [[q EXCEPT !.pc = x] EXCEPT !.give = g]
  <2>1. req' = [req EXCEPT ![r] = rec] /\ q \in ReqRecord
    BY <1>0, <1>5, RecordOf DEF TypeOK
  <2> HIDE DEF q
  <2>2. rec.pc = x /\ rec.user = q.user /\ rec.give = g
    BY <2>1 DEF ReqRecord
  <2> HIDE DEF rec
  <2> QED
    BY <1>0, <2>1, <2>2 DEF Alone, TypeOK, q
<1>6. CASE InviteUser(r)
  <2>1. UNCHANGED <<account, role>> /\ Says
    BY <1>6 DEF InviteUser, Quiet, Says
  <2>2. account[p] \in {"none", "anonymous", "editor"}
    BY <1>0, <1>2 DEF TypeOK, Accounts
  <2>3. CASE Goto(r, "invite_create")
    <3>1. Alone(r) /\ req'[r].pc = "invite_create" /\ req'[r].user = p
      BY <1>0, <2>3, AloneFacts
    <3>2. Giving(r)'
      BY <3>1 DEF Giving
    <3> QED
      BY <1>0, <1>1, <1>3, <1>4, <2>1, <3>1, <3>2, FrameOK
  <2>4. CASE ~Goto(r, "invite_create")
    <3> DEFINE g == IF account[p] = "anonymous" THEN "pending" ELSE "member"
    <3>1. req' = [req EXCEPT ![r].pc = "invite_add", ![r].give = g] /\ account[p] # "none"
      BY <1>6, <2>4 DEF InviteUser
    <3>2. \/ g = "pending" /\ account[p] = "anonymous"
          \/ g = "member" /\ account[p] = "editor"
      BY <2>2, <3>1
    <3> HIDE DEF g
    <3>3. Alone(r) /\ req'[r].pc = "invite_add" /\ req'[r].user = p /\ req'[r].give = g
      BY <1>5, <3>1
    <3>4. Giving(r)'
      BY <2>1, <3>2, <3>3 DEF Giving
    <3> QED
      BY <1>0, <1>1, <1>3, <1>4, <2>1, <3>3, <3>4, FrameOK
  <2> QED
    BY <2>3, <2>4
<1>7. CASE End(r) /\ UNCHANGED account
  <2>1. Alone(r) /\ req'[r].pc \notin PersonPcs
    BY <1>0, <1>7, AloneFacts DEF PersonPcs, SignInPcs, InvitePcs
  <2>2. Says
    <3>1. CASE UNCHANGED role
      BY <3>1 DEF Says
    <3>2. CASE InviteAdd(r) /\ ~UNCHANGED role
      <4>1. req[r].pc = "invite_add" /\ role' = [role EXCEPT ![req[r].team][p] = req[r].give]
        BY <3>2 DEF InviteAdd, At, Give
      <4>2. \/ p \in hasty'
            \/ req[r].give = "pending" /\ account[p] = "anonymous"
            \/ req[r].give = "member" /\ account[p] = "editor"
        BY <1>1, <4>1 DEF UInv, Giving
      <4> QED
        BY <1>0, <1>2, <4>1, <4>2 DEF Says, TypeOK, People
    <3> QED
      BY <1>7, <3>1, <3>2 DEF InviteUser, InviteCreate, Quiet
  <2> QED
    BY <1>0, <1>1, <1>3, <1>7, <2>1, <2>2, LeavesOK
<1>8. CASE InviteCreate(r) /\ ~(End(r) /\ UNCHANGED account)
  <2>1. /\ account[p] = "none" /\ account' = [account EXCEPT ![p] = "anonymous"]
        /\ req' = [req EXCEPT ![r].pc = "invite_add", ![r].give = "pending"] /\ UNCHANGED role
    BY <1>8 DEF InviteCreate
  <2>2. Alone(r) /\ req'[r].pc = "invite_add" /\ req'[r].user = p /\ req'[r].give = "pending"
    BY <1>5, <2>1
  <2>3. account'[p] = "anonymous" /\ \A u \in Users \ {p} : account'[u] = account[u]
    BY <1>0, <1>2, <2>1 DEF TypeOK
  <2>4. Apart'
    BY <1>1, <1>4, <2>2, ApartOK
  <2>5. ASSUME NEW o \in Requests PROVE Past(o)' /\ Giving(o)'
    <3>1. CASE o = r
      BY <1>4, <2>2, <2>3, <3>1 DEF Giving
    <3>2. CASE o # r
      <4>1. /\ req'[o].pc = req[o].pc /\ req'[o].user = req[o].user
            /\ req'[o].give = req[o].give /\ Past(o) /\ Giving(o)
        BY <2>2, <3>2 DEF Alone, UInv
      <4>2. req[o].pc \in PersonPcs => req[o].user \in Users
        BY PersonOf
      <4>3. Past(o)'
        BY <2>1, <2>3, <4>1, <4>2 DEF Past, Signed, PersonPcs
      <4>4. Giving(o)'
        BY <1>1, <2>1, <2>3, <4>1, <4>2 DEF Giving, PersonPcs, InvitePcs
      <4> QED
        BY <4>3, <4>4
    <3> QED
      BY <3>1, <3>2
  <2>6. ASSUME NEW u \in Users PROVE Used(u)'
    <3> SUFFICES ASSUME u \notin hasty, NEW t \in Names
                 PROVE  /\ role[t][u] = "pending" => account'[u] = "anonymous" \/ Settling(u)'
                        /\ role[t][u] = "member" => account'[u] = "editor"
      BY <1>1, <2>1 DEF Used
    <3>1. /\ role[t][u] = "pending" => account[u] = "anonymous" \/ Settling(u)
          /\ role[t][u] = "member" => account[u] = "editor"
      BY <1>0 DEF Used
    <3>2. Settling(u) => Settling(u)'
      BY <1>1, <2>2 DEF Settling, Alone
    <3> QED
      BY <2>1, <2>3, <3>1, <3>2
  <2> QED
    BY <2>4, <2>5, <2>6 DEF UInv
<1> QED
  BY <1>6, <1>7, <1>8 DEF InviteCreate, InviteAdd

LEMMA UsedStep == ASSUME IInv, UInv, NEW r \in Requests, Step(r) PROVE UInv'
<1>0. TypeOK
  BY DEF IInv
<1>1. CASE \/ InviteCheck(r) \/ SignInUser(r) \/ CreateCheck(r) \/ DeleteCheck(r) \/ CliFind(r)
           \/ RemoveCheck(r)
  BY <1>0, <1>1, UsedBegin
<1>2. CASE InviteUser(r) \/ InviteCreate(r) \/ InviteAdd(r)
  BY <1>2, UsedInvite
<1>3. CASE SignInCreate(r) \/ SignInActivate(r)
  BY <1>3, UsedAccount
<1>4. CASE SignInPending(r)
  BY <1>4, UsedPending
<1>5. CASE \/ FindTeam(r) \/ NewTeam(r) \/ Provision(r) \/ CompareDomains(r) \/ SignInAdmin(r)
           \/ SignInJoin(r) \/ SignInPublic(r)
  BY <1>5, UsedTeam
<1>6. CASE \/ CreateTeam(r) \/ CreateProvision(r) \/ CreateAdmin(r) \/ ProvisionFails(r)
           \/ DeleteTeam(r) \/ CliAdd(r) \/ RemoveRead(r) \/ RemoveCount(r) \/ RemoveRow(r)
           \/ Die(r)
  BY <1>0, <1>6, UsedOther
<1> QED
  BY <1>1, <1>2, <1>3, <1>4, <1>5, <1>6 DEF Step

\* A pending member has not signed in yet and a member has, for any users and requests,
\* unless an invitation overlapped the sign-in or the sign-in died between its two
\* writes (auth.py:83).
THEOREM PendingIsUnused == Spec => []PendingMeansUnused
<1>1. Init => UInv
  <2> SUFFICES ASSUME Init PROVE UInv
    OBVIOUS
  <2>1. \A r \in Requests : req[r].pc = "idle"
    BY DEF Init, Idle
  <2>2. \A t \in Names, u \in Users : role[t][u] = "none"
    BY NamesAssumption DEF Init, People
  <2> QED
    BY <2>1, <2>2 DEF UInv, Apart, Busy, Past, Giving, Used, Signed, SignInPcs, InvitePcs
<1>2. IInv /\ UInv /\ [Next]_vars => UInv'
  <2>1. UInv /\ UNCHANGED vars => UInv'
    BY DEF vars, history, UInv, Apart, Busy, Past, Giving, Used, Settling
  <2> QED
    BY <2>1, UsedStep DEF Next
<1>3. UInv => PendingMeansUnused
  <2> SUFFICES ASSUME UInv, NEW u \in Users \ hasty, ~Busy(SignInPcs, u), NEW t \in Names
               PROVE  /\ role[t][u] = "pending" => account[u] # "editor"
                      /\ role[t][u] = "member" => account[u] = "editor"
    BY DEF PendingMeansUnused
  <2>1. ~Settling(u)
    BY DEF Settling, Busy, SignInPcs
  <2> QED
    BY <2>1 DEF UInv, Used
<1> QED
  BY Inductive, <1>1, <1>2, <1>3, PTL DEF Spec

----------------------------------------------------------------------------
(* Domains.                                                                *)

JoinPcs == {"signin_provision", "signin_admin", "signin_join"}

\* The team a sign-in is about: the automatic one, or that of the whole domain.
Target(r) ==
    /\ req[r].pc \in {"signin_create", "signin_activate", "signin_pending", "signin_members"}
          => req[r].team = Prefix
    /\ req[r].pc \in {"signin_team", "signin_new"} \cup JoinPcs
          => req[r].team \in {Prefix, Domain[req[r].user]}
    /\ req[r].pc = "signin_public" => req[r].team = Public

\* Who is invited is invited to a team that counts as mingled.
Mixed(r) == req[r].pc \in InvitePcs => req[r].team \in mingled

\* Before it joins the automatic team, a sign-in has seen that its members are of the
\* same domain.
Compared(r) ==
    Prefix \notin mingled /\ req[r].pc \in JoinPcs /\ req[r].team = Prefix /\ req[r].row =>
        \A x \in auto : x[1] = Prefix => Domain[x[2]] = Domain[req[r].user]

\* While some team is not mingled, sign-ins have never overlapped.
Lone == mingled # Names =>
            \A a, b \in Requests : req[a].pc \in SignInPcs /\ req[b].pc \in SignInPcs => a = b

\* Members that a sign-in has added are members, and in the team of a whole domain they
\* are of that domain.
Listed == \A x \in auto : /\ x[1] \in teams /\ role[x[1]][x[2]] = "member"
                          /\ x[1] = Prefix \/ x[1] = Domain[x[2]]

\* Nobody else is a member of the automatic team.
Known == Prefix \notin mingled =>
    \A u \in Users : role[Prefix][u] \in {"pending", "member"} => <<Prefix, u>> \in auto

DInv == /\ Lone /\ Listed /\ Known /\ DomainsApart
        /\ \A r \in Requests : Target(r) /\ Mixed(r) /\ Compared(r)

\* The other requests may only lose the rows they have read.
Others(r) == \A o \in Requests \ {r} :
    /\ req'[o].pc = req[o].pc /\ req'[o].user = req[o].user /\ req'[o].team = req[o].team
    /\ req'[o].row => req[o].row

\* A sign-in begins alone, or everything counts as mingled.
Signs(r) == req'[r].pc \in SignInPcs =>
    \/ req[r].pc \in SignInPcs
    \/ mingled' = Names
    \/ \A o \in Requests \ {r} : req[o].pc \notin SignInPcs

LEMMA OthersOK ==
    ASSUME DInv, NEW r \in Requests, Others(r), mingled \subseteq mingled', mingled' \subseteq Names,
           Signs(r), Target(r)', Mixed(r)', Compared(r)',
           auto' \subseteq auto \/ mingled' = Names
              \/ \A o \in Requests \ {r} : req[o].pc \notin SignInPcs
    PROVE  Lone' /\ \A o \in Requests : Target(o)' /\ Mixed(o)' /\ Compared(o)'
<1>1. Lone'
  <2> SUFFICES ASSUME mingled' # Names, NEW a \in Requests, NEW b \in Requests,
                      req'[a].pc \in SignInPcs, req'[b].pc \in SignInPcs, a # b
               PROVE  FALSE
    BY DEF Lone
  <2>1. mingled # Names
    OBVIOUS
  <2>2. \A c, d \in Requests : req[c].pc \in SignInPcs /\ req[d].pc \in SignInPcs => c = d
    BY <2>1 DEF DInv, Lone
  <2>3. CASE a = r
    BY <2>2, <2>3 DEF Others, Signs
  <2>4. CASE b = r
    BY <2>2, <2>4 DEF Others, Signs
  <2>5. CASE a # r /\ b # r
    BY <2>2, <2>5 DEF Others
  <2> QED
    BY <2>3, <2>4, <2>5
<1>2. ASSUME NEW o \in Requests PROVE Target(o)' /\ Mixed(o)' /\ Compared(o)'
  <2>1. CASE o = r
    BY <2>1
  <2>2. CASE o # r
    <3>1. /\ req'[o].pc = req[o].pc /\ req'[o].user = req[o].user /\ req'[o].team = req[o].team
          /\ req'[o].row => req[o].row
          /\ Target(o) /\ Mixed(o) /\ Compared(o)
      BY <2>2 DEF Others, DInv
    <3>2. Target(o)' /\ Mixed(o)'
      BY <3>1 DEF Target, Mixed
    <3>3. Compared(o)'
      <4> SUFFICES ASSUME Prefix \notin mingled', req[o].pc \in JoinPcs, req[o].team = Prefix,
                          req[o].row
                   PROVE  \A x \in auto' : x[1] = Prefix => Domain[x[2]] = Domain[req[o].user]
        BY <3>1 DEF Compared
      <4>1. req[o].pc \in SignInPcs /\ mingled' # Names
        BY DEF JoinPcs, SignInPcs, Names
      <4>2. auto' \subseteq auto
        BY <2>2, <4>1
      <4> QED
        BY <3>1, <4>2 DEF Compared
    <3> QED
      BY <3>2, <3>3
  <2> QED
    BY <2>1, <2>2
<1> QED
  BY <1>1, <1>2

\* A step after which nobody else is a member by a sign-in.
LEMMA DomainFrame ==
    ASSUME DInv, NEW r \in Requests, Others(r), mingled \subseteq mingled', mingled' \subseteq Names,
           Signs(r), Target(r)', Mixed(r)', Compared(r)', auto' \subseteq auto, Listed', Known'
    PROVE  DInv'
<1>1. Lone' /\ \A o \in Requests : Target(o)' /\ Mixed(o)' /\ Compared(o)'
  BY OthersOK
<1>2. DomainsApart'
  BY DEF DInv, DomainsApart
<1> QED
  BY <1>1, <1>2 DEF DInv

\* A step that leaves the memberships alone.
LEMMA DomainSteady ==
    ASSUME DInv, NEW r \in Requests, Others(r), mingled \subseteq mingled', mingled' \subseteq Names,
           Signs(r), Target(r)', Mixed(r)', Compared(r)', UNCHANGED <<role, auto>>,
           teams \subseteq teams'
    PROVE  DInv'
<1>1. Listed' /\ Known'
  BY DEF DInv, Listed, Known
<1> QED
  BY <1>1, DomainFrame

\* A request that is neither an invitation nor a sign-in afterwards.
LEMMA DomainLeaves ==
    ASSUME DInv, NEW r \in Requests, Others(r), mingled \subseteq mingled', mingled' \subseteq Names,
           req'[r].pc \notin PersonPcs, auto' \subseteq auto, Listed', Known'
    PROVE  DInv'
<1>1. Target(r)' /\ Mixed(r)' /\ Compared(r)' /\ Signs(r)
  BY DEF Target, Mixed, Compared, Signs, PersonPcs, SignInPcs, JoinPcs
<1> QED
  BY <1>1, DomainFrame

\* Where a step takes a request, and its team.
LEMMA OthersFacts ==
    ASSUME TypeOK, NEW r \in Requests
    PROVE  /\ End(r) => Others(r) /\ req'[r].pc = "idle"
           /\ \A x : Goto(r, x) => /\ Others(r) /\ req'[r].pc = x /\ req'[r].user = req[r].user
                                   /\ req'[r].team = req[r].team /\ req'[r].row = req[r].row
           /\ \A x, by, u, t : Begin(r, x, by, u, t) =>
                 /\ Others(r) /\ req'[r].pc = x /\ req'[r].user = u /\ req'[r].team = t
           /\ DeleteTeamRow(r) => Others(r) /\ req'[r].pc = "idle"
<1>1. End(r) => Others(r) /\ req'[r].pc = "idle"
  BY DEF End, Others, TypeOK, Idle
<1>2. ASSUME NEW x, Goto(r, x)
      PROVE  /\ Others(r) /\ req'[r].pc = x /\ req'[r].user = req[r].user
             /\ req'[r].team = req[r].team /\ req'[r].row = req[r].row
  <2> DEFINE q == req[r]
             rec == [q EXCEPT !.pc = x]
  <2>1. req' = [req EXCEPT ![r] = rec]
    BY <1>2 DEF Goto
  <2>2. q \in ReqRecord
    BY RecordOf
  <2> HIDE DEF q
  <2>3. rec.pc = x /\ rec.user = q.user /\ rec.team = q.team /\ rec.row = q.row
    BY <2>2 DEF ReqRecord
  <2> HIDE DEF rec
  <2> QED
    BY <2>1, <2>3 DEF Others, TypeOK, q
<1>3. ASSUME NEW x, NEW by, NEW u, NEW t, Begin(r, x, by, u, t)
      PROVE  Others(r) /\ req'[r].pc = x /\ req'[r].user = u /\ req'[r].team = t
  BY <1>3 DEF Begin, Others, TypeOK, Idle, At
<1>4. ASSUME DeleteTeamRow(r) PROVE Others(r) /\ req'[r].pc = "idle"
  <2>1. CASE Exists(r)
    <3>1. req' = RowsGone(r, HoldTeam(req[r].team))
      BY <1>4, <2>1 DEF DeleteTeamRow
    <3> QED
      BY <3>1, RowsGoneType, Idling DEF Others
  <2>2. CASE ~Exists(r)
    <3>1. End(r)
      BY <1>4, <2>2 DEF DeleteTeamRow, End
    <3> QED
      BY <1>1, <3>1
  <2> QED
    BY <2>1, <2>2
<1> QED
  BY <1>1, <1>2, <1>3, <1>4

\* A request ends that has changed nothing on the way.
LEMMA DomainEnds ==
    ASSUME TypeOK, DInv, NEW r \in Requests, End(r), UNCHANGED <<role, auto, mingled>>,
           teams \subseteq teams'
    PROVE  DInv'
<1>1. Others(r) /\ req'[r].pc \notin PersonPcs
  BY OthersFacts DEF PersonPcs, SignInPcs, InvitePcs
<1>2. Listed' /\ Known' /\ mingled \subseteq mingled' /\ mingled' \subseteq Names /\ auto' \subseteq auto
  BY DEF DInv, Listed, Known, TypeOK
<1> QED
  BY <1>1, <1>2, DomainLeaves

\* A request begins.
LEMMA DomainBegin ==
    ASSUME TypeOK, DInv, NEW r \in Requests,
           \/ InviteCheck(r) \/ SignInUser(r) \/ CreateCheck(r) \/ DeleteCheck(r) \/ CliFind(r)
           \/ RemoveCheck(r)
    PROVE  DInv'
<1>1. UNCHANGED <<teams, role, auto>> /\ Listed' /\ teams \subseteq teams'
  BY DEF InviteCheck, SignInUser, CreateCheck, DeleteCheck, CliFind, RemoveCheck, history,
         DInv, Listed
<1>2. CASE InviteCheck(r)
  <2>1. PICK t \in teams, u \in Users : \E by \in Admins(t) \ {u} :
           Begin(r, "invite_user", by, u, t) /\ mingled' = mingled \cup {t}
    BY <1>2 DEF InviteCheck
  <2>2. Others(r) /\ req'[r].pc = "invite_user" /\ req'[r].team = t /\ mingled' = mingled \cup {t}
    BY <2>1, OthersFacts
  <2>3. Target(r)' /\ Mixed(r)' /\ Compared(r)' /\ Signs(r)
    BY <2>2 DEF Target, Mixed, Compared, Signs, JoinPcs, SignInPcs
  <2>4. mingled \subseteq mingled' /\ mingled' \subseteq Names
    BY <2>2 DEF TypeOK
  <2> QED
    BY <1>1, <2>2, <2>3, <2>4, DomainSteady
<1>3. CASE SignInUser(r)
  <2>1. /\ \E u \in Users, x \in {"signin_create", "signin_activate", "signin_team"} :
              Begin(r, x, u, u, Prefix)
        /\ mingled' = mingled \cup (IF \E o \in Requests : req[o].pc \in SignInPcs
                                    THEN Names ELSE {})
    BY <1>3 DEF SignInUser, TypeOK, Accounts
  <2>2. /\ Others(r) /\ req'[r].pc \in {"signin_create", "signin_activate", "signin_team"}
        /\ req'[r].team = Prefix
    BY <2>1, OthersFacts
  <2>3. mingled \subseteq mingled' /\ mingled' \subseteq Names
    BY <2>1 DEF TypeOK
  <2>4. Target(r)' /\ Mixed(r)' /\ Compared(r)'
    BY <2>2 DEF Target, Mixed, Compared, JoinPcs, SignInPcs, InvitePcs
  <2>5. Signs(r)
    BY <2>1, <2>3 DEF Signs
  <2> QED
    BY <1>1, <2>2, <2>3, <2>4, <2>5, DomainSteady
<1>4. CASE CreateCheck(r) \/ DeleteCheck(r) \/ CliFind(r) \/ RemoveCheck(r)
  <2>1. UNCHANGED mingled /\ Known'
    BY <1>1, <1>4 DEF CreateCheck, DeleteCheck, CliFind, RemoveCheck, history, DInv, Known
  <2>2. \E x \in {"team_new", "delete_team", "cli_add", "remove_read"} :
           \E by, u, t : Begin(r, x, by, u, t)
    BY <1>4 DEF CreateCheck, DeleteCheck, CliFind, RemoveCheck
  <2>3. Others(r) /\ req'[r].pc \notin PersonPcs
    BY <2>2, OthersFacts DEF PersonPcs, SignInPcs, InvitePcs
  <2>4. mingled \subseteq mingled' /\ mingled' \subseteq Names /\ auto' \subseteq auto
    BY <1>1, <2>1 DEF TypeOK
  <2> QED
    BY <1>1, <2>1, <2>3, <2>4, DomainLeaves
<1> QED
  BY <1>2, <1>3, <1>4

\* The steps of an invitation.
LEMMA DomainInvite ==
    ASSUME TypeOK, DInv, NEW r \in Requests, InviteUser(r) \/ InviteCreate(r) \/ InviteAdd(r)
    PROVE  DInv'
<1>1. /\ UNCHANGED <<teams, auto, mingled>> /\ Mixed(r) /\ mingled \subseteq mingled'
      /\ mingled' \subseteq Names /\ req[r].pc \in InvitePcs /\ req[r].team \in mingled
  BY DEF InviteUser, InviteCreate, InviteAdd, Quiet, history, DInv, TypeOK, At, Mixed, InvitePcs
<1>2. CASE End(r) /\ UNCHANGED role
  BY <1>1, <1>2, DomainEnds
<1>3. CASE InviteAdd(r) /\ ~UNCHANGED role
  <2> DEFINE t == req[r].team
             p == req[r].user
  <2>1. /\ role[t][p] = "none" /\ role' = [role EXCEPT ![t][p] = req[r].give] /\ End(r)
    BY <1>3 DEF InviteAdd, Give
  <2>2. t \in Names /\ p \in People
    BY RecordOf
  <2>3. \A s \in Names, q \in People : (s # t \/ q # p) => role'[s][q] = role[s][q]
    BY <2>1, <2>2 DEF TypeOK
  <2>4. Listed'
    <3> SUFFICES ASSUME NEW x \in auto
                 PROVE  role'[x[1]][x[2]] = "member"
      BY <1>1 DEF DInv, Listed
    <3>1. x[1] \in Names /\ x[2] \in People /\ role[x[1]][x[2]] = "member"
      BY DEF DInv, Listed, TypeOK, People
    <3> QED
      BY <2>1, <2>3, <3>1
  <2>5. Known'
    <3> SUFFICES ASSUME Prefix \notin mingled, NEW u \in Users
                 PROVE  role'[Prefix][u] = role[Prefix][u]
      BY <1>1 DEF DInv, Known
    <3> QED
      BY <1>1, <2>3 DEF Names, People
  <2>6. Others(r) /\ req'[r].pc \notin PersonPcs
    BY <2>1, OthersFacts DEF PersonPcs, SignInPcs, InvitePcs
  <2> QED
    BY <1>1, <2>4, <2>5, <2>6, DomainLeaves
<1>4. CASE InviteUser(r) /\ Goto(r, "invite_create")
  <2>1. Others(r) /\ req'[r].pc = "invite_create" /\ req'[r].team = req[r].team /\ UNCHANGED role
    BY <1>4, OthersFacts DEF InviteUser, Quiet
  <2>2. Target(r)' /\ Mixed(r)' /\ Compared(r)' /\ Signs(r)
    BY <1>1, <2>1 DEF Target, Mixed, Compared, Signs, JoinPcs, SignInPcs
  <2> QED
    BY <1>1, <2>1, <2>2, DomainSteady
<1>5. ASSUME NEW g, req' = [req EXCEPT ![r].pc = "invite_add", ![r].give = g], UNCHANGED role
      PROVE  DInv'
  <2> DEFINE q == req[r]
             rec == [[q EXCEPT !.pc = "invite_add"] EXCEPT !.give = g]
  <2>1. req' = [req EXCEPT ![r] = rec] /\ q \in ReqRecord
    BY <1>5, RecordOf DEF TypeOK
  <2> HIDE DEF q
  <2>2. rec.pc = "invite_add" /\ rec.team = q.team
    BY <2>1 DEF ReqRecord
  <2> HIDE DEF rec
  <2>3. Others(r) /\ req'[r].pc = "invite_add" /\ req'[r].team = req[r].team
    BY <2>1, <2>2 DEF Others, TypeOK, q
  <2>4. Target(r)' /\ Mixed(r)' /\ Compared(r)' /\ Signs(r)
    BY <1>1, <2>3 DEF Target, Mixed, Compared, Signs, JoinPcs, SignInPcs
  <2> QED
    BY <1>1, <1>5, <2>3, <2>4, DomainSteady
<1>6. CASE InviteUser(r) /\ ~Goto(r, "invite_create")
  <2>1. UNCHANGED role /\ \E g : req' = [req EXCEPT ![r].pc = "invite_add", ![r].give = g]
    BY <1>6 DEF InviteUser, Quiet
  <2> QED
    BY <1>5, <2>1
<1>7. CASE InviteCreate(r) /\ ~(End(r) /\ UNCHANGED role)
  <2>1. UNCHANGED role /\ \E g : req' = [req EXCEPT ![r].pc = "invite_add", ![r].give = g]
    BY <1>7 DEF InviteCreate
  <2> QED
    BY <1>5, <2>1
<1> QED
  BY <1>2, <1>3, <1>4, <1>6, <1>7 DEF InviteAdd

\* The steps of a sign-in up to the joining of a team.
LEMMA DomainSignIn ==
    ASSUME TypeOK, DInv, NEW r \in Requests,
           \/ SignInCreate(r) \/ SignInActivate(r) \/ FindTeam(r) \/ NewTeam(r) \/ Provision(r)
    PROVE  DInv'
<1>1. /\ UNCHANGED <<role, auto, mingled>> /\ teams \subseteq teams'
      /\ mingled \subseteq mingled' /\ mingled' \subseteq Names /\ Target(r) /\ Compared(r)
      /\ req[r].pc \in SignInPcs
  BY DEF SignInCreate, SignInActivate, FindTeam, NewTeam, Provision, Quiet, history, DInv, TypeOK,
         At, SignInPcs
<1>2. CASE End(r)
  BY <1>1, <1>2, DomainEnds
<1>3. ASSUME NEW x \in SignInPcs, Goto(r, x), Target(r)', Compared(r)'
      PROVE  DInv'
  <2>1. Others(r) /\ req'[r].pc = x
    BY <1>3, OthersFacts
  <2>2. Mixed(r)' /\ Signs(r)
    BY <1>1, <2>1 DEF Mixed, Signs, SignInPcs, InvitePcs
  <2> QED
    BY <1>1, <1>3, <2>1, <2>2, DomainSteady
<1>4. CASE ~End(r) /\ (SignInCreate(r) \/ SignInActivate(r))
  <2>1. PICK x \in {"signin_team", "signin_pending"} :
           Goto(r, x) /\ req[r].pc \in {"signin_create", "signin_activate"}
    BY <1>4 DEF SignInCreate, SignInActivate, At
  <2>2. req'[r].pc = x /\ req'[r].team = Prefix
    BY <1>1, <2>1, OthersFacts DEF Target
  <2>3. Target(r)' /\ Compared(r)' /\ x \in SignInPcs
    BY <2>2 DEF Target, Compared, JoinPcs, SignInPcs
  <2> QED
    BY <1>3, <2>1, <2>3
<1>5. CASE FindTeam(r)
  <2>1. PICK x \in {"signin_new", "signin_members", "signin_join"} :
           /\ Goto(r, x) /\ req[r].pc = "signin_team"
           /\ x = "signin_members" => req[r].team = Prefix
           /\ x = "signin_join" => req[r].team # Prefix
    BY <1>5 DEF FindTeam, At
  <2>2. req'[r].pc = x /\ req'[r].team = req[r].team /\ req'[r].user = req[r].user
    BY <2>1, OthersFacts
  <2>3. Target(r)' /\ Compared(r)' /\ x \in SignInPcs
    BY <1>1, <2>1, <2>2 DEF Target, Compared, JoinPcs, SignInPcs
  <2> QED
    BY <1>3, <2>1, <2>3
<1>6. CASE NewTeam(r) /\ ~End(r)
  <2>1. req[r].team \notin teams /\ Goto(r, "signin_provision") /\ req[r].pc = "signin_new"
    BY <1>6 DEF NewTeam, At
  <2>2. /\ req'[r].pc = "signin_provision" /\ req'[r].team = req[r].team
        /\ req'[r].user = req[r].user
    BY <2>1, OthersFacts
  <2>3. Target(r)'
    BY <1>1, <2>1, <2>2 DEF Target, JoinPcs
  <2>4. Compared(r)'
    BY <1>1, <2>1, <2>2 DEF Compared, DInv, Listed
  <2>5. "signin_provision" \in SignInPcs
    BY DEF SignInPcs
  <2> QED
    BY <1>3, <2>1, <2>3, <2>4, <2>5
<1>7. CASE Provision(r)
  <2>1. Goto(r, "signin_admin") /\ req[r].pc = "signin_provision"
    BY <1>7 DEF Provision, At
  <2>2. /\ req'[r].pc = "signin_admin" /\ req'[r].team = req[r].team
        /\ req'[r].user = req[r].user /\ req'[r].row = req[r].row
    BY <2>1, OthersFacts
  <2>3. Target(r)' /\ Compared(r)' /\ "signin_admin" \in SignInPcs
    BY <1>1, <2>1, <2>2 DEF Target, Compared, JoinPcs, SignInPcs
  <2> QED
    BY <1>3, <2>1, <2>3
<1> QED
  BY <1>2, <1>4, <1>5, <1>6, <1>7

\* The domains of the members are compared.
LEMMA DomainCompare == ASSUME TypeOK, DInv, NEW r \in Requests, CompareDomains(r) PROVE DInv'
<1> DEFINE q      == req[r]
           among  == {v \in Users : Exists(r) /\ role[q.team][v] \in {"pending", "member"}}
           others == {Domain[u] : u \in among}
           mine   == Domain[q.user]
<1>1. /\ q.pc = "signin_members" /\ q.team = Prefix /\ q \in ReqRecord
      /\ UNCHANGED <<role, auto, mingled, teams>> /\ mingled \subseteq mingled'
      /\ mingled' \subseteq Names /\ teams \subseteq teams'
  BY RecordOf DEF CompareDomains, Quiet, history, DInv, Target, TypeOK, At
<1>2. CASE others # {} /\ mine \notin others
  <2> DEFINE rec == [q EXCEPT !.pc = "signin_team", !.team = mine, !.row = TRUE]
  <2>1. req' = [req EXCEPT ![r] = rec]
    BY <1>2 DEF CompareDomains
  <2> HIDE DEF q, mine
  <2>2. rec.pc = "signin_team" /\ rec.team = mine /\ rec.user = q.user
    BY <1>1 DEF ReqRecord
  <2> HIDE DEF rec
  <2>3. Others(r) /\ req'[r].pc = "signin_team" /\ req'[r].team = mine /\ req'[r].user = q.user
    BY <2>1, <2>2 DEF Others, TypeOK
  <2>4. Target(r)'
    BY <2>3 DEF Target, JoinPcs, mine
  <2>5. Mixed(r)' /\ Compared(r)'
    BY <2>3 DEF Mixed, Compared, JoinPcs, InvitePcs
  <2>6. Signs(r)
    BY <1>1 DEF Signs, SignInPcs, q
  <2> QED
    BY <1>1, <2>3, <2>4, <2>5, <2>6, DomainSteady
<1>3. CASE ~(others # {} /\ mine \notin others)
  <2> DEFINE rec == [q EXCEPT !.pc = "signin_join"]
  <2>1. req' = [req EXCEPT ![r] = rec]
    BY <1>3 DEF CompareDomains
  <2>2. Goto(r, "signin_join")
    BY <2>1 DEF Goto
  <2>3. /\ Others(r) /\ req'[r].pc = "signin_join" /\ req'[r].team = Prefix
        /\ req'[r].user = q.user /\ req'[r].row = q.row
    BY <1>1, <2>2, OthersFacts
  <2>4. Compared(r)'
    <3> SUFFICES ASSUME Prefix \notin mingled, q.row, NEW x \in auto, x[1] = Prefix
                 PROVE  Domain[x[2]] = mine
      BY <1>1, <2>3 DEF Compared
    <3>1. x[1] \in teams /\ role[Prefix][x[2]] = "member" /\ x[2] \in Users
      BY DEF DInv, Listed, TypeOK
    <3>2. x[2] \in among
      BY <1>1, <3>1 DEF Exists
    <3>3. PICK v \in among : Domain[v] = mine
      BY <1>3, <3>2
    <3>4. <<Prefix, v>> \in auto
      BY <1>1, <3>3 DEF DInv, Known
    <3> DEFINE y == <<Prefix, v>>
    <3>5. y[1] = Prefix /\ y[2] = v
      OBVIOUS
    <3> HIDE DEF y
    <3>6. y \in auto
      BY <3>4 DEF y
    <3> QED
      BY <3>3, <3>5, <3>6 DEF DInv, DomainsApart
  <2>5. Target(r)' /\ Mixed(r)'
    BY <2>3 DEF Target, Mixed, JoinPcs, InvitePcs
  <2>6. Signs(r)
    BY <1>1 DEF Signs, SignInPcs
  <2> QED
    BY <1>1, <2>3, <2>4, <2>5, <2>6, DomainSteady
<1> QED
  BY <1>2, <1>3

\* A membership that is no news to the automatic team.
LEMMA GivenOK ==
    ASSUME TypeOK, DInv, NEW t \in Names, NEW p \in People, NEW what, role[t][p] = "none",
           role' = [role EXCEPT ![t][p] = what], t # Prefix \/ what = "admin",
           UNCHANGED <<auto, teams, mingled>>
    PROVE  Listed' /\ Known'
<1>1. /\ \A s \in Names, q \in People : (s # t \/ q # p) => role'[s][q] = role[s][q]
      /\ role'[t][p] = what
  BY DEF TypeOK
<1>2. Listed'
  <2> SUFFICES ASSUME NEW x \in auto
               PROVE  role'[x[1]][x[2]] = "member"
    BY DEF DInv, Listed
  <2>1. x[1] \in Names /\ x[2] \in People /\ role[x[1]][x[2]] = "member"
    BY DEF DInv, Listed, TypeOK, People
  <2> QED
    BY <1>1, <2>1
<1>3. Known'
  <2> SUFFICES ASSUME Prefix \notin mingled, NEW u \in Users,
                      role'[Prefix][u] \in {"pending", "member"}
               PROVE  role'[Prefix][u] = role[Prefix][u]
    BY DEF DInv, Known
  <2> QED
    BY <1>1 DEF Names, People
<1> QED
  BY <1>2, <1>3

\* A new administrator, or a new member of the public team.
LEMMA DomainGive ==
    ASSUME TypeOK, DInv, NEW r \in Requests, NEW p \in People, NEW what \in {"admin", "member"},
           NEW next,
           AddMember(r, p, what, next), UNCHANGED <<auto, teams, mingled>>,
           req[r].team # Prefix \/ what = "admin",
           next => /\ Others(r) /\ Target(r)' /\ Mixed(r)' /\ Compared(r)' /\ Signs(r)
    PROVE  DInv'
<1>1. mingled \subseteq mingled' /\ mingled' \subseteq Names /\ teams \subseteq teams'
  BY DEF TypeOK
<1>2. CASE ~Exists(r)
  <2>1. End(r) /\ UNCHANGED role
    BY <1>2 DEF AddMember
  <2> QED
    BY <1>1, <2>1, DomainEnds
<1>3. CASE Exists(r)
  <2>1. Others(r) /\ Target(r)' /\ Mixed(r)' /\ Compared(r)' /\ Signs(r)
    BY <1>3 DEF AddMember
  <2>2. CASE role[req[r].team][p] = "none"
    <3>1. role' = [role EXCEPT ![req[r].team][p] = what] /\ req[r].team \in Names
      BY <1>3, <2>2, RecordOf DEF AddMember, Give
    <3>2. Listed' /\ Known'
      BY <2>2, <3>1, GivenOK
    <3>3. auto' \subseteq auto
      OBVIOUS
    <3> QED
      BY <1>1, <2>1, <3>2, <3>3, DomainFrame
  <2>3. CASE role[req[r].team][p] # "none"
    <3>1. UNCHANGED role
      BY <1>3, <2>3 DEF AddMember
    <3> QED
      BY <1>1, <2>1, <3>1, DomainSteady
  <2> QED
    BY <2>2, <2>3
<1> QED
  BY <1>2, <1>3

\* What ending means for the request itself.
LEMMA EndsFacts ==
    ASSUME TypeOK, NEW r \in Requests, End(r)
    PROVE  Others(r) /\ Target(r)' /\ Mixed(r)' /\ Compared(r)' /\ Signs(r)
<1>1. Others(r) /\ req'[r].pc = "idle"
  BY OthersFacts
<1> QED
  BY <1>1 DEF Target, Mixed, Compared, Signs, JoinPcs, SignInPcs, InvitePcs

\* A team goes with its members.
LEMMA DomainDelete == ASSUME TypeOK, DInv, NEW r \in Requests, DeleteTeamRow(r) PROVE DInv'
<1>1. /\ Others(r) /\ req'[r].pc \notin PersonPcs /\ UNCHANGED mingled
      /\ mingled \subseteq mingled' /\ mingled' \subseteq Names
  BY OthersFacts DEF PersonPcs, SignInPcs, InvitePcs, DeleteTeamRow, TypeOK
<1>2. CASE ~Exists(r)
  <2>1. End(r) /\ UNCHANGED <<role, auto, teams>> /\ teams \subseteq teams'
    BY <1>2 DEF DeleteTeamRow, End
  <2> QED
    BY <1>1, <2>1, DomainEnds
<1>3. CASE Exists(r)
  <2> DEFINE t == req[r].team
  <2>1. /\ teams' = teams \ {t} /\ role' = [role EXCEPT ![t] = [p \in People |-> "none"]]
        /\ auto' = {x \in auto : x[1] # t}
    BY <1>3 DEF DeleteTeamRow
  <2>2. t \in Names
    BY RecordOf
  <2>3. \A s \in Names, p \in People :
           role'[s][p] = IF s = t THEN "none" ELSE role[s][p]
    BY <2>1, <2>2 DEF TypeOK
  <2> HIDE DEF t
  <2>4. Listed'
    <3> SUFFICES ASSUME NEW x \in auto, x[1] # t
                 PROVE  /\ x[1] \in teams' /\ role'[x[1]][x[2]] = "member"
                        /\ x[1] = Prefix \/ x[1] = Domain[x[2]]
      BY <2>1 DEF Listed
    <3>1. x[1] \in Names /\ x[2] \in People
      BY DEF TypeOK, People
    <3> QED
      BY <2>1, <2>3, <3>1 DEF DInv, Listed
  <2>5. Known'
    <3> SUFFICES ASSUME Prefix \notin mingled, NEW u \in Users,
                        role'[Prefix][u] \in {"pending", "member"}
                 PROVE  <<Prefix, u>> \in auto'
      BY <1>1 DEF Known
    <3>1. Prefix # t /\ role'[Prefix][u] = role[Prefix][u]
      BY <2>3 DEF Names, People
    <3>2. <<Prefix, u>> \in auto
      BY <3>1 DEF DInv, Known
    <3> QED
      BY <2>1, <3>1, <3>2
  <2>6. auto' \subseteq auto
    BY <2>1
  <2> QED
    BY <1>1, <2>4, <2>5, <2>6, DomainLeaves
<1> QED
  BY <1>2, <1>3

\* The administrators' steps, the public team, and the end of a membership.
LEMMA DomainMembers ==
    ASSUME IInv, DInv, NEW r \in Requests,
           \/ SignInPending(r) \/ SignInAdmin(r) \/ SignInPublic(r) \/ CreateAdmin(r) \/ CliAdd(r)
           \/ RemoveRow(r)
    PROVE  DInv'
<1>0. TypeOK /\ Target(r) /\ Compared(r) /\ Root \in People
  BY DEF IInv, DInv, People
<1>1. UNCHANGED mingled /\ mingled \subseteq mingled' /\ mingled' \subseteq Names
  BY <1>0 DEF SignInPending, SignInAdmin, SignInPublic, CreateAdmin, CliAdd, RemoveRow,
              DeleteTeamRow, history, TypeOK
<1>2. CASE SignInPending(r)
  <2> DEFINE p == req[r].user
  <2>1. /\ req[r].pc = "signin_pending" /\ Goto(r, "signin_team") /\ UNCHANGED <<auto, teams>>
        /\ role' = [t \in Names |-> [role[t] EXCEPT ![p] = IF @ = "pending" THEN "member" ELSE @]]
    BY <1>2 DEF SignInPending, At, history
  <2>2. \A t \in Names, q \in People :
           \/ role'[t][q] = role[t][q]
           \/ role[t][q] = "pending" /\ role'[t][q] = "member"
    BY <1>0, <2>1 DEF TypeOK
  <2>3. Listed'
    <3> SUFFICES ASSUME NEW x \in auto
                 PROVE  role'[x[1]][x[2]] = "member"
      BY <2>1 DEF DInv, Listed
    <3>1. x[1] \in Names /\ x[2] \in People /\ role[x[1]][x[2]] = "member"
      BY <1>0 DEF DInv, Listed, TypeOK, People
    <3> QED
      BY <2>2, <3>1
  <2>4. Known'
    <3> SUFFICES ASSUME Prefix \notin mingled, NEW u \in Users,
                        role'[Prefix][u] \in {"pending", "member"}
                 PROVE  role[Prefix][u] \in {"pending", "member"}
      BY <1>1, <2>1 DEF DInv, Known
    <3> QED
      BY <2>2 DEF Names, People
  <2>5. /\ Others(r) /\ req'[r].pc = "signin_team" /\ req'[r].team = Prefix
    BY <1>0, <2>1, OthersFacts DEF Target
  <2>6. Target(r)' /\ Mixed(r)' /\ Compared(r)'
    BY <2>5 DEF Target, Mixed, Compared, JoinPcs, InvitePcs
  <2>7. Signs(r) /\ auto' \subseteq auto
    BY <2>1 DEF Signs, SignInPcs
  <2> QED
    BY <1>1, <2>3, <2>4, <2>5, <2>6, <2>7, DomainFrame
<1>3. CASE SignInAdmin(r)
  <2>1. /\ AddMember(r, Root, "admin", Goto(r, "signin_join")) /\ UNCHANGED <<auto, teams, mingled>>
        /\ req[r].pc = "signin_admin"
    BY <1>3 DEF SignInAdmin, At
  <2>2. ASSUME Goto(r, "signin_join")
        PROVE  Others(r) /\ Target(r)' /\ Mixed(r)' /\ Compared(r)' /\ Signs(r)
    <3>1. /\ Others(r) /\ req'[r].pc = "signin_join" /\ req'[r].user = req[r].user
          /\ req'[r].team = req[r].team /\ req'[r].row = req[r].row
      BY <1>0, <2>2, OthersFacts
    <3>2. Target(r)'
      BY <1>0, <2>1, <3>1 DEF Target, JoinPcs
    <3>3. Mixed(r)' /\ Signs(r)
      BY <2>1, <3>1 DEF Mixed, Signs, SignInPcs, InvitePcs
    <3>4. Compared(r)'
      BY <1>0, <1>1, <2>1, <3>1 DEF Compared, JoinPcs
    <3> QED
      BY <3>1, <3>2, <3>3, <3>4
  <2> QED
    BY <1>0, <2>1, <2>2, DomainGive
<1>4. CASE SignInPublic(r)
  <2>1. /\ AddMember(r, req[r].user, "member", End(r)) /\ UNCHANGED <<auto, teams, mingled>>
        /\ req[r].pc = "signin_public"
    BY <1>4 DEF SignInPublic, At
  <2>2. req[r].team # Prefix /\ req[r].user \in People
    BY <1>0, <2>1, NamesAssumption, RecordOf DEF Target
  <2>3. End(r) => Others(r) /\ Target(r)' /\ Mixed(r)' /\ Compared(r)' /\ Signs(r)
    BY <1>0, EndsFacts
  <2> QED
    BY <1>0, <2>1, <2>2, <2>3, DomainGive
<1>5. CASE CliAdd(r)
  <2>1. AddMember(r, Root, "admin", End(r)) /\ UNCHANGED <<auto, teams, mingled>>
    BY <1>5 DEF CliAdd
  <2>2. End(r) => Others(r) /\ Target(r)' /\ Mixed(r)' /\ Compared(r)' /\ Signs(r)
    BY <1>0, EndsFacts
  <2> QED
    BY <1>0, <2>1, <2>2, DomainGive
<1>6. CASE CreateAdmin(r)
  <2>1. CASE DeleteTeamRow(r)
    BY <1>0, <2>1, DomainDelete
  <2>2. CASE ~DeleteTeamRow(r)
    <3>1. AddMember(r, req[r].by, "admin", End(r)) /\ UNCHANGED <<auto, teams, mingled>>
      BY <1>6, <2>2 DEF CreateAdmin
    <3>2. End(r) => Others(r) /\ Target(r)' /\ Mixed(r)' /\ Compared(r)' /\ Signs(r)
      BY <1>0, EndsFacts
    <3>3. req[r].by \in People
      BY <1>0, RecordOf
    <3> QED
      BY <1>0, <3>1, <3>2, <3>3, DomainGive
  <2> QED
    BY <2>1, <2>2
<1>7. CASE RemoveRow(r)
  <2>1. CASE ~Exists(r)
    <3>1. End(r) /\ UNCHANGED <<role, auto, teams>> /\ teams \subseteq teams'
      BY <1>7, <2>1 DEF RemoveRow
    <3> QED
      BY <1>0, <1>1, <3>1, DomainEnds
  <2>2. CASE Exists(r)
    <3> DEFINE t == req[r].team
               p == req[r].user
    <3>1. /\ role' = [role EXCEPT ![t][p] = "none"] /\ auto' = auto \ {<<t, p>>}
          /\ req' = RowsGone(r, HoldMember(t, p)) /\ UNCHANGED teams
      BY <1>7, <2>2 DEF RemoveRow, Give
    <3>2. t \in Names /\ p \in People
      BY <1>0, RecordOf
    <3>3. /\ \A s \in Names, q \in People : (s # t \/ q # p) => role'[s][q] = role[s][q]
          /\ role'[t][p] = "none"
      BY <1>0, <3>1, <3>2 DEF TypeOK
    <3>4. Others(r) /\ req'[r].pc \notin PersonPcs
      <4>1. Others(r)
        BY <1>0, <3>1, RowsGoneType DEF Others
      <4>2. req'[r] = Idle
        BY <1>0, <3>1, RowsGoneType
      <4> QED
        BY <4>1, <4>2, Idling DEF PersonPcs, SignInPcs, InvitePcs
    <3> HIDE DEF t, p
    <3>5. Listed'
      <4> SUFFICES ASSUME NEW x \in auto, x # <<t, p>>
                   PROVE  role'[x[1]][x[2]] = "member"
        BY <3>1 DEF DInv, Listed
      <4>1. /\ x[1] \in Names /\ x[2] \in People /\ role[x[1]][x[2]] = "member"
            /\ x = <<x[1], x[2]>>
        BY <1>0 DEF DInv, Listed, TypeOK, People
      <4> QED
        BY <3>3, <4>1
    <3>6. Known'
      <4> SUFFICES ASSUME Prefix \notin mingled, NEW u \in Users,
                          role'[Prefix][u] \in {"pending", "member"}
                   PROVE  <<Prefix, u>> \in auto'
        BY <1>1 DEF Known
      <4>1. (Prefix # t \/ u # p) /\ role'[Prefix][u] = role[Prefix][u]
        BY <3>3 DEF Names, People
      <4>2. <<Prefix, u>> \in auto /\ <<Prefix, u>> # <<t, p>>
        BY <4>1 DEF DInv, Known
      <4> QED
        BY <3>1, <4>2
    <3>7. auto' \subseteq auto
      BY <3>1
    <3> QED
      BY <1>1, <3>4, <3>5, <3>6, <3>7, DomainLeaves
  <2> QED
    BY <2>1, <2>2
<1> QED
  BY <1>2, <1>3, <1>4, <1>5, <1>6, <1>7

\* The requests that are about a team or a removal.
LEMMA DomainOther ==
    ASSUME TypeOK, DInv, NEW r \in Requests,
           \/ ProvisionFails(r) \/ CreateTeam(r) \/ CreateProvision(r) \/ DeleteTeam(r)
           \/ RemoveRead(r) \/ RemoveCount(r) \/ Die(r)
    PROVE  DInv'
<1>1. CASE ProvisionFails(r) \/ DeleteTeam(r)
  BY <1>1, DomainDelete DEF ProvisionFails, DeleteTeam
<1>2. CASE CreateTeam(r) \/ CreateProvision(r) \/ RemoveRead(r) \/ RemoveCount(r) \/ Die(r)
  <2>1. UNCHANGED <<role, auto, mingled>> /\ teams \subseteq teams'
    BY <1>2 DEF CreateTeam, CreateProvision, RemoveRead, RemoveCount, Die, Quiet, history
  <2>2. CASE End(r)
    BY <2>1, <2>2, DomainEnds
  <2>3. CASE ~End(r)
    <3>1. \E x \in {"team_provision", "team_admin", "remove_count", "remove_row"} : Goto(r, x)
      BY <1>2, <2>3 DEF CreateTeam, CreateProvision, RemoveRead, RemoveCount, Die
    <3>2. Others(r) /\ req'[r].pc \notin PersonPcs
      BY <3>1, OthersFacts DEF PersonPcs, SignInPcs, InvitePcs
    <3>3. Listed' /\ Known' /\ mingled \subseteq mingled' /\ mingled' \subseteq Names /\ auto' \subseteq auto
      BY <2>1 DEF DInv, Listed, Known, TypeOK
    <3> QED
      BY <3>2, <3>3, DomainLeaves
  <2> QED
    BY <2>2, <2>3
<1> QED
  BY <1>1, <1>2

\* A sign-in joins: the one step after which somebody new is in a team by a sign-in.
LEMMA DomainJoin == ASSUME IInv, DInv, NEW r \in Requests, SignInJoin(r) PROVE DInv'
<1> DEFINE t == req[r].team
           u == req[r].user
<1>0. /\ TypeOK /\ req[r].pc = "signin_join" /\ UNCHANGED <<teams, mingled>>
      /\ Target(r) /\ Compared(r)
      /\ mingled \subseteq mingled' /\ mingled' \subseteq Names /\ teams \subseteq teams'
  BY DEF IInv, DInv, SignInJoin, At, TypeOK
<1>1. t \in Names /\ u \in Users /\ u \in People /\ t \in {Prefix, Domain[u]}
  BY <1>0, RecordOf, PersonOf DEF Target, JoinPcs, PersonPcs, SignInPcs
<1>2. CASE ~Exists(r)
  <2>1. End(r) /\ UNCHANGED <<role, auto>>
    BY <1>2 DEF SignInJoin, AddMember
  <2> QED
    BY <1>0, <2>1, DomainEnds
<1>3. CASE Exists(r)
  <2>1. req' = [req EXCEPT ![r].pc = "signin_public", ![r].team = Public]
    BY <1>3 DEF SignInJoin, AddMember
  <2>2. /\ Others(r) /\ req'[r].pc = "signin_public" /\ req'[r].team = Public
    <3> DEFINE q   == req[r]
               rec == [[q EXCEPT !.pc = "signin_public"] EXCEPT !.team = Public]
    <3>1. req' = [req EXCEPT ![r] = rec] /\ q \in ReqRecord
      BY <1>0, <2>1, RecordOf DEF TypeOK
    <3> HIDE DEF q
    <3>2. rec.pc = "signin_public" /\ rec.team = Public
      BY <3>1 DEF ReqRecord
    <3> HIDE DEF rec
    <3> QED
      BY <1>0, <3>1, <3>2 DEF Others, TypeOK
  <2>3. Target(r)' /\ Mixed(r)' /\ Compared(r)' /\ Signs(r)
    BY <1>0, <2>2 DEF Target, Mixed, Compared, Signs, JoinPcs, SignInPcs, InvitePcs
  <2>4. CASE role[t][u] # "none"
    <3>1. UNCHANGED <<role, auto>>
      BY <1>3, <2>4 DEF SignInJoin, AddMember
    <3> QED
      BY <1>0, <2>2, <2>3, <3>1, DomainSteady
  <2>5. CASE role[t][u] = "none"
    <3>1. /\ auto' = auto \cup {<<t, u>>} /\ role' = [role EXCEPT ![t][u] = "member"]
          /\ t \in teams /\ req[r].row
      BY <1>3, <2>5 DEF SignInJoin, AddMember, Give, Exists
    <3>2. \A s \in Names, q \in People :
             role'[s][q] = IF s = t /\ q = u THEN "member" ELSE role[s][q]
      BY <1>0, <1>1, <3>1 DEF TypeOK
    <3>3. mingled' = Names \/ \A o \in Requests \ {r} : req[o].pc \notin SignInPcs
      BY <1>0 DEF DInv, Lone, SignInPcs
    <3>4. Lone' /\ \A o \in Requests : Target(o)' /\ Mixed(o)' /\ Compared(o)'
      BY <1>0, <2>2, <2>3, <3>3, OthersOK
    <3>5. \A x \in auto : /\ x[1] \in Names /\ x[2] \in People /\ x[1] \in teams
                          /\ role[x[1]][x[2]] = "member"
                          /\ x[1] = Prefix \/ x[1] = Domain[x[2]]
      BY <1>0 DEF DInv, Listed, TypeOK, People
    <3> DEFINE new == <<t, u>>
    <3>6. new[1] = t /\ new[2] = u /\ auto' = auto \cup {new}
      BY <3>1
    <3> HIDE DEF new
    <3>7. Listed'
      <4> SUFFICES ASSUME NEW x \in auto'
                   PROVE  /\ x[1] \in teams /\ role'[x[1]][x[2]] = "member"
                          /\ x[1] = Prefix \/ x[1] = Domain[x[2]]
        BY <1>0 DEF Listed
      <4>1. CASE x = new
        BY <1>1, <3>1, <3>2, <3>6, <4>1
      <4>2. CASE x \in auto
        BY <3>2, <3>5, <4>2
      <4> QED
        BY <3>6, <4>1, <4>2
    <3>8. Known'
      <4> SUFFICES ASSUME Prefix \notin mingled, NEW v \in Users,
                          role'[Prefix][v] \in {"pending", "member"}
                   PROVE  <<Prefix, v>> \in auto'
        BY <1>0 DEF Known
      <4>1. CASE Prefix = t /\ v = u
        BY <3>1, <4>1
      <4>2. CASE ~(Prefix = t /\ v = u)
        <5>1. role'[Prefix][v] = role[Prefix][v]
          BY <3>2, <4>2 DEF Names, People
        <5> QED
          BY <3>1, <5>1 DEF DInv, Known
      <4> QED
        BY <4>1, <4>2
    <3>9. DomainsApart'
      <4>1. ASSUME NEW y \in auto, y[1] = t, t \notin mingled
            PROVE  Domain[y[2]] = Domain[u]
        BY <1>0, <1>1, <3>1, <3>5, <4>1 DEF Compared, JoinPcs
      <4>2. \A x, y \in auto : (x[1] = y[1] /\ x[1] \notin mingled) => Domain[x[2]] = Domain[y[2]]
        BY DEF DInv, DomainsApart
      <4> SUFFICES ASSUME NEW x \in auto', NEW y \in auto', x[1] = y[1], x[1] \notin mingled
                   PROVE  Domain[x[2]] = Domain[y[2]]
        BY <1>0 DEF DomainsApart
      <4> QED
        BY <3>6, <4>1, <4>2
    <3> QED
      BY <3>4, <3>7, <3>8, <3>9 DEF DInv
  <2> QED
    BY <2>4, <2>5
<1> QED
  BY <1>2, <1>3

LEMMA DomainStep == ASSUME IInv, DInv, NEW r \in Requests, Step(r) PROVE DInv'
<1>0. TypeOK
  BY DEF IInv
<1>1. CASE \/ InviteCheck(r) \/ SignInUser(r) \/ CreateCheck(r) \/ DeleteCheck(r) \/ CliFind(r)
           \/ RemoveCheck(r)
  BY <1>0, <1>1, DomainBegin
<1>2. CASE InviteUser(r) \/ InviteCreate(r) \/ InviteAdd(r)
  BY <1>0, <1>2, DomainInvite
<1>3. CASE \/ SignInCreate(r) \/ SignInActivate(r) \/ FindTeam(r) \/ NewTeam(r) \/ Provision(r)
  BY <1>0, <1>3, DomainSignIn
<1>4. CASE CompareDomains(r)
  BY <1>0, <1>4, DomainCompare
<1>5. CASE \/ SignInPending(r) \/ SignInAdmin(r) \/ SignInPublic(r) \/ CreateAdmin(r) \/ CliAdd(r)
           \/ RemoveRow(r)
  BY <1>5, DomainMembers
<1>6. CASE SignInJoin(r)
  BY <1>6, DomainJoin
<1>7. CASE \/ ProvisionFails(r) \/ CreateTeam(r) \/ CreateProvision(r) \/ DeleteTeam(r)
           \/ RemoveRead(r) \/ RemoveCount(r) \/ Die(r)
  BY <1>0, <1>7, DomainOther
<1> QED
  BY <1>1, <1>2, <1>3, <1>4, <1>5, <1>6, <1>7 DEF Step

\* Sign-ins keep the domains of a shared automatic team apart (team.py:426), for any
\* users, domains and requests, in every team without an invitation, as long as no two
\* sign-ins overlap.
THEOREM DomainsStayApart == Spec => []DomainsApart
<1>1. Init => DInv
  <2> SUFFICES ASSUME Init PROVE DInv
    OBVIOUS
  <2>1. \A r \in Requests : req[r].pc = "idle"
    BY DEF Init, Idle
  <2>2. auto = {} /\ \A t \in Names, u \in Users : role[t][u] = "none"
    BY NamesAssumption DEF Init, People
  <2>3. Lone /\ \A r \in Requests : Target(r) /\ Mixed(r) /\ Compared(r)
    BY <2>1 DEF Lone, Target, Mixed, Compared, JoinPcs, SignInPcs, InvitePcs
  <2>4. Listed /\ Known /\ DomainsApart
    BY <2>2 DEF Listed, Known, DomainsApart, Names
  <2> QED
    BY <2>3, <2>4 DEF DInv
<1>2. IInv /\ DInv /\ [Next]_vars => DInv'
  <2>1. DInv /\ UNCHANGED vars => DInv'
    BY DEF vars, history, DInv, Lone, Target, Mixed, Compared, Listed, Known, DomainsApart
  <2> QED
    BY <2>1, DomainStep DEF Next
<1>3. DInv => DomainsApart
  BY DEF DInv
<1> QED
  BY Inductive, <1>1, <1>2, <1>3, PTL DEF Spec
=============================================================================
