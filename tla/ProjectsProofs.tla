--------------------------- MODULE ProjectsProofs ---------------------------
(***************************************************************************)
(* Proofs about Projects, for any users, requests, first projects and      *)
(* bounds.                                                                 *)
(***************************************************************************)
EXTENDS Projects, SequenceTheorems, FiniteSetTheorems, TLAPS

(* What the earlier statements of a request have established of its local  *)
(* variables l when statement a is next, among the first np projects and   *)
(* the first ns seasons.                                                   *)
Fits(a, l, np, ns) ==
    /\ a \in {"access", "children", "insert", "update"} =>
           l.parent <= np /\ (l.parent # 0 => l.parent # l.p)
    /\ a \in {"member", "number", "season"} => l.p \in 1..np
    /\ a = "season" => l.number # 0
    /\ a \in {"activate", "close", "may post", "post"} => l.season \in 1..ns

Fitting == \A r \in Request : Fits(at[r], req[r], Len(project), Len(season))
Typed == TypeOK /\ Fitting

LEMMA Bounds == /\ MaxProjects \in Nat /\ MaxSeasons \in Nat
                /\ None \notin Request /\ (CHOOSE u \in User : TRUE) \in User
  BY ProjectsAssumption

LEMMA NoLocalType == NoLocal \in Local
  BY Bounds DEF NoLocal, Local

LEMMA NatFields ==
    /\ \A l \in Local : /\ l.parent \in Nat /\ l.parent \in 0..MaxProjects
                        /\ l.p \in Nat /\ l.number \in Nat /\ l.user \in User
    /\ \A p \in Project : p.parent \in Nat /\ p.parent \in 0..MaxProjects
<1>1. \A l \in Local : /\ l.parent \in 0..MaxProjects /\ l.p \in 0..MaxProjects
                       /\ l.number \in Nat /\ l.user \in User
  BY DEF Local
<1>2. \A p \in Project : p.parent \in 0..MaxProjects
  BY DEF Project
<1>3. QED  BY <1>1, <1>2, Bounds

(* Rows are only added, so what a waiting request knows stays true. *)
LEMMA FitsGrown ==
    ASSUME NEW a, NEW l \in Local, NEW np \in Nat, NEW ns \in Nat,
           NEW mp \in Nat, NEW ms \in Nat, np <= mp, ns <= ms, Fits(a, l, np, ns)
    PROVE  Fits(a, l, mp, ms)
<1>1. l.parent \in Nat
  BY NatFields
<1>2. l.parent <= np => l.parent <= mp
  BY <1>1
<1>3. 1..np \subseteq 1..mp /\ 1..ns \subseteq 1..ms
  OBVIOUS
<1>4. QED
  BY <1>2, <1>3 DEF Fits

(* A step of request r, whatever it does to the tables. *)
LEMMA ControlStep ==
    ASSUME Typed, Len(project') \in Nat, Len(season') \in Nat,
           Len(project) <= Len(project'), Len(season) <= Len(season'),
           NEW r \in Request, NEW from, NEW to \in Label, NEW l \in Local,
           Goto(r, from, to, l), to = "done" \/ Fits(to, l, Len(project'), Len(season'))
    PROVE  at' \in [Request -> Label] /\ req' \in [Request -> Local] /\ Fitting'
<1> USE DEF Typed
<1>1. at' \in [Request -> Label] /\ req' \in [Request -> Local]
  BY NoLocalType DEF Goto, TypeOK
<1>2. Fits(at'[r], req'[r], Len(project'), Len(season'))
  <2>1. CASE to = "done"
    BY <2>1 DEF Goto, Fits, TypeOK
  <2>2. CASE to # "done"
    BY <2>2 DEF Goto, TypeOK
  <2>3. QED  BY <2>1, <2>2
<1>3. ASSUME NEW s \in Request, s # r
      PROVE  Fits(at'[s], req'[s], Len(project'), Len(season'))
  <2>1. at'[s] = at[s] /\ req'[s] = req[s] /\ req[s] \in Local
    BY <1>3 DEF Goto, TypeOK
  <2>2. Fits(at[s], req[s], Len(project), Len(season))
    BY DEF Fitting
  <2>3. Len(project) \in Nat /\ Len(season) \in Nat
    BY DEF TypeOK
  <2>4. QED  BY <2>1, <2>2, <2>3, FitsGrown
<1>4. QED  BY <1>1, <1>2, <1>3 DEF Fitting

(* The last step of a request. *)
LEMMA DoneStep ==
    ASSUME Typed, NEW np \in Nat, NEW ns \in Nat, Len(project') = np, Len(season') = ns,
           Len(project) <= np, Len(season) <= ns,
           NEW r \in Request, NEW from, Goto(r, from, "done", NoLocal)
    PROVE  at' \in [Request -> Label] /\ req' \in [Request -> Local] /\ Fitting'
<1>1. "done" \in Label
  BY DEF Label
<1>2. QED  BY <1>1, NoLocalType, ControlStep

(* A step that only reads leaves the tables as they are. *)
LEMMA ReadStep ==
    ASSUME Typed, NEW r \in Request, NEW from, NEW to \in Label, NEW l \in Local,
           Goto(r, from, to, l), UNCHANGED <<project, role, season, late>>,
           rough' \subseteq Request,
           to = "done" \/ Fits(to, l, Len(project), Len(season))
    PROVE  Typed'
<1>1. at' \in [Request -> Label] /\ req' \in [Request -> Local] /\ Fitting'
  <2>1. Len(project) \in Nat /\ Len(season) \in Nat
    BY DEF Typed, TypeOK
  <2>2. QED  BY <2>1, ControlStep
<1>2. QED  BY <1>1 DEF Typed, TypeOK

(* A first step also records whom the request overlaps. *)
LEMMA StartStep ==
    ASSUME Typed, NEW r \in Request, NEW first \in Label, NEW l \in Local,
           Start(r, first, l), Fits(first, l, Len(project), Len(season))
    PROVE  Typed'
<1>1. rough' \subseteq Request
  BY DEF Start, Typed, TypeOK
<1>2. QED  BY <1>1, ReadStep DEF Start

(* The API's creation and PATCH are the forms' without a parent. *)
LEMMA WithoutParent ==
    /\ \A r, u : CreateInSpace(r, u) => StartCreate(r, u, 0)
    /\ \A r, p : Patch(r, p) => StartEdit(r, p, 0)
<1>1. NoLocal \in Local /\ NoLocal.parent = 0
  BY NoLocalType DEF NoLocal
<1>2. ASSUME NEW l \in Local, l.parent = 0, NEW x
      PROVE  /\ [l EXCEPT !.user = x] = [l EXCEPT !.user = x, !.parent = 0]
             /\ [l EXCEPT !.p = x] = [l EXCEPT !.p = x, !.parent = 0]
  BY <1>2 DEF Local
<1>3. QED  BY <1>1, <1>2 DEF CreateInSpace, StartCreate, Patch, StartEdit

LEMMA ArriveTyped ==
    ASSUME Typed, NEW r \in Request, Arrive(r)
    PROVE  Typed'
<1> USE DEF Fits
<1>1. /\ Live \subseteq 1..Len(project) /\ Live \subseteq 0..MaxProjects
      /\ DOMAIN season = 1..Len(season) /\ DOMAIN season \subseteq 0..MaxSeasons
      /\ Len(project) \in Nat
  BY Bounds DEF Typed, TypeOK, Live
<1>2. ASSUME NEW q \in 0..MaxProjects, NEW u \in User, NEW l \in Local
      PROVE  /\ [l EXCEPT !.user = u, !.parent = q] \in Local
             /\ [l EXCEPT !.user = u, !.parent = q].parent = q
  BY DEF Local
<1>3. ASSUME NEW q \in 0..MaxProjects, NEW p \in 0..MaxProjects, NEW l \in Local
      PROVE  /\ [l EXCEPT !.p = p, !.parent = q] \in Local
             /\ [l EXCEPT !.p = p, !.parent = q].parent = q
  BY DEF Local
<1>4. ASSUME NEW p \in 0..MaxProjects, NEW l \in Local
      PROVE  [l EXCEPT !.p = p] \in Local /\ [l EXCEPT !.p = p].p = p
  BY DEF Local
<1>5. ASSUME NEW p \in 0..MaxProjects, NEW u \in User, NEW op \in {"add", "set", "remove"},
             NEW l \in Local
      PROVE  /\ [l EXCEPT !.op = op, !.p = p, !.user = u] \in Local
             /\ [l EXCEPT !.op = op, !.p = p, !.user = u].p = p
  BY DEF Local
<1>6. ASSUME NEW s \in 0..MaxSeasons, NEW l \in Local
      PROVE  [l EXCEPT !.season = s] \in Local /\ [l EXCEPT !.season = s].season = s
  BY DEF Local
<1>7. ASSUME NEW q \in 0..MaxProjects, NEW u \in User, StartCreate(r, u, q)
      PROVE  Typed'
  <2> DEFINE l == [NoLocal EXCEPT !.user = u, !.parent = q]
             first == IF q = 0 THEN "insert" ELSE "parent"
  <2>1. l \in Local /\ l.parent = q
    BY <1>2, NoLocalType
  <2>2. Start(r, first, l)
    BY <1>7 DEF StartCreate
  <2> HIDE DEF l
  <2>3. first \in Label /\ Fits(first, l, Len(project), Len(season))
    BY <1>1, <2>1 DEF Label
  <2>4. QED  BY <2>1, <2>2, <2>3, StartStep
<1>8. ASSUME NEW q \in 0..MaxProjects, NEW p \in Live, StartEdit(r, p, q)
      PROVE  Typed'
  <2> DEFINE l == [NoLocal EXCEPT !.p = p, !.parent = q]
             first == IF q = 0 THEN "update" ELSE "parent"
  <2>1. l \in Local /\ l.parent = q
    BY <1>1, <1>3, NoLocalType
  <2>2. Start(r, first, l)
    BY <1>8 DEF StartEdit
  <2> HIDE DEF l
  <2>3. first \in Label /\ Fits(first, l, Len(project), Len(season))
    BY <1>1, <2>1 DEF Label
  <2>4. QED  BY <2>1, <2>2, <2>3, StartStep
<1>9. ASSUME NEW p \in Live, StartDelete(r, p) \/ StartSeason(r, p)
      PROVE  Typed'
  BY <1>1, <1>4, NoLocalType, <1>9, StartStep DEF StartDelete, StartSeason, Label
<1>10. ASSUME NEW p \in Live, NEW u \in User, NEW op \in {"add", "set", "remove"},
              StartMember(r, op, p, u)
       PROVE  Typed'
  <2> DEFINE l == [NoLocal EXCEPT !.op = op, !.p = p, !.user = u]
  <2>1. l \in Local /\ l.p = p
    <3>1. p \in 0..MaxProjects
      BY <1>1
    <3>2. QED  BY <1>5, <3>1, NoLocalType
  <2>2. Start(r, "member", l)
    BY <1>10 DEF StartMember
  <2> HIDE DEF l
  <2>3. "member" \in Label /\ Fits("member", l, Len(project), Len(season))
    BY <1>1, <2>1 DEF Label
  <2>4. QED  BY <2>1, <2>2, <2>3, StartStep
<1>11. ASSUME NEW s \in DOMAIN season,
              StartPost(r, s) \/ \E to \in {"activate", "close"} : StartChange(r, to, s)
       PROVE  Typed'
  <2> DEFINE l == [NoLocal EXCEPT !.season = s]
  <2>1. l \in Local /\ l.season = s
    BY <1>1, <1>6, NoLocalType
  <2>2. PICK first \in {"may post", "activate", "close"} : Start(r, first, l)
    BY <1>11 DEF StartPost, StartChange
  <2> HIDE DEF l
  <2>3. first \in Label /\ Fits(first, l, Len(project), Len(season))
    BY <1>1, <2>1 DEF Label
  <2>4. QED  BY <2>1, <2>2, <2>3, StartStep
<1>12. 0 \in 0..MaxProjects
  BY ProjectsAssumption
<1>13. QED  BY <1>7, <1>8, <1>9, <1>10, <1>11, <1>12, WithoutParent DEF Arrive

(* The statements that change a table keep it well-typed. *)
LEMMA TreeTyped ==
    ASSUME Typed, NEW r \in Request, Tree(r)
    PROVE  Typed'
<1> USE DEF Fits
<1>1. req[r] \in Local /\ at[r] \in Label /\ Fits(at[r], req[r], Len(project), Len(season))
  BY DEF Typed, TypeOK, Fitting
<1>2. CASE CheckParent(r) \/ CheckAccess(r) \/ CheckChildren(r)
  <2>1. \A p \in Live : p \in 1..Len(project)
    BY DEF Live, Typed, TypeOK
  <2>2. PICK from \in {"parent", "access", "children"},
             to \in {"access", "insert", "children", "update"} :
           /\ Read(r, from, to)
           /\ from = "parent" => req[r].parent \in Live /\ req[r].parent # req[r].p
    BY <1>2 DEF CheckParent, CheckAccess, CheckChildren
  <2>3. Fits(to, req[r], Len(project), Len(season))
    <3>1. at[r] = from
      BY <2>2 DEF Read, Goto
    <3>2. req[r].parent <= Len(project) /\ (req[r].parent # 0 => req[r].parent # req[r].p)
      <4>1. CASE from = "parent"
        BY <2>1, <2>2, <4>1 DEF Typed, TypeOK
      <4>2. CASE from # "parent"
        BY <1>1, <3>1, <4>2
      <4>3. QED  BY <4>1, <4>2
    <3>3. QED  BY <3>2
  <2>4. to \in Label /\ rough \subseteq Request
    BY DEF Label, Typed, TypeOK
  <2>5. QED  BY <1>1, <2>2, <2>3, <2>4, ReadStep DEF Read
<1>3. CASE InsertProject(r)
  <2> DEFINE row == [owner |-> req[r].user, parent |-> req[r].parent, live |-> TRUE]
  <2>1. row \in Project /\ row.parent = req[r].parent /\ OwnedBy(req[r].user) \in [User -> Role]
    BY <1>1 DEF Project, Local, OwnedBy, Role
  <2>2. /\ project \in Seq(Project) /\ role \in Seq([User -> Role]) /\ Len(role) = Len(project)
        /\ project' = Append(project, row) /\ role' = Append(role, OwnedBy(req[r].user))
        /\ Len(project) < MaxProjects /\ at[r] = "insert" /\ UNCHANGED <<season, late, rough>>
    BY <1>3 DEF Typed, TypeOK, InsertProject, Finish, Goto
  <2> HIDE DEF row
  <2>3. /\ project' \in Seq(Project) /\ Len(project') = Len(project) + 1
        /\ role' \in Seq([User -> Role]) /\ Len(role') = Len(role) + 1
        /\ \A p \in 1..Len(project) : project'[p] = project[p]
        /\ project'[Len(project) + 1] = row
    BY <2>1, <2>2, AppendProperties
  <2>4. \A p \in DOMAIN project' : project'[p].parent # p /\ project'[p].parent <= Len(project')
    <3>1. req[r].parent \in Nat /\ req[r].parent <= Len(project) /\ Len(project) \in Nat
      BY <1>1, <2>2, NatFields DEF Typed, TypeOK
    <3>2. ASSUME NEW p \in 1..Len(project)
          PROVE  project[p].parent # p /\ project[p].parent <= Len(project)
                 /\ project[p].parent \in Nat
      <4>1. project[p] \in Project /\ p \in DOMAIN project
        BY <2>2
      <4>2. QED  BY <4>1, NatFields DEF Typed, TypeOK
    <3>3. DOMAIN project' = 1..(Len(project) + 1)
      BY <2>3
    <3>4. QED  BY <2>1, <2>3, <3>1, <3>2, <3>3
  <2>5. /\ at' \in [Request -> Label] /\ req' \in [Request -> Local] /\ Fitting'
    <3>1. Len(project') \in Nat /\ Len(season') \in Nat /\ Len(project) <= Len(project')
          /\ Len(season) <= Len(season')
      BY <2>2, <2>3 DEF Typed, TypeOK
    <3>2. Goto(r, "insert", "done", NoLocal) /\ "done" \in Label
      BY <1>3 DEF InsertProject, Finish, Label
    <3>3. QED  BY <3>1, <3>2, NoLocalType, ControlStep
  <2>6. QED
    BY <2>2, <2>3, <2>4, <2>5, Bounds DEF Typed, TypeOK
<1>4. CASE UpdateProject(r) \/ SoftDelete(r)
  <2>1. PICK row \in Project :
           /\ req[r].p \in 1..Len(project)
           /\ project' = [project EXCEPT ![req[r].p] = row]
           /\ row.parent # req[r].p /\ row.parent <= Len(project)
    <3>1. CASE UpdateProject(r)
      <4> DEFINE row == [project[req[r].p] EXCEPT !.parent = req[r].parent]
      <4>1. req[r].p \in 1..Len(project) /\ project[req[r].p] \in Project
        BY <3>1 DEF UpdateProject, Live, Typed, TypeOK
      <4>2. row \in Project /\ row.parent = req[r].parent
        BY <1>1, <4>1 DEF Project, Local
      <4>3. req[r].parent # req[r].p /\ req[r].parent <= Len(project)
        BY <1>1, <3>1, <4>1 DEF UpdateProject, Finish, Goto
      <4>4. project' = [project EXCEPT ![req[r].p] = row]
        BY <3>1 DEF UpdateProject
      <4>5. QED  BY <4>1, <4>2, <4>3, <4>4
    <3>2. CASE SoftDelete(r)
      <4> DEFINE row == [project[req[r].p] EXCEPT !.live = FALSE]
      <4>1. req[r].p \in 1..Len(project) /\ project[req[r].p] \in Project
            /\ project[req[r].p].parent # req[r].p /\ project[req[r].p].parent <= Len(project)
        BY <3>2 DEF SoftDelete, Live, Typed, TypeOK
      <4>2. row \in Project /\ row.parent = project[req[r].p].parent
        BY <4>1 DEF Project
      <4>3. project' = [project EXCEPT ![req[r].p] = row]
        BY <3>2 DEF SoftDelete
      <4>4. QED  BY <4>1, <4>2, <4>3
    <3>3. QED  BY <1>4, <3>1, <3>2
  <2>2. /\ project \in Seq(Project) /\ UNCHANGED <<role, season, late, rough>>
    BY <1>4 DEF Typed, TypeOK, UpdateProject, SoftDelete
  <2>3. /\ project' \in Seq(Project) /\ Len(project') = Len(project)
        /\ \A q \in 1..Len(project) : project'[q] = IF q = req[r].p THEN row ELSE project[q]
    BY <2>1, <2>2, ExceptSeq
  <2>4. \A p \in DOMAIN project' : project'[p].parent # p /\ project'[p].parent <= Len(project')
    BY <2>1, <2>2, <2>3 DEF Typed, TypeOK
  <2>5. /\ at' \in [Request -> Label] /\ req' \in [Request -> Local] /\ Fitting'
    <3>1. Len(project') \in Nat /\ Len(season') \in Nat /\ Len(project) <= Len(project')
          /\ Len(season) <= Len(season')
      BY <2>2, <2>3 DEF Typed, TypeOK
    <3>2. \E from : Goto(r, from, "done", NoLocal)
      BY <1>4 DEF UpdateProject, SoftDelete, Finish
    <3>3. "done" \in Label
      BY DEF Label
    <3>4. QED  BY <3>1, <3>2, <3>3, NoLocalType, ControlStep
  <2>6. QED
    BY <2>2, <2>3, <2>4, <2>5 DEF Typed, TypeOK
<1>5. QED  BY <1>2, <1>3, <1>4 DEF Tree

LEMMA MembersTyped ==
    ASSUME Typed, NEW r \in Request, Members(r)
    PROVE  /\ Typed' /\ UNCHANGED <<project, season>>
           /\ \E m \in {"none", "member"} :
                 /\ req[r].p \in 1..Len(role) /\ role[req[r].p][req[r].user] # "owner"
                 /\ role' = [role EXCEPT ![req[r].p][req[r].user] = m]
<1> DEFINE p == req[r].p
           u == req[r].user
<1>1. PICK new \in {"none", "member"} :
         /\ Finish(r, "member") /\ role[p][u] # "owner"
         /\ role' = [role EXCEPT ![p][u] = new]
         /\ UNCHANGED <<project, season, late, rough>>
  BY DEF Members, Add, UpdateRole, Remove, Member, Holds
<1>2. p \in 1..Len(role) /\ u \in User /\ Len(role) \in Nat
  <2>1. Fits("member", req[r], Len(project), Len(season)) /\ req[r] \in Local
    BY <1>1 DEF Typed, TypeOK, Fitting, Finish, Goto
  <2>2. QED  BY <2>1, NatFields DEF Fits, Typed, TypeOK
<1>3. role' = [role EXCEPT ![p] = [role[p] EXCEPT ![u] = new]]
  BY <1>1
<1>4. [role[p] EXCEPT ![u] = new] \in [User -> Role]
  BY <1>2 DEF Typed, TypeOK, Role
<1>5. role' \in Seq([User -> Role]) /\ Len(role') = Len(role)
  BY <1>2, <1>3, <1>4, ExceptSeq DEF Typed, TypeOK
<1>6. at' \in [Request -> Label] /\ req' \in [Request -> Local] /\ Fitting'
  <2>1. Len(project) \in Nat /\ Len(season) \in Nat
    BY DEF Typed, TypeOK
  <2>2. Goto(r, "member", "done", NoLocal)
    BY <1>1 DEF Finish
  <2>3. QED  BY <1>1, <2>1, <2>2, DoneStep
<1>7. Typed'
  BY <1>1, <1>5, <1>6 DEF Typed, TypeOK
<1>8. QED  BY <1>1, <1>2, <1>7

(* Besides: seasons belong to projects that are there, each project's are  *)
(* numbered from 1 on, and the number a request computed was the next one  *)
(* then, so it is at most the next one now.                                *)
Numbered ==
    /\ \A s \in DOMAIN season : season[s].project \in DOMAIN project
    /\ SeasonsDense
    /\ \A r \in Request : at[r] = "season" =>
           req[r].number <= Cardinality(SeasonsOf(req[r].p)) + 1

LEMMA SeasonsFinite ==
    ASSUME Typed, NEW p
    PROVE  /\ IsFiniteSet(SeasonsOf(p)) /\ Cardinality(SeasonsOf(p)) \in Nat
<1>1. DOMAIN season = 1..Len(season) /\ Len(season) \in Nat
  BY DEF Typed, TypeOK
<1>2. IsFiniteSet(1..Len(season))
  BY <1>1, FS_Interval
<1>3. SeasonsOf(p) \in SUBSET (1..Len(season))
  BY <1>1 DEF SeasonsOf
<1>4. QED  BY <1>2, <1>3, FS_Subset, FS_CardinalityType

LEMMA MaxOfInterval == ASSUME NEW n \in Nat PROVE Max({0} \cup 1..n) = n
<1>1. n \in {0} \cup 1..n /\ \A y \in {0} \cup 1..n : n >= y
  OBVIOUS
<1>2. ASSUME NEW x \in {0} \cup 1..n, \A y \in {0} \cup 1..n : x >= y  PROVE x = n
  BY <1>1, <1>2
<1>3. QED  BY <1>1, <1>2 DEF Max

(* The number of a new season. *)
LEMMA NextNumberIs ==
    ASSUME Typed, Numbered, NEW r \in Request, NextNumber(r)
    PROVE  /\ req[r].p \in 1..Len(project)
           /\ req' = [req EXCEPT ![r].number = Cardinality(SeasonsOf(req[r].p)) + 1]
<1>1. req[r].p \in 1..Len(project) /\ DOMAIN project = 1..Len(project)
  <2>1. at[r] = "number" /\ Fits(at[r], req[r], Len(project), Len(season))
    BY DEF NextNumber, Goto, Typed, Fitting
  <2>2. QED  BY <2>1 DEF Fits, Typed, TypeOK
<1>2. Numbers(req[r].p) = 1..Cardinality(SeasonsOf(req[r].p))
  BY <1>1 DEF Numbered, SeasonsDense
<1>3. Max({0} \cup Numbers(req[r].p)) = Cardinality(SeasonsOf(req[r].p))
  BY <1>2, SeasonsFinite, MaxOfInterval
<1>4. QED  BY <1>1, <1>3 DEF NextNumber, Goto

LEMMA SeasonsTyped ==
    ASSUME Typed, Numbered, NEW r \in Request, Seasons(r)
    PROVE  Typed'
<1>1. /\ req[r] \in Local /\ at[r] \in Label /\ Fits(at[r], req[r], Len(project), Len(season))
      /\ Len(project) \in Nat /\ Len(season) \in Nat /\ season \in Seq(Season)
      /\ Len(project) <= MaxProjects
  <2>1. Fits(at[r], req[r], Len(project), Len(season))
    BY DEF Typed, Fitting
  <2>2. QED  BY <2>1 DEF Typed, TypeOK
<1>2. CASE NextNumber(r)
  <2> DEFINE n == Cardinality(SeasonsOf(req[r].p)) + 1
             l == [req[r] EXCEPT !.number = n]
  <2>1. n \in Nat /\ n # 0 /\ req[r].p \in 1..Len(project)
    BY <1>2, SeasonsFinite, NextNumberIs
  <2>2. l \in Local /\ l.p = req[r].p /\ l.number = n
    <3> HIDE DEF n
    <3>1. QED  BY <1>1, <2>1 DEF Local
  <2>3. Goto(r, "number", "season", l)
    BY <1>2, NextNumberIs DEF NextNumber, Goto
  <2> HIDE DEF n, l
  <2>4. Fits("season", l, Len(project), Len(season)) /\ "season" \in Label
    BY <2>1, <2>2 DEF Fits, Label
  <2>5. UNCHANGED <<project, role, season, late>> /\ rough' \subseteq Request
    BY <1>2 DEF NextNumber, Typed, TypeOK
  <2>6. QED  BY <2>2, <2>3, <2>4, <2>5, ReadStep
<1>3. CASE InsertSeason(r)
  <2> DEFINE row == [project |-> req[r].p, number |-> req[r].number,
                     status |-> "planned", doc |-> None]
  <2>1. /\ Len(season) < MaxSeasons /\ season' = Append(season, row)
        /\ Goto(r, "season", "done", NoLocal)
        /\ UNCHANGED <<project, role, late, rough>>
    BY <1>3 DEF InsertSeason, AddSeason, Finish
  <2>2. req[r].p \in 1..MaxProjects /\ req[r].number \in Nat \ {0}
    BY <1>1, <2>1, NatFields, Bounds DEF Fits, Goto
  <2>3. row \in Season
    BY <2>2 DEF Season, Status
  <2> HIDE DEF row
  <2>4. season' \in Seq(Season) /\ Len(season') = Len(season) + 1
    BY <1>1, <2>1, <2>3, AppendProperties
  <2>5. at' \in [Request -> Label] /\ req' \in [Request -> Local] /\ Fitting'
    BY <1>1, <2>1, <2>4, DoneStep
  <2>6. QED  BY <1>1, <2>1, <2>4, <2>5, Bounds DEF Typed, TypeOK
<1>4. CASE Activate(r) \/ Close(r)
  <2>1. PICK from \in {"activate", "close"}, new \in Status, doc \in Request \cup {None} :
           /\ Goto(r, from, "done", NoLocal)
           /\ season' = [season EXCEPT ![req[r].season].status = new, ![req[r].season].doc = doc]
           /\ UNCHANGED <<project, role, late, rough>>
    BY <1>4 DEF Activate, Close, SetSeason, Status, Finish
  <2> DEFINE s == req[r].season
             row == [season[s] EXCEPT !.status = new, !.doc = doc]
  <2>2. s \in 1..Len(season)
    BY <1>1, <2>1 DEF Fits, Goto
  <2>3. row \in Season
    <3>1. season[s] \in Season
      BY <1>1, <2>2
    <3>2. QED  BY <3>1 DEF Season
  <2>4. season' = [season EXCEPT ![s] = row]
    BY <1>1, <2>1, <2>2
  <2> HIDE DEF row
  <2>5. season' \in Seq(Season) /\ Len(season') = Len(season)
    BY <1>1, <2>2, <2>3, <2>4, ExceptSeq
  <2>6. at' \in [Request -> Label] /\ req' \in [Request -> Local] /\ Fitting'
    BY <1>1, <2>1, <2>5, DoneStep
  <2>7. QED  BY <2>1, <2>5, <2>6 DEF Typed, TypeOK
<1>5. CASE MayPost(r)
  <2>1. Goto(r, "may post", "post", req[r]) /\ UNCHANGED <<project, role, season, late, rough>>
    BY <1>5 DEF MayPost, Read
  <2>2. "post" \in Label /\ Fits("post", req[r], Len(project), Len(season))
    BY <1>1, <2>1 DEF Label, Fits, Goto
  <2>3. rough' \subseteq Request
    BY <2>1 DEF Typed, TypeOK
  <2>4. QED  BY <1>1, <2>1, <2>2, <2>3, ReadStep
<1>6. CASE InsertPost(r)
  <2>1. Goto(r, "post", "done", NoLocal) /\ UNCHANGED <<project, role, season, rough>>
        /\ late' \subseteq late \cup {r}
    BY <1>6 DEF InsertPost, Finish
  <2>2. at' \in [Request -> Label] /\ req' \in [Request -> Local] /\ Fitting'
    BY <1>1, <2>1, DoneStep
  <2>3. QED  BY <2>1, <2>2 DEF Typed, TypeOK
<1>7. QED  BY <1>2, <1>3, <1>4, <1>5, <1>6 DEF Seasons

(* Where the seasons of every project stay, and nobody computes a number   *)
(* but the next one, Numbered stays.                                       *)
LEMMA NumberedFrame ==
    ASSUME Typed, Typed', Numbered, Len(project) <= Len(project'), Len(season') = Len(season),
           \A s \in DOMAIN season : /\ season'[s].project = season[s].project
                                    /\ season'[s].number = season[s].number,
           \A r \in Request : at'[r] = "season" =>
               \/ at[r] = "season" /\ req'[r] = req[r]
               \/ req'[r].number <= Cardinality(SeasonsOf(req'[r].p)) + 1
    PROVE  Numbered'
<1>1. /\ DOMAIN season' = DOMAIN season /\ DOMAIN project \subseteq DOMAIN project'
  BY DEF Typed, TypeOK
<1>2. ASSUME NEW p  PROVE SeasonsOf(p)' = SeasonsOf(p) /\ Numbers(p)' = Numbers(p)
  BY <1>1 DEF SeasonsOf, Numbers
<1>3. \A s \in DOMAIN season' : season'[s].project \in DOMAIN project'
  BY <1>1 DEF Numbered
<1>4. SeasonsDense'
  <2> SUFFICES ASSUME NEW p \in DOMAIN project'
               PROVE  Numbers(p)' = 1..Cardinality(SeasonsOf(p)')
    BY DEF SeasonsDense
  <2>1. CASE p \in DOMAIN project
    BY <1>2, <2>1 DEF Numbered, SeasonsDense
  <2>2. CASE p \notin DOMAIN project
    <3>1. SeasonsOf(p) = {} /\ Numbers(p) = {}
      BY <2>2 DEF Numbered, SeasonsOf, Numbers
    <3>2. 1..0 = {}
      OBVIOUS
    <3>3. QED  BY <1>2, <3>1, <3>2, FS_EmptySet
  <2>3. QED  BY <2>1, <2>2
<1>5. ASSUME NEW r \in Request, at'[r] = "season"
      PROVE  req'[r].number <= Cardinality(SeasonsOf(req[r].p)') + 1
  <2>1. req'[r].number <= Cardinality(SeasonsOf(req'[r].p)) + 1
    BY <1>5 DEF Numbered
  <2>2. SeasonsOf(req[r].p)' = SeasonsOf(req'[r].p)
    BY <1>1 DEF SeasonsOf
  <2>3. QED  BY <2>1, <2>2
<1>6. QED  BY <1>3, <1>4, <1>5 DEF Numbered

(* The new season gets the next number: the unique index refuses others.   *)
LEMMA InsertKeepsNumbered ==
    ASSUME Typed, Typed', Numbered, NEW r \in Request, InsertSeason(r)
    PROVE  Numbered'
<1> DEFINE q == req[r].p
           n == Cardinality(SeasonsOf(q))
           k == Len(season) + 1
<1>1. /\ at[r] = "season" /\ at' = [at EXCEPT ![r] = "done"] /\ UNCHANGED project
      /\ req' = [req EXCEPT ![r] = NoLocal]
      /\ req[r].number \notin Numbers(q)
      /\ season' = Append(season, [project |-> q, number |-> req[r].number,
                                  status |-> "planned", doc |-> None])
  BY DEF InsertSeason, AddSeason, Finish, Goto
<1>2. q \in DOMAIN project /\ req[r].number \in Nat \ {0} /\ Len(season) \in Nat
  <2>1. req[r] \in Local /\ Fits("season", req[r], Len(project), Len(season))
    BY <1>1 DEF Typed, TypeOK, Fitting
  <2>2. QED  BY <2>1, NatFields DEF Fits, Typed, TypeOK
<1>3. req[r].number = n + 1 /\ n \in Nat /\ Numbers(q) = 1..n
  <2>1. n \in Nat
    BY SeasonsFinite
  <2>2. Numbers(q) = 1..n /\ req[r].number <= n + 1
    BY <1>1, <1>2 DEF Numbered, SeasonsDense
  <2>3. QED  BY <1>1, <1>2, <2>1, <2>2
<1>4. /\ DOMAIN season' = DOMAIN season \cup {k} /\ k \notin DOMAIN season
      /\ \A s \in DOMAIN season : season'[s] = season[s]
      /\ season'[k].project = q /\ season'[k].number = n + 1
  BY <1>1, <1>2, <1>3 DEF Typed, TypeOK
<1> HIDE DEF q, n, k
<1>5. ASSUME NEW p
      PROVE  /\ SeasonsOf(p)' = IF p = q THEN SeasonsOf(p) \cup {k} ELSE SeasonsOf(p)
             /\ Numbers(p)' = IF p = q THEN Numbers(p) \cup {n + 1} ELSE Numbers(p)
  <2>1. SeasonsOf(p)' = IF p = q THEN SeasonsOf(p) \cup {k} ELSE SeasonsOf(p)
    BY <1>4 DEF SeasonsOf
  <2>2. \A s \in SeasonsOf(p) : season'[s].number = season[s].number
    BY <1>4 DEF SeasonsOf
  <2>3. QED  BY <1>4, <2>1, <2>2 DEF Numbers
<1>6. Cardinality(SeasonsOf(q) \cup {k}) = n + 1
  <2>1. k \notin SeasonsOf(q)
    BY <1>4 DEF SeasonsOf
  <2>2. QED  BY <2>1, SeasonsFinite, FS_AddElement DEF n
<1>7. SeasonsDense'
  <2> SUFFICES ASSUME NEW p \in DOMAIN project
               PROVE  Numbers(p)' = 1..Cardinality(SeasonsOf(p)')
    BY <1>1 DEF SeasonsDense
  <2>1. CASE p = q
    <3>1. (1..n) \cup {n + 1} = 1..(n + 1)
      BY <1>3
    <3>2. QED  BY <1>3, <1>5, <1>6, <2>1, <3>1
  <2>2. CASE p # q
    BY <1>5, <2>2 DEF Numbered, SeasonsDense
  <2>3. QED  BY <2>1, <2>2
<1>8. \A s \in DOMAIN season' : season'[s].project \in DOMAIN project'
  BY <1>1, <1>2, <1>4 DEF Numbered, q
<1>9. ASSUME NEW s \in Request, at'[s] = "season"
      PROVE  req'[s].number <= Cardinality(SeasonsOf(req[s].p)') + 1
  <2>1. s # r /\ at[s] = "season" /\ req'[s] = req[s] /\ req[s].number \in Nat
    BY <1>1, <1>9, NatFields DEF Typed, TypeOK
  <2>2. req[s].number <= Cardinality(SeasonsOf(req[s].p)) + 1
    BY <2>1 DEF Numbered
  <2>3. \/ SeasonsOf(req[s].p)' = SeasonsOf(req[s].p)
        \/ req[s].p = q /\ SeasonsOf(req[s].p)' = SeasonsOf(q) \cup {k}
    BY <1>4, <2>1 DEF SeasonsOf
  <2>4. CASE SeasonsOf(req[s].p)' = SeasonsOf(req[s].p)
    BY <2>1, <2>2, <2>4
  <2>5. CASE req[s].p = q /\ SeasonsOf(req[s].p)' = SeasonsOf(q) \cup {k}
    <3>1. req[s].number <= n + 1 /\ Cardinality(SeasonsOf(req[s].p)') = n + 1
      BY <1>6, <2>2, <2>5 DEF n
    <3>2. QED  BY <1>3, <2>1, <3>1
  <2>6. QED  BY <2>3, <2>4, <2>5
<1>10. QED  BY <1>7, <1>8, <1>9 DEF Numbered

(* What a step does to the tables and to the requests' labels.             *)
LEMMA StepTyped ==
    ASSUME Typed, Numbered, [Next]_vars
    PROVE  Typed'
<1>1. CASE UNCHANGED vars
  BY <1>1 DEF vars, Typed, TypeOK, Fitting
<1>2. ASSUME NEW r \in Request, Arrive(r)  PROVE Typed'
  BY <1>2, ArriveTyped
<1>3. ASSUME NEW r \in Request, Serve(r)  PROVE Typed'
  <2>1. CASE Stop(r)
    <3>1. /\ Goto(r, at[r], "done", req[r]) /\ UNCHANGED <<project, role, season, late, rough>>
      BY <2>1 DEF Stop, Read
    <3>2. "done" \in Label /\ req[r] \in Local /\ rough' \subseteq Request
      BY <3>1 DEF Label, Typed, TypeOK
    <3>3. QED  BY <3>1, <3>2, ReadStep
  <2>2. QED  BY <1>3, <2>1, TreeTyped, MembersTyped, SeasonsTyped DEF Serve
<1>4. QED  BY <1>1, <1>2, <1>3 DEF Next

(* Steps of the tree, of members and of control leave the seasons alone.   *)
LEMMA OtherSteps ==
    ASSUME Typed, NEW r \in Request, Arrive(r) \/ Tree(r) \/ Members(r) \/ Stop(r)
    PROVE  /\ UNCHANGED season /\ Len(project) <= Len(project')
           /\ \A s \in Request : at'[s] = "season" => at[s] = "season" /\ req'[s] = req[s]
<1>1. UNCHANGED season
  BY DEF Arrive, CreateInSpace, StartCreate, Patch, StartEdit, StartDelete, StartSeason,
           StartMember, StartPost,
         StartChange, Start, Tree, CheckParent, CheckAccess, CheckChildren, InsertProject,
         UpdateProject, SoftDelete, Members, Add, UpdateRole, Remove, Member, Stop, Read
<1>2. Len(project) <= Len(project')
  <2>1. project \in Seq(Project) /\ Len(project) \in Nat
    BY DEF Typed, TypeOK
  <2>2. CASE UNCHANGED project
    BY <2>1, <2>2
  <2>3. CASE InsertProject(r)
    BY <2>1, <2>3 DEF InsertProject
  <2>4. CASE UpdateProject(r) \/ SoftDelete(r)
    <3>1. PICK row : project' = [project EXCEPT ![req[r].p] = row]
      BY <2>4 DEF UpdateProject, SoftDelete
    <3>2. DOMAIN project' = 1..Len(project)
      BY <2>1, <3>1
    <3>3. QED  BY <2>1, <3>1, <3>2
  <2>5. QED
    BY <2>2, <2>3, <2>4
       DEF Arrive, CreateInSpace, StartCreate, Patch, StartEdit, StartDelete, StartSeason,
           StartMember, StartPost,
           StartChange, Start, Tree, CheckParent, CheckAccess, CheckChildren, Members, Add,
           UpdateRole, Remove, Member, Stop, Read
<1>3. at' = [at EXCEPT ![r] = at'[r]] /\ at'[r] # "season"
      /\ \A s \in Request : s # r => req'[s] = req[s]
  <2>1. ASSUME NEW from, NEW to, NEW l, Goto(r, from, to, l), to # "season"
        PROVE  /\ at' = [at EXCEPT ![r] = at'[r]] /\ at'[r] # "season"
               /\ \A s \in Request : s # r => req'[s] = req[s]
    BY <2>1 DEF Goto, Typed, TypeOK
  <2>2. CASE Arrive(r)
    <3>1. PICK first, l : Start(r, first, l) /\ first # "season"
      <4>1. ASSUME NEW u \in User, NEW q \in 0..MaxProjects, StartCreate(r, u, q)
            PROVE  \E first, l : Start(r, first, l) /\ first # "season"
        <5> DEFINE first == IF q = 0 THEN "insert" ELSE "parent"
        <5>1. first # "season"
          OBVIOUS
        <5> HIDE DEF first
        <5>2. \E l : Start(r, first, l)
          BY <4>1 DEF StartCreate, first
        <5>3. QED  BY <5>1, <5>2
      <4>2. ASSUME NEW p \in Live, NEW q \in 0..MaxProjects, StartEdit(r, p, q)
            PROVE  \E first, l : Start(r, first, l) /\ first # "season"
        <5> DEFINE first == IF q = 0 THEN "update" ELSE "parent"
        <5>1. first # "season"
          OBVIOUS
        <5> HIDE DEF first
        <5>2. \E l : Start(r, first, l)
          BY <4>2 DEF StartEdit, first
        <5>3. QED  BY <5>1, <5>2
      <4>3. ASSUME NEW p \in Live,
                   \/ StartDelete(r, p) \/ StartSeason(r, p)
                   \/ \E op \in {"add", "set", "remove"}, u \in User : StartMember(r, op, p, u)
            PROVE  \E first, l : Start(r, first, l) /\ first # "season"
        <5>1. PICK first \in {"delete", "number", "member"} : \E l : Start(r, first, l)
          BY <4>3 DEF StartDelete, StartSeason, StartMember
        <5>2. QED  BY <5>1
      <4>4. ASSUME NEW s \in DOMAIN season,
                   StartPost(r, s) \/ \E to \in {"activate", "close"} : StartChange(r, to, s)
            PROVE  \E first, l : Start(r, first, l) /\ first # "season"
        <5>1. PICK first \in {"may post", "activate", "close"} : \E l : Start(r, first, l)
          BY <4>4 DEF StartPost, StartChange
        <5>2. QED  BY <5>1
      <4>5. 0 \in 0..MaxProjects
        BY ProjectsAssumption
      <4>6. QED  BY <2>2, <4>1, <4>2, <4>3, <4>4, <4>5, WithoutParent DEF Arrive
    <3>2. QED  BY <2>1, <3>1 DEF Start
  <2>3. CASE Tree(r)
    <3>1. PICK to \in {"access", "insert", "children", "update", "done"} :
             \E from, l : Goto(r, from, to, l)
      <4>1. CASE CheckAccess(r)
        <5> DEFINE to == IF req[r].p = 0 THEN "insert" ELSE "children"
        <5>1. to \in {"insert", "children"}
          OBVIOUS
        <5>2. Goto(r, "access", to, req[r])
          BY <4>1 DEF CheckAccess, Read
        <5>3. QED  BY <5>1, <5>2
      <4>2. CASE CheckParent(r) \/ CheckChildren(r)
        BY <4>2 DEF CheckParent, CheckChildren, Read
      <4>3. CASE InsertProject(r) \/ UpdateProject(r) \/ SoftDelete(r)
        BY <4>3 DEF InsertProject, UpdateProject, SoftDelete, Finish
      <4>4. QED  BY <2>3, <4>1, <4>2, <4>3 DEF Tree
    <3>2. QED  BY <2>1, <3>1
  <2>4. CASE Members(r) \/ Stop(r)
    <3>1. \E from, l : Goto(r, from, "done", l)
      BY <2>4 DEF Members, Add, UpdateRole, Remove, Member, Stop, Read, Finish
    <3>2. QED  BY <2>1, <3>1
  <2>5. QED  BY <2>2, <2>3, <2>4
<1>4. \A s \in Request : at'[s] = "season" => at[s] = "season" /\ req'[s] = req[s]
  BY <1>3 DEF Typed, TypeOK
<1>5. QED  BY <1>1, <1>2, <1>4

LEMMA NumberedStep ==
    ASSUME Typed, Numbered, [Next]_vars
    PROVE  Typed' /\ Numbered'
<1>1. Typed'
  BY StepTyped
<1>2. CASE UNCHANGED vars
  BY <1>1, <1>2, NumberedFrame DEF vars, Typed, TypeOK
<1>3. ASSUME NEW r \in Request, Arrive(r) \/ Tree(r) \/ Members(r) \/ Stop(r)
      PROVE  Numbered'
  BY <1>1, <1>3, OtherSteps, NumberedFrame
<1>4. ASSUME NEW r \in Request, Seasons(r)
      PROVE  Numbered'
  <2>1. Len(project) \in Nat /\ season \in Seq(Season) /\ at \in [Request -> Label]
        /\ req \in [Request -> Local]
    BY DEF Typed, TypeOK
  <2>2. CASE NextNumber(r)
    <3>1. /\ UNCHANGED <<project, season>> /\ at' = [at EXCEPT ![r] = "season"]
          /\ req' = [req EXCEPT ![r].number = Cardinality(SeasonsOf(req[r].p)) + 1]
      BY <2>2, NextNumberIs DEF NextNumber, Goto
    <3> DEFINE n == Cardinality(SeasonsOf(req[r].p)) + 1
    <3>2. n \in Nat
      BY SeasonsFinite
    <3>3. ASSUME NEW s \in Request, at'[s] = "season"
          PROVE  \/ at[s] = "season" /\ req'[s] = req[s]
                 \/ req'[s].number <= Cardinality(SeasonsOf(req'[s].p)) + 1
      <4>1. CASE s = r
        <5>1. req'[s].p = req[r].p /\ req'[s].number = n
          <6> HIDE DEF n
          <6>1. req' = [req EXCEPT ![r].number = n] /\ req[r] \in Local
            BY <2>1, <3>1 DEF n
          <6>2. QED  BY <2>1, <4>1, <6>1 DEF Local
        <5>2. QED  BY <3>2, <5>1
      <4>2. CASE s # r
        BY <2>1, <3>1, <3>3, <4>2
      <4>3. QED  BY <4>1, <4>2
    <3>4. QED  BY <1>1, <2>1, <3>1, <3>3, NumberedFrame
  <2>3. CASE InsertSeason(r)
    BY <1>1, <2>3, InsertKeepsNumbered
  <2>4. CASE Activate(r) \/ Close(r) \/ MayPost(r) \/ InsertPost(r)
    <3>1. /\ UNCHANGED project /\ Len(season') = Len(season)
          /\ \A s \in DOMAIN season : /\ season'[s].project = season[s].project
                                      /\ season'[s].number = season[s].number
      <4>1. CASE Activate(r) \/ Close(r)
        <5>1. PICK new, doc :
                 /\ UNCHANGED project
                 /\ season' = [season EXCEPT ![req[r].season].status = new,
                                             ![req[r].season].doc = doc]
          BY <4>1 DEF Activate, Close, SetSeason
        <5>2. \A s \in DOMAIN season : season[s] \in Season
          BY <2>1
        <5>3. DOMAIN season' = DOMAIN season /\ Len(season') = Len(season)
          BY <1>1, <2>1, <5>1 DEF Typed, TypeOK
        <5>4. ASSUME NEW s \in DOMAIN season
              PROVE  /\ season'[s].project = season[s].project
                     /\ season'[s].number = season[s].number
          BY <5>1, <5>2, <5>4 DEF Season
        <5>5. QED  BY <5>1, <5>3, <5>4
      <4>2. CASE MayPost(r) \/ InsertPost(r)
        BY <4>2 DEF MayPost, InsertPost, Read
      <4>3. QED  BY <2>4, <4>1, <4>2
    <3>2. PICK to \in {"post", "done"} : \E from, l : Goto(r, from, to, l)
      BY <2>4 DEF Activate, Close, SetSeason, MayPost, InsertPost, Read, Finish
    <3>3. \A s \in Request : at'[s] = "season" => at[s] = "season" /\ req'[s] = req[s]
      BY <2>1, <3>2 DEF Goto
    <3>4. QED  BY <1>1, <2>1, <3>1, <3>3, NumberedFrame
  <2>5. QED  BY <1>4, <2>2, <2>3, <2>4 DEF Seasons
<1>5. QED  BY <1>1, <1>2, <1>3, <1>4 DEF Next, Serve

LEMMA InitTyped ==
    ASSUME Init
    PROVE  Typed /\ Numbered
<1>1. /\ project = FirstProjects /\ season = FirstSeasons
      /\ role = [p \in DOMAIN FirstProjects |-> OwnedBy(FirstProjects[p].owner)]
      /\ at = [r \in Request |-> "idle"] /\ req = [r \in Request |-> NoLocal]
      /\ late = {} /\ rough = {}
  BY DEF Init
<1>2. /\ FirstProjects \in Seq(Project) /\ Len(FirstProjects) <= MaxProjects
      /\ FirstSeasons \in Seq(Season) /\ Len(FirstSeasons) <= MaxSeasons
  BY ProjectsAssumption
<1>3. \A p \in DOMAIN project : project[p].parent # p /\ project[p].parent <= Len(project)
  <2> SUFFICES ASSUME NEW p \in DOMAIN FirstProjects
               PROVE  /\ FirstProjects[p].parent # p
                      /\ FirstProjects[p].parent <= Len(FirstProjects)
    BY <1>1
  <2>1. DOMAIN FirstProjects = 1..Len(FirstProjects) /\ Len(FirstProjects) \in Nat
    BY <1>2
  <2>2. CASE FirstProjects[p].parent = 0
    BY <2>1, <2>2
  <2>3. CASE FirstProjects[p].parent # 0
    <3>1. /\ FirstProjects[p].parent \in DOMAIN FirstProjects
          /\ FirstProjects[FirstProjects[p].parent].parent = 0
      BY <2>3, ProjectsAssumption
    <3>2. QED  BY <2>1, <2>3, <3>1
  <2>4. QED  BY <2>2, <2>3
<1>4. role \in Seq([User -> Role]) /\ Len(role) = Len(project)
  <2>1. \A o \in User : OwnedBy(o) \in [User -> Role]
    BY DEF OwnedBy, Role
  <2>2. \A p \in 1..Len(FirstProjects) : FirstProjects[p].owner \in User
    <3>1. \A row \in Project : row.owner \in User
      BY DEF Project
    <3>2. QED  BY <1>2, <3>1
  <2>3. role \in [1..Len(FirstProjects) -> [User -> Role]] /\ Len(FirstProjects) \in Nat
    BY <1>1, <1>2, <2>1, <2>2
  <2>4. QED  BY <1>1, <2>3
<1>5. TypeOK
  BY <1>1, <1>2, <1>3, <1>4, NoLocalType DEF TypeOK, Label
<1>6. Fitting
  BY <1>1 DEF Fitting, Fits
<1>7. Numbered
  <2>1. \A p : SeasonsOf(p) = FirstSeasonsOf(p)
    BY <1>1 DEF SeasonsOf, FirstSeasonsOf
  <2>2. SeasonsDense
    BY <1>1, <2>1, ProjectsAssumption DEF SeasonsDense, Numbers
  <2>3. \A s \in DOMAIN season : season[s].project \in DOMAIN project
    BY <1>1, ProjectsAssumption
  <2>4. \A r \in Request : at[r] # "season"
    BY <1>1
  <2>5. QED  BY <2>2, <2>3, <2>4 DEF Numbered
<1>8. QED  BY <1>5, <1>6, <1>7 DEF Typed

LEMMA Inductive == Spec => [](Typed /\ Numbered)
  BY InitTyped, NumberedStep, PTL DEF Spec

(* Rows, roles, requests and their local variables keep their types, every *)
(* row's parent is a project that is there and none is its own parent,     *)
(* which ValidateParent checks before the write (project_hierarchy.go).    *)
THEOREM TypeCorrect == Spec => []TypeOK
<1>1. Typed /\ Numbered => TypeOK
  BY DEF Typed
<1>2. QED  BY <1>1, Inductive, PTL

(* However many requests compute MAX()+1 at the same time, every project's *)
(* seasons are numbered 1, 2, 3 ... without a gap or a duplicate           *)
(* (SeasonStore.Create and the unique index, model/season.go).             *)
THEOREM SeasonsStayDense == Spec => []SeasonsDense
<1>1. Typed /\ Numbered => SeasonsDense
  BY DEF Numbered
<1>2. QED  BY <1>1, Inductive, PTL

-----------------------------------------------------------------------------
(* Which statements write which table. *)
LEMMA Writers ==
    ASSUME NEW r \in Request, Arrive(r) \/ Serve(r)
    PROVE  /\ UNCHANGED project \/ InsertProject(r) \/ UpdateProject(r) \/ SoftDelete(r)
           /\ UNCHANGED role \/ InsertProject(r) \/ Members(r)
           /\ UNCHANGED season \/ InsertSeason(r) \/ Activate(r) \/ Close(r)
           /\ UNCHANGED late \/ InsertPost(r)
<1>1. CASE Arrive(r)
  BY <1>1 DEF Arrive, CreateInSpace, StartCreate, Patch, StartEdit, StartDelete, StartSeason,
           StartMember, StartPost,
              StartChange, Start
<1>2. CASE CheckParent(r) \/ CheckAccess(r) \/ CheckChildren(r) \/ Stop(r) \/ MayPost(r)
  BY <1>2 DEF CheckParent, CheckAccess, CheckChildren, Stop, MayPost, Read
<1>3. CASE InsertProject(r) \/ UpdateProject(r) \/ SoftDelete(r)
  BY <1>3 DEF InsertProject, UpdateProject, SoftDelete
<1>4. CASE Members(r)
  BY <1>4 DEF Members, Add, UpdateRole, Remove, Member
<1>5. CASE NextNumber(r) \/ InsertSeason(r) \/ Activate(r) \/ Close(r) \/ InsertPost(r)
  BY <1>5 DEF NextNumber, InsertSeason, AddSeason, Activate, Close, SetSeason, InsertPost
<1>6. QED  BY <1>1, <1>2, <1>3, <1>4, <1>5 DEF Serve, Tree, Seasons

(* What an update and a deletion leave of the rows. *)
LEMMA ProjectRow ==
    ASSUME Typed, NEW r \in Request
    PROVE  /\ UpdateProject(r) =>
                  /\ req[r].p \in Live /\ DOMAIN project' = DOMAIN project
                  /\ \A p \in DOMAIN project :
                        /\ project'[p].owner = project[p].owner
                        /\ project'[p].live = project[p].live
                        /\ project'[p].parent = IF p = req[r].p THEN req[r].parent
                                                ELSE project[p].parent
           /\ SoftDelete(r) =>
                  /\ DOMAIN project' = DOMAIN project
                  /\ \A p \in DOMAIN project :
                        /\ project'[p].owner = project[p].owner
                        /\ project'[p].parent = project[p].parent
                        /\ project'[p].live => project[p].live
<1>1. project \in Seq(Project) /\ \A p \in DOMAIN project : project[p] \in Project
  BY DEF Typed, TypeOK
<1>2. ASSUME UpdateProject(r)
      PROVE  /\ req[r].p \in Live /\ req[r].p \in DOMAIN project
             /\ project' = [project EXCEPT ![req[r].p].parent = req[r].parent]
  BY <1>2 DEF UpdateProject, Live
<1>3. ASSUME SoftDelete(r)
      PROVE  /\ req[r].p \in DOMAIN project
             /\ project' = [project EXCEPT ![req[r].p].live = FALSE]
  BY <1>3 DEF SoftDelete, Live
<1>4. ASSUME UpdateProject(r), NEW p \in DOMAIN project
      PROVE  /\ project'[p].owner = project[p].owner
             /\ project'[p].live = project[p].live
             /\ project'[p].parent = IF p = req[r].p THEN req[r].parent ELSE project[p].parent
  <2>1. project'[p] = IF p = req[r].p THEN [project[p] EXCEPT !.parent = req[r].parent]
                      ELSE project[p]
    BY <1>1, <1>2, <1>4
  <2>2. project[p] \in Project
    BY <1>1, <1>4
  <2>3. QED  BY <2>1, <2>2 DEF Project
<1>5. ASSUME SoftDelete(r), NEW p \in DOMAIN project
      PROVE  /\ project'[p].owner = project[p].owner
             /\ project'[p].parent = project[p].parent
             /\ project'[p].live => project[p].live
  <2>1. project'[p] = IF p = req[r].p THEN [project[p] EXCEPT !.live = FALSE] ELSE project[p]
    BY <1>1, <1>3, <1>5
  <2>2. project[p] \in Project
    BY <1>1, <1>5
  <2>3. QED  BY <2>1, <2>2 DEF Project
<1>6. UpdateProject(r) \/ SoftDelete(r) => DOMAIN project' = DOMAIN project
  BY <1>1, <1>2, <1>3
<1>7. QED  BY <1>2, <1>4, <1>5, <1>6

LEMMA OwnersStep ==
    ASSUME Typed, OwnersAgree, [Next]_vars
    PROVE  OwnersAgree'
<1>1. project \in Seq(Project) /\ role \in Seq([User -> Role]) /\ Len(role) = Len(project)
      /\ DOMAIN role = DOMAIN project /\ req \in [Request -> Local]
  BY DEF Typed, TypeOK
<1>2. CASE UNCHANGED <<project, role>>
  BY <1>2 DEF OwnersAgree
<1>3. ASSUME NEW r \in Request, Members(r)  PROVE OwnersAgree'
  <2>1. PICK m \in {"none", "member"} :
           /\ req[r].p \in 1..Len(role) /\ role[req[r].p][req[r].user] # "owner"
           /\ role' = [role EXCEPT ![req[r].p][req[r].user] = m]
    BY <1>3, MembersTyped
  <2>2. UNCHANGED project
    BY <1>3, MembersTyped
  <2>3. ASSUME NEW p \in DOMAIN project, NEW u \in User
        PROVE  role'[p][u] = "owner" <=> role[p][u] = "owner"
    <3>1. role[p] \in [User -> Role]
      BY <1>1
    <3>2. QED  BY <1>1, <2>1, <3>1
  <2>4. QED  BY <2>2, <2>3 DEF OwnersAgree
<1>4. ASSUME NEW r \in Request, InsertProject(r)  PROVE OwnersAgree'
  <2> DEFINE o == req[r].user
             k == Len(project) + 1
  <2>1. /\ o \in User
        /\ DOMAIN project' = DOMAIN project \cup {k}
        /\ \A p \in DOMAIN project : project'[p] = project[p] /\ role'[p] = role[p]
        /\ project'[k].owner = o /\ role'[k] = OwnedBy(o)
    BY <1>1, <1>4, NatFields DEF InsertProject
  <2>2. {u \in User : OwnedBy(o)[u] = "owner"} = {o}
    BY <2>1 DEF OwnedBy
  <2> HIDE DEF o, k
  <2>3. QED  BY <2>1, <2>2 DEF OwnersAgree
<1>5. ASSUME NEW r \in Request, UpdateProject(r) \/ SoftDelete(r)  PROVE OwnersAgree'
  <2>1. UNCHANGED role
    BY <1>5 DEF UpdateProject, SoftDelete
  <2>2. ASSUME NEW p \in DOMAIN project  PROVE project'[p].owner = project[p].owner
    BY <1>5, ProjectRow
  <2>3. QED  BY <1>5, <2>1, <2>2, ProjectRow DEF OwnersAgree
<1>6. CASE UNCHANGED vars
  BY <1>2, <1>6 DEF vars
<1>7. QED  BY <1>2, <1>3, <1>4, <1>5, <1>6, Writers, MembersTyped DEF Next

(* Whatever members requests add, change and remove, the one owner row of  *)
(* a project is that of projects.owner_id (ProjectStore.Create and the     *)
(* role <> 'owner' clauses of project_member.go).                          *)
THEOREM OwnersAlwaysAgree == Spec => []OwnersAgree
<1>1. Init => OwnersAgree
  <2> SUFFICES ASSUME Init, NEW p \in DOMAIN FirstProjects
               PROVE  {u \in User : OwnedBy(FirstProjects[p].owner)[u] = "owner"}
                      = {FirstProjects[p].owner}
    BY DEF Init, OwnersAgree
  <2>1. FirstProjects[p] \in Project
    BY ProjectsAssumption
  <2>2. FirstProjects[p].owner \in User
    BY <2>1 DEF Project
  <2>3. QED  BY <2>2 DEF OwnedBy
<1>2. Typed /\ OwnersAgree /\ [Next]_vars => OwnersAgree'
  BY OwnersStep
<1>3. Spec => []Typed
  BY Inductive, PTL
<1>4. QED  BY <1>1, <1>2, <1>3, PTL DEF Spec

-----------------------------------------------------------------------------
(* Nothing but a closing writes the document. *)
Undocumented == \A s \in DOMAIN season : season[s].status # "closed" => season[s].doc = None

(* What the insertion of a season leaves of the rows. *)
LEMMA NewRow ==
    ASSUME Typed, NEW r \in Request, InsertSeason(r)
    PROVE  /\ DOMAIN season' = DOMAIN season \cup {Len(season) + 1}
           /\ \A s \in DOMAIN season : season'[s] = season[s]
           /\ season'[Len(season) + 1].doc = None
<1>1. season \in Seq(Season) /\ Len(season) \in Nat
  BY DEF Typed, TypeOK
<1>2. season' = Append(season, [project |-> req[r].p, number |-> req[r].number,
                                status |-> "planned", doc |-> None])
  BY DEF InsertSeason, AddSeason
<1>3. QED  BY <1>1, <1>2

LEMMA AdvanceStep ==
    ASSUME Typed, Undocumented, [Next]_vars
    PROVE  Undocumented' /\ \A s \in DOMAIN season : SeasonAdvances(s)
<1>1. \A s \in DOMAIN season : season[s] \in Season
  BY DEF Typed, TypeOK
<1>2. CASE UNCHANGED season
  BY <1>2 DEF Undocumented, SeasonAdvances
<1>3. ASSUME NEW r \in Request, InsertSeason(r)
      PROVE  Undocumented' /\ \A s \in DOMAIN season : SeasonAdvances(s)
  BY <1>3, NewRow DEF Undocumented, SeasonAdvances
<1>4. ASSUME NEW r \in Request, Activate(r)
      PROVE  Undocumented' /\ \A s \in DOMAIN season : SeasonAdvances(s)
  <2>1. /\ DOMAIN season' = DOMAIN season /\ season[req[r].season].status = "planned"
        /\ season' = [season EXCEPT ![req[r].season].status = "active", ![req[r].season].doc = None]
    BY <1>4 DEF Activate, SetSeason
  <2>2. ASSUME NEW s \in DOMAIN season
        PROVE  \/ season'[s] = season[s]
               \/ /\ season[s].status = "planned"
                  /\ season'[s] = [season[s] EXCEPT !.status = "active", !.doc = None]
    BY <1>1, <2>1
  <2>3. ASSUME NEW s \in DOMAIN season
        PROVE  \/ season'[s] = season[s]
               \/ /\ season[s].status = "planned" /\ season'[s].doc = None
                  /\ season'[s] = [season[s] EXCEPT !.status = "active"]
    BY <1>1, <2>2 DEF Season, Undocumented
  <2>4. QED  BY <2>1, <2>3 DEF Undocumented, SeasonAdvances
<1>5. ASSUME NEW r \in Request, Close(r)
      PROVE  Undocumented' /\ \A s \in DOMAIN season : SeasonAdvances(s)
  <2>1. /\ DOMAIN season' = DOMAIN season /\ season[req[r].season].status = "active"
        /\ season' = [season EXCEPT ![req[r].season].status = "closed", ![req[r].season].doc = r]
    BY <1>5 DEF Close, SetSeason
  <2>2. ASSUME NEW s \in DOMAIN season
        PROVE  \/ season'[s] = season[s]
               \/ /\ season[s].status = "active"
                  /\ season'[s] = [season[s] EXCEPT !.status = "closed", !.doc = r]
    BY <1>1, <2>1
  <2>3. ASSUME NEW s \in DOMAIN season
        PROVE  \/ season'[s] = season[s]
               \/ /\ season[s].status = "active" /\ season'[s].status = "closed"
                  /\ season'[s].doc # None
    BY <1>1, <2>2, Bounds DEF Season
  <2>4. QED  BY <2>1, <2>3 DEF Undocumented, SeasonAdvances
<1>6. CASE UNCHANGED vars
  BY <1>2, <1>6 DEF vars
<1>7. QED  BY <1>2, <1>3, <1>4, <1>5, <1>6, Writers DEF Next

(* Seasons only advance, planned to active to closed, and the document of  *)
(* a closed one is that of the request which closed it, for ever           *)
(* (SeasonStore.Activate and Close, model/season.go).                      *)
THEOREM SeasonsOnlyAdvance == Spec => SeasonsAdvance
<1>1. Init => Undocumented
  BY ProjectsAssumption DEF Init, Undocumented
<1>2. Typed /\ Undocumented /\ [Next]_vars => Undocumented'
  BY AdvanceStep
<1>3. Typed /\ Undocumented /\ [Next]_vars => [\A s \in DOMAIN season : SeasonAdvances(s)]_season
  BY AdvanceStep
<1>4. Spec => []Typed
  BY Inductive, PTL
<1>5. QED  BY <1>1, <1>2, <1>3, <1>4, PTL DEF Spec, SeasonsAdvance

-----------------------------------------------------------------------------
(* Two requests that are served at a time are both known to overlap, so    *)
(* what an undisturbed request has read still holds: of a season it may    *)
(* post to, that it is not closed.                                         *)
Overlap == \A r, s \in Request : Active(r) /\ Active(s) /\ r # s => r \in rough /\ s \in rough
Undisturbed ==
    \A r \in Request : at[r] \in {"may post", "post"} /\ r \notin rough =>
        season[req[r].season].status # "closed"
Timely == Overlap /\ Undisturbed /\ LateOnlyByRace

(* A request that steps is active, or starts and records the overlap; the  *)
(* others stay where they are.                                             *)
LEMMA Stepping ==
    ASSUME Typed, NEW r \in Request, Arrive(r) \/ Serve(r)
    PROVE  /\ \A s \in Request \ {r} : at'[s] = at[s] /\ req'[s] = req[s]
           /\ rough \subseteq rough'
           /\ Arrive(r) => \A s \in Request \ {r} : Active(s) => {r, s} \subseteq rough'
           /\ Serve(r) => Active(r) /\ rough' = rough
<1>1. at \in [Request -> Label] /\ req \in [Request -> Local] /\ rough \subseteq Request
  BY DEF Typed, TypeOK
<1>2. ASSUME NEW from, NEW to, NEW l, Goto(r, from, to, l)
      PROVE  \A s \in Request \ {r} : at'[s] = at[s] /\ req'[s] = req[s]
  BY <1>1, <1>2 DEF Goto
<1>3. CASE Arrive(r)
  <2>1. PICK first, l : Start(r, first, l)
    BY <1>3 DEF Arrive, CreateInSpace, StartCreate, Patch, StartEdit, StartDelete, StartSeason,
           StartMember, StartPost,
                StartChange
  <2>2. Goto(r, "idle", first, l) /\ ~Active(r)
    BY <2>1 DEF Start, Goto, Active
  <2>3. rough \subseteq rough' /\ \A s \in Request \ {r} : Active(s) => {r, s} \subseteq rough'
    BY <1>1, <2>1 DEF Start
  <2>4. ~Serve(r)
    BY <2>2 DEF Serve, Tree, CheckParent, CheckAccess, CheckChildren, InsertProject,
         UpdateProject, SoftDelete, Members, Add, UpdateRole, Remove, Member, Seasons,
         NextNumber, InsertSeason, AddSeason, Activate, Close, SetSeason, MayPost, InsertPost,
         Stop, Read, Finish, Goto
  <2>5. QED  BY <1>2, <2>2, <2>3, <2>4
<1>4. CASE Serve(r)
  <2>1. rough' = rough /\ \E from, to, l : Goto(r, from, to, l)
    <3>1. CASE Tree(r)
      BY <3>1 DEF Tree, CheckParent, CheckAccess, CheckChildren, InsertProject, UpdateProject,
                  SoftDelete, Read, Finish
    <3>2. CASE Members(r)
      BY <3>2 DEF Members, Add, UpdateRole, Remove, Member, Finish
    <3>3. CASE Seasons(r)
      BY <3>3 DEF Seasons, NextNumber, InsertSeason, AddSeason, Activate, Close, SetSeason,
                  MayPost, InsertPost, Read, Finish
    <3>4. CASE Stop(r)
      BY <3>4 DEF Stop, Read
    <3>5. QED  BY <1>4, <3>1, <3>2, <3>3, <3>4 DEF Serve
  <2>2. Active(r)
    BY <1>4 DEF Active, Serve, Tree, CheckParent, CheckAccess, CheckChildren, InsertProject,
         UpdateProject, SoftDelete, Members, Add, UpdateRole, Remove, Member, Seasons,
         NextNumber, InsertSeason, AddSeason, Activate, Close, SetSeason, MayPost, InsertPost,
         Stop, Read, Finish, Goto
  <2>3. ~Arrive(r)
    BY <2>2 DEF Arrive, CreateInSpace, StartCreate, Patch, StartEdit, StartDelete, StartSeason,
           StartMember, StartPost,
                StartChange, Start, Goto, Active
  <2>4. QED  BY <1>2, <2>1, <2>2, <2>3
<1>5. QED  BY <1>3, <1>4

LEMMA OverlapStep ==
    ASSUME Typed, Overlap, [Next]_vars
    PROVE  Overlap'
<1>1. CASE UNCHANGED vars
  BY <1>1 DEF vars, Overlap, Active
<1>2. ASSUME NEW r \in Request, Arrive(r) \/ Serve(r)
      PROVE  Overlap'
  BY <1>2, Stepping DEF Overlap, Active
<1>3. QED  BY <1>1, <1>2 DEF Next

(* The others do not act while an undisturbed request is served. *)
LEMMA Undisturbing ==
    ASSUME Typed, Overlap, NEW r \in Request, Arrive(r) \/ Serve(r),
           NEW s \in Request, s # r, s \notin rough'
    PROVE  ~Active(s) /\ at'[s] = at[s]
BY Stepping DEF Overlap

(* Where a first step leads. *)
LEMMA Starting ==
    ASSUME Typed, NEW r \in Request, Arrive(r)
    PROVE  /\ UNCHANGED <<project, season, late>>
           /\ \/ at'[r] \in {"parent", "delete", "number", "member", "activate", "close"}
              \/ at'[r] \in {"insert", "update"} /\ req'[r].parent = 0
              \/ /\ at'[r] = "may post" /\ req'[r].season \in DOMAIN season
                 /\ season[req'[r].season].status # "closed"
<1>1. ASSUME NEW first, NEW l, Start(r, first, l)
      PROVE  /\ UNCHANGED <<project, season, late>> /\ at'[r] = first
             /\ first # "done" => req'[r] = l
  BY <1>1 DEF Start, Goto, Typed, TypeOK
<1>2. ASSUME NEW q \in 0..MaxProjects, NEW u \in User, NEW l \in Local
      PROVE  [l EXCEPT !.user = u, !.parent = q].parent = q
  BY DEF Local
<1>3. ASSUME NEW q \in 0..MaxProjects, NEW p, NEW l \in Local
      PROVE  [l EXCEPT !.p = p, !.parent = q].parent = q
  BY DEF Local
<1>4. ASSUME NEW s, NEW l \in Local
      PROVE  [l EXCEPT !.season = s].season = s
  BY DEF Local
<1>5. CASE \E q \in 0..MaxProjects, u \in User : StartCreate(r, u, q)
  <2>1. PICK q \in 0..MaxProjects, u \in User : StartCreate(r, u, q)
    BY <1>5
  <2> DEFINE l == [NoLocal EXCEPT !.user = u, !.parent = q]
  <2>2. l.parent = q
    BY <1>2, NoLocalType
  <2>3. Start(r, IF q = 0 THEN "insert" ELSE "parent", l)
    BY <2>1 DEF StartCreate
  <2> HIDE DEF l
  <2>4. CASE q = 0
    <3>1. Start(r, "insert", l)
      BY <2>3, <2>4
    <3>2. UNCHANGED <<project, season, late>> /\ at'[r] = "insert" /\ req'[r] = l
      BY <1>1, <3>1
    <3>3. QED  BY <2>2, <2>4, <3>2
  <2>5. CASE q # 0
    <3>1. Start(r, "parent", l)
      BY <2>3, <2>5
    <3>2. QED  BY <1>1, <3>1
  <2>6. QED  BY <2>4, <2>5
<1>6. CASE \E q \in 0..MaxProjects, p \in Live : StartEdit(r, p, q)
  <2>1. PICK q \in 0..MaxProjects, p \in Live : StartEdit(r, p, q)
    BY <1>6
  <2> DEFINE l == [NoLocal EXCEPT !.p = p, !.parent = q]
  <2>2. l.parent = q
    BY <1>3, NoLocalType
  <2>3. Start(r, IF q = 0 THEN "update" ELSE "parent", l)
    BY <2>1 DEF StartEdit
  <2> HIDE DEF l
  <2>4. CASE q = 0
    <3>1. Start(r, "update", l)
      BY <2>3, <2>4
    <3>2. UNCHANGED <<project, season, late>> /\ at'[r] = "update" /\ req'[r] = l
      BY <1>1, <3>1
    <3>3. QED  BY <2>2, <2>4, <3>2
  <2>5. CASE q # 0
    <3>1. Start(r, "parent", l)
      BY <2>3, <2>5
    <3>2. QED  BY <1>1, <3>1
  <2>6. QED  BY <2>4, <2>5
<1>7. CASE \E p \in Live :
              \/ StartDelete(r, p) \/ StartSeason(r, p)
              \/ \E op \in {"add", "set", "remove"}, u \in User : StartMember(r, op, p, u)
  <2>1. PICK first \in {"delete", "number", "member"} : \E l : Start(r, first, l)
    BY <1>7 DEF StartDelete, StartSeason, StartMember
  <2>2. QED  BY <1>1, <2>1
<1>8. CASE \E s \in DOMAIN season, to \in {"activate", "close"} : StartChange(r, to, s)
  <2>1. PICK first \in {"activate", "close"} : \E l : Start(r, first, l)
    BY <1>8 DEF StartChange
  <2>2. QED  BY <1>1, <2>1
<1>9. CASE \E s \in DOMAIN season : StartPost(r, s)
  <2>1. PICK s \in DOMAIN season : StartPost(r, s)
    BY <1>9
  <2> DEFINE l == [NoLocal EXCEPT !.season = s]
  <2>2. l.season = s
    BY <1>4, NoLocalType
  <2>3. Start(r, "may post", l)
    BY <2>1 DEF StartPost
  <2> HIDE DEF l
  <2>4. UNCHANGED <<project, season, late>> /\ at'[r] = "may post" /\ req'[r] = l
    <3>1. "may post" # "done"
      OBVIOUS
    <3>2. QED  BY <1>1, <2>3, <3>1, Zenon
  <2>5. season[s].status # "closed"
    BY <2>1 DEF StartPost
  <2>6. QED  BY <2>2, <2>4, <2>5
<1>10. 0 \in 0..MaxProjects
  BY ProjectsAssumption
<1>11. QED  BY <1>5, <1>6, <1>7, <1>8, <1>9, <1>10, WithoutParent DEF Arrive

(* Where a later step leads. *)
LEMMA Serving ==
    ASSUME Typed, NEW r \in Request, Serve(r)
    PROVE  \/ at'[r] \in {"done", "season"}
           \/ /\ at[r] = "may post" /\ at'[r] = "post" /\ req'[r] = req[r]
              /\ UNCHANGED <<project, season, late>>
           \/ /\ CheckParent(r) \/ CheckAccess(r) \/ CheckChildren(r)
              /\ at'[r] \in {"access", "insert", "children", "update"} /\ req'[r] = req[r]
              /\ CheckParent(r) => at'[r] = "access"
              /\ CheckAccess(r) => at[r] = "access" /\ at'[r] # "update"
              /\ CheckChildren(r) => at[r] = "children"
              /\ UNCHANGED <<project, season, late>>
<1>1. ASSUME NEW from, NEW to, NEW l, Goto(r, from, to, l)
      PROVE  at[r] = from /\ at'[r] = to /\ (to # "done" => req'[r] = l)
  BY <1>1 DEF Goto, Typed, TypeOK
<1>2. CASE InsertProject(r) \/ UpdateProject(r) \/ SoftDelete(r) \/ Members(r) \/ Stop(r)
           \/ NextNumber(r) \/ InsertSeason(r) \/ Activate(r) \/ Close(r) \/ InsertPost(r)
  <2>1. PICK to \in {"done", "season"} : \E from, l : Goto(r, from, to, l)
    <3>1. CASE InsertProject(r) \/ UpdateProject(r) \/ SoftDelete(r) \/ Members(r)
      BY <3>1 DEF InsertProject, UpdateProject, SoftDelete, Members, Add, UpdateRole, Remove,
                  Member, Finish
    <3>2. CASE Stop(r)
      BY <3>2 DEF Stop, Read
    <3>3. CASE NextNumber(r)
      BY <3>3 DEF NextNumber
    <3>4. CASE InsertSeason(r) \/ Activate(r) \/ Close(r) \/ InsertPost(r)
      BY <3>4 DEF InsertSeason, AddSeason, Activate, Close, SetSeason, InsertPost, Finish
    <3>5. QED  BY <1>2, <3>1, <3>2, <3>3, <3>4
  <2>2. QED  BY <1>1, <2>1
<1>3. CASE MayPost(r)
  <2>1. Goto(r, "may post", "post", req[r]) /\ UNCHANGED <<project, season, late>>
    BY <1>3 DEF MayPost, Read
  <2>2. QED  BY <1>1, <2>1
<1>4. CASE CheckParent(r)
  <2>1. Goto(r, "parent", "access", req[r]) /\ UNCHANGED <<project, season, late>>
    BY <1>4 DEF CheckParent, Read
  <2>2. ~CheckAccess(r) /\ ~CheckChildren(r)
    BY <2>1 DEF CheckAccess, CheckChildren, Read, Goto
  <2>3. QED  BY <1>1, <1>4, <2>1, <2>2
<1>5. CASE CheckAccess(r)
  <2> DEFINE to == IF req[r].p = 0 THEN "insert" ELSE "children"
  <2>1. to \in {"insert", "children"}
    OBVIOUS
  <2>2. Goto(r, "access", to, req[r]) /\ UNCHANGED <<project, season, late>>
    BY <1>5 DEF CheckAccess, Read
  <2> HIDE DEF to
  <2>3. ~CheckParent(r) /\ ~CheckChildren(r)
    BY <2>2 DEF CheckParent, CheckChildren, Read, Goto
  <2>4. QED  BY <1>1, <1>5, <2>1, <2>2, <2>3
<1>6. CASE CheckChildren(r)
  <2>1. Goto(r, "children", "update", req[r]) /\ UNCHANGED <<project, season, late>>
    BY <1>6 DEF CheckChildren, Read
  <2>2. ~CheckAccess(r) /\ ~CheckParent(r)
    BY <2>1 DEF CheckAccess, CheckParent, Read, Goto
  <2>3. QED  BY <1>1, <1>6, <2>1, <2>2
<1>7. QED  BY <1>2, <1>3, <1>4, <1>5, <1>6 DEF Serve, Tree, Seasons

LEMMA TimelyStep ==
    ASSUME Typed, Timely, [Next]_vars
    PROVE  Timely'
<1>1. Overlap'
  BY OverlapStep DEF Timely
<1>2. CASE UNCHANGED vars
  BY <1>1, <1>2 DEF Timely, vars, Undisturbed, LateOnlyByRace
<1>3. ASSUME NEW r \in Request, Arrive(r) \/ Serve(r)
      PROVE  Undisturbed'
  <2> SUFFICES ASSUME NEW s \in Request, at'[s] \in {"may post", "post"}, s \notin rough'
               PROVE  season'[req'[s].season].status # "closed"
    BY DEF Undisturbed
  <2>1. s = r
    <3>1. s # r => ~Active(s) /\ at'[s] = at[s]
      BY <1>3, Undisturbing DEF Timely
    <3>2. QED  BY <3>1 DEF Active
  <2>2. CASE Arrive(r)
    BY <2>1, <2>2, Starting
  <2>3. CASE Serve(r)
    <3>1. /\ at[r] = "may post" /\ req'[r] = req[r] /\ UNCHANGED season
      BY <2>1, <2>3, Serving
    <3>2. s \notin rough
      BY <1>3, Stepping
    <3>3. QED  BY <2>1, <3>1, <3>2 DEF Timely, Undisturbed
  <2>4. QED  BY <1>3, <2>2, <2>3
<1>4. ASSUME NEW r \in Request, Arrive(r) \/ Serve(r)
      PROVE  LateOnlyByRace'
  <2>1. late \subseteq rough'
    BY <1>4, Stepping DEF Timely, LateOnlyByRace
  <2>2. CASE UNCHANGED late
    BY <2>1, <2>2 DEF LateOnlyByRace
  <2>3. CASE InsertPost(r)
    <3>1. at[r] = "post" /\ rough' = rough
      BY <2>3 DEF InsertPost, Finish, Goto
    <3>2. r \in rough \/ season[req[r].season].status # "closed"
      BY <3>1 DEF Timely, Undisturbed
    <3>3. season[req[r].season].status # "closed" => late' = late
      BY <2>3 DEF InsertPost
    <3>4. late' \subseteq late \cup {r}
      BY <2>3 DEF InsertPost
    <3>5. QED  BY <2>1, <3>1, <3>2, <3>3, <3>4 DEF LateOnlyByRace
  <2>4. QED  BY <1>4, <2>2, <2>3, Writers
<1>5. QED  BY <1>1, <1>2, <1>3, <1>4 DEF Next, Timely

(* A request that nobody overlaps files no post under a closed season: the *)
(* check of PostHandler.Create can only be outrun (handler/post.go).       *)
THEOREM PostsLateOnlyByRace == Spec => []LateOnlyByRace
<1>1. Init => Timely
  BY DEF Init, Timely, Overlap, Undisturbed, LateOnlyByRace, Active
<1>2. Typed /\ Timely /\ [Next]_vars => Timely'
  BY TimelyStep
<1>3. Timely => LateOnlyByRace
  BY DEF Timely
<1>4. Spec => []Typed
  BY Inductive, PTL
<1>5. QED  BY <1>1, <1>2, <1>3, <1>4, PTL DEF Spec

-----------------------------------------------------------------------------
(* As long as requests do not overlap, what ValidateParent and             *)
(* HasOwnChildren have answered still holds when the row is written.       *)
Checked(r) ==
    at[r] \in {"access", "children", "insert", "update"} /\ req[r].parent # 0 =>
        /\ project[req[r].parent].parent = 0
        /\ at[r] = "update" => SubProjects(req[r].p) = {}
Flat == ShallowWhenCalm /\ (Calm => \A r \in Request : Checked(r))

(* The row a request writes keeps the tree shallow if its checks hold. *)
LEMMA WriteKeepsShallow ==
    ASSUME Typed, NEW r \in Request, Checked(r),
           \A p \in Live : project[p].parent # 0 => project[project[p].parent].parent = 0,
           InsertProject(r) \/ UpdateProject(r) \/ SoftDelete(r)
    PROVE  \A p \in Live' : project'[p].parent # 0 => project'[project'[p].parent].parent = 0
<1>1. /\ project \in Seq(Project) /\ Len(project) \in Nat /\ req[r] \in Local
      /\ DOMAIN project = 1..Len(project)
      /\ Fits(at[r], req[r], Len(project), Len(season))
  <2>1. Fits(at[r], req[r], Len(project), Len(season))
    BY DEF Typed, Fitting
  <2>2. QED  BY <2>1 DEF Typed, TypeOK
<1>2. req[r].parent \in Nat
  BY <1>1, NatFields
<1>3. ASSUME NEW p \in DOMAIN project, project[p].parent # 0
      PROVE  project[p].parent \in DOMAIN project
  <2>1. project[p] \in Project /\ project[p].parent <= Len(project)
    BY <1>1 DEF Typed, TypeOK
  <2>2. project[p].parent \in Nat
    BY <2>1, NatFields
  <2>3. QED  BY <1>1, <1>3, <2>1, <2>2
<1>4. CASE InsertProject(r)
  <2> DEFINE k == Len(project) + 1
             q == req[r].parent
  <2>1. /\ DOMAIN project' = DOMAIN project \cup {k}
        /\ \A p \in DOMAIN project : project'[p] = project[p]
        /\ project'[k].parent = q
    BY <1>1, <1>4 DEF InsertProject
  <2>2. q # 0 => q \in DOMAIN project /\ project[q].parent = 0
    <3>1. at[r] = "insert"
      BY <1>4 DEF InsertProject, Finish, Goto
    <3>2. QED  BY <1>1, <1>2, <3>1 DEF Checked, Fits
  <2> HIDE DEF k, q
  <2>3. \A p \in DOMAIN project : p \in Live' => p \in Live
    BY <2>1 DEF Live
  <2>4. Live' \subseteq DOMAIN project \cup {k}
    BY <2>1 DEF Live
  <2>5. QED  BY <1>3, <2>1, <2>2, <2>3, <2>4
<1>5. CASE UpdateProject(r)
  <2> DEFINE k == req[r].p
             q == req[r].parent
  <2>1. /\ k \in Live /\ DOMAIN project' = DOMAIN project
        /\ \A p \in DOMAIN project :
              /\ project'[p].live = project[p].live
              /\ project'[p].parent = IF p = k THEN q ELSE project[p].parent
    BY <1>5, ProjectRow
  <2>2. q # 0 => /\ q \in DOMAIN project /\ q # k /\ project[q].parent = 0
                 /\ SubProjects(k) = {}
    <3>1. at[r] = "update"
      BY <1>5 DEF UpdateProject, Finish, Goto
    <3>2. QED  BY <1>1, <1>2, <3>1 DEF Checked, Fits
  <2> HIDE DEF k, q
  <2>3. Live' = Live /\ Live \subseteq DOMAIN project
    BY <2>1 DEF Live
  <2>4. ASSUME NEW p \in Live, p # k, project[p].parent # 0
        PROVE  project'[project[p].parent].parent = 0
    <3>1. project[project[p].parent].parent = 0 /\ project[p].parent \in DOMAIN project
      BY <1>3, <2>3, <2>4
    <3>2. CASE project[p].parent = k
      BY <2>1, <2>2, <2>4, <3>1, <3>2 DEF SubProjects
    <3>3. CASE project[p].parent # k
      BY <2>1, <3>1, <3>3
    <3>4. QED  BY <3>2, <3>3
  <2>5. QED  BY <2>1, <2>2, <2>3, <2>4
<1>6. CASE SoftDelete(r)
  <2>1. /\ DOMAIN project' = DOMAIN project
        /\ \A p \in DOMAIN project : /\ project'[p].parent = project[p].parent
                                     /\ project'[p].live => project[p].live
    BY <1>6, ProjectRow
  <2>2. Live \subseteq DOMAIN project /\ Live' \subseteq DOMAIN project
    BY <2>1 DEF Live
  <2>3. ASSUME NEW p \in Live'  PROVE p \in Live
    <3>1. p \in DOMAIN project /\ project'[p].live
      BY <2>1, <2>3 DEF Live
    <3>2. project[p].live
      BY <2>1, <3>1, Zenon
    <3>3. QED  BY <3>1, <3>2 DEF Live
  <2>4. QED  BY <1>3, <2>1, <2>2, <2>3
<1>7. QED  BY <1>4, <1>5, <1>6

LEMMA FlatStep ==
    ASSUME Typed, Overlap, Flat, [Next]_vars
    PROVE  Flat'
<1>1. CASE UNCHANGED vars
  BY <1>1 DEF vars, Flat, ShallowWhenCalm, Calm, Checked, Live, SubProjects
<1>2. ASSUME NEW r \in Request, Arrive(r) \/ Serve(r), Calm'
      PROVE  /\ \A p \in Live' : project'[p].parent # 0 => project'[project'[p].parent].parent = 0
             /\ \A s \in Request : Checked(s)'
  <2>1. /\ \A s \in Request : Checked(s)
        /\ \A p \in Live : project[p].parent # 0 => project[project[p].parent].parent = 0
    <3>1. Calm
      BY <1>2, Stepping DEF Calm
    <3>2. QED  BY <3>1 DEF Flat, ShallowWhenCalm
  <2>2. \A p \in Live' : project'[p].parent # 0 => project'[project'[p].parent].parent = 0
    <3>1. CASE UNCHANGED project
      BY <2>1, <3>1 DEF Live
    <3>2. CASE ~UNCHANGED project
      BY <1>2, <2>1, <3>2, Writers, WriteKeepsShallow
    <3>3. QED  BY <3>1, <3>2
  <2>3. ASSUME NEW s \in Request, s # r  PROVE Checked(s)'
    <3>1. ~Active(s) /\ at'[s] = at[s]
      BY <1>2, <2>3, Undisturbing DEF Calm
    <3>2. QED  BY <3>1 DEF Active, Checked
  <2>4. Checked(r)'
    <3>1. CASE Arrive(r)
      <4>1. ~(at'[r] \in {"access", "children", "insert", "update"} /\ req'[r].parent # 0)
        BY <3>1, Starting
      <4>2. QED  BY <4>1 DEF Checked
    <3>2. CASE Serve(r)
      <4>1. CASE at'[r] \notin {"access", "children", "insert", "update"}
        BY <4>1 DEF Checked
      <4>2. CASE at'[r] \in {"access", "children", "insert", "update"}
        <5>1. /\ CheckParent(r) \/ CheckAccess(r) \/ CheckChildren(r)
              /\ req'[r] = req[r] /\ UNCHANGED project
              /\ CheckParent(r) => at'[r] = "access"
              /\ CheckAccess(r) => at[r] = "access" /\ at'[r] # "update"
              /\ CheckChildren(r) => at[r] = "children"
          BY <3>2, <4>2, Serving
        <5>2. CheckParent(r) => project[req[r].parent].parent = 0
          BY DEF CheckParent
        <5>3. CheckChildren(r) => SubProjects(req[r].p) = {}
          BY DEF CheckChildren
        <5>4. req[r].parent # 0 => /\ project[req[r].parent].parent = 0
                                   /\ at'[r] = "update" => SubProjects(req[r].p) = {}
          BY <2>1, <5>1, <5>2, <5>3 DEF Checked
        <5>5. SubProjects(req[r].p)' = SubProjects(req[r].p)
          BY <5>1 DEF SubProjects, Live
        <5>6. QED  BY <5>1, <5>4, <5>5 DEF Checked
      <4>3. QED  BY <4>1, <4>2
    <3>3. QED  BY <1>2, <3>1, <3>2
  <2>5. QED  BY <2>2, <2>3, <2>4
<1>3. QED  BY <1>1, <1>2 DEF Next, Flat, ShallowWhenCalm

(* Requests that never overlap keep the hierarchy one level deep, through  *)
(* creation, reparenting, PATCH and deletion, by the checks of             *)
(* ValidateParent and HasOwnChildren (model/project_hierarchy.go).         *)
THEOREM CalmTreesStayShallow == Spec => []ShallowWhenCalm
<1>1. Init => Overlap /\ Flat
  <2> SUFFICES ASSUME Init  PROVE Overlap /\ Flat
    OBVIOUS
  <2>1. ShallowWhenCalm
    BY ProjectsAssumption DEF Init, ShallowWhenCalm, Live
  <2>2. QED  BY <2>1 DEF Init, Overlap, Flat, Checked, Active
<1>2. Typed /\ Overlap /\ Flat /\ [Next]_vars => Overlap' /\ Flat'
  BY OverlapStep, FlatStep
<1>3. Flat => ShallowWhenCalm
  BY DEF Flat
<1>4. Spec => []Typed
  BY Inductive, PTL
<1>5. QED  BY <1>1, <1>2, <1>3, <1>4, PTL DEF Spec
=============================================================================
