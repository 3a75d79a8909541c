------------------------------ MODULE Projects ------------------------------
(***************************************************************************)
(* Projects of a space: their one-level hierarchy, their members and their *)
(* numbered seasons.  internal/handler/{project,project_forms}.go over     *)
(* internal/model/{project,project_hierarchy,project_member,season}.go,    *)
(* and the season check of internal/handler/post.go.                       *)
(*                                                                         *)
(* Requests run concurrently; each SQL statement is one action.  The two   *)
(* transactions (ProjectStore.Create, SeasonStore.Create) take effect with *)
(* their last INSERT.  Requests come from users who may make them, since a *)
(* refused one changes nothing.  Spaces never change and all projects here *)
(* are in one; names, slugs, tags and visibility are left out.             *)
(***************************************************************************)
EXTENDS Naturals, Sequences, FiniteSetsExt

CONSTANTS
    User,
    Request,         \* requests, each served once
    None,            \* no closing document
    FirstProjects,   \* the projects that are there when the requests start
    FirstSeasons,    \* and their seasons
    MaxProjects,     \* bounds on the projects and the seasons of a behaviour
    MaxSeasons

(* A member who does not own is a contributor or a viewer. *)
Role == {"none", "owner", "member"}
Status == {"planned", "active", "closed"}

(* Ids count from 1; parent 0 is no parent. *)
Project == [owner : User, parent : 0..MaxProjects, live : BOOLEAN]
Season == [project : 1..MaxProjects, number : Nat \ {0}, status : Status,
           doc : Request \cup {None}]

FirstSeasonsOf(p) == {s \in DOMAIN FirstSeasons : FirstSeasons[s].project = p}

(* The requests start from a table the constraints and the code allow: a   *)
(* one-level tree, and each project's seasons numbered from 1 on.          *)
ASSUME ProjectsAssumption ==
    /\ MaxProjects \in Nat /\ MaxSeasons \in Nat /\ None \notin Request /\ User # {}
    /\ FirstProjects \in Seq(Project) /\ Len(FirstProjects) <= MaxProjects
    /\ \A p \in DOMAIN FirstProjects : FirstProjects[p].parent # 0 =>
           /\ FirstProjects[p].parent \in DOMAIN FirstProjects
           /\ FirstProjects[FirstProjects[p].parent].parent = 0
    /\ FirstSeasons \in Seq(Season) /\ Len(FirstSeasons) <= MaxSeasons
    /\ \A s \in DOMAIN FirstSeasons :
           /\ FirstSeasons[s].project \in DOMAIN FirstProjects
           /\ FirstSeasons[s].status # "closed" => FirstSeasons[s].doc = None
    /\ \A p \in DOMAIN FirstProjects :
           {FirstSeasons[s].number : s \in FirstSeasonsOf(p)} = 1..Cardinality(FirstSeasonsOf(p))

VARIABLES
    project,     \* rows of projects by id
    role,        \* role[p]: project_members of p
    season,      \* rows of seasons by id; doc is the request that closed it
    at, req,     \* the requests: next statement and local variables
    late,        \* requests that filed a post under a closed season
    rough        \* requests that some other request has overlapped

vars == <<project, role, season, at, req, late, rough>>

Label == {"idle", "parent", "access", "children", "insert", "update", "delete", "member",
          "number", "season", "activate", "close", "may post", "post", "done"}
Local == [op : {"", "add", "set", "remove"}, p : 0..MaxProjects, parent : 0..MaxProjects,
          user : User, season : 0..MaxSeasons, number : Nat]

NoLocal == [op |-> "", p |-> 0, parent |-> 0, user |-> CHOOSE u \in User : TRUE,
            season |-> 0, number |-> 0]

TypeOK ==
    /\ project \in Seq(Project) /\ Len(project) <= MaxProjects
    /\ \A p \in DOMAIN project : project[p].parent # p /\ project[p].parent <= Len(project)
    /\ role \in Seq([User -> Role]) /\ Len(role) = Len(project)
    /\ season \in Seq(Season) /\ Len(season) <= MaxSeasons
    /\ at \in [Request -> Label] /\ req \in [Request -> Local]
    /\ late \subseteq Request /\ rough \subseteq Request

OwnedBy(o) == [u \in User |-> IF u = o THEN "owner" ELSE "none"]

Init ==
    /\ project = FirstProjects
    /\ role = [p \in DOMAIN FirstProjects |-> OwnedBy(FirstProjects[p].owner)]
    /\ season = FirstSeasons
    /\ at = [r \in Request |-> "idle"] /\ req = [r \in Request |-> NoLocal]
    /\ late = {} /\ rough = {}

Active(r) == at[r] \notin {"idle", "done"}
Live == {p \in DOMAIN project : project[p].live}
SubProjects(p) == {c \in Live : project[c].parent = p}
-----------------------------------------------------------------------------
(* Control of a request. *)

(* A handler that returns forgets its local variables. *)
Goto(r, from, to, l) ==
    /\ at[r] = from /\ at' = [at EXCEPT ![r] = to]
    /\ req' = [req EXCEPT ![r] = IF to = "done" THEN NoLocal ELSE l]

(* A handler has loaded what its path names, and starts with local l. *)
Start(r, first, l) ==
    LET others == {s \in Request : Active(s)} IN
    /\ Goto(r, "idle", first, l)
    /\ rough' = IF others = {} THEN rough ELSE rough \cup others \cup {r}
    /\ UNCHANGED <<project, role, season, late>>

(* A read that decides how the request goes on. *)
Read(r, from, to) ==
    Goto(r, from, to, req[r]) /\ UNCHANGED <<project, role, season, late, rough>>

(* The last statement of a request. *)
Finish(r, from) == Goto(r, from, "done", NoLocal)

(* Input is refused, the context is done, or a statement fails: the handler *)
(* returns, and a transaction rolls back.                                   *)
Stop(r) == Active(r) /\ Read(r, at[r], "done")
-----------------------------------------------------------------------------
(* The hierarchy. *)

(* POST .../projects knows no parent. *)
CreateInSpace(r, u) == Start(r, "insert", [NoLocal EXCEPT !.user = u])

(* CreateProjectFromForm *)
StartCreate(r, u, parent) ==
    Start(r, IF parent = 0 THEN "insert" ELSE "parent",
          [NoLocal EXCEPT !.user = u, !.parent = parent])

(* PATCH: the parameters never carry the project's parent over. *)
Patch(r, p) == p \in Live /\ Start(r, "update", [NoLocal EXCEPT !.p = p])

(* UpdateProjectFromForm *)
StartEdit(r, p, parent) ==
    /\ p \in Live
    /\ Start(r, IF parent = 0 THEN "update" ELSE "parent",
             [NoLocal EXCEPT !.p = p, !.parent = parent])

(* Mutant: a project may be its own parent. *)
CheckParentButSelf(r) ==
    LET q == req[r].parent IN
    /\ q \in Live /\ project[q].parent = 0
    /\ Read(r, "parent", "access")

(* ValidateParent: not the project itself, there, not deleted, top-level. *)
CheckParent(r) ==
    LET q == req[r].parent IN
    /\ q # req[r].p /\ q \in Live /\ project[q].parent = 0
    /\ Read(r, "parent", "access")

(* CanUserAccess reads the parent again. *)
CheckAccess(r) ==
    /\ req[r].parent \in Live
    /\ Read(r, "access", IF req[r].p = 0 THEN "insert" ELSE "children")

(* Mutant: HasOwnChildren is not asked. *)
SkipChildren(r) == Read(r, "children", "update")

CheckChildren(r) == SubProjects(req[r].p) = {} /\ Read(r, "children", "update")

(* The project and its owner's member row commit together. *)
InsertProject(r) ==
    LET l == req[r] IN
    /\ Len(project) < MaxProjects
    /\ Finish(r, "insert")
    /\ project' = Append(project, [owner |-> l.user, parent |-> l.parent, live |-> TRUE])
    /\ role' = Append(role, OwnedBy(l.user))
    /\ UNCHANGED <<season, late, rough>>

(* UPDATE ... WHERE id AND deleted_at IS NULL always writes the parent. *)
UpdateProject(r) ==
    LET p == req[r].p IN
    /\ p \in Live /\ Finish(r, "update")
    /\ project' = [project EXCEPT ![p].parent = req[r].parent]
    /\ UNCHANGED <<role, season, late, rough>>

StartDelete(r, p) == p \in Live /\ Start(r, "delete", [NoLocal EXCEPT !.p = p])

SoftDelete(r) ==
    LET p == req[r].p IN
    /\ p \in Live /\ Finish(r, "delete")
    /\ project' = [project EXCEPT ![p].live = FALSE]
    /\ UNCHANGED <<role, season, late, rough>>
-----------------------------------------------------------------------------
(* Members. *)

(* AddMember refuses the role owner before the store, UpdateRole within. *)
StartMember(r, op, p, u) ==
    /\ p \in Live
    /\ Start(r, "member", [NoLocal EXCEPT !.op = op, !.p = p, !.user = u])

Holds(r) == role[req[r].p][req[r].user]

Member(r, op, old, new) ==
    /\ Finish(r, "member")
    /\ req[r].op = op /\ Holds(r) \in old
    /\ role' = [role EXCEPT ![req[r].p][req[r].user] = new]
    /\ UNCHANGED <<project, season, late, rough>>

(* Mutant: ON CONFLICT DO UPDATE. *)
AddOrUpdate(r) == Member(r, "add", Role, "member")

(* INSERT ... ON CONFLICT DO NOTHING *)
Add(r) == Member(r, "add", {"none"}, "member")

(* UPDATE and DELETE ... WHERE role <> 'owner' *)
UpdateRole(r) == Member(r, "set", {"member"}, "member")
Remove(r) == Member(r, "remove", {"member"}, "none")
-----------------------------------------------------------------------------
(* Seasons. *)

SeasonsOf(p) == {s \in DOMAIN season : season[s].project = p}
Numbers(p) == {season[s].number : s \in SeasonsOf(p)}

StartSeason(r, p) == p \in Live /\ Start(r, "number", [NoLocal EXCEPT !.p = p])

(* SELECT COALESCE(MAX(season_number), 0) + 1 *)
NextNumber(r) ==
    /\ Goto(r, "number", "season",
            [req[r] EXCEPT !.number = Max({0} \cup Numbers(req[r].p)) + 1])
    /\ UNCHANGED <<project, role, season, late, rough>>

AddSeason(r) ==
    /\ Len(season) < MaxSeasons
    /\ Finish(r, "season")
    /\ season' = Append(season, [project |-> req[r].p, number |-> req[r].number,
                                 status |-> "planned", doc |-> None])
    /\ UNCHANGED <<project, role, late, rough>>

(* Mutant: no unique index on (project_id, season_number). *)
InsertDuplicate(r) == AddSeason(r)

(* The unique index refuses a number another request has taken since. *)
InsertSeason(r) == AddSeason(r) /\ req[r].number \notin Numbers(req[r].p)

(* ActivateSeason and CloseSeason have found the season by its number. *)
StartChange(r, to, s) ==
    /\ s \in DOMAIN season /\ season[s].project \in Live
    /\ Start(r, to, [NoLocal EXCEPT !.season = s])

SetSeason(r, from, old, new, doc) ==
    LET s == req[r].season IN
    /\ Finish(r, from)
    /\ season[s].status \in old
    /\ season' = [season EXCEPT ![s].status = new, ![s].doc = doc]
    /\ UNCHANGED <<project, role, late, rough>>

(* UPDATE ... WHERE status = 'planned' *)
Activate(r) == SetSeason(r, "activate", {"planned"}, "active", None)

(* Mutant: the WHERE clause without the status. *)
CloseAgain(r) == SetSeason(r, "close", Status, "closed", r)

(* UPDATE ... WHERE status = 'active'; the closing document is not empty. *)
Close(r) == SetSeason(r, "close", {"active"}, "closed", r)

(* Mutant: any season will do. *)
StartPostAnyway(r, s) ==
    /\ s \in DOMAIN season
    /\ Start(r, "may post", [NoLocal EXCEPT !.season = s])

(* PostHandler.Create with a season: it is looked up and must not be closed. *)
StartPost(r, s) ==
    /\ s \in DOMAIN season /\ season[s].status # "closed"
    /\ Start(r, "may post", [NoLocal EXCEPT !.season = s])

(* CanUserAccess of the season's project. *)
MayPost(r) ==
    /\ Read(r, "may post", "post")
    /\ season[req[r].season].project \in Live

(* INSERT INTO posts: the foreign key is satisfied whatever the status. *)
InsertPost(r) ==
    /\ Finish(r, "post")
    /\ late' = IF season[req[r].season].status = "closed" THEN late \cup {r} ELSE late
    /\ UNCHANGED <<project, role, season, rough>>
-----------------------------------------------------------------------------
Tree(r) == \/ CheckParent(r) \/ CheckAccess(r) \/ CheckChildren(r)
           \/ InsertProject(r) \/ UpdateProject(r) \/ SoftDelete(r)
Members(r) == Add(r) \/ UpdateRole(r) \/ Remove(r)
Seasons(r) == NextNumber(r) \/ InsertSeason(r) \/ Activate(r) \/ Close(r) \/ MayPost(r)
              \/ InsertPost(r)
Serve(r) == Tree(r) \/ Members(r) \/ Seasons(r) \/ Stop(r)

Arrive(r) ==
    \/ \E u \in User : CreateInSpace(r, u)
    \/ \E p \in Live : Patch(r, p)
    \/ \E q \in 0..MaxProjects : \/ \E u \in User : StartCreate(r, u, q)
                                 \/ \E p \in Live : StartEdit(r, p, q)
    \/ \E p \in Live :
        \/ StartDelete(r, p) \/ StartSeason(r, p)
        \/ \E op \in {"add", "set", "remove"}, u \in User : StartMember(r, op, p, u)
    \/ \E s \in DOMAIN season : \/ StartPost(r, s)
                                \/ \E to \in {"activate", "close"} : StartChange(r, to, s)

Next == \E r \in Request : Arrive(r) \/ Serve(r)

Spec == Init /\ [][Next]_vars
-----------------------------------------------------------------------------
Calm == rough = {}

(* "a sub-project cannot itself become a parent" (migration 030,           *)
(* model/project_hierarchy.go:13-16): requests that never overlap keep the *)
(* hierarchy one level deep, through creation, reparenting, PATCH and      *)
(* deletion.  Concurrent edits can break it: each check is a statement of  *)
(* its own.                                                                *)
ShallowWhenCalm ==
    Calm => \A p \in Live : project[p].parent # 0 => project[project[p].parent].parent = 0

(* projects.owner_id is denormalised from project_members (model/project.go *)
(* :36-39): whatever members are added, changed and removed, the one owner  *)
(* row of a project is that of its owner.                                   *)
OwnersAgree ==
    \A p \in DOMAIN project : {u \in User : role[p][u] = "owner"} = {project[p].owner}

(* "the unique index ... plus the MAX()+1 transaction in Create keeps the  *)
(* sequence dense even under concurrent inserts" (model/season.go:24-27).  *)
SeasonsDense ==
    \A p \in DOMAIN project : Numbers(p) = 1..Cardinality(SeasonsOf(p))

(* A season goes from planned to active to closed, its closing document is *)
(* that of the one request that closed it and never changes again, however *)
(* many closings and activations race (model/season.go:196-256).           *)
SeasonAdvances(s) ==
    LET old == season[s]  new == season'[s] IN
    \/ new = old
    \/ old.status = "planned" /\ new = [old EXCEPT !.status = "active"]
    \/ old.status = "active" /\ new.status = "closed" /\ new.doc # None
SeasonsAdvance == [][\A s \in DOMAIN season : SeasonAdvances(s)]_season

(* "season is closed; pick a different season" (handler/post.go:198-201):  *)
(* a post gets into a closed season only if the two requests overlapped.   *)
LateOnlyByRace == late \subseteq rough
=============================================================================
