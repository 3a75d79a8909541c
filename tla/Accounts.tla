------------------------------ MODULE Accounts ------------------------------
(***************************************************************************)
(* Accounts, sessions and the two settings of registration:                *)
(* internal/handler/{auth,profile,admin}.go over                           *)
(* internal/model/{user,settings}.go and internal/auth.                    *)
(*                                                                         *)
(* Requests run concurrently and each SQL statement is one action.  Who    *)
(* makes a request is checked when it starts and not again (RequireAuth,   *)
(* RequireAdmin).  Profile fields, the application text and notifications  *)
(* are left out; "fold" compares names as LOWER does.                      *)
(***************************************************************************)
EXTENDS Naturals, FiniteSets

CONSTANTS
    Request,       \* requests, each served once
    None,          \* no request
    Name, Fold,    \* user names, and their lower case
    Power,         \* power levels: 10 of new users, from 75 admins, 100 Owners
    FirstUsers,    \* the tables of users a behaviour may start with
    MaxUsers       \* bound on the ids the sequence hands out

Id == 1..MaxUsers
(* A password is known by the request that set it; None set the first ones. *)
Secret == Request \cup {None}
Account == [name : Name, secret : Secret, power : Power, banned : BOOLEAN,
            status : {"pending", "active", "rejected"}, by : Request \cup {None}]
Session == [user : Id, secret : Secret, by : Request \cup {None}]

(* The value of a setting; "" is one that could not be read. *)
Value == {"true", "false", ""}

(* A table that earlier requests, all answered, may have left: the ids are *)
(* given out in order, names differ and, if there is anybody, there is one  *)
(* Owner, who is active.                                                    *)
Settled(t) ==
    /\ \E n \in 0..MaxUsers : DOMAIN t = 1..n
    /\ \A u \in DOMAIN t : t[u] \in Account /\ t[u].by = None
    /\ \A u, v \in DOMAIN t : t[u].name = t[v].name => u = v
    /\ \A u, v \in DOMAIN t : t[u].power = 100 /\ t[v].power = 100 => u = v
    /\ DOMAIN t # {} => \E u \in DOMAIN t : t[u].power = 100 /\ t[u].status = "active"

ASSUME AccountsAssumption ==
    /\ MaxUsers \in Nat /\ Name # {} /\ DOMAIN Fold = Name
    /\ {10, 100} \subseteq Power /\ Power \subseteq 0..100 /\ None \notin Request
    /\ \A t \in FirstUsers : Settled(t)

VARIABLES
    users,       \* rows of users by id
    nextId,      \* the sequence behind users.id, which never goes back
    sessions,    \* unexpired rows of sessions; "by" is the request that opened it
    stored,      \* require_approval in the settings table
    cache,       \* and in SettingsStore.cache; "" when it is not there
    mutex,       \* who holds SettingsStore.mu for writing
    at, req,     \* the requests: next statement and local variables
    after        \* after[r]: requests that had ended when r began

vars == <<users, nextId, sessions, stored, cache, mutex, at, req, after>>

Op == {"", "register", "login", "logout", "ban", "unban", "approve", "reject", "password",
       "rename", "power", "set"}
Label == {"idle", "find", "gate", "fetch", "fill", "count", "id", "insert", "belt", "promote",
          "activate", "session", "check", "logout", "ban", "unban", "status", "revoke",
          "verify", "swap", "taken", "rename", "power", "store", "refresh",
          "done", "skipped", "stopped"}
Local == [op : Op, user : Id \cup {0}, name : Name, secret : Secret, power : Power,
          value : Value, first : BOOLEAN, own : BOOLEAN]

NoLocal == [op |-> "", user |-> 0, name |-> CHOOSE n \in Name : TRUE, secret |-> None,
            power |-> 10, value |-> "", first |-> FALSE, own |-> FALSE]

TypeOK ==
    /\ DOMAIN users \subseteq Id /\ \A u \in DOMAIN users : users[u] \in Account
    /\ \A u, v \in DOMAIN users : users[u].name = users[v].name => u = v
    /\ nextId \in 1..(MaxUsers + 1) /\ \A u \in DOMAIN users : u < nextId
    /\ sessions \subseteq Session /\ \A s \in sessions : s.user \in DOMAIN users
    /\ stored \in Value \ {""} /\ cache \in Value
    /\ mutex \in Request \cup {None}
    /\ \A r \in Request : mutex = r <=> at[r] \in {"fetch", "fill"}
    /\ at \in [Request -> Label] /\ req \in [Request -> Local]
    /\ after \in [Request -> SUBSET Request]

Init ==
    /\ users \in FirstUsers
    /\ nextId = Cardinality(DOMAIN users) + 1
    /\ sessions = {[user |-> u, secret |-> users[u].secret, by |-> None] :
                       u \in {v \in DOMAIN users : ~users[v].banned}}
    /\ stored = "true" /\ cache = "" /\ mutex = None
    /\ at = [r \in Request |-> "idle"] /\ req = [r \in Request |-> NoLocal]
    /\ after = [r \in Request |-> {}]

Ended(r) == at[r] \in {"done", "skipped", "stopped"}
Active(r) == at[r] # "idle" /\ ~Ended(r)
NameTaken(n) == \E u \in DOMAIN users : users[u].name = n
-----------------------------------------------------------------------------
(* Control of a request. *)

(* Of what has ended only what the properties below look at is kept. *)
Kept(from, to, l) ==
    CASE to = "stopped" /\ from # "refresh" -> NoLocal
      [] to = "done" /\ l.op \in {"login", "logout", "unban", "approve"} -> NoLocal
      [] to = "done" /\ l.op = "register" -> [NoLocal EXCEPT !.op = l.op, !.value = l.value]
      [] OTHER -> l

Goto(r, from, to, l) ==
    /\ at[r] = from /\ at' = [at EXCEPT ![r] = to]
    /\ req' = [req EXCEPT ![r] = Kept(from, to, l)]

Data == <<users, nextId, sessions, stored, cache, mutex>>

Start(r, first, l) ==
    /\ Goto(r, "idle", first, l)
    /\ after' = [after EXCEPT ![r] = {s \in Request : Ended(s)}]
    /\ UNCHANGED Data

(* The users SessionStore.Find finds by a cookie. *)
SignedIn == {s.user : s \in sessions}

Read(r, from, to, l) == Goto(r, from, to, l) /\ UNCHANGED <<Data, after>>

(* UPDATE users SET field = v of the request's user. *)
Update(r, from, to, field, v) ==
    /\ Goto(r, from, to, req[r])
    /\ users' = [users EXCEPT ![req[r].user][field] = v]
    /\ UNCHANGED <<nextId, sessions, stored, cache, mutex, after>>

(* Input is refused, the context is done or a statement fails: the handler *)
(* returns an error; before "promote" that is Create's last FindByID.       *)
(* SettingsStore.Get and the statements of Skip go on.                     *)
Stop(r) ==
    /\ Active(r) /\ at[r] \notin {"fetch", "fill", "belt", "activate", "revoke"}
    /\ Read(r, at[r], "stopped", req[r])
-----------------------------------------------------------------------------
(* SettingsStore. *)

(* Get finds the key in the cache, which nobody is writing. *)
ReadCached(r) ==
    /\ mutex = None /\ cache # ""
    /\ Read(r, "gate", "count", [req[r] EXCEPT !.value = cache])

(* Get misses, and takes the lock. *)
LockCache(r) ==
    /\ Goto(r, "gate", "fetch", req[r])
    /\ mutex = None /\ cache = "" /\ mutex' = r
    /\ UNCHANGED <<users, nextId, sessions, stored, cache, after>>

(* The SELECT under the lock. *)
Fetch(r) == Read(r, "fetch", "fill", [req[r] EXCEPT !.value = stored])

(* Mutant: the failing Get returns without unlocking. *)
FetchFailsLocked(r) == Read(r, "fetch", "count", req[r])

(* The SELECT fails: Get returns "" and caches nothing. *)
FetchFails(r) ==
    /\ Goto(r, "fetch", "count", req[r]) /\ mutex' = None
    /\ UNCHANGED <<users, nextId, sessions, stored, cache, after>>

Fill(r) ==
    /\ Goto(r, "fill", "count", req[r])
    /\ cache' = req[r].value /\ mutex' = None
    /\ UNCHANGED <<users, nextId, sessions, stored, after>>

(* SetSetting, by user 1 only. *)
StartSet(r, v) ==
    /\ 1 \in SignedIn
    /\ Start(r, "store", [NoLocal EXCEPT !.op = "set", !.value = v])

Store(r) ==
    /\ Goto(r, "store", "refresh", req[r]) /\ stored' = req[r].value
    /\ UNCHANGED <<users, nextId, sessions, cache, mutex, after>>

(* Mutant: Set writes the database and leaves what is cached. *)
RefreshIfUnread(r) ==
    /\ Goto(r, "refresh", "done", req[r]) /\ mutex = None
    /\ cache' = IF cache = "" THEN req[r].value ELSE cache
    /\ UNCHANGED <<users, nextId, sessions, stored, mutex, after>>

(* The cache is written once nobody reads or fills it. *)
Refresh(r) ==
    /\ Goto(r, "refresh", "done", req[r]) /\ mutex = None
    /\ cache' = req[r].value
    /\ UNCHANGED <<users, nextId, sessions, stored, mutex, after>>
-----------------------------------------------------------------------------
(* Registration. *)

(* The form is valid, and the name is not reserved. *)
StartRegister(r, n) ==
    Start(r, "find", [NoLocal EXCEPT !.op = "register", !.name = n, !.secret = r])

FindTaken(r) ==
    Read(r, "find", IF NameTaken(req[r].name) THEN "stopped" ELSE "gate", req[r])

(* Mutant: the bootstrap also takes the second user. *)
CountToOne(r) ==
    Read(r, "count", "id", [req[r] EXCEPT !.first = Cardinality(DOMAIN users) <= 1])

(* SELECT COUNT of the users there are. *)
Count(r) == Read(r, "count", "id", [req[r] EXCEPT !.first = DOMAIN users = {}])

(* The INSERT takes an id, which stays taken if it then fails. *)
TakeId(r) ==
    /\ Goto(r, "id", "insert", [req[r] EXCEPT !.user = nextId])
    /\ nextId <= MaxUsers /\ nextId' = nextId + 1
    /\ UNCHANGED <<users, sessions, stored, cache, mutex, after>>

(* The row of a new user. *)
NewRow(r) ==
    [name |-> req[r].name, secret |-> r, banned |-> FALSE, by |-> r,
     power |-> IF req[r].first THEN 100 ELSE 10,
     status |-> IF ~req[r].first /\ req[r].value = "true" THEN "pending" ELSE "active"]

(* The rest of the INSERT, with its UNIQUE index on the name. *)
InsertUser(r) ==
    /\ Goto(r, "insert", IF req[r].user = 1 THEN "belt" ELSE "session", req[r])
    /\ ~NameTaken(req[r].name)
    /\ users' = [u \in DOMAIN users \cup {req[r].user} |->
                    IF u \in DOMAIN users THEN users[u] ELSE NewRow(r)]
    /\ UNCHANGED <<nextId, sessions, stored, cache, mutex, after>>

(* UserStore.Create makes user 1 Owner and active ... *)
Belt(r) ==
    /\ Goto(r, "belt", "promote", req[r])
    /\ users' = [users EXCEPT ![1] = [@ EXCEPT !.power = 100, !.status = "active"]]
    /\ UNCHANGED <<nextId, sessions, stored, cache, mutex, after>>

(* ... and Register does it again. *)
Promote(r) == Update(r, "promote", "activate", "power", 100)
Activate(r) == Update(r, "activate", "session", "status", "active")
-----------------------------------------------------------------------------
(* Sessions. *)

(* SessionStore.Create, for Register and Login. *)
CreateSession(r) ==
    /\ Goto(r, "session", "done", req[r])
    /\ sessions' = sessions \cup {[user |-> req[r].user, secret |-> req[r].secret, by |-> r]}
    /\ UNCHANGED <<users, nextId, stored, cache, mutex, after>>

(* A user logs in with the password of the moment. *)
StartLogin(r, u) ==
    Start(r, "check", [NoLocal EXCEPT !.op = "login", !.user = u, !.name = users[u].name,
                                      !.secret = users[u].secret])

(* Mutant: bans are not looked at. *)
CheckPassword(r) ==
    /\ \E u \in DOMAIN users :
          /\ users[u].name = req[r].name /\ users[u].secret = req[r].secret
          /\ Read(r, "check", "session", [req[r] EXCEPT !.user = u])

(* FindByUsername, and the checks on the row it returned. *)
CheckLogin(r) ==
    \E u \in DOMAIN users :
        /\ users[u].name = req[r].name /\ users[u].secret = req[r].secret /\ ~users[u].banned
        /\ Read(r, "check", "session", [req[r] EXCEPT !.user = u])

(* Logout of session s, or its expiry, after which no query finds it. *)
Logout(r, s) ==
    /\ Goto(r, "idle", "done", [NoLocal EXCEPT !.op = "logout", !.user = s.user])
    /\ after' = [after EXCEPT ![r] = {q \in Request : Ended(q)}]
    /\ sessions' = sessions \ {s}
    /\ UNCHANGED <<users, nextId, stored, cache, mutex>>

(* Mutant: only the oldest session is revoked. *)
RevokeFirst(r) ==
    /\ Goto(r, "revoke", "done", req[r])
    /\ sessions' = {s \in sessions : s.user = req[r].user => s.by # None}
    /\ UNCHANGED <<users, nextId, stored, cache, mutex, after>>

(* DELETE of a user's sessions by Ban, Reject and ChangePassword. *)
Revoke(r) ==
    /\ Goto(r, "revoke", "done", req[r])
    /\ sessions' = {s \in sessions : s.user # req[r].user}
    /\ UNCHANGED <<users, nextId, stored, cache, mutex, after>>

(* It fails, or another statement whose error is not looked at: the handler *)
(* goes on and answers that it succeeded.                                   *)
Skip(r) ==
    \/ Read(r, "revoke", "skipped", req[r])
    \/ Read(r, "belt", "promote", req[r])
    \/ Read(r, "promote", "activate", req[r])
    \/ Read(r, "activate", "session", req[r])
-----------------------------------------------------------------------------
(* What users and admins change.  Actor a has a session when it asks. *)

(* ChangePassword with the current password, read again after the start. *)
StartPassword(r, a) ==
    /\ users[a].status = "active"
    /\ Start(r, "verify", [NoLocal EXCEPT !.op = "password", !.user = a,
                                          !.secret = users[a].secret])

Verify(r) ==
    /\ Read(r, "verify", "swap", req[r])
    /\ users[req[r].user].secret = req[r].secret

Swap(r) == Update(r, "swap", "revoke", "secret", r)

(* Admins' one-statement changes, and those that then revoke sessions. *)
StartAdmin(r, a, u, op) ==
    /\ users[a].power >= 75 /\ (op = "ban" => a # u)
    /\ Start(r, IF op \in {"approve", "reject"} THEN "status" ELSE op,
             [NoLocal EXCEPT !.op = op, !.user = u])

Ban(r) == Update(r, "ban", "revoke", "banned", TRUE)
Unban(r) == Update(r, "unban", "done", "banned", FALSE)

SetStatus(r, to, status) == Update(r, "status", to, "status", status)

(* Approve and Reject. *)
Review(r) ==
    IF req[r].op = "approve" THEN SetStatus(r, "done", "active")
                             ELSE SetStatus(r, "revoke", "rejected")

(* SetPower: nobody's own, at most the actor's own, and Owners by user 1. *)
StartPower(r, a, u, p) ==
    /\ users[a].power >= 75 /\ a # u /\ p <= users[a].power /\ (p = 100 => a = 1)
    /\ Start(r, "power", [NoLocal EXCEPT !.op = "power", !.user = u, !.power = p])

SetPower(r) == Update(r, "power", "done", "power", req[r].power)

(* UpdateMe with a new name, or an admin's SetUsername of a lower user. *)
StartRename(r, a, u, n) ==
    /\ users[u].name # n
    /\ \/ a = u /\ users[a].status = "active"
       \/ a # u /\ users[a].power >= 75 /\ users[u].power < users[a].power
    /\ Start(r, "taken", [NoLocal EXCEPT !.op = "rename", !.user = u, !.name = n,
                                         !.own = Fold[n] = Fold[users[u].name]])

(* Mutant: names are compared as they are written. *)
CheckExact(r) == ~NameTaken(req[r].name) /\ Read(r, "taken", "rename", req[r])

(* UsernameExists ignores case; changing the case of one's own name, as it  *)
(* was at the start, is fine.                                               *)
CheckName(r) ==
    /\ req[r].own \/ \A u \in DOMAIN users : Fold[users[u].name] # Fold[req[r].name]
    /\ Read(r, "taken", "rename", req[r])

UpdateUsername(r) ==
    ~NameTaken(req[r].name) /\ Update(r, "rename", "done", "name", req[r].name)
-----------------------------------------------------------------------------
Registering(r) ==
    \/ \E n \in Name : StartRegister(r, n)
    \/ FindTaken(r) \/ ReadCached(r) \/ LockCache(r) \/ Fetch(r) \/ FetchFails(r) \/ Fill(r)
    \/ Count(r) \/ TakeId(r) \/ InsertUser(r) \/ Belt(r) \/ Promote(r) \/ Activate(r)

Sessioning(r) ==
    \/ \E u \in DOMAIN users : StartLogin(r, u)
    \/ CheckLogin(r) \/ CreateSession(r) \/ Revoke(r)
    \/ \E s \in sessions : Logout(r, s)

Changing(r) ==
    \/ \E v \in {"true", "false"} : StartSet(r, v)
    \/ Store(r) \/ Refresh(r) \/ Verify(r) \/ Swap(r) \/ Ban(r) \/ Unban(r) \/ Review(r)
    \/ SetPower(r) \/ CheckName(r) \/ UpdateUsername(r)

(* A request of a user with a session. *)
Asking(r) ==
    \E a \in SignedIn :
        \/ StartPassword(r, a)
        \/ \E u \in DOMAIN users :
              \/ \E op \in {"ban", "unban", "approve", "reject"} : StartAdmin(r, a, u, op)
              \/ \E p \in Power : StartPower(r, a, u, p)
              \/ \E n \in Name : StartRename(r, a, u, n)

Next ==
    \E r \in Request :
        Registering(r) \/ Sessioning(r) \/ Changing(r) \/ Asking(r) \/ Skip(r) \/ Stop(r)

Spec == Init /\ [][Next]_vars
-----------------------------------------------------------------------------
(* Two requests, of which neither had ended when the other began. *)
Overlap(r, s) == at[r] # "idle" /\ at[s] # "idle" /\ r \notin after[s] /\ s \notin after[r]
Doing(op) == {r \in Request : req[r].op = op}
Owner(u) == users[u].power = 100

(* Once there is an account the platform has an active Owner, whatever     *)
(* registrations failed or raced before, as long as nobody changes a power *)
(* or rejects a user: UserStore.Create's bootstrap.                        *)
SomeOwner ==
    DOMAIN users # {} /\ Doing("power") = {} /\ Doing("reject") = {}
        => \E u \in DOMAIN users : Owner(u) /\ users[u].status = "active"

(* A second Owner who was not promoted comes from a registration that      *)
(* overlapped the first's: nothing locks between the COUNT and the INSERT. *)
OwnersOverlap ==
    Doing("power") = {} =>
        \A u, v \in DOMAIN users : u # v /\ Owner(u) /\ Owner(v)
            => {users[u].by, users[v].by} \subseteq Request /\ Overlap(users[u].by, users[v].by)

(* The platform has its Owner, and others only where two registrations raced. *)
FirstOwner == SomeOwner /\ OwnersOverlap

(* A banned user has a session only if the ban could not delete it, or if  *)
(* a login that overlapped the ban created it.                             *)
BannedOut ==
    \A s \in sessions : users[s.user].banned =>
        \E b \in Doing("ban") :
            /\ req[b].user = s.user
            /\ at[b] # "done" \/ (s.by # None /\ Overlap(b, s.by))

(* A session that was opened with a password the user has no more outlives *)
(* the change of it only in the same two ways.                             *)
OldPasswordOut ==
    \A s \in sessions : s.secret # users[s.user].secret =>
        \E c \in Doing("password") :
            /\ req[c].user = s.user
            /\ at[c] # "done" \/ (s.by # None /\ Overlap(c, s.by))

(* A registration obeys the last change of require_approval that had been  *)
(* answered before it began, unless others ran beside either of them or    *)
(* the setting could not be read: the cache is never behind for good.      *)
GateFollowsSettings ==
    \A r \in Doing("register"), s \in Doing("set") :
        LET earlier == {t \in Doing("set") : r \notin after[t]} IN
        req[r].value # "" /\ at[s] = "done" /\ s \in after[r] /\ earlier \ {s} \subseteq after[s]
            => req[r].value = req[s].value

(* A renamed user's name differs from another's by more than case, unless  *)
(* that other got its name while the rename ran or later (Register only    *)
(* looks for the exact name).                                              *)
NamesApart ==
    \A s \in Doing("rename") : LET v == req[s].user IN
        at[s] = "done" /\ ~req[s].own /\ users[v].name = req[s].name =>
            \A u \in DOMAIN users \ {v} : Fold[users[u].name] = Fold[users[v].name] =>
                \E r \in Request \ after[s] :
                    \/ users[u].by = r
                    \/ r \in Doing("rename") /\ req[r].user = u /\ req[r].name = users[u].name
=============================================================================
