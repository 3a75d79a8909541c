--------------------------- MODULE AccountsProofs ---------------------------
(***************************************************************************)
(* Proofs about Accounts.  The invariant says where a request can be that  *)
(* does something, and for each property what an unfinished request must   *)
(* already have for the step that completes it.                            *)
(***************************************************************************)
EXTENDS Accounts, FiniteSetTheorems, TLAPS

(* The statements of a request, and where it ends with its local variables. *)
On(op, here) ==
    /\ op = "" => here \in {"idle", "done", "stopped"}
    /\ op = "register" => here \in {"find", "gate", "fetch", "fill", "count", "id", "insert",
                                    "belt", "promote", "activate", "session", "done"}
    /\ op = "login" => here \in {"check", "session"}
    /\ op = "ban" => here \in {"ban", "revoke", "done", "skipped"}
    /\ op = "unban" => here = "unban"
    /\ op = "approve" => here = "status"
    /\ op = "reject" => here \in {"status", "revoke", "done", "skipped"}
    /\ op = "password" => here \in {"verify", "swap", "revoke", "done", "skipped"}
    /\ op = "rename" => here \in {"taken", "rename", "done"}
    /\ op = "power" => here \in {"power", "done"}
    /\ op = "set" => here \in {"store", "refresh", "done", "stopped"}
    /\ op # "logout"

(* The statements of a request about a user who is there. *)
Known == {"belt", "promote", "activate", "session", "ban", "unban", "status", "revoke", "verify",
          "swap", "taken", "rename", "power"}

Here(r) ==
    LET l == req[r] IN
    /\ On(l.op, at[r])
    /\ l.op = "register" /\ at[r] # "done" => l.secret = r
    /\ l.op = "set" => l.value # ""
    /\ at[r] \in Known => l.user \in DOMAIN users
    /\ at[r] \in {"belt", "promote", "activate"} => l.user = 1
    /\ at[r] = "insert" => /\ l.user \in Id /\ l.user < nextId /\ l.user \notin DOMAIN users
                           /\ \A s \in Request \ {r} : at[s] = "insert" => req[s].user # l.user

Typed ==
    /\ TypeOK
    /\ mutex # None => cache = ""
    /\ \A r \in Request : Here(r) /\ \A s \in after[r] : Ended(s)

(* The bootstrap: whoever finds no user is first, and so is whoever takes  *)
(* id 1; a first registration runs beside every other that inserts.        *)
NoPowers == \A r \in Request : req[r].op = "power" => at[r] = "power"
NoRejections == \A r \in Request : req[r].op = "reject" => at[r] = "status"
Leads(r) ==
    /\ at[r] \in {"id", "insert"} /\ DOMAIN users = {} => req[r].first
    /\ at[r] = "insert" /\ req[r].user = 1 => req[r].first
    /\ at[r] \in {"id", "insert"} /\ req[r].first =>
          \A u \in DOMAIN users : users[u].by \in Request /\ Overlap(users[u].by, r)
    /\ at[r] \in {"belt", "promote", "activate"} /\ NoPowers => Owner(1)

Bootstrapped ==
    /\ \A r \in Request : Leads(r)
    /\ DOMAIN users # {} /\ NoPowers /\ NoRejections
          => \E u \in DOMAIN users : Owner(u) /\ users[u].status = "active"
    /\ NoPowers => \A u, v \in DOMAIN users : u # v /\ Owner(u) /\ Owner(v)
          => {users[u].by, users[v].by} \subseteq Request /\ Overlap(users[u].by, users[v].by)

(* A session, or one about to be opened, that should not be there any more *)
(* is explained by a ban or a change of password.                          *)
Stale(op, u, secret) ==
    IF op = "ban" THEN users[u].banned ELSE secret # users[u].secret
Acted(op, b, u) ==
    req[b].op = op /\ req[b].user = u /\ at[b] \in {"revoke", "skipped", "done"}
Explained(op) ==
    /\ \A s \in sessions : Stale(op, s.user, s.secret) =>
          \E b \in Request : Acted(op, b, s.user)
                             /\ (at[b] # "done" \/ (s.by # None /\ Overlap(b, s.by)))
    /\ \A r \in Request : at[r] \in {"belt", "promote", "activate", "session"} =>
          (Stale(op, req[r].user, req[r].secret) =>
              \E b \in Request : Acted(op, b, req[r].user) /\ Overlap(b, r))

(* Changes of the setting that have reached the database.                  *)
Wrote == {t \in Request : req[t].op = "set" /\ at[t] # "store"}
Set(s) == req[s].op = "set" /\ at[s] = "done"
Cached(s) == Set(s) /\ Wrote \ {s} \subseteq after[s] => cache = req[s].value
Obeyed(r, s) ==
    /\ req[r].op = "register" /\ req[r].value # "" /\ Set(s) /\ s \in after[r]
    /\ {t \in Wrote : r \notin after[t]} \ {s} \subseteq after[s]
    => req[r].value = req[s].value
Followed == \A s \in Request : Cached(s) /\ \A r \in Request : Obeyed(r, s)

(* Who gave user u its name. *)
Named(r, u) ==
    \/ users[u].by = r
    \/ req[r].op = "rename" /\ at[r] = "done" /\ req[r].user = u /\ req[r].name = users[u].name
Apart(s) ==
    req[s].op = "rename" /\ at[s] \in {"rename", "done"} /\ ~req[s].own =>
        \A u \in DOMAIN users \ {req[s].user} : Fold[users[u].name] = Fold[req[s].name] =>
            \E r \in Request \ after[s] : Named(r, u)

IInv ==
    /\ Typed /\ Bootstrapped /\ Explained("ban") /\ Explained("password") /\ Followed
    /\ \A s \in Request : Apart(s)
-----------------------------------------------------------------------------
(* What a step is and what it changes. *)

Acts(r) == Registering(r) \/ Sessioning(r) \/ Changing(r) \/ Asking(r) \/ Skip(r) \/ Stop(r)

LEMMA NoLocalType ==
    /\ NoLocal \in Local /\ NoLocal.op = "" /\ NoLocal.value = "" /\ NoLocal.user = 0
    /\ ~NoLocal.first /\ ~NoLocal.own
BY AccountsAssumption DEF NoLocal, Local, Op, Value, Secret, Id

LEMMA KeptCases ==
    ASSUME NEW from, NEW to, NEW l \in Local
    PROVE  /\ Kept(from, to, l) \in Local
           /\ to \notin {"stopped", "done"} => Kept(from, to, l) = l
           /\ to = "stopped" =>
                 Kept(from, to, l) = IF from = "refresh" THEN l ELSE NoLocal
           /\ to = "done" =>
                 /\ l.op \in {"login", "logout", "unban", "approve"} => Kept(from, to, l) = NoLocal
                 /\ l.op \notin {"login", "logout", "unban", "approve", "register"}
                       => Kept(from, to, l) = l
                 /\ l.op = "register" => /\ Kept(from, to, l).op = "register"
                                         /\ Kept(from, to, l).value = l.value
<1>1. CASE to = "done" /\ l.op = "register"
  <2>1. Kept(from, to, l) = [NoLocal EXCEPT !.op = l.op, !.value = l.value]
    BY <1>1 DEF Kept
  <2>2. Kept(from, to, l) \in Local /\ Kept(from, to, l).op = l.op /\ Kept(from, to, l).value = l.value
    BY <2>1, NoLocalType DEF Local
  <2>3. QED  BY <1>1, <2>2
<1>2. CASE ~(to = "done" /\ l.op = "register")
  BY <1>2, NoLocalType DEF Kept
<1>3. QED  BY <1>1, <1>2

(* A request moves on and the others stay. *)
LEMMA Moves ==
    ASSUME Typed, NEW r \in Request, NEW from, NEW to \in Label, NEW l \in Local,
           Goto(r, from, to, l)
    PROVE  /\ at' \in [Request -> Label] /\ req' \in [Request -> Local]
           /\ at[r] = from /\ at'[r] = to /\ req'[r] = Kept(from, to, l)
           /\ \A s \in Request \ {r} : at'[s] = at[s] /\ req'[s] = req[s]
<1> DEFINE k == Kept(from, to, l)
<1>1. k \in Local
  BY KeptCases
<1>2. QED  BY <1>1 DEF Goto, Typed, TypeOK

(* It goes on with what it has, is stopped, or is done. *)
LEMMA GoesOn ==
    ASSUME Typed, NEW r \in Request, NEW from, NEW to \in Label, NEW l \in Local,
           Goto(r, from, to, l), to \notin {"stopped", "done"}
    PROVE  req'[r] = l
<1>1. req'[r] = Kept(from, to, l)
  BY Moves
<1>2. Kept(from, to, l) = l
  BY KeptCases
<1>3. QED  BY <1>1, <1>2

LEMMA IsStopped ==
    ASSUME Typed, NEW r \in Request, NEW from, NEW l \in Local, Goto(r, from, "stopped", l)
    PROVE  req'[r] = IF from = "refresh" THEN l ELSE NoLocal
<1>1. req'[r] = Kept(from, "stopped", l)
  BY Moves DEF Label
<1>2. QED  BY <1>1 DEF Kept

LEMMA IsDone ==
    ASSUME Typed, NEW r \in Request, NEW from, NEW l \in Local, Goto(r, from, "done", l)
    PROVE  /\ l.op \in {"login", "logout", "unban", "approve"} => req'[r] = NoLocal
           /\ l.op \notin {"login", "logout", "unban", "approve", "register"} => req'[r] = l
           /\ l.op = "register" => req'[r].op = "register" /\ req'[r].value = l.value
<1>1. "done" \in Label
  BY DEF Label
<1>2. req'[r] = Kept(from, "done", l)
  BY <1>1, Moves
<1>3. QED  BY <1>2, KeptCases

(* The tables of users and sessions. *)
Rows ==
    /\ DOMAIN users \subseteq Id /\ \A u \in DOMAIN users : users[u] \in Account
    /\ \A u, v \in DOMAIN users : users[u].name = users[v].name => u = v
    /\ nextId \in 1..(MaxUsers + 1) /\ \A u \in DOMAIN users : u < nextId
    /\ sessions \subseteq Session /\ \A s \in sessions : s.user \in DOMAIN users

LEMMA NextIdType ==
    ASSUME NEW n, n \in 1..(MaxUsers + 1)
    PROVE  n \in Nat /\ n <= MaxUsers + 1
<1>1. MaxUsers \in Nat
  BY AccountsAssumption
<1>2. QED  BY <1>1

LEMMA LaterId ==
    ASSUME NEW a \in Nat, NEW b \in Nat, NEW c \in Nat, a < b, b <= c
    PROVE  a < c
OBVIOUS

LEMMA SameId ==
    ASSUME NEW a, NEW b, a \in 1..(MaxUsers + 1), b = a
    PROVE  a <= b
BY NextIdType

LEMMA IdType ==
    ASSUME NEW u \in Id
    PROVE  u \in Nat /\ 1 <= u
<1>1. MaxUsers \in Nat
  BY AccountsAssumption
<1>2. QED  BY <1>1 DEF Id

LEMMA MoveTyped ==
    ASSUME Typed, NEW r \in Request, NEW from, NEW to \in Label, NEW l \in Local,
           Goto(r, from, to, l), from \notin {"done", "skipped", "stopped"},
           Rows', DOMAIN users \subseteq DOMAIN users', nextId <= nextId',
           \A u \in DOMAIN users' \ DOMAIN users : from = "insert" /\ u = req[r].user,
           stored' \in Value \ {""}, cache' \in Value, mutex' \in Request \cup {None},
           mutex' = r <=> to \in {"fetch", "fill"},
           \A s \in Request \ {r} : mutex' = s <=> mutex = s,
           mutex' # None => cache' = "",
           after' = after \/ after' = [after EXCEPT ![r] = {s \in Request : Ended(s)}],
           Here(r)'
    PROVE  Typed'
<1>1. /\ at' \in [Request -> Label] /\ req' \in [Request -> Local]
      /\ at[r] = from /\ at'[r] = to
      /\ \A s \in Request \ {r} : at'[s] = at[s] /\ req'[s] = req[s]
  BY Moves
<1>2. ASSUME NEW s \in Request, s # r
      PROVE  Here(s)'
  <2>1. at'[s] = at[s] /\ req'[s] = req[s] /\ Here(s) /\ Here(r)
    BY <1>1, <1>2 DEF Typed
  <2>2. (at[s] \in Known => req[s].user \in DOMAIN users') /\ Known' = Known
    BY <2>1 DEF Here, Known
  <2>3. ASSUME at[s] = "insert"
        PROVE  /\ req[s].user \in Id /\ req[s].user < nextId' /\ req[s].user \notin DOMAIN users'
               /\ \A q \in Request \ {s} : at'[q] = "insert" => req'[q].user # req[s].user
    <3>1. /\ req[s].user \in Id /\ req[s].user < nextId /\ req[s].user \notin DOMAIN users
          /\ \A q \in Request \ {s} : at[q] = "insert" => req[q].user # req[s].user
      BY <2>1, <2>3 DEF Here
    <3>2. req[s].user \in Id /\ req[s].user < nextId'
      <4>1. nextId \in 1..(MaxUsers + 1) /\ nextId' \in 1..(MaxUsers + 1)
        BY DEF Typed, TypeOK, Rows
      <4>2. nextId \in Nat /\ nextId' \in Nat /\ req[s].user \in Nat
        BY <3>1, <4>1, NextIdType, IdType
      <4>3. req[s].user < nextId'
        BY ONLY <3>1, <4>2, LaterId, nextId <= nextId'
      <4>4. QED  BY <3>1, <4>3
    <3>3. req[s].user \notin DOMAIN users'
      BY <3>1, <1>1, <1>2
    <3>4. ASSUME NEW q \in Request \ {s}, at'[q] = "insert"
          PROVE  req'[q].user # req[s].user
      <4>1. CASE q = r
        BY <4>1, <3>4, <2>1, <2>3, <1>2 DEF Here
      <4>2. CASE q # r
        BY <4>2, <3>4, <3>1, <1>1
      <4>3. QED  BY <4>1, <4>2
    <3>5. QED  BY <3>2, <3>3, <3>4
  <2>4. QED  BY <2>1, <2>2, <2>3 DEF Here
<1>3. /\ after' \in [Request -> SUBSET Request]
      /\ \A s \in Request : \A q \in after'[s] : q \in Request /\ Ended(q)
  <2>1. /\ after \in [Request -> SUBSET Request]
        /\ \A s \in Request : \A q \in after[s] : q \in Request /\ Ended(q)
    BY DEF Typed, TypeOK
  <2>2. CASE after' = after
    BY <2>1, <2>2
  <2>3. CASE after' = [after EXCEPT ![r] = {s \in Request : Ended(s)}]
    BY <2>1, <2>3
  <2>4. QED  BY <2>2, <2>3
<1>4. \A q \in Request : Ended(q) => Ended(q)'
  BY <1>1 DEF Ended
<1>5. \A q \in Request : mutex' = q <=> at'[q] \in {"fetch", "fill"}
  BY <1>1 DEF Typed, TypeOK
<1>6. TypeOK'
  BY <1>1, <1>3, <1>5 DEF TypeOK, Rows
<1>7. QED  BY <1>2, <1>3, <1>4, <1>6 DEF Typed

LEMMA ReadTyped ==
    ASSUME Typed, NEW r \in Request, NEW from, NEW to \in Label, NEW l \in Local,
           Goto(r, from, to, l), UNCHANGED Data, from \notin {"done", "skipped", "stopped"},
           from \in {"fetch", "fill"} <=> to \in {"fetch", "fill"},
           after' = after \/ after' = [after EXCEPT ![r] = {s \in Request : Ended(s)}],
           Here(r)'
    PROVE  Typed'
<1>1. Rows' /\ at[r] = from
  BY DEF Typed, TypeOK, Rows, Data, Goto
<1>2. UNCHANGED <<users, nextId, stored, cache, mutex>>
  BY DEF Data
<1>3. /\ stored' \in Value \ {""} /\ cache' \in Value /\ mutex' \in Request \cup {None}
      /\ mutex' # None => cache' = ""
      /\ mutex' = r <=> to \in {"fetch", "fill"}
      /\ nextId <= nextId'
  <2>1. nextId \in Nat
    BY NextIdType DEF Typed, TypeOK
  <2>2. mutex = r <=> at[r] \in {"fetch", "fill"}
    BY DEF Typed, TypeOK
  <2>3. stored \in Value \ {""} /\ cache \in Value /\ mutex \in Request \cup {None}
        /\ (mutex # None => cache = "")
    BY DEF Typed, TypeOK
  <2>4. nextId <= nextId'
    BY <1>2, <2>1
  <2>5. QED  BY <1>1, <1>2, <2>2, <2>3, <2>4
<1>4. /\ DOMAIN users \subseteq DOMAIN users' /\ DOMAIN users' \ DOMAIN users = {}
      /\ \A s \in Request \ {r} : mutex' = s <=> mutex = s
  BY <1>2
<1>5. QED  BY <1>1, <1>3, <1>4, MoveTyped

(* What a handler starts with. *)
Opening(r, l, first) ==
    \/ l.op = "register" /\ first = "find" /\ l.secret = r /\ l.value = ""
    \/ l.op = "login" /\ first = "check"
    \/ l.op = "set" /\ first = "store" /\ l.value # ""
    \/ /\ l.user \in DOMAIN users
       /\ \/ l.op = "password" /\ first = "verify"
          \/ l.op \in {"ban", "unban", "power"} /\ first = l.op
          \/ l.op \in {"approve", "reject"} /\ first = "status"
          \/ l.op = "rename" /\ first = "taken"

Begins(r) == \E l \in Local, first \in Label : Start(r, first, l) /\ Opening(r, l, first)

(* The statements after the start. *)
Reads(r) ==
    \/ FindTaken(r) \/ ReadCached(r) \/ LockCache(r) \/ Fetch(r) \/ FetchFails(r) \/ Fill(r)
    \/ Count(r) \/ TakeId(r) \/ CheckLogin(r) \/ CreateSession(r) \/ Revoke(r)
    \/ Store(r) \/ Refresh(r) \/ Verify(r) \/ CheckName(r) \/ Skip(r) \/ Stop(r)
Writes(r) ==
    \/ InsertUser(r) \/ Belt(r) \/ Promote(r) \/ Activate(r) \/ Swap(r) \/ Ban(r) \/ Unban(r)
    \/ Review(r) \/ SetPower(r) \/ UpdateUsername(r)

LEMMA AccountFields ==
    ASSUME Typed, NEW u \in DOMAIN users
    PROVE  /\ u \in Id /\ users[u] \in Account
           /\ users[u].name \in Name /\ users[u].secret \in Secret
           /\ users[u].power \in Power /\ users[u].by \in Request \cup {None}
BY DEF Typed, TypeOK, Account

LEMMA ActsSplit ==
    ASSUME Typed, NEW r \in Request, Acts(r)
    PROVE  Begins(r) \/ (\E s \in sessions : Logout(r, s)) \/ Reads(r) \/ Writes(r)
<1> USE NoLocalType
<1>1. CASE \E n \in Name : StartRegister(r, n)
  <2>1. PICK n \in Name : StartRegister(r, n)
    BY <1>1
  <2> DEFINE l == [NoLocal EXCEPT !.op = "register", !.name = n, !.secret = r]
  <2>2. l \in Local /\ l.op = "register" /\ l.secret = r /\ l.value = ""
    BY DEF Local, Op, Secret
  <2>3. Start(r, "find", l) /\ "find" \in Label
    BY <2>1 DEF StartRegister, Label
  <2>4. QED  BY <2>2, <2>3 DEF Begins, Opening
<1>2. CASE \E u \in DOMAIN users : StartLogin(r, u)
  <2>1. PICK u \in DOMAIN users : StartLogin(r, u)
    BY <1>2
  <2> DEFINE l == [NoLocal EXCEPT !.op = "login", !.user = u, !.name = users[u].name,
                                  !.secret = users[u].secret]
  <2>2. l \in Local /\ l.op = "login"
    BY AccountFields DEF Local, Op
  <2>3. Start(r, "check", l) /\ "check" \in Label
    BY <2>1 DEF StartLogin, Label
  <2>4. QED  BY <2>2, <2>3 DEF Begins, Opening
<1>3. CASE \E v \in {"true", "false"} : StartSet(r, v)
  <2>1. PICK v \in {"true", "false"} : StartSet(r, v)
    BY <1>3
  <2> DEFINE l == [NoLocal EXCEPT !.op = "set", !.value = v]
  <2>2. l \in Local /\ l.op = "set" /\ l.value # ""
    BY DEF Local, Op, Value
  <2>3. Start(r, "store", l) /\ "store" \in Label
    BY <2>1 DEF StartSet, Label
  <2>4. QED  BY <2>2, <2>3 DEF Begins, Opening
<1>4. CASE Asking(r)
  <2>1. PICK a \in SignedIn :
            \/ StartPassword(r, a)
            \/ \E u \in DOMAIN users :
                  \/ \E op \in {"ban", "unban", "approve", "reject"} : StartAdmin(r, a, u, op)
                  \/ \E p \in Power : StartPower(r, a, u, p)
                  \/ \E n \in Name : StartRename(r, a, u, n)
    BY <1>4 DEF Asking
  <2>2. a \in DOMAIN users
    BY DEF SignedIn, Typed, TypeOK
  <2>3. CASE StartPassword(r, a)
    <3> DEFINE l == [NoLocal EXCEPT !.op = "password", !.user = a, !.secret = users[a].secret]
    <3>1. l \in Local /\ l.op = "password" /\ l.user \in DOMAIN users
      BY <2>2, AccountFields DEF Local, Op
    <3>2. Start(r, "verify", l) /\ "verify" \in Label
      BY <2>3 DEF StartPassword, Label
    <3>3. QED  BY <3>1, <3>2 DEF Begins, Opening
  <2>4. ASSUME NEW u \in DOMAIN users, NEW op \in {"ban", "unban", "approve", "reject"},
               StartAdmin(r, a, u, op)
        PROVE  Begins(r)
    <3> DEFINE l == [NoLocal EXCEPT !.op = op, !.user = u]
               first == IF op \in {"approve", "reject"} THEN "status" ELSE op
    <3>1. l \in Local /\ l.op = op /\ l.user \in DOMAIN users
      BY AccountFields DEF Local, Op
    <3>2. Start(r, first, l)
      BY <2>4 DEF StartAdmin
    <3>3. first \in Label /\ Opening(r, l, first)
      BY <3>1 DEF Opening, Label
    <3>4. QED  BY <3>1, <3>2, <3>3 DEF Begins
  <2>5. ASSUME NEW u \in DOMAIN users, NEW p \in Power, StartPower(r, a, u, p)
        PROVE  Begins(r)
    <3> DEFINE l == [NoLocal EXCEPT !.op = "power", !.user = u, !.power = p]
    <3>1. l \in Local /\ l.op = "power" /\ l.user \in DOMAIN users
      BY AccountFields DEF Local, Op
    <3>2. Start(r, "power", l) /\ "power" \in Label
      BY <2>5 DEF StartPower, Label
    <3>3. QED  BY <3>1, <3>2 DEF Begins, Opening
  <2>6. ASSUME NEW u \in DOMAIN users, NEW n \in Name, StartRename(r, a, u, n)
        PROVE  Begins(r)
    <3> DEFINE l == [NoLocal EXCEPT !.op = "rename", !.user = u, !.name = n,
                                    !.own = Fold[n] = Fold[users[u].name]]
    <3>1. l \in Local /\ l.op = "rename" /\ l.user \in DOMAIN users
      BY AccountFields DEF Local, Op
    <3>2. Start(r, "taken", l) /\ "taken" \in Label
      BY <2>6 DEF StartRename, Label
    <3>3. QED  BY <3>1, <3>2 DEF Begins, Opening
  <2>7. QED  BY <2>1, <2>3, <2>4, <2>5, <2>6
<1>5. QED
  BY <1>1, <1>2, <1>3, <1>4 DEF Acts, Registering, Sessioning, Changing, Reads, Writes
-----------------------------------------------------------------------------
(* Types and positions. *)

LEMMA BeginsTyped ==
    ASSUME Typed, NEW r \in Request, Begins(r)
    PROVE  Typed'
<1>1. PICK l \in Local, first \in Label : Start(r, first, l) /\ Opening(r, l, first)
  BY DEF Begins
<1>2. /\ Goto(r, "idle", first, l) /\ UNCHANGED Data
      /\ after' = [after EXCEPT ![r] = {s \in Request : Ended(s)}]
  BY <1>1 DEF Start
<1>3. first \notin {"stopped", "done", "fetch", "fill", "insert", "belt", "promote", "activate"}
  BY <1>1 DEF Opening
<1>4. at'[r] = first /\ req'[r] = l
  BY <1>2, <1>3, Moves, GoesOn
<1>5. users' = users
  BY <1>2 DEF Data
<1>6. Here(r)'
  BY <1>1, <1>3, <1>4, <1>5 DEF Opening, Here, On, Known
<1>7. QED  BY <1>2, <1>3, <1>6, ReadTyped

LEMMA LogoutTyped ==
    ASSUME Typed, NEW r \in Request, NEW s \in sessions, Logout(r, s)
    PROVE  Typed'
<1> DEFINE l == [NoLocal EXCEPT !.op = "logout", !.user = s.user]
<1>1. l \in Local /\ l.op = "logout"
  BY NoLocalType DEF Local, Op, Typed, TypeOK, Session
<1>2. /\ Goto(r, "idle", "done", l) /\ UNCHANGED <<users, nextId, stored, cache, mutex>>
      /\ sessions' \subseteq sessions /\ "done" \in Label
      /\ after' = [after EXCEPT ![r] = {q \in Request : Ended(q)}]
  BY DEF Logout, Label
<1> HIDE DEF l
<1>3. at[r] = "idle" /\ at'[r] = "done" /\ req'[r] = NoLocal
  BY <1>1, <1>2, Moves, IsDone
<1>4. Here(r)'
  BY <1>3, NoLocalType DEF Here, On, Known
<1>5. Rows'
  BY <1>2 DEF Typed, TypeOK, Rows
<1>6. /\ stored' \in Value \ {""} /\ cache' \in Value /\ mutex' \in Request \cup {None}
      /\ (mutex' # None => cache' = "") /\ mutex' # r
  BY <1>2, <1>3 DEF Typed, TypeOK
<1>7. nextId <= nextId' /\ (mutex' = r <=> "done" \in {"fetch", "fill"})
  <2>1. nextId <= nextId'
    BY <1>2, SameId DEF Typed, TypeOK
  <2>2. QED  BY <1>2, <1>6, <2>1
<1>8. DOMAIN users \subseteq DOMAIN users' /\ DOMAIN users' \ DOMAIN users = {}
  BY <1>2
<1>9. QED
  BY <1>1, <1>2, <1>4, <1>5, <1>6, <1>7, <1>8, MoveTyped

(* A statement that touches neither users nor nextId. *)
LEMMA QuietTyped ==
    ASSUME Typed, NEW r \in Request, NEW from, NEW to \in Label, NEW l \in Local,
           Goto(r, from, to, l), from \notin {"done", "skipped", "stopped"},
           UNCHANGED <<users, nextId, after>>,
           sessions' \subseteq Session, \A s \in sessions' : s.user \in DOMAIN users,
           stored' \in Value \ {""}, cache' \in Value, mutex' \in Request \cup {None},
           mutex' = r <=> to \in {"fetch", "fill"},
           \A s \in Request \ {r} : mutex' = s <=> mutex = s,
           mutex' # None => cache' = "",
           Here(r)'
    PROVE  Typed'
<1>1. Rows'
  BY DEF Typed, TypeOK, Rows
<1>2. nextId <= nextId'
  <2>1. nextId \in Nat
    BY NextIdType DEF Typed, TypeOK
  <2>2. nextId' = nextId
    OBVIOUS
  <2>3. QED  BY ONLY <2>1, <2>2
<1>3. DOMAIN users \subseteq DOMAIN users' /\ DOMAIN users' \ DOMAIN users = {}
  OBVIOUS
<1>4. QED  BY <1>1, <1>2, <1>3, MoveTyped

LEMMA LocalFields ==
    ASSUME Typed, NEW r \in Request
    PROVE  /\ req[r] \in Local /\ req[r].op \in Op /\ req[r].user \in Id \cup {0}
           /\ req[r].name \in Name /\ req[r].secret \in Secret /\ req[r].power \in Power
           /\ req[r].value \in Value /\ req[r].first \in BOOLEAN /\ req[r].own \in BOOLEAN
           /\ at[r] \in Label
BY DEF Typed, TypeOK, Local

LEMMA Stays ==
    ASSUME Typed, NEW r \in Request, NEW from, NEW to \in Label \ {"stopped", "done"},
           Goto(r, from, to, req[r])
    PROVE  at[r] = from /\ at'[r] = to /\ req'[r] = req[r]
<1>1. req[r] \in Local
  BY LocalFields
<1>2. at[r] = from /\ at'[r] = to
  BY <1>1, Moves
<1>3. req'[r] = req[r]
  BY <1>1, GoesOn
<1>4. QED
  BY <1>2, <1>3

LEMMA StoredFields ==
    ASSUME Typed
    PROVE  /\ stored \in Value \ {""} /\ cache \in Value /\ mutex \in Request \cup {None}
           /\ (mutex # None => cache = "") /\ None \notin Request
           /\ sessions \subseteq Session /\ \A s \in sessions : s.user \in DOMAIN users
           /\ \A r \in Request : mutex = r <=> at[r] \in {"fetch", "fill"}
BY AccountsAssumption DEF Typed, TypeOK

LEMMA SettingsTyped ==
    ASSUME Typed, NEW r \in Request,
           LockCache(r) \/ FetchFails(r) \/ Fill(r) \/ Store(r) \/ Refresh(r)
    PROVE  Typed'
<1>1. Here(r)
  BY DEF Typed
<1>2. CASE LockCache(r)
  <2>1. Goto(r, "gate", "fetch", req[r]) /\ "fetch" \in Label /\ UNCHANGED users
    BY <1>2 DEF LockCache, Label
  <2>2. at[r] = "gate" /\ at'[r] = "fetch" /\ req'[r] = req[r]
    BY <2>1, Stays
  <2>3. Here(r)'
    BY <1>1, <2>1, <2>2 DEF Here, On, Known
  <2>4. QED
    BY <1>2, <2>1, <2>2, <2>3, QuietTyped, LocalFields, StoredFields DEF LockCache
<1>3. CASE FetchFails(r)
  <2>1. Goto(r, "fetch", "count", req[r]) /\ "count" \in Label /\ UNCHANGED users
    BY <1>3 DEF FetchFails, Label
  <2>2. at[r] = "fetch" /\ at'[r] = "count" /\ req'[r] = req[r]
    BY <2>1, Stays
  <2>3. Here(r)'
    BY <1>1, <2>1, <2>2 DEF Here, On, Known
  <2>4. QED
    BY <1>3, <2>1, <2>2, <2>3, QuietTyped, LocalFields, StoredFields DEF FetchFails
<1>4. CASE Fill(r)
  <2>1. Goto(r, "fill", "count", req[r]) /\ "count" \in Label /\ UNCHANGED users
    BY <1>4 DEF Fill, Label
  <2>2. at[r] = "fill" /\ at'[r] = "count" /\ req'[r] = req[r]
    BY <2>1, Stays
  <2>3. Here(r)'
    BY <1>1, <2>1, <2>2 DEF Here, On, Known
  <2>4. QED
    BY <1>4, <2>1, <2>2, <2>3, QuietTyped, LocalFields, StoredFields DEF Fill
<1>5. CASE Store(r)
  <2>1. Goto(r, "store", "refresh", req[r]) /\ "refresh" \in Label /\ UNCHANGED users
    BY <1>5 DEF Store, Label
  <2>2. at[r] = "store" /\ at'[r] = "refresh"
    BY <2>1, LocalFields, Moves
  <2>3. req[r].op = "set" /\ req[r].value # ""
    BY <1>1, <2>2, LocalFields DEF Here, On, Op
  <2>4. req'[r] = req[r]
    BY <2>1, <2>3, LocalFields, GoesOn, IsDone
  <2>5. Here(r)'
    BY <1>1, <2>1, <2>2, <2>3, <2>4 DEF Here, On, Known
  <2>6. QED
    BY <1>5, <2>1, <2>2, <2>3, <2>5, QuietTyped, LocalFields, StoredFields DEF Store
<1>6. CASE Refresh(r)
  <2>1. Goto(r, "refresh", "done", req[r]) /\ "done" \in Label /\ UNCHANGED users
    BY <1>6 DEF Refresh, Label
  <2>2. at[r] = "refresh" /\ at'[r] = "done"
    BY <2>1, LocalFields, Moves
  <2>3. req[r].op = "set" /\ req[r].value # ""
    BY <1>1, <2>2, LocalFields DEF Here, On, Op
  <2>4. req'[r] = req[r]
    BY <2>1, <2>3, LocalFields, GoesOn, IsDone
  <2>5. Here(r)'
    BY <1>1, <2>1, <2>2, <2>3, <2>4 DEF Here, On, Known
  <2>6. QED
    BY <1>6, <2>1, <2>2, <2>3, <2>5, QuietTyped, LocalFields, StoredFields DEF Refresh
<1>7. QED  BY <1>2, <1>3, <1>4, <1>5, <1>6


(* Reads leave the tables and the cache alone. *)
LEMMA PlainTyped ==
    ASSUME Typed, NEW r \in Request, NEW from, NEW to \in Label, NEW l \in Local,
           Read(r, from, to, l), from \notin {"done", "skipped", "stopped"},
           from \in {"fetch", "fill"} <=> to \in {"fetch", "fill"},
           Here(r)'
    PROVE  Typed'
BY ReadTyped DEF Read

LEMMA ReadSteps ==
    ASSUME Typed, NEW r \in Request, NEW from, NEW to \in Label, NEW l \in Local,
           Read(r, from, to, l)
    PROVE  /\ at[r] = from /\ at'[r] = to /\ UNCHANGED users /\ Here(r)
           /\ to \notin {"stopped", "done"} => req'[r] = l
<1>1. Goto(r, from, to, l) /\ UNCHANGED users
  BY DEF Read, Data
<1>2. QED  BY <1>1, Moves, GoesOn DEF Typed

LEMMA ReadsTyped ==
    ASSUME Typed, NEW r \in Request,
           \/ FindTaken(r) \/ ReadCached(r) \/ Fetch(r) \/ Count(r) \/ CheckLogin(r)
           \/ Verify(r) \/ CheckName(r) \/ Skip(r) \/ Stop(r)
    PROVE  Typed'
<1>1. CASE FindTaken(r)
  <2> DEFINE to == IF NameTaken(req[r].name) THEN "stopped" ELSE "gate"
  <2>1. to \in Label /\ Read(r, "find", to, req[r]) /\ req[r] \in Local
    BY <1>1, LocalFields DEF FindTaken, Label
  <2>2. at[r] = "find" /\ at'[r] = to /\ UNCHANGED users /\ Here(r)
    BY <2>1, ReadSteps
  <2>3. CASE NameTaken(req[r].name)
    <3>1. req'[r] = NoLocal
      BY <2>1, <2>3, IsStopped DEF Read
    <3>2. Here(r)'
      BY <2>2, <2>3, <3>1, NoLocalType DEF Here, On, Known
    <3>3. QED  BY <2>1, <2>3, <3>2, PlainTyped
  <2>4. CASE ~NameTaken(req[r].name)
    <3>1. req'[r] = req[r]
      BY <2>1, <2>4, ReadSteps
    <3>2. Here(r)'
      BY <2>2, <2>4, <3>1 DEF Here, On, Known
    <3>3. QED  BY <2>1, <2>4, <3>2, PlainTyped
  <2>5. QED  BY <2>3, <2>4
<1>2. CASE ReadCached(r)
  <2> DEFINE l == [req[r] EXCEPT !.value = cache]
  <2>1. l \in Local /\ "count" \in Label /\ Read(r, "gate", "count", l)
    BY <1>2, LocalFields, StoredFields DEF ReadCached, Label, Local
  <2>2. at[r] = "gate" /\ at'[r] = "count" /\ req'[r] = l /\ UNCHANGED users /\ Here(r)
    BY <2>1, ReadSteps
  <2>3. req[r].op \in {"register", "password", "rename"}
    BY <2>2, LocalFields DEF Here, On, Op
  <2>4. l.op = req[r].op /\ l.user = req[r].user /\ l.secret = req[r].secret
    BY LocalFields DEF Local
  <2> HIDE DEF l
  <2>5. Here(r)'
    BY <2>2, <2>3, <2>4 DEF Here, On, Known
  <2>6. QED  BY <2>1, <2>5, PlainTyped
<1>3. CASE Fetch(r)
  <2> DEFINE l == [req[r] EXCEPT !.value = stored]
  <2>1. l \in Local /\ "fill" \in Label /\ Read(r, "fetch", "fill", l)
    BY <1>3, LocalFields, StoredFields DEF Fetch, Label, Local
  <2>2. at[r] = "fetch" /\ at'[r] = "fill" /\ req'[r] = l /\ UNCHANGED users /\ Here(r)
    BY <2>1, ReadSteps
  <2>3. req[r].op \in {"register", "password", "rename"}
    BY <2>2, LocalFields DEF Here, On, Op
  <2>4. l.op = req[r].op /\ l.user = req[r].user /\ l.secret = req[r].secret
    BY LocalFields DEF Local
  <2> HIDE DEF l
  <2>5. Here(r)'
    BY <2>2, <2>3, <2>4 DEF Here, On, Known
  <2>6. QED  BY <2>1, <2>5, PlainTyped
<1>4. CASE Count(r)
  <2> DEFINE l == [req[r] EXCEPT !.first = DOMAIN users = {}]
  <2>1. l \in Local /\ "id" \in Label /\ Read(r, "count", "id", l)
    BY <1>4, LocalFields, StoredFields DEF Count, Label, Local
  <2>2. at[r] = "count" /\ at'[r] = "id" /\ req'[r] = l /\ UNCHANGED users /\ Here(r)
    BY <2>1, ReadSteps
  <2>3. req[r].op \in {"register", "password", "rename"}
    BY <2>2, LocalFields DEF Here, On, Op
  <2>4. l.op = req[r].op /\ l.user = req[r].user /\ l.secret = req[r].secret
    BY LocalFields DEF Local
  <2> HIDE DEF l
  <2>5. Here(r)'
    BY <2>2, <2>3, <2>4 DEF Here, On, Known
  <2>6. QED  BY <2>1, <2>5, PlainTyped
<1>5. CASE CheckLogin(r)
  <2>1. PICK u \in DOMAIN users : Read(r, "check", "session", [req[r] EXCEPT !.user = u])
    BY <1>5 DEF CheckLogin
  <2> DEFINE l == [req[r] EXCEPT !.user = u]
  <2>2. l \in Local /\ "session" \in Label /\ Read(r, "check", "session", l)
    BY <2>1, LocalFields, AccountFields DEF Label, Local
  <2>3. at[r] = "check" /\ at'[r] = "session" /\ req'[r] = l /\ UNCHANGED users /\ Here(r)
    BY <2>2, ReadSteps
  <2>4. Here(r)'
    <3>1. req[r].op = "login" /\ l.op = "login" /\ l.user = u
      BY <2>3, LocalFields DEF Here, On, Op, Local
    <3>2. QED  BY <2>3, <3>1 DEF Here, On, Known
  <2> HIDE DEF l
  <2>5. QED  BY <2>2, <2>4, PlainTyped
<1>6. CASE Verify(r)
  <2> DEFINE l == req[r]
  <2>1. l \in Local /\ "swap" \in Label /\ Read(r, "verify", "swap", l)
    BY <1>6, LocalFields, StoredFields DEF Verify, Label, Local
  <2>2. at[r] = "verify" /\ at'[r] = "swap" /\ req'[r] = l /\ UNCHANGED users /\ Here(r)
    BY <2>1, ReadSteps
  <2>3. req[r].op \in {"register", "password", "rename"}
    BY <2>2, LocalFields DEF Here, On, Op
  <2>4. l.op = req[r].op /\ l.user = req[r].user /\ l.secret = req[r].secret
    BY LocalFields DEF Local
  <2> HIDE DEF l
  <2>5. Here(r)'
    BY <2>2, <2>3, <2>4 DEF Here, On, Known
  <2>6. QED  BY <2>1, <2>5, PlainTyped
<1>7. CASE CheckName(r)
  <2> DEFINE l == req[r]
  <2>1. l \in Local /\ "rename" \in Label /\ Read(r, "taken", "rename", l)
    BY <1>7, LocalFields, StoredFields DEF CheckName, Label, Local
  <2>2. at[r] = "taken" /\ at'[r] = "rename" /\ req'[r] = l /\ UNCHANGED users /\ Here(r)
    BY <2>1, ReadSteps
  <2>3. req[r].op \in {"register", "password", "rename"}
    BY <2>2, LocalFields DEF Here, On, Op
  <2>4. l.op = req[r].op /\ l.user = req[r].user /\ l.secret = req[r].secret
    BY LocalFields DEF Local
  <2> HIDE DEF l
  <2>5. Here(r)'
    BY <2>2, <2>3, <2>4 DEF Here, On, Known
  <2>6. QED  BY <2>1, <2>5, PlainTyped
<1>8. CASE Skip(r)
  <2> DEFINE l == req[r]
  <2>1. PICK to \in {"skipped", "promote", "activate", "session"} :
            Read(r, at[r], to, req[r]) /\ \/ at[r] = "revoke" /\ to = "skipped"
                                          \/ at[r] = "belt" /\ to = "promote"
                                          \/ at[r] = "promote" /\ to = "activate"
                                          \/ at[r] = "activate" /\ to = "session"
    BY <1>8 DEF Skip, Read, Goto
  <2>2. to \in Label
    BY DEF Label
  <2>3. at'[r] = to /\ req'[r] = req[r] /\ UNCHANGED users /\ Here(r)
    BY <2>1, <2>2, LocalFields, ReadSteps
  <2>4. Here(r)'
    BY <2>1, <2>3, LocalFields DEF Here, On, Known, Op
  <2>5. QED  BY <2>1, <2>2, <2>4, LocalFields, PlainTyped
<1>9. CASE Stop(r)
  <2>1. /\ Read(r, at[r], "stopped", req[r]) /\ at[r] \notin {"fetch", "fill"}
        /\ at[r] \notin {"done", "skipped", "stopped"} /\ "stopped" \in Label
    BY <1>9 DEF Stop, Active, Ended, Label
  <2>2. at'[r] = "stopped" /\ UNCHANGED users /\ Here(r)
    BY <2>1, LocalFields, ReadSteps
  <2>3. req'[r] = IF at[r] = "refresh" THEN req[r] ELSE NoLocal
    BY <2>1, LocalFields, IsStopped DEF Read
  <2>4. CASE at[r] = "refresh"
    <3>1. req[r].op = "set" /\ req'[r] = req[r]
      BY <2>2, <2>3, <2>4, LocalFields DEF Here, On, Op
    <3>2. Here(r)'
      BY <2>2, <3>1 DEF Here, On, Known
    <3>3. QED  BY <2>1, <3>2, LocalFields, PlainTyped
  <2>5. CASE at[r] # "refresh"
    <3>1. req'[r] = NoLocal
      BY <2>3, <2>5
    <3>2. Here(r)'
      BY <2>2, <3>1, NoLocalType DEF Here, On, Known
    <3>3. QED  BY <2>1, <3>2, LocalFields, PlainTyped
  <2>6. QED  BY <2>4, <2>5
<1>10. QED  BY <1>1, <1>2, <1>3, <1>4, <1>5, <1>6, <1>7, <1>8, <1>9

LEMMA SessionsTyped ==
    ASSUME Typed, NEW r \in Request, CreateSession(r) \/ Revoke(r)
    PROVE  Typed'
<1>1. Here(r)
  BY DEF Typed
<1>2. CASE CreateSession(r)
  <2>1. Goto(r, "session", "done", req[r]) /\ "done" \in Label /\ UNCHANGED users
    BY <1>2 DEF CreateSession, Label
  <2>2. at[r] = "session" /\ at'[r] = "done"
    BY <2>1, LocalFields, Moves
  <2>3. req[r].op \in {"register", "login"} /\ req[r].user \in DOMAIN users
    BY <1>1, <2>2, LocalFields DEF Here, On, Op, Known
  <2>4. (req[r].op = "register" => req'[r].op = "register")
        /\ (req[r].op = "login" => req'[r] = NoLocal)
    BY <2>1, LocalFields, IsDone
  <2>5. Here(r)'
    BY <2>2, <2>3, <2>4, NoLocalType DEF Here, On, Known
  <2>6. sessions' \subseteq Session /\ \A s \in sessions' : s.user \in DOMAIN users
    <3>1. [user |-> req[r].user, secret |-> req[r].secret, by |-> r] \in Session
      BY <2>3, LocalFields, AccountFields DEF Session
    <3> DEFINE new == [user |-> req[r].user, secret |-> req[r].secret, by |-> r]
    <3>2. new.user \in DOMAIN users /\ new \in Session /\ sessions' = sessions \cup {new}
      BY <1>2, <2>3, <3>1 DEF CreateSession
    <3> HIDE DEF new
    <3>3. QED  BY <3>2, StoredFields
  <2>7. mutex' = mutex /\ mutex # r
    BY <1>2, <2>2, StoredFields DEF CreateSession
  <2>8. QED
    BY <1>2, <2>1, <2>5, <2>6, <2>7, QuietTyped, LocalFields, StoredFields DEF CreateSession
<1>3. CASE Revoke(r)
  <2>1. Goto(r, "revoke", "done", req[r]) /\ "done" \in Label /\ UNCHANGED users
    BY <1>3 DEF Revoke, Label
  <2>2. at[r] = "revoke" /\ at'[r] = "done"
    BY <2>1, LocalFields, Moves
  <2>3. req[r].op \in {"ban", "reject", "password"}
    BY <1>1, <2>2, LocalFields DEF Here, On, Op
  <2>4. req'[r] = req[r]
    BY <2>1, <2>3, LocalFields, IsDone
  <2>5. Here(r)'
    BY <2>2, <2>3, <2>4 DEF Here, On, Known
  <2>6. mutex' = mutex /\ mutex # r
    BY <1>3, <2>2, StoredFields DEF Revoke
  <2>7. sessions' \subseteq Session /\ \A s \in sessions' : s.user \in DOMAIN users
    BY <1>3, StoredFields DEF Revoke
  <2>8. QED
    BY <1>3, <2>1, <2>5, <2>6, <2>7, QuietTyped, LocalFields, StoredFields DEF Revoke
<1>4. QED  BY <1>2, <1>3


LEMMA TakeIdTyped ==
    ASSUME Typed, NEW r \in Request, TakeId(r)
    PROVE  Typed'
<1> DEFINE l == [req[r] EXCEPT !.user = nextId]
<1>1. nextId \in Nat /\ nextId \in 1..(MaxUsers + 1) /\ MaxUsers \in Nat
  BY NextIdType, AccountsAssumption DEF Typed, TypeOK
<1>2. nextId <= MaxUsers /\ nextId' = nextId + 1 /\ UNCHANGED <<users, sessions>>
  BY DEF TakeId
<1>3. nextId \in Id /\ nextId <= nextId' /\ nextId < nextId' /\ nextId' \in 1..(MaxUsers + 1)
  BY <1>1, <1>2 DEF Id
<1>4. l \in Local /\ "insert" \in Label /\ Goto(r, "id", "insert", l)
  BY <1>3, LocalFields DEF TakeId, Local, Label
<1>5. at[r] = "id" /\ at'[r] = "insert" /\ req'[r] = l
      /\ \A s \in Request \ {r} : at'[s] = at[s] /\ req'[s] = req[s]
  BY <1>4, Moves, GoesOn
<1>6. \A u \in DOMAIN users : u \in Nat /\ u < nextId
  BY IdType DEF Typed, TypeOK
<1>7. nextId \notin DOMAIN users
  BY <1>1, <1>6
<1>8. \A s \in Request : at[s] = "insert" => req[s].user \in Nat /\ req[s].user < nextId
  BY IdType DEF Typed, Here
<1>9. \A s \in Request : at[s] = "insert" => req[s].user # nextId
  BY <1>1, <1>8
<1>10. Here(r)'
  <2>1. req[r].op = "register" /\ req[r].secret = r
    BY <1>5, LocalFields DEF Typed, Here, On, Op
  <2>2. l.op = "register" /\ l.user = nextId /\ l.secret = r
    BY <2>1, LocalFields DEF Local
  <2> HIDE DEF l
  <2>3. \A s \in Request \ {r} : at'[s] = "insert" => req'[s].user # nextId
    BY <1>5, <1>9
  <2>4. QED  BY <1>2, <1>3, <1>5, <1>7, <2>2, <2>3 DEF Here, On, Known
<1>11. Rows'
  <2>1. \A u \in DOMAIN users : u < nextId'
    BY <1>1, <1>3, <1>6, LaterId
  <2>2. QED  BY <1>2, <1>3, <2>1 DEF Typed, TypeOK, Rows
<1> HIDE DEF l
<1>12. mutex' = mutex /\ mutex # r
  BY <1>5, StoredFields DEF TakeId
<1>13. QED
  BY <1>2, <1>3, <1>4, <1>10, <1>11, <1>12, StoredFields, MoveTyped DEF TakeId

LEMMA Inserted ==
    ASSUME Typed, NEW r \in Request, InsertUser(r)
    PROVE  /\ at[r] = "insert" /\ req[r].op = "register" /\ req[r].secret = r
           /\ at'[r] = IF req[r].user = 1 THEN "belt" ELSE "session"
           /\ req'[r] = req[r] /\ \A s \in Request \ {r} : at'[s] = at[s] /\ req'[s] = req[s]
           /\ req[r].user \in Id /\ req[r].user \notin DOMAIN users /\ req[r].user < nextId
           /\ DOMAIN users' = DOMAIN users \cup {req[r].user}
           /\ users'[req[r].user] = NewRow(r) /\ NewRow(r) \in Account
           /\ \A u \in DOMAIN users : users'[u] = users[u]
           /\ UNCHANGED <<nextId, sessions, stored, cache, mutex, after>>
<1> DEFINE to == IF req[r].user = 1 THEN "belt" ELSE "session"
<1>1. /\ to \in Label /\ to \notin {"stopped", "done"} /\ Goto(r, "insert", to, req[r])
      /\ UNCHANGED <<nextId, sessions, stored, cache, mutex, after>>
  BY DEF InsertUser, Label
<1>2. at[r] = "insert" /\ at'[r] = to /\ req'[r] = req[r]
      /\ \A s \in Request \ {r} : at'[s] = at[s] /\ req'[s] = req[s]
  <2> HIDE DEF to
  <2>1. at[r] = "insert" /\ at'[r] = to
        /\ \A s \in Request \ {r} : at'[s] = at[s] /\ req'[s] = req[s]
    BY <1>1, LocalFields, Moves
  <2>2. req'[r] = req[r]
    BY <1>1, LocalFields, GoesOn
  <2>3. QED  BY <2>1, <2>2
<1>3. /\ req[r].op = "register" /\ req[r].secret = r
      /\ req[r].user \in Id /\ req[r].user \notin DOMAIN users /\ req[r].user < nextId
  BY <1>2, LocalFields DEF Typed, Here, On, Op
<1>4. NewRow(r) \in Account
  <2>1. {10, 100} \subseteq Power
    BY AccountsAssumption
  <2>2. QED  BY <2>1, LocalFields DEF NewRow, Account, Secret
<1>5. users' = [u \in DOMAIN users \cup {req[r].user} |->
                    IF u \in DOMAIN users THEN users[u] ELSE NewRow(r)]
  BY DEF InsertUser
<1>6. /\ DOMAIN users' = DOMAIN users \cup {req[r].user}
      /\ users'[req[r].user] = NewRow(r)
      /\ \A u \in DOMAIN users : users'[u] = users[u]
  BY <1>3, <1>5
<1>7. QED  BY <1>1, <1>2, <1>3, <1>4, <1>6

LEMMA InsertTyped ==
    ASSUME Typed, NEW r \in Request, InsertUser(r)
    PROVE  Typed'
<1> DEFINE to == IF req[r].user = 1 THEN "belt" ELSE "session"
           new == req[r].user
<1>1. /\ to \in Label /\ Goto(r, "insert", to, req[r]) /\ req[r] \in Local
      /\ to \in {"belt", "session"}
  BY LocalFields DEF InsertUser, Label
<1>2. ~NameTaken(req[r].name)
  BY DEF InsertUser
<1>3. Here(r)'
  <2>1. /\ at'[r] \in {"belt", "session"} /\ (at'[r] = "belt" => req[r].user = 1)
        /\ req'[r] = req[r] /\ req[r].op = "register" /\ req[r].secret = r
        /\ req[r].user \in DOMAIN users'
    BY Inserted
  <2>2. QED  BY <2>1 DEF Here, On, Known
<1>4. Rows'
  <2>1. /\ DOMAIN users' = DOMAIN users \cup {new} /\ new \in Id /\ new < nextId
        /\ users'[new] = NewRow(r) /\ NewRow(r) \in Account /\ new \notin DOMAIN users
        /\ \A u \in DOMAIN users : users'[u] = users[u]
        /\ nextId' = nextId /\ sessions' = sessions
    BY Inserted
  <2>2. NewRow(r).name = req[r].name
    BY DEF NewRow
  <2>3. \A u \in DOMAIN users : users'[u].name # users'[new].name
    BY <1>2, <2>1, <2>2 DEF NameTaken
  <2>4. QED  BY <2>1, <2>3 DEF Typed, TypeOK, Rows
<1>5. nextId <= nextId' /\ mutex' = mutex /\ mutex # r
  BY Inserted, SameId, StoredFields DEF Typed, TypeOK
<1>6. /\ DOMAIN users \subseteq DOMAIN users' /\ after' = after
      /\ \A u \in DOMAIN users' \ DOMAIN users : u = req[r].user
      /\ stored' = stored /\ cache' = cache
  <2>1. DOMAIN users' = DOMAIN users \cup {new} /\ UNCHANGED <<stored, cache, after>>
    BY Inserted
  <2>2. QED  BY <2>1
<1>7. mutex' = r <=> to \in {"fetch", "fill"}
  BY <1>1, <1>5
<1> HIDE DEF to
<1>8. QED
  BY <1>1, <1>3, <1>4, <1>5, <1>6, <1>7, StoredFields, MoveTyped


(* UPDATE of a user by a statement that keeps the local variables: what the *)
(* row becomes is "row".                                                    *)
LEMMA RowTyped ==
    ASSUME Typed, NEW r \in Request, NEW from, NEW to \in Label, Goto(r, from, to, req[r]),
           from \in Known, to \notin {"fetch", "fill"},
           NEW row \in Account, users' = [users EXCEPT ![req[r].user] = row],
           row.name = users[req[r].user].name \/ ~NameTaken(row.name),
           UNCHANGED <<nextId, sessions, stored, cache, mutex, after>>,
           On(req'[r].op, to), req'[r].op # "register" \/ req'[r] = req[r],
           req'[r].op = "set" => req'[r].value # "",
           to \in Known => req'[r] = req[r],
           to \in {"belt", "promote", "activate"} => req[r].user = 1,
           to # "insert"
    PROVE  Typed'
<1> DEFINE u == req[r].user
<1>1. /\ at[r] = from /\ at'[r] = to /\ u \in DOMAIN users
      /\ req[r].op = "register" => req[r].secret = r
  <2>1. at[r] = from /\ at'[r] = to /\ Here(r)
    BY LocalFields, Moves DEF Typed
  <2>2. QED  BY <2>1 DEF Here, Known
<1>2. /\ DOMAIN users' = DOMAIN users /\ users'[u] = row
      /\ \A v \in DOMAIN users \ {u} : users'[v] = users[v]
  BY <1>1
<1>3. Rows'
  <2>1. \A v \in DOMAIN users \ {u} : users'[v].name # users'[u].name
    <3>1. \A v \in DOMAIN users \ {u} : users[v].name # row.name
      <4>1. CASE row.name = users[u].name
        BY <4>1, <1>1 DEF Typed, TypeOK
      <4>2. CASE ~NameTaken(row.name)
        BY <4>2 DEF NameTaken
      <4>3. QED  BY <4>1, <4>2
    <3>2. QED  BY <1>2, <3>1
  <2>2. QED  BY <1>1, <1>2, <2>1 DEF Typed, TypeOK, Rows
<1>4. Here(r)'
  <2>1. at'[r] = to /\ u \in DOMAIN users' /\ Known' = Known
    BY <1>1, <1>2 DEF Known
  <2>2. to \in {"belt", "promote", "activate"} => to \in Known
    BY DEF Known
  <2>3. QED  BY <1>1, <2>1, <2>2 DEF Here
<1>5. from \notin {"done", "skipped", "stopped"} /\ mutex' = mutex /\ mutex # r
  BY <1>1, StoredFields DEF Known
<1>6. nextId <= nextId'
  BY SameId DEF Typed, TypeOK
<1>7. /\ DOMAIN users \subseteq DOMAIN users' /\ DOMAIN users' \ DOMAIN users = {}
      /\ stored' = stored /\ cache' = cache /\ after' = after
  BY <1>2
<1>8. mutex' = r <=> to \in {"fetch", "fill"}
  BY <1>5
<1>9. QED
  BY <1>3, <1>4, <1>5, <1>6, <1>7, <1>8, LocalFields, StoredFields, MoveTyped

(* What each UPDATE does to the row of its user. *)
Rewrites(r, row) ==
    /\ users' = [users EXCEPT ![req[r].user] = row]
    /\ UNCHANGED <<nextId, sessions, stored, cache, mutex, after>>

LEMMA BeltStep ==
    ASSUME Typed, NEW r \in Request, Belt(r)
    PROVE  /\ at[r] = "belt" /\ at'[r] = "promote" /\ req[r].op = "register" /\ req'[r] = req[r]
           /\ \A s \in Request \ {r} : at'[s] = at[s] /\ req'[s] = req[s]
           /\ req[r].user \in DOMAIN users /\ req[r].user = 1
           /\ Rewrites(r, [users[req[r].user] EXCEPT !.power = 100, !.status = "active"])
           /\ Typed'
<1> DEFINE u == req[r].user
           row == [users[req[r].user] EXCEPT !.power = 100, !.status = "active"]
<1>1. Goto(r, "belt", "promote", req[r]) /\ req[r] \in Local /\ "belt" \in Label /\ "promote" \in Label
  BY LocalFields DEF Belt, Label
<1>2. /\ at[r] = "belt" /\ at'[r] = "promote"
      /\ \A s \in Request \ {r} : at'[s] = at[s] /\ req'[s] = req[s]
  BY <1>1, Moves
<1>3. req[r].op = "register" /\ u \in DOMAIN users /\ u = 1
  BY <1>2, LocalFields DEF Typed, Here, On, Op, Known
<1>4. req'[r] = req[r]
  BY <1>1, <1>3, GoesOn
<1>5. users' = [users EXCEPT ![u] = row] /\ UNCHANGED <<nextId, sessions, stored, cache, mutex, after>>
  BY <1>3 DEF Belt
<1>6. row \in Account /\ row.name = users[u].name
  <2> DEFINE strong == [users[u] EXCEPT !.power = 100]
  <2>1. strong \in Account /\ strong.name = users[u].name
    BY <1>3, AccountFields, AccountsAssumption DEF Account
  <2>2. row = [strong EXCEPT !.status = "active"]
    OBVIOUS
  <2> HIDE DEF row, strong
  <2>3. QED  BY <2>1, <2>2 DEF Account
<1>7. On(req'[r].op, "promote") /\ (req'[r].op # "register" \/ req'[r] = req[r])
      /\ (req'[r].op = "set" => req'[r].value # "")
  BY <1>3, <1>4, NoLocalType DEF On
<1>8. /\ "belt" \in Known /\ "promote" \notin {"fetch", "fill", "insert"}
      /\ "promote" \in Known => req'[r] = req[r]
      /\ "promote" \in {"belt", "promote", "activate"} => u = 1
  BY <1>3, <1>4 DEF Known
<1> HIDE DEF u, row
<1>9. Typed'
  BY <1>1, <1>3, <1>5, <1>6, <1>7, <1>8, RowTyped DEF u
<1>10. QED
  BY <1>2, <1>3, <1>4, <1>5, <1>6, <1>9 DEF Rewrites, u, row

LEMMA PromoteStep ==
    ASSUME Typed, NEW r \in Request, Promote(r)
    PROVE  /\ at[r] = "promote" /\ at'[r] = "activate" /\ req[r].op = "register" /\ req'[r] = req[r]
           /\ \A s \in Request \ {r} : at'[s] = at[s] /\ req'[s] = req[s]
           /\ req[r].user \in DOMAIN users /\ req[r].user = 1
           /\ Rewrites(r, [users[req[r].user] EXCEPT !.power = 100])
           /\ Typed'
<1> DEFINE u == req[r].user
           row == [users[req[r].user] EXCEPT !.power = 100]
<1>1. Goto(r, "promote", "activate", req[r]) /\ req[r] \in Local /\ "promote" \in Label /\ "activate" \in Label
  BY LocalFields DEF Promote, Update, Label
<1>2. /\ at[r] = "promote" /\ at'[r] = "activate"
      /\ \A s \in Request \ {r} : at'[s] = at[s] /\ req'[s] = req[s]
  BY <1>1, Moves
<1>3. req[r].op = "register" /\ u \in DOMAIN users /\ u = 1
  BY <1>2, LocalFields DEF Typed, Here, On, Op, Known
<1>4. req'[r] = req[r]
  BY <1>1, <1>3, GoesOn
<1>5. users' = [users EXCEPT ![u] = row] /\ UNCHANGED <<nextId, sessions, stored, cache, mutex, after>>
  BY <1>3 DEF Promote, Update
<1>6. row \in Account /\ row.name = users[u].name
  BY <1>3, AccountFields, LocalFields, AccountsAssumption DEF Account
<1>7. On(req'[r].op, "activate") /\ (req'[r].op # "register" \/ req'[r] = req[r])
      /\ (req'[r].op = "set" => req'[r].value # "")
  BY <1>3, <1>4, NoLocalType DEF On
<1>8. /\ "promote" \in Known /\ "activate" \notin {"fetch", "fill", "insert"}
      /\ "activate" \in Known => req'[r] = req[r]
      /\ "activate" \in {"belt", "promote", "activate"} => u = 1
  BY <1>3, <1>4 DEF Known
<1> HIDE DEF u, row
<1>9. Typed'
  BY <1>1, <1>3, <1>5, <1>6, <1>7, <1>8, RowTyped DEF u
<1>10. QED
  BY <1>2, <1>3, <1>4, <1>5, <1>6, <1>9 DEF Rewrites, u, row

LEMMA ActivateStep ==
    ASSUME Typed, NEW r \in Request, Activate(r)
    PROVE  /\ at[r] = "activate" /\ at'[r] = "session" /\ req[r].op = "register" /\ req'[r] = req[r]
           /\ \A s \in Request \ {r} : at'[s] = at[s] /\ req'[s] = req[s]
           /\ req[r].user \in DOMAIN users /\ req[r].user = 1
           /\ Rewrites(r, [users[req[r].user] EXCEPT !.status = "active"])
           /\ Typed'
<1> DEFINE u == req[r].user
           row == [users[req[r].user] EXCEPT !.status = "active"]
<1>1. Goto(r, "activate", "session", req[r]) /\ req[r] \in Local /\ "activate" \in Label /\ "session" \in Label
  BY LocalFields DEF Activate, Update, Label
<1>2. /\ at[r] = "activate" /\ at'[r] = "session"
      /\ \A s \in Request \ {r} : at'[s] = at[s] /\ req'[s] = req[s]
  BY <1>1, Moves
<1>3. req[r].op = "register" /\ u \in DOMAIN users /\ u = 1
  BY <1>2, LocalFields DEF Typed, Here, On, Op, Known
<1>4. req'[r] = req[r]
  BY <1>1, <1>3, GoesOn
<1>5. users' = [users EXCEPT ![u] = row] /\ UNCHANGED <<nextId, sessions, stored, cache, mutex, after>>
  BY <1>3 DEF Activate, Update
<1>6. row \in Account /\ row.name = users[u].name
  BY <1>3, AccountFields, LocalFields DEF Account
<1>7. On(req'[r].op, "session") /\ (req'[r].op # "register" \/ req'[r] = req[r])
      /\ (req'[r].op = "set" => req'[r].value # "")
  BY <1>3, <1>4, NoLocalType DEF On
<1>8. /\ "activate" \in Known /\ "session" \notin {"fetch", "fill", "insert"}
      /\ "session" \in Known => req'[r] = req[r]
      /\ "session" \in {"belt", "promote", "activate"} => u = 1
  BY <1>3, <1>4 DEF Known
<1> HIDE DEF u, row
<1>9. Typed'
  BY <1>1, <1>3, <1>5, <1>6, <1>7, <1>8, RowTyped DEF u
<1>10. QED
  BY <1>2, <1>3, <1>4, <1>5, <1>6, <1>9 DEF Rewrites, u, row

LEMMA SwapStep ==
    ASSUME Typed, NEW r \in Request, Swap(r)
    PROVE  /\ at[r] = "swap" /\ at'[r] = "revoke" /\ req[r].op = "password" /\ req'[r] = req[r]
           /\ \A s \in Request \ {r} : at'[s] = at[s] /\ req'[s] = req[s]
           /\ req[r].user \in DOMAIN users
           /\ Rewrites(r, [users[req[r].user] EXCEPT !.secret = r])
           /\ Typed'
<1> DEFINE u == req[r].user
           row == [users[req[r].user] EXCEPT !.secret = r]
<1>1. Goto(r, "swap", "revoke", req[r]) /\ req[r] \in Local /\ "swap" \in Label /\ "revoke" \in Label
  BY LocalFields DEF Swap, Update, Label
<1>2. /\ at[r] = "swap" /\ at'[r] = "revoke"
      /\ \A s \in Request \ {r} : at'[s] = at[s] /\ req'[s] = req[s]
  BY <1>1, Moves
<1>3. req[r].op = "password" /\ u \in DOMAIN users
  BY <1>2, LocalFields DEF Typed, Here, On, Op, Known
<1>4. req'[r] = req[r]
  BY <1>1, <1>3, GoesOn
<1>5. users' = [users EXCEPT ![u] = row] /\ UNCHANGED <<nextId, sessions, stored, cache, mutex, after>>
  BY <1>3 DEF Swap, Update
<1>6. row \in Account /\ row.name = users[u].name
  BY <1>3, AccountFields, LocalFields DEF Account, Secret
<1>7. On(req'[r].op, "revoke") /\ (req'[r].op # "register" \/ req'[r] = req[r])
      /\ (req'[r].op = "set" => req'[r].value # "")
  BY <1>3, <1>4, NoLocalType DEF On
<1>8. /\ "swap" \in Known /\ "revoke" \notin {"fetch", "fill", "insert"}
      /\ "revoke" \in Known => req'[r] = req[r]
      /\ "revoke" \in {"belt", "promote", "activate"} => u = 1
  BY <1>3, <1>4 DEF Known
<1> HIDE DEF u, row
<1>9. Typed'
  BY <1>1, <1>3, <1>5, <1>6, <1>7, <1>8, RowTyped DEF u
<1>10. QED
  BY <1>2, <1>3, <1>4, <1>5, <1>6, <1>9 DEF Rewrites, u, row

LEMMA BanStep ==
    ASSUME Typed, NEW r \in Request, Ban(r)
    PROVE  /\ at[r] = "ban" /\ at'[r] = "revoke" /\ req[r].op = "ban" /\ req'[r] = req[r]
           /\ \A s \in Request \ {r} : at'[s] = at[s] /\ req'[s] = req[s]
           /\ req[r].user \in DOMAIN users
           /\ Rewrites(r, [users[req[r].user] EXCEPT !.banned = TRUE])
           /\ Typed'
<1> DEFINE u == req[r].user
           row == [users[req[r].user] EXCEPT !.banned = TRUE]
<1>1. Goto(r, "ban", "revoke", req[r]) /\ req[r] \in Local /\ "ban" \in Label /\ "revoke" \in Label
  BY LocalFields DEF Ban, Update, Label
<1>2. /\ at[r] = "ban" /\ at'[r] = "revoke"
      /\ \A s \in Request \ {r} : at'[s] = at[s] /\ req'[s] = req[s]
  BY <1>1, Moves
<1>3. req[r].op = "ban" /\ u \in DOMAIN users
  BY <1>2, LocalFields DEF Typed, Here, On, Op, Known
<1>4. req'[r] = req[r]
  BY <1>1, <1>3, GoesOn
<1>5. users' = [users EXCEPT ![u] = row] /\ UNCHANGED <<nextId, sessions, stored, cache, mutex, after>>
  BY <1>3 DEF Ban, Update
<1>6. row \in Account /\ row.name = users[u].name
  BY <1>3, AccountFields, LocalFields DEF Account
<1>7. On(req'[r].op, "revoke") /\ (req'[r].op # "register" \/ req'[r] = req[r])
      /\ (req'[r].op = "set" => req'[r].value # "")
  BY <1>3, <1>4, NoLocalType DEF On
<1>8. /\ "ban" \in Known /\ "revoke" \notin {"fetch", "fill", "insert"}
      /\ "revoke" \in Known => req'[r] = req[r]
      /\ "revoke" \in {"belt", "promote", "activate"} => u = 1
  BY <1>3, <1>4 DEF Known
<1> HIDE DEF u, row
<1>9. Typed'
  BY <1>1, <1>3, <1>5, <1>6, <1>7, <1>8, RowTyped DEF u
<1>10. QED
  BY <1>2, <1>3, <1>4, <1>5, <1>6, <1>9 DEF Rewrites, u, row

LEMMA UnbanStep ==
    ASSUME Typed, NEW r \in Request, Unban(r)
    PROVE  /\ at[r] = "unban" /\ at'[r] = "done" /\ req[r].op = "unban" /\ req'[r] = NoLocal
           /\ \A s \in Request \ {r} : at'[s] = at[s] /\ req'[s] = req[s]
           /\ req[r].user \in DOMAIN users
           /\ Rewrites(r, [users[req[r].user] EXCEPT !.banned = FALSE])
           /\ Typed'
<1> DEFINE u == req[r].user
           row == [users[req[r].user] EXCEPT !.banned = FALSE]
<1>1. Goto(r, "unban", "done", req[r]) /\ req[r] \in Local /\ "unban" \in Label /\ "done" \in Label
  BY LocalFields DEF Unban, Update, Label
<1>2. /\ at[r] = "unban" /\ at'[r] = "done"
      /\ \A s \in Request \ {r} : at'[s] = at[s] /\ req'[s] = req[s]
  BY <1>1, Moves
<1>3. req[r].op = "unban" /\ u \in DOMAIN users
  BY <1>2, LocalFields DEF Typed, Here, On, Op, Known
<1>4. req'[r] = NoLocal
  BY <1>1, <1>3, IsDone
<1>5. users' = [users EXCEPT ![u] = row] /\ UNCHANGED <<nextId, sessions, stored, cache, mutex, after>>
  BY <1>3 DEF Unban, Update
<1>6. row \in Account /\ row.name = users[u].name
  BY <1>3, AccountFields, LocalFields DEF Account
<1>7. On(req'[r].op, "done") /\ (req'[r].op # "register" \/ req'[r] = req[r])
      /\ (req'[r].op = "set" => req'[r].value # "")
  BY <1>3, <1>4, NoLocalType DEF On
<1>8. /\ "unban" \in Known /\ "done" \notin {"fetch", "fill", "insert"}
      /\ "done" \in Known => req'[r] = req[r]
      /\ "done" \in {"belt", "promote", "activate"} => u = 1
  BY <1>3, <1>4 DEF Known
<1> HIDE DEF u, row
<1>9. Typed'
  BY <1>1, <1>3, <1>5, <1>6, <1>7, <1>8, RowTyped DEF u
<1>10. QED
  BY <1>2, <1>3, <1>4, <1>5, <1>6, <1>9 DEF Rewrites, u, row

LEMMA ApproveStep ==
    ASSUME Typed, NEW r \in Request, Review(r), req[r].op = "approve"
    PROVE  /\ at[r] = "status" /\ at'[r] = "done" /\ req[r].op = "approve" /\ req'[r] = NoLocal
           /\ \A s \in Request \ {r} : at'[s] = at[s] /\ req'[s] = req[s]
           /\ req[r].user \in DOMAIN users
           /\ Rewrites(r, [users[req[r].user] EXCEPT !.status = "active"])
           /\ Typed'
<1> DEFINE u == req[r].user
           row == [users[req[r].user] EXCEPT !.status = "active"]
<1>1. Goto(r, "status", "done", req[r]) /\ req[r] \in Local /\ "status" \in Label /\ "done" \in Label
  BY LocalFields DEF Review, SetStatus, Update, Label
<1>2. /\ at[r] = "status" /\ at'[r] = "done"
      /\ \A s \in Request \ {r} : at'[s] = at[s] /\ req'[s] = req[s]
  BY <1>1, Moves
<1>3. req[r].op = "approve" /\ u \in DOMAIN users
  BY <1>2, LocalFields DEF Typed, Here, On, Op, Known
<1>4. req'[r] = NoLocal
  BY <1>1, <1>3, IsDone
<1>5. users' = [users EXCEPT ![u] = row] /\ UNCHANGED <<nextId, sessions, stored, cache, mutex, after>>
  BY <1>3 DEF Review, SetStatus, Update
<1>6. row \in Account /\ row.name = users[u].name
  BY <1>3, AccountFields, LocalFields DEF Account
<1>7. On(req'[r].op, "done") /\ (req'[r].op # "register" \/ req'[r] = req[r])
      /\ (req'[r].op = "set" => req'[r].value # "")
  BY <1>3, <1>4, NoLocalType DEF On
<1>8. /\ "status" \in Known /\ "done" \notin {"fetch", "fill", "insert"}
      /\ "done" \in Known => req'[r] = req[r]
      /\ "done" \in {"belt", "promote", "activate"} => u = 1
  BY <1>3, <1>4 DEF Known
<1> HIDE DEF u, row
<1>9. Typed'
  BY <1>1, <1>3, <1>5, <1>6, <1>7, <1>8, RowTyped DEF u
<1>10. QED
  BY <1>2, <1>3, <1>4, <1>5, <1>6, <1>9 DEF Rewrites, u, row

LEMMA RejectStep ==
    ASSUME Typed, NEW r \in Request, Review(r), req[r].op # "approve"
    PROVE  /\ at[r] = "status" /\ at'[r] = "revoke" /\ req[r].op = "reject" /\ req'[r] = req[r]
           /\ \A s \in Request \ {r} : at'[s] = at[s] /\ req'[s] = req[s]
           /\ req[r].user \in DOMAIN users
           /\ Rewrites(r, [users[req[r].user] EXCEPT !.status = "rejected"])
           /\ Typed'
<1> DEFINE u == req[r].user
           row == [users[req[r].user] EXCEPT !.status = "rejected"]
<1>1. Goto(r, "status", "revoke", req[r]) /\ req[r] \in Local /\ "status" \in Label /\ "revoke" \in Label
  BY LocalFields DEF Review, SetStatus, Update, Label
<1>2. /\ at[r] = "status" /\ at'[r] = "revoke"
      /\ \A s \in Request \ {r} : at'[s] = at[s] /\ req'[s] = req[s]
  BY <1>1, Moves
<1>3. req[r].op = "reject" /\ u \in DOMAIN users
  BY <1>2, LocalFields DEF Typed, Here, On, Op, Known
<1>4. req'[r] = req[r]
  BY <1>1, <1>3, GoesOn
<1>5. users' = [users EXCEPT ![u] = row] /\ UNCHANGED <<nextId, sessions, stored, cache, mutex, after>>
  BY <1>3 DEF Review, SetStatus, Update
<1>6. row \in Account /\ row.name = users[u].name
  BY <1>3, AccountFields, LocalFields DEF Account
<1>7. On(req'[r].op, "revoke") /\ (req'[r].op # "register" \/ req'[r] = req[r])
      /\ (req'[r].op = "set" => req'[r].value # "")
  BY <1>3, <1>4, NoLocalType DEF On
<1>8. /\ "status" \in Known /\ "revoke" \notin {"fetch", "fill", "insert"}
      /\ "revoke" \in Known => req'[r] = req[r]
      /\ "revoke" \in {"belt", "promote", "activate"} => u = 1
  BY <1>3, <1>4 DEF Known
<1> HIDE DEF u, row
<1>9. Typed'
  BY <1>1, <1>3, <1>5, <1>6, <1>7, <1>8, RowTyped DEF u
<1>10. QED
  BY <1>2, <1>3, <1>4, <1>5, <1>6, <1>9 DEF Rewrites, u, row

LEMMA SetPowerStep ==
    ASSUME Typed, NEW r \in Request, SetPower(r)
    PROVE  /\ at[r] = "power" /\ at'[r] = "done" /\ req[r].op = "power" /\ req'[r] = req[r]
           /\ \A s \in Request \ {r} : at'[s] = at[s] /\ req'[s] = req[s]
           /\ req[r].user \in DOMAIN users
           /\ Rewrites(r, [users[req[r].user] EXCEPT !.power = req[r].power])
           /\ Typed'
<1> DEFINE u == req[r].user
           row == [users[req[r].user] EXCEPT !.power = req[r].power]
<1>1. Goto(r, "power", "done", req[r]) /\ req[r] \in Local /\ "power" \in Label /\ "done" \in Label
  BY LocalFields DEF SetPower, Update, Label
<1>2. /\ at[r] = "power" /\ at'[r] = "done"
      /\ \A s \in Request \ {r} : at'[s] = at[s] /\ req'[s] = req[s]
  BY <1>1, Moves
<1>3. req[r].op = "power" /\ u \in DOMAIN users
  BY <1>2, LocalFields DEF Typed, Here, On, Op, Known
<1>4. req'[r] = req[r]
  BY <1>1, <1>3, IsDone
<1>5. users' = [users EXCEPT ![u] = row] /\ UNCHANGED <<nextId, sessions, stored, cache, mutex, after>>
  BY <1>3 DEF SetPower, Update
<1>6. row \in Account /\ row.name = users[u].name
  BY <1>3, AccountFields, LocalFields DEF Account
<1>7. On(req'[r].op, "done") /\ (req'[r].op # "register" \/ req'[r] = req[r])
      /\ (req'[r].op = "set" => req'[r].value # "")
  BY <1>3, <1>4, NoLocalType DEF On
<1>8. /\ "power" \in Known /\ "done" \notin {"fetch", "fill", "insert"}
      /\ "done" \in Known => req'[r] = req[r]
      /\ "done" \in {"belt", "promote", "activate"} => u = 1
  BY <1>3, <1>4 DEF Known
<1> HIDE DEF u, row
<1>9. Typed'
  BY <1>1, <1>3, <1>5, <1>6, <1>7, <1>8, RowTyped DEF u
<1>10. QED
  BY <1>2, <1>3, <1>4, <1>5, <1>6, <1>9 DEF Rewrites, u, row

LEMMA UpdateUsernameStep ==
    ASSUME Typed, NEW r \in Request, UpdateUsername(r)
    PROVE  /\ at[r] = "rename" /\ at'[r] = "done" /\ req[r].op = "rename" /\ req'[r] = req[r]
           /\ \A s \in Request \ {r} : at'[s] = at[s] /\ req'[s] = req[s]
           /\ req[r].user \in DOMAIN users /\ ~NameTaken(req[r].name)
           /\ Rewrites(r, [users[req[r].user] EXCEPT !.name = req[r].name])
           /\ Typed'
<1> DEFINE u == req[r].user
           row == [users[req[r].user] EXCEPT !.name = req[r].name]
<1>1. Goto(r, "rename", "done", req[r]) /\ req[r] \in Local /\ "rename" \in Label /\ "done" \in Label
  BY LocalFields DEF UpdateUsername, Update, Label
<1>2. /\ at[r] = "rename" /\ at'[r] = "done"
      /\ \A s \in Request \ {r} : at'[s] = at[s] /\ req'[s] = req[s]
  BY <1>1, Moves
<1>3. req[r].op = "rename" /\ u \in DOMAIN users
  BY <1>2, LocalFields DEF Typed, Here, On, Op, Known
<1>4. req'[r] = req[r]
  BY <1>1, <1>3, IsDone
<1>5. users' = [users EXCEPT ![u] = row] /\ UNCHANGED <<nextId, sessions, stored, cache, mutex, after>>
  BY <1>3 DEF UpdateUsername, Update
<1>6. row \in Account /\ row.name = req[r].name /\ ~NameTaken(row.name)
  BY <1>3, AccountFields, LocalFields DEF Account, UpdateUsername
<1>7. On(req'[r].op, "done") /\ (req'[r].op # "register" \/ req'[r] = req[r])
      /\ (req'[r].op = "set" => req'[r].value # "")
  BY <1>3, <1>4, NoLocalType DEF On
<1>8. /\ "rename" \in Known /\ "done" \notin {"fetch", "fill", "insert"}
      /\ "done" \in Known => req'[r] = req[r]
      /\ "done" \in {"belt", "promote", "activate"} => u = 1
  BY <1>3, <1>4 DEF Known
<1> HIDE DEF u, row
<1>9. Typed'
  BY <1>1, <1>3, <1>5, <1>6, <1>7, <1>8, RowTyped DEF u
<1>10. QED
  BY <1>2, <1>3, <1>4, <1>5, <1>6, <1>9 DEF Rewrites, u, row

LEMMA WritesTyped ==
    ASSUME Typed, NEW r \in Request, Writes(r)
    PROVE  Typed'
BY InsertTyped, BeltStep, PromoteStep, ActivateStep, SwapStep, BanStep, UnbanStep, ApproveStep,
   RejectStep, SetPowerStep, UpdateUsernameStep DEF Writes

LEMMA StepTyped ==
    ASSUME Typed, NEW r \in Request, Acts(r)
    PROVE  Typed'
BY ActsSplit, BeginsTyped, LogoutTyped, SettingsTyped, ReadsTyped, SessionsTyped, TakeIdTyped,
   WritesTyped DEF Reads
-----------------------------------------------------------------------------
(* What a step that leaves users alone can do to what the invariant says.  *)

Alone(r) == \A s \in Request \ {r} : at'[s] = at[s] /\ req'[s] = req[s] /\ after'[s] = after[s]

Quiet(r) ==
    /\ at[r] \notin {"idle", "done", "skipped", "stopped"} /\ at'[r] # "idle"
    /\ Alone(r) /\ UNCHANGED <<users, after>>
    /\ at'[r] = "id" => Count(r)
    /\ at'[r] = "insert" => TakeId(r)
    /\ at'[r] = "rename" => CheckName(r)
    /\ at'[r] \notin {"belt", "revoke"}
    /\ at'[r] = "promote" => at[r] = "belt" /\ req'[r] = req[r]
    /\ at'[r] = "activate" => at[r] = "promote" /\ req'[r] = req[r]
    /\ at'[r] = "session" => CheckLogin(r) \/ (at[r] = "activate" /\ req'[r] = req[r])
    /\ at[r] = "revoke" => \/ at'[r] = "done" /\ req'[r] = req[r] /\ Revoke(r)
                           \/ at'[r] = "skipped" /\ req'[r] = req[r]
    /\ at'[r] = "done" => req'[r].op # "rename"
    /\ sessions' \subseteq sessions \/ CreateSession(r)
    /\ cache' = cache \/ cache = "" \/ Refresh(r)
    /\ at'[r] = "done" /\ req'[r].op = "set" => Refresh(r) /\ req'[r] = req[r]
    /\ req[r].op = "set" /\ at[r] # "store" => req'[r] = req[r] /\ at'[r] # "store"
    /\ req'[r].op = "set" => req[r].op = "set"
    /\ req'[r].op = "register" => /\ req[r].op = "register"
                                  /\ req'[r].value # req[r].value
                                        => cache = "" \/ req'[r].value = cache
    /\ req'[r].op # "power" /\ (req'[r].op = "reject" => at[r] = "revoke")

LEMMA GotoFrame ==
    ASSUME Typed, NEW r \in Request, NEW from, NEW to, NEW l, Goto(r, from, to, l),
           after' = after
    PROVE  at[r] = from /\ at'[r] = to /\ Alone(r) /\ Here(r)
BY DEF Goto, Alone, Typed, TypeOK

LEMMA ReadsQuiet ==
    ASSUME Typed, NEW r \in Request, Reads(r)
    PROVE  Quiet(r)
<1>1. CASE FindTaken(r)
  <2> DEFINE to == IF NameTaken(req[r].name) THEN "stopped" ELSE "gate"
  <2>1. Goto(r, "find", to, req[r]) /\ UNCHANGED <<Data, after>> /\ req[r] \in Local
    BY <1>1, LocalFields DEF FindTaken, Read
  <2>2. at[r] = "find" /\ at'[r] = to /\ Alone(r) /\ Here(r)
    BY <2>1, GotoFrame
  <2>3. req'[r] = NoLocal \/ (at'[r] = "gate" /\ req'[r] = req[r])
    BY <2>1, <2>2, IsStopped, GoesOn DEF Label
  <2>4. req[r].op = "register"
    BY <2>2, LocalFields DEF Here, On, Op
  <2>5. QED  BY <2>1, <2>2, <2>3, <2>4, NoLocalType DEF Quiet, Data
<1>2. CASE ReadCached(r)
  <2> DEFINE l == [req[r] EXCEPT !.value = cache]
  <2>1. Goto(r, "gate", "count", l) /\ UNCHANGED <<users, after>> /\ sessions' = sessions /\ cache' = cache
    BY <1>2 DEF ReadCached, Read, Data
  <2>2. at[r] = "gate" /\ at'[r] = "count" /\ Alone(r) /\ Here(r)
    BY <2>1, GotoFrame
  <2>3. req[r].op = "register"
    BY <2>2, LocalFields DEF Here, On, Op
  <2>5. l \in Local /\ l.op = req[r].op /\ l.value = cache
    BY LocalFields, StoredFields DEF Local
  <2> HIDE DEF l
  <2>6. req'[r] = l
    BY <2>1, <2>5, GoesOn DEF Label
  <2>8. QED  BY <1>2, <2>1, <2>2, <2>3, <2>5, <2>6, NoLocalType DEF Quiet
<1>3. CASE LockCache(r)
  <2> DEFINE l == req[r]
  <2>1. Goto(r, "gate", "fetch", l) /\ UNCHANGED <<users, after>> /\ sessions' = sessions /\ cache' = cache
    BY <1>3 DEF LockCache
  <2>2. at[r] = "gate" /\ at'[r] = "fetch" /\ Alone(r) /\ Here(r)
    BY <2>1, GotoFrame
  <2>3. req[r].op = "register"
    BY <2>2, LocalFields DEF Here, On, Op
  <2>5. l \in Local /\ l.op = req[r].op /\ l.value = req[r].value
    BY LocalFields, StoredFields DEF Local
  <2>6. req'[r] = l
    BY <2>1, <2>5, GoesOn DEF Label
  <2>8. QED  BY <1>3, <2>1, <2>2, <2>3, <2>5, <2>6, NoLocalType DEF Quiet
<1>4. CASE Fetch(r)
  <2> DEFINE l == [req[r] EXCEPT !.value = stored]
  <2>1. Goto(r, "fetch", "fill", l) /\ UNCHANGED <<users, after>> /\ sessions' = sessions /\ cache' = cache
    BY <1>4 DEF Fetch, Read, Data
  <2>2. at[r] = "fetch" /\ at'[r] = "fill" /\ Alone(r) /\ Here(r)
    BY <2>1, GotoFrame
  <2>3. req[r].op = "register"
    BY <2>2, LocalFields DEF Here, On, Op
  <2>5. l \in Local /\ l.op = req[r].op /\ l.value = stored
    BY LocalFields, StoredFields DEF Local
  <2> HIDE DEF l
  <2>6. req'[r] = l
    BY <2>1, <2>5, GoesOn DEF Label
  <2>7. cache = ""
    BY <2>2, StoredFields
  <2>8. QED  BY <1>4, <2>1, <2>2, <2>3, <2>5, <2>6, <2>7, NoLocalType DEF Quiet
<1>5. CASE FetchFails(r)
  <2> DEFINE l == req[r]
  <2>1. Goto(r, "fetch", "count", l) /\ UNCHANGED <<users, after>> /\ sessions' = sessions /\ cache' = cache
    BY <1>5 DEF FetchFails
  <2>2. at[r] = "fetch" /\ at'[r] = "count" /\ Alone(r) /\ Here(r)
    BY <2>1, GotoFrame
  <2>3. req[r].op = "register"
    BY <2>2, LocalFields DEF Here, On, Op
  <2>5. l \in Local /\ l.op = req[r].op /\ l.value = req[r].value
    BY LocalFields, StoredFields DEF Local
  <2>6. req'[r] = l
    BY <2>1, <2>5, GoesOn DEF Label
  <2>8. QED  BY <1>5, <2>1, <2>2, <2>3, <2>5, <2>6, NoLocalType DEF Quiet
<1>6. CASE Fill(r)
  <2> DEFINE l == req[r]
  <2>1. Goto(r, "fill", "count", l) /\ UNCHANGED <<users, after>> /\ sessions' = sessions
    BY <1>6 DEF Fill
  <2>2. at[r] = "fill" /\ at'[r] = "count" /\ Alone(r) /\ Here(r)
    BY <2>1, GotoFrame
  <2>3. req[r].op = "register"
    BY <2>2, LocalFields DEF Here, On, Op
  <2>5. l \in Local /\ l.op = req[r].op /\ l.value = req[r].value
    BY LocalFields, StoredFields DEF Local
  <2>6. req'[r] = l
    BY <2>1, <2>5, GoesOn DEF Label
  <2>7. cache = ""
    BY <2>2, StoredFields
  <2>8. QED  BY <1>6, <2>1, <2>2, <2>3, <2>5, <2>6, <2>7, NoLocalType DEF Quiet
<1>7. CASE Count(r)
  <2> DEFINE l == [req[r] EXCEPT !.first = DOMAIN users = {}]
  <2>1. Goto(r, "count", "id", l) /\ UNCHANGED <<users, after>> /\ sessions' = sessions /\ cache' = cache
    BY <1>7 DEF Count, Read, Data
  <2>2. at[r] = "count" /\ at'[r] = "id" /\ Alone(r) /\ Here(r)
    BY <2>1, GotoFrame
  <2>3. req[r].op = "register"
    BY <2>2, LocalFields DEF Here, On, Op
  <2>5. l \in Local /\ l.op = req[r].op /\ l.value = req[r].value
    BY LocalFields, StoredFields DEF Local
  <2> HIDE DEF l
  <2>6. req'[r] = l
    BY <2>1, <2>5, GoesOn DEF Label
  <2>8. QED  BY <1>7, <2>1, <2>2, <2>3, <2>5, <2>6, NoLocalType DEF Quiet
<1>8. CASE TakeId(r)
  <2> DEFINE l == [req[r] EXCEPT !.user = nextId]
  <2>1. Goto(r, "id", "insert", l) /\ UNCHANGED <<users, after>> /\ sessions' = sessions /\ cache' = cache
    BY <1>8 DEF TakeId
  <2>2. at[r] = "id" /\ at'[r] = "insert" /\ Alone(r) /\ Here(r)
    BY <2>1, GotoFrame
  <2>3. req[r].op = "register"
    BY <2>2, LocalFields DEF Here, On, Op
  <2>4. nextId \in Id
    <3>1. nextId \in 1..(MaxUsers + 1) /\ nextId <= MaxUsers /\ MaxUsers \in Nat
      BY <1>8, AccountsAssumption DEF TakeId, Typed, TypeOK
    <3>2. QED  BY <3>1 DEF Id
  <2>5. l \in Local /\ l.op = req[r].op /\ l.value = req[r].value
    BY <2>4, LocalFields, StoredFields DEF Local
  <2> HIDE DEF l
  <2>6. req'[r] = l
    BY <2>1, <2>5, GoesOn DEF Label
  <2>8. QED  BY <1>8, <2>1, <2>2, <2>3, <2>5, <2>6, NoLocalType DEF Quiet
<1>9. CASE CheckLogin(r)
  <2>1. PICK u \in DOMAIN users : Read(r, "check", "session", [req[r] EXCEPT !.user = u])
    BY <1>9 DEF CheckLogin
  <2> DEFINE l == [req[r] EXCEPT !.user = u]
  <2>2. l \in Local /\ "session" \in Label /\ l.op = req[r].op
    BY LocalFields, AccountFields DEF Label, Local
  <2> HIDE DEF l
  <2>3. Goto(r, "check", "session", l) /\ UNCHANGED <<Data, after>>
    BY <2>1 DEF l, Read
  <2>4. at[r] = "check" /\ at'[r] = "session" /\ Alone(r) /\ Here(r)
    BY <2>3, GotoFrame
  <2>5. req[r].op = "login" /\ req'[r].op = "login"
    BY <2>2, <2>3, <2>4, GoesOn, LocalFields DEF Here, On, Op
  <2>6. QED  BY <1>9, <2>3, <2>4, <2>5 DEF Quiet, Data
<1>10. CASE CreateSession(r)
  <2> DEFINE l == req[r]
  <2>1. Goto(r, "session", "done", l) /\ UNCHANGED <<users, after>> /\ cache' = cache
    BY <1>10 DEF CreateSession
  <2>2. at[r] = "session" /\ at'[r] = "done" /\ Alone(r) /\ Here(r)
    BY <2>1, GotoFrame
  <2>3. req[r].op = "register" \/ req[r].op = "login"
    BY <2>2, LocalFields DEF Here, On, Op
  <2>5. l \in Local /\ l.op = req[r].op /\ l.value = req[r].value
    BY LocalFields, StoredFields DEF Local
  <2>6. (req[r].op = "register" => req'[r].op = "register" /\ req'[r].value = req[r].value)
        /\ (req[r].op = "login" => req'[r] = NoLocal)
    BY <2>1, <2>5, IsDone
  <2>8. QED  BY <1>10, <2>1, <2>2, <2>3, <2>5, <2>6, NoLocalType DEF Quiet
<1>11. CASE Revoke(r)
  <2> DEFINE l == req[r]
  <2>1. Goto(r, "revoke", "done", l) /\ UNCHANGED <<users, after>> /\ cache' = cache
    BY <1>11 DEF Revoke
  <2>2. at[r] = "revoke" /\ at'[r] = "done" /\ Alone(r) /\ Here(r)
    BY <2>1, GotoFrame
  <2>3. req[r].op = "ban" \/ req[r].op = "reject" \/ req[r].op = "password"
    BY <2>2, LocalFields DEF Here, On, Op
  <2>5. l \in Local /\ l.op = req[r].op /\ l.value = req[r].value
    BY LocalFields, StoredFields DEF Local
  <2>6. req'[r] = req[r]
    BY <2>1, <2>3, <2>5, IsDone
  <2>8. QED  BY <1>11, <2>1, <2>2, <2>3, <2>5, <2>6, NoLocalType DEF Quiet, Revoke
<1>12. CASE Store(r)
  <2> DEFINE l == req[r]
  <2>1. Goto(r, "store", "refresh", l) /\ UNCHANGED <<users, after>> /\ sessions' = sessions /\ cache' = cache
    BY <1>12 DEF Store
  <2>2. at[r] = "store" /\ at'[r] = "refresh" /\ Alone(r) /\ Here(r)
    BY <2>1, GotoFrame
  <2>3. req[r].op = "set"
    BY <2>2, LocalFields DEF Here, On, Op
  <2>5. l \in Local /\ l.op = req[r].op /\ l.value = req[r].value
    BY LocalFields, StoredFields DEF Local
  <2>6. req'[r] = l
    BY <2>1, <2>5, GoesOn DEF Label
  <2>8. QED  BY <1>12, <2>1, <2>2, <2>3, <2>5, <2>6, NoLocalType DEF Quiet
<1>13. CASE Refresh(r)
  <2> DEFINE l == req[r]
  <2>1. Goto(r, "refresh", "done", l) /\ UNCHANGED <<users, after>> /\ sessions' = sessions
    BY <1>13 DEF Refresh
  <2>2. at[r] = "refresh" /\ at'[r] = "done" /\ Alone(r) /\ Here(r)
    BY <2>1, GotoFrame
  <2>3. req[r].op = "set"
    BY <2>2, LocalFields DEF Here, On, Op
  <2>5. l \in Local /\ l.op = req[r].op /\ l.value = req[r].value
    BY LocalFields, StoredFields DEF Local
  <2>6. req'[r] = req[r]
    BY <2>1, <2>3, <2>5, IsDone
  <2>8. QED  BY <1>13, <2>1, <2>2, <2>3, <2>5, <2>6, NoLocalType DEF Quiet
<1>14. CASE Verify(r)
  <2> DEFINE l == req[r]
  <2>1. Goto(r, "verify", "swap", l) /\ UNCHANGED <<users, after>> /\ sessions' = sessions /\ cache' = cache
    BY <1>14 DEF Verify, Read, Data
  <2>2. at[r] = "verify" /\ at'[r] = "swap" /\ Alone(r) /\ Here(r)
    BY <2>1, GotoFrame
  <2>3. req[r].op = "password"
    BY <2>2, LocalFields DEF Here, On, Op
  <2>5. l \in Local /\ l.op = req[r].op /\ l.value = req[r].value
    BY LocalFields, StoredFields DEF Local
  <2>6. req'[r] = l
    BY <2>1, <2>5, GoesOn DEF Label
  <2>8. QED  BY <1>14, <2>1, <2>2, <2>3, <2>5, <2>6, NoLocalType DEF Quiet
<1>15. CASE CheckName(r)
  <2> DEFINE l == req[r]
  <2>1. Goto(r, "taken", "rename", l) /\ UNCHANGED <<users, after>> /\ sessions' = sessions /\ cache' = cache
    BY <1>15 DEF CheckName, Read, Data
  <2>2. at[r] = "taken" /\ at'[r] = "rename" /\ Alone(r) /\ Here(r)
    BY <2>1, GotoFrame
  <2>3. req[r].op = "rename"
    BY <2>2, LocalFields DEF Here, On, Op
  <2>5. l \in Local /\ l.op = req[r].op /\ l.value = req[r].value
    BY LocalFields, StoredFields DEF Local
  <2>6. req'[r] = l
    BY <2>1, <2>5, GoesOn DEF Label
  <2>8. QED  BY <1>15, <2>1, <2>2, <2>3, <2>5, <2>6, NoLocalType DEF Quiet
<1>16. CASE Skip(r)
  <2>1. PICK to \in {"skipped", "promote", "activate", "session"} :
            Read(r, at[r], to, req[r]) /\ \/ at[r] = "revoke" /\ to = "skipped"
                                          \/ at[r] = "belt" /\ to = "promote"
                                          \/ at[r] = "promote" /\ to = "activate"
                                          \/ at[r] = "activate" /\ to = "session"
    BY <1>16 DEF Skip, Read, Goto
  <2>2. Goto(r, at[r], to, req[r]) /\ UNCHANGED <<Data, after>> /\ to \in Label
    BY <2>1 DEF Read, Label
  <2>3. at'[r] = to /\ Alone(r) /\ Here(r)
    BY <2>2, GotoFrame
  <2>4. req'[r] = req[r]
    BY <2>1, <2>2, GoesOn, LocalFields
  <2>5. \/ req[r].op = "register"
        \/ at[r] = "revoke" /\ req[r].op \in {"ban", "reject", "password"}
    BY <2>1, <2>3, LocalFields DEF Here, On, Op
  <2>6. /\ \/ at[r] = "revoke" /\ at'[r] = "skipped"
           \/ at[r] = "belt" /\ at'[r] = "promote"
           \/ at[r] = "promote" /\ at'[r] = "activate"
           \/ at[r] = "activate" /\ at'[r] = "session"
        /\ UNCHANGED <<users, sessions, cache, after>>
    BY <2>1, <2>2, <2>3 DEF Data
  <2>7. QED  BY <2>3, <2>4, <2>5, <2>6 DEF Quiet
<1>17. CASE Stop(r)
  <2>1. /\ Goto(r, at[r], "stopped", req[r]) /\ UNCHANGED <<Data, after>>
        /\ at[r] \notin {"idle", "done", "skipped", "stopped", "revoke"}
    BY <1>17 DEF Stop, Active, Ended, Read
  <2>2. at'[r] = "stopped" /\ Alone(r) /\ Here(r)
    BY <2>1, GotoFrame
  <2>3. req'[r] = IF at[r] = "refresh" THEN req[r] ELSE NoLocal
    BY <2>1, LocalFields, IsStopped
  <2>4. at[r] \in {"store", "refresh"} <=> req[r].op = "set"
    BY <2>1, <2>2, LocalFields DEF Here, On, Op
  <2>5. QED  BY <2>1, <2>2, <2>3, <2>4, NoLocalType DEF Quiet, Data
<1>18. QED  BY <1>1, <1>2, <1>3, <1>4, <1>5, <1>6, <1>7, <1>8, <1>9, <1>10, <1>11, <1>12, <1>13, <1>14, <1>15, <1>16, <1>17 DEF Reads


(* A request begins; Logout is all there is of it. *)
Fresh(r) ==
    /\ at[r] = "idle" /\ Alone(r) /\ after'[r] = {s \in Request : Ended(s)}
    /\ UNCHANGED <<users, cache>> /\ sessions' \subseteq sessions
    /\ at'[r] \in {"find", "check", "store", "verify", "ban", "unban", "power", "status", "taken",
                   "done"}
    /\ at'[r] = "done" => req'[r].op = ""
    /\ req'[r].op = "register" => req'[r].value = ""
    /\ req'[r].op = "power" => at'[r] = "power"
    /\ req'[r].op = "reject" => at'[r] = "status"
    /\ req'[r].op = "set" => at'[r] = "store"

LEMMA StartsFresh ==
    ASSUME Typed, NEW r \in Request, Begins(r) \/ \E s \in sessions : Logout(r, s)
    PROVE  Fresh(r)
<1>1. CASE Begins(r)
  <2>1. PICK l \in Local, first \in Label : Start(r, first, l) /\ Opening(r, l, first)
    BY <1>1 DEF Begins
  <2>2. /\ Goto(r, "idle", first, l)
        /\ after' = [after EXCEPT ![r] = {s \in Request : Ended(s)}]
        /\ users' = users /\ cache' = cache /\ sessions' = sessions
    BY <2>1 DEF Start, Data
  <2>3. first \notin {"stopped", "done"}
    BY <2>1 DEF Opening
  <2>4. /\ at[r] = "idle" /\ at'[r] = first
        /\ \A s \in Request \ {r} : at'[s] = at[s] /\ req'[s] = req[s]
    BY <2>2, Moves
  <2>5. req'[r] = l
    BY <2>2, <2>3, GoesOn
  <2>6. after'[r] = {s \in Request : Ended(s)} /\ \A s \in Request \ {r} : after'[s] = after[s]
    BY <2>2 DEF Typed, TypeOK
  <2>7. Alone(r)
    BY <2>4, <2>6 DEF Alone
  <2>8. /\ first \in {"find", "check", "store", "verify", "ban", "unban", "power", "status",
                      "taken"}
        /\ l.op = "register" => l.value = ""
        /\ l.op = "power" => first = "power"
        /\ l.op = "reject" => first = "status"
        /\ l.op = "set" => first = "store"
    BY <2>1 DEF Opening
  <2>9. QED  BY <2>2, <2>4, <2>5, <2>6, <2>7, <2>8 DEF Fresh
<1>2. CASE \E s \in sessions : Logout(r, s)
  <2>1. PICK s \in sessions : Logout(r, s)
    BY <1>2
  <2> DEFINE l == [NoLocal EXCEPT !.op = "logout", !.user = s.user]
  <2>2. l \in Local /\ l.op = "logout"
    BY NoLocalType DEF Local, Op, Typed, TypeOK, Session
  <2>3. /\ Goto(r, "idle", "done", l) /\ users' = users /\ cache' = cache /\ "done" \in Label
        /\ sessions' \subseteq sessions
        /\ after' = [after EXCEPT ![r] = {q \in Request : Ended(q)}]
    BY <2>1 DEF Logout, Label
  <2> HIDE DEF l
  <2>4. /\ at[r] = "idle" /\ at'[r] = "done"
        /\ \A q \in Request \ {r} : at'[q] = at[q] /\ req'[q] = req[q]
    BY <2>2, <2>3, Moves
  <2>5. req'[r] = NoLocal
    BY <2>2, <2>3, IsDone
  <2>6. after'[r] = {q \in Request : Ended(q)} /\ \A q \in Request \ {r} : after'[q] = after[q]
    BY <2>3 DEF Typed, TypeOK
  <2>7. Alone(r)
    BY <2>4, <2>6 DEF Alone
  <2>8. QED  BY <2>3, <2>4, <2>5, <2>6, <2>7, NoLocalType DEF Fresh
<1>3. QED  BY <1>1, <1>2

(* What every step leaves alone. *)
Frame(r) ==
    /\ ~Ended(r) /\ at'[r] # "idle" /\ Alone(r)
    /\ at[r] # "idle" => after'[r] = after[r]
    /\ at[r] = "idle" => after'[r] = {s \in Request : Ended(s)}
    /\ DOMAIN users \subseteq DOMAIN users'
    /\ \A u \in DOMAIN users : users'[u].by = users[u].by

LEMMA RewritesBy ==
    ASSUME Typed, NEW r \in Request, NEW row, Rewrites(r, row), req[r].user \in DOMAIN users,
           row.by = users[req[r].user].by
    PROVE  /\ DOMAIN users' = DOMAIN users /\ after' = after
           /\ \A u \in DOMAIN users : users'[u].by = users[u].by
BY DEF Rewrites, Typed, TypeOK

LEMMA WritesFrame ==
    ASSUME Typed, NEW r \in Request, Writes(r)
    PROVE  Frame(r)
<1>1. CASE InsertUser(r)
  <2>1. at[r] = "insert" /\ at'[r] \in {"belt", "session"} /\ after' = after
        /\ \A s \in Request \ {r} : at'[s] = at[s] /\ req'[s] = req[s]
    BY <1>1, Inserted
  <2>2. /\ DOMAIN users \subseteq DOMAIN users'
        /\ \A u \in DOMAIN users : users'[u].by = users[u].by
    BY <1>1, Inserted
  <2>3. QED  BY <2>1, <2>2 DEF Frame, Alone, Ended
<1> DEFINE Framed(from, to) ==
               /\ at[r] = from /\ at'[r] = to
               /\ \A s \in Request \ {r} : at'[s] = at[s] /\ req'[s] = req[s]
               /\ DOMAIN users' = DOMAIN users /\ after' = after
               /\ \A u \in DOMAIN users : users'[u].by = users[u].by
<1>2. ASSUME NEW from, NEW to, Framed(from, to), to # "idle",
             from \notin {"idle", "done", "skipped", "stopped"}
      PROVE  Frame(r)
  BY <1>2 DEF Frame, Alone, Ended
<1>3. CASE Belt(r)
  <2> DEFINE row == [users[req[r].user] EXCEPT !.power = 100, !.status = "active"]
  <2>1. Rewrites(r, row) /\ req[r].user \in DOMAIN users
    BY <1>3, BeltStep
  <2>2. row.by = users[req[r].user].by
    BY <2>1, AccountFields DEF Account
  <2> HIDE DEF row
  <2>3. Framed("belt", "promote")
    BY <1>3, <2>1, <2>2, BeltStep, RewritesBy
  <2>4. QED  BY <1>2, <2>3
<1>4. CASE Promote(r)
  <2> DEFINE row == [users[req[r].user] EXCEPT !.power = 100]
  <2>1. Rewrites(r, row) /\ req[r].user \in DOMAIN users
    BY <1>4, PromoteStep
  <2>2. row.by = users[req[r].user].by
    BY <2>1, AccountFields DEF Account
  <2> HIDE DEF row
  <2>3. Framed("promote", "activate")
    BY <1>4, <2>1, <2>2, PromoteStep, RewritesBy
  <2>4. QED  BY <1>2, <2>3
<1>5. CASE Activate(r)
  <2> DEFINE row == [users[req[r].user] EXCEPT !.status = "active"]
  <2>1. Rewrites(r, row) /\ req[r].user \in DOMAIN users
    BY <1>5, ActivateStep
  <2>2. row.by = users[req[r].user].by
    BY <2>1, AccountFields DEF Account
  <2> HIDE DEF row
  <2>3. Framed("activate", "session")
    BY <1>5, <2>1, <2>2, ActivateStep, RewritesBy
  <2>4. QED  BY <1>2, <2>3
<1>6. CASE Swap(r)
  <2> DEFINE row == [users[req[r].user] EXCEPT !.secret = r]
  <2>1. Rewrites(r, row) /\ req[r].user \in DOMAIN users
    BY <1>6, SwapStep
  <2>2. row.by = users[req[r].user].by
    BY <2>1, AccountFields DEF Account
  <2> HIDE DEF row
  <2>3. Framed("swap", "revoke")
    BY <1>6, <2>1, <2>2, SwapStep, RewritesBy
  <2>4. QED  BY <1>2, <2>3
<1>7. CASE Ban(r)
  <2> DEFINE row == [users[req[r].user] EXCEPT !.banned = TRUE]
  <2>1. Rewrites(r, row) /\ req[r].user \in DOMAIN users
    BY <1>7, BanStep
  <2>2. row.by = users[req[r].user].by
    BY <2>1, AccountFields DEF Account
  <2> HIDE DEF row
  <2>3. Framed("ban", "revoke")
    BY <1>7, <2>1, <2>2, BanStep, RewritesBy
  <2>4. QED  BY <1>2, <2>3
<1>8. CASE Unban(r)
  <2> DEFINE row == [users[req[r].user] EXCEPT !.banned = FALSE]
  <2>1. Rewrites(r, row) /\ req[r].user \in DOMAIN users
    BY <1>8, UnbanStep
  <2>2. row.by = users[req[r].user].by
    BY <2>1, AccountFields DEF Account
  <2> HIDE DEF row
  <2>3. Framed("unban", "done")
    BY <1>8, <2>1, <2>2, UnbanStep, RewritesBy
  <2>4. QED  BY <1>2, <2>3
<1>9. CASE Review(r) /\ req[r].op = "approve"
  <2> DEFINE row == [users[req[r].user] EXCEPT !.status = "active"]
  <2>1. Rewrites(r, row) /\ req[r].user \in DOMAIN users
    BY <1>9, ApproveStep
  <2>2. row.by = users[req[r].user].by
    BY <2>1, AccountFields DEF Account
  <2> HIDE DEF row
  <2>3. Framed("status", "done")
    BY <1>9, <2>1, <2>2, ApproveStep, RewritesBy
  <2>4. QED  BY <1>2, <2>3
<1>10. CASE Review(r) /\ req[r].op # "approve"
  <2> DEFINE row == [users[req[r].user] EXCEPT !.status = "rejected"]
  <2>1. Rewrites(r, row) /\ req[r].user \in DOMAIN users
    BY <1>10, RejectStep
  <2>2. row.by = users[req[r].user].by
    BY <2>1, AccountFields DEF Account
  <2> HIDE DEF row
  <2>3. Framed("status", "revoke")
    BY <1>10, <2>1, <2>2, RejectStep, RewritesBy
  <2>4. QED  BY <1>2, <2>3
<1>11. CASE SetPower(r)
  <2> DEFINE row == [users[req[r].user] EXCEPT !.power = req[r].power]
  <2>1. Rewrites(r, row) /\ req[r].user \in DOMAIN users
    BY <1>11, SetPowerStep
  <2>2. row.by = users[req[r].user].by
    BY <2>1, AccountFields DEF Account
  <2> HIDE DEF row
  <2>3. Framed("power", "done")
    BY <1>11, <2>1, <2>2, SetPowerStep, RewritesBy
  <2>4. QED  BY <1>2, <2>3
<1>12. CASE UpdateUsername(r)
  <2> DEFINE row == [users[req[r].user] EXCEPT !.name = req[r].name]
  <2>1. Rewrites(r, row) /\ req[r].user \in DOMAIN users
    BY <1>12, UpdateUsernameStep
  <2>2. row.by = users[req[r].user].by
    BY <2>1, AccountFields DEF Account
  <2> HIDE DEF row
  <2>3. Framed("rename", "done")
    BY <1>12, <2>1, <2>2, UpdateUsernameStep, RewritesBy
  <2>4. QED  BY <1>2, <2>3
<1>13. QED  BY <1>1, <1>3, <1>4, <1>5, <1>6, <1>7, <1>8, <1>9, <1>10, <1>11, <1>12 DEF Writes

LEMMA StepFrame ==
    ASSUME Typed, NEW r \in Request, Acts(r)
    PROVE  Frame(r)
<1>1. CASE Begins(r) \/ \E s \in sessions : Logout(r, s)
  BY <1>1, StartsFresh DEF Fresh, Frame, Ended
<1>2. CASE Reads(r)
  BY <1>2, ReadsQuiet DEF Quiet, Frame, Ended
<1>3. CASE Writes(r)
  BY <1>3, WritesFrame
<1>4. QED  BY <1>1, <1>2, <1>3, ActsSplit

(* Requests that ran beside each other did. *)
LEMMA OverlapStable ==
    ASSUME Typed, NEW r \in Request, Frame(r), NEW a \in Request, NEW b \in Request, Overlap(a, b)
    PROVE  Overlap(a, b)'
BY DEF Frame, Alone, Overlap

LEMMA ActiveOverlap ==
    ASSUME Typed, NEW a \in Request, NEW b \in Request, Active(a), Active(b)
    PROVE  Overlap(a, b)
BY DEF Typed, Active, Overlap
-----------------------------------------------------------------------------
(* What a step that writes users can do to what the invariant says. *)

Changes(r, u) ==
    /\ users'[u].power # users[u].power =>
          (at[r] \in {"belt", "promote"} /\ u = 1 /\ users'[u].power = 100) \/ SetPower(r)
    /\ users'[u].banned /\ ~users[u].banned => Ban(r) /\ u = req[r].user
    /\ users'[u].secret # users[u].secret => Swap(r) /\ u = req[r].user
    /\ users'[u].name # users[u].name => UpdateUsername(r) /\ u = req[r].user
    /\ users[u].status = "active" /\ users'[u].status # "active" =>
          Review(r) /\ req[r].op # "approve"

Written(r) ==
    /\ at'[r] \in {"belt", "promote", "activate", "session", "revoke", "done"}
    /\ at[r] \notin {"idle", "revoke"}
    /\ at'[r] = "belt" => InsertUser(r)
    /\ at'[r] = "promote" => at[r] = "belt" /\ req'[r] = req[r]
    /\ at'[r] = "activate" => at[r] = "promote" /\ req'[r] = req[r]
    /\ at'[r] = "session" => InsertUser(r) \/ (at[r] = "activate" /\ req'[r] = req[r])
    /\ at'[r] = "done" /\ req'[r].op = "rename" => UpdateUsername(r)
    /\ UNCHANGED <<sessions, cache, after>> /\ req[r].op # "set"
    /\ req'[r] = req[r] \/ req'[r] = NoLocal
    /\ req'[r].op = "power" => at'[r] = "done"
    /\ req'[r].op = "reject" => at'[r] = "revoke"
    /\ DOMAIN users' = DOMAIN users \/ InsertUser(r)
    /\ \A u \in DOMAIN users : Changes(r, u)

LEMMA RewritesRow ==
    ASSUME Typed, NEW r \in Request, NEW row, Rewrites(r, row), req[r].user \in DOMAIN users
    PROVE  /\ DOMAIN users' = DOMAIN users /\ users'[req[r].user] = row
           /\ \A u \in DOMAIN users \ {req[r].user} : users'[u] = users[u]
           /\ UNCHANGED <<sessions, cache, after>>
BY DEF Rewrites, Typed, TypeOK

LEMMA WritesWritten ==
    ASSUME Typed, NEW r \in Request, Writes(r)
    PROVE  Written(r)
<1>1. CASE InsertUser(r)
  <2>1. /\ at[r] = "insert" /\ req[r].op = "register" /\ req'[r] = req[r]
        /\ at'[r] = "belt" \/ at'[r] = "session"
        /\ UNCHANGED <<sessions, cache, after>>
        /\ \A u \in DOMAIN users : users'[u] = users[u]
    BY <1>1, Inserted
  <2>2. \A u \in DOMAIN users : Changes(r, u)
    BY <2>1 DEF Changes
  <2>3. QED  BY <1>1, <2>1, <2>2 DEF Written
<1>2. CASE Belt(r)
  <2> DEFINE old == users[req[r].user]
             row == [old EXCEPT !.power = 100, !.status = "active"]
  <2>1. /\ Rewrites(r, row) /\ req[r].user \in DOMAIN users
        /\ at[r] = "belt" /\ at'[r] = "promote" /\ req[r].op = "register" /\ req'[r] = req[r] /\ req[r].user = 1
    BY <1>2, BeltStep
  <2>2. /\ row.banned = old.banned /\ row.name = old.name /\ row.secret = old.secret
        /\ row.power = 100 /\ row.status = "active"
    BY <2>1, AccountFields DEF Account
  <2> HIDE DEF row
  <2>3. /\ DOMAIN users' = DOMAIN users /\ users'[req[r].user] = row
        /\ \A u \in DOMAIN users \ {req[r].user} : users'[u] = users[u]
        /\ UNCHANGED <<sessions, cache, after>>
    BY <2>1, RewritesRow
  <2>4. \A u \in DOMAIN users : Changes(r, u)
    BY <1>2, <2>1, <2>2, <2>3 DEF Changes
  <2>5. QED  BY <1>2, <2>1, <2>3, <2>4, NoLocalType DEF Written
<1>3. CASE Promote(r)
  <2> DEFINE old == users[req[r].user]
             row == [old EXCEPT !.power = 100]
  <2>1. /\ Rewrites(r, row) /\ req[r].user \in DOMAIN users
        /\ at[r] = "promote" /\ at'[r] = "activate" /\ req[r].op = "register" /\ req'[r] = req[r] /\ req[r].user = 1
    BY <1>3, PromoteStep
  <2>2. /\ row.banned = old.banned /\ row.name = old.name /\ row.secret = old.secret /\ row.status = old.status /\ row.power = 100
    BY <2>1, AccountFields DEF Account
  <2> HIDE DEF row
  <2>3. /\ DOMAIN users' = DOMAIN users /\ users'[req[r].user] = row
        /\ \A u \in DOMAIN users \ {req[r].user} : users'[u] = users[u]
        /\ UNCHANGED <<sessions, cache, after>>
    BY <2>1, RewritesRow
  <2>4. \A u \in DOMAIN users : Changes(r, u)
    BY <1>3, <2>1, <2>2, <2>3 DEF Changes
  <2>5. QED  BY <1>3, <2>1, <2>3, <2>4, NoLocalType DEF Written
<1>4. CASE Activate(r)
  <2> DEFINE old == users[req[r].user]
             row == [old EXCEPT !.status = "active"]
  <2>1. /\ Rewrites(r, row) /\ req[r].user \in DOMAIN users
        /\ at[r] = "activate" /\ at'[r] = "session" /\ req[r].op = "register" /\ req'[r] = req[r]
    BY <1>4, ActivateStep
  <2>2. /\ row.banned = old.banned /\ row.name = old.name /\ row.power = old.power /\ row.secret = old.secret /\ row.status = "active"
    BY <2>1, AccountFields DEF Account
  <2> HIDE DEF row
  <2>3. /\ DOMAIN users' = DOMAIN users /\ users'[req[r].user] = row
        /\ \A u \in DOMAIN users \ {req[r].user} : users'[u] = users[u]
        /\ UNCHANGED <<sessions, cache, after>>
    BY <2>1, RewritesRow
  <2>4. \A u \in DOMAIN users : Changes(r, u)
    BY <1>4, <2>1, <2>2, <2>3 DEF Changes
  <2>5. QED  BY <1>4, <2>1, <2>3, <2>4, NoLocalType DEF Written
<1>5. CASE Swap(r)
  <2> DEFINE old == users[req[r].user]
             row == [old EXCEPT !.secret = r]
  <2>1. /\ Rewrites(r, row) /\ req[r].user \in DOMAIN users
        /\ at[r] = "swap" /\ at'[r] = "revoke" /\ req[r].op = "password" /\ req'[r] = req[r]
    BY <1>5, SwapStep
  <2>2. /\ row.banned = old.banned /\ row.name = old.name /\ row.power = old.power /\ row.status = old.status /\ row.secret = r
    BY <2>1, AccountFields DEF Account
  <2> HIDE DEF row
  <2>3. /\ DOMAIN users' = DOMAIN users /\ users'[req[r].user] = row
        /\ \A u \in DOMAIN users \ {req[r].user} : users'[u] = users[u]
        /\ UNCHANGED <<sessions, cache, after>>
    BY <2>1, RewritesRow
  <2>4. \A u \in DOMAIN users : Changes(r, u)
    BY <1>5, <2>1, <2>2, <2>3 DEF Changes
  <2>5. QED  BY <1>5, <2>1, <2>3, <2>4, NoLocalType DEF Written
<1>6. CASE Ban(r)
  <2> DEFINE old == users[req[r].user]
             row == [old EXCEPT !.banned = TRUE]
  <2>1. /\ Rewrites(r, row) /\ req[r].user \in DOMAIN users
        /\ at[r] = "ban" /\ at'[r] = "revoke" /\ req[r].op = "ban" /\ req'[r] = req[r]
    BY <1>6, BanStep
  <2>2. /\ row.name = old.name /\ row.power = old.power /\ row.secret = old.secret /\ row.status = old.status /\ row.banned = TRUE
    BY <2>1, AccountFields DEF Account
  <2> HIDE DEF row
  <2>3. /\ DOMAIN users' = DOMAIN users /\ users'[req[r].user] = row
        /\ \A u \in DOMAIN users \ {req[r].user} : users'[u] = users[u]
        /\ UNCHANGED <<sessions, cache, after>>
    BY <2>1, RewritesRow
  <2>4. \A u \in DOMAIN users : Changes(r, u)
    BY <1>6, <2>1, <2>2, <2>3 DEF Changes
  <2>5. QED  BY <1>6, <2>1, <2>3, <2>4, NoLocalType DEF Written
<1>7. CASE Unban(r)
  <2> DEFINE old == users[req[r].user]
             row == [old EXCEPT !.banned = FALSE]
  <2>1. /\ Rewrites(r, row) /\ req[r].user \in DOMAIN users
        /\ at[r] = "unban" /\ at'[r] = "done" /\ req[r].op = "unban" /\ req'[r] = NoLocal
    BY <1>7, UnbanStep
  <2>2. /\ row.name = old.name /\ row.power = old.power /\ row.secret = old.secret /\ row.status = old.status /\ row.banned = FALSE
    BY <2>1, AccountFields DEF Account
  <2> HIDE DEF row
  <2>3. /\ DOMAIN users' = DOMAIN users /\ users'[req[r].user] = row
        /\ \A u \in DOMAIN users \ {req[r].user} : users'[u] = users[u]
        /\ UNCHANGED <<sessions, cache, after>>
    BY <2>1, RewritesRow
  <2>4. \A u \in DOMAIN users : Changes(r, u)
    BY <1>7, <2>1, <2>2, <2>3 DEF Changes
  <2>5. QED  BY <1>7, <2>1, <2>3, <2>4, NoLocalType DEF Written
<1>8. CASE Review(r) /\ req[r].op = "approve"
  <2> DEFINE old == users[req[r].user]
             row == [old EXCEPT !.status = "active"]
  <2>1. /\ Rewrites(r, row) /\ req[r].user \in DOMAIN users
        /\ at[r] = "status" /\ at'[r] = "done" /\ req[r].op = "approve" /\ req'[r] = NoLocal
    BY <1>8, ApproveStep
  <2>2. /\ row.banned = old.banned /\ row.name = old.name /\ row.power = old.power /\ row.secret = old.secret /\ row.status = "active"
    BY <2>1, AccountFields DEF Account
  <2> HIDE DEF row
  <2>3. /\ DOMAIN users' = DOMAIN users /\ users'[req[r].user] = row
        /\ \A u \in DOMAIN users \ {req[r].user} : users'[u] = users[u]
        /\ UNCHANGED <<sessions, cache, after>>
    BY <2>1, RewritesRow
  <2>4. \A u \in DOMAIN users : Changes(r, u)
    BY <1>8, <2>1, <2>2, <2>3 DEF Changes
  <2>5. QED  BY <1>8, <2>1, <2>3, <2>4, NoLocalType DEF Written
<1>9. CASE Review(r) /\ req[r].op # "approve"
  <2> DEFINE old == users[req[r].user]
             row == [old EXCEPT !.status = "rejected"]
  <2>1. /\ Rewrites(r, row) /\ req[r].user \in DOMAIN users
        /\ at[r] = "status" /\ at'[r] = "revoke" /\ req[r].op = "reject" /\ req'[r] = req[r]
    BY <1>9, RejectStep
  <2>2. /\ row.banned = old.banned /\ row.name = old.name /\ row.power = old.power /\ row.secret = old.secret /\ row.status = "rejected"
    BY <2>1, AccountFields DEF Account
  <2> HIDE DEF row
  <2>3. /\ DOMAIN users' = DOMAIN users /\ users'[req[r].user] = row
        /\ \A u \in DOMAIN users \ {req[r].user} : users'[u] = users[u]
        /\ UNCHANGED <<sessions, cache, after>>
    BY <2>1, RewritesRow
  <2>4. \A u \in DOMAIN users : Changes(r, u)
    BY <1>9, <2>1, <2>2, <2>3 DEF Changes
  <2>5. QED  BY <1>9, <2>1, <2>3, <2>4, NoLocalType DEF Written
<1>10. CASE SetPower(r)
  <2> DEFINE old == users[req[r].user]
             row == [old EXCEPT !.power = req[r].power]
  <2>1. /\ Rewrites(r, row) /\ req[r].user \in DOMAIN users
        /\ at[r] = "power" /\ at'[r] = "done" /\ req[r].op = "power" /\ req'[r] = req[r]
    BY <1>10, SetPowerStep
  <2>2. /\ row.banned = old.banned /\ row.name = old.name /\ row.secret = old.secret /\ row.status = old.status /\ row.power = req[r].power
    BY <2>1, AccountFields DEF Account
  <2> HIDE DEF row
  <2>3. /\ DOMAIN users' = DOMAIN users /\ users'[req[r].user] = row
        /\ \A u \in DOMAIN users \ {req[r].user} : users'[u] = users[u]
        /\ UNCHANGED <<sessions, cache, after>>
    BY <2>1, RewritesRow
  <2>4. \A u \in DOMAIN users : Changes(r, u)
    BY <1>10, <2>1, <2>2, <2>3 DEF Changes
  <2>5. QED  BY <1>10, <2>1, <2>3, <2>4, NoLocalType DEF Written
<1>11. CASE UpdateUsername(r)
  <2> DEFINE old == users[req[r].user]
             row == [old EXCEPT !.name = req[r].name]
  <2>1. /\ Rewrites(r, row) /\ req[r].user \in DOMAIN users
        /\ at[r] = "rename" /\ at'[r] = "done" /\ req[r].op = "rename" /\ req'[r] = req[r]
    BY <1>11, UpdateUsernameStep
  <2>2. /\ row.banned = old.banned /\ row.power = old.power /\ row.secret = old.secret /\ row.status = old.status /\ row.name = req[r].name
    BY <2>1, AccountFields DEF Account
  <2> HIDE DEF row
  <2>3. /\ DOMAIN users' = DOMAIN users /\ users'[req[r].user] = row
        /\ \A u \in DOMAIN users \ {req[r].user} : users'[u] = users[u]
        /\ UNCHANGED <<sessions, cache, after>>
    BY <2>1, RewritesRow
  <2>4. \A u \in DOMAIN users : Changes(r, u)
    BY <1>11, <2>1, <2>2, <2>3 DEF Changes
  <2>5. QED  BY <1>11, <2>1, <2>3, <2>4, NoLocalType DEF Written
<1>12. QED  BY <1>1, <1>2, <1>3, <1>4, <1>5, <1>6, <1>7, <1>8, <1>9, <1>10, <1>11 DEF Writes
-----------------------------------------------------------------------------
(* The bootstrap. *)

LEMMA NoPowersBefore ==
    ASSUME Typed, NEW r \in Request, Frame(r)
    PROVE  /\ NoPowers' => NoPowers
           /\ NoRejections' => (\A s \in Request \ {r} : req[s].op = "reject" => at[s] = "status")
<1>1. ASSUME NoPowers', NEW s \in Request, req[s].op = "power"
      PROVE  at[s] = "power"
  <2>1. CASE s = r
    BY <1>1, <2>1 DEF Frame, Ended, Typed, Here, On
  <2>2. CASE s # r
    BY <1>1, <2>2 DEF Frame, Alone, NoPowers
  <2>3. QED  BY <2>1, <2>2
<1>2. ASSUME NoRejections', NEW s \in Request \ {r}, req[s].op = "reject"
      PROVE  at[s] = "status"
  BY <1>2 DEF Frame, Alone, NoRejections
<1>3. QED  BY <1>1, <1>2 DEF NoPowers

(* While nobody changes powers, no Owner loses or gets it by an UPDATE. *)
LEMMA PowersKept ==
    ASSUME Typed, Bootstrapped, NEW r \in Request, Acts(r), NoPowers', NEW u \in DOMAIN users
    PROVE  users'[u].power = users[u].power /\ (Owner(u) <=> Owner(u)')
<1>1. CASE Writes(r)
  <2>1. Changes(r, u)
    BY <1>1, WritesWritten DEF Written
  <2>2. NoPowers /\ Leads(r)
    BY StepFrame, NoPowersBefore DEF Bootstrapped
  <2>3. ~SetPower(r)
    BY SetPowerStep DEF NoPowers
  <2>4. at[r] \in {"belt", "promote"} => users[1].power = 100
    BY <2>2 DEF Leads, Owner
  <2>5. QED  BY <2>1, <2>3, <2>4 DEF Changes, Owner
<1>2. CASE ~Writes(r)
  <2>1. users' = users
    BY <1>2, ActsSplit, ReadsQuiet, StartsFresh DEF Quiet, Fresh
  <2>2. QED  BY <2>1 DEF Owner
<1>3. QED  BY <1>1, <1>2

LEMMA StatusKept ==
    ASSUME Typed, NEW r \in Request, Acts(r), NoRejections', NEW u \in DOMAIN users,
           users[u].status = "active"
    PROVE  users'[u].status = "active"
<1>1. CASE Writes(r)
  <2>1. Changes(r, u)
    BY <1>1, WritesWritten DEF Written
  <2>2. ~(Review(r) /\ req[r].op # "approve")
    BY RejectStep DEF NoRejections
  <2>3. QED  BY <2>1, <2>2 DEF Changes
<1>2. CASE ~Writes(r)
  BY <1>2, ActsSplit, ReadsQuiet, StartsFresh DEF Quiet, Fresh
<1>3. QED  BY <1>1, <1>2

LEMMA StillOverlap ==
    ASSUME Typed, NEW r \in Request, Frame(r), NEW u \in DOMAIN users, NEW s \in Request,
           users[u].by \in Request, Overlap(users[u].by, s)
    PROVE  users'[u].by \in Request /\ Overlap(users[u].by, s)'
<1>1. PICK a \in Request : a = users[u].by
  OBVIOUS
<1>2. users'[u].by = a /\ Overlap(a, s)
  BY <1>1 DEF Frame
<1>3. Overlap(a, s)'
  BY <1>2, OverlapStable
<1>4. QED  BY <1>2, <1>3 DEF Overlap

LEMMA ActiveBeside ==
    ASSUME Typed', NEW a \in Request, NEW b \in Request, Active(a)', Active(b)'
    PROVE  Overlap(a, b)'
BY DEF Typed, Active, Overlap

LEMMA Newcomer ==
    ASSUME Typed, NEW r \in Request, Acts(r), NEW u \in DOMAIN users', u \notin DOMAIN users
    PROVE  /\ InsertUser(r) /\ u = req[r].user /\ at[r] = "insert" /\ Active(r)'
           /\ users'[u] = NewRow(r) /\ users'[u].by = r
<1>1. InsertUser(r)
  BY ActsSplit, ReadsQuiet, StartsFresh, WritesWritten DEF Quiet, Fresh, Written
<1>2. /\ DOMAIN users' = DOMAIN users \cup {req[r].user} /\ at[r] = "insert"
      /\ users'[req[r].user] = NewRow(r) /\ at'[r] \in {"belt", "session"}
  BY <1>1, Inserted
<1>3. NewRow(r).by = r
  BY DEF NewRow
<1>4. QED  BY <1>1, <1>2, <1>3 DEF Active, Ended

(* The requests beside the one that steps. *)
LEMMA OthersLead ==
    ASSUME Typed, Typed', Bootstrapped, NEW r \in Request, Acts(r), NEW s \in Request \ {r}
    PROVE  Leads(s)'
<1>1. Frame(r) /\ Leads(s) /\ at'[s] = at[s] /\ req'[s] = req[s]
  BY StepFrame DEF Frame, Alone, Bootstrapped
<1>2. DOMAIN users' = {} => DOMAIN users = {}
  BY <1>1 DEF Frame
<1>3. ASSUME at[s] \in {"id", "insert"}, req[s].first, NEW u \in DOMAIN users'
      PROVE  users'[u].by \in Request /\ Overlap(users[u].by, s)'
  <2>1. CASE u \in DOMAIN users
    BY <1>1, <1>3, <2>1, StillOverlap DEF Leads
  <2>2. CASE u \notin DOMAIN users
    <3>1. InsertUser(r) /\ u = req[r].user
      BY <2>2, <1>3, Newcomer
    <3>2. users'[u].by = r /\ Active(r)'
      BY <2>2, <1>3, Newcomer
    <3>3. Active(r)' /\ Active(s)'
      BY <1>1, <1>3, <3>2 DEF Active, Ended
    <3>4. Overlap(r, s)'
      BY <3>3, ActiveBeside
    <3>5. QED  BY <3>2, <3>4 DEF Overlap
  <2>3. QED  BY <2>1, <2>2
<1>4. ASSUME at[s] \in {"belt", "promote", "activate"}, NoPowers'
      PROVE  Owner(1)'
  <2>1. 1 \in DOMAIN users
    BY <1>4 DEF Typed, Here, Known
  <2>2. NoPowers
    BY <1>1, <1>4, NoPowersBefore
  <2>3. QED  BY <1>1, <1>4, <2>1, <2>2, PowersKept DEF Leads
<1>5. QED  BY <1>1, <1>2, <1>3, <1>4 DEF Leads

(* The request that steps. *)
LEMMA SelfLeads ==
    ASSUME Typed, Typed', Bootstrapped, NEW r \in Request, Acts(r)
    PROVE  Leads(r)'
<1>1. Frame(r) /\ Leads(r) /\ Here(r)
  BY StepFrame DEF Bootstrapped, Typed
<1>2. CASE at'[r] = "id"
  <2>1. Count(r)
    BY <1>2, ActsSplit, ReadsQuiet, StartsFresh, WritesWritten DEF Quiet, Fresh, Written
  <2>2. /\ Goto(r, "count", "id", [req[r] EXCEPT !.first = DOMAIN users = {}])
        /\ users' = users /\ "id" \in Label
    BY <2>1 DEF Count, Read, Data, Label
  <2>3. [req[r] EXCEPT !.first = DOMAIN users = {}] \in Local
    BY LocalFields DEF Local
  <2>4. req'[r] = [req[r] EXCEPT !.first = DOMAIN users = {}]
    BY <2>2, <2>3, GoesOn
  <2>5. req'[r].first = (DOMAIN users = {})
    BY <2>4, LocalFields DEF Local
  <2>6. QED  BY <1>2, <2>2, <2>5 DEF Leads
<1>3. CASE at'[r] = "insert"
  <2>1. TakeId(r)
    BY <1>3, ActsSplit, ReadsQuiet, StartsFresh, WritesWritten DEF Quiet, Fresh, Written
  <2>2. /\ Goto(r, "id", "insert", [req[r] EXCEPT !.user = nextId])
        /\ users' = users /\ "insert" \in Label
    BY <2>1 DEF TakeId, Label
  <2>3. nextId \in Id
    <3>1. nextId \in 1..(MaxUsers + 1) /\ nextId <= MaxUsers /\ MaxUsers \in Nat
      BY <2>1, AccountsAssumption DEF TakeId, Typed, TypeOK
    <3>2. QED  BY <3>1 DEF Id
  <2>4. [req[r] EXCEPT !.user = nextId] \in Local
    BY <2>3, LocalFields DEF Local
  <2>5. at[r] = "id" /\ req'[r].first = req[r].first /\ req'[r].user = nextId
    <3> DEFINE l == [req[r] EXCEPT !.user = nextId]
    <3>1. l.first = req[r].first /\ l.user = nextId
      BY LocalFields DEF Local
    <3> HIDE DEF l
    <3>2. Goto(r, "id", "insert", l) /\ l \in Local
      BY <2>2, <2>4 DEF l
    <3>3. at[r] = "id" /\ req'[r] = l
      BY <2>2, <3>2, GoesOn, Moves
    <3>4. QED  BY <3>1, <3>3
  <2>6. nextId = 1 => DOMAIN users = {}
    <3>1. \A u \in DOMAIN users : u \in Nat /\ 1 <= u /\ u < nextId
      BY IdType DEF Typed, TypeOK
    <3>2. QED  BY <3>1
  <2>7. \A u \in DOMAIN users : req[r].first =>
           users'[u].by \in Request /\ Overlap(users[u].by, r)'
    BY <1>1, <2>5, StillOverlap DEF Leads
  <2>8. QED  BY <1>1, <1>3, <2>2, <2>5, <2>6, <2>7 DEF Leads
<1>4. CASE at'[r] \in {"belt", "promote", "activate"}
  <2> SUFFICES ASSUME NoPowers'
               PROVE  Owner(1)'
    BY <1>4 DEF Leads
  <2>1. CASE InsertUser(r)
    <3>1. req[r].user = 1 /\ users'[1] = NewRow(r) /\ at[r] = "insert"
      BY <1>4, <2>1, Inserted
    <3>2. req[r].first
      BY <1>1, <3>1 DEF Leads
    <3>3. QED  BY <3>1, <3>2 DEF NewRow, Owner
  <2>2. CASE ~InsertUser(r)
    <3>1. at[r] \in {"belt", "promote"}
      BY <1>4, <2>2, ActsSplit, ReadsQuiet, StartsFresh, WritesWritten DEF Quiet, Fresh, Written
    <3>2. 1 \in DOMAIN users /\ NoPowers
      BY <1>1, <3>1, NoPowersBefore DEF Here, Known
    <3>3. QED  BY <1>1, <3>1, <3>2, PowersKept DEF Leads
  <2>3. QED  BY <2>1, <2>2
<1>5. QED  BY <1>2, <1>3, <1>4 DEF Leads

LEMMA BootstrapKept ==
    ASSUME Typed, Typed', Bootstrapped, NEW r \in Request, Acts(r)
    PROVE  Bootstrapped'
<1>1. Frame(r) /\ Leads(r)
  BY StepFrame DEF Bootstrapped
<1>2. \A s \in Request : Leads(s)'
  BY OthersLead, SelfLeads
<1>3. ASSUME NoPowers', NoRejections', DOMAIN users' # {}
      PROVE  \E u \in DOMAIN users' : Owner(u)' /\ users'[u].status = "active"
  <2>1. CASE DOMAIN users # {}
    <3>1. NoPowers
      BY <1>1, <1>3, NoPowersBefore
    <3>2. NoRejections
      <4>1. ASSUME req[r].op = "reject"
            PROVE  at[r] = "status"
        <5>1. at[r] \in {"status", "revoke"}
          BY <1>1, <4>1 DEF Frame, Ended, Typed, Here, On
        <5>2. at[r] # "revoke"
          <6> SUFFICES ASSUME at[r] = "revoke"
                       PROVE  FALSE
            OBVIOUS
          <6>1. Quiet(r)
            BY ActsSplit, ReadsQuiet, StartsFresh, WritesWritten DEF Fresh, Written
          <6>2. at'[r] \in {"done", "skipped"} /\ req'[r] = req[r]
            BY <6>1 DEF Quiet
          <6>3. QED  BY <1>3, <4>1, <6>2 DEF NoRejections
        <5>3. QED  BY <5>1, <5>2
      <4>2. QED  BY <1>1, <1>3, <4>1, NoPowersBefore DEF NoRejections
    <3>3. PICK u \in DOMAIN users : Owner(u) /\ users[u].status = "active"
      BY <2>1, <3>1, <3>2 DEF Bootstrapped
    <3>4. u \in DOMAIN users' /\ Owner(u)' /\ users'[u].status = "active"
      BY <1>1, <1>3, <3>3, PowersKept, StatusKept DEF Frame
    <3>5. QED  BY <3>4
  <2>2. CASE DOMAIN users = {}
    <3>1. InsertUser(r)
      BY <1>3, <2>2, ActsSplit, ReadsQuiet, StartsFresh, WritesWritten DEF Quiet, Fresh, Written
    <3>2. at[r] = "insert" /\ users'[req[r].user] = NewRow(r) /\ req[r].user \in DOMAIN users'
      BY <3>1, Inserted
    <3>3. req[r].first
      BY <1>1, <2>2, <3>2 DEF Leads
    <3>4. QED  BY <3>2, <3>3 DEF NewRow, Owner
  <2>3. QED  BY <2>1, <2>2
<1>4. ASSUME NoPowers', NEW u \in DOMAIN users', NEW v \in DOMAIN users', u # v,
             Owner(u)', Owner(v)'
      PROVE  {users'[u].by, users'[v].by} \subseteq Request /\ Overlap(users[u].by, users[v].by)'
  <2>1. NoPowers
    BY <1>1, <1>4, NoPowersBefore
  <2>2. CASE u \in DOMAIN users /\ v \in DOMAIN users
    <3>1. Owner(u) /\ Owner(v)
      BY <1>4, <2>2, PowersKept
    <3>2. PICK a \in Request, b \in Request :
              a = users[u].by /\ b = users[v].by /\ Overlap(a, b)
      BY <1>4, <2>1, <2>2, <3>1 DEF Bootstrapped
    <3>3. users'[u].by = a /\ users'[v].by = b /\ Overlap(a, b)'
      BY <1>1, <2>2, <3>2, OverlapStable DEF Frame
    <3>4. QED  BY <3>3 DEF Overlap
  <2>3. ASSUME NEW w \in DOMAIN users', NEW x \in DOMAIN users', w # x,
               Owner(w)', w \notin DOMAIN users
        PROVE  /\ users'[w].by \in Request /\ users'[x].by \in Request
               /\ Overlap(users[w].by, users[x].by)' /\ Overlap(users[x].by, users[w].by)'
    <3>1. InsertUser(r) /\ w = req[r].user
      BY <2>3, Newcomer
    <3>2. x \in DOMAIN users
      BY <2>3, <3>1, Newcomer
    <3>3. at[r] = "insert" /\ users'[w] = NewRow(r)
      BY <2>3, Newcomer
    <3>4. req[r].first /\ users'[w].by = r
      BY <2>3, <3>3 DEF Owner, NewRow
    <3>5. users[x].by \in Request /\ Overlap(users[x].by, r)
      BY <1>1, <3>2, <3>3, <3>4 DEF Leads
    <3>6. users'[x].by \in Request /\ Overlap(users[x].by, r)'
      BY <1>1, <3>2, <3>5, StillOverlap
    <3>7. QED  BY <3>4, <3>6 DEF Overlap
  <2>4. QED  BY <1>4, <2>2, <2>3
<1>5. QED  BY <1>2, <1>3, <1>4 DEF Bootstrapped
-----------------------------------------------------------------------------
(* Sessions that a ban or a change of password should have ended. *)

(* A user becomes stale by the statement after which sessions are deleted. *)
LEMMA TurnsStale ==
    ASSUME Typed, NEW r \in Request, Acts(r), NEW op \in {"ban", "password"},
           NEW u \in DOMAIN users, NEW x, Stale(op, u, x)', ~Stale(op, u, x)
    PROVE  Acted(op, r, u)' /\ at'[r] = "revoke" /\ Active(r)'
<1>1. Writes(r)
  BY ActsSplit, ReadsQuiet, StartsFresh DEF Quiet, Fresh, Stale
<1>2. Changes(r, u)
  BY <1>1, WritesWritten DEF Written
<1>3. CASE op = "ban"
  <2>1. Ban(r) /\ u = req[r].user
    BY <1>2, <1>3, AccountFields DEF Stale, Changes
  <2>2. QED  BY <1>3, <2>1, BanStep DEF Acted, Active, Ended
<1>4. CASE op = "password"
  <2>1. Swap(r) /\ u = req[r].user
    BY <1>2, <1>4 DEF Stale, Changes
  <2>2. QED  BY <1>4, <2>1, SwapStep DEF Acted, Active, Ended
<1>5. QED  BY <1>3, <1>4

(* Who has acted stays so. *)
LEMMA ActedStays ==
    ASSUME Typed, NEW r \in Request, Acts(r), NEW op \in {"ban", "password"},
           NEW b \in Request, NEW u, Acted(op, b, u)
    PROVE  /\ Acted(op, b, u)'
           /\ at[b] # "done" /\ at'[b] = "done" => b = r /\ Revoke(r)
<1>1. Frame(r)
  BY StepFrame
<1>2. CASE b # r
  BY <1>1, <1>2 DEF Frame, Alone, Acted
<1>3. CASE b = r
  <2>1. at[r] = "revoke"
    BY <1>1, <1>3 DEF Frame, Ended, Acted
  <2>2. Quiet(r)
    BY <2>1, ActsSplit, ReadsQuiet, StartsFresh, WritesWritten DEF Fresh, Written
  <2>3. QED  BY <1>3, <2>1, <2>2 DEF Quiet, Acted
<1>4. QED  BY <1>2, <1>3

Pending == {"belt", "promote", "activate", "session"}

LEMMA PendingExplained ==
    ASSUME Typed, Typed', NEW op \in {"ban", "password"}, Explained(op),
           NEW r \in Request, Acts(r), NEW q \in Request, at'[q] \in Pending,
           Stale(op, req[q].user, req[q].secret)'
    PROVE  \E b \in Request : Acted(op, b, req[q].user)' /\ Overlap(b, q)'
<1>1. Frame(r) /\ Here(q)
  BY StepFrame DEF Typed
<1>2. ASSUME at[q] \in Pending, req'[q] = req[q]
      PROVE  \E b \in Request : Acted(op, b, req[q].user)' /\ Overlap(b, q)'
  <2>1. req[q].user \in DOMAIN users
    BY <1>1, <1>2 DEF Here, Known, Pending
  <2>2. PICK u \in DOMAIN users, x \in Secret : u = req[q].user /\ x = req[q].secret
    BY <2>1, LocalFields
  <2>3. Stale(op, u, x)'
    BY <1>2, <2>2 DEF Stale
  <2>4. CASE Stale(op, u, x)
    <3>1. Stale(op, req[q].user, req[q].secret)
      BY <2>2, <2>4
    <3>2. PICK b \in Request : Acted(op, b, req[q].user) /\ Overlap(b, q)
      BY <1>2, <3>1 DEF Explained, Pending
    <3>3. Acted(op, b, u)
      BY <2>2, <3>2
    <3>4. Acted(op, b, u)' /\ Overlap(b, q)'
      BY <1>1, <3>2, <3>3, ActedStays, OverlapStable
    <3>5. QED  BY <1>2, <2>2, <3>4 DEF Acted
  <2>5. CASE ~Stale(op, u, x)
    <3>1. Acted(op, r, u)' /\ at'[r] = "revoke" /\ Active(r)'
      BY <2>3, <2>5, TurnsStale
    <3>2. Active(q)'
      BY DEF Active, Ended, Pending
    <3>3. Overlap(r, q)'
      BY <3>1, <3>2, ActiveBeside
    <3>4. QED  BY <1>2, <2>2, <3>1, <3>3 DEF Acted
  <2>6. QED  BY <2>4, <2>5
<1>3. CASE q # r
  BY <1>1, <1>2, <1>3 DEF Frame, Alone, Acted
<1>4. CASE q = r
  <2>1. CASE at[r] \in Pending /\ req'[r] = req[r]
    BY <1>2, <1>4, <2>1 DEF Acted
  <2>2. CASE InsertUser(r)
    <3>1. users'[req'[r].user] = NewRow(r) /\ req'[r].secret = r
      BY <2>2, Inserted
    <3>2. ~NewRow(r).banned /\ NewRow(r).secret = r
      BY DEF NewRow
    <3>3. QED  BY <1>4, <3>1, <3>2 DEF Stale
  <2>3. CASE CheckLogin(r)
    <3>1. PICK v \in DOMAIN users :
              /\ users[v].secret = req[r].secret /\ ~users[v].banned
              /\ Read(r, "check", "session", [req[r] EXCEPT !.user = v])
      BY <2>3 DEF CheckLogin
    <3> DEFINE l == [req[r] EXCEPT !.user = v]
    <3>2. l \in Local /\ "session" \in Label /\ l.user = v /\ l.secret = req[r].secret
      BY LocalFields, AccountFields DEF Label, Local
    <3> HIDE DEF l
    <3>3. Goto(r, "check", "session", l) /\ users' = users
      BY <3>1 DEF l, Read, Data
    <3>4. req'[r] = l
      BY <3>2, <3>3, GoesOn
    <3>5. QED  BY <1>4, <3>1, <3>2, <3>3, <3>4 DEF Stale
  <2>4. QED
    BY <1>4, <2>1, <2>2, <2>3, ActsSplit, ReadsQuiet, StartsFresh, WritesWritten
       DEF Quiet, Fresh, Written, Pending
<1>5. QED  BY <1>3, <1>4

LEMMA SessionExplained ==
    ASSUME Typed, Typed', NEW op \in {"ban", "password"}, Explained(op),
           NEW r \in Request, Acts(r), NEW s \in sessions', Stale(op, s.user, s.secret)'
    PROVE  \E b \in Request :
              /\ Acted(op, b, s.user)'
              /\ at'[b] # "done" \/ (s.by # None /\ Overlap(b, s.by)')
<1>1. Frame(r)
  BY StepFrame
<1>2. CASE s \in sessions
  <2>1. s.user \in DOMAIN users /\ s.by \in Request \cup {None}
    BY <1>2, StoredFields DEF Session
  <2>2. CASE Stale(op, s.user, s.secret)
    <3>1. PICK b \in Request :
              /\ Acted(op, b, s.user)
              /\ at[b] # "done" \/ (s.by # None /\ Overlap(b, s.by))
      BY <1>2, <2>2 DEF Explained
    <3>2. Acted(op, b, s.user)'
      BY <3>1, ActedStays
    <3>3. CASE s.by # None /\ Overlap(b, s.by)
      BY <1>1, <2>1, <3>2, <3>3, OverlapStable
    <3>4. CASE at[b] # "done"
      <4>1. ASSUME at'[b] = "done"
            PROVE  FALSE
        <5>1. b = r /\ Revoke(r)
          BY <3>1, <3>4, <4>1, ActedStays
        <5>2. s.user # req[r].user
          BY <5>1 DEF Revoke
        <5>3. QED  BY <3>1, <5>1, <5>2 DEF Acted
      <4>2. QED  BY <3>2, <4>1
    <3>5. QED  BY <3>1, <3>3, <3>4
  <2>3. CASE ~Stale(op, s.user, s.secret)
    <3>1. Acted(op, r, s.user)' /\ at'[r] = "revoke"
      BY <2>1, <2>3, TurnsStale
    <3>2. QED  BY <3>1
  <2>4. QED  BY <2>2, <2>3
<1>3. CASE s \notin sessions
  <2>1. CreateSession(r)
    BY <1>3, ActsSplit, ReadsQuiet, StartsFresh, WritesWritten DEF Quiet, Fresh, Written
  <2>2. /\ s = [user |-> req[r].user, secret |-> req[r].secret, by |-> r]
        /\ at[r] = "session" /\ users' = users
    BY <1>3, <2>1 DEF CreateSession, Goto
  <2>3. s.user = req[r].user /\ s.secret = req[r].secret /\ s.by = r /\ r # None
    BY <2>2, AccountsAssumption
  <2>4. Stale(op, req[r].user, req[r].secret)
    BY <2>2, <2>3 DEF Stale
  <2>5. PICK b \in Request : Acted(op, b, req[r].user) /\ Overlap(b, r)
    BY <2>2, <2>4 DEF Explained
  <2>6. Acted(op, b, s.user)' /\ Overlap(b, r)'
    BY <1>1, <2>3, <2>5, ActedStays, OverlapStable
  <2>7. QED  BY <2>3, <2>6
<1>4. QED  BY <1>2, <1>3

LEMMA ExplainedKept ==
    ASSUME Typed, Typed', NEW op \in {"ban", "password"}, Explained(op),
           NEW r \in Request, Acts(r)
    PROVE  Explained(op)'
<1>1. ASSUME NEW s \in sessions', Stale(op, s.user, s.secret)'
      PROVE  \E b \in Request :
                /\ Acted(op, b, s.user)'
                /\ at'[b] # "done" \/ (s.by # None /\ Overlap(b, s.by)')
  BY <1>1, SessionExplained
<1>2. ASSUME NEW q \in Request, at'[q] \in Pending, Stale(op, req[q].user, req[q].secret)'
      PROVE  \E b \in Request : Acted(op, b, req[q].user)' /\ Overlap(b, q)'
  BY <1>2, PendingExplained
<1>3. QED  BY <1>1, <1>2 DEF Explained, Pending
-----------------------------------------------------------------------------
(* The cache follows the settings. *)

LEMMA WroteGrows ==
    ASSUME Typed, NEW r \in Request, Acts(r)
    PROVE  Wrote \subseteq Wrote'
<1>1. Frame(r)
  BY StepFrame
<1>2. ASSUME NEW t \in Wrote
      PROVE  t \in Wrote'
  <2>1. CASE t # r
    BY <1>1, <1>2, <2>1 DEF Wrote, Frame, Alone
  <2>2. CASE t = r
    <3>1. req[r].op = "set" /\ at[r] # "store" /\ at[r] # "idle"
      BY <1>2, <2>2, LocalFields DEF Wrote, Typed, Here, On
    <3>2. Quiet(r)
      BY <3>1, ActsSplit, ReadsQuiet, StartsFresh, WritesWritten DEF Fresh, Written
    <3>3. QED  BY <2>2, <3>1, <3>2 DEF Quiet, Wrote
  <2>3. QED  BY <2>1, <2>2
<1>3. QED  BY <1>2

(* Only a refresh that is answered makes a change of the setting done. *)
LEMMA SetByRefresh ==
    ASSUME Typed, NEW r \in Request, Acts(r), Set(r)'
    PROVE  Refresh(r) /\ req'[r] = req[r] /\ at[r] = "refresh" /\ req[r].op = "set"
           /\ r \in Wrote
<1>1. at'[r] = "done" /\ req'[r].op = "set"
  BY DEF Set
<1>2. Refresh(r) /\ req'[r] = req[r]
  <2>1. ~Fresh(r)
    BY <1>1 DEF Fresh
  <2>2. ~Written(r)
    BY <1>1, NoLocalType DEF Written
  <2>3. Quiet(r)
    BY <2>1, <2>2, ActsSplit, ReadsQuiet, StartsFresh, WritesWritten
  <2>4. QED  BY <1>1, <2>3 DEF Quiet
<1>3. QED  BY <1>1, <1>2 DEF Refresh, Goto, Wrote

LEMMA CachedKept ==
    ASSUME Typed, NEW r \in Request, Acts(r), NEW s \in Request, Cached(s),
           Set(s)', Wrote' \ {s} \subseteq after'[s]
    PROVE  cache' = req'[s].value
<1>1. Frame(r)
  BY StepFrame
<1>2. CASE s = r
  BY <1>2, SetByRefresh DEF Refresh
<1>3. CASE s # r
  <2>1. /\ Set(s) /\ at'[s] = at[s] /\ req'[s] = req[s] /\ after'[s] = after[s]
        /\ req[s].value # ""
    BY <1>1, <1>3 DEF Frame, Alone, Set, Typed, Here
  <2>2. cache = req[s].value
    BY <2>1, WroteGrows DEF Cached
  <2>3. ~Refresh(r)
    <3>1. SUFFICES ASSUME Refresh(r)
                   PROVE  FALSE
      OBVIOUS
    <3>2. at[r] = "refresh" /\ ~Ended(r)
      BY <3>1 DEF Refresh, Goto, Ended
    <3>3. r \in Wrote
      BY <3>2, LocalFields DEF Wrote, Typed, Here, On, Op
    <3>4. r \in after[s]
      BY <1>3, <2>1, <3>3, WroteGrows
    <3>5. QED  BY <3>2, <3>4 DEF Typed
  <2>4. cache' = cache
    BY <2>1, <2>2, <2>3, ActsSplit, ReadsQuiet, StartsFresh, WritesWritten
       DEF Quiet, Fresh, Written
  <2>5. QED  BY <2>1, <2>2, <2>4
<1>4. QED  BY <1>2, <1>3

LEMMA ObeyedKept ==
    ASSUME Typed, Followed, NEW r \in Request, Acts(r), NEW q \in Request, NEW s \in Request,
           req'[q].op = "register", req'[q].value # "", Set(s)', s \in after'[q],
           {t \in Wrote' : q \notin after'[t]} \ {s} \subseteq after'[s]
    PROVE  req'[q].value = req'[s].value
<1>1. Frame(r) /\ Cached(s) /\ Obeyed(q, s)
  BY StepFrame DEF Followed
<1>2. q # s
  BY DEF Set
<1>3. q = r => at[r] # "idle"
  <2>1. q = r => ~Fresh(r)
    BY DEF Fresh
  <2>2. QED
    BY <2>1, ActsSplit, ReadsQuiet, StartsFresh, WritesWritten DEF Quiet, Written
<1>4. after'[q] = after[q]
  BY <1>1, <1>3 DEF Frame, Alone
<1>5. s # r
  <2>1. Ended(s)
    BY <1>4 DEF Typed
  <2>2. QED  BY <1>1, <2>1 DEF Frame
<1>6. /\ Set(s) /\ at'[s] = at[s] /\ req'[s] = req[s] /\ after'[s] = after[s]
      /\ req[s].value # ""
  BY <1>1, <1>5 DEF Frame, Alone, Set, Typed, Here
<1>7. \A t \in Wrote : after'[t] = after[t]
  <2>1. \A t \in Wrote : at[t] # "idle"
    BY LocalFields DEF Wrote, Typed, Here, On
  <2>2. QED  BY <1>1, <2>1 DEF Frame, Alone, Wrote
<1>8. {t \in Wrote : q \notin after[t]} \ {s} \subseteq after[s]
  BY <1>6, <1>7, WroteGrows
<1>9. CASE req[q].op = "register" /\ req'[q].value = req[q].value
  BY <1>1, <1>4, <1>6, <1>8, <1>9 DEF Obeyed
<1>10. CASE ~(req[q].op = "register" /\ req'[q].value = req[q].value)
  <2>1. q = r
    BY <1>1, <1>10 DEF Frame, Alone
  <2>2. Quiet(r) /\ ~Ended(r)
    BY <1>1, <1>3, <1>10, <2>1, ActsSplit, ReadsQuiet, StartsFresh, WritesWritten, NoLocalType
       DEF Fresh, Written, Frame
  <2>3. cache = "" \/ req'[q].value = cache
    BY <1>10, <2>1, <2>2 DEF Quiet
  <2>4. \A t \in Wrote : q \notin after[t]
    BY <2>1, <2>2 DEF Typed, Wrote
  <2>5. Wrote \ {s} \subseteq after[s]
    BY <1>8, <2>4
  <2>6. cache = req[s].value
    BY <1>1, <1>6, <2>5 DEF Cached
  <2>7. QED  BY <1>6, <2>3, <2>6
<1>11. QED  BY <1>9, <1>10

LEMMA FollowedKept ==
    ASSUME Typed, Followed, NEW r \in Request, Acts(r)
    PROVE  Followed'
<1>1. ASSUME NEW s \in Request
      PROVE  Cached(s)'
  <2>1. Cached(s)
    BY DEF Followed
  <2>2. QED  BY <2>1, CachedKept DEF Cached
<1>2. ASSUME NEW s \in Request, NEW q \in Request
      PROVE  Obeyed(q, s)'
  BY ObeyedKept DEF Obeyed
<1>3. QED  BY <1>1, <1>2 DEF Followed
-----------------------------------------------------------------------------
(* Names. *)

(* Who gave a name has given it for good, until somebody else changes it.  *)
LEMMA NamedStays ==
    ASSUME Typed, NEW r \in Request, Frame(r), NEW u \in DOMAIN users, NEW q \in Request,
           Named(q, u), users'[u].name = users[u].name
    PROVE  Named(q, u)'
<1>1. CASE users[u].by = q
  BY <1>1 DEF Frame, Named
<1>2. CASE users[u].by # q
  <2>1. Ended(q)
    BY <1>2 DEF Named, Ended
  <2>2. at'[q] = at[q] /\ req'[q] = req[q]
    BY <2>1 DEF Frame, Alone
  <2>3. QED  BY <1>2, <2>2 DEF Named
<1>3. QED  BY <1>1, <1>2

LEMMA ApartKept ==
    ASSUME Typed, NEW r \in Request, Acts(r), NEW s \in Request, Apart(s)
    PROVE  Apart(s)'
<1>1. Frame(r)
  BY StepFrame
<1> SUFFICES ASSUME req'[s].op = "rename", at'[s] \in {"rename", "done"}, ~req'[s].own,
                    NEW u \in DOMAIN users', u # req'[s].user,
                    Fold[users'[u].name] = Fold[req'[s].name]
             PROVE  \E q \in Request \ after'[s] : Named(q, u)'
  BY DEF Apart
<1>2. CASE at'[s] = "rename" /\ s = r
  <2>1. CheckName(r)
    BY <1>2, ActsSplit, ReadsQuiet, StartsFresh, WritesWritten DEF Quiet, Fresh, Written
  <2>2. Goto(r, "taken", "rename", req[r]) /\ users' = users
    BY <2>1 DEF CheckName, Read, Data
  <2>3. req'[r] = req[r]
    BY <2>2, LocalFields, GoesOn DEF Label
  <2>4. QED  BY <1>2, <2>1, <2>2, <2>3 DEF CheckName
<1>3. CASE ~(at'[s] = "rename" /\ s = r)
  <2>1. /\ req'[s] = req[s] /\ at[s] \in {"rename", "done"} /\ after'[s] = after[s]
        /\ s = r => UpdateUsername(r) /\ at[r] = "rename"
    <3>1. CASE s # r
      BY <1>1, <3>1 DEF Frame, Alone
    <3>2. CASE s = r
      <4>1. at'[r] = "done" /\ req'[r].op = "rename"
        BY <1>3, <3>2
      <4>2. UpdateUsername(r)
        BY <4>1, ActsSplit, ReadsQuiet, StartsFresh, WritesWritten DEF Quiet, Fresh, Written
      <4>3. QED  BY <1>1, <3>2, <4>2, UpdateUsernameStep DEF Frame
    <3>3. QED  BY <3>1, <3>2
  <2>2. CASE u \in DOMAIN users /\ users'[u].name = users[u].name
    <3>1. PICK q \in Request \ after[s] : Named(q, u)
      BY <2>1, <2>2 DEF Apart
    <3>2. Named(q, u)'
      BY <1>1, <2>2, <3>1, NamedStays
    <3>3. QED  BY <2>1, <3>1, <3>2
  <2>3. CASE u \in DOMAIN users /\ users'[u].name # users[u].name
    <3>1. UpdateUsername(r) /\ u = req[r].user
      BY <2>3, ActsSplit, ReadsQuiet, StartsFresh, WritesWritten DEF Quiet, Fresh, Written, Changes
    <3>2. /\ at'[r] = "done" /\ req'[r] = req[r] /\ req[r].op = "rename" /\ ~Ended(r)
          /\ Rewrites(r, [users[req[r].user] EXCEPT !.name = req[r].name])
      BY <1>1, <3>1, UpdateUsernameStep DEF Frame
    <3>3. users'[u].name = req[r].name
      BY <2>3, <3>1, <3>2, RewritesRow, AccountFields DEF Account
    <3>4. Named(r, u)'
      BY <3>1, <3>2, <3>3 DEF Named
    <3>5. r \notin after[s]
      BY <3>2 DEF Typed
    <3>6. QED  BY <2>1, <3>4, <3>5
  <2>4. CASE u \notin DOMAIN users
    <3>1. users'[u].by = r
      BY <2>4, Newcomer
    <3>2. r \notin after[s]
      BY <1>1 DEF Frame, Typed
    <3>3. QED  BY <2>1, <3>1, <3>2 DEF Named
  <2>5. QED  BY <2>2, <2>3, <2>4
<1>4. QED  BY <1>2, <1>3
-----------------------------------------------------------------------------
(* The invariant, and what follows from it. *)

LEMMA InitTyped ==
    ASSUME Init
    PROVE  Typed
<1>1. /\ Settled(users)
      /\ \A r \in Request : at[r] = "idle" /\ req[r] = NoLocal /\ after[r] = {}
  BY AccountsAssumption DEF Init
<1>2. MaxUsers \in Nat
  BY AccountsAssumption
<1>3. PICK n \in 0..MaxUsers : DOMAIN users = 1..n
  BY <1>1 DEF Settled
<1>4. n \in Nat /\ 0 <= n /\ n <= MaxUsers /\ Cardinality(DOMAIN users) = n
  <2>1. n \in Nat /\ n <= MaxUsers
    BY <1>2
  <2>2. Cardinality(1..n) = IF 1 > n THEN 0 ELSE n - 1 + 1
    BY <2>1, FS_Interval
  <2>3. QED  BY <1>3, <2>1, <2>2
<1>5. nextId = n + 1
  BY <1>4 DEF Init
<1>6. nextId \in 1..(MaxUsers + 1) /\ \A u \in DOMAIN users : u \in Id /\ u < nextId
  BY <1>2, <1>3, <1>4, <1>5 DEF Id
<1>7. \A u \in DOMAIN users : users[u] \in Account
  BY <1>1 DEF Settled
<1>8. sessions \subseteq Session /\ \A s \in sessions : s.user \in DOMAIN users
  <2>1. ASSUME NEW s \in sessions
        PROVE  s \in Session /\ s.user \in DOMAIN users
    <3>1. PICK u \in DOMAIN users : s = [user |-> u, secret |-> users[u].secret, by |-> None]
      BY DEF Init
    <3>2. users[u].secret \in Secret /\ u \in Id
      BY <1>6, <1>7 DEF Account
    <3>3. QED  BY <3>1, <3>2 DEF Session
  <2>2. QED  BY <2>1
<1>9. \A u, v \in DOMAIN users : users[u].name = users[v].name => u = v
  BY <1>1 DEF Settled
<1>10. /\ at \in [Request -> Label] /\ req \in [Request -> Local]
       /\ after \in [Request -> SUBSET Request]
  BY NoLocalType DEF Init, Label
<1>11. /\ stored \in Value \ {""} /\ cache \in Value /\ mutex = None /\ cache = ""
       /\ \A r \in Request : mutex # r
  BY AccountsAssumption DEF Init, Value
<1>12. TypeOK
  BY <1>1, <1>6, <1>7, <1>8, <1>9, <1>10, <1>11 DEF TypeOK
<1>13. \A r \in Request : Here(r)
  BY <1>1, NoLocalType DEF Here, On, Known
<1>14. QED  BY <1>1, <1>11, <1>12, <1>13 DEF Typed

LEMMA InitIInv ==
    ASSUME Init
    PROVE  IInv
<1>1. /\ Settled(users) /\ Typed
      /\ \A r \in Request : at[r] = "idle" /\ req[r].op = ""
  BY InitTyped, NoLocalType, AccountsAssumption DEF Init
<1>2. Bootstrapped
  BY <1>1 DEF Bootstrapped, Leads, Settled, Owner
<1>3. ASSUME NEW s \in sessions
      PROVE  ~users[s.user].banned /\ s.secret = users[s.user].secret
  <2>1. PICK u \in {v \in DOMAIN users : ~users[v].banned} :
            s = [user |-> u, secret |-> users[u].secret, by |-> None]
    BY DEF Init
  <2>2. s.user = u /\ s.secret = users[u].secret
    BY <2>1
  <2>3. QED  BY <2>1, <2>2
<1>4. Explained("ban") /\ Explained("password")
  BY <1>1, <1>3 DEF Explained, Stale
<1>5. Followed
  BY <1>1 DEF Followed, Cached, Obeyed, Set
<1>6. \A s \in Request : Apart(s)
  BY <1>1 DEF Apart
<1>7. QED  BY <1>1, <1>2, <1>4, <1>5, <1>6 DEF IInv

LEMMA Invariance == Spec => []IInv
<1>1. IInv /\ [Next]_vars => IInv'
  <2> SUFFICES ASSUME IInv, [Next]_vars
               PROVE  IInv'
    OBVIOUS
  <2>1. ASSUME NEW r \in Request, Acts(r)
        PROVE  IInv'
    <3>1. Typed /\ Typed'
      BY <2>1, StepTyped DEF IInv
    <3>2. Bootstrapped' /\ Explained("ban")' /\ Explained("password")' /\ Followed'
      BY <2>1, <3>1, BootstrapKept, ExplainedKept, FollowedKept DEF IInv
    <3>3. \A s \in Request : Apart(s)'
      BY <2>1, <3>1, ApartKept DEF IInv
    <3>4. QED  BY <3>1, <3>2, <3>3 DEF IInv
  <2>2. CASE UNCHANGED vars
    <3>1. UNCHANGED <<users, nextId, sessions, stored, cache, mutex, at, req, after>>
      BY <2>2 DEF vars
    <3>2. TypeOK'
      BY <3>1 DEF IInv, Typed, TypeOK
    <3>3. Typed'
      BY <3>1, <3>2 DEF IInv, Typed, Here, Ended, Known
    <3>4. Bootstrapped'
      BY <3>1 DEF IInv, Bootstrapped, Leads, NoPowers, NoRejections, Owner, Overlap
    <3>5. Explained("ban")' /\ Explained("password")'
      BY <3>1 DEF IInv, Explained, Stale, Acted, Overlap
    <3>6. Wrote' = Wrote
      BY <3>1 DEF Wrote
    <3>7. Followed'
      BY <3>1, <3>6 DEF IInv, Followed, Cached, Obeyed, Set
    <3>8. \A s \in Request : Apart(s)'
      BY <3>1 DEF IInv, Apart, Named
    <3>9. QED  BY <3>3, <3>4, <3>5, <3>7, <3>8 DEF IInv
  <2>3. QED  BY <2>1, <2>2 DEF Next, Acts
<1>2. QED  BY InitIInv, <1>1, PTL DEF Spec

(* The tables keep their types: two users never share a name or an id, a   *)
(* session belongs to a user who is there, and the cache's lock is held by *)
(* the request that fills it.                                              *)
THEOREM TypeCorrect == Spec => []TypeOK
<1>1. IInv => TypeOK
  BY DEF IInv, Typed
<1>2. QED  BY Invariance, <1>1, PTL

(* UserStore.Create's bootstrap: there is an active Owner once there is    *)
(* anybody, and a second one only where registrations raced.               *)
THEOREM AlwaysFirstOwner == Spec => []FirstOwner
<1>1. ASSUME IInv
      PROVE  FirstOwner
  <2>1. (Doing("power") = {} => NoPowers) /\ (Doing("reject") = {} => NoRejections)
    BY DEF Doing, NoPowers, NoRejections
  <2>2. QED  BY <1>1, <2>1 DEF IInv, Bootstrapped, FirstOwner, SomeOwner, OwnersOverlap
<1>2. QED  BY Invariance, <1>1, PTL

(* AdminHandler.BanUser: a ban ends the sessions of a user, except where   *)
(* its DELETE failed or a login ran beside it.                             *)
THEOREM BannedStayOut == Spec => []BannedOut
<1>1. ASSUME IInv
      PROVE  BannedOut
  BY <1>1 DEF IInv, Explained, Stale, Acted, BannedOut, Doing
<1>2. QED  BY Invariance, <1>1, PTL

(* ProfileHandler.ChangePassword ends the sessions of the old password,    *)
(* except in the same two ways.                                            *)
THEOREM OldPasswordsStayOut == Spec => []OldPasswordOut
<1>1. ASSUME IInv
      PROVE  OldPasswordOut
  BY <1>1 DEF IInv, Explained, Stale, Acted, OldPasswordOut, Doing
<1>2. QED  BY Invariance, <1>1, PTL

(* SettingsStore: a registration obeys the last answered change of         *)
(* require_approval, whatever else the cache went through.                 *)
THEOREM GateAlwaysFollows == Spec => []GateFollowsSettings
<1>1. ASSUME IInv, NEW r \in Doing("register"), NEW s \in Doing("set"),
             req[r].value # "", at[s] = "done", s \in after[r],
             {t \in Doing("set") : r \notin after[t]} \ {s} \subseteq after[s]
      PROVE  req[r].value = req[s].value
  <2>1. {t \in Wrote : r \notin after[t]} \ {s} \subseteq after[s]
    BY <1>1 DEF Wrote, Doing
  <2>2. Obeyed(r, s)
    BY <1>1 DEF IInv, Followed, Doing
  <2>3. QED  BY <1>1, <2>1, <2>2 DEF Obeyed, Set, Doing
<1>2. IInv => GateFollowsSettings
  BY <1>1 DEF GateFollowsSettings
<1>3. QED  BY Invariance, <1>2, PTL

(* UsernameExists: a rename leaves two names that differ only by case only *)
(* where the other user got its name while it ran or later.                *)
THEOREM NamesStayApart == Spec => []NamesApart
<1>1. ASSUME IInv
      PROVE  NamesApart
  BY <1>1 DEF IInv, Apart, Named, NamesApart, Doing
<1>2. QED  BY Invariance, <1>1, PTL
=============================================================================
