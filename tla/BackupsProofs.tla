--------------------------- MODULE BackupsProofs ---------------------------
(***************************************************************************)
(* Proofs about Backups.  A file name belongs to one request unless it is  *)
(* spoiled; so what a request wrote under its name is still there when it  *)
(* comes back to it, and modification times only grow.                     *)
(***************************************************************************)
EXTENDS Backups, FiniteSetTheorems, SequenceTheorems, TLAPS

Legacy == <<"legacy", 0>>
Begun(r) == at[r] # "idle"

(* Two requests share a name only if it is spoiled, and every file that    *)
(* was finished has the name of a request, or is the first one.            *)
Named ==
    /\ \A r \in Request : Begun(r) => req[r].name[1] \in {"manual", "import"}
    /\ \A r \in Request : at[r] = "idle" => req[r] = NoLocal
    /\ \A r, s \in Request : Begun(r) /\ Begun(s) /\ r # s /\ req[r].name = req[s].name =>
          req[r].name \in spoiled
    /\ \A n \in DOMAIN made \ {Legacy} : \E r \in Request : Begun(r) /\ req[r].name = n
    /\ \A n \in DOMAIN tmp : n[1] # "legacy" /\ tmp[n].key # Plain

(* A request that has not renamed its file yet has finished none.          *)
Unfinished ==
    \A r \in Request : at[r] \in {"dump", "write", "rename", "remove"} /\ req[r].name \notin spoiled =>
        req[r].name \notin DOMAIN made

(* A file is as old as the record says, and one in the making is newer.    *)
Dated ==
    /\ IsFiniteSet(DOMAIN made)
    /\ \A n \in DOMAIN made : made[n] <= clock
    /\ \A n \in DOMAIN dir : n \in DOMAIN made /\ dir[n].time = made[n]
    /\ \A n \in DOMAIN tmp : tmp[n].time <= clock /\ (n \in DOMAIN made => made[n] < tmp[n].time)

(* Only files with maxBackups newer ones are removed.                      *)
Later(n) == {m \in DOMAIN made : made[m] > made[n]}
Kept ==
    /\ \A n \in DOMAIN made \ spoiled : n \in DOMAIN dir \/ Cardinality(Later(n)) >= Keep
    /\ \A r \in Request : \A n \in req[r].doomed \ spoiled :
          n \in DOMAIN made /\ Cardinality(Later(n)) >= Keep

(* What the file of an import holds.                                       *)
Holds(f, r) ==
    f.script = Dump(req[r].before) /\ (at[r] \in {"rename", "replay"} \/ keySet => f.key = key)
Covered ==
    \A r \in Request : IsImport(r) /\ req[r].name \notin spoiled =>
        LET n == req[r].name IN
        /\ at[r] = "rename" => n \in DOMAIN tmp /\ Holds(tmp[n], r)
        /\ at[r] \in {"replay", "failed"} =>
              n \in DOMAIN made /\ (n \in DOMAIN dir => Holds(dir[n], r))

(* A script that pg_dump writes: each table is dropped once at most, then   *)
(* loaded once.                                                            *)
Drops(s, t) == {i \in DOMAIN s : s[i].op = "drop" /\ s[i].table = t}
Loads(s, t) == {i \in DOMAIN s : s[i].op = "load" /\ s[i].table = t}
Proper(s) ==
    \A t \in Table :
        /\ \A i, j \in Loads(s, t) : i = j
        /\ \A i \in Drops(s, t) : Loads(s, t) # {} /\ \A j \in Loads(s, t) : i < j
Scripts ==
    /\ \A n \in DOMAIN dir : Proper(dir[n].script)
    /\ \A n \in DOMAIN tmp : Proper(tmp[n].script)
    /\ copy.whole => Proper(copy.script)
    /\ \A r \in Request : req[r].whole => Proper(req[r].upload)

(* How far the replay has come: k is the next statement of s, d the         *)
(* database and b what it was before.                                      *)
Past(S, k) == {i \in S : i < k}
Applied(s, k, d, b, t) ==
    \/ \E i \in Past(Loads(s, t), k) : d[t] = s[i].data
    \/ Past(Loads(s, t), k) = {} /\ Past(Drops(s, t), k) # {} /\ d[t] = Gone
    \/ Past(Loads(s, t), k) = {} /\ Past(Drops(s, t), k) = {} /\ d[t] = b[t]
Replayed ==
    \A r \in Request \ blurred : IsImport(r) =>
        /\ at[r] # "stat"
        /\ at[r] \in {"dump", "write", "rename"} => req[r].next = 1
        /\ at[r] \in {"write", "rename", "replay"} =>
              /\ req[r].next = 1 => db = req[r].before
              /\ req[r].whole =>
                    \A t \in Table : Applied(req[r].upload, req[r].next, db, req[r].before, t)
        /\ at[r] = "scan" /\ req[r].whole => db = Target(r)

IInv == TypeOK /\ Named /\ Unfinished /\ Dated /\ Kept /\ Covered /\ Scripts /\ Replayed
-----------------------------------------------------------------------------
(* Files, scripts and types.                                               *)

LEMMA WithFacts ==
  ASSUME NEW f, NEW x, NEW v
  PROVE  /\ DOMAIN With(f, x, v) = DOMAIN f \cup {x}
         /\ With(f, x, v)[x] = v
         /\ \A y \in DOMAIN f : y # x => With(f, x, v)[y] = f[y]
BY DEF With

LEMMA WithoutFacts ==
  ASSUME NEW f, NEW x
  PROVE  /\ DOMAIN Without(f, x) = DOMAIN f \ {x}
         /\ \A y \in DOMAIN f : y # x => Without(f, x)[y] = f[y]
BY DEF Without

LEMMA Bounds ==
  /\ Keep \in Nat /\ ListCap \in Nat /\ MaxVersion \in Nat /\ MaxSecond \in Nat /\ MaxKey \in Nat
  /\ 0 < Keep /\ 0 < MaxVersion /\ 0 < MaxKey /\ IsFiniteSet(Table)
BY BackupsAssumption

LEMMA FreshType == Fresh \in Database
BY Bounds DEF Fresh, Database

LEMMA NoLocalType ==
  /\ NoLocal \in Local /\ NoLocal.name = Legacy /\ NoLocal.next = 1 /\ NoLocal.doomed = {}
  /\ NoLocal.whole = TRUE /\ NoLocal.upload = <<>>
<1>1. Legacy \in Name
  BY Bounds DEF Legacy, Name
<1>2. <<>> \in Seq(Statement)
  OBVIOUS
<1>3. QED
  BY <1>1, <1>2, FreshType DEF NoLocal, Local, Legacy

(* The order of the tables in a dump. *)
LEMMA TablesListed ==
  ASSUME NEW S, IsFiniteSet(S)
  PROVE  /\ SetToSeq(S) \in [1..Cardinality(S) -> S]
         /\ \A i, j \in 1..Cardinality(S) : SetToSeq(S)[i] = SetToSeq(S)[j] => i = j
         /\ Cardinality(S) \in Nat /\ Len(SetToSeq(S)) = Cardinality(S)
<1>1. Cardinality(S) \in Nat /\ ExistsBijection(1..Cardinality(S), S)
  BY FS_CardinalityType
<1>2. \E f \in [1..Cardinality(S) -> S] : IsInjective(f)
  BY <1>1 DEF ExistsBijection, Bijection, Injection, IsInjective
<1>3. SetToSeq(S) \in [1..Cardinality(S) -> S] /\ IsInjective(SetToSeq(S))
  BY <1>2 DEF SetToSeq
<1>4. \A i, j \in 1..Cardinality(S) : SetToSeq(S)[i] = SetToSeq(S)[j] => i = j
  BY <1>3 DEF IsInjective
<1>5. Len(SetToSeq(S)) = Cardinality(S)
  BY <1>1, <1>3
<1>6. QED
  BY <1>1, <1>3, <1>4, <1>5

(* What pg_dump writes is a proper script. *)
LEMMA DumpType ==
  ASSUME NEW d \in Database
  PROVE  Dump(d) \in Seq(Statement) /\ Proper(Dump(d))
<1> DEFINE S == {t \in Table : d[t] # Gone}
           tables == SetToSeq(S)
           k == Cardinality(S)
           D == Dump(d)
<1>1. IsFiniteSet(S)
  BY Bounds, FS_Subset
<1>2. /\ tables \in [1..k -> S] /\ k \in Nat /\ Len(tables) = k
      /\ \A i, j \in 1..k : tables[i] = tables[j] => i = j
  BY <1>1, TablesListed
<1>3. \A t \in S : t \in Table /\ d[t] \in 1..MaxVersion
  BY Bounds DEF Database, Gone
<1>4. D = [i \in 1..2 * Len(tables) |->
             IF i <= Len(tables) THEN [op |-> "drop", table |-> tables[i], data |-> d[tables[i]]]
             ELSE [op |-> "load", table |-> tables[i - Len(tables)],
                   data |-> d[tables[i - Len(tables)]]]]
  BY DEF Dump
<1> HIDE DEF S, tables, k, D
<1>5. /\ DOMAIN D = 1..2 * k
      /\ \A i \in 1..k : D[i] = [op |-> "drop", table |-> tables[i], data |-> d[tables[i]]]
      /\ \A i \in k + 1..2 * k :
            D[i] = [op |-> "load", table |-> tables[i - k], data |-> d[tables[i - k]]]
  BY <1>2, <1>4
<1>6. \A i \in 1..2 * k : i \in 1..k \/ (i \in k + 1..2 * k /\ i - k \in 1..k)
  BY <1>2
<1>7. ASSUME NEW i \in 1..2 * k PROVE D[i] \in Statement
  <2>1. CASE i \in 1..k
    <3>1. tables[i] \in Table /\ d[tables[i]] \in 1..MaxVersion
      BY <1>2, <1>3, <2>1
    <3>2. D[i] = [op |-> "drop", table |-> tables[i], data |-> d[tables[i]]]
      BY <1>5, <2>1
    <3>3. QED
      BY <3>1, <3>2 DEF Statement
  <2>2. CASE i \in k + 1..2 * k /\ i - k \in 1..k
    <3>1. tables[i - k] \in Table /\ d[tables[i - k]] \in 1..MaxVersion
      BY <1>2, <1>3, <2>2
    <3>2. D[i] = [op |-> "load", table |-> tables[i - k], data |-> d[tables[i - k]]]
      BY <1>5, <2>2
    <3>3. QED
      BY <3>1, <3>2 DEF Statement
  <2>3. QED
    BY <1>6, <2>1, <2>2
<1>8. D \in [1..2 * k -> Statement]
  BY <1>4, <1>5, <1>7
<1>9. D \in Seq(Statement)
  BY <1>2, <1>8, SeqDef
<1>10. ASSUME NEW t \in Table
       PROVE  /\ Drops(D, t) = {i \in 1..k : tables[i] = t}
              /\ Loads(D, t) = {i \in k + 1..2 * k : tables[i - k] = t}
  <2>1. ASSUME NEW i \in 1..k PROVE D[i].op = "drop" /\ D[i].table = tables[i]
    <3>1. D[i] = [op |-> "drop", table |-> tables[i], data |-> d[tables[i]]]
      BY <1>5
    <3>2. QED
      BY <3>1
  <2>2. ASSUME NEW i \in k + 1..2 * k PROVE D[i].op = "load" /\ D[i].table = tables[i - k]
    <3>1. D[i] = [op |-> "load", table |-> tables[i - k], data |-> d[tables[i - k]]]
      BY <1>5
    <3>2. QED
      BY <3>1
  <2>3. \A i \in 1..k : i \in 1..2 * k
    BY <1>2
  <2>4. \A i \in k + 1..2 * k : i \in 1..2 * k
    BY <1>2
  <2>5. QED
    BY <1>5, <1>6, <2>1, <2>2, <2>3, <2>4 DEF Drops, Loads
<1>11. ASSUME NEW t \in Table, NEW i \in Loads(D, t), NEW j \in Loads(D, t) PROVE i = j
  <2>1. i \in k + 1..2 * k /\ j \in k + 1..2 * k /\ tables[i - k] = tables[j - k]
    BY <1>10
  <2>2. i - k \in 1..k /\ j - k \in 1..k
    BY <1>2, <2>1
  <2>3. i - k = j - k
    BY <1>2, <2>1, <2>2
  <2>4. QED
    BY <1>2, <2>1, <2>3
<1>12. ASSUME NEW t \in Table, NEW i \in Drops(D, t)
       PROVE  Loads(D, t) # {} /\ \A j \in Loads(D, t) : i < j
  <2>1. i \in 1..k /\ tables[i] = t
    BY <1>10
  <2>2. i + k \in k + 1..2 * k /\ (i + k) - k = i
    BY <1>2, <2>1
  <2>3. i + k \in Loads(D, t)
    BY <1>10, <2>1, <2>2
  <2>4. \A j \in k + 1..2 * k : i < j
    BY <1>2, <2>1
  <2>5. QED
    BY <1>10, <2>3, <2>4
<1>13. Proper(D)
  BY <1>11, <1>12 DEF Proper
<1>14. QED
  BY <1>9, <1>13 DEF D

(* A request that moves on keeps its name, and changes nothing of others.  *)
Moves(r) ==
    /\ at' \in [Request -> Label] /\ req' \in [Request -> Local]
    /\ \A s \in Request \ {r} : at'[s] = at[s] /\ req'[s] = req[s]
    /\ at'[r] # "idle" /\ req'[r].name = req[r].name
Ended(r) ==
    /\ at'[r] = "done" /\ req'[r].next = 1 /\ req'[r].doomed = {} /\ req'[r].whole = TRUE
    /\ req'[r].upload = <<>>

LEMMA LocalType ==
  ASSUME TypeOK, NEW r \in Request
  PROVE  /\ req[r] \in Local /\ req[r].name \in Name /\ req[r].upload \in Seq(Statement)
         /\ req[r].whole \in BOOLEAN /\ req[r].next \in Nat \ {0}
         /\ req[r].doomed \in SUBSET Name /\ req[r].before \in Database
<1>1. req[r] \in Local
  BY DEF TypeOK
<1>2. QED
  BY <1>1 DEF Local

LEMMA GotoOn ==
  ASSUME TypeOK, NEW r \in Request, NEW to \in Label \ {"idle", "done"}, NEW local \in Local,
         local.name = req[r].name, Goto(r, to, local)
  PROVE  Moves(r) /\ at'[r] = to /\ req'[r] = local
BY DEF Goto, TypeOK, Moves

LEMMA Named0 ==
  ASSUME NEW n \in Name
  PROVE  LET l == [NoLocal EXCEPT !.name = n] IN
         /\ l \in Local /\ l.name = n /\ l.next = 1 /\ l.doomed = {} /\ l.whole = TRUE
         /\ l.upload = <<>>
BY NoLocalType DEF Local

LEMMA GotoDone ==
  ASSUME TypeOK, NEW r \in Request, Goto(r, "done", req[r])
  PROVE  Moves(r) /\ Ended(r)
<1> DEFINE l == [NoLocal EXCEPT !.name = req[r].name]
<1>1. /\ l \in Local /\ l.name = req[r].name /\ l.next = 1 /\ l.doomed = {} /\ l.whole = TRUE
      /\ l.upload = <<>>
  BY LocalType, Named0
<1>2. at' = [at EXCEPT ![r] = "done"] /\ req' = [req EXCEPT ![r] = l]
  BY DEF Goto
<1> HIDE DEF l
<1>3. at' \in [Request -> Label] /\ at'[r] = "done" /\ req'[r] = l
      /\ \A s \in Request \ {r} : at'[s] = at[s] /\ req'[s] = req[s]
  BY <1>2 DEF TypeOK, Label
<1>4. req' \in [Request -> Local]
  BY <1>1, <1>2 DEF TypeOK
<1>5. QED
  BY <1>1, <1>3, <1>4 DEF Moves, Ended
-----------------------------------------------------------------------------
(* What each action does to the request that takes it.                     *)

LEMMA CopyType ==
  ASSUME TypeOK
  PROVE  copy.script \in Seq(Statement) /\ copy.whole \in BOOLEAN /\ copy.key \in Plain..Torn
BY DEF TypeOK

LEMMA BeginStep ==
  ASSUME TypeOK, NEW r \in Request, NEW kind \in {"manual", "import"},
         NEW second \in 0..MaxSecond, NEW up,
         up.script \in Seq(Statement), up.whole \in BOOLEAN, Begin(r, kind, second, up)
  PROVE  /\ at[r] = "idle" /\ at'[r] = "dump"
         /\ at' \in [Request -> Label] /\ req' \in [Request -> Local]
         /\ \A s \in Request \ {r} : at'[s] = at[s] /\ req'[s] = req[s]
         /\ req'[r].name = <<kind, second>> /\ req'[r].upload = up.script
         /\ req'[r].whole = up.whole /\ req'[r].next = 1 /\ req'[r].doomed = {}
<1> DEFINE n == <<kind, second>>
           l == [NoLocal EXCEPT !.name = n, !.upload = up.script, !.whole = up.whole]
<1>1. n \in Name
  BY DEF Name
<1>2. at[r] = "idle" /\ Goto(r, "dump", l)
  BY DEF Begin
<1> HIDE DEF n
<1>3. /\ l \in Local /\ l.name = n /\ l.upload = up.script /\ l.whole = up.whole
      /\ l.next = 1 /\ l.doomed = {}
  BY <1>1, NoLocalType DEF Local
<1> HIDE DEF l
<1>4. at' = [at EXCEPT ![r] = "dump"] /\ req' = [req EXCEPT ![r] = l]
  BY <1>2 DEF Goto
<1>5. /\ at' \in [Request -> Label] /\ at'[r] = "dump" /\ req'[r] = l
      /\ \A s \in Request \ {r} : at'[s] = at[s] /\ req'[s] = req[s]
  BY <1>4 DEF TypeOK, Label
<1>6. req' \in [Request -> Local]
  BY <1>3, <1>4 DEF TypeOK
<1>7. QED
  BY <1>2, <1>3, <1>5, <1>6 DEF n

(* The parts of its local variables a step keeps. *)
Same(r) ==
    /\ req'[r].upload = req[r].upload /\ req'[r].whole = req[r].whole
    /\ req'[r].next = req[r].next /\ req'[r].before = req[r].before
    /\ req'[r].doomed = req[r].doomed
Cleared(r) ==
    req'[r].upload = <<>> /\ req'[r].whole = TRUE /\ req'[r].next = 1

LEMMA RunDumpStep ==
  ASSUME TypeOK, NEW r \in Request, RunDump(r)
  PROVE  /\ Moves(r) /\ at[r] = "dump" /\ at'[r] = "write"
         /\ req'[r].upload = req[r].upload /\ req'[r].whole = req[r].whole
         /\ req'[r].next = req[r].next /\ req'[r].doomed = req[r].doomed
         /\ req'[r].before = db
<1> DEFINE l == [req[r] EXCEPT !.before = db]
<1>1. /\ l \in Local /\ l.name = req[r].name /\ l.upload = req[r].upload
      /\ l.whole = req[r].whole /\ l.next = req[r].next /\ l.doomed = req[r].doomed
      /\ l.before = db
  BY LocalType DEF Local, TypeOK
<1>2. at[r] = "dump" /\ Goto(r, "write", l)
  BY DEF RunDump
<1> HIDE DEF l
<1>3. "write" \in Label \ {"idle", "done"}
  BY DEF Label
<1>4. Moves(r) /\ at'[r] = "write" /\ req'[r] = l
  BY <1>1, <1>2, <1>3, GotoOn
<1>5. QED
  BY <1>1, <1>2, <1>4

LEMMA WriteStep ==
  ASSUME TypeOK, NEW r \in Request, WriteTmp(r)
  PROVE  /\ Moves(r) /\ at[r] = "write" /\ at'[r] = "rename"
         /\ IsImport(r) => Same(r)
         /\ ~IsImport(r) => Cleared(r) /\ req'[r].doomed = {}
<1>1. "rename" \in Label \ {"idle", "done"} /\ at[r] = "write"
  BY DEF Label, WriteTmp
<1>2. CASE IsImport(r)
  <2>1. Goto(r, "rename", req[r])
    BY <1>2 DEF WriteTmp
  <2>2. Moves(r) /\ at'[r] = "rename" /\ req'[r] = req[r]
    BY <1>1, <2>1, LocalType, GotoOn
  <2>3. QED
    BY <1>1, <1>2, <2>2 DEF Same
<1>3. CASE ~IsImport(r)
  <2> DEFINE l == [NoLocal EXCEPT !.name = req[r].name]
  <2>1. /\ l \in Local /\ l.name = req[r].name /\ l.next = 1 /\ l.doomed = {} /\ l.whole = TRUE
        /\ l.upload = <<>>
    BY LocalType, Named0
  <2>2. Goto(r, "rename", l)
    BY <1>3 DEF WriteTmp
  <2> HIDE DEF l
  <2>3. Moves(r) /\ at'[r] = "rename" /\ req'[r] = l
    BY <1>1, <2>1, <2>2, GotoOn
  <2>4. QED
    BY <1>1, <1>3, <2>1, <2>3 DEF Cleared
<1>4. QED
  BY <1>2, <1>3

LEMMA RenameStep ==
  ASSUME TypeOK, NEW r \in Request, Rename(r)
  PROVE  /\ Moves(r) /\ at[r] = "rename" /\ Same(r)
         /\ IsImport(r) => at'[r] = "replay"
         /\ ~IsImport(r) => at'[r] = "stat"
<1>1. "replay" \in Label \ {"idle", "done"} /\ "stat" \in Label \ {"idle", "done"} /\ at[r] = "rename"
  BY DEF Label, Rename
<1>2. CASE IsImport(r)
  <2>1. Goto(r, "replay", req[r])
    BY <1>2 DEF Rename
  <2>2. Moves(r) /\ at'[r] = "replay" /\ req'[r] = req[r]
    BY <1>1, <2>1, LocalType, GotoOn
  <2>3. QED
    BY <1>1, <1>2, <2>2 DEF Same
<1>3. CASE ~IsImport(r)
  <2>1. Goto(r, "stat", req[r])
    BY <1>3 DEF Rename
  <2>2. Moves(r) /\ at'[r] = "stat" /\ req'[r] = req[r]
    BY <1>1, <2>1, LocalType, GotoOn
  <2>3. QED
    BY <1>1, <1>3, <2>2 DEF Same
<1>4. QED
  BY <1>2, <1>3

LEMMA DumpFailsStep ==
  ASSUME TypeOK, NEW r \in Request, DumpFails(r)
  PROVE  Moves(r) /\ at[r] \in {"dump", "write", "rename"} /\ at'[r] = "remove" /\ Same(r)
<1>1. "remove" \in Label \ {"idle", "done"}
  BY DEF Label
<1>2. at[r] \in {"dump", "write", "rename"} /\ Goto(r, "remove", req[r])
  BY DEF DumpFails
<1>3. Moves(r) /\ at'[r] = "remove" /\ req'[r] = req[r]
  BY <1>1, <1>2, LocalType, GotoOn
<1>4. QED
  BY <1>2, <1>3 DEF Same

LEMMA RemoveStep ==
  ASSUME TypeOK, NEW r \in Request, RemovePath(r)
  PROVE  Moves(r) /\ Ended(r) /\ at[r] = "remove"
BY GotoDone DEF RemovePath

LEMMA StatStep ==
  ASSUME TypeOK, NEW r \in Request, Stat(r)
  PROVE  Moves(r) /\ at[r] = "stat" /\ (Ended(r) \/ (at'[r] = "scan" /\ Same(r)))
<1>1. "scan" \in Label \ {"idle", "done"}
  BY DEF Label
<1>2. at[r] = "stat" /\ (Goto(r, "done", req[r]) \/ Goto(r, "scan", req[r]))
  BY DEF Stat
<1>3. CASE Goto(r, "done", req[r])
  <2>1. Moves(r) /\ Ended(r)
    BY <1>3, GotoDone
  <2>2. QED
    BY <1>2, <2>1
<1>4. CASE Goto(r, "scan", req[r])
  <2>1. Moves(r) /\ at'[r] = "scan" /\ req'[r] = req[r]
    BY <1>1, <1>4, LocalType, GotoOn
  <2>2. QED
    BY <1>2, <2>1 DEF Same
<1>5. QED
  BY <1>2, <1>3, <1>4

LEMMA ReplayStep ==
  ASSUME TypeOK, NEW r \in Request, Replay(r)
  PROVE  /\ Moves(r) /\ at[r] = "replay" /\ at'[r] = "replay"
         /\ req'[r].upload = req[r].upload /\ req'[r].whole = req[r].whole
         /\ req'[r].next = req[r].next + 1 /\ req'[r].doomed = req[r].doomed
         /\ req'[r].before = req[r].before
<1> DEFINE l == [req[r] EXCEPT !.next = @ + 1]
<1>1. /\ l \in Local /\ l.name = req[r].name /\ l.upload = req[r].upload
      /\ l.whole = req[r].whole /\ l.next = req[r].next + 1 /\ l.doomed = req[r].doomed
      /\ l.before = req[r].before
  BY LocalType DEF Local
<1>2. at[r] = "replay" /\ Goto(r, "replay", l)
  BY DEF Replay
<1> HIDE DEF l
<1>3. "replay" \in Label \ {"idle", "done"}
  BY DEF Label
<1>4. Moves(r) /\ at'[r] = "replay" /\ req'[r] = l
  BY <1>1, <1>2, <1>3, GotoOn
<1>5. QED
  BY <1>1, <1>2, <1>4

LEMMA ReplayFailsStep ==
  ASSUME TypeOK, NEW r \in Request, ReplayFails(r)
  PROVE  Moves(r) /\ at[r] = "replay" /\ at'[r] = "failed" /\ Same(r)
<1>1. "failed" \in Label \ {"idle", "done"} /\ at[r] = "replay" /\ Goto(r, "failed", req[r])
  BY DEF Label, ReplayFails
<1>2. Moves(r) /\ at'[r] = "failed" /\ req'[r] = req[r]
  BY <1>1, LocalType, GotoOn
<1>3. QED
  BY <1>1, <1>2 DEF Same

LEMMA ReplayEndsStep ==
  ASSUME TypeOK, NEW r \in Request, ReplayEnds(r)
  PROVE  /\ Moves(r) /\ at[r] = "replay" /\ at'[r] = "scan" /\ Same(r)
         /\ req[r].next > Len(req[r].upload)
<1>1. "scan" \in Label \ {"idle", "done"} /\ at[r] = "replay" /\ Goto(r, "scan", req[r])
  BY DEF Label, ReplayEnds
<1>2. Moves(r) /\ at'[r] = "scan" /\ req'[r] = req[r]
  BY <1>1, LocalType, GotoOn
<1>3. QED
  BY <1>1, <1>2 DEF Same, ReplayEnds

LEMMA ScanStep ==
  ASSUME TypeOK, NEW r \in Request, Scan(r)
  PROVE  /\ Moves(r) /\ at[r] = "scan" /\ at'[r] = "clean" /\ Cleared(r)
         /\ req'[r].doomed = Ranked(Keep, ListCap)
<1> DEFINE l == [NoLocal EXCEPT !.name = req[r].name, !.doomed = Ranked(Keep, ListCap)]
<1>0. Ranked(Keep, ListCap) \subseteq Name
  BY DEF Ranked, TypeOK, Partial
<1>1. /\ l \in Local /\ l.name = req[r].name /\ l.upload = <<>> /\ l.whole = TRUE
      /\ l.next = 1 /\ l.doomed = Ranked(Keep, ListCap)
  BY <1>0, LocalType, NoLocalType DEF Local
<1>2. at[r] = "scan" /\ Goto(r, "clean", l)
  BY DEF Scan
<1> HIDE DEF l
<1>3. "clean" \in Label \ {"idle", "done"}
  BY DEF Label
<1>4. Moves(r) /\ at'[r] = "clean" /\ req'[r] = l
  BY <1>1, <1>2, <1>3, GotoOn
<1>5. QED
  BY <1>1, <1>2, <1>4 DEF Cleared

LEMMA CleanStep ==
  ASSUME TypeOK, NEW r \in Request, NEW n \in Name, CleanOne(r, n)
  PROVE  /\ Moves(r) /\ at[r] = "clean" /\ at'[r] = "clean"
         /\ req'[r].upload = req[r].upload /\ req'[r].whole = req[r].whole
         /\ req'[r].next = req[r].next /\ req'[r].doomed = req[r].doomed \ {n}
<1> DEFINE l == [req[r] EXCEPT !.doomed = @ \ {n}]
<1>1. /\ l \in Local /\ l.name = req[r].name /\ l.upload = req[r].upload
      /\ l.whole = req[r].whole /\ l.next = req[r].next /\ l.doomed = req[r].doomed \ {n}
  BY LocalType DEF Local
<1>2. at[r] = "clean" /\ Goto(r, "clean", l)
  BY DEF CleanOne
<1> HIDE DEF l
<1>3. "clean" \in Label \ {"idle", "done"}
  BY DEF Label
<1>4. Moves(r) /\ at'[r] = "clean" /\ req'[r] = l
  BY <1>1, <1>2, <1>3, GotoOn
<1>5. QED
  BY <1>1, <1>2, <1>4

LEMMA AnswerStep ==
  ASSUME TypeOK, NEW r \in Request, Answer(r)
  PROVE  Moves(r) /\ Ended(r) /\ at[r] = "clean"
BY GotoDone DEF Answer
-----------------------------------------------------------------------------
(* Types are preserved.                                                    *)

FilesTyped ==
    /\ Partial(dir, Name, File) /\ Partial(tmp, Name, File)
    /\ \A n \in DOMAIN dir : (dir[n].key = Plain) <=> (n[1] = "legacy")
OthersTyped ==
    /\ db \in Database
    /\ copy \in [script : Seq(Statement), key : Plain..Torn, whole : BOOLEAN]
    /\ keySet \in BOOLEAN /\ key \in 1..MaxKey /\ clock \in Nat
    /\ Partial(made, Name, Nat) /\ spoiled \subseteq Name /\ blurred \subseteq Request
Controlled == at \in [Request -> Label] /\ req \in [Request -> Local]

LEMMA TypeParts == TypeOK <=> FilesTyped /\ OthersTyped /\ Controlled
BY DEF TypeOK, FilesTyped, OthersTyped, Controlled

LEMMA FilesSame ==
  ASSUME FilesTyped, UNCHANGED <<dir, tmp>>
  PROVE  FilesTyped'
BY DEF FilesTyped, Partial

LEMMA WithoutTyped ==
  ASSUME NEW f, NEW D, NEW R, Partial(f, D, R), NEW x
  PROVE  Partial(Without(f, x), D, R)
<1>1. /\ DOMAIN Without(f, x) = DOMAIN f \ {x}
      /\ \A y \in DOMAIN f : y # x => Without(f, x)[y] = f[y]
  BY WithoutFacts
<1>2. QED
  BY <1>1 DEF Partial

LEMMA WithTyped ==
  ASSUME NEW f, NEW D, NEW R, Partial(f, D, R), NEW x \in D, NEW v \in R
  PROVE  Partial(With(f, x, v), D, R)
<1>1. /\ DOMAIN With(f, x, v) = DOMAIN f \cup {x}
      /\ With(f, x, v)[x] = v
      /\ \A y \in DOMAIN f : y # x => With(f, x, v)[y] = f[y]
  BY DEF With
<1>2. QED
  BY <1>1 DEF Partial

LEMMA FilesWithout ==
  ASSUME FilesTyped, NEW x, tmp' = tmp, dir' = Without(dir, x)
  PROVE  FilesTyped'
<1>1. Partial(dir', Name, File)
  BY WithoutTyped DEF FilesTyped
<1>2. \A n \in DOMAIN dir' : n \in DOMAIN dir /\ dir'[n] = dir[n]
  BY WithoutFacts
<1>3. QED
  BY <1>1, <1>2 DEF FilesTyped

LEMMA EncryptedType ==
  ASSUME TypeOK, NEW d \in Database, NEW t \in Nat
  PROVE  /\ Encrypted(Dump(d), t) \in File /\ Encrypted(Dump(d), t).key # Plain
         /\ Encrypted(Dump(d), t).key = key /\ Encrypted(Dump(d), t).time = t
         /\ Encrypted(Dump(d), t).script = Dump(d)
<1>1. key \in Plain..Torn /\ key # Plain
  BY Bounds DEF TypeOK, Plain, Torn
<1>2. QED
  BY <1>1, DumpType DEF Encrypted, File

LEMMA EmptyProper == Proper(<<>>)
BY DEF Proper, Drops, Loads

(* A file under its temporary name: the whole dump, or what a failed write  *)
(* left.                                                                   *)
Writes(r, f) ==
    /\ at[r] = "write" /\ clock' = clock + 1 /\ tmp' = With(tmp, req[r].name, f)
    /\ f.key # Plain /\ f.time = clock + 1 /\ Proper(f.script)

LEMMA WriteWrites ==
  ASSUME TypeOK, NEW r \in Request, WriteTmp(r)
  PROVE  \E f \in File : Writes(r, f)
<1>1. clock + 1 \in Nat
  BY DEF TypeOK
<1>2. PICK d \in Database : d = req[r].before
  BY LocalType
<1>3. PICK f : f = Encrypted(Dump(d), clock + 1)
  OBVIOUS
<1>4. f \in File /\ f.key # Plain /\ f.time = clock + 1 /\ Proper(f.script)
  BY <1>1, <1>3, EncryptedType, DumpType
<1>5. at[r] = "write" /\ clock' = clock + 1 /\ tmp' = With(tmp, req[r].name, f)
  BY <1>2, <1>3 DEF WriteTmp
<1>6. QED
  BY <1>4, <1>5 DEF Writes

(* A failed dump leaves the temporary files alone, removes its own or        *)
(* leaves a part of it.                                                    *)
LEMMA FailWrites ==
  ASSUME TypeOK, NEW r \in Request, DumpFails(r)
  PROVE  \/ clock' = clock /\ (tmp' = tmp \/ tmp' = Without(tmp, req[r].name))
         \/ \E f \in File : Writes(r, f)
<1> DEFINE f == [script |-> <<>>, key |-> Torn, time |-> clock + 1]
<1>1. clock + 1 \in Nat
  BY DEF TypeOK
<1>2. Torn \in Plain..Torn /\ Torn # Plain
  BY Bounds DEF Plain, Torn
<1>3. <<>> \in Seq(Statement)
  OBVIOUS
<1>4. f \in File /\ f.key # Plain /\ f.time = clock + 1
  BY <1>1, <1>2, <1>3 DEF File
<1>5. Proper(f.script)
  BY EmptyProper
<1>6. CASE at[r] = "write" /\ clock' = clock + 1 /\ tmp' = With(tmp, req[r].name, f)
  BY <1>4, <1>5, <1>6 DEF Writes
<1>7. CASE clock' = clock /\ (tmp' = tmp \/ tmp' = Without(tmp, req[r].name))
  BY <1>7
<1>8. QED
  BY <1>6, <1>7 DEF DumpFails

LEMMA FilesWrite ==
  ASSUME TypeOK, NEW r \in Request, NEW f \in File, Writes(r, f), dir' = dir
  PROVE  FilesTyped'
<1>1. tmp' = With(tmp, req[r].name, f)
  BY DEF Writes
<1>2. Partial(tmp', Name, File)
  BY <1>1, LocalType, WithTyped, TypeParts DEF FilesTyped
<1>3. QED
  BY <1>2, TypeParts DEF FilesTyped

LEMMA FilesRename ==
  ASSUME TypeOK, Named, NEW r \in Request, Rename(r)
  PROVE  FilesTyped'
<1>1. PICK n \in Name : n = req[r].name
  BY LocalType
<1>2. n \in DOMAIN tmp /\ dir' = With(dir, n, tmp[n]) /\ tmp' = Without(tmp, n)
  BY <1>1 DEF Rename
<1>3. tmp[n] \in File /\ tmp[n].key # Plain /\ n[1] # "legacy"
  BY <1>2, TypeParts DEF FilesTyped, Partial, Named
<1>4. Partial(tmp', Name, File)
  BY <1>2, WithoutTyped, TypeParts DEF FilesTyped
<1>5. Partial(dir', Name, File)
  BY <1>2, <1>3, WithTyped, TypeParts DEF FilesTyped
<1>6. /\ DOMAIN dir' = DOMAIN dir \cup {n} /\ dir'[n] = tmp[n]
      /\ \A m \in DOMAIN dir : m # n => dir'[m] = dir[m]
  BY <1>2 DEF With
<1>7. QED
  BY <1>3, <1>4, <1>5, <1>6, TypeParts DEF FilesTyped

LEMMA FilesFail ==
  ASSUME TypeOK, NEW r \in Request, DumpFails(r)
  PROVE  FilesTyped'
<1>1. dir' = dir
  BY DEF DumpFails
<1>2. CASE tmp' = tmp \/ tmp' = Without(tmp, req[r].name)
  <2>1. Partial(tmp', Name, File)
    BY <1>2, WithoutTyped, TypeParts DEF FilesTyped
  <2>2. QED
    BY <1>1, <2>1, TypeParts DEF FilesTyped
<1>3. CASE \E f \in File : Writes(r, f)
  BY <1>1, <1>3, FilesWrite
<1>4. QED
  BY <1>2, <1>3, FailWrites

LEMMA FilesStep == TypeOK /\ Named /\ [Next]_vars => FilesTyped'
<1> SUFFICES ASSUME TypeOK, Named, [Next]_vars PROVE FilesTyped'
  OBVIOUS
<1>0. FilesTyped
  BY TypeParts
<1>1. ASSUME NEW r \in Request, NEW second \in 0..MaxSecond,
             StartBackup(r, second) \/ StartImport(r, second)
      PROVE  FilesTyped'
  BY <1>0, <1>1, FilesSame DEF StartBackup, StartImport, Begin, disk
<1>2. ASSUME NEW r \in Request, RunDump(r) \/ Stat(r) PROVE FilesTyped'
  BY <1>0, <1>2, FilesSame DEF RunDump, Stat, disk
<1>3. ASSUME NEW r \in Request, WriteTmp(r) PROVE FilesTyped'
  <2>1. dir' = dir
    BY <1>3 DEF WriteTmp
  <2>2. QED
    BY <1>3, <2>1, WriteWrites, FilesWrite
<1>4. ASSUME NEW r \in Request, Rename(r) PROVE FilesTyped'
  BY <1>4, FilesRename
<1>5. ASSUME NEW r \in Request, DumpFails(r) PROVE FilesTyped'
  BY <1>5, FilesFail
<1>6. ASSUME NEW r \in Request, RemovePath(r) PROVE FilesTyped'
  BY <1>0, <1>6, FilesWithout DEF RemovePath
<1>7. ASSUME NEW r \in Request, Importing(r) PROVE FilesTyped'
  BY <1>0, <1>7, FilesSame DEF Importing, Replay, ReplayFails, ReplayEnds, disk
<1>8. ASSUME NEW r \in Request, Scan(r) \/ Answer(r) PROVE FilesTyped'
  BY <1>0, <1>8, FilesSame DEF Scan, Answer, disk
<1>9. ASSUME NEW r \in Request, NEW n \in Name, CleanOne(r, n) PROVE FilesTyped'
  <2>1. tmp' = tmp /\ (dir' = dir \/ dir' = Without(dir, n))
    BY <1>9 DEF CleanOne
  <2>2. QED
    BY <1>0, <2>1, FilesSame, FilesWithout
<1>10. ASSUME NEW n \in Name, DeleteBackup(n) PROVE FilesTyped'
  BY <1>0, <1>10, FilesWithout DEF DeleteBackup
<1>11. ASSUME NEW n \in Name, DownloadBackup(n) \/ TakeFile(n) PROVE FilesTyped'
  BY <1>0, <1>11, FilesSame DEF DownloadBackup, TakeFile, disk
<1>12. ASSUME NEW t \in Table, AppWrites(t) PROVE FilesTyped'
  BY <1>0, <1>12, FilesSame DEF AppWrites, disk
<1>13. CASE Export \/ Restart \/ UNCHANGED vars
  BY <1>0, <1>13, FilesSame DEF Export, Restart, vars, disk
<1>14. QED
  BY <1>1, <1>2, <1>3, <1>4, <1>5, <1>6, <1>7, <1>8, <1>9, <1>10, <1>11, <1>12, <1>13
     DEF Next, Backing, Cleaning

LEMMA OthersStart ==
  ASSUME TypeOK, NEW r \in Request, NEW kind \in {"manual", "import"},
         NEW second \in 0..MaxSecond, NEW up,
         up.script \in Seq(Statement), up.whole \in BOOLEAN, Begin(r, kind, second, up)
  PROVE  OthersTyped' /\ Controlled'
<1>1. Controlled'
  BY BeginStep DEF Controlled
<1>2. <<kind, second>> \in Name
  BY DEF Name
<1>3. UNCHANGED <<db, copy, keys, clock, made, blurred>>
  BY DEF Begin, disk
<1>4. spoiled' \subseteq spoiled \cup {<<kind, second>>}
  BY DEF Begin
<1>5. OthersTyped'
  BY <1>2, <1>3, <1>4, TypeParts DEF OthersTyped, keys
<1>6. QED
  BY <1>1, <1>5

LEMMA ReplayTyped ==
  ASSUME TypeOK, NEW r \in Request, Replay(r)
  PROVE  db' \in Database /\ blurred' \subseteq Request
<1>1. PICK i : i = req[r].next /\ i \in DOMAIN req[r].upload
  BY LocalType DEF Replay
<1>2. req[r].upload[i] \in Statement
  BY <1>1, LocalType
<1>3. PICK s \in Statement : s = req[r].upload[i]
  BY <1>2
<1>4. s.table \in Table /\ s.data \in 1..MaxVersion
  BY DEF Statement
<1>5. db' = [db EXCEPT ![s.table] = IF s.op = "drop" THEN Gone ELSE s.data]
  BY <1>1, <1>3 DEF Replay
<1>6. Gone \in 0..MaxVersion /\ s.data \in 0..MaxVersion
  BY <1>4, Bounds DEF Gone
<1>7. db' \in Database
  BY <1>4, <1>5, <1>6 DEF TypeOK, Database
<1>8. blurred' \subseteq Request
  BY DEF Replay, Blur, TypeOK
<1>9. QED
  BY <1>7, <1>8

LEMMA ExportTyped ==
  ASSUME TypeOK, Export
  PROVE  copy' \in [script : Seq(Statement), key : Plain..Torn, whole : BOOLEAN]
<1>1. Dump(db) \in Seq(Statement)
  BY DumpType DEF TypeOK
<1>2. PICK n \in 0..Len(Dump(db)) :
        copy' = [script |-> SubSeq(Dump(db), 1, n), key |-> Plain, whole |-> n = Len(Dump(db))]
  BY DEF Export
<1>3. SubSeq(Dump(db), 1, n) \in Seq(Statement)
  BY <1>1, <1>2
<1>4. Plain \in Plain..Torn
  BY Bounds DEF Plain, Torn
<1>5. (n = Len(Dump(db))) \in BOOLEAN
  OBVIOUS
<1>6. QED
  BY <1>2, <1>3, <1>4, <1>5

LEMMA OthersStep == TypeOK /\ [Next]_vars => OthersTyped' /\ Controlled'
<1> SUFFICES ASSUME TypeOK, [Next]_vars PROVE OthersTyped' /\ Controlled'
  OBVIOUS
<1>0. OthersTyped /\ Controlled
  BY TypeParts
<1> USE DEF keys
<1>1. ASSUME NEW r \in Request, NEW second \in 0..MaxSecond, StartBackup(r, second)
      PROVE  OthersTyped' /\ Controlled'
  <2>1. NoCopy.script \in Seq(Statement) /\ NoCopy.whole \in BOOLEAN
    BY DEF NoCopy
  <2>2. QED
    BY <1>1, <2>1, OthersStart DEF StartBackup
<1>2. ASSUME NEW r \in Request, NEW second \in 0..MaxSecond, StartImport(r, second)
      PROVE  OthersTyped' /\ Controlled'
  BY <1>2, CopyType, OthersStart DEF StartImport
<1>3. ASSUME NEW r \in Request, RunDump(r) PROVE OthersTyped' /\ Controlled'
  <2>1. Controlled'
    BY <1>3, RunDumpStep DEF Controlled, Moves
  <2>2. OthersTyped'
    BY <1>0, <1>3 DEF OthersTyped, RunDump, disk, ghost
  <2>3. QED
    BY <2>1, <2>2
<1>4. ASSUME NEW r \in Request, Stat(r) PROVE OthersTyped' /\ Controlled'
  <2>1. Controlled'
    BY <1>4, StatStep DEF Controlled, Moves
  <2>2. OthersTyped'
    BY <1>0, <1>4 DEF OthersTyped, Stat, disk, ghost
  <2>3. QED
    BY <2>1, <2>2
<1>5. ASSUME NEW r \in Request, WriteTmp(r) PROVE OthersTyped' /\ Controlled'
  <2>1. Controlled'
    BY <1>5, WriteStep DEF Controlled, Moves
  <2>2. clock' \in Nat
    BY <1>0, <1>5 DEF OthersTyped, WriteTmp
  <2>3. OthersTyped'
    BY <1>0, <1>5, <2>2 DEF OthersTyped, WriteTmp, ghost
  <2>4. QED
    BY <2>1, <2>3
<1>6. ASSUME NEW r \in Request, Rename(r) PROVE OthersTyped' /\ Controlled'
  <2>1. Controlled'
    BY <1>6, RenameStep DEF Controlled, Moves
  <2>2. PICK n \in Name : n = req[r].name
    BY LocalType
  <2>3. n \in DOMAIN tmp /\ made' = With(made, n, tmp[n].time)
    BY <1>6, <2>2 DEF Rename
  <2>4. tmp[n] \in File
    BY <2>3, TypeParts DEF FilesTyped, Partial
  <2>5. tmp[n].time \in Nat
    BY <2>4 DEF File
  <2>6. Partial(made', Name, Nat)
    BY <1>0, <2>3, <2>5, WithTyped DEF OthersTyped
  <2>7. OthersTyped'
    BY <1>0, <1>6, <2>6 DEF OthersTyped, Rename
  <2>8. QED
    BY <2>1, <2>7
<1>7. ASSUME NEW r \in Request, DumpFails(r) PROVE OthersTyped' /\ Controlled'
  <2>1. Controlled'
    BY <1>7, DumpFailsStep DEF Controlled, Moves
  <2>2. OthersTyped'
    BY <1>0, <1>7 DEF OthersTyped, DumpFails, ghost
  <2>3. QED
    BY <2>1, <2>2
<1>8. ASSUME NEW r \in Request, RemovePath(r) PROVE OthersTyped' /\ Controlled'
  <2>1. Controlled'
    BY <1>8, RemoveStep DEF Controlled, Moves
  <2>2. OthersTyped'
    BY <1>0, <1>8 DEF OthersTyped, RemovePath, ghost
  <2>3. QED
    BY <2>1, <2>2
<1>9. ASSUME NEW r \in Request, Replay(r) PROVE OthersTyped' /\ Controlled'
  <2>1. Controlled'
    BY <1>9, ReplayStep DEF Controlled, Moves
  <2>2. OthersTyped'
    BY <1>0, <1>9, ReplayTyped DEF OthersTyped, Replay, disk
  <2>3. QED
    BY <2>1, <2>2
<1>10. ASSUME NEW r \in Request, ReplayFails(r) PROVE OthersTyped' /\ Controlled'
  <2>1. Controlled'
    BY <1>10, ReplayFailsStep DEF Controlled, Moves
  <2>2. OthersTyped'
    BY <1>0, <1>10 DEF OthersTyped, ReplayFails, disk, ghost
  <2>3. QED
    BY <2>1, <2>2
<1>11. ASSUME NEW r \in Request, ReplayEnds(r) PROVE OthersTyped' /\ Controlled'
  <2>1. Controlled'
    BY <1>11, ReplayEndsStep DEF Controlled, Moves
  <2>2. OthersTyped'
    BY <1>0, <1>11 DEF OthersTyped, ReplayEnds, disk, ghost
  <2>3. QED
    BY <2>1, <2>2
<1>12. ASSUME NEW r \in Request, Scan(r) PROVE OthersTyped' /\ Controlled'
  <2>1. Controlled'
    BY <1>12, ScanStep DEF Controlled, Moves
  <2>2. OthersTyped'
    BY <1>0, <1>12 DEF OthersTyped, Scan, disk, ghost
  <2>3. QED
    BY <2>1, <2>2
<1>13. ASSUME NEW r \in Request, Answer(r) PROVE OthersTyped' /\ Controlled'
  <2>1. Controlled'
    BY <1>13, AnswerStep DEF Controlled, Moves
  <2>2. OthersTyped'
    BY <1>0, <1>13 DEF OthersTyped, Answer, disk, ghost
  <2>3. QED
    BY <2>1, <2>2
<1>14. ASSUME NEW r \in Request, NEW n \in Name, CleanOne(r, n) PROVE OthersTyped' /\ Controlled'
  <2>1. Controlled'
    BY <1>14, CleanStep DEF Controlled, Moves
  <2>2. OthersTyped'
    BY <1>0, <1>14 DEF OthersTyped, CleanOne, ghost
  <2>3. QED
    BY <2>1, <2>2
<1>15. ASSUME NEW n \in Name, DeleteBackup(n) PROVE OthersTyped' /\ Controlled'
  BY <1>0, <1>15 DEF OthersTyped, Controlled, DeleteBackup
<1>16. ASSUME NEW n \in Name, DownloadBackup(n) \/ TakeFile(n) PROVE OthersTyped' /\ Controlled'
  <2>1. PICK f \in File : f = dir[n]
    BY <1>16, TypeParts DEF DownloadBackup, TakeFile, FilesTyped, Partial
  <2>2. f.script \in Seq(Statement) /\ f.key \in Plain..Torn /\ Plain \in Plain..Torn
    BY Bounds DEF File, Plain, Torn
  <2>3. PICK k \in {Plain, f.key} : copy' = [script |-> f.script, key |-> k, whole |-> TRUE]
    BY <1>16, <2>1 DEF DownloadBackup, TakeFile
  <2>4. k \in Plain..Torn
    BY <2>2
  <2>5. copy' \in [script : Seq(Statement), key : Plain..Torn, whole : BOOLEAN]
    BY <2>2, <2>3, <2>4
  <2>6. QED
    BY <1>0, <1>16, <2>5 DEF OthersTyped, Controlled, DownloadBackup, TakeFile, disk, ghost
<1>17. ASSUME NEW t \in Table, AppWrites(t) PROVE OthersTyped' /\ Controlled'
  <2>1. db[t] \in 0..MaxVersion /\ db[t] < MaxVersion
    BY <1>0, <1>17 DEF AppWrites, OthersTyped, Database
  <2>2. db[t] + 1 \in 0..MaxVersion
    BY <2>1, Bounds
  <2>3. db' = [db EXCEPT ![t] = db[t] + 1]
    BY <1>17 DEF AppWrites
  <2>4. db' \in Database
    BY <1>0, <2>2, <2>3 DEF OthersTyped, Database
  <2>5. blurred' \subseteq Request
    BY <1>0, <1>17 DEF AppWrites, Blur, OthersTyped
  <2>6. QED
    BY <1>0, <1>17, <2>4, <2>5 DEF OthersTyped, Controlled, AppWrites, disk
<1>18. CASE Export
  BY <1>0, <1>18, ExportTyped DEF OthersTyped, Controlled, Export, disk, ghost
<1>19. CASE Restart
  <2>1. key' \in 1..MaxKey
    BY <1>0, <1>19, Bounds DEF OthersTyped, Restart
  <2>2. at' \in [Request -> Label]
    BY <1>0, <1>19 DEF Controlled, Restart, Label
  <2>3. QED
    BY <1>0, <1>19, <2>1, <2>2 DEF OthersTyped, Controlled, Restart, disk, ghost
<1>20. CASE UNCHANGED vars
  BY <1>0, <1>20 DEF OthersTyped, Controlled, vars, disk, ghost
<1>21. QED
  BY <1>1, <1>2, <1>3, <1>4, <1>5, <1>6, <1>7, <1>8, <1>9, <1>10, <1>11, <1>12, <1>13, <1>14,
     <1>15, <1>16, <1>17, <1>18, <1>19, <1>20 DEF Next, Backing, Importing, Cleaning

LEMMA TypeStep == TypeOK /\ Named /\ [Next]_vars => TypeOK'
<1> SUFFICES ASSUME TypeOK, Named, [Next]_vars PROVE TypeOK'
  OBVIOUS
<1>1. FilesTyped' /\ OthersTyped' /\ Controlled'
  BY FilesStep, OthersStep
<1>2. QED
  BY <1>1 DEF TypeOK, FilesTyped, OthersTyped, Controlled
-----------------------------------------------------------------------------
(* Names.                                                                  *)

TmpSealed == \A n \in DOMAIN tmp : n[1] # "legacy" /\ tmp[n].key # Plain

LEMMA NamedMoves ==
  ASSUME Named, NEW r \in Request, Begun(r), Moves(r), spoiled \subseteq spoiled',
         DOMAIN made' \subseteq DOMAIN made \cup {req[r].name}, TmpSealed'
  PROVE  Named'
<1>1. \A s \in Request : (Begun(s)' <=> Begun(s)) /\ req'[s].name = req[s].name
  BY DEF Begun, Moves
<1>2. \A s \in Request : Begun(s)' => req'[s].name[1] \in {"manual", "import"}
  BY <1>1 DEF Named
<1>3. \A s \in Request : at'[s] = "idle" => req'[s] = NoLocal
  BY DEF Named, Moves
<1>4. \A s, v \in Request : Begun(s)' /\ Begun(v)' /\ s # v /\ req'[s].name = req'[v].name =>
          req'[s].name \in spoiled'
  BY <1>1 DEF Named
<1>5. \A n \in DOMAIN made' \ {Legacy} : \E s \in Request : Begun(s)' /\ req'[s].name = n
  BY <1>1 DEF Named
<1>6. QED
  BY <1>2, <1>3, <1>4, <1>5 DEF Named, TmpSealed

LEMMA NamedRest ==
  ASSUME Named, req' = req, \A s \in Request : at'[s] = "idle" <=> at[s] = "idle",
         spoiled \subseteq spoiled', UNCHANGED <<made, tmp>>
  PROVE  Named'
<1>1. \A s \in Request : Begun(s)' <=> Begun(s)
  BY DEF Begun
<1>2. QED
  BY <1>1 DEF Named

LEMMA NamedBegin ==
  ASSUME TypeOK, Named, NEW r \in Request, NEW kind \in {"manual", "import"},
         NEW second \in 0..MaxSecond, NEW up,
         up.script \in Seq(Statement), up.whole \in BOOLEAN, Begin(r, kind, second, up)
  PROVE  Named'
<1> DEFINE n == <<kind, second>>
<1>1. /\ at[r] = "idle" /\ at'[r] = "dump" /\ req'[r].name = n
      /\ \A s \in Request \ {r} : at'[s] = at[s] /\ req'[s] = req[s]
  BY BeginStep
<1>2. /\ spoiled' = IF \E s \in Request : at[s] # "idle" /\ req[s].name = n
                    THEN spoiled \cup {n} ELSE spoiled
      /\ UNCHANGED <<tmp, made>>
  BY DEF Begin, disk
<1>3. n[1] \in {"manual", "import"}
  OBVIOUS
<1> HIDE DEF n
<1>4. \A s \in Request : Begun(s)' => req'[s].name[1] \in {"manual", "import"}
  BY <1>1, <1>3 DEF Named, Begun
<1>5. \A s \in Request : at'[s] = "idle" => req'[s] = NoLocal
  BY <1>1 DEF Named
<1>6. ASSUME NEW s \in Request, NEW v \in Request, Begun(s)', Begun(v)', s # v,
             req'[s].name = req'[v].name
      PROVE  req'[s].name \in spoiled'
  BY <1>1, <1>2, <1>6 DEF Named, Begun
<1>7. \A m \in DOMAIN made' \ {Legacy} : \E s \in Request : Begun(s)' /\ req'[s].name = m
  BY <1>1, <1>2 DEF Named, Begun
<1>8. QED
  BY <1>2, <1>4, <1>5, <1>6, <1>7 DEF Named

LEMMA TmpStep ==
  ASSUME TypeOK, Named, NEW r \in Request, Begun(r),
         tmp' = tmp \/ tmp' = Without(tmp, req[r].name) \/ \E f \in File : Writes(r, f)
  PROVE  TmpSealed'
<1>1. CASE tmp' = tmp
  BY <1>1 DEF TmpSealed, Named
<1>2. CASE tmp' = Without(tmp, req[r].name)
  <2>1. \A n \in DOMAIN tmp' : n \in DOMAIN tmp /\ tmp'[n] = tmp[n]
    BY <1>2 DEF Without
  <2>2. QED
    BY <2>1 DEF TmpSealed, Named
<1>3. CASE \E f \in File : Writes(r, f)
  <2>1. PICK n : n = req[r].name
    OBVIOUS
  <2>2. PICK f \in File : tmp' = With(tmp, n, f) /\ f.key # Plain
    BY <1>3, <2>1 DEF Writes
  <2>3. \A m \in DOMAIN tmp' : (m = n /\ tmp'[m] = f) \/ (m \in DOMAIN tmp /\ tmp'[m] = tmp[m])
    BY <2>2 DEF With
  <2>4. n[1] # "legacy"
    BY <2>1 DEF Named
  <2>5. QED
    BY <2>2, <2>3, <2>4 DEF TmpSealed, Named
<1>4. QED
  BY <1>1, <1>2, <1>3

(* The footprint of a request's steps: its own temporary file, and the     *)
(* record of the file it finishes.                                         *)
LEMMA Footprint ==
  ASSUME TypeOK, Named, NEW r \in Request, Backing(r) \/ Importing(r) \/ Cleaning(r)
  PROVE  /\ Begun(r) /\ Moves(r) /\ spoiled' = spoiled
         /\ \/ made' = made
            \/ at[r] = "rename" /\ Rename(r) /\ DOMAIN made' = DOMAIN made \cup {req[r].name}
         /\ \/ clock' = clock /\ (tmp' = tmp \/ tmp' = Without(tmp, req[r].name))
            \/ \E f \in File : Writes(r, f)
         /\ at'[r] \in {"dump", "write", "rename", "remove"} =>
               at[r] \in {"dump", "write", "rename", "remove"} /\ made' = made
<1>1. CASE RunDump(r)
  BY <1>1, RunDumpStep DEF RunDump, disk, ghost, Begun
<1>2. CASE WriteTmp(r)
  BY <1>2, WriteStep, WriteWrites DEF WriteTmp, ghost, Begun
<1>3. CASE Rename(r)
  <2>1. made' = With(made, req[r].name, tmp[req[r].name].time)
    BY <1>3 DEF Rename
  <2>2. DOMAIN made' = DOMAIN made \cup {req[r].name}
    BY <2>1 DEF With
  <2>3. at'[r] \notin {"dump", "write", "rename", "remove"} /\ at[r] = "rename" /\ Moves(r)
    BY <1>3, RenameStep
  <2>4. QED
    BY <1>3, <2>2, <2>3 DEF Rename, Begun
<1>4. CASE DumpFails(r)
  BY <1>4, DumpFailsStep, FailWrites DEF DumpFails, ghost, Begun
<1>5. CASE RemovePath(r)
  <2>1. Moves(r) /\ at[r] = "remove" /\ at'[r] = "done"
    BY <1>5, RemoveStep DEF Ended
  <2>2. QED
    BY <1>5, <2>1 DEF RemovePath, ghost, Begun
<1>6. CASE Stat(r)
  <2>1. Moves(r) /\ at[r] = "stat" /\ at'[r] \in {"done", "scan"}
    BY <1>6, StatStep DEF Ended
  <2>2. QED
    BY <1>6, <2>1 DEF Stat, disk, ghost, Begun
<1>7. CASE Replay(r)
  BY <1>7, ReplayStep DEF Replay, disk, Begun
<1>8. CASE ReplayFails(r)
  BY <1>8, ReplayFailsStep DEF ReplayFails, disk, ghost, Begun
<1>9. CASE ReplayEnds(r)
  BY <1>9, ReplayEndsStep DEF ReplayEnds, disk, ghost, Begun
<1>10. CASE Scan(r)
  BY <1>10, ScanStep DEF Scan, disk, ghost, Begun
<1>11. CASE Answer(r)
  <2>1. Moves(r) /\ at[r] = "clean" /\ at'[r] = "done"
    BY <1>11, AnswerStep DEF Ended
  <2>2. QED
    BY <1>11, <2>1 DEF Answer, disk, ghost, Begun
<1>12. ASSUME NEW n \in Name, CleanOne(r, n)
       PROVE  /\ at[r] = "clean" /\ at'[r] = "clean" /\ Moves(r)
              /\ UNCHANGED <<spoiled, made, tmp, clock>>
  BY <1>12, CleanStep DEF CleanOne, ghost
<1>13. CASE \E n \in Name : CleanOne(r, n)
  BY <1>12, <1>13 DEF Begun
<1>14. QED
  BY <1>1, <1>2, <1>3, <1>4, <1>5, <1>6, <1>7, <1>8, <1>9, <1>10, <1>11, <1>13
     DEF Backing, Importing, Cleaning

(* What others do beside the requests. *)
Around ==
    \/ \E n \in Name : DeleteBackup(n) \/ DownloadBackup(n) \/ TakeFile(n)
    \/ \E t \in Table : AppWrites(t)
    \/ Export \/ Restart \/ UNCHANGED vars

LEMMA AroundStep ==
  ASSUME TypeOK, Around
  PROVE  /\ req' = req /\ UNCHANGED <<made, tmp, clock>> /\ spoiled \subseteq spoiled'
         /\ \A s \in Request : \/ at'[s] = at[s]
                               \/ at[s] = "replay" /\ at'[s] = "failed"
                               \/ Active(s) /\ at[s] # "replay" /\ at'[s] = "done"
<1>1. CASE \E n \in Name : DeleteBackup(n)
  BY <1>1 DEF DeleteBackup
<1>2. CASE \E n \in Name : DownloadBackup(n) \/ TakeFile(n)
  BY <1>2 DEF DownloadBackup, TakeFile, disk, ghost
<1>3. CASE \E t \in Table : AppWrites(t)
  BY <1>3 DEF AppWrites, disk
<1>4. CASE Export
  BY <1>4 DEF Export, disk, ghost
<1>5. CASE Restart
  BY <1>5 DEF Restart, disk, ghost
<1>6. CASE UNCHANGED vars
  BY <1>6 DEF vars, disk, ghost
<1>7. QED
  BY <1>1, <1>2, <1>3, <1>4, <1>5, <1>6 DEF Around

LEMMA Steps ==
  ASSUME [Next]_vars
  PROVE  \/ \E r \in Request, second \in 0..MaxSecond : StartBackup(r, second) \/ StartImport(r, second)
         \/ \E r \in Request : Backing(r) \/ Importing(r) \/ Cleaning(r)
         \/ Around
BY DEF Next, Around

(* A request begins with what it was given. *)
LEMMA Beginning ==
  ASSUME TypeOK, NEW r \in Request, NEW second \in 0..MaxSecond,
         StartBackup(r, second) \/ StartImport(r, second)
  PROVE  \E kind \in {"manual", "import"}, up \in {NoCopy, copy} :
            /\ up.script \in Seq(Statement) /\ up.whole \in BOOLEAN
            /\ Begin(r, kind, second, up)
<1>1. NoCopy.script \in Seq(Statement) /\ NoCopy.whole \in BOOLEAN
  BY DEF NoCopy
<1>2. CASE StartBackup(r, second)
  BY <1>1, <1>2 DEF StartBackup
<1>3. CASE StartImport(r, second)
  BY <1>3, CopyType DEF StartImport
<1>4. QED
  BY <1>2, <1>3

LEMMA NamedStep == TypeOK /\ Named /\ [Next]_vars => Named'
<1> SUFFICES ASSUME TypeOK, Named, [Next]_vars PROVE Named'
  OBVIOUS
<1>1. ASSUME NEW r \in Request, NEW second \in 0..MaxSecond,
             StartBackup(r, second) \/ StartImport(r, second)
      PROVE  Named'
  BY <1>1, Beginning, NamedBegin
<1>2. ASSUME NEW r \in Request, Backing(r) \/ Importing(r) \/ Cleaning(r) PROVE Named'
  <2>1. /\ Begun(r) /\ Moves(r) /\ spoiled' = spoiled
        /\ DOMAIN made' \subseteq DOMAIN made \cup {req[r].name}
    BY <1>2, Footprint
  <2>2. TmpSealed'
    BY <1>2, Footprint, TmpStep
  <2>3. QED
    BY <2>1, <2>2, NamedMoves
<1>3. CASE Around
  <2>1. \A s \in Request : at'[s] = "idle" <=> at[s] = "idle"
    BY <1>3, AroundStep DEF Active
  <2>2. QED
    BY <1>3, <2>1, AroundStep, NamedRest
<1>4. QED
  BY <1>1, <1>2, <1>3, Steps
-----------------------------------------------------------------------------
(* Nothing is finished under a name before its request renames the file.   *)

Early == {"dump", "write", "rename", "remove"}

LEMMA UnfinishedRequest ==
  ASSUME TypeOK, Named, Unfinished, NEW r \in Request, Backing(r) \/ Importing(r) \/ Cleaning(r)
  PROVE  Unfinished'
<1>0. SUFFICES ASSUME NEW s \in Request, at'[s] \in Early, req'[s].name \notin spoiled'
               PROVE  req'[s].name \notin DOMAIN made'
  BY DEF Unfinished, Early
<1>1. /\ Begun(r) /\ Moves(r) /\ spoiled' = spoiled
      /\ made' = made \/ DOMAIN made' = DOMAIN made \cup {req[r].name}
      /\ at'[r] \in Early => at[r] \in Early /\ made' = made
  BY Footprint DEF Early
<1>2. CASE s = r
  BY <1>0, <1>1, <1>2 DEF Unfinished, Early, Moves
<1>3. CASE s # r
  <2>1. at'[s] = at[s] /\ req'[s] = req[s]
    BY <1>1, <1>3 DEF Moves
  <2>2. req[s].name \notin DOMAIN made
    BY <1>0, <1>1, <2>1 DEF Unfinished, Early
  <2>3. Begun(s)
    BY <1>0, <2>1 DEF Begun, Early
  <2>4. req[s].name # req[r].name
    BY <1>0, <1>1, <1>3, <2>1, <2>3 DEF Named
  <2>5. QED
    BY <1>1, <2>1, <2>2, <2>4
<1>4. QED
  BY <1>2, <1>3

(* The name of a request that begins is new, or spoiled. *)
LEMMA NewName ==
  ASSUME TypeOK, Named, NEW r \in Request, NEW kind \in {"manual", "import"},
         NEW second \in 0..MaxSecond, NEW up,
         up.script \in Seq(Statement), up.whole \in BOOLEAN, Begin(r, kind, second, up)
  PROVE  /\ spoiled \subseteq spoiled'
         /\ req'[r].name \notin spoiled' => req'[r].name \notin DOMAIN made
<1> DEFINE n == <<kind, second>>
<1>1. req'[r].name = n
  BY BeginStep
<1>2. spoiled' = IF \E s \in Request : at[s] # "idle" /\ req[s].name = n
                 THEN spoiled \cup {n} ELSE spoiled
  BY DEF Begin
<1>3. n # Legacy
  BY DEF Legacy
<1> HIDE DEF n
<1>4. n \in DOMAIN made => \E s \in Request : at[s] # "idle" /\ req[s].name = n
  BY <1>3 DEF Named, Begun
<1>5. QED
  BY <1>1, <1>2, <1>4

LEMMA UnfinishedBegin ==
  ASSUME TypeOK, Named, Unfinished, NEW r \in Request, NEW kind \in {"manual", "import"},
         NEW second \in 0..MaxSecond, NEW up,
         up.script \in Seq(Statement), up.whole \in BOOLEAN, Begin(r, kind, second, up)
  PROVE  Unfinished'
<1>1. \A s \in Request \ {r} : at'[s] = at[s] /\ req'[s] = req[s]
  BY BeginStep
<1>2. made' = made
  BY DEF Begin
<1>3. spoiled \subseteq spoiled' /\ (req'[r].name \notin spoiled' => req'[r].name \notin DOMAIN made)
  BY NewName
<1>4. QED
  BY <1>1, <1>2, <1>3 DEF Unfinished

LEMMA UnfinishedStep == TypeOK /\ Named /\ Unfinished /\ [Next]_vars => Unfinished'
<1> SUFFICES ASSUME TypeOK, Named, Unfinished, [Next]_vars PROVE Unfinished'
  OBVIOUS
<1>1. ASSUME NEW r \in Request, NEW second \in 0..MaxSecond,
             StartBackup(r, second) \/ StartImport(r, second)
      PROVE  Unfinished'
  BY <1>1, Beginning, UnfinishedBegin
<1>2. ASSUME NEW r \in Request, Backing(r) \/ Importing(r) \/ Cleaning(r) PROVE Unfinished'
  BY <1>2, UnfinishedRequest
<1>3. CASE Around
  <2>1. \A s \in Request : at'[s] \in Early => at'[s] = at[s]
    BY <1>3, AroundStep DEF Early
  <2>2. req' = req /\ made' = made /\ spoiled \subseteq spoiled'
    BY <1>3, AroundStep
  <2>3. QED
    BY <2>1, <2>2 DEF Unfinished, Early
<1>4. QED
  BY <1>1, <1>2, <1>3, Steps
-----------------------------------------------------------------------------
(* Modification times.                                                     *)

(* The footprint in the directory. *)
LEMMA DirStep ==
  ASSUME TypeOK, Named, NEW r \in Request, Backing(r) \/ Importing(r) \/ Cleaning(r)
  PROVE  \/ dir' = dir /\ made' = made
         \/ RemovePath(r) /\ dir' = Without(dir, req[r].name) /\ UNCHANGED <<made, tmp, clock>>
         \/ made' = made /\ UNCHANGED <<tmp, clock>> /\ at[r] = "clean" /\ 
            \E n \in req[r].doomed : dir' = Without(dir, n)
         \/ Rename(r)
<1>1. CASE RunDump(r) \/ WriteTmp(r) \/ DumpFails(r) \/ Stat(r) \/ Importing(r) \/ Scan(r) \/ Answer(r)
  BY <1>1 DEF RunDump, WriteTmp, DumpFails, Stat, Importing, Replay, ReplayFails, ReplayEnds, Scan,
     Answer, disk, ghost
<1>2. CASE RemovePath(r)
  BY <1>2 DEF RemovePath, ghost
<1>3. CASE \E n \in Name : CleanOne(r, n)
  BY <1>3 DEF CleanOne, ghost
<1>4. QED
  BY <1>1, <1>2, <1>3 DEF Backing, Cleaning

LEMMA DatedLess ==
  ASSUME TypeOK, Dated, made' = made, clock' \in {clock, clock + 1},
         \A n \in DOMAIN dir' : n \in DOMAIN dir /\ dir'[n] = dir[n],
         \A n \in DOMAIN tmp' : \/ n \in DOMAIN tmp /\ tmp'[n] = tmp[n]
                                \/ clock' = clock + 1 /\ tmp'[n].time = clock'
  PROVE  Dated'
<1>0. clock \in Nat /\ \A n \in DOMAIN made : made[n] \in Nat
  BY DEF TypeOK, Partial
<1>1. \A n \in DOMAIN tmp : tmp[n].time \in Nat
  BY DEF TypeOK, Partial, File
<1>2. \A n \in DOMAIN made' : made'[n] <= clock'
  BY <1>0 DEF Dated
<1>3. \A n \in DOMAIN dir' : n \in DOMAIN made' /\ dir'[n].time = made'[n]
  BY DEF Dated
<1>4. ASSUME NEW n \in DOMAIN tmp'
      PROVE  tmp'[n].time <= clock' /\ (n \in DOMAIN made' => made'[n] < tmp'[n].time)
  <2>1. CASE n \in DOMAIN tmp /\ tmp'[n] = tmp[n]
    <3>1. tmp[n].time <= clock /\ (n \in DOMAIN made => made[n] < tmp[n].time)
      BY <2>1 DEF Dated
    <3>2. QED
      BY <1>0, <1>1, <2>1, <3>1
  <2>2. CASE clock' = clock + 1 /\ tmp'[n].time = clock'
    <3>1. n \in DOMAIN made => made[n] <= clock
      BY DEF Dated
    <3>2. QED
      BY <1>0, <2>2, <3>1
  <2>3. QED
    BY <2>1, <2>2
<1>5. IsFiniteSet(DOMAIN made')
  BY DEF Dated
<1>6. QED
  BY <1>2, <1>3, <1>4, <1>5 DEF Dated

LEMMA DatedRename ==
  ASSUME TypeOK, Dated, NEW r \in Request, Rename(r)
  PROVE  Dated'
<1>1. PICK n : n = req[r].name
  OBVIOUS
<1>2. /\ n \in DOMAIN tmp /\ dir' = With(dir, n, tmp[n]) /\ tmp' = Without(tmp, n)
      /\ made' = With(made, n, tmp[n].time) /\ clock' = clock
  BY <1>1 DEF Rename
<1>3. /\ DOMAIN made' = DOMAIN made \cup {n} /\ made'[n] = tmp[n].time
      /\ \A m \in DOMAIN made : m # n => made'[m] = made[m]
  BY <1>2 DEF With
<1>4. /\ DOMAIN dir' = DOMAIN dir \cup {n} /\ dir'[n] = tmp[n]
      /\ \A m \in DOMAIN dir : m # n => dir'[m] = dir[m]
  BY <1>2 DEF With
<1>5. \A m \in DOMAIN tmp' : m \in DOMAIN tmp /\ m # n /\ tmp'[m] = tmp[m]
  BY <1>2 DEF Without
<1>6. IsFiniteSet(DOMAIN made')
  BY <1>3, FS_AddElement DEF Dated
<1>7. \A m \in DOMAIN made' : made'[m] <= clock'
  BY <1>2, <1>3 DEF Dated
<1>8. \A m \in DOMAIN dir' : m \in DOMAIN made' /\ dir'[m].time = made'[m]
  BY <1>3, <1>4 DEF Dated
<1>9. \A m \in DOMAIN tmp' : tmp'[m].time <= clock' /\ (m \in DOMAIN made' => made'[m] < tmp'[m].time)
  BY <1>2, <1>3, <1>5 DEF Dated
<1>10. QED
  BY <1>6, <1>7, <1>8, <1>9 DEF Dated

LEMMA AroundFiles ==
  ASSUME TypeOK, Around
  PROVE  /\ UNCHANGED <<made, tmp, clock, req>>
         /\ \/ dir' = dir /\ spoiled' = spoiled
            \/ \E n \in Name : DeleteBackup(n)
<1>1. CASE \E n \in Name : DownloadBackup(n) \/ TakeFile(n)
  BY <1>1 DEF DownloadBackup, TakeFile, disk, ghost
<1>2. CASE (\E t \in Table : AppWrites(t)) \/ Export \/ Restart \/ UNCHANGED vars
  BY <1>2 DEF AppWrites, Export, Restart, vars, disk, ghost
<1>3. CASE \E n \in Name : DeleteBackup(n)
  BY <1>3 DEF DeleteBackup
<1>4. QED
  BY <1>1, <1>2, <1>3 DEF Around

LEMMA DatedStep == TypeOK /\ Named /\ Dated /\ [Next]_vars => Dated'
<1> SUFFICES ASSUME TypeOK, Named, Dated, [Next]_vars PROVE Dated'
  OBVIOUS
<1>1. ASSUME NEW r \in Request, NEW second \in 0..MaxSecond,
             StartBackup(r, second) \/ StartImport(r, second)
      PROVE  Dated'
  <2>1. UNCHANGED <<made, dir, tmp, clock>>
    BY <1>1 DEF StartBackup, StartImport, Begin, disk
  <2>2. QED
    BY <2>1, DatedLess
<1>2. ASSUME NEW r \in Request, Backing(r) \/ Importing(r) \/ Cleaning(r), ~Rename(r) PROVE Dated'
  <2>1. made' = made
    BY <1>2, DirStep
  <2>2. \A n \in DOMAIN dir' : n \in DOMAIN dir /\ dir'[n] = dir[n]
    <3>1. dir' = dir \/ \E n : dir' = Without(dir, n)
      BY <1>2, DirStep
    <3>2. QED
      BY <3>1 DEF Without
  <2>3. CASE \E f \in File : Writes(r, f)
    <3>1. PICK n : n = req[r].name
      OBVIOUS
    <3>2. PICK f \in File : clock' = clock + 1 /\ tmp' = With(tmp, n, f) /\ f.time = clock + 1
      BY <2>3, <3>1 DEF Writes
    <3>3. \A m \in DOMAIN tmp' : (m = n /\ tmp'[m] = f) \/ (m \in DOMAIN tmp /\ tmp'[m] = tmp[m])
      BY <3>2 DEF With
    <3>4. QED
      BY <2>1, <2>2, <3>2, <3>3, DatedLess
  <2>4. CASE clock' = clock /\ (tmp' = tmp \/ tmp' = Without(tmp, req[r].name))
    <3>1. \A n \in DOMAIN tmp' : n \in DOMAIN tmp /\ tmp'[n] = tmp[n]
      BY <2>4 DEF Without
    <3>2. QED
      BY <2>1, <2>2, <2>4, <3>1, DatedLess
  <2>5. QED
    BY <1>2, <2>3, <2>4, Footprint
<1>3. CASE Around
  <2>1. UNCHANGED <<made, tmp, clock>>
    BY <1>3, AroundFiles
  <2>2. \A n \in DOMAIN dir' : n \in DOMAIN dir /\ dir'[n] = dir[n]
    BY <1>3, AroundFiles DEF DeleteBackup, Without
  <2>3. QED
    BY <2>1, <2>2, DatedLess
<1>4. ASSUME NEW r \in Request, Rename(r) PROVE Dated'
  BY <1>4, DatedRename
<1>5. QED
  BY <1>1, <1>2, <1>3, <1>4, Steps
-----------------------------------------------------------------------------
(* Retention.                                                              *)

(* A file with enough newer ones goes on having them. *)
LEMMA LaterGrows ==
  ASSUME TypeOK, TypeOK', Dated', NEW n \in DOMAIN made,
         DOMAIN made \subseteq DOMAIN made', made'[n] = made[n],
         \A m \in DOMAIN made : made[m] <= made'[m], Cardinality(Later(n)) >= Keep
  PROVE  Cardinality(Later(n)') >= Keep
<1>0. \A m \in DOMAIN made : made[m] \in Nat /\ made'[m] \in Nat
  BY DEF TypeOK, Partial
<1>1. Later(n) \subseteq Later(n)' /\ Later(n)' \subseteq DOMAIN made'
  BY <1>0 DEF Later
<1>2. PICK S, T : S = Later(n) /\ T = Later(n)'
  OBVIOUS
<1>3. IsFiniteSet(DOMAIN made')
  BY DEF Dated
<1>4. IsFiniteSet(T)
  BY <1>1, <1>2, <1>3, FS_Subset
<1>5. IsFiniteSet(S) /\ Cardinality(S) <= Cardinality(T)
  BY <1>1, <1>2, <1>4, FS_Subset
<1>6. Cardinality(S) \in Nat /\ Cardinality(T) \in Nat
  BY <1>4, <1>5, FS_CardinalityType
<1>7. QED
  BY <1>2, <1>5, <1>6, Bounds

LEMMA LaterCounted ==
  ASSUME Dated, NEW n
  PROVE  Cardinality(Later(n)) < Keep <=> ~(Cardinality(Later(n)) >= Keep)
<1>1. IsFiniteSet(Later(n))
  BY FS_Subset DEF Dated, Later
<1>2. QED
  BY <1>1, FS_CardinalityType, Bounds

LEMMA LaterSame ==
  ASSUME NEW n, made' = made
  PROVE  Later(n)' = Later(n)
BY DEF Later

(* What a scan dooms has maxBackups newer files. *)
LEMMA RankedLater ==
  ASSUME TypeOK, Dated, NEW n \in Ranked(Keep, ListCap)
  PROVE  n \in DOMAIN made /\ Cardinality(Later(n)) >= Keep
<1>1. n \in DOMAIN dir /\ Cardinality(Newer(n)) \in Keep..ListCap - 1
  BY DEF Ranked
<1>2. Newer(n) \subseteq Later(n) /\ Later(n) \subseteq DOMAIN made
  BY <1>1 DEF Newer, Later, Dated
<1>3. IsFiniteSet(Later(n))
  BY <1>2, FS_Subset DEF Dated
<1>4. Cardinality(Newer(n)) <= Cardinality(Later(n))
  BY <1>2, <1>3, FS_Subset
<1>5. Cardinality(Later(n)) \in Nat
  BY <1>3, FS_CardinalityType
<1>6. QED
  BY <1>1, <1>4, <1>5, Bounds DEF Dated

LEMMA DoomedStep ==
  ASSUME TypeOK, Named, NEW r \in Request, Backing(r) \/ Importing(r) \/ Cleaning(r)
  PROVE  req'[r].doomed \subseteq req[r].doomed \/ req'[r].doomed = Ranked(Keep, ListCap)
<1>1. CASE RunDump(r)
  BY <1>1, RunDumpStep
<1>2. CASE WriteTmp(r)
  BY <1>2, WriteStep DEF Same
<1>3. CASE Rename(r)
  BY <1>3, RenameStep DEF Same
<1>4. CASE DumpFails(r)
  BY <1>4, DumpFailsStep DEF Same
<1>5. CASE RemovePath(r)
  BY <1>5, RemoveStep DEF Ended
<1>6. CASE Stat(r)
  BY <1>6, StatStep DEF Ended, Same
<1>7. CASE Replay(r)
  BY <1>7, ReplayStep
<1>8. CASE ReplayFails(r)
  BY <1>8, ReplayFailsStep DEF Same
<1>9. CASE ReplayEnds(r)
  BY <1>9, ReplayEndsStep DEF Same
<1>10. CASE Scan(r)
  BY <1>10, ScanStep
<1>11. CASE Answer(r)
  BY <1>11, AnswerStep DEF Ended
<1>12. ASSUME NEW n \in Name, CleanOne(r, n) PROVE req'[r].doomed \subseteq req[r].doomed
  BY <1>12, CleanStep
<1>13. QED
  BY <1>1, <1>2, <1>3, <1>4, <1>5, <1>6, <1>7, <1>8, <1>9, <1>10, <1>11, <1>12
     DEF Backing, Importing, Cleaning

LEMMA KeptRename ==
  ASSUME TypeOK, TypeOK', Named, Unfinished, Dated, Dated', Kept, NEW r \in Request, Rename(r)
  PROVE  Kept'
<1>1. PICK x : x = req[r].name
  OBVIOUS
<1>2. /\ x \in DOMAIN tmp /\ dir' = With(dir, x, tmp[x]) /\ spoiled' = spoiled
      /\ made' = With(made, x, tmp[x].time)
  BY <1>1 DEF Rename
<1>3. /\ DOMAIN made' = DOMAIN made \cup {x} /\ made'[x] = tmp[x].time
      /\ \A m \in DOMAIN made : m # x => made'[m] = made[m]
  BY <1>2 DEF With
<1>4. DOMAIN dir' = DOMAIN dir \cup {x}
  BY <1>2 DEF With
<1>5. x \in DOMAIN made => made[x] < tmp[x].time
  BY <1>2 DEF Dated
<1>6. \A m \in DOMAIN made : made[m] \in Nat /\ made'[m] \in Nat
  BY <1>3 DEF TypeOK, Partial
<1>7. \A m \in DOMAIN made : made[m] <= made'[m]
  BY <1>3, <1>5, <1>6
<1>8. ASSUME NEW n \in DOMAIN made, n # x, Cardinality(Later(n)) >= Keep
      PROVE  Cardinality(Later(n)') >= Keep
  BY <1>3, <1>7, <1>8, LaterGrows
<1>9. \A n \in DOMAIN made' \ spoiled' : n \in DOMAIN dir' \/ Cardinality(Later(n)') >= Keep
  BY <1>2, <1>3, <1>4, <1>8 DEF Kept
<1>10. ASSUME NEW s \in Request, NEW n \in req'[s].doomed \ spoiled'
       PROVE  n \in DOMAIN made' /\ Cardinality(Later(n)') >= Keep
  <2>1. req'[s].doomed = req[s].doomed
    BY RenameStep DEF Moves, Same
  <2>2. n \in DOMAIN made /\ Cardinality(Later(n)) >= Keep /\ n \notin spoiled
    BY <1>2, <1>10, <2>1 DEF Kept
  <2>3. n # x
    BY <1>1, <2>2 DEF Unfinished, Rename
  <2>4. QED
    BY <1>3, <1>8, <2>2, <2>3
<1>11. QED
  BY <1>9, <1>10 DEF Kept

LEMMA KeptRequest ==
  ASSUME TypeOK, Named, Unfinished, Dated, Kept, NEW r \in Request,
         Backing(r) \/ Importing(r) \/ Cleaning(r), ~Rename(r)
  PROVE  Kept'
<1>1. made' = made /\ spoiled' = spoiled /\ Moves(r)
  BY Footprint, DirStep
<1>2. \A n : Later(n)' = Later(n)
  BY <1>1, LaterSame
<1>3. ASSUME NEW n \in DOMAIN made \ spoiled, Cardinality(Later(n)) < Keep PROVE n \in DOMAIN dir'
  <2>0. ~(Cardinality(Later(n)) >= Keep)
    BY <1>3, LaterCounted
  <2>1. n \in DOMAIN dir
    BY <1>3, <2>0 DEF Kept
  <2>2. CASE dir' = dir
    BY <2>1, <2>2
  <2>3. CASE RemovePath(r) /\ dir' = Without(dir, req[r].name)
    <3>1. at[r] = "remove"
      BY <2>3 DEF RemovePath
    <3>2. n # req[r].name
      BY <1>3, <3>1 DEF Unfinished
    <3>3. QED
      BY <2>1, <2>3, <3>2 DEF Without
  <2>4. CASE \E m \in req[r].doomed : dir' = Without(dir, m)
    <3>1. PICK m \in req[r].doomed : dir' = Without(dir, m)
      BY <2>4
    <3>2. m # n
      BY <1>3, <2>0, <3>1 DEF Kept
    <3>3. QED
      BY <2>1, <3>1, <3>2 DEF Without
  <2>5. QED
    BY <2>2, <2>3, <2>4, DirStep
<1>4. \A n \in DOMAIN made' \ spoiled' : n \in DOMAIN dir' \/ Cardinality(Later(n)') >= Keep
  BY <1>1, <1>2, <1>3, LaterCounted
<1>5. ASSUME NEW s \in Request, NEW n \in req'[s].doomed \ spoiled'
      PROVE  n \in DOMAIN made' /\ Cardinality(Later(n)') >= Keep
  <2>1. n \notin spoiled
    BY <1>1, <1>5
  <2>2. n \in req[s].doomed \/ n \in Ranked(Keep, ListCap)
    BY <1>1, <1>5, DoomedStep DEF Moves
  <2>3. n \in DOMAIN made /\ Cardinality(Later(n)) >= Keep
    BY <2>1, <2>2, RankedLater DEF Kept
  <2>4. QED
    BY <1>1, <1>2, <2>3
<1>6. QED
  BY <1>4, <1>5 DEF Kept

LEMMA KeptStep ==
  TypeOK /\ TypeOK' /\ Named /\ Unfinished /\ Dated /\ Dated' /\ Kept /\ [Next]_vars => Kept'
<1> SUFFICES ASSUME TypeOK, TypeOK', Named, Unfinished, Dated, Dated', Kept, [Next]_vars
             PROVE  Kept'
  OBVIOUS
<1>1. ASSUME NEW r \in Request, NEW second \in 0..MaxSecond,
             StartBackup(r, second) \/ StartImport(r, second)
      PROVE  Kept'
  <2>1. UNCHANGED <<made, dir>> /\ spoiled \subseteq spoiled'
    BY <1>1 DEF StartBackup, StartImport, Begin, disk
  <2>2. \A n : Later(n)' = Later(n)
    BY <2>1, LaterSame
  <2>3. req'[r].doomed = {} /\ \A s \in Request \ {r} : req'[s] = req[s]
    BY <1>1, Beginning, BeginStep
  <2>4. QED
    BY <2>1, <2>2, <2>3 DEF Kept
<1>2. ASSUME NEW r \in Request, Backing(r) \/ Importing(r) \/ Cleaning(r) PROVE Kept'
  BY <1>2, KeptRequest, KeptRename
<1>3. CASE Around
  <2>1. made' = made /\ req' = req
    BY <1>3, AroundFiles
  <2>2. \A n : Later(n)' = Later(n)
    BY <2>1, LaterSame
  <2>3. CASE dir' = dir /\ spoiled' = spoiled
    BY <2>1, <2>2, <2>3 DEF Kept
  <2>4. ASSUME NEW n \in Name, DeleteBackup(n) PROVE Kept'
    <3>1. DOMAIN dir' = DOMAIN dir \ {n} /\ spoiled' = spoiled \cup ({n} \cap DOMAIN made)
      BY <2>4 DEF DeleteBackup, Without
    <3>2. QED
      BY <2>1, <2>2, <3>1 DEF Kept
  <2>5. QED
    BY <1>3, <2>3, <2>4, AroundFiles
<1>4. QED
  BY <1>1, <1>2, <1>3, Steps
-----------------------------------------------------------------------------
(* The file of an import.                                                  *)

CoveredOf(r) ==
    IsImport(r) /\ req[r].name \notin spoiled =>
        LET n == req[r].name IN
        /\ at[r] = "rename" => n \in DOMAIN tmp /\ Holds(tmp[n], r)
        /\ at[r] \in {"replay", "failed"} =>
              n \in DOMAIN made /\ (n \in DOMAIN dir => Holds(dir[n], r))

LEMMA CoveredParts == Covered <=> \A r \in Request : CoveredOf(r)
BY DEF Covered, CoveredOf

(* The key stays while psql or the rename of a file is on its way.         *)
KeysStay(s) ==
    keySet' = keySet /\ (keySet \/ at'[s] \in {"rename", "replay"} => key' = key)

(* Steps that leave the files under a request's name alone. *)
LEMMA Untouched ==
  ASSUME NEW s \in Request, NEW n, n = req[s].name, CoveredOf(s), KeysStay(s),
         spoiled \subseteq spoiled', req'[s].name = n, req'[s].before = req[s].before,
         at'[s] \in {"rename", "replay"} => at'[s] = at[s],
         at'[s] \in {"replay", "failed"} => at[s] \in {"replay", "failed"},
         DOMAIN made \subseteq DOMAIN made',
         at'[s] = "rename" /\ n \in DOMAIN tmp => n \in DOMAIN tmp' /\ tmp'[n] = tmp[n],
         n \in DOMAIN dir' => n \in DOMAIN dir /\ dir'[n] = dir[n]
  PROVE  CoveredOf(s)'
<1>1. \A f : Holds(f, s) => Holds(f, s)'
  BY DEF Holds, KeysStay
<1>2. IsImport(s)' <=> IsImport(s)
  BY DEF IsImport
<1>3. ASSUME IsImport(s)', n \notin spoiled', at'[s] = "rename"
      PROVE  n \in DOMAIN tmp' /\ Holds(tmp[n], s)'
  <2>1. n \in DOMAIN tmp /\ Holds(tmp[n], s)
    BY <1>2, <1>3 DEF CoveredOf
  <2>2. n \in DOMAIN tmp' /\ tmp'[n] = tmp[n]
    BY <1>3, <2>1
  <2>3. PICK f : f = tmp[n]
    OBVIOUS
  <2>4. tmp'[n] = f /\ Holds(f, s)'
    BY <1>1, <2>1, <2>2, <2>3
  <2>5. QED
    BY <2>2, <2>4 DEF Holds
<1>4. ASSUME IsImport(s)', n \notin spoiled', at'[s] \in {"replay", "failed"}
      PROVE  n \in DOMAIN made' /\ (n \in DOMAIN dir' => Holds(dir[n], s)')
  <2>1. n \in DOMAIN made /\ (n \in DOMAIN dir => Holds(dir[n], s))
    BY <1>2, <1>4 DEF CoveredOf
  <2>2. CASE n \in DOMAIN dir'
    <3>1. n \in DOMAIN dir /\ dir'[n] = dir[n]
      BY <2>2
    <3>2. PICK f : f = dir[n]
      OBVIOUS
    <3>3. dir'[n] = f /\ Holds(f, s)'
      BY <1>1, <2>1, <3>1, <3>2
    <3>4. QED
      BY <2>1, <3>1, <3>3 DEF Holds
  <2>3. CASE n \notin DOMAIN dir'
    BY <2>1, <2>3
  <2>4. QED
    BY <2>2, <2>3
<1>5. QED
  BY <1>3, <1>4 DEF CoveredOf, Holds

LEMMA RequestKeys ==
  ASSUME NEW r \in Request, Backing(r) \/ Importing(r) \/ Cleaning(r)
  PROVE  UNCHANGED <<keySet, key>>
BY DEF keys, Backing, Importing, Cleaning, RunDump, WriteTmp, Rename, DumpFails, RemovePath,
   Stat, Replay, ReplayFails, ReplayEnds, Scan, CleanOne, Answer

LEMMA AroundKeys ==
  ASSUME TypeOK, Around, NEW s \in Request
  PROVE  KeysStay(s)
<1>1. CASE Restart
  <2>1. at'[s] \notin {"rename", "replay"}
    BY <1>1 DEF Restart, Active, TypeOK
  <2>2. keySet' = keySet /\ (keySet => key' = key)
    BY <1>1 DEF Restart
  <2>3. QED
    BY <2>1, <2>2 DEF KeysStay
<1>2. CASE ~Restart
  BY <1>2 DEF KeysStay, keys, Around, DeleteBackup, DownloadBackup, TakeFile, AppWrites, Export, vars
<1>3. QED
  BY <1>1, <1>2

(* A request cannot touch the files of another with a name of its own. *)
LEMMA CoveredOther ==
  ASSUME TypeOK, Named, Covered, NEW r \in Request, Backing(r) \/ Importing(r) \/ Cleaning(r),
         NEW s \in Request, s # r
  PROVE  CoveredOf(s)'
<1>1. PICK x : x = req[r].name
  OBVIOUS
<1>2. PICK n : n = req[s].name
  OBVIOUS
<1>3. /\ Begun(r) /\ Moves(r) /\ spoiled' = spoiled /\ DOMAIN made \subseteq DOMAIN made'
      /\ tmp' = tmp \/ tmp' = Without(tmp, x) \/ \E f \in File : tmp' = With(tmp, x, f)
  BY <1>1, Footprint DEF Writes
<1>4. at'[s] = at[s] /\ req'[s] = req[s]
  BY <1>3 DEF Moves
<1>5. CASE n = x /\ at[s] # "idle"
  <2>0. \A v, w \in Request : Begun(v) /\ Begun(w) /\ v # w /\ req[v].name = req[w].name =>
           req[v].name \in spoiled
    BY DEF Named
  <2>1. n \in spoiled
    BY <1>1, <1>2, <1>3, <1>5, <2>0 DEF Begun
  <2>2. QED
    BY <1>2, <1>3, <1>4, <2>1 DEF CoveredOf
<1>6. CASE at[s] = "idle"
  BY <1>4, <1>6 DEF CoveredOf
<1>7. CASE n # x
  <2>1. n \in DOMAIN tmp => n \in DOMAIN tmp' /\ tmp'[n] = tmp[n]
    <3>1. CASE tmp' = tmp \/ tmp' = Without(tmp, x)
      BY <1>7, <3>1 DEF Without
    <3>2. ASSUME NEW f, tmp' = With(tmp, x, f) PROVE n \in DOMAIN tmp => n \in DOMAIN tmp' /\ tmp'[n] = tmp[n]
      BY <1>7, <3>2 DEF With
    <3>3. QED
      BY <1>3, <3>1, <3>2
  <2>2. n \in DOMAIN dir' => n \in DOMAIN dir /\ dir'[n] = dir[n]
    <3>1. CASE dir' = dir \/ \E m : dir' = Without(dir, m)
      BY <3>1 DEF Without
    <3>2. CASE Rename(r)
      <4>1. PICK f : f = tmp[x]
        OBVIOUS
      <4>2. dir' = With(dir, x, f)
        BY <1>1, <3>2, <4>1 DEF Rename
      <4>3. QED
        BY <1>7, <4>2 DEF With
    <3>3. QED
      BY <3>1, <3>2, DirStep
  <2>3. KeysStay(s) /\ CoveredOf(s)
    BY RequestKeys, CoveredParts DEF KeysStay
  <2>4. QED
    BY <1>2, <1>3, <1>4, <2>1, <2>2, <2>3, Untouched
<1>8. QED
  BY <1>5, <1>6, <1>7

LEMMA CoveredWrite ==
  ASSUME TypeOK, NEW r \in Request, WriteTmp(r)
  PROVE  CoveredOf(r)'
<1>1. PICK n : n = req[r].name
  OBVIOUS
<1>2. PICK d \in Database : d = req[r].before
  BY LocalType
<1>3. at'[r] = "rename" /\ req'[r].name = n /\ (IsImport(r) => req'[r].before = d)
  BY <1>1, <1>2, WriteStep DEF Moves, Same
<1>4. clock + 1 \in Nat
  BY DEF TypeOK
<1>5. PICK f : f = Encrypted(Dump(d), clock + 1)
  OBVIOUS
<1>6. f.script = Dump(d) /\ f.key = key
  BY <1>4, <1>5, EncryptedType
<1>7. tmp' = With(tmp, n, f) /\ UNCHANGED <<keySet, key>>
  BY <1>1, <1>2, <1>5 DEF WriteTmp, keys
<1>8. n \in DOMAIN tmp' /\ tmp'[n] = f
  BY <1>7 DEF With
<1>9. IsImport(r)' => IsImport(r)
  BY <1>1, <1>3 DEF IsImport
<1>10. QED
  BY <1>3, <1>6, <1>7, <1>8, <1>9 DEF CoveredOf, Holds

LEMMA CoveredRename ==
  ASSUME TypeOK, Covered, NEW r \in Request, Rename(r)
  PROVE  CoveredOf(r)'
<1>1. PICK n : n = req[r].name
  OBVIOUS
<1>2. PICK f : f = tmp[n]
  OBVIOUS
<1>3. /\ dir' = With(dir, n, f) /\ made' = With(made, n, f.time) /\ UNCHANGED <<spoiled, keySet, key>>
      /\ at[r] = "rename"
  BY <1>1, <1>2 DEF Rename, keys
<1>4. n \in DOMAIN dir' /\ dir'[n] = f /\ n \in DOMAIN made'
  BY <1>3 DEF With
<1>5. /\ req'[r].name = n /\ req'[r].before = req[r].before
      /\ at'[r] \in {"replay", "stat"}
  BY <1>1, RenameStep DEF Moves, Same
<1>6. IsImport(r)' => IsImport(r)
  BY <1>1, <1>5 DEF IsImport
<1>7. IsImport(r) /\ n \notin spoiled => f.script = Dump(req[r].before) /\ f.key = key
  BY <1>1, <1>2, <1>3 DEF Covered, Holds
<1>8. QED
  BY <1>3, <1>4, <1>5, <1>6, <1>7 DEF CoveredOf, Holds

LEMMA CoveredReplay ==
  ASSUME TypeOK, Named, Covered, NEW r \in Request, Replay(r) \/ ReplayFails(r)
  PROVE  CoveredOf(r)'
<1>1. PICK n : n = req[r].name
  OBVIOUS
<1>2. /\ req'[r].name = n /\ req'[r].before = req[r].before /\ at[r] = "replay"
      /\ at'[r] \in {"replay", "failed"}
  BY <1>1, ReplayStep, ReplayFailsStep DEF Moves, Same
<1>3. UNCHANGED <<dir, tmp, made, spoiled>>
  BY DEF Replay, ReplayFails, disk, ghost
<1>4. KeysStay(r) /\ CoveredOf(r)
  BY RequestKeys, CoveredParts DEF KeysStay, Importing
<1>5. QED
  BY <1>1, <1>2, <1>3, <1>4, Untouched

LEMMA CoveredRequest ==
  ASSUME TypeOK, Named, Covered, NEW r \in Request, Backing(r) \/ Importing(r) \/ Cleaning(r)
  PROVE  CoveredOf(r)'
<1>1. CASE WriteTmp(r) \/ Rename(r) \/ Replay(r) \/ ReplayFails(r)
  BY <1>1, CoveredWrite, CoveredRename, CoveredReplay
<1>2. SUFFICES ASSUME ~(WriteTmp(r) \/ Rename(r) \/ Replay(r) \/ ReplayFails(r))
               PROVE  at'[r] \notin {"rename", "replay", "failed"}
  BY <1>1 DEF CoveredOf
<1>3. CASE RunDump(r) \/ DumpFails(r) \/ RemovePath(r) \/ Stat(r)
  BY <1>3, RunDumpStep, DumpFailsStep, RemoveStep, StatStep DEF Ended
<1>4. CASE ReplayEnds(r) \/ Scan(r) \/ Answer(r)
  BY <1>4, ReplayEndsStep, ScanStep, AnswerStep DEF Ended
<1>5. ASSUME NEW n \in Name, CleanOne(r, n) PROVE at'[r] = "clean"
  BY <1>5, CleanStep
<1>6. QED
  BY <1>2, <1>3, <1>4, <1>5 DEF Backing, Importing, Cleaning

LEMMA CoveredBegin ==
  ASSUME TypeOK, Covered, NEW r \in Request, NEW kind \in {"manual", "import"},
         NEW second \in 0..MaxSecond, NEW up,
         up.script \in Seq(Statement), up.whole \in BOOLEAN, Begin(r, kind, second, up)
  PROVE  Covered'
<1>1. /\ UNCHANGED <<made, dir, tmp, keySet, key>> /\ spoiled \subseteq spoiled'
  BY DEF Begin, disk, keys
<1>2. at'[r] = "dump" /\ \A s \in Request \ {r} : at'[s] = at[s] /\ req'[s] = req[s]
  BY BeginStep
<1>3. CoveredOf(r)'
  BY <1>2 DEF CoveredOf
<1>4. ASSUME NEW s \in Request, s # r PROVE CoveredOf(s)'
  <2>1. at'[s] = at[s] /\ req'[s] = req[s] /\ CoveredOf(s)
    BY <1>2, <1>4, CoveredParts
  <2>2. QED
    BY <1>1, <2>1 DEF CoveredOf, IsImport, Holds
<1>5. QED
  BY <1>3, <1>4 DEF Covered, CoveredOf

LEMMA CoveredAround ==
  ASSUME TypeOK, Covered, Around
  PROVE  Covered'
<1>1. ASSUME NEW s \in Request PROVE CoveredOf(s)'
  <2>1. PICK n : n = req[s].name
    OBVIOUS
  <2>2. /\ req' = req /\ UNCHANGED <<made, tmp>> /\ spoiled \subseteq spoiled'
        /\ at'[s] \in {"rename", "replay"} => at'[s] = at[s]
        /\ at'[s] \in {"replay", "failed"} => at[s] \in {"replay", "failed"}
    BY AroundStep
  <2>3. n \in DOMAIN dir' => n \in DOMAIN dir /\ dir'[n] = dir[n]
    BY AroundFiles DEF DeleteBackup, Without
  <2>4. KeysStay(s) /\ CoveredOf(s)
    BY AroundKeys, CoveredParts
  <2>5. QED
    BY <2>1, <2>2, <2>3, <2>4, Untouched
<1>2. QED
  BY <1>1 DEF Covered, CoveredOf

LEMMA CoveredStep == TypeOK /\ Named /\ Covered /\ [Next]_vars => Covered'
<1> SUFFICES ASSUME TypeOK, Named, Covered, [Next]_vars PROVE Covered'
  OBVIOUS
<1>1. ASSUME NEW r \in Request, NEW second \in 0..MaxSecond,
             StartBackup(r, second) \/ StartImport(r, second)
      PROVE  Covered'
  BY <1>1, Beginning, CoveredBegin
<1>2. ASSUME NEW r \in Request, Backing(r) \/ Importing(r) \/ Cleaning(r) PROVE Covered'
  <2>1. \A s \in Request : CoveredOf(s)'
    BY <1>2, CoveredOther, CoveredRequest
  <2>2. QED
    BY <2>1 DEF Covered, CoveredOf
<1>3. CASE Around
  BY <1>3, CoveredAround
<1>4. QED
  BY <1>1, <1>2, <1>3, Steps
-----------------------------------------------------------------------------
(* Scripts.                                                                *)

LEMMA WholeDump ==
  ASSUME NEW d \in Database
  PROVE  Proper(SubSeq(Dump(d), 1, Len(Dump(d))))
<1>1. PICK s \in Seq(Statement) : s = Dump(d)
  BY DumpType
<1>2. SubSeq(s, 1, Len(s)) = s
  BY SubSeqFull
<1>3. QED
  BY <1>1, <1>2, DumpType

FilesProper ==
    /\ \A n \in DOMAIN dir : Proper(dir[n].script)
    /\ \A n \in DOMAIN tmp : Proper(tmp[n].script)
CopyProper == copy.whole => Proper(copy.script)
UploadsProper == \A r \in Request : req[r].whole => Proper(req[r].upload)

LEMMA ScriptParts == Scripts <=> FilesProper /\ CopyProper /\ UploadsProper
BY DEF Scripts, FilesProper, CopyProper, UploadsProper

LEMMA FilesProperRequest ==
  ASSUME TypeOK, Named, FilesProper, NEW r \in Request, Backing(r) \/ Importing(r) \/ Cleaning(r)
  PROVE  FilesProper'
<1>1. PICK x : x = req[r].name
  OBVIOUS
<1>2. ASSUME tmp' = tmp \/ tmp' = Without(tmp, x) PROVE \A n \in DOMAIN tmp' : Proper(tmp'[n].script)
  <2>1. \A n \in DOMAIN tmp' : n \in DOMAIN tmp /\ tmp'[n] = tmp[n]
    BY <1>2 DEF Without
  <2>2. QED
    BY <2>1 DEF FilesProper
<1>3. ASSUME \E f \in File : Writes(r, f) PROVE \A n \in DOMAIN tmp' : Proper(tmp'[n].script)
  <2>1. PICK f \in File : tmp' = With(tmp, x, f) /\ Proper(f.script)
    BY <1>1, <1>3 DEF Writes
  <2>2. \A n \in DOMAIN tmp' : tmp'[n] = f \/ (n \in DOMAIN tmp /\ tmp'[n] = tmp[n])
    BY <2>1 DEF With
  <2>3. QED
    BY <2>1, <2>2 DEF FilesProper
<1>4. \A n \in DOMAIN tmp' : Proper(tmp'[n].script)
  BY <1>1, <1>2, <1>3, Footprint
<1>5. CASE dir' = dir \/ \E m : dir' = Without(dir, m)
  <2>1. \A n \in DOMAIN dir' : n \in DOMAIN dir /\ dir'[n] = dir[n]
    BY <1>5 DEF Without
  <2>2. QED
    BY <1>4, <2>1 DEF FilesProper
<1>6. CASE Rename(r)
  <2>1. PICK g : g = tmp[x]
    OBVIOUS
  <2>2. x \in DOMAIN tmp /\ dir' = With(dir, x, g)
    BY <1>1, <1>6, <2>1 DEF Rename
  <2>3. \A n \in DOMAIN dir' : dir'[n] = g \/ (n \in DOMAIN dir /\ dir'[n] = dir[n])
    BY <2>2 DEF With
  <2>4. Proper(g.script)
    BY <2>1, <2>2 DEF FilesProper
  <2>5. QED
    BY <1>4, <2>3, <2>4 DEF FilesProper
<1>7. QED
  BY <1>5, <1>6, DirStep

LEMMA UploadStep ==
  ASSUME TypeOK, NEW r \in Request, Backing(r) \/ Importing(r) \/ Cleaning(r)
  PROVE  \/ req'[r].upload = req[r].upload /\ req'[r].whole = req[r].whole
         \/ req'[r].upload = <<>>
<1>1. CASE RunDump(r) \/ WriteTmp(r)
  BY <1>1, RunDumpStep, WriteStep DEF Same, Cleared
<1>2. CASE Rename(r) \/ DumpFails(r)
  BY <1>2, RenameStep, DumpFailsStep DEF Same
<1>3. CASE RemovePath(r) \/ Stat(r) \/ Answer(r)
  BY <1>3, RemoveStep, StatStep, AnswerStep DEF Same, Ended
<1>4. CASE Importing(r)
  BY <1>4, ReplayStep, ReplayFailsStep, ReplayEndsStep DEF Same, Importing
<1>5. CASE Scan(r)
  BY <1>5, ScanStep DEF Cleared
<1>6. ASSUME NEW n \in Name, CleanOne(r, n)
      PROVE  req'[r].upload = req[r].upload /\ req'[r].whole = req[r].whole
  BY <1>6, CleanStep
<1>7. QED
  BY <1>1, <1>2, <1>3, <1>4, <1>5, <1>6 DEF Backing, Cleaning

LEMMA CopyStep ==
  ASSUME TypeOK, FilesProper, CopyProper, [Next]_vars
  PROVE  CopyProper'
<1>1. CASE copy' = copy
  BY <1>1 DEF CopyProper
<1>2. CASE Export
  <2>1. PICK s : s = Dump(db)
    OBVIOUS
  <2>2. PICK n \in 0..Len(s) : copy' = [script |-> SubSeq(s, 1, n), key |-> Plain, whole |-> n = Len(s)]
    BY <1>2, <2>1 DEF Export
  <2>3. db \in Database
    BY DEF TypeOK
  <2>4. Proper(SubSeq(s, 1, Len(s)))
    BY <2>1, <2>3, WholeDump
  <2>5. (copy.whole)' = (n = Len(s)) /\ (copy.script)' = SubSeq(s, 1, n)
    BY <2>2
  <2>6. QED
    BY <2>4, <2>5 DEF CopyProper
<1>3. ASSUME NEW n \in Name, DownloadBackup(n) \/ TakeFile(n) PROVE CopyProper'
  <2>1. PICK s : s = dir[n].script
    OBVIOUS
  <2>2. n \in DOMAIN dir /\ \E k : copy' = [script |-> s, key |-> k, whole |-> TRUE]
    BY <1>3, <2>1 DEF DownloadBackup, TakeFile
  <2>3. Proper(s)
    BY <2>1, <2>2 DEF FilesProper
  <2>4. (copy.script)' = s
    BY <2>2
  <2>5. QED
    BY <2>3, <2>4 DEF CopyProper
<1>4. QED
  BY <1>1, <1>2, <1>3 DEF Next, StartBackup, StartImport, Begin, Backing, Importing, Cleaning, RunDump,
     WriteTmp, Rename, DumpFails, RemovePath, Stat, Replay, ReplayFails, ReplayEnds, Scan, CleanOne,
     Answer, DeleteBackup, AppWrites, Restart, vars

LEMMA ScriptsStep == TypeOK /\ Named /\ Scripts /\ [Next]_vars => Scripts'
<1> SUFFICES ASSUME TypeOK, Named, Scripts, [Next]_vars PROVE Scripts'
  OBVIOUS
<1>0. FilesProper /\ CopyProper /\ UploadsProper /\ CopyProper'
  BY ScriptParts, CopyStep
<1>1. ASSUME NEW r \in Request, NEW second \in 0..MaxSecond,
             StartBackup(r, second) \/ StartImport(r, second)
      PROVE  FilesProper' /\ UploadsProper'
  <2>1. UNCHANGED <<dir, tmp>>
    BY <1>1 DEF StartBackup, StartImport, Begin, disk
  <2>2. FilesProper'
    BY <1>0, <2>1 DEF FilesProper
  <2>3. PICK up \in {NoCopy, copy} : /\ req'[r].upload = up.script /\ req'[r].whole = up.whole
                                     /\ \A s \in Request \ {r} : req'[s] = req[s]
    BY <1>1, Beginning, BeginStep
  <2>4. NoCopy.script = <<>>
    BY DEF NoCopy
  <2>5. up.whole => Proper(up.script)
    BY <1>0, <2>4, EmptyProper DEF CopyProper
  <2>6. QED
    BY <1>0, <2>2, <2>3, <2>5 DEF UploadsProper
<1>2. ASSUME NEW r \in Request, Backing(r) \/ Importing(r) \/ Cleaning(r)
      PROVE  FilesProper' /\ UploadsProper'
  <2>1. FilesProper'
    BY <1>0, <1>2, FilesProperRequest
  <2>2. \A s \in Request \ {r} : req'[s] = req[s]
    BY <1>2, Footprint DEF Moves
  <2>3. req'[r].whole => Proper(req'[r].upload)
    BY <1>0, <1>2, UploadStep, EmptyProper DEF UploadsProper
  <2>4. QED
    BY <1>0, <2>1, <2>2, <2>3 DEF UploadsProper
<1>3. ASSUME Around PROVE FilesProper' /\ UploadsProper'
  <2>1. req' = req /\ tmp' = tmp
    BY <1>3, AroundFiles
  <2>2. \A n \in DOMAIN dir' : n \in DOMAIN dir /\ dir'[n] = dir[n]
    BY <1>3, AroundFiles DEF DeleteBackup, Without
  <2>3. FilesProper'
    BY <1>0, <2>1, <2>2 DEF FilesProper
  <2>4. UploadsProper'
    BY <1>0, <2>1 DEF UploadsProper
  <2>5. QED
    BY <2>3, <2>4
<1>4. FilesProper' /\ UploadsProper'
  <2>1. \/ \E r \in Request, second \in 0..MaxSecond : StartBackup(r, second) \/ StartImport(r, second)
        \/ \E r \in Request : Backing(r) \/ Importing(r) \/ Cleaning(r)
        \/ Around
    BY Steps
  <2>2. QED
    BY <1>1, <1>2, <1>3, <2>1
<1>5. QED
  BY <1>0, <1>4 DEF Scripts, FilesProper, CopyProper, UploadsProper
-----------------------------------------------------------------------------
(* Replays.                                                                *)

LEMMA NothingApplied ==
  ASSUME NEW s \in Seq(Statement), NEW d, NEW t \in Table
  PROVE  Applied(s, 1, d, d, t)
<1>1. \A i \in DOMAIN s : ~(i < 1)
  OBVIOUS
<1>2. Past(Loads(s, t), 1) = {} /\ Past(Drops(s, t), 1) = {}
  BY <1>1 DEF Past, Loads, Drops
<1>3. QED
  BY <1>2 DEF Applied

LEMMA StatementApplied ==
  ASSUME NEW s \in Seq(Statement), Proper(s), NEW k \in DOMAIN s, NEW d \in Database,
         NEW b, NEW t \in Table, Applied(s, k, d, b, t)
  PROVE  Applied(s, k + 1, [d EXCEPT ![s[k].table] = IF s[k].op = "drop" THEN Gone ELSE s[k].data], b, t)
<1> DEFINE e == [d EXCEPT ![s[k].table] = IF s[k].op = "drop" THEN Gone ELSE s[k].data]
<1>1. PICK c \in Statement : c = s[k]
  OBVIOUS
<1>2. c.table \in Table /\ c.op \in {"drop", "load"}
  BY DEF Statement
<1>3. e = [d EXCEPT ![c.table] = IF c.op = "drop" THEN Gone ELSE c.data]
  BY <1>1
<1>4. DOMAIN d = Table
  BY DEF Database
<1>5. \A i \in DOMAIN s : i < k + 1 <=> i < k \/ i = k
  OBVIOUS
<1> HIDE DEF e
<1>6. CASE c.table # t
  <2>1. e[t] = d[t]
    BY <1>3, <1>4, <1>6
  <2>2. k \notin Loads(s, t) /\ k \notin Drops(s, t)
    BY <1>1, <1>6 DEF Loads, Drops
  <2>3. Past(Loads(s, t), k + 1) = Past(Loads(s, t), k) /\ Past(Drops(s, t), k + 1) = Past(Drops(s, t), k)
    <3>1. \A i \in Loads(s, t) : i \in DOMAIN s /\ i # k
      BY <2>2 DEF Loads
    <3>2. \A i \in Drops(s, t) : i \in DOMAIN s /\ i # k
      BY <2>2 DEF Drops
    <3>3. QED
      BY <1>5, <3>1, <3>2 DEF Past
  <2>4. QED
    BY <2>1, <2>3 DEF Applied, e
<1>7. CASE c.table = t /\ c.op = "load"
  <2>1. e[t] = c.data
    BY <1>3, <1>4, <1>7
  <2>2. k \in Past(Loads(s, t), k + 1)
    BY <1>1, <1>5, <1>7 DEF Past, Loads
  <2>3. QED
    BY <1>1, <2>1, <2>2 DEF Applied, e
<1>8. CASE c.table = t /\ c.op = "drop"
  <2>1. e[t] = Gone
    BY <1>3, <1>4, <1>8
  <2>2. k \in Drops(s, t)
    BY <1>1, <1>8 DEF Drops
  <2>3. \A j \in Loads(s, t) : j \in DOMAIN s /\ k < j
    BY <2>2 DEF Proper, Loads
  <2>4. \A j \in DOMAIN s : k < j => ~(j < k + 1)
    OBVIOUS
  <2>5. Past(Loads(s, t), k + 1) = {}
    BY <2>3, <2>4 DEF Past
  <2>6. k \in Past(Drops(s, t), k + 1)
    BY <1>5, <2>2 DEF Past
  <2>7. QED
    BY <2>1, <2>5, <2>6 DEF Applied, e
<1>9. QED
  BY <1>2, <1>6, <1>7, <1>8

LEMMA AllApplied ==
  ASSUME TypeOK, NEW r \in Request, NEW s, s = req[r].upload, Proper(s),
         NEW k \in Nat, k > Len(s), \A t \in Table : Applied(s, k, db, req[r].before, t)
  PROVE  db = Target(r)
<1> DEFINE goal == [t \in Table |-> IF Loads(s, t) = {} THEN req[r].before[t]
                                    ELSE s[CHOOSE i \in Loads(s, t) : TRUE].data]
<1>1. Target(r) = goal
  BY DEF Target, Loads
<1>2. \A i \in DOMAIN s : i < k
  BY LocalType
<1>3. \A t \in Table : Past(Loads(s, t), k) = Loads(s, t) /\ Past(Drops(s, t), k) = Drops(s, t)
  BY <1>2 DEF Past, Loads, Drops
<1>4. ASSUME NEW t \in Table PROVE db[t] = goal[t]
  <2>1. CASE \E i \in Loads(s, t) : db[t] = s[i].data
    <3>1. PICK i \in Loads(s, t) : db[t] = s[i].data
      BY <2>1
    <3>2. (CHOOSE j \in Loads(s, t) : TRUE) = i
      BY <3>1 DEF Proper
    <3>3. QED
      BY <3>1, <3>2
  <2>2. CASE Loads(s, t) = {} /\ Drops(s, t) = {} /\ db[t] = req[r].before[t]
    BY <2>2
  <2>3. CASE Loads(s, t) = {} /\ Drops(s, t) # {}
    BY <2>3 DEF Proper
  <2>4. QED
    BY <1>3, <2>1, <2>2, <2>3 DEF Applied
<1>5. db \in [Table -> 0..MaxVersion]
  BY DEF TypeOK, Database
<1>6. QED
  BY <1>1, <1>4, <1>5

ReplayedOf(r) ==
    r \notin blurred /\ IsImport(r) =>
        /\ at[r] # "stat"
        /\ at[r] \in {"dump", "write", "rename"} => req[r].next = 1
        /\ at[r] \in {"write", "rename", "replay"} =>
              /\ req[r].next = 1 => db = req[r].before
              /\ req[r].whole =>
                    \A t \in Table : Applied(req[r].upload, req[r].next, db, req[r].before, t)
        /\ at[r] = "scan" /\ req[r].whole => db = Target(r)

LEMMA ReplayedParts == Replayed <=> \A r \in Request : ReplayedOf(r)
BY DEF Replayed, ReplayedOf

(* Steps that neither write to the database nor move a request's replay. *)
LEMMA ReplayedStill ==
  ASSUME NEW s \in Request, ReplayedOf(s), db' = db, blurred \subseteq blurred',
         \/ at'[s] \in {"idle", "remove", "failed", "clean", "done"}
         \/ at'[s] = at[s]
         \/ at'[s] \in {"rename", "replay"} /\ at[s] \in {"write", "rename"},
         req'[s].name = req[s].name, req'[s].upload = req[s].upload,
         req'[s].whole = req[s].whole, req'[s].next = req[s].next, req'[s].before = req[s].before
  PROVE  ReplayedOf(s)'
<1>1. CASE at'[s] \in {"idle", "remove", "failed", "clean", "done"}
  BY <1>1 DEF ReplayedOf
<1>2. Target(s)' = Target(s)
  BY DEF Target
<1>3. IsImport(s)' <=> IsImport(s)
  BY DEF IsImport
<1>4. \A t : Applied(req[s].upload, req[s].next, db, req[s].before, t)'
             <=> Applied(req[s].upload, req[s].next, db, req[s].before, t)
  BY DEF Applied
<1>5. CASE at'[s] = at[s]
  BY <1>2, <1>3, <1>4, <1>5 DEF ReplayedOf
<1>6. CASE at'[s] \in {"rename", "replay"} /\ at[s] \in {"write", "rename"}
  BY <1>2, <1>3, <1>4, <1>6 DEF ReplayedOf
<1>7. QED
  BY <1>1, <1>5, <1>6

LEMMA RequestDb ==
  ASSUME TypeOK, NEW r \in Request, Backing(r) \/ Importing(r) \/ Cleaning(r)
  PROVE  \/ db' = db /\ blurred' = blurred
         \/ /\ Replay(r) /\ blurred \subseteq blurred'
            /\ \A s \in Request \ {r} : IsImport(s) /\ at[s] # "done" => s \in blurred'
<1>1. CASE Replay(r)
  BY <1>1 DEF Replay, Blur
<1>2. CASE ~Replay(r)
  BY <1>2 DEF Backing, Importing, Cleaning, RunDump, WriteTmp, Rename, DumpFails, RemovePath, Stat,
     ReplayFails, ReplayEnds, Scan, CleanOne, Answer, ghost
<1>3. QED
  BY <1>1, <1>2

LEMMA ReplayedOther ==
  ASSUME TypeOK, Named, Replayed, NEW r \in Request, Backing(r) \/ Importing(r) \/ Cleaning(r),
         NEW s \in Request, s # r
  PROVE  ReplayedOf(s)'
<1>1. at'[s] = at[s] /\ req'[s] = req[s]
  BY Footprint DEF Moves
<1>2. CASE db' = db /\ blurred' = blurred
  BY <1>1, <1>2, ReplayedParts, ReplayedStill
<1>3. CASE IsImport(s) /\ at[s] # "done" => s \in blurred'
  BY <1>1, <1>3 DEF ReplayedOf, IsImport
<1>4. QED
  BY <1>2, <1>3, RequestDb

LEMMA ReplayedDump ==
  ASSUME TypeOK, Replayed, NEW r \in Request, RunDump(r)
  PROVE  ReplayedOf(r)'
<1>1. PICK u \in Seq(Statement) : u = req[r].upload
  BY LocalType
<1>2. /\ at[r] = "dump" /\ at'[r] = "write" /\ req'[r].upload = u /\ req'[r].before = db
      /\ req'[r].next = req[r].next /\ req'[r].name = req[r].name
  BY <1>1, RunDumpStep DEF Moves
<1>3. db' = db /\ blurred' = blurred
  BY DEF RunDump, ghost
<1>4. r \notin blurred /\ IsImport(r) => req[r].next = 1
  BY <1>2 DEF Replayed
<1>5. \A t \in Table : Applied(u, 1, db, db, t)
  BY NothingApplied
<1>6. IsImport(r)' <=> IsImport(r)
  BY <1>2 DEF IsImport
<1>7. req'[r].next = 1 => \A t \in Table : Applied(req[r].upload, req[r].next, db, req[r].before, t)'
  BY <1>2, <1>3, <1>5 DEF Applied
<1>8. QED
  BY <1>2, <1>3, <1>4, <1>6, <1>7 DEF ReplayedOf

LEMMA ReplayedReplay ==
  ASSUME TypeOK, Scripts, Replayed, NEW r \in Request, Replay(r)
  PROVE  ReplayedOf(r)'
<1>1. PICK u \in Seq(Statement) : u = req[r].upload
  BY LocalType
<1>2. PICK k \in Nat \ {0} : k = req[r].next
  BY LocalType
<1>3. PICK d \in Database : d = db
  BY DEF TypeOK
<1>4. PICK b : b = req[r].before
  OBVIOUS
<1>5. /\ at[r] = "replay" /\ at'[r] = "replay" /\ req'[r].upload = u /\ req'[r].before = b
      /\ req'[r].next = k + 1 /\ req'[r].name = req[r].name /\ req'[r].whole = req[r].whole
  BY <1>1, <1>2, <1>4, ReplayStep DEF Moves
<1>6. k \in DOMAIN u
  BY <1>1, <1>2 DEF Replay
<1>7. db' = [d EXCEPT ![u[k].table] = IF u[k].op = "drop" THEN Gone ELSE u[k].data]
  BY <1>1, <1>2, <1>3 DEF Replay
<1>8. blurred \subseteq blurred'
  BY DEF Replay, Blur
<1>9. IsImport(r)' <=> IsImport(r)
  BY <1>5 DEF IsImport
<1>10. ASSUME r \notin blurred', IsImport(r), req[r].whole, NEW t \in Table
       PROVE  Applied(req[r].upload, req[r].next, db, req[r].before, t)'
  <2>1. Proper(u)
    BY <1>1, <1>10 DEF Scripts
  <2>2. Applied(u, k, d, b, t)
    BY <1>1, <1>2, <1>3, <1>4, <1>5, <1>8, <1>10 DEF Replayed
  <2>3. Applied(u, k + 1, [d EXCEPT ![u[k].table] = IF u[k].op = "drop" THEN Gone ELSE u[k].data], b, t)
    BY <1>6, <2>1, <2>2, StatementApplied
  <2>4. PICK e : e = [d EXCEPT ![u[k].table] = IF u[k].op = "drop" THEN Gone ELSE u[k].data]
    OBVIOUS
  <2>5. Applied(u, k + 1, e, b, t) /\ db' = e
    BY <1>7, <2>3, <2>4
  <2>6. QED
    BY <1>5, <2>5 DEF Applied
<1>11. k + 1 # 1
  OBVIOUS
<1>12. QED
  BY <1>5, <1>9, <1>10, <1>11 DEF ReplayedOf

LEMMA ReplayedEnd ==
  ASSUME TypeOK, Scripts, Replayed, NEW r \in Request, ReplayEnds(r)
  PROVE  ReplayedOf(r)'
<1>1. /\ at[r] = "replay" /\ at'[r] = "scan" /\ Same(r) /\ req[r].next > Len(req[r].upload)
      /\ req'[r].name = req[r].name
  BY ReplayEndsStep DEF Moves
<1>2. db' = db /\ blurred' = blurred
  BY DEF ReplayEnds, ghost
<1>3. ASSUME r \notin blurred, IsImport(r), req[r].whole PROVE db = Target(r)
  <2>1. PICK s : s = req[r].upload
    OBVIOUS
  <2>2. PICK k \in Nat : k = req[r].next
    BY LocalType
  <2>3. Proper(s) /\ k > Len(s)
    BY <1>1, <1>3, <2>1, <2>2 DEF Scripts
  <2>4. \A t \in Table : Applied(s, k, db, req[r].before, t)
    BY <1>1, <1>3, <2>1, <2>2 DEF Replayed
  <2>5. QED
    BY <2>1, <2>3, <2>4, AllApplied
<1>4. Target(r)' = Target(r)
  BY <1>1 DEF Target, Same
<1>5. IsImport(r)' <=> IsImport(r)
  BY <1>1 DEF IsImport
<1>6. QED
  BY <1>1, <1>2, <1>3, <1>4, <1>5 DEF ReplayedOf, Same

LEMMA ReplayedRequest ==
  ASSUME TypeOK, Named, Scripts, Replayed, NEW r \in Request,
         Backing(r) \/ Importing(r) \/ Cleaning(r)
  PROVE  ReplayedOf(r)'
<1>0. ReplayedOf(r) /\ req'[r].name = req[r].name
  BY ReplayedParts, Footprint DEF Moves
<1>1. CASE RunDump(r) \/ Replay(r) \/ ReplayEnds(r)
  BY <1>1, ReplayedDump, ReplayedReplay, ReplayedEnd
<1>2. CASE (WriteTmp(r) \/ Rename(r)) /\ ~IsImport(r)
  BY <1>0, <1>2 DEF ReplayedOf, IsImport
<1>3. CASE (WriteTmp(r) \/ Rename(r)) /\ IsImport(r)
  <2>1. db' = db /\ blurred' = blurred
    BY <1>3 DEF WriteTmp, Rename, ghost
  <2>2. /\ at[r] \in {"write", "rename"} /\ at'[r] \in {"rename", "replay"} /\ Same(r)
    BY <1>3, WriteStep, RenameStep
  <2>3. QED
    BY <1>0, <2>1, <2>2, ReplayedStill DEF Same
<1>4. CASE DumpFails(r) \/ RemovePath(r) \/ ReplayFails(r)
  BY <1>4, DumpFailsStep, RemoveStep, ReplayFailsStep DEF ReplayedOf, Ended
<1>5. CASE Scan(r) \/ Answer(r)
  BY <1>5, ScanStep, AnswerStep DEF ReplayedOf, Ended
<1>6. ASSUME NEW n \in Name, CleanOne(r, n) PROVE ReplayedOf(r)'
  BY <1>6, CleanStep DEF ReplayedOf
<1>7. CASE Stat(r)
  <2>1. at[r] = "stat" /\ blurred' = blurred
    BY <1>7 DEF Stat, ghost
  <2>2. QED
    BY <1>0, <2>1 DEF ReplayedOf, IsImport
<1>8. QED
  BY <1>1, <1>2, <1>3, <1>4, <1>5, <1>6, <1>7 DEF Backing, Importing, Cleaning

LEMMA ReplayedBegin ==
  ASSUME TypeOK, Replayed, NEW r \in Request, NEW kind \in {"manual", "import"},
         NEW second \in 0..MaxSecond, NEW up,
         up.script \in Seq(Statement), up.whole \in BOOLEAN, Begin(r, kind, second, up)
  PROVE  Replayed'
<1>1. db' = db /\ blurred' = blurred
  BY DEF Begin
<1>2. /\ at'[r] = "dump" /\ req'[r].next = 1
      /\ \A s \in Request \ {r} : at'[s] = at[s] /\ req'[s] = req[s]
  BY BeginStep
<1>3. ReplayedOf(r)'
  BY <1>2 DEF ReplayedOf
<1>4. ASSUME NEW s \in Request, s # r PROVE ReplayedOf(s)'
  BY <1>1, <1>2, <1>4, ReplayedParts, ReplayedStill
<1>5. QED
  BY <1>3, <1>4 DEF Replayed, ReplayedOf

LEMMA ReplayedAround ==
  ASSUME TypeOK, Replayed, Around
  PROVE  Replayed'
<1>1. ASSUME NEW s \in Request PROVE ReplayedOf(s)'
  <2>1. req' = req /\ (at'[s] = at[s] \/ at'[s] \in {"failed", "done"})
    BY AroundStep
  <2>2. CASE \E t \in Table : AppWrites(t)
    <3>1. at' = at /\ (IsImport(s) /\ at[s] # "done" => s \in blurred')
      BY <2>2 DEF AppWrites, Blur
    <3>2. QED
      BY <2>1, <3>1 DEF ReplayedOf, IsImport
  <2>3. CASE ~(\E t \in Table : AppWrites(t))
    <3>1. db' = db /\ blurred' = blurred
      BY <2>3 DEF Around, DeleteBackup, DownloadBackup, TakeFile, Export, Restart, vars, ghost
    <3>2. ReplayedOf(s)
      BY ReplayedParts
    <3>3. QED
      BY <2>1, <3>1, <3>2, ReplayedStill
  <2>4. QED
    BY <2>2, <2>3
<1>2. QED
  BY <1>1 DEF Replayed, ReplayedOf

LEMMA ReplayedStep == TypeOK /\ Named /\ Scripts /\ Replayed /\ [Next]_vars => Replayed'
<1> SUFFICES ASSUME TypeOK, Named, Scripts, Replayed, [Next]_vars PROVE Replayed'
  OBVIOUS
<1>1. ASSUME NEW r \in Request, NEW second \in 0..MaxSecond,
             StartBackup(r, second) \/ StartImport(r, second)
      PROVE  Replayed'
  BY <1>1, Beginning, ReplayedBegin
<1>2. ASSUME NEW r \in Request, Backing(r) \/ Importing(r) \/ Cleaning(r) PROVE Replayed'
  <2>1. \A s \in Request : ReplayedOf(s)'
    BY <1>2, ReplayedOther, ReplayedRequest
  <2>2. QED
    BY <2>1 DEF Replayed, ReplayedOf
<1>3. CASE Around
  BY <1>3, ReplayedAround
<1>4. QED
  BY <1>1, <1>2, <1>3, Steps
-----------------------------------------------------------------------------
(* The invariant.                                                          *)

LEMMA InitFiles ==
  ASSUME Init
  PROVE  TypeOK /\ Dated /\ Scripts
<1> DEFINE f == [script |-> Dump(Fresh), key |-> Plain, time |-> 0]
<1>1. Dump(Fresh) \in Seq(Statement) /\ Proper(Dump(Fresh))
  BY FreshType, DumpType
<1>2. Plain \in Plain..Torn /\ 1 \in 1..MaxKey
  BY Bounds DEF Plain, Torn
<1>3. f \in File /\ f.key = Plain /\ f.time = 0 /\ Proper(f.script)
  BY <1>1, <1>2 DEF File
<1>4. dir = [n \in {Legacy} |-> f]
  BY DEF Init, Legacy
<1> HIDE DEF f
<1>5. Legacy \in Name /\ Legacy[1] = "legacy"
  BY NoLocalType, Bounds DEF Legacy, Name
<1>6. DOMAIN dir = {Legacy} /\ dir[Legacy] = f
  BY <1>4
<1>7. tmp = <<>> /\ DOMAIN tmp = {}
  BY DEF Init
<1>8. made = [n \in {Legacy} |-> 0] /\ DOMAIN made = {Legacy} /\ made[Legacy] = 0
  BY <1>6 DEF Init
<1>9. Partial(dir, Name, File) /\ Partial(tmp, Name, File) /\ Partial(made, Name, Nat)
  BY <1>3, <1>5, <1>6, <1>7, <1>8 DEF Partial
<1>10. \A n \in DOMAIN dir : (dir[n].key = Plain) <=> (n[1] = "legacy")
  BY <1>3, <1>5, <1>6
<1>11. copy = NoCopy
  BY DEF Init
<1>12. copy \in [script : Seq(Statement), key : Plain..Torn, whole : BOOLEAN] /\ copy.script = <<>>
  BY <1>2, <1>11 DEF NoCopy
<1>13. at \in [Request -> Label] /\ req \in [Request -> Local]
  BY NoLocalType DEF Init, Label
<1>14. TypeOK
  BY <1>2, <1>9, <1>10, <1>12, <1>13, FreshType DEF Init, TypeOK
<1>15. IsFiniteSet(DOMAIN made)
  BY <1>8, FS_Singleton
<1>16. clock = 0
  BY DEF Init
<1>17. Dated
  BY <1>3, <1>6, <1>7, <1>8, <1>15, <1>16 DEF Dated
<1>18. \A r \in Request : Proper(req[r].upload)
  <2>1. \A r \in Request : req[r] = NoLocal
    BY DEF Init
  <2>2. QED
    BY <2>1, NoLocalType, EmptyProper
<1>19. Scripts
  BY <1>3, <1>6, <1>7, <1>12, <1>18, EmptyProper DEF Scripts
<1>20. QED
  BY <1>14, <1>17, <1>19

LEMMA InitIInv == Init => IInv
<1> SUFFICES ASSUME Init PROVE IInv
  OBVIOUS
<1>1. /\ \A r \in Request : at[r] = "idle" /\ req[r] = NoLocal
      /\ spoiled = {} /\ DOMAIN tmp = {}
  BY DEF Init
<1>2. DOMAIN dir = {Legacy} /\ DOMAIN made = {Legacy}
  BY DEF Init, Legacy
<1>3. \A r \in Request : req[r].doomed = {} /\ ~IsImport(r)
  BY <1>1, NoLocalType DEF IsImport, Legacy
<1>4. Named
  BY <1>1, <1>2 DEF Named, Begun
<1>5. Unfinished
  BY <1>1 DEF Unfinished
<1>6. Kept
  BY <1>2, <1>3 DEF Kept
<1>7. Covered
  BY <1>3 DEF Covered
<1>8. Replayed
  BY <1>3 DEF Replayed
<1>9. QED
  BY <1>4, <1>5, <1>6, <1>7, <1>8, InitFiles DEF IInv

LEMMA NextIInv == IInv /\ [Next]_vars => IInv'
<1> SUFFICES ASSUME IInv, [Next]_vars PROVE IInv'
  OBVIOUS
<1>1. TypeOK' /\ Named'
  BY TypeStep, NamedStep DEF IInv
<1>2. Unfinished' /\ Dated'
  BY UnfinishedStep, DatedStep DEF IInv
<1>3. Kept'
  BY <1>1, <1>2, KeptStep DEF IInv
<1>4. Covered' /\ Scripts' /\ Replayed'
  BY CoveredStep, ScriptsStep, ReplayedStep DEF IInv
<1>5. QED
  BY <1>1, <1>2, <1>3, <1>4 DEF IInv

(* The inductive invariant holds in every state of Spec. *)
THEOREM Invariance == Spec => []IInv
BY InitIInv, NextIInv, PTL DEF Spec

(* Files, scripts, the requests of db.go and the keys of db_crypto.go keep  *)
(* their types, whatever overlaps, fails or restarts.                       *)
THEOREM TypeCorrect == Spec => []TypeOK
<1>1. IInv => TypeOK
  BY DEF IInv
<1>2. QED
  BY <1>1, Invariance, PTL

(* Before an import replays, the dump of the database as it was stands in   *)
(* the directory, readable by the running server as long as psql runs and   *)
(* ever after with a configured key (db.go:406-420), and the newest         *)
(* maxBackups files are never cleaned up (db.go:307-327).                   *)
THEOREM SafetyNetHolds == Spec => []SafetyNet
<1>1. IInv => NewestKept
  <2> SUFFICES ASSUME IInv, NEW n \in DOMAIN made \ spoiled,
                      Cardinality({m \in DOMAIN made : made[m] > made[n]}) < Keep
               PROVE  n \in DOMAIN dir
    BY DEF NewestKept
  <2>1. Cardinality(Later(n)) < Keep
    BY DEF Later
  <2>2. Dated
    BY DEF IInv
  <2>3. ~(Cardinality(Later(n)) >= Keep)
    BY <2>1, <2>2, LaterCounted
  <2>4. QED
    BY <2>3 DEF IInv, Kept
<1>2. IInv => ImportsCovered
  <2> SUFFICES ASSUME IInv, NEW r \in Request, IsImport(r), at[r] \in {"replay", "failed"},
                      req[r].name \notin spoiled
               PROVE  /\ req[r].name \in DOMAIN made
                      /\ at[r] = "replay" /\ req[r].next = 1 /\ r \notin blurred => db = req[r].before
                      /\ req[r].name \in DOMAIN dir =>
                            /\ dir[req[r].name].script = Dump(req[r].before)
                            /\ at[r] = "replay" \/ keySet => dir[req[r].name].key = key
    BY DEF ImportsCovered
  <2>1. req[r].name \in DOMAIN made /\ (req[r].name \in DOMAIN dir => Holds(dir[req[r].name], r))
    BY DEF IInv, Covered
  <2>2. at[r] = "replay" /\ req[r].next = 1 /\ r \notin blurred => db = req[r].before
    BY DEF IInv, Replayed
  <2>3. QED
    BY <2>1, <2>2 DEF Holds
<1>3. IInv => SafetyNet
  BY <1>1, <1>2 DEF SafetyNet
<1>4. QED
  BY <1>3, Invariance, PTL

(* psql's statement by statement replay of a whole script leaves every      *)
(* table as the script has it (db.go:422-459), if nobody else wrote.        *)
THEOREM ImportsAlwaysRestore == Spec => []ImportsRestore
<1>1. IInv => ImportsRestore
  BY DEF IInv, Replayed, ImportsRestore
<1>2. QED
  BY <1>1, Invariance, PTL
=============================================================================
