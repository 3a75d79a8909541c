------------------------------ MODULE Backups ------------------------------
(***************************************************************************)
(* Backups and imports of the database (internal/handler/db.go and         *)
(* db_crypto.go): pg_dump into an encrypted file, the retention of the     *)
(* newest files, and the replay of an uploaded script by psql, which       *)
(* commits statement by statement.  A request may be cut at any step: the  *)
(* router's 30 s timeout (cmd/golab/main.go:133) is the parent of the five *)
(* and ten minutes db.go allows, and kills pg_dump and psql.               *)
(***************************************************************************)
EXTENDS Naturals, Sequences, FiniteSets, SequencesExt

CONSTANTS
    Table,
    Request,         \* requests that back up or import, each served once
    Keep,            \* maxBackups, 20 in the code
    ListCap,         \* how many files scanBackups returns, 50 in the code
    MaxVersion, MaxSecond, MaxKey       \* bounds of a behaviour

ASSUME BackupsAssumption ==
    /\ IsFiniteSet(Table)
    /\ {Keep, ListCap, MaxVersion, MaxSecond, MaxKey} \subseteq Nat
    /\ 0 < Keep /\ 0 < MaxVersion /\ 0 < MaxKey /\ Keep < ListCap

VARIABLES
    db,          \* db[t]: the version of table t's data, 0 when t is gone
    dir,         \* the backup directory: files by name
    tmp,         \* the .tmp files by the name they are meant for
    copy,        \* the script or file the administrator holds, to upload (bound: one)
    keySet,      \* GOLAB_BACKUP_KEY is configured
    key,         \* the process's key
    clock,       \* modification times
    at, req,     \* the requests: next step and local variables
    made,        \* made[n]: modification time of every backup that was finished
    spoiled,     \* names shared by two requests, or deleted by an administrator
    blurred      \* imports since whose start someone else wrote to the database

disk == <<dir, tmp, clock>>
keys == <<keySet, key>>
ghost == <<made, spoiled, blurred>>
vars == <<db, disk, copy, keys, at, req, ghost>>

Gone == 0
Database == [Table -> 0..MaxVersion]
Statement == [op : {"drop", "load"}, table : Table, data : 1..MaxVersion]
Plain == 0                                  \* the "key" of a file in plain text
Torn == MaxKey + 1                          \* of one that was cut off: no key opens it
Name == {"manual", "import", "legacy"} \X (0..MaxSecond)
File == [script : Seq(Statement), key : Plain..Torn, time : Nat]
Local == [name : Name, upload : Seq(Statement), whole : BOOLEAN, next : Nat \ {0},
          doomed : SUBSET Name, before : Database]
Label == {"idle", "dump", "write", "rename", "remove", "stat", "replay", "scan", "clean", "failed",
          "done"}

Partial(f, D, R) == DOMAIN f \subseteq D /\ \A x \in DOMAIN f : f[x] \in R

TypeOK ==
    /\ db \in Database
    /\ Partial(dir, Name, File) /\ Partial(tmp, Name, File)
    /\ copy \in [script : Seq(Statement), key : Plain..Torn, whole : BOOLEAN]
    /\ keySet \in BOOLEAN /\ key \in 1..MaxKey /\ clock \in Nat
    /\ at \in [Request -> Label] /\ req \in [Request -> Local]
    /\ Partial(made, Name, Nat) /\ spoiled \subseteq Name /\ blurred \subseteq Request
    (* Files in plain text are older than encryption; a file is a whole dump. *)
    /\ \A n \in DOMAIN dir : (dir[n].key = Plain) <=> (n[1] = "legacy")

(* pg_dump --clean --if-exists: drop every table of the dump, then create   *)
(* and fill each.                                                           *)
Dump(data) ==
    LET tables == SetToSeq({t \in Table : data[t] # Gone}) IN
    [i \in 1..2 * Len(tables) |->
        IF i <= Len(tables) THEN [op |-> "drop", table |-> tables[i], data |-> data[tables[i]]]
        ELSE [op |-> "load", table |-> tables[i - Len(tables)], data |-> data[tables[i - Len(tables)]]]]

Without(f, x) == [y \in DOMAIN f \ {x} |-> f[y]]
With(f, x, v) == [y \in DOMAIN f \cup {x} |-> IF y = x THEN v ELSE f[y]]

Fresh == [t \in Table |-> 1]
NoCopy == [script |-> <<>>, key |-> Plain, whole |-> TRUE]
NoLocal ==
    [name |-> <<"legacy", 0>>, upload |-> <<>>, whole |-> TRUE, next |-> 1,
     doomed |-> {}, before |-> Fresh]

(* The directory has one file, from before encryption. *)
Init ==
    /\ db = Fresh
    /\ dir = [n \in {<<"legacy", 0>>} |-> [script |-> Dump(Fresh), key |-> Plain, time |-> 0]]
    /\ tmp = <<>> /\ copy = NoCopy /\ keySet \in BOOLEAN /\ key = 1 /\ clock = 0
    /\ at = [r \in Request |-> "idle"] /\ req = [r \in Request |-> NoLocal]
    /\ made = [n \in DOMAIN dir |-> 0] /\ spoiled = {} /\ blurred = {}

Active(r) == at[r] \notin {"idle", "failed", "done"}
IsImport(r) == req[r].name[1] = "import"
-----------------------------------------------------------------------------
(* What surrounds the requests. *)

Blur(writers) ==
    blurred' = blurred \cup {s \in Request \ writers : IsImport(s) /\ at[s] # "done"}

AppWrites(t) ==
    /\ db[t] # Gone /\ \A u \in Table : db[u] < MaxVersion
    /\ db' = [db EXCEPT ![t] = @ + 1]
    /\ Blur({})
    /\ UNCHANGED <<disk, copy, keys, at, req, made, spoiled>>

(* The server stops with its pg_dump and psql, and starts again: without a *)
(* configured key NewBackupCrypto makes a new one.                         *)
Restart ==
    /\ key' = IF keySet THEN key ELSE key + 1
    /\ key' <= MaxKey
    /\ at' = [r \in Request |-> IF at[r] = "replay" THEN "failed"
                                ELSE IF Active(r) THEN "done" ELSE at[r]]
    /\ UNCHANGED <<db, disk, copy, keySet, req, ghost>>

(* DeleteBackup. *)
DeleteBackup(n) ==
    /\ n \in DOMAIN dir
    /\ dir' = Without(dir, n) /\ spoiled' = spoiled \cup ({n} \cap DOMAIN made)
    /\ UNCHANGED <<db, tmp, clock, copy, keys, at, req, made, blurred>>

(* Export streams the dump: when pg_dump is killed the answer ends early   *)
(* but well-formed, so a prefix looks like a whole file.                   *)
Export ==
    /\ copy = NoCopy
    /\ \E n \in 0..Len(Dump(db)) :
          copy' = [script |-> SubSeq(Dump(db), 1, n), key |-> Plain, whole |-> n = Len(Dump(db))]
    /\ UNCHANGED <<db, disk, keys, at, req, ghost>>

(* BackupCrypto seals with the process's key; what it opens was sealed with *)
(* that key, or is in plain text.                                           *)
Encrypted(script, time) == [script |-> script, key |-> key, time |-> time]
Opens(k) == k \in {Plain, key}

(* DownloadBackup decrypts the file. *)
DownloadBackup(n) ==
    /\ copy = NoCopy /\ n \in DOMAIN dir /\ Opens(dir[n].key)
    /\ copy' = [script |-> dir[n].script, key |-> Plain, whole |-> TRUE]
    /\ UNCHANGED <<db, disk, keys, at, req, ghost>>

(* An operator takes the file itself from the volume. *)
TakeFile(n) ==
    /\ copy = NoCopy /\ n \in DOMAIN dir
    /\ copy' = [script |-> dir[n].script, key |-> dir[n].key, whole |-> TRUE]
    /\ UNCHANGED <<db, disk, keys, at, req, ghost>>
-----------------------------------------------------------------------------
(* The requests. *)

(* A request that is done is remembered by its name only. *)
Goto(r, to, local) ==
    /\ at' = [at EXCEPT ![r] = to]
    /\ req' = [req EXCEPT ![r] = IF to = "done" THEN [NoLocal EXCEPT !.name = local.name] ELSE local]

(* Names have the second of the request: two in one second share the path. *)
Begin(r, kind, second, upload) ==
    LET name == <<kind, second>> IN
    /\ at[r] = "idle" /\ \A s \in Request : at[s] # "idle" => req[s].name[2] <= second
    /\ Goto(r, "dump", [NoLocal EXCEPT !.name = name, !.upload = upload.script,
                                       !.whole = upload.whole])
    /\ spoiled' = IF \E s \in Request : at[s] # "idle" /\ req[s].name = name
                  THEN spoiled \cup {name} ELSE spoiled
    /\ UNCHANGED <<db, disk, copy, keys, made, blurred>>

StartBackup(r, second) == Begin(r, "manual", second, NoCopy)

(* Import decrypts the upload first: a wrong key ends it here. *)
StartImport(r, second) ==
    copy # NoCopy /\ Opens(copy.key) /\ Begin(r, "import", second, copy)

RunDump(r) ==
    /\ at[r] = "dump"
    /\ Goto(r, "write", [req[r] EXCEPT !.before = db])
    /\ UNCHANGED <<db, disk, copy, keys, ghost>>

(* Mutant: the dump is written without Encrypt. *)
WritePlain(r) ==
    /\ at[r] = "write"
    /\ clock' = clock + 1
    /\ tmp' = With(tmp, req[r].name, [script |-> Dump(req[r].before), key |-> Plain, time |-> clock + 1])
    /\ Goto(r, "rename", IF IsImport(r) THEN req[r] ELSE [NoLocal EXCEPT !.name = req[r].name])
    /\ UNCHANGED <<db, dir, copy, keys, ghost>>

WriteTmp(r) ==
    /\ at[r] = "write"
    /\ clock' = clock + 1
    /\ tmp' = With(tmp, req[r].name, Encrypted(Dump(req[r].before), clock + 1))
    /\ Goto(r, "rename", IF IsImport(r) THEN req[r] ELSE [NoLocal EXCEPT !.name = req[r].name])
    /\ UNCHANGED <<db, dir, copy, keys, ghost>>

(* The rename fails when a request of the same second took the .tmp file. *)
Rename(r) ==
    LET n == req[r].name IN
    /\ at[r] = "rename" /\ n \in DOMAIN tmp
    /\ dir' = With(dir, n, tmp[n]) /\ tmp' = Without(tmp, n)
    /\ made' = With(made, n, tmp[n].time)
    /\ Goto(r, IF IsImport(r) THEN "replay" ELSE "stat", req[r])
    /\ UNCHANGED <<db, clock, copy, keys, spoiled, blurred>>

(* Mutant: an import goes on without its backup. *)
DumpIgnored(r) ==
    /\ at[r] \in {"dump", "write", "rename"}
    /\ tmp' = IF at[r] = "rename" THEN Without(tmp, req[r].name) ELSE tmp
    /\ Goto(r, IF IsImport(r) THEN "replay" ELSE "remove", req[r])
    /\ UNCHANGED <<db, dir, clock, copy, keys, ghost>>

(* pg_dump, the write or the rename fails, or the context is over: a failed *)
(* write may leave part of its file, a failed rename removes the file.      *)
DumpFails(r) ==
    /\ \/ at[r] \in {"dump", "write"} /\ UNCHANGED <<tmp, clock>>
       \/ /\ at[r] = "write" /\ clock' = clock + 1
          /\ tmp' = With(tmp, req[r].name, [script |-> <<>>, key |-> Torn, time |-> clock + 1])
       \/ at[r] = "rename" /\ tmp' = Without(tmp, req[r].name) /\ UNCHANGED clock
    /\ Goto(r, "remove", req[r])
    /\ UNCHANGED <<db, dir, copy, keys, ghost>>

(* The handler removes what it takes for its own half-written file. *)
RemovePath(r) ==
    /\ at[r] = "remove"
    /\ dir' = Without(dir, req[r].name)
    /\ Goto(r, "done", req[r])
    /\ UNCHANGED <<db, tmp, clock, copy, keys, ghost>>

Stat(r) ==
    /\ at[r] = "stat"
    /\ Goto(r, IF req[r].name \in DOMAIN dir THEN "scan" ELSE "done", req[r])
    /\ UNCHANGED <<db, disk, copy, keys, ghost>>

(* One statement of the upload; CREATE TABLE fails if the table is there. *)
Executes(s) == s.op = "drop" \/ db[s.table] = Gone
Replay(r) ==
    LET s == req[r].upload[req[r].next] IN
    /\ at[r] = "replay" /\ req[r].next <= Len(req[r].upload) /\ Executes(s)
    /\ db' = [db EXCEPT ![s.table] = IF s.op = "drop" THEN Gone ELSE s.data]
    /\ Goto(r, "replay", [req[r] EXCEPT !.next = @ + 1])
    /\ Blur({r})
    /\ UNCHANGED <<disk, copy, keys, made, spoiled>>

(* Mutant: the exit status of psql is ignored. *)
ReplayIgnored(r) ==
    /\ at[r] = "replay"
    /\ Goto(r, "scan", req[r])
    /\ UNCHANGED <<db, disk, copy, keys, ghost>>

(* ON_ERROR_STOP: psql ends at the first error; it may also be killed. *)
ReplayFails(r) ==
    /\ at[r] = "replay"
    /\ Goto(r, "failed", req[r])
    /\ UNCHANGED <<db, disk, copy, keys, ghost>>

ReplayEnds(r) ==
    /\ at[r] = "replay" /\ req[r].next > Len(req[r].upload)
    /\ Goto(r, "scan", req[r])
    /\ UNCHANGED <<db, disk, copy, keys, ghost>>

(* scanBackups: the newest files first, no more than ListCap. *)
Newer(n) == {m \in DOMAIN dir : dir[m].time > dir[n].time}
Ranked(low, high) == {n \in DOMAIN dir : Cardinality(Newer(n)) \in low..high - 1}

Scan(r) ==
    /\ at[r] = "scan"
    /\ Goto(r, "clean", [NoLocal EXCEPT !.name = req[r].name, !.doomed = Ranked(Keep, ListCap)])
    /\ UNCHANGED <<db, disk, copy, keys, ghost>>

(* cleanupOld removes one of the files past maxBackups; one that is gone, or *)
(* cannot be removed, is skipped.                                            *)
CleanOne(r, n) ==
    /\ at[r] = "clean" /\ n \in req[r].doomed
    /\ dir' \in {dir, Without(dir, n)}
    /\ Goto(r, "clean", [req[r] EXCEPT !.doomed = @ \ {n}])
    /\ UNCHANGED <<db, tmp, clock, copy, keys, ghost>>

Answer(r) ==
    /\ at[r] = "clean" /\ req[r].doomed = {}
    /\ Goto(r, "done", req[r])
    /\ UNCHANGED <<db, disk, copy, keys, ghost>>

Backing(r) ==
    \/ RunDump(r) \/ WriteTmp(r) \/ Rename(r) \/ DumpFails(r) \/ RemovePath(r) \/ Stat(r)
Importing(r) == Replay(r) \/ ReplayFails(r) \/ ReplayEnds(r)
Cleaning(r) == Scan(r) \/ (\E n \in Name : CleanOne(r, n)) \/ Answer(r)

Next ==
    \/ \E r \in Request :
        \/ \E second \in 0..MaxSecond : StartBackup(r, second) \/ StartImport(r, second)
        \/ Backing(r) \/ Importing(r) \/ Cleaning(r)
    \/ \E n \in Name : DeleteBackup(n) \/ DownloadBackup(n) \/ TakeFile(n)
    \/ \E t \in Table : AppWrites(t)
    \/ Export \/ Restart

Spec == Init /\ [][Next]_vars
-----------------------------------------------------------------------------
(* An import never replays without a known-good safety net (db.go:406-420): *)
(* the dump of the database as it was before is in the directory, readable  *)
(* by the running server as long as psql runs, and ever after with a        *)
(* configured key; and the newest maxBackups files stay, whatever overlaps, *)
(* fails or restarts (db.go:307-327), except names that were deleted, or    *)
(* shared by two requests of one second.                                    *)
NewestKept ==
    \A n \in DOMAIN made \ spoiled :
        Cardinality({m \in DOMAIN made : made[m] > made[n]}) < Keep => n \in DOMAIN dir

ImportsCovered ==
    \A r \in Request : IsImport(r) /\ at[r] \in {"replay", "failed"} /\ req[r].name \notin spoiled =>
        /\ req[r].name \in DOMAIN made
        /\ at[r] = "replay" /\ req[r].next = 1 /\ r \notin blurred => db = req[r].before
        /\ req[r].name \in DOMAIN dir =>
              /\ dir[req[r].name].script = Dump(req[r].before)
              /\ at[r] = "replay" \/ keySet => dir[req[r].name].key = key

SafetyNet == NewestKept /\ ImportsCovered

(* The database after a whole upload into the one there was. *)
Target(r) ==
    [t \in Table |->
        LET loads == {i \in DOMAIN req[r].upload : req[r].upload[i].op = "load"
                                                   /\ req[r].upload[i].table = t} IN
        IF loads = {} THEN req[r].before[t] ELSE req[r].upload[CHOOSE i \in loads : TRUE].data]

(* An import answered as imported has restored every table of its upload,   *)
(* unless something else wrote meanwhile, or the upload was an export that  *)
(* was cut short (db.go:422-459).                                           *)
ImportsRestore ==
    \A r \in Request \ blurred :
        IsImport(r) /\ at[r] = "scan" /\ req[r].whole => db = Target(r)

(* "--set ON_ERROR_STOP=1 aborts the whole file on the first error,         *)
(* avoiding partial imports" (db.go:423-424): a failed import leaves the    *)
(* database as it was.                                                      *)
NoPartialImport ==
    \A r \in Request \ blurred :
        at[r] = "failed" => db \in {req[r].before, Target(r)}
=============================================================================
