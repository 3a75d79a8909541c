-------------------------- MODULE ReactionsProofs --------------------------
(***************************************************************************)
(* Proofs about Reactions.  The invariant says what an unfinished request  *)
(* has seen or still owes when nothing, or only what is allowed, disturbs  *)
(* it.                                                                     *)
(***************************************************************************)
EXTENDS Reactions, FiniteSetTheorems, SequenceTheorems, TLAPS

(* Only finitely many requests are under way, and only one that added a    *)
(* reaction gets as far as the notification; Unreact adds none.            *)
Busy == {r \in Request : Active(r)}
Tagged(r) ==
    /\ at[r] \in {"recent", "note"} => req[r].result = "added"
    /\ at[r] = "delete all" => req[r].result = ""
Typed ==
    /\ TypeOK /\ IsFiniteSet(rows) /\ IsFiniteSet(Busy)
    /\ \A r \in Request : Tagged(r)

(* While the recount is sure the cached count is right, and so is what any  *)
(* request is about to write; the same holds of a request alone.           *)
Recounted ==
    /\ \A r \in alone : Active(r) => Busy = {r}
    /\ sure /\ post => count = Cardinality(rows)
    /\ \A r \in Request : at[r] = "write" /\ post /\ (sure \/ r \in alone) =>
          req[r].seen = Cardinality(rows)

(* Requests that added a reaction and have not told the author.            *)
NotesBy(u) == {i \in DOMAIN notes : notes[i].actor = u}
Owed(u) ==
    {r \in Request : at[r] \in {"snapshot", "write", "recent", "note"}
                     /\ req[r].result = "added" /\ req[r].user = u}
Backed == \A u \in User : Cardinality(NotesBy(u)) + Cardinality(Owed(u)) <= added[u]

(* A user whose requests have not overlapped has one under way, and no note *)
(* of the last minute when it is about to write one.                        *)
Spaced ==
    \A u \in User \ rough :
        /\ \A r, s \in Busy : req[r].user = u /\ req[s].user = u => r = s
        /\ \A r \in Request : at[r] = "note" /\ req[r].user = u => Fresh(u) = {}
        /\ Cardinality(Fresh(u)) <= 1

(* What is on its way to the browser is the number of unread notes, and so *)
(* is the badge when nothing is on its way.                                *)
Unpushed == \E r \in Request : at[r] \in {"unread", "push"}
Badged ==
    ~off =>
        /\ \A r, s \in Busy : r = s
        /\ Waiting => Busy = {}
        /\ marking => Unread = 0 /\ listed = {}
        /\ listed \subseteq {Unread}
        /\ ~Waiting /\ ~Unpushed => badge = Unread
        /\ \A r \in Request : at[r] = "push" => req[r].seen = Unread

IInv == Typed /\ Recounted /\ Backed /\ Spaced /\ Badged
-----------------------------------------------------------------------------
(* Types.                                                                  *)

Note == [actor : User, fresh : BOOLEAN, read : BOOLEAN]

LEMMA NoLocalType == NoLocal \in Local /\ NoLocal.result = ""
<1>1. (CHOOSE t \in Type : TRUE) \in Type
  BY ReactionsAssumption
<1>2. QED
  BY <1>1, ReactionsAssumption DEF NoLocal, Local

(* A step of a request changes nothing of the others. *)
Moves(r) ==
    /\ at' \in [Request -> Label] /\ req' \in [Request -> Local]
    /\ \A s \in Request \ {r} : at'[s] = at[s] /\ req'[s] = req[s]

LEMMA GotoMoves ==
  ASSUME TypeOK, NEW r \in Request, NEW to \in Label \ {"idle"}, NEW local \in Local, Goto(r, to, local)
  PROVE  /\ Moves(r) /\ at'[r] = to
         /\ req'[r] = IF to = "done" THEN NoLocal ELSE local
<1>1. at' \in [Request -> Label] /\ at'[r] = to /\ \A s \in Request \ {r} : at'[s] = at[s]
  BY DEF TypeOK, Goto
<1>2. /\ req' \in [Request -> Local] /\ \A s \in Request \ {r} : req'[s] = req[s]
      /\ req'[r] = IF to = "done" THEN NoLocal ELSE local
  BY NoLocalType DEF TypeOK, Goto
<1>3. QED
  BY <1>1, <1>2 DEF Moves

LEMMA CountType == ASSUME TypeOK PROVE Unread \in Nat /\ IsFiniteSet(DOMAIN notes)
<1>1. DOMAIN notes = 1..Len(notes) /\ Len(notes) \in Nat
  BY DEF TypeOK
<1>2. IsFiniteSet(DOMAIN notes)
  BY <1>1, FS_Interval
<1>3. IsFiniteSet({i \in DOMAIN notes : ~notes[i].read})
  BY <1>2, FS_Subset
<1>4. QED
  BY <1>2, <1>3, FS_CardinalityType DEF Unread

LEMMA LocalType ==
  ASSUME TypeOK, NEW r \in Request
  PROVE  req[r].user \in User /\ req[r].type \in Type /\ req[r].seen \in Nat
<1>1. req[r] \in Local
  BY DEF TypeOK
<1>2. QED
  BY <1>1 DEF Local

(* What the author's inbox may become. *)
LEMMA NotesMapped ==
  ASSUME TypeOK, NEW F \in [DOMAIN notes -> Note]
  PROVE  [i \in DOMAIN notes |-> F[i]] \in Seq(Note)
<1>1. DOMAIN notes = 1..Len(notes) /\ Len(notes) \in Nat
  BY DEF TypeOK
<1>2. QED
  BY <1>1, SeqDef

LEMMA NotesType ==
  ASSUME TypeOK
  PROVE  /\ notes \in Seq(Note) /\ DOMAIN notes = 1..Len(notes) /\ Len(notes) \in Nat
         /\ \A i \in DOMAIN notes : notes[i] \in Note
<1>1. notes \in Seq(Note)
  BY DEF TypeOK, Note
<1> DEFINE n == Note
<1>2. notes \in Seq(n)
  BY <1>1
<1> HIDE DEF n
<1>3. /\ DOMAIN notes = 1..Len(notes) /\ Len(notes) \in Nat
      /\ \A i \in DOMAIN notes : notes[i] \in n
  BY <1>2
<1>4. QED
  BY <1>1, <1>3 DEF n

LEMMA MarkAllStep ==
  ASSUME TypeOK, MarkAllRead
  PROVE  /\ notes' \in Seq(Note) /\ DOMAIN notes' = DOMAIN notes
         /\ \A i \in DOMAIN notes : /\ notes'[i].actor = notes[i].actor
                                    /\ notes'[i].fresh = notes[i].fresh
                                    /\ notes'[i].read
<1> DEFINE F == [i \in DOMAIN notes |-> [notes[i] EXCEPT !.read = TRUE]]
<1>1. \A i \in DOMAIN notes : notes[i] \in Note
  BY NotesType
<1>2. F \in [DOMAIN notes -> Note]
  BY <1>1 DEF Note
<1>3. \A i \in DOMAIN notes : /\ F[i].actor = notes[i].actor
                              /\ F[i].fresh = notes[i].fresh
                              /\ F[i].read
  BY <1>1 DEF Note
<1>4. notes' = F
  BY DEF MarkAllRead
<1> HIDE DEF F
<1>5. F = [i \in DOMAIN notes |-> F[i]]
  BY <1>2
<1>6. F \in Seq(Note)
  BY <1>2, <1>5, NotesMapped
<1>7. QED
  BY <1>2, <1>3, <1>4, <1>6

LEMMA MarkReadStep ==
  ASSUME TypeOK, NEW j \in 1..MaxNotes, MarkRead(j)
  PROVE  /\ notes' \in Seq(Note) /\ DOMAIN notes' = DOMAIN notes
         /\ \A i \in DOMAIN notes : /\ notes'[i].actor = notes[i].actor
                                    /\ notes'[i].fresh = notes[i].fresh
<1> DEFINE F == [notes EXCEPT ![j].read = TRUE]
<1>1. (\A i \in DOMAIN notes : notes[i] \in Note) /\ j \in DOMAIN notes
  BY NotesType DEF MarkRead
<1>2. notes = [i \in DOMAIN notes |-> notes[i]]
  BY NotesType
<1>3. F \in [DOMAIN notes -> Note]
  BY <1>2, <1>1 DEF Note
<1>4. \A i \in DOMAIN notes : F[i].actor = notes[i].actor /\ F[i].fresh = notes[i].fresh
  BY <1>2, <1>1 DEF Note
<1>5. notes' = F
  BY DEF MarkRead
<1> HIDE DEF F
<1>6. F = [i \in DOMAIN notes |-> F[i]]
  BY <1>3
<1>7. F \in Seq(Note)
  BY <1>3, <1>6, NotesMapped
<1>8. QED
  BY <1>3, <1>4, <1>5, <1>7

LEMMA AgeStep ==
  ASSUME TypeOK, NEW j \in 1..MaxNotes, Age(j)
  PROVE  /\ notes' \in Seq(Note) /\ DOMAIN notes' = DOMAIN notes
         /\ \A i \in DOMAIN notes : /\ notes'[i].actor = notes[i].actor
                                    /\ notes'[i].read = notes[i].read
                                    /\ notes'[i].fresh = (notes[i].fresh /\ i # j)
<1> DEFINE F == [notes EXCEPT ![j].fresh = FALSE]
<1>1. (\A i \in DOMAIN notes : notes[i] \in Note) /\ j \in DOMAIN notes
  BY NotesType DEF Age
<1>2. notes = [i \in DOMAIN notes |-> notes[i]]
  BY NotesType
<1>3. F \in [DOMAIN notes -> Note]
  BY <1>2, <1>1 DEF Note
<1>4. \A i \in DOMAIN notes : F[i].actor = notes[i].actor /\ F[i].read = notes[i].read
  BY <1>2, <1>1 DEF Note
<1>5. \A i \in DOMAIN notes : F[i].fresh = (notes[i].fresh /\ i # j)
  <2>1. F[j].fresh = FALSE
    BY <1>2, <1>1 DEF Note
  <2>2. \A i \in DOMAIN notes \ {j} : F[i] = notes[i]
    BY <1>2, <1>1
  <2>3. \A i \in DOMAIN notes : notes[i].fresh \in BOOLEAN
    BY <1>1 DEF Note
  <2>4. QED
    BY <2>1, <2>2, <2>3
<1>6. notes' = F
  BY DEF Age
<1> HIDE DEF F
<1>7. F = [i \in DOMAIN notes |-> F[i]]
  BY <1>3
<1>8. F \in Seq(Note)
  BY <1>3, <1>7, NotesMapped
<1>9. QED
  BY <1>3, <1>4, <1>5, <1>6, <1>8

LEMMA CreateStep ==
  ASSUME TypeOK, NEW r \in Request, CreateNote(r)
  PROVE  /\ notes' \in Seq(Note) /\ Len(notes') = Len(notes) + 1
         /\ DOMAIN notes' = DOMAIN notes \cup {Len(notes) + 1}
         /\ Len(notes) + 1 \notin DOMAIN notes
         /\ \A i \in DOMAIN notes : notes'[i] = notes[i]
         /\ notes'[Len(notes) + 1] = [actor |-> req[r].user, fresh |-> TRUE, read |-> FALSE]
<1> DEFINE n == [actor |-> req[r].user, fresh |-> TRUE, read |-> FALSE]
           S == Seq(Note)
<1>1. n \in Note /\ notes' = Append(notes, n)
  BY DEF CreateNote, TypeOK, Local, Note
<1>2. notes \in S /\ DOMAIN notes = 1..Len(notes) /\ Len(notes) \in Nat
  BY NotesType
<1> HIDE DEF n
<1>3. /\ Append(notes, n) \in S /\ Len(Append(notes, n)) = Len(notes) + 1
      /\ DOMAIN Append(notes, n) = 1..Len(notes) + 1
      /\ \A i \in 1..Len(notes) : Append(notes, n)[i] = notes[i]
      /\ Append(notes, n)[Len(notes) + 1] = n
  BY <1>1, <1>2, AppendProperties
<1> HIDE DEF S
<1>4. 1..Len(notes) + 1 = 1..Len(notes) \cup {Len(notes) + 1} /\ Len(notes) + 1 \notin 1..Len(notes)
  BY <1>2
<1>5. /\ notes' \in S /\ Len(notes') = Len(notes) + 1
      /\ DOMAIN notes' = DOMAIN notes \cup {Len(notes) + 1}
      /\ Len(notes) + 1 \notin DOMAIN notes
      /\ \A i \in DOMAIN notes : notes'[i] = notes[i]
      /\ notes'[Len(notes) + 1] = n
  BY <1>1, <1>2, <1>3, <1>4
<1>6. QED
  BY <1>5 DEF S, n

Onward == {"look", "insert", "delete", "delete all", "snapshot", "write", "recent", "note",
           "unread", "push"}

LEMMA GotoOn ==
  ASSUME TypeOK, NEW r \in Request, NEW to \in Onward, NEW local \in Local, Goto(r, to, local)
  PROVE  Moves(r) /\ at'[r] = to /\ req'[r] = local
<1>1. to \in Label \ {"idle"} /\ to # "done"
  BY DEF Onward, Label
<1>2. QED
  BY <1>1, GotoMoves

LEMMA GotoDone ==
  ASSUME TypeOK, NEW r \in Request, NEW local \in Local, Goto(r, "done", local)
  PROVE  Moves(r) /\ at'[r] = "done" /\ req'[r] = NoLocal
<1>1. "done" \in Label \ {"idle"}
  BY DEF Label
<1>2. QED
  BY <1>1, GotoMoves
LEMMA NewNote ==
  ASSUME TypeOK, NEW r \in Request, CreateNote(r)
  PROVE  \E n :
           /\ DOMAIN notes' = DOMAIN notes \cup {n} /\ n \notin DOMAIN notes
           /\ \A i \in DOMAIN notes : notes'[i] = notes[i]
           /\ notes'[n] = [actor |-> req[r].user, fresh |-> TRUE, read |-> FALSE]
<1>1. WITNESS Len(notes) + 1
<1>2. QED
  BY CreateStep
-----------------------------------------------------------------------------
(* What each action does to the request that takes it.                     *)

LEMMA StartStep ==
  ASSUME TypeOK, NEW r \in Request, NEW u \in User, NEW t \in Type,
         NEW first \in {"look", "delete all"}, Start(r, u, t, first)
  PROVE  /\ Moves(r) /\ at[r] = "idle" /\ at'[r] = first
         /\ req'[r].result = "" /\ req'[r].user = u
<1> DEFINE l == [NoLocal EXCEPT !.user = u, !.type = t]
<1>1. l \in Local /\ l.result = "" /\ l.user = u
  BY NoLocalType DEF Local
<1>2. at[r] = "idle" /\ Goto(r, first, l)
  BY DEF Start
<1> HIDE DEF l
<1>3. QED
  BY <1>1, <1>2, GotoOn, GotoDone DEF Onward

LEMMA LookStep ==
  ASSUME TypeOK, NEW r \in Request, Look(r)
  PROVE  /\ Moves(r) /\ at[r] = "look" /\ at'[r] \in {"delete", "insert"} /\ req'[r] = req[r]
<1>1. PICK to \in {"delete", "insert"} : Goto(r, to, req[r])
  BY DEF Look, Step
<1>2. at[r] = "look" /\ req[r] \in Local
  BY DEF Look, Step, TypeOK
<1>3. QED
  BY <1>1, <1>2, GotoOn, GotoDone DEF Onward

LEMMA InsertStep ==
  ASSUME TypeOK, NEW r \in Request, Insert(r)
  PROVE  /\ Moves(r) /\ at[r] = "insert" /\ at'[r] = "snapshot"
         /\ req'[r].result = "added" /\ req'[r].user = req[r].user
<1> DEFINE l == [req[r] EXCEPT !.result = "added"]
<1>1. l \in Local /\ l.result = "added" /\ l.user = req[r].user
  BY DEF Local, TypeOK
<1>2. at[r] = "insert" /\ Goto(r, "snapshot", l)
  BY DEF Insert, Step
<1> HIDE DEF l
<1>3. QED
  BY <1>1, <1>2, GotoOn, GotoDone DEF Onward

LEMMA DeleteStep ==
  ASSUME TypeOK, NEW r \in Request, Delete(r)
  PROVE  /\ Moves(r) /\ at[r] = "delete" /\ at'[r] = "snapshot"
         /\ req'[r].result = "removed" /\ req'[r].user = req[r].user
<1> DEFINE l == [req[r] EXCEPT !.result = "removed"]
<1>1. l \in Local /\ l.result = "removed" /\ l.user = req[r].user
  BY DEF Local, TypeOK
<1>2. at[r] = "delete" /\ Goto(r, "snapshot", l)
  BY DEF Delete, Step
<1> HIDE DEF l
<1>3. QED
  BY <1>1, <1>2, GotoOn, GotoDone DEF Onward

LEMMA DeleteAllStep ==
  ASSUME TypeOK, NEW r \in Request, DeleteAll(r)
  PROVE  /\ Moves(r) /\ at[r] = "delete all" /\ at'[r] = "snapshot" /\ req'[r] = req[r]
<1>1. at[r] = "delete all" /\ Goto(r, "snapshot", req[r]) /\ req[r] \in Local
  BY DEF DeleteAll, Step, TypeOK
<1>2. QED
  BY <1>1, GotoOn, GotoDone DEF Onward

LEMMA SnapshotStep ==
  ASSUME TypeOK, IsFiniteSet(rows), NEW r \in Request, Snapshot(r)
  PROVE  /\ Moves(r) /\ at[r] = "snapshot" /\ at'[r] = "write"
         /\ req'[r].result = req[r].result /\ req'[r].user = req[r].user
         /\ req'[r].seen = Cardinality(rows)
<1> DEFINE l == [req[r] EXCEPT !.seen = Cardinality(rows)]
<1>0. Cardinality(rows) \in Nat
  BY FS_CardinalityType
<1>1. /\ l \in Local /\ l.result = req[r].result /\ l.user = req[r].user
      /\ l.seen = Cardinality(rows)
  BY <1>0 DEF Local, TypeOK
<1>2. at[r] = "snapshot" /\ Goto(r, "write", l)
  BY DEF Snapshot, Step
<1> HIDE DEF l
<1>3. QED
  BY <1>1, <1>2, GotoOn, GotoDone DEF Onward

LEMMA WriteStep ==
  ASSUME TypeOK, NEW r \in Request, Write(r)
  PROVE  /\ Moves(r) /\ at[r] = "write"
         /\ \/ at'[r] = "done" /\ req'[r] = NoLocal
            \/ at'[r] = "recent" /\ req'[r] = req[r] /\ req[r].result = "added"
<1>1. /\ at[r] = "write" /\ req[r] \in Local
      /\ \/ Goto(r, "done", req[r])
         \/ Goto(r, "recent", req[r]) /\ req[r].result = "added"
  BY DEF Write, Step, TypeOK
<1>2. QED
  BY <1>1, GotoOn, GotoDone DEF Onward

LEMMA RecentStep ==
  ASSUME TypeOK, NEW r \in Request, CheckRecent(r)
  PROVE  /\ Moves(r) /\ at[r] = "recent"
         /\ \/ at'[r] = "done" /\ req'[r] = NoLocal
            \/ at'[r] = "note" /\ req'[r] = req[r] /\ Fresh(req[r].user) = {}
<1>1. /\ at[r] = "recent" /\ req[r] \in Local
      /\ \/ Goto(r, "done", req[r])
         \/ Goto(r, "note", req[r]) /\ Fresh(req[r].user) = {}
  BY DEF CheckRecent, Step, TypeOK
<1>2. QED
  BY <1>1, GotoOn, GotoDone DEF Onward

LEMMA NoteStep ==
  ASSUME TypeOK, NEW r \in Request, CreateNote(r)
  PROVE  /\ Moves(r) /\ at[r] = "note" /\ at'[r] = "unread" /\ req'[r] = req[r]
<1>1. at[r] = "note" /\ Goto(r, "unread", req[r]) /\ req[r] \in Local
  BY DEF CreateNote, Step, TypeOK
<1>2. QED
  BY <1>1, GotoOn, GotoDone DEF Onward

LEMMA CountStep ==
  ASSUME TypeOK, NEW r \in Request, CountUnread(r)
  PROVE  /\ Moves(r) /\ at[r] = "unread" /\ at'[r] = "push"
         /\ req'[r].seen = Unread /\ req'[r].user = req[r].user
<1> DEFINE l == [req[r] EXCEPT !.seen = Unread]
<1>1. l \in Local /\ l.seen = Unread /\ l.user = req[r].user
  BY CountType DEF Local, TypeOK
<1>2. at[r] = "unread" /\ Goto(r, "push", l)
  BY DEF CountUnread, Step
<1> HIDE DEF l
<1>3. QED
  BY <1>1, <1>2, GotoOn, GotoDone DEF Onward

LEMMA PushStep ==
  ASSUME TypeOK, NEW r \in Request, Push(r)
  PROVE  Moves(r) /\ at[r] = "push" /\ at'[r] = "done" /\ req'[r] = NoLocal
<1>1. at[r] = "push" /\ Goto(r, "done", req[r]) /\ req[r] \in Local
  BY DEF Push, TypeOK
<1>2. QED
  BY <1>1, GotoOn, GotoDone DEF Onward

LEMMA FailStep ==
  ASSUME TypeOK, NEW r \in Request, Fail(r)
  PROVE  /\ Moves(r) /\ Active(r) /\ at[r] # "push"
         /\ \/ at[r] = "unread" /\ at'[r] = "push" /\ req'[r].user = req[r].user
            \/ at[r] = "recent" /\ at'[r] = "note" /\ req'[r] = req[r]
            \/ at[r] # "unread" /\ at'[r] = "done" /\ req'[r] = NoLocal
<1> DEFINE l == [req[r] EXCEPT !.seen = 0]
<1>1. l \in Local /\ l.user = req[r].user /\ req[r] \in Local
  BY DEF Local, TypeOK
<1>2. \/ at[r] = "unread" /\ Goto(r, "push", l)
      \/ at[r] = "recent" /\ Goto(r, "note", req[r])
      \/ Active(r) /\ at[r] \notin {"unread", "push"} /\ Goto(r, "done", req[r])
  BY DEF Fail
<1> HIDE DEF l
<1>3. Active(r) /\ at[r] # "push"
  BY <1>2 DEF Active
<1>4. CASE at[r] = "unread" /\ Goto(r, "push", l)
  BY <1>1, <1>3, <1>4, GotoOn DEF Onward
<1>5. CASE at[r] = "recent" /\ Goto(r, "note", req[r])
  BY <1>1, <1>3, <1>5, GotoOn DEF Onward
<1>6. CASE at[r] # "unread" /\ Goto(r, "done", req[r])
  BY <1>1, <1>3, <1>6, GotoDone
<1>7. QED
  BY <1>2, <1>4, <1>5, <1>6
-----------------------------------------------------------------------------
(* Typed is preserved.                                                     *)

Kept == at' = at /\ req' = req

LEMMA BusyMoves ==
  ASSUME Typed, NEW r \in Request, Moves(r)
  PROVE  IsFiniteSet(Busy')
<1>1. Busy' \subseteq Busy \cup {r}
  BY DEF Busy, Moves, Active
<1>2. IsFiniteSet(Busy \cup {r})
  BY FS_AddElement DEF Typed
<1>3. QED
  BY <1>1, <1>2, FS_Subset

LEMMA TypedMoves ==
  ASSUME Typed, NEW r \in Request, Moves(r),
         Tagged(r)',
         /\ post' \in BOOLEAN
         /\ rows' \subseteq User \X Type /\ IsFiniteSet(rows')
         /\ count' \in Nat /\ badge' \in Nat
         /\ notes' \in Seq(Note)
         /\ marking' \in BOOLEAN /\ listed' \subseteq Nat
         /\ added' \in [User -> Nat]
         /\ alone' \subseteq Request
         /\ sure' \in BOOLEAN /\ rough' \subseteq User /\ off' \in BOOLEAN
  PROVE  Typed'
<1>1. IsFiniteSet(Busy')
  BY BusyMoves
<1>2. at' \in [Request -> Label] /\ req' \in [Request -> Local]
  BY DEF Moves, Typed, TypeOK
<1>3. \A s \in Request : Tagged(s)'
  BY DEF Moves, Typed, Tagged
<1>4. TypeOK'
  BY <1>2 DEF TypeOK, Note
<1>5. QED
  BY <1>1, <1>3, <1>4 DEF Typed

LEMMA TypedKept ==
  ASSUME Typed, Kept,
         /\ post' \in BOOLEAN
         /\ rows' \subseteq User \X Type /\ IsFiniteSet(rows')
         /\ count' \in Nat /\ badge' \in Nat
         /\ notes' \in Seq(Note)
         /\ marking' \in BOOLEAN /\ listed' \subseteq Nat
         /\ added' \in [User -> Nat]
         /\ alone' \subseteq Request
         /\ sure' \in BOOLEAN /\ rough' \subseteq User /\ off' \in BOOLEAN
  PROVE  Typed'
<1>1. IsFiniteSet(Busy')
  BY DEF Kept, Busy, Active, Typed
<1>2. TypeOK'
  BY DEF Kept, TypeOK, Note, Typed
<1>3. QED
  BY <1>1, <1>2 DEF Kept, Typed, Active, Tagged

LEMMA TypedServe ==
  ASSUME Typed, NEW r \in Request, Serve(r)
  PROVE  Typed'
<1> USE DEF Typed
<1>0. notes \in Seq(Note)
  BY NotesType
<1>1. CASE Look(r)
  <2>1. Moves(r) /\ Tagged(r)'
    BY <1>1, LookStep DEF Tagged
  <2>2. QED
    BY <1>0, <1>1, <2>1, TypedMoves DEF Look, table, inbox, ghost, TypeOK
<1>2. CASE Insert(r)
  <2>1. Moves(r) /\ Tagged(r)'
    BY <1>2, InsertStep DEF Tagged
  <2>2. rows' = rows \cup {<<req[r].user, req[r].type>>}
        /\ added' = [added EXCEPT ![req[r].user] = @ + 1]
    BY <1>2 DEF Insert
  <2>3. IsFiniteSet(rows')
    BY <2>2, FS_AddElement
  <2>4. rows' \subseteq User \X Type
    BY <2>2, LocalType DEF TypeOK
  <2>5. added' \in [User -> Nat]
    BY <2>2, LocalType DEF TypeOK
  <2>6. QED
    BY <1>0, <1>2, <2>1, <2>3, <2>4, <2>5, TypedMoves DEF Insert, inbox, TypeOK
<1>3. CASE Delete(r)
  <2>1. Moves(r) /\ Tagged(r)'
    BY <1>3, DeleteStep DEF Tagged
  <2>2. IsFiniteSet(rows') /\ rows' \subseteq User \X Type
    BY <1>3, FS_RemoveElement DEF Delete, TypeOK
  <2>3. QED
    BY <1>0, <1>3, <2>1, <2>2, TypedMoves DEF Delete, inbox, TypeOK
<1>4. CASE DeleteAll(r)
  <2>1. Moves(r) /\ Tagged(r)'
    BY <1>4, DeleteAllStep DEF Tagged
  <2>2. IsFiniteSet(rows') /\ rows' \subseteq User \X Type
    BY <1>4, FS_Subset DEF DeleteAll, TypeOK
  <2>3. QED
    BY <1>0, <1>4, <2>1, <2>2, TypedMoves DEF DeleteAll, inbox, TypeOK
<1>5. CASE Snapshot(r)
  <2>1. Moves(r) /\ Tagged(r)'
    BY <1>5, SnapshotStep DEF Tagged
  <2>2. QED
    BY <1>0, <1>5, <2>1, TypedMoves DEF Snapshot, table, inbox, ghost, TypeOK
<1>6. CASE Write(r)
  <2>1. Moves(r) /\ Tagged(r)'
    BY <1>6, WriteStep DEF Tagged
  <2>2. count' \in Nat
    BY <1>6 DEF Write, TypeOK, Local
  <2>3. QED
    BY <1>0, <1>6, <2>1, <2>2, TypedMoves DEF Write, inbox, TypeOK
<1>7. CASE CheckRecent(r)
  <2>1. Moves(r) /\ Tagged(r)'
    BY <1>7, RecentStep DEF Tagged
  <2>2. QED
    BY <1>0, <1>7, <2>1, TypedMoves DEF CheckRecent, table, inbox, ghost, TypeOK
<1>8. CASE CreateNote(r)
  <2>1. Moves(r) /\ Tagged(r)'
    BY <1>8, NoteStep DEF Tagged
  <2>2. notes' \in Seq(Note)
    BY <1>8, CreateStep
  <2>3. off' \in BOOLEAN
    BY <1>8 DEF CreateNote
  <2>4. QED
    BY <1>8, <2>1, <2>2, <2>3, TypedMoves DEF CreateNote, table, TypeOK
<1>9. CASE CountUnread(r)
  <2>1. Moves(r) /\ Tagged(r)'
    BY <1>9, CountStep DEF Tagged
  <2>2. QED
    BY <1>0, <1>9, <2>1, TypedMoves DEF CountUnread, table, inbox, ghost, TypeOK
<1>10. CASE Push(r)
  <2>1. Moves(r) /\ Tagged(r)'
    BY <1>10, PushStep DEF Tagged
  <2>2. badge' \in Nat
    BY <1>10 DEF Push, TypeOK, Local
  <2>3. QED
    BY <1>0, <1>10, <2>1, <2>2, TypedMoves DEF Push, table, ghost, TypeOK
<1>11. CASE Fail(r)
  <2>1. Moves(r) /\ Tagged(r)'
    BY <1>11, FailStep DEF Tagged
  <2>2. rough' \subseteq User /\ off' \in BOOLEAN
    BY <1>11, LocalType DEF Fail, TypeOK
  <2>3. QED
    BY <1>0, <1>11, <2>1, <2>2, TypedMoves DEF Fail, table, inbox, TypeOK
<1>12. QED
  BY <1>1, <1>2, <1>3, <1>4, <1>5, <1>6, <1>7, <1>8, <1>9, <1>10, <1>11 DEF Serve

LEMMA TypedStart ==
  ASSUME Typed, NEW r \in Request, NEW u \in User, NEW t \in Type,
         NEW first \in {"look", "delete all"}, Start(r, u, t, first)
  PROVE  Typed'
<1>1. Moves(r) /\ at'[r] = first /\ req'[r].result = ""
  BY StartStep DEF Typed
<1>2. notes \in Seq(Note)
  BY NotesType DEF Typed
<1>3. alone' \subseteq Request /\ rough' \subseteq User /\ off' \in BOOLEAN
  BY DEF Start, Typed, TypeOK
<1>4. Tagged(r)'
  BY <1>1 DEF Tagged
<1>5. QED
  BY <1>1, <1>2, <1>3, <1>4, TypedMoves DEF Start, table, inbox, Typed, TypeOK

LEMMA UnreactStarts ==
  ASSUME NEW r \in Request, NEW u \in User, StartUnreact(r, u)
  PROVE  \E t \in Type : Start(r, u, t, "delete all")
BY NoLocalType DEF StartUnreact, Local

LEMMA TypedStep == Typed /\ [Next]_vars => Typed'
<1> SUFFICES ASSUME Typed, [Next]_vars PROVE Typed'
  OBVIOUS
<1>0. notes \in Seq(Note)
  BY NotesType DEF Typed
<1> USE DEF Typed
<1>1. ASSUME NEW r \in Request, NEW u \in User, StartUnreact(r, u) PROVE Typed'
  BY <1>1, UnreactStarts, TypedStart
<1>2. ASSUME NEW r \in Request, NEW u \in User, NEW t \in Type, StartToggle(r, u, t) PROVE Typed'
  BY <1>2, TypedStart DEF StartToggle
<1>3. ASSUME NEW r \in Request, Serve(r) PROVE Typed'
  BY <1>3, TypedServe
<1>4. CASE MarkAllRead
  <2>1. notes' \in Seq(Note)
    BY <1>4, MarkAllStep
  <2>2. QED
    BY <1>4, <2>1, TypedKept DEF MarkAllRead, table, Kept, TypeOK
<1>5. CASE ReadAllFails
  BY <1>0, <1>5, TypedKept DEF ReadAllFails, table, Kept, TypeOK
<1>6. CASE ReadAllAnswered
  BY <1>0, <1>6, TypedKept DEF ReadAllAnswered, table, ghost, Kept, TypeOK
<1>7. ASSUME NEW n \in Nat, OpenList(n) PROVE Typed'
  BY <1>0, <1>7, TypedKept DEF OpenList, table, Kept, TypeOK
<1>8. CASE ListArrives
  BY <1>0, <1>8, TypedKept DEF ListArrives, table, ghost, Kept, TypeOK
<1>9. ASSUME NEW i \in 1..MaxNotes, Age(i) PROVE Typed'
  <2>1. notes' \in Seq(Note)
    BY <1>9, AgeStep
  <2>2. QED
    BY <1>9, <2>1, TypedKept DEF Age, table, Kept, TypeOK
<1>10. CASE DeletePost
  <2>1. IsFiniteSet(rows') /\ rows' = {}
    BY <1>10, FS_EmptySet DEF DeletePost
  <2>2. notes' \in Seq(Note)
    BY <1>10 DEF DeletePost
  <2>3. QED
    BY <1>10, <2>1, <2>2, TypedKept DEF DeletePost, Kept, TypeOK
<1>11. ASSUME NEW i \in 1..MaxNotes, MarkRead(i) PROVE Typed'
  <2>1. notes' \in Seq(Note)
    BY <1>11, MarkReadStep
  <2>2. QED
    BY <1>11, <2>1, TypedKept DEF MarkRead, table, Kept, TypeOK
<1>12. CASE UNCHANGED vars
  BY <1>0, <1>12, TypedKept DEF vars, table, inbox, ghost, Kept, TypeOK
<1>13. Unread \in Nat /\ 0 \in Nat
  BY CountType
<1>14. QED
  BY <1>1, <1>2, <1>3, <1>4, <1>5, <1>6, <1>7, <1>8, <1>9, <1>10, <1>11, <1>12, <1>13 DEF Next
-----------------------------------------------------------------------------
(* Recounted is preserved.                                                 *)

LEMMA RecountedMoves ==
  ASSUME Typed, Recounted, NEW r \in Request, Moves(r), Active(r), at'[r] # "write",
         UNCHANGED <<table, alone, sure>>
  PROVE  Recounted'
<1>1. Busy' \subseteq Busy
  BY DEF Busy, Moves, Active
<1>2. \A s \in alone : Active(s)' => Busy' = {s}
  BY <1>1 DEF Recounted, Busy, Typed, TypeOK
<1>3. QED
  BY <1>2 DEF Recounted, table, Moves

LEMMA RecountedKept ==
  ASSUME Typed, Recounted, Kept, UNCHANGED <<table, alone, sure>>
  PROVE  Recounted'
BY DEF Recounted, Kept, table, Active, Busy

(* While a request changes rows, no other one is alone. *)
LEMMA RecountedChange ==
  ASSUME Typed, Recounted, NEW r \in Request, Moves(r), Active(r), at'[r] = "snapshot",
         sure' = FALSE, alone' = alone
  PROVE  Recounted'
<1>1. Busy' \subseteq Busy /\ r \in Busy
  BY DEF Busy, Moves, Active
<1>2. \A s \in alone : Active(s)' => Busy' = {s}
  BY <1>1 DEF Recounted, Busy, Typed, TypeOK
<1>3. \A s \in Request : at'[s] = "write" => s \notin alone
  <2> SUFFICES ASSUME NEW s \in Request, at'[s] = "write", s \in alone PROVE FALSE
    OBVIOUS
  <2>1. s # r /\ Active(s)
    BY DEF Moves, Active
  <2>2. QED
    BY <1>1, <2>1 DEF Recounted
<1>4. QED
  BY <1>2, <1>3 DEF Recounted

LEMMA RecountedStart ==
  ASSUME Typed, Recounted, NEW r \in Request, NEW u \in User, NEW t \in Type,
         NEW first \in {"look", "delete all"}, Start(r, u, t, first)
  PROVE  Recounted'
<1>1. Moves(r) /\ at[r] = "idle" /\ at'[r] = first
  BY StartStep DEF Typed
<1>2. UNCHANGED <<post, rows, count, sure>> /\ alone' \subseteq alone
  BY DEF Start, table
<1>3. \A s \in alone' : Active(s)' => Busy' = {s}
  <2>1. CASE Busy = {}
    <3>1. Busy' = {r}
      BY <1>1, <2>1 DEF Busy, Moves, Active
    <3>2. QED
      BY <1>2, <3>1 DEF Busy, Typed, TypeOK
  <2>2. CASE Busy # {}
    <3>1. alone' = alone \ (Busy \cup {r})
      BY <2>2 DEF Start, Busy
    <3>2. \A s \in alone' : ~Active(s)'
      BY <1>1, <3>1 DEF Busy, Moves, Active, Typed, TypeOK
    <3>3. QED
      BY <3>2
  <2>3. QED
    BY <2>1, <2>2
<1>4. QED
  BY <1>1, <1>2, <1>3 DEF Recounted, Moves

LEMMA RecountedWrite ==
  ASSUME Typed, Recounted, NEW r \in Request, Write(r)
  PROVE  Recounted'
<1>1. Moves(r) /\ at[r] = "write" /\ at'[r] # "write"
  BY WriteStep DEF Typed
<1>2. Busy' \subseteq Busy /\ r \in Busy
  BY <1>1 DEF Busy, Moves, Active
<1>3. /\ post' = post /\ rows' = rows /\ alone' = alone
      /\ count' = IF post THEN req[r].seen ELSE count
      /\ sure' = (sure \/ r \in alone)
  BY DEF Write
<1>4. \A s \in alone' : Active(s)' => Busy' = {s}
  BY <1>2, <1>3 DEF Recounted, Busy, Typed, TypeOK
<1>5. sure' /\ post' => count' = Cardinality(rows')
  BY <1>1, <1>3 DEF Recounted
<1>6. ASSUME NEW s \in Request, at'[s] = "write", post', sure' \/ s \in alone'
      PROVE  req'[s].seen = Cardinality(rows')
  <2>1. s # r /\ at[s] = "write" /\ req'[s] = req[s] /\ s \in Busy
    BY <1>1, <1>6 DEF Moves, Active, Busy
  <2>2. r \notin alone
    BY <1>2, <2>1 DEF Recounted, Busy
  <2>3. sure \/ s \in alone
    BY <1>3, <1>6, <2>2
  <2>4. QED
    BY <1>3, <1>6, <2>1, <2>3 DEF Recounted
<1>7. QED
  BY <1>4, <1>5, <1>6 DEF Recounted

LEMMA RecountedSnapshot ==
  ASSUME Typed, Recounted, NEW r \in Request, Snapshot(r)
  PROVE  Recounted'
<1>1. Moves(r) /\ at[r] = "snapshot" /\ at'[r] = "write" /\ req'[r].seen = Cardinality(rows)
  BY SnapshotStep DEF Typed
<1>2. Busy' = Busy
  BY <1>1 DEF Busy, Moves, Active
<1>3. UNCHANGED <<post, rows, count, alone, sure>>
  BY DEF Snapshot, table, ghost
<1>4. \A s \in alone : Active(s)' => Busy' = {s}
  BY <1>2 DEF Recounted, Busy, Typed, TypeOK
<1>5. QED
  BY <1>1, <1>3, <1>4 DEF Recounted, Moves

LEMMA RecountedServe ==
  ASSUME Typed, Recounted, NEW r \in Request, Serve(r)
  PROVE  Recounted'
<1> USE DEF Typed
<1>1. CASE Look(r)
  BY <1>1, LookStep, RecountedMoves DEF Look, ghost, Active
<1>2. CASE Insert(r)
  BY <1>2, InsertStep, RecountedChange DEF Insert, Active
<1>3. CASE Delete(r)
  BY <1>3, DeleteStep, RecountedChange DEF Delete, Active
<1>4. CASE DeleteAll(r)
  BY <1>4, DeleteAllStep, RecountedChange DEF DeleteAll, Active
<1>5. CASE Snapshot(r)
  BY <1>5, RecountedSnapshot
<1>6. CASE Write(r)
  BY <1>6, RecountedWrite
<1>7. CASE CheckRecent(r)
  BY <1>7, RecentStep, RecountedMoves DEF CheckRecent, ghost, Active
<1>8. CASE CreateNote(r)
  BY <1>8, NoteStep, RecountedMoves DEF CreateNote, Active
<1>9. CASE CountUnread(r)
  BY <1>9, CountStep, RecountedMoves DEF CountUnread, ghost, Active
<1>10. CASE Push(r)
  BY <1>10, PushStep, RecountedMoves DEF Push, ghost, Active
<1>11. CASE Fail(r)
  BY <1>11, FailStep, RecountedMoves DEF Fail
<1>12. QED
  BY <1>1, <1>2, <1>3, <1>4, <1>5, <1>6, <1>7, <1>8, <1>9, <1>10, <1>11 DEF Serve

LEMMA RecountedStep == Typed /\ Recounted /\ [Next]_vars => Recounted'
<1> SUFFICES ASSUME Typed, Recounted, [Next]_vars PROVE Recounted'
  OBVIOUS
<1>1. ASSUME NEW r \in Request, NEW u \in User, StartUnreact(r, u) PROVE Recounted'
  BY <1>1, UnreactStarts, RecountedStart
<1>2. ASSUME NEW r \in Request, NEW u \in User, NEW t \in Type, StartToggle(r, u, t)
      PROVE  Recounted'
  BY <1>2, RecountedStart DEF StartToggle
<1>3. ASSUME NEW r \in Request, Serve(r) PROVE Recounted'
  BY <1>3, RecountedServe
<1>4. CASE MarkAllRead \/ ReadAllFails \/ ReadAllAnswered \/ ListArrives
  BY <1>4, RecountedKept DEF MarkAllRead, ReadAllFails, ReadAllAnswered, ListArrives, ghost, Kept
<1>5. ASSUME NEW n, OpenList(n) PROVE Recounted'
  BY <1>5, RecountedKept DEF OpenList, Kept
<1>6. CASE DeletePost
  BY <1>6 DEF DeletePost, Recounted, Active, Busy
<1>7. ASSUME NEW i \in 1..MaxNotes, MarkRead(i) \/ Age(i) PROVE Recounted'
  BY <1>7, RecountedKept DEF MarkRead, Age, Kept
<1>8. CASE UNCHANGED vars
  BY <1>8, RecountedKept DEF vars, ghost, Kept
<1>9. QED
  BY <1>1, <1>2, <1>3, <1>4, <1>5, <1>6, <1>7, <1>8 DEF Next
-----------------------------------------------------------------------------
(* Backed is preserved.                                                    *)

LEMMA BackedFinite ==
  ASSUME Typed, NEW u \in User
  PROVE  /\ IsFiniteSet(NotesBy(u)) /\ Cardinality(NotesBy(u)) \in Nat
         /\ IsFiniteSet(Owed(u)) /\ Cardinality(Owed(u)) \in Nat
         /\ added[u] \in Nat
<1>1. Owed(u) \subseteq Busy /\ NotesBy(u) \subseteq DOMAIN notes
  BY DEF Owed, Busy, Active, NotesBy
<1>2. IsFiniteSet(Busy) /\ IsFiniteSet(DOMAIN notes)
  BY CountType DEF Typed
<1>3. IsFiniteSet(Owed(u)) /\ IsFiniteSet(NotesBy(u))
  BY <1>1, <1>2, FS_Subset
<1>4. added[u] \in Nat
  BY DEF Typed, TypeOK
<1>5. QED
  BY <1>3, <1>4, FS_CardinalityType

LEMMA SumShrinks ==
  ASSUME NEW a \in Nat, NEW b \in Nat, NEW c \in Nat, NEW d \in Nat, NEW k \in Nat,
         a + b <= k, c <= a, d <= b
  PROVE  c + d <= k
OBVIOUS

LEMMA BackedShrinks ==
  ASSUME Typed, Backed, NEW u \in User,
         NotesBy(u)' \subseteq NotesBy(u), Owed(u)' \subseteq Owed(u), added'[u] = added[u]
  PROVE  Cardinality(NotesBy(u)') + Cardinality(Owed(u)') <= added'[u]
<1>1. /\ IsFiniteSet(NotesBy(u)) /\ Cardinality(NotesBy(u)) \in Nat
      /\ IsFiniteSet(Owed(u)) /\ Cardinality(Owed(u)) \in Nat
      /\ added[u] \in Nat
  BY BackedFinite
<1>2. /\ Cardinality(NotesBy(u)') <= Cardinality(NotesBy(u)) /\ IsFiniteSet(NotesBy(u)')
      /\ Cardinality(Owed(u)') <= Cardinality(Owed(u)) /\ IsFiniteSet(Owed(u)')
  BY <1>1, FS_Subset
<1>3. Cardinality(NotesBy(u)') \in Nat /\ Cardinality(Owed(u)') \in Nat
  BY <1>2, FS_CardinalityType
<1>4. Cardinality(NotesBy(u)) + Cardinality(Owed(u)) <= added[u]
  BY DEF Backed
<1>5. QED
  BY <1>1, <1>2, <1>3, <1>4, SumShrinks

(* A request that moves owes nothing new. *)
LEMMA BackedMoves ==
  ASSUME Typed, Backed, NEW r \in Request, Moves(r), notes' = notes, added' = added,
         \A u \in User : r \in Owed(u)' => r \in Owed(u)
  PROVE  Backed'
<1> SUFFICES ASSUME NEW u \in User
             PROVE  Cardinality(NotesBy(u)') + Cardinality(Owed(u)') <= added'[u]
  BY DEF Backed
<1>1. NotesBy(u)' \subseteq NotesBy(u)
  BY DEF NotesBy
<1>2. Owed(u)' \subseteq Owed(u)
  BY DEF Owed, Moves
<1>3. QED
  BY <1>1, <1>2, BackedShrinks

(* The inbox changes, but no one acts in it. *)
LEMMA BackedInbox ==
  ASSUME Typed, Backed, Kept, added' = added,
         \A u \in User : NotesBy(u)' \subseteq NotesBy(u)
  PROVE  Backed'
<1> SUFFICES ASSUME NEW u \in User
             PROVE  Cardinality(NotesBy(u)') + Cardinality(Owed(u)') <= added'[u]
  BY DEF Backed
<1>1. Owed(u)' \subseteq Owed(u)
  BY DEF Owed, Kept
<1>2. QED
  BY <1>1, BackedShrinks

LEMMA BackedInsert ==
  ASSUME Typed, Backed, NEW r \in Request, Insert(r)
  PROVE  Backed'
<1> SUFFICES ASSUME NEW u \in User
             PROVE  Cardinality(NotesBy(u)') + Cardinality(Owed(u)') <= added'[u]
  BY DEF Backed
<1>1. /\ Moves(r) /\ at[r] = "insert" /\ at'[r] = "snapshot"
      /\ req'[r].result = "added" /\ req'[r].user = req[r].user
  BY InsertStep DEF Typed
<1>2. notes' = notes /\ added' = [added EXCEPT ![req[r].user] = @ + 1]
  BY DEF Insert, inbox
<1>3. NotesBy(u)' = NotesBy(u)
  BY <1>2 DEF NotesBy
<1>4. CASE u # req[r].user
  <2>1. Owed(u)' \subseteq Owed(u)
    BY <1>1, <1>4 DEF Owed, Moves
  <2>2. added'[u] = added[u]
    BY <1>2, <1>4 DEF Typed, TypeOK
  <2>3. QED
    BY <1>3, <2>1, <2>2, BackedShrinks
<1>5. CASE u = req[r].user
  <2>1. Owed(u)' = Owed(u) \cup {r} /\ r \notin Owed(u)
    BY <1>1, <1>5 DEF Owed, Moves
  <2>2. added'[u] = added[u] + 1
    BY <1>2, <1>5 DEF Typed, TypeOK
  <2>3. IsFiniteSet(Owed(u)) /\ Cardinality(Owed(u)) \in Nat /\ Cardinality(NotesBy(u)) \in Nat
        /\ added[u] \in Nat
    BY BackedFinite
  <2>4. Cardinality(Owed(u)') = Cardinality(Owed(u)) + 1
    BY <2>1, <2>3, FS_AddElement
  <2>5. Cardinality(NotesBy(u)) + Cardinality(Owed(u)) <= added[u]
    BY DEF Backed
  <2>6. QED
    BY <1>3, <2>2, <2>3, <2>4, <2>5
<1>6. QED
  BY <1>4, <1>5

LEMMA BackedNote ==
  ASSUME Typed, Backed, NEW r \in Request, CreateNote(r)
  PROVE  Backed'
<1> SUFFICES ASSUME NEW u \in User
             PROVE  Cardinality(NotesBy(u)') + Cardinality(Owed(u)') <= added'[u]
  BY DEF Backed
<1>1. /\ Moves(r) /\ at[r] = "note" /\ at'[r] = "unread" /\ req[r].result = "added"
  BY NoteStep DEF Typed, Tagged
<1>2. added' = added
  BY DEF CreateNote
<1>3. PICK n :
        /\ DOMAIN notes' = DOMAIN notes \cup {n} /\ n \notin DOMAIN notes
        /\ \A i \in DOMAIN notes : notes'[i] = notes[i]
        /\ notes'[n] = [actor |-> req[r].user, fresh |-> TRUE, read |-> FALSE]
  BY NewNote DEF Typed
<1>4. /\ DOMAIN notes' = DOMAIN notes \cup {n} /\ n \notin DOMAIN notes
      /\ \A i \in DOMAIN notes : notes'[i] = notes[i]
      /\ notes'[n].actor = req[r].user
  BY <1>3
<1>5. CASE u # req[r].user
  <2>1. Owed(u)' \subseteq Owed(u)
    BY <1>1 DEF Owed, Moves
  <2>2. NotesBy(u)' \subseteq NotesBy(u)
    BY <1>4, <1>5 DEF NotesBy
  <2>3. QED
    BY <1>2, <2>1, <2>2, BackedShrinks
<1>6. CASE u = req[r].user
  <2>1. Owed(u)' = Owed(u) \ {r} /\ r \in Owed(u)
    BY <1>1, <1>6 DEF Owed, Moves
  <2>2. NotesBy(u)' = NotesBy(u) \cup {n} /\ n \notin NotesBy(u)
    BY <1>4, <1>6 DEF NotesBy
  <2>3. /\ IsFiniteSet(Owed(u)) /\ Cardinality(Owed(u)) \in Nat
        /\ IsFiniteSet(NotesBy(u)) /\ Cardinality(NotesBy(u)) \in Nat
        /\ added[u] \in Nat
    BY BackedFinite
  <2>4. Cardinality(Owed(u)') = Cardinality(Owed(u)) - 1
    BY <2>1, <2>3, FS_RemoveElement
  <2>5. Cardinality(NotesBy(u)') = Cardinality(NotesBy(u)) + 1
    BY <2>2, <2>3, FS_AddElement
  <2>6. Cardinality(NotesBy(u)) + Cardinality(Owed(u)) <= added[u]
    BY DEF Backed
  <2>7. QED
    BY <1>2, <2>3, <2>4, <2>5, <2>6
<1>7. QED
  BY <1>5, <1>6

LEMMA BackedServe ==
  ASSUME Typed, Backed, NEW r \in Request, Serve(r)
  PROVE  Backed'
<1> USE DEF Typed
<1>1. CASE Look(r)
  <2>1. Moves(r) /\ \A u \in User : r \notin Owed(u)'
    BY <1>1, LookStep DEF Owed
  <2>2. QED
    BY <1>1, <2>1, BackedMoves DEF Look, inbox, ghost
<1>2. CASE Insert(r)
  BY <1>2, BackedInsert
<1>3. CASE Delete(r)
  <2>1. Moves(r) /\ \A u \in User : r \notin Owed(u)'
    BY <1>3, DeleteStep DEF Owed
  <2>2. QED
    BY <1>3, <2>1, BackedMoves DEF Delete, inbox
<1>4. CASE DeleteAll(r)
  <2>1. Moves(r) /\ req'[r] = req[r] /\ at[r] = "delete all"
    BY <1>4, DeleteAllStep
  <2>2. req[r].result # "added"
    BY <2>1 DEF Typed, Tagged
  <2>3. \A u \in User : r \notin Owed(u)'
    BY <2>1, <2>2 DEF Owed
  <2>4. QED
    BY <1>4, <2>1, <2>3, BackedMoves DEF DeleteAll, inbox
<1>5. CASE Snapshot(r)
  <2>1. Moves(r) /\ \A u \in User : r \in Owed(u)' => r \in Owed(u)
    BY <1>5, SnapshotStep DEF Owed
  <2>2. QED
    BY <1>5, <2>1, BackedMoves DEF Snapshot, inbox, ghost
<1>6. CASE Write(r)
  <2>1. Moves(r) /\ \A u \in User : r \in Owed(u)' => r \in Owed(u)
    BY <1>6, WriteStep DEF Owed
  <2>2. QED
    BY <1>6, <2>1, BackedMoves DEF Write, inbox
<1>7. CASE CheckRecent(r)
  <2>1. Moves(r) /\ \A u \in User : r \in Owed(u)' => r \in Owed(u)
    BY <1>7, RecentStep DEF Owed
  <2>2. QED
    BY <1>7, <2>1, BackedMoves DEF CheckRecent, inbox, ghost
<1>8. CASE CreateNote(r)
  BY <1>8, BackedNote
<1>9. CASE CountUnread(r)
  <2>1. Moves(r) /\ \A u \in User : r \notin Owed(u)'
    BY <1>9, CountStep DEF Owed
  <2>2. QED
    BY <1>9, <2>1, BackedMoves DEF CountUnread, inbox, ghost
<1>10. CASE Push(r)
  <2>1. Moves(r) /\ \A u \in User : r \notin Owed(u)'
    BY <1>10, PushStep DEF Owed
  <2>2. QED
    BY <1>10, <2>1, BackedMoves DEF Push, ghost
<1>11. CASE Fail(r)
  <2>1. Moves(r) /\ \A u \in User : r \in Owed(u)' => r \in Owed(u)
    BY <1>11, FailStep DEF Owed
  <2>2. QED
    BY <1>11, <2>1, BackedMoves DEF Fail, inbox
<1>12. QED
  BY <1>1, <1>2, <1>3, <1>4, <1>5, <1>6, <1>7, <1>8, <1>9, <1>10, <1>11 DEF Serve

LEMMA BackedStart ==
  ASSUME Typed, Backed, NEW r \in Request, NEW u \in User, NEW t \in Type,
         NEW first \in {"look", "delete all"}, Start(r, u, t, first)
  PROVE  Backed'
<1>1. Moves(r) /\ \A v \in User : r \notin Owed(v)'
  BY StartStep DEF Owed, Typed
<1>2. QED
  BY <1>1, BackedMoves DEF Start, inbox

LEMMA BackedStep == Typed /\ Backed /\ [Next]_vars => Backed'
<1> SUFFICES ASSUME Typed, Backed, [Next]_vars PROVE Backed'
  OBVIOUS
<1>1. ASSUME NEW r \in Request, NEW u \in User, StartUnreact(r, u) PROVE Backed'
  BY <1>1, UnreactStarts, BackedStart
<1>2. ASSUME NEW r \in Request, NEW u \in User, NEW t \in Type, StartToggle(r, u, t)
      PROVE  Backed'
  BY <1>2, BackedStart DEF StartToggle
<1>3. ASSUME NEW r \in Request, Serve(r) PROVE Backed'
  BY <1>3, BackedServe
<1>4. CASE MarkAllRead
  <2>1. \A u \in User : NotesBy(u)' \subseteq NotesBy(u)
    BY <1>4, MarkAllStep DEF NotesBy, Typed
  <2>2. QED
    BY <1>4, <2>1, BackedInbox DEF MarkAllRead, Kept
<1>5. CASE ReadAllFails \/ ReadAllAnswered \/ ListArrives
  BY <1>5, BackedInbox DEF ReadAllFails, ReadAllAnswered, ListArrives, Kept, ghost, NotesBy
<1>6. ASSUME NEW n, OpenList(n) PROVE Backed'
  BY <1>6, BackedInbox DEF OpenList, Kept, NotesBy
<1>7. ASSUME NEW i \in 1..MaxNotes, Age(i) PROVE Backed'
  <2>1. \A u \in User : NotesBy(u)' \subseteq NotesBy(u)
    BY <1>7, AgeStep DEF NotesBy, Typed
  <2>2. QED
    BY <1>7, <2>1, BackedInbox DEF Age, Kept
<1>8. CASE DeletePost
  <2>1. \A u \in User : NotesBy(u)' \subseteq NotesBy(u)
    BY <1>8 DEF DeletePost, NotesBy
  <2>2. QED
    BY <1>8, <2>1, BackedInbox DEF DeletePost, Kept
<1>9. ASSUME NEW i \in 1..MaxNotes, MarkRead(i) PROVE Backed'
  <2>1. \A u \in User : NotesBy(u)' \subseteq NotesBy(u)
    BY <1>9, MarkReadStep DEF NotesBy, Typed
  <2>2. QED
    BY <1>9, <2>1, BackedInbox DEF MarkRead, Kept
<1>10. CASE UNCHANGED vars
  BY <1>10, BackedInbox DEF vars, Kept, inbox, ghost, NotesBy
<1>11. QED
  BY <1>1, <1>2, <1>3, <1>4, <1>5, <1>6, <1>7, <1>8, <1>9, <1>10 DEF Next
-----------------------------------------------------------------------------
(* Spaced is preserved.                                                    *)

LEMMA FreshFinite ==
  ASSUME Typed, NEW u
  PROVE  IsFiniteSet(Fresh(u)) /\ Cardinality(Fresh(u)) \in Nat
<1>1. IsFiniteSet(DOMAIN notes)
  BY CountType DEF Typed
<1>2. IsFiniteSet(Fresh(u))
  BY <1>1, FS_Subset DEF Fresh
<1>3. QED
  BY <1>2, FS_CardinalityType

(* A request of u is the only one of u, as long as u is not rough. *)
LEMMA OneOf ==
  ASSUME Spaced, NEW u \in User \ rough, NEW r \in Busy, NEW s \in Busy,
         req[r].user = u, req[s].user = u
  PROVE  r = s
BY DEF Spaced

(* A request moves on, and changes nothing in the inbox. *)
LEMMA SpacedMoves ==
  ASSUME Typed, Spaced, NEW r \in Request, Moves(r), Active(r),
         Active(r)' => req'[r].user = req[r].user,
         at'[r] = "note" => Fresh(req[r].user) = {} \/ req[r].user \in rough',
         notes' = notes, rough \subseteq rough'
  PROVE  Spaced'
<1> SUFFICES ASSUME NEW u \in User \ rough'
             PROVE  /\ \A v, s \in Busy' : req'[v].user = u /\ req'[s].user = u => v = s
                    /\ \A s \in Request : at'[s] = "note" /\ req'[s].user = u => Fresh(u)' = {}
                    /\ Cardinality(Fresh(u)') <= 1
  BY DEF Spaced
<1>1. Busy' \subseteq Busy /\ \A s \in Busy' : req'[s].user = req[s].user
  BY DEF Busy, Moves, Active
<1>2. u \in User \ rough /\ Fresh(u)' = Fresh(u)
  BY DEF Fresh
<1>3. \A v, s \in Busy' : req'[v].user = u /\ req'[s].user = u => v = s
  BY <1>1, <1>2, OneOf
<1>4. ASSUME NEW s \in Request, at'[s] = "note", req'[s].user = u PROVE Fresh(u) = {}
  <2>1. CASE s = r
    <3>1. Active(r)'
      BY <1>4, <2>1 DEF Active
    <3>2. QED
      BY <1>4, <2>1, <3>1
  <2>2. CASE s # r
    BY <1>2, <1>4, <2>2 DEF Moves, Spaced
  <2>3. QED
    BY <2>1, <2>2
<1>5. Cardinality(Fresh(u)) <= 1
  BY <1>2 DEF Spaced
<1>6. QED
  BY <1>2, <1>3, <1>4, <1>5

(* The inbox changes, but nobody has more fresh notes than before. *)
LEMMA SpacedInbox ==
  ASSUME Typed, Spaced, Kept, \A u \in User : Fresh(u)' \subseteq Fresh(u), rough' = rough
  PROVE  Spaced'
<1> SUFFICES ASSUME NEW u \in User \ rough
             PROVE  /\ \A v, s \in Busy' : req'[v].user = u /\ req'[s].user = u => v = s
                    /\ \A s \in Request : at'[s] = "note" /\ req'[s].user = u => Fresh(u)' = {}
                    /\ Cardinality(Fresh(u)') <= 1
  BY DEF Spaced
<1>1. Busy' = Busy
  BY DEF Kept, Busy, Active
<1>2. IsFiniteSet(Fresh(u)) /\ Fresh(u)' \subseteq Fresh(u) /\ Cardinality(Fresh(u)) \in Nat
  BY FreshFinite
<1>3. Cardinality(Fresh(u)') <= Cardinality(Fresh(u)) /\ IsFiniteSet(Fresh(u)')
  BY <1>2, FS_Subset
<1>4. Cardinality(Fresh(u)') \in Nat
  BY <1>3, FS_CardinalityType
<1>5. Cardinality(Fresh(u)) <= 1
  BY DEF Spaced
<1>6. Cardinality(Fresh(u)') <= 1
  BY <1>2, <1>3, <1>4, <1>5
<1>7. \A s \in Request : at'[s] = "note" /\ req'[s].user = u => Fresh(u)' = {}
  BY <1>2 DEF Kept, Spaced
<1>8. QED
  BY <1>1, <1>6, <1>7 DEF Kept, Spaced

LEMMA SpacedStart ==
  ASSUME Typed, Spaced, NEW r \in Request, NEW u \in User, NEW t \in Type,
         NEW first \in {"look", "delete all"}, Start(r, u, t, first)
  PROVE  Spaced'
<1>1. Moves(r) /\ at[r] = "idle" /\ at'[r] = first /\ req'[r].user = u
  BY StartStep DEF Typed
<1>2. /\ notes' = notes
      /\ rough' = IF \E s \in Busy : req[s].user = u THEN rough \cup {u} ELSE rough
  BY DEF Start, inbox, Busy
<1> SUFFICES ASSUME NEW v \in User \ rough'
             PROVE  /\ \A x, s \in Busy' : req'[x].user = v /\ req'[s].user = v => x = s
                    /\ \A s \in Request : at'[s] = "note" /\ req'[s].user = v => Fresh(v)' = {}
                    /\ Cardinality(Fresh(v)') <= 1
  BY DEF Spaced
<1>3. v \in User \ rough /\ Fresh(v)' = Fresh(v)
  BY <1>2 DEF Fresh
<1>4. /\ Busy' = Busy \cup {r} /\ r \notin Busy
      /\ \A s \in Busy : req'[s].user = req[s].user
  BY <1>1 DEF Busy, Active, Moves
<1>5. v = u => \A s \in Busy : req[s].user # u
  BY <1>2
<1>6. ASSUME NEW x \in Busy', NEW s \in Busy', req'[x].user = v, req'[s].user = v
      PROVE  x = s
  <2>1. CASE v = u
    BY <1>4, <1>5, <1>6, <2>1
  <2>2. CASE v # u
    <3>1. x \in Busy /\ s \in Busy
      BY <1>1, <1>4, <1>6, <2>2
    <3>2. req[x].user = v /\ req[s].user = v
      BY <1>4, <1>6, <3>1
    <3>3. QED
      BY <1>3, <3>1, <3>2, OneOf
  <2>3. QED
    BY <2>1, <2>2
<1>7. \A s \in Request : at'[s] = "note" => s # r /\ at[s] = "note" /\ req'[s] = req[s]
  BY <1>1 DEF Moves
<1>8. QED
  BY <1>3, <1>6, <1>7 DEF Spaced

LEMMA SpacedNote ==
  ASSUME Typed, Spaced, NEW r \in Request, CreateNote(r)
  PROVE  Spaced'
<1>1. Moves(r) /\ at[r] = "note" /\ at'[r] = "unread" /\ req'[r] = req[r] /\ rough' = rough
  BY NoteStep DEF Typed, CreateNote
<1>2. /\ Busy' = Busy /\ r \in Busy
      /\ \A s \in Busy : req'[s].user = req[s].user
  BY <1>1 DEF Busy, Active, Moves
<1>3. PICK n :
        /\ DOMAIN notes' = DOMAIN notes \cup {n} /\ n \notin DOMAIN notes
        /\ \A i \in DOMAIN notes : notes'[i] = notes[i]
        /\ notes'[n] = [actor |-> req[r].user, fresh |-> TRUE, read |-> FALSE]
  BY NewNote DEF Typed
<1> SUFFICES ASSUME NEW v \in User \ rough
             PROVE  /\ \A x, s \in Busy' : req'[x].user = v /\ req'[s].user = v => x = s
                    /\ \A s \in Request : at'[s] = "note" /\ req'[s].user = v => Fresh(v)' = {}
                    /\ Cardinality(Fresh(v)') <= 1
  BY <1>1 DEF Spaced
<1>4. \A x, s \in Busy' : req'[x].user = v /\ req'[s].user = v => x = s
  BY <1>2, OneOf
<1>5. \A s \in Request : at'[s] = "note" => s \in Busy /\ s # r /\ at[s] = "note" /\ req'[s] = req[s]
  BY <1>1 DEF Moves, Busy, Active
<1>6. CASE v # req[r].user
  <2>1. Fresh(v)' = Fresh(v)
    BY <1>3, <1>6 DEF Fresh
  <2>2. QED
    BY <1>4, <1>5, <2>1 DEF Spaced
<1>7. CASE v = req[r].user
  <2>1. Fresh(v) = {}
    BY <1>1, <1>7 DEF Spaced
  <2>2. Fresh(v)' = {n}
    BY <1>3, <1>7, <2>1 DEF Fresh
  <2>3. Cardinality({n}) = 1
    BY FS_Singleton
  <2>4. \A s \in Request : at'[s] = "note" => req'[s].user # v
    BY <1>2, <1>5, <1>7, OneOf
  <2>5. QED
    BY <1>4, <2>2, <2>3, <2>4
<1>8. QED
  BY <1>6, <1>7

(* A user is calm again when all the notes are old and no request is left. *)
LEMMA SpacedAge ==
  ASSUME Typed, Spaced, NEW j \in 1..MaxNotes, Age(j)
  PROVE  Spaced'
<1>1. /\ DOMAIN notes' = DOMAIN notes
      /\ \A i \in DOMAIN notes : /\ notes'[i].actor = notes[i].actor
                                 /\ notes'[i].fresh = (notes[i].fresh /\ i # j)
  BY AgeStep DEF Typed
<1>2. \A u : Fresh(u)' = Fresh(u) \ {j}
  BY <1>1 DEF Fresh
<1>3. /\ UNCHANGED <<at, req>> /\ Busy' = Busy
      /\ rough' = {u \in rough : Fresh(u) \ {j} # {} \/ \E s \in Busy : req[s].user = u}
  BY DEF Age, Busy, Active
<1> SUFFICES ASSUME NEW u \in User \ rough'
             PROVE  /\ \A v, s \in Busy : req[v].user = u /\ req[s].user = u => v = s
                    /\ \A s \in Request : at[s] = "note" /\ req[s].user = u => Fresh(u) \ {j} = {}
                    /\ Cardinality(Fresh(u) \ {j}) <= 1
  BY <1>2, <1>3 DEF Spaced
<1>4. CASE u \in rough
  <2>1. Fresh(u) \ {j} = {} /\ \A s \in Busy : req[s].user # u
    BY <1>3, <1>4
  <2>2. Cardinality({}) = 0
    BY FS_EmptySet
  <2>3. QED
    BY <2>1, <2>2
<1>5. CASE u \notin rough
  <2>1. IsFiniteSet(Fresh(u)) /\ Cardinality(Fresh(u)) \in Nat
    BY FreshFinite
  <2>2. /\ Cardinality(Fresh(u) \ {j}) <= Cardinality(Fresh(u))
        /\ IsFiniteSet(Fresh(u) \ {j})
    BY <2>1, FS_Subset
  <2>3. Cardinality(Fresh(u) \ {j}) \in Nat
    BY <2>2, FS_CardinalityType
  <2>4. Cardinality(Fresh(u)) <= 1
    BY <1>5 DEF Spaced
  <2>5. Cardinality(Fresh(u) \ {j}) <= 1
    BY <2>1, <2>2, <2>3, <2>4
  <2>6. QED
    BY <1>5, <2>5 DEF Spaced
<1>6. QED
  BY <1>4, <1>5

LEMMA SpacedServe ==
  ASSUME Typed, Spaced, NEW r \in Request, Serve(r)
  PROVE  Spaced'
<1> USE DEF Typed
<1>1. CASE Look(r)
  BY <1>1, LookStep, SpacedMoves DEF Look, inbox, ghost, Active
<1>2. CASE Insert(r)
  BY <1>2, InsertStep, SpacedMoves DEF Insert, inbox, Active
<1>3. CASE Delete(r)
  BY <1>3, DeleteStep, SpacedMoves DEF Delete, inbox, Active
<1>4. CASE DeleteAll(r)
  BY <1>4, DeleteAllStep, SpacedMoves DEF DeleteAll, inbox, Active
<1>5. CASE Snapshot(r)
  BY <1>5, SnapshotStep, SpacedMoves DEF Snapshot, inbox, ghost, Active
<1>6. CASE Write(r)
  BY <1>6, WriteStep, SpacedMoves DEF Write, inbox, Active
<1>7. CASE CheckRecent(r)
  BY <1>7, RecentStep, SpacedMoves DEF CheckRecent, inbox, ghost, Active
<1>8. CASE CreateNote(r)
  BY <1>8, SpacedNote
<1>9. CASE CountUnread(r)
  BY <1>9, CountStep, SpacedMoves DEF CountUnread, inbox, ghost, Active
<1>10. CASE Push(r)
  BY <1>10, PushStep, SpacedMoves DEF Push, ghost, Active
<1>11. CASE Fail(r)
  <2>1. Moves(r) /\ Active(r) /\ (Active(r)' => req'[r].user = req[r].user)
    BY <1>11, FailStep DEF Active
  <2>2. notes' = notes /\ rough \subseteq rough'
    BY <1>11 DEF Fail, inbox
  <2>3. at'[r] = "note" => req[r].user \in rough'
    BY <1>11 DEF Fail, Goto, TypeOK
  <2>4. QED
    BY <2>1, <2>2, <2>3, SpacedMoves
<1>12. QED
  BY <1>1, <1>2, <1>3, <1>4, <1>5, <1>6, <1>7, <1>8, <1>9, <1>10, <1>11 DEF Serve

LEMMA SpacedStep == Typed /\ Spaced /\ [Next]_vars => Spaced'
<1> SUFFICES ASSUME Typed, Spaced, [Next]_vars PROVE Spaced'
  OBVIOUS
<1>1. ASSUME NEW r \in Request, NEW u \in User, StartUnreact(r, u) PROVE Spaced'
  BY <1>1, UnreactStarts, SpacedStart
<1>2. ASSUME NEW r \in Request, NEW u \in User, NEW t \in Type, StartToggle(r, u, t) PROVE Spaced'
  BY <1>2, SpacedStart DEF StartToggle
<1>3. ASSUME NEW r \in Request, Serve(r) PROVE Spaced'
  BY <1>3, SpacedServe
<1>4. CASE MarkAllRead
  <2>1. \A u \in User : Fresh(u)' \subseteq Fresh(u)
    BY <1>4, MarkAllStep DEF Fresh, Typed
  <2>2. QED
    BY <1>4, <2>1, SpacedInbox DEF MarkAllRead, Kept
<1>5. CASE ReadAllFails \/ ReadAllAnswered \/ ListArrives
  BY <1>5, SpacedInbox DEF ReadAllFails, ReadAllAnswered, ListArrives, Kept, ghost, Fresh
<1>6. ASSUME NEW n, OpenList(n) PROVE Spaced'
  BY <1>6, SpacedInbox DEF OpenList, Kept, Fresh
<1>7. ASSUME NEW i \in 1..MaxNotes, Age(i) PROVE Spaced'
  BY <1>7, SpacedAge
<1>8. CASE DeletePost
  <2>1. \A u \in User : Fresh(u)' \subseteq Fresh(u)
    BY <1>8 DEF DeletePost, Fresh
  <2>2. QED
    BY <1>8, <2>1, SpacedInbox DEF DeletePost, Kept
<1>9. ASSUME NEW i \in 1..MaxNotes, MarkRead(i) PROVE Spaced'
  <2>1. \A u \in User : Fresh(u)' \subseteq Fresh(u)
    BY <1>9, MarkReadStep DEF Fresh, Typed
  <2>2. QED
    BY <1>9, <2>1, SpacedInbox DEF MarkRead, Kept
<1>10. CASE UNCHANGED vars
  BY <1>10, SpacedInbox DEF vars, Kept, inbox, ghost, Fresh
<1>11. QED
  BY <1>1, <1>2, <1>3, <1>4, <1>5, <1>6, <1>7, <1>8, <1>9, <1>10 DEF Next
-----------------------------------------------------------------------------
(* Badged is preserved.                                                    *)

(* What the browser can expect, in parts. *)
LEMMA BadgedOf ==
  ASSUME Badged, ~off
  PROVE  /\ \A r, s \in Busy : r = s
         /\ Waiting => Busy = {}
         /\ marking => Unread = 0 /\ listed = {}
         /\ listed \subseteq {Unread}
         /\ ~Waiting /\ ~Unpushed => badge = Unread
         /\ \A r \in Request : at[r] = "push" => req[r].seen = Unread
BY DEF Badged

(* The only active request moves on, before or within its notification. *)
LEMMA BadgedMoves ==
  ASSUME Typed, Badged, NEW r \in Request, Moves(r), Active(r),
         at'[r] \in {"unread", "push"} <=> at[r] \in {"unread", "push"},
         at'[r] = "push" => off' \/ req'[r].seen = Unread,
         UNCHANGED inbox, off => off'
  PROVE  Badged'
<1> SUFFICES ASSUME ~off' PROVE Badged'
  BY DEF Badged
<1>1. Busy' \subseteq Busy /\ r \in Busy
  BY DEF Busy, Moves, Active
<1>2. ~off /\ ~Waiting /\ Busy = {r}
  BY <1>1, BadgedOf
<1>3. \A s \in Request : at[s] \in {"unread", "push"} \/ at'[s] \in {"unread", "push"} => s = r
  BY <1>2 DEF Busy, Active, Moves
<1>4. Unpushed' <=> Unpushed
  BY <1>3 DEF Unpushed
<1>5. Unread' = Unread /\ ~Waiting' /\ badge' = badge /\ ~marking' /\ listed' = {}
  BY <1>2 DEF Unread, Waiting, inbox
<1>6. \A s \in Request : at'[s] = "push" => req'[s].seen = Unread
  BY <1>3
<1>7. \A s, v \in Busy' : s = v
  BY <1>1, <1>2
<1>8. ~Unpushed => badge = Unread
  BY <1>2, BadgedOf
<1>9. QED
  BY <1>4, <1>5, <1>6, <1>7, <1>8 DEF Badged

LEMMA BadgedStart ==
  ASSUME Typed, Badged, NEW r \in Request, NEW u \in User, NEW t \in Type,
         NEW first \in {"look", "delete all"}, Start(r, u, t, first)
  PROVE  Badged'
<1> SUFFICES ASSUME ~off' PROVE Badged'
  BY DEF Badged
<1>1. Moves(r) /\ at[r] = "idle" /\ at'[r] = first
  BY StartStep DEF Typed
<1>2. UNCHANGED inbox /\ ~off /\ ~Waiting /\ Busy = {}
  BY DEF Start, Busy
<1>3. \A s \in Request : at'[s] \notin {"unread", "push"} /\ at[s] \notin {"unread", "push"}
  BY <1>1, <1>2 DEF Busy, Active, Moves
<1>4. Busy' = {r}
  BY <1>1, <1>2 DEF Busy, Active, Moves
<1>5. Unread' = Unread /\ ~Waiting' /\ badge' = badge /\ ~marking' /\ listed' = {}
  BY <1>2 DEF Unread, Waiting, inbox
<1>6. badge = Unread
  BY <1>2, <1>3, BadgedOf DEF Unpushed
<1>7. QED
  BY <1>3, <1>4, <1>5, <1>6 DEF Badged

(* A request that writes its note alone will push the count. *)
LEMMA BadgedNote ==
  ASSUME Typed, Badged, NEW r \in Request, CreateNote(r)
  PROVE  Badged'
<1> SUFFICES ASSUME ~off' PROVE Badged'
  BY DEF Badged
<1>1. Moves(r) /\ at[r] = "note" /\ at'[r] = "unread"
  BY NoteStep DEF Typed
<1>2. ~Waiting /\ Busy = {r} /\ UNCHANGED <<marking, listed>>
  BY <1>1 DEF CreateNote, Busy, Active
<1>3. Busy' \subseteq {r} /\ ~Waiting' /\ ~marking' /\ listed' = {}
  BY <1>1, <1>2 DEF Busy, Active, Moves, Waiting
<1>4. Unpushed'
  BY <1>1 DEF Unpushed
<1>5. \A s \in Request : at'[s] # "push"
  BY <1>1, <1>2 DEF Busy, Active, Moves
<1>6. QED
  BY <1>3, <1>4, <1>5 DEF Badged

LEMMA BadgedPush ==
  ASSUME Typed, Badged, NEW r \in Request, Push(r)
  PROVE  Badged'
<1>1. UNCHANGED <<notes, marking, listed, off>> /\ badge' = req[r].seen
  BY DEF Push, ghost
<1> SUFFICES ASSUME ~off PROVE Badged'
  BY <1>1 DEF Badged
<1>2. Moves(r) /\ at[r] = "push" /\ at'[r] = "done"
  BY PushStep DEF Typed
<1>3. Busy' \subseteq Busy \ {r} /\ r \in Busy
  BY <1>2 DEF Busy, Moves, Active
<1>4. ~Waiting /\ Busy = {r} /\ req[r].seen = Unread
  BY <1>2, <1>3, BadgedOf
<1>5. Busy' = {}
  BY <1>3, <1>4
<1>6. \A s \in Request : at'[s] # "push"
  BY <1>5 DEF Busy, Active
<1>7. Unread' = Unread /\ ~Waiting' /\ ~marking' /\ listed' = {}
  BY <1>1, <1>4 DEF Unread, Waiting
<1>8. QED
  BY <1>1, <1>4, <1>5, <1>6, <1>7 DEF Badged

LEMMA BadgedServe ==
  ASSUME Typed, Badged, NEW r \in Request, Serve(r)
  PROVE  Badged'
<1> USE DEF Typed
<1>1. CASE Look(r)
  BY <1>1, LookStep, BadgedMoves DEF Look, ghost, Active
<1>2. CASE Insert(r)
  BY <1>2, InsertStep, BadgedMoves DEF Insert, Active
<1>3. CASE Delete(r)
  BY <1>3, DeleteStep, BadgedMoves DEF Delete, Active
<1>4. CASE DeleteAll(r)
  BY <1>4, DeleteAllStep, BadgedMoves DEF DeleteAll, Active
<1>5. CASE Snapshot(r)
  BY <1>5, SnapshotStep, BadgedMoves DEF Snapshot, ghost, Active
<1>6. CASE Write(r)
  BY <1>6, WriteStep, BadgedMoves DEF Write, Active
<1>7. CASE CheckRecent(r)
  BY <1>7, RecentStep, BadgedMoves DEF CheckRecent, ghost, Active
<1>8. CASE CreateNote(r)
  BY <1>8, BadgedNote
<1>9. CASE CountUnread(r)
  BY <1>9, CountStep, BadgedMoves DEF CountUnread, ghost, Active
<1>10. CASE Push(r)
  BY <1>10, BadgedPush
<1>11. CASE Fail(r)
  <2>1. /\ Moves(r) /\ Active(r)
        /\ at'[r] \in {"unread", "push"} <=> at[r] \in {"unread", "push"}
    BY <1>11, FailStep
  <2>2. UNCHANGED inbox /\ (off => off')
    BY <1>11 DEF Fail
  <2>3. at'[r] = "push" => off'
    BY <1>11, FailStep DEF Fail
  <2>4. QED
    BY <2>1, <2>2, <2>3, BadgedMoves
<1>12. QED
  BY <1>1, <1>2, <1>3, <1>4, <1>5, <1>6, <1>7, <1>8, <1>9, <1>10, <1>11 DEF Serve

LEMMA BadgedReadAll ==
  ASSUME Typed, Badged, MarkAllRead
  PROVE  Badged'
<1> SUFFICES ASSUME ~off' PROVE Badged'
  BY DEF Badged
<1>1. Busy = {} /\ listed' = {} /\ UNCHANGED <<at, req>> /\ marking'
  BY DEF MarkAllRead, Busy
<1>2. Busy' = {} /\ \A s \in Request : at'[s] # "push"
  BY <1>1 DEF Busy, Active
<1>3. DOMAIN notes' = DOMAIN notes /\ \A i \in DOMAIN notes : notes'[i].read
  BY MarkAllStep DEF Typed
<1>4. {i \in DOMAIN notes' : ~notes'[i].read} = {}
  BY <1>3
<1>5. Unread' = 0
  BY <1>4, FS_EmptySet DEF Unread
<1>6. Waiting'
  BY <1>1 DEF Waiting
<1>7. QED
  BY <1>1, <1>2, <1>5, <1>6 DEF Badged

LEMMA BadgedList ==
  ASSUME Typed, Badged, NEW n, OpenList(n)
  PROVE  Badged'
<1> SUFFICES ASSUME ~off' PROVE Badged'
  BY DEF Badged
<1>1. /\ n = Unread /\ ~marking /\ Busy = {} /\ listed' = {n}
      /\ UNCHANGED <<at, req, notes, marking>>
  BY DEF OpenList, Busy
<1>2. Busy' = {} /\ \A s \in Request : at'[s] # "push"
  BY <1>1 DEF Busy, Active
<1>3. Unread' = Unread /\ Waiting'
  BY <1>1 DEF Unread, Waiting
<1>4. QED
  BY <1>1, <1>2, <1>3 DEF Badged

(* The answer arrives: the badge is the number it was to bring. *)
LEMMA BadgedAnswer ==
  ASSUME Typed, Badged, ReadAllAnswered \/ ListArrives
  PROVE  Badged'
<1>1. UNCHANGED <<notes, at, req, off>> /\ Waiting
  BY DEF ReadAllAnswered, ListArrives, Waiting, ghost
<1> SUFFICES ASSUME ~off PROVE Badged'
  BY <1>1 DEF Badged
<1>2. Busy = {} /\ listed \subseteq {Unread} /\ (marking => Unread = 0 /\ listed = {})
  BY <1>1, BadgedOf
<1>3. badge' = Unread /\ ~marking' /\ listed' = {}
  BY <1>2 DEF ReadAllAnswered, ListArrives
<1>4. Busy' = {} /\ \A s \in Request : at'[s] # "push"
  BY <1>1, <1>2 DEF Busy, Active
<1>5. Unread' = Unread /\ ~Waiting'
  BY <1>1, <1>3 DEF Unread, Waiting
<1>6. QED
  BY <1>3, <1>4, <1>5 DEF Badged

LEMMA BadgedAge ==
  ASSUME Typed, Badged, NEW j \in 1..MaxNotes, Age(j)
  PROVE  Badged'
<1>1. UNCHANGED <<badge, marking, listed, at, req, off>>
  BY DEF Age
<1>2. /\ DOMAIN notes' = DOMAIN notes
      /\ \A i \in DOMAIN notes : notes'[i].read = notes[i].read
  BY AgeStep DEF Typed
<1>3. {i \in DOMAIN notes' : ~notes'[i].read} = {i \in DOMAIN notes : ~notes[i].read}
  BY <1>2
<1>4. Unread' = Unread
  BY <1>3 DEF Unread
<1>5. Busy' = Busy /\ Unpushed' = Unpushed /\ Waiting' = Waiting
  BY <1>1 DEF Busy, Active, Unpushed, Waiting
<1>6. QED
  BY <1>1, <1>4, <1>5 DEF Badged

LEMMA BadgedStep == Typed /\ Badged /\ [Next]_vars => Badged'
<1> SUFFICES ASSUME Typed, Badged, [Next]_vars PROVE Badged'
  OBVIOUS
<1>1. ASSUME NEW r \in Request, NEW u \in User, StartUnreact(r, u) PROVE Badged'
  BY <1>1, UnreactStarts, BadgedStart
<1>2. ASSUME NEW r \in Request, NEW u \in User, NEW t \in Type, StartToggle(r, u, t) PROVE Badged'
  BY <1>2, BadgedStart DEF StartToggle
<1>3. ASSUME NEW r \in Request, Serve(r) PROVE Badged'
  BY <1>3, BadgedServe
<1>4. CASE MarkAllRead
  BY <1>4, BadgedReadAll
<1>5. CASE ReadAllFails \/ DeletePost
  BY <1>5 DEF ReadAllFails, DeletePost, Badged
<1>6. CASE ReadAllAnswered \/ ListArrives
  BY <1>6, BadgedAnswer
<1>7. ASSUME NEW n, OpenList(n) PROVE Badged'
  BY <1>7, BadgedList
<1>8. ASSUME NEW i \in 1..MaxNotes, Age(i) PROVE Badged'
  BY <1>8, BadgedAge
<1>9. ASSUME NEW i \in 1..MaxNotes, MarkRead(i) PROVE Badged'
  BY <1>9 DEF MarkRead, Badged
<1>10. CASE UNCHANGED vars
  BY <1>10 DEF vars, inbox, ghost, Badged, Busy, Active, Unpushed, Unread, Waiting
<1>11. QED
  BY <1>1, <1>2, <1>3, <1>4, <1>5, <1>6, <1>7, <1>8, <1>9, <1>10 DEF Next
-----------------------------------------------------------------------------
(* The theorems.                                                           *)

LEMMA InitIInv == Init => IInv
<1> SUFFICES ASSUME Init PROVE IInv
  OBVIOUS
<1>1. \A r \in Request : at[r] = "idle" /\ req[r] = NoLocal
  BY DEF Init
<1>2. Busy = {} /\ rows = {}
  BY <1>1 DEF Busy, Active, Init
<1>3. notes = <<>> /\ DOMAIN notes = {}
  BY DEF Init
<1>4. IsFiniteSet({}) /\ Cardinality({}) = 0
  BY FS_EmptySet
<1>5. TypeOK
  <2>1. at \in [Request -> Label] /\ req \in [Request -> Local]
    BY NoLocalType DEF Init, Label
  <2>2. notes \in Seq([actor : User, fresh : BOOLEAN, read : BOOLEAN])
    BY <1>3
  <2>3. QED
    BY <2>1, <2>2 DEF Init, TypeOK
<1>6. Typed
  BY <1>1, <1>2, <1>4, <1>5 DEF Typed, Tagged, Init
<1>7. Recounted
  BY <1>1, <1>2, <1>4 DEF Recounted, Active, Init
<1>8. Backed
  <2>1. ASSUME NEW u \in User PROVE NotesBy(u) = {} /\ Owed(u) = {} /\ added[u] = 0
    BY <1>1, <1>3 DEF NotesBy, Owed, Init
  <2>2. QED
    BY <1>4, <2>1 DEF Backed
<1>9. Spaced /\ Badged
  <2>1. Unread = 0
    <3>1. {i \in DOMAIN notes : ~notes[i].read} = {}
      BY <1>3
    <3>2. QED
      BY <1>4, <3>1 DEF Unread
  <2>2. \A u : Fresh(u) = {}
    BY <1>3 DEF Fresh
  <2>3. \A u \in User : Cardinality(Fresh(u)) <= 1
    BY <1>4, <2>2
  <2>4. QED
    BY <1>1, <1>2, <2>1, <2>3 DEF Spaced, Badged, Init
<1>10. QED
  BY <1>6, <1>7, <1>8, <1>9 DEF IInv

LEMMA Invariance == Spec => []IInv
<1>1. IInv /\ [Next]_vars => IInv'
  BY TypedStep, RecountedStep, BackedStep, SpacedStep, BadgedStep DEF IInv
<1>2. QED
  BY InitIInv, <1>1, PTL DEF Spec

(* Every variable keeps its type, for any number of users and requests.    *)
THEOREM TypeCorrect == Spec => []TypeOK
<1>1. IInv => TypeOK
  BY DEF IInv, Typed
<1>2. QED
  BY Invariance, <1>1, PTL

(* However many requests ran over each other, were cut off or failed, one  *)
(* more that runs alone leaves posts.reaction_count right, because         *)
(* recountReactions counts anew (model/reaction.go:122-135).               *)
THEOREM RecountsAlwaysRepair == Spec => []RecountsRepair
<1>1. IInv => RecountsRepair
  BY DEF IInv, Recounted, RecountsRepair
<1>2. QED
  BY Invariance, <1>1, PTL

(* The author is never told of a reaction that was not added, whatever the *)
(* interleaving, and of one user not twice in a minute, whatever others do, *)
(* unless that user's requests overlapped or the query for recent notes    *)
(* failed (handler/post.go:623-637, model/notification.go:43-64).           *)
THEOREM NoticesAlwaysTrue == Spec => []NoticesAreTrue
<1>1. IInv => NoticesAreBacked
  <2> SUFFICES ASSUME IInv, NEW u \in User PROVE Cardinality(NotesBy(u)) <= added[u]
    BY DEF NoticesAreBacked, NotesBy
  <2>1. Cardinality(NotesBy(u)) \in Nat /\ Cardinality(Owed(u)) \in Nat /\ added[u] \in Nat
    BY BackedFinite DEF IInv
  <2>2. Cardinality(NotesBy(u)) + Cardinality(Owed(u)) <= added[u]
    BY DEF IInv, Backed
  <2>3. QED
    BY <2>1, <2>2
<1>2. IInv => OneNoticeAMinute
  BY DEF IInv, Spaced, OneNoticeAMinute
<1>3. IInv => NoticesAreTrue
  BY <1>1, <1>2 DEF NoticesAreTrue
<1>4. QED
  BY Invariance, <1>3, PTL

(* Whatever overlapped, failed or was pushed out of order before, after one *)
(* notification, "mark all read" or list that nothing interfered with the   *)
(* badge shows the number of unread notes                                   *)
(* (handler/notification.go:35-42, golab.js:1294-1318).                     *)
THEOREM BadgeAlwaysFollows == Spec => []BadgeFollows
<1>1. IInv => BadgeFollows
  <2> SUFFICES ASSUME IInv, Quiet, ~Waiting, ~off PROVE badge = Unread
    BY DEF BadgeFollows
  <2>1. ~Unpushed
    BY DEF Quiet, Unpushed, Active
  <2>2. QED
    BY <2>1 DEF IInv, Badged
<1>2. QED
  BY Invariance, <1>1, PTL
=============================================================================
