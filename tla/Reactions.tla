----------------------------- MODULE Reactions -----------------------------
(***************************************************************************)
(* Reactions to one post, its cached reaction_count, and the notifications *)
(* and badge of its author: React and Unreact of internal/handler/post.go, *)
(* internal/model/reaction.go, handler/notification.go and                 *)
(* model/notification.go.  Every statement commits on its own.  The        *)
(* recount is one statement but two steps: under READ COMMITTED it counts  *)
(* in the snapshot it starts with and writes when it gets the row.  Any     *)
(* statement may fail, and without effect; a request whose context is done  *)
(* is one whose later statements all fail.                                 *)
(***************************************************************************)
EXTENDS Naturals, Sequences, FiniteSets

CONSTANTS
    User,
    Author,          \* author of the post
    Type,            \* reaction types; React maps any other to "heart"
    Request,         \* requests that react, each served once
    MaxNotes         \* bound on the notifications in a behaviour

ASSUME ReactionsAssumption == Author \in User /\ Type # {} /\ MaxNotes \in Nat

VARIABLES
    post,        \* the post exists
    rows,        \* reactions: <<user, type>>
    count,       \* posts.reaction_count
    notes,       \* notifications of the author by id; fresh: at most 60 s old
    badge,       \* the unread count in the author's browser
    marking,     \* the author's "mark all read" has been done but not answered
    listed,      \* the unread count in a list of notifications that is on its way
    at, req,     \* the requests: next statement and local variables
    added,       \* added[u]: reactions u really added so far
    alone,       \* requests that no other one has overlapped
    sure,        \* the last recount was of a request alone, none changed rows since
    rough,       \* users whose requests overlapped, or asked for recent notes in vain
    off          \* what the author's browser last heard of is not all that happened

table == <<post, rows, count>>
inbox == <<notes, badge, marking, listed>>
ghost == <<added, alone, sure, rough, off>>
vars == <<table, inbox, at, req, ghost>>

Label == {"idle", "look", "insert", "delete", "delete all", "snapshot", "write", "recent", "note",
          "unread", "push", "done"}
Local == [user : User, type : Type, result : {"", "added", "removed"}, seen : Nat]

TypeOK ==
    /\ post \in BOOLEAN
    /\ rows \subseteq User \X Type
    /\ count \in Nat
    /\ notes \in Seq([actor : User, fresh : BOOLEAN, read : BOOLEAN])
    /\ badge \in Nat
    /\ marking \in BOOLEAN /\ listed \subseteq Nat
    /\ at \in [Request -> Label] /\ req \in [Request -> Local]
    /\ added \in [User -> Nat]
    /\ alone \subseteq Request
    /\ sure \in BOOLEAN /\ rough \subseteq User /\ off \in BOOLEAN

(* A request without a type of its own has some type that is never read. *)
NoLocal == [user |-> Author, type |-> CHOOSE t \in Type : TRUE, result |-> "", seen |-> 0]

Init ==
    /\ post = TRUE /\ rows = {} /\ count = 0
    /\ notes = <<>> /\ badge = 0 /\ marking = FALSE /\ listed = {}
    /\ at = [r \in Request |-> "idle"] /\ req = [r \in Request |-> NoLocal]
    /\ added = [u \in User |-> 0] /\ alone = Request /\ sure = TRUE
    /\ rough = {} /\ off = FALSE

Active(r) == at[r] \notin {"idle", "done"}
Waiting == marking \/ listed # {}
Unread == Cardinality({i \in DOMAIN notes : ~notes[i].read})
Fresh(u) == {i \in DOMAIN notes : notes[i].actor = u /\ notes[i].fresh}
-----------------------------------------------------------------------------
(* A handler that returns forgets its local variables. *)
Goto(r, to, local) ==
    /\ at' = [at EXCEPT ![r] = to]
    /\ req' = [req EXCEPT ![r] = IF to = "done" THEN NoLocal ELSE local]

(* A statement succeeds. *)
Step(r, from, to, local) == at[r] = from /\ Goto(r, to, local)

Start(r, u, t, first) ==
    LET others == {s \in Request : Active(s)} IN
    /\ at[r] = "idle"
    /\ Goto(r, first, [NoLocal EXCEPT !.user = u, !.type = t])
    /\ alone' = IF others = {} THEN alone ELSE alone \ (others \cup {r})
    /\ rough' = IF \E s \in others : req[s].user = u THEN rough \cup {u} ELSE rough
    /\ off' = (off \/ others # {} \/ Waiting)
    /\ UNCHANGED <<table, inbox, added, sure>>

StartToggle(r, u, t) == Start(r, u, t, "look")
StartUnreact(r, u) == Start(r, u, NoLocal.type, "delete all")
-----------------------------------------------------------------------------
(* ReactionStore.Toggle and Unreact. *)

Look(r) ==
    /\ Step(r, "look", IF <<req[r].user, req[r].type>> \in rows THEN "delete" ELSE "insert", req[r])
    /\ UNCHANGED <<table, inbox, ghost>>

(* The primary key refuses a row that another request inserted since Look. *)
Insert(r) ==
    LET row == <<req[r].user, req[r].type>> IN
    /\ post /\ row \notin rows
    /\ Step(r, "insert", "snapshot", [req[r] EXCEPT !.result = "added"])
    /\ rows' = rows \cup {row} /\ sure' = FALSE
    /\ added' = [added EXCEPT ![req[r].user] = @ + 1]
    /\ UNCHANGED <<post, count, inbox, alone, rough, off>>

(* The row may be gone already; Toggle answers "removed" all the same. *)
Delete(r) ==
    /\ Step(r, "delete", "snapshot", [req[r] EXCEPT !.result = "removed"])
    /\ rows' = rows \ {<<req[r].user, req[r].type>>} /\ sure' = FALSE
    /\ UNCHANGED <<post, count, inbox, added, alone, rough, off>>

DeleteAll(r) ==
    /\ Step(r, "delete all", "snapshot", req[r])
    /\ rows' = {x \in rows : x[1] # req[r].user} /\ sure' = FALSE
    /\ UNCHANGED <<post, count, inbox, added, alone, rough, off>>

Snapshot(r) ==
    /\ Step(r, "snapshot", "write", [req[r] EXCEPT !.seen = Cardinality(rows)])
    /\ UNCHANGED <<table, inbox, ghost>>

(* Mutant: the count follows each change instead of being counted anew. *)
WriteDelta(r) ==
    /\ Step(r, "write", IF req[r].result = "added" /\ post /\ req[r].user # Author
                        THEN "recent" ELSE "done", req[r])
    /\ count' = IF req[r].result = "added" THEN count + 1 ELSE count - 1
    /\ sure' = (sure \/ r \in alone)
    /\ UNCHANGED <<post, rows, inbox, added, alone, rough, off>>

(* Only an added reaction goes on to NotifDispatch, and not the author's own. *)
Write(r) ==
    /\ Step(r, "write", IF req[r].result = "added" /\ post /\ req[r].user # Author
                        THEN "recent" ELSE "done", req[r])
    /\ count' = IF post THEN req[r].seen ELSE count
    /\ sure' = (sure \/ r \in alone)
    /\ UNCHANGED <<post, rows, inbox, added, alone, rough, off>>
-----------------------------------------------------------------------------
(* NotifDispatch.Notify and NotificationStore.Create. *)

(* Mutant: no collapsing of duplicates. *)
AlwaysNotify(r) ==
    /\ Step(r, "recent", "note", req[r])
    /\ UNCHANGED <<table, inbox, ghost>>

(* The same actor within 60 s counts once. *)
CheckRecent(r) ==
    /\ Step(r, "recent", IF Fresh(req[r].user) = {} THEN "note" ELSE "done", req[r])
    /\ UNCHANGED <<table, inbox, ghost>>

CreateNote(r) ==
    /\ post /\ Len(notes) < MaxNotes
    /\ Step(r, "note", "unread", req[r])
    /\ off' = (Waiting \/ \E s \in Request \ {r} : Active(s))
    /\ notes' = Append(notes, [actor |-> req[r].user, fresh |-> TRUE, read |-> FALSE])
    /\ UNCHANGED <<table, badge, marking, listed, added, alone, sure, rough>>

CountUnread(r) ==
    /\ Step(r, "unread", "push", [req[r] EXCEPT !.seen = Unread])
    /\ UNCHANGED <<table, inbox, ghost>>

(* Mutant: each push is one more. *)
PushIncrement(r) ==
    /\ at[r] = "push" /\ Goto(r, "done", req[r])
    /\ badge' = badge + Unread
    /\ UNCHANGED <<table, notes, marking, listed, ghost>>

(* PublishToUser needs no database: it happens even when the context is done. *)
Push(r) ==
    /\ at[r] = "push" /\ Goto(r, "done", req[r])
    /\ badge' = req[r].seen
    /\ UNCHANGED <<table, notes, marking, listed, ghost>>

(* A statement fails, as the insert does when the row is there or the post *)
(* is gone.  The handler gives up; but an error of UnreadCount is dropped  *)
(* and its zero pushed, and one of the query for recent notes is dropped   *)
(* and the note written.  FindByID before it fails like any other.         *)
Fail(r) ==
    /\ \/ at[r] = "unread" /\ Goto(r, "push", [req[r] EXCEPT !.seen = 0])
          /\ off' = TRUE /\ UNCHANGED rough
       \/ at[r] = "recent" /\ Goto(r, "note", req[r])
          /\ rough' = rough \cup {req[r].user} /\ UNCHANGED off
       \/ Active(r) /\ at[r] \notin {"unread", "push"} /\ Goto(r, "done", req[r])
          /\ UNCHANGED <<rough, off>>
    /\ UNCHANGED <<table, inbox, added, alone, sure>>
-----------------------------------------------------------------------------
(* The author's inbox, and the passing of time. *)

(* POST read-all, and the browser's zero once it is answered, even if the *)
(* answer is an error.                                                     *)
MarkAllRead ==
    /\ ~marking /\ marking' = TRUE
    /\ notes' = [i \in DOMAIN notes |-> [notes[i] EXCEPT !.read = TRUE]]
    /\ off' = (listed # {} \/ \E r \in Request : Active(r))
    /\ UNCHANGED <<table, badge, listed, at, req, added, alone, sure, rough>>

ReadAllFails ==
    /\ ~marking /\ marking' = TRUE
    /\ off' = TRUE
    /\ UNCHANGED <<table, notes, badge, listed, at, req, added, alone, sure, rough>>

ReadAllAnswered ==
    /\ marking /\ marking' = FALSE
    /\ badge' = 0
    /\ UNCHANGED <<table, notes, listed, at, req, ghost>>

(* The author opens the list, which brings the unread count with it: zero  *)
(* when counting failed.                                                   *)
OpenList(n) ==
    /\ listed = {} /\ listed' = {n}
    /\ off' = (n # Unread \/ marking \/ \E r \in Request : Active(r))
    /\ UNCHANGED <<table, notes, badge, marking, at, req, added, alone, sure, rough>>

ListArrives ==
    /\ listed # {} /\ listed' = {}
    /\ badge' \in listed
    /\ UNCHANGED <<table, notes, marking, at, req, ghost>>

(* POST {id}/read does not touch the badge. *)
MarkRead(i) ==
    /\ i \in DOMAIN notes /\ ~notes[i].read
    /\ notes' = [notes EXCEPT ![i].read = TRUE]
    /\ off' = TRUE
    /\ UNCHANGED <<table, badge, marking, listed, at, req, added, alone, sure, rough>>

(* The oldest notification becomes more than a minute old. *)
Age(i) ==
    /\ i \in DOMAIN notes /\ notes[i].fresh
    /\ \A j \in 1..(i - 1) : ~notes[j].fresh
    /\ notes' = [notes EXCEPT ![i].fresh = FALSE]
    /\ rough' = {u \in rough : \/ Fresh(u) \ {i} # {}
                              \/ \E r \in Request : Active(r) /\ req[r].user = u}
    /\ UNCHANGED <<table, badge, marking, listed, at, req, added, alone, sure, off>>

(* Reactions and notifications go with the post (ON DELETE CASCADE). *)
DeletePost ==
    /\ post /\ post' = FALSE
    /\ rows' = {} /\ notes' = <<>>
    /\ off' = TRUE
    /\ UNCHANGED <<count, badge, marking, listed, at, req, added, alone, sure, rough>>
-----------------------------------------------------------------------------
Serve(r) == \/ Look(r) \/ Insert(r) \/ Delete(r) \/ DeleteAll(r) \/ Snapshot(r) \/ Write(r)
            \/ CheckRecent(r) \/ CreateNote(r) \/ CountUnread(r) \/ Push(r) \/ Fail(r)

Next ==
    \/ \E r \in Request :
        \/ \E u \in User : StartUnreact(r, u) \/ \E t \in Type : StartToggle(r, u, t)
        \/ Serve(r)
    \/ MarkAllRead \/ ReadAllFails \/ ReadAllAnswered
    \/ OpenList(Unread) \/ OpenList(0) \/ ListArrives \/ DeletePost
    \/ \E i \in 1..MaxNotes : MarkRead(i) \/ Age(i)

Spec == Init /\ [][Next]_vars
-----------------------------------------------------------------------------
Quiet == \A r \in Request : ~Active(r)

(* A recount by a request that nothing overlapped repairs the cached count, *)
(* whatever earlier requests left behind (model/reaction.go:122-135).       *)
RecountsRepair == post /\ Quiet /\ sure => count = Cardinality(rows)

(* No one is told more often that a user reacted than the user really       *)
(* added a reaction: a second click that the primary key refuses notifies   *)
(* nobody (handler/post.go:623-637).                                        *)
NoticesAreBacked ==
    \A u \in User : Cardinality({i \in DOMAIN notes : notes[i].actor = u}) <= added[u]

(* "dedupes within 60s so fast add/remove/add can't spam the author"        *)
(* (handler/post.go:630-632), whoever else reacts beside it.  Only requests *)
(* of one user that overlap, or a failed query, can get a second note       *)
(* written, and once those notes are old the promise holds again.           *)
OneNoticeAMinute == \A u \in User \ rough : Cardinality(Fresh(u)) <= 1

(* The author is told of what happened, once: the two above.                *)
NoticesAreTrue == NoticesAreBacked /\ OneNoticeAMinute

(* However requests overlapped, failed or pushed an older count last, the   *)
(* next notification of a request that runs alone puts the author's badge   *)
(* right, and so do "mark all read" and opening the list, which the author  *)
(* does while nothing else runs                                             *)
(* (handler/notification.go:35-42, golab.js:1294-1318).                     *)
BadgeFollows == Quiet /\ ~Waiting /\ ~off => badge = Unread
=============================================================================
