------------------------------- MODULE Posts -------------------------------
(***************************************************************************)
(* Posts, replies, reposts, edits and mentions: internal/handler/post.go   *)
(* over internal/model/{post,mention,post_edit_history,tag}.go, with what  *)
(* one viewer who stays connected sees of them.                            *)
(*                                                                         *)
(* Requests run concurrently and each SQL statement commits on its own,    *)
(* except the edit's transaction.  One action is one statement, so any     *)
(* other request comes in between.  Any statement may fail, and without    *)
(* effect; the handler goes on along its error path.  A request whose      *)
(* context ends (client gone, 30 s timeout) is one whose later statements  *)
(* all fail.  Content is a value of Text with the active users it          *)
(* mentions; validation, rendering and channels are left out, and notices  *)
(* are sets: a repeated notification is not told apart.                    *)
(***************************************************************************)
EXTENDS Naturals, Sequences, FiniteSets

CONSTANTS
    User,
    PostId,          \* ids of the serial column, never given out twice
    Existing,        \* posts that are there when the requests start
    Text,            \* what can be written
    MentionedIn,     \* MentionedIn[t]: active users text t mentions
    Tag,
    Request,         \* requests, each served once
    None             \* no post, or the empty content of a repost

ASSUME PostsAssumption ==
    /\ User # {} /\ Existing \subseteq PostId /\ IsFiniteSet(PostId)
    /\ MentionedIn \in [Text -> SUBSET User]
    /\ None \notin PostId \cup Text \cup User \cup Request

VARIABLES
    live,        \* rows of posts
    used,        \* ids given out
    author, parent, repostOf, content, replyCount, repostCount,   \* columns of posts
    history,     \* history[p]: post_edit_history in insertion order
    mentions,    \* mentions[p]: users in the mentions table
    notices,     \* notices[p]: <<user, kind>> in the notifications table
    tagged,      \* tagged[p]: post_tags
    useCount,    \* tags.use_count
    read,        \* posts with rows in reading_events or topic_views
    lock,        \* lock[p]: the request holding p FOR UPDATE
    at,          \* at[r]: the statement r is about to run
    req,         \* req[r]: r's local variables
    card,        \* card[p]: what the viewer's card of p shows
    written,     \* written[p]: every content p ever had, in order
    rough,       \* posts whose last requests overlapped, or whose last one had a failure
    undone       \* <<p, s>>: statement s has failed in a request on p

columns == <<author, parent, repostOf, content>>
counts  == <<replyCount, repostCount, useCount>>
joined  == <<mentions, notices, tagged>>
edits   == <<history, written>>
ghost   == <<rough, undone>>
vars == <<live, used, columns, counts, joined, edits, read, lock, at, req, card, ghost>>

Op == {"create", "repost", "edit", "delete"}

Label == {"idle", "insert", "count", "reread", "tag", "bump", "mention", "notify",
          "notify parent", "publish", "begin", "lock", "save", "refetch", "sync", "unmention",
          "delete", "publish edit", "publish delete", "done", "refused"}

(* Statements that no later request makes up for. *)
Lasting == {"count", "reread", "bump", "mention", "notify"}

Local == [op : Op, user : User, post : PostId \cup {None}, parent : PostId \cup {None},
          text : Text \cup {None}, tags : SUBSET Tag, tag : Tag \cup {None},
          add : SUBSET User, drop : SUBSET User, told : SUBSET User,
          seen : Text \cup {None}]

TypeOK ==
    /\ live \subseteq used /\ used \subseteq PostId
    /\ author \in [PostId -> User]
    /\ parent \in [PostId -> PostId \cup {None}]
    /\ repostOf \in [PostId -> PostId \cup {None}]
    /\ content \in [PostId -> Text \cup {None}]
    /\ replyCount \in [PostId -> Nat] /\ repostCount \in [PostId -> Nat]
    /\ history \in [PostId -> Seq(Text \cup {None})]
    /\ mentions \in [PostId -> SUBSET User]
    /\ notices \in [PostId -> SUBSET (User \X {"mention", "reply"})]
    /\ tagged \in [PostId -> SUBSET Tag] /\ useCount \in [Tag -> Nat]
    /\ read \subseteq live
    /\ lock \in [PostId -> Request \cup {None}]
    /\ at \in [Request -> Label]
    /\ req \in [Request -> Local]
    /\ card \in [PostId -> Text \cup {None}]
    /\ written \in [PostId -> Seq(Text \cup {None})]
    /\ rough \subseteq PostId /\ undone \subseteq PostId \X Lasting

Active(r) == at[r] \notin {"idle", "done", "refused"}
Busy(p) == \E r \in Request : Active(r) /\ req[r].post = p

NoLocal == [op |-> "delete", user |-> CHOOSE u \in User : TRUE, post |-> None, parent |-> None,
            text |-> None, tags |-> {}, tag |-> None, add |-> {}, drop |-> {}, told |-> {},
            seen |-> None]

(* The existing posts are what undisturbed requests left behind. *)
Init ==
    /\ live = Existing /\ used = Existing
    /\ author \in [PostId -> {CHOOSE u \in User : TRUE}]
    /\ parent = [p \in PostId |-> None] /\ repostOf = [p \in PostId |-> None]
    /\ content \in {f \in [PostId -> Text \cup {None}] :
                        \A p \in PostId : f[p] = None <=> p \notin Existing}
    /\ replyCount = [p \in PostId |-> 0] /\ repostCount = [p \in PostId |-> 0]
    /\ history = [p \in PostId |-> <<>>]
    /\ mentions = [p \in PostId |-> IF p \in Existing THEN MentionedIn[content[p]] ELSE {}]
    /\ notices = [p \in PostId |-> (mentions[p] \ {author[p]}) \X {"mention"}]
    /\ tagged = [p \in PostId |-> {}] /\ useCount = [t \in Tag |-> 0]
    /\ read = {}
    /\ lock = [p \in PostId |-> None]
    /\ at = [r \in Request |-> "idle"] /\ req = [r \in Request |-> NoLocal]
    /\ card = content
    /\ written = [p \in PostId |-> IF p \in Existing THEN <<content[p]>> ELSE <<>>]
    /\ rough = {} /\ undone = {}
-----------------------------------------------------------------------------
(* Control of a request. *)

Step(r, from, to) ==
    /\ at[r] = from
    /\ at' = [at EXCEPT ![r] = to]

(* A statement with a foreign key to p, or one that changes p's row, waits *)
(* for the transaction that holds p FOR UPDATE.                            *)
Free(p) == p # None => lock[p] = None

(* A handler starts with local variables l.  An edit that comes alone makes *)
(* a fresh start with the post.                                            *)
Start(r, l, first) ==
    /\ at[r] = "idle"
    /\ at' = [at EXCEPT ![r] = first]
    /\ req' = [req EXCEPT ![r] = l]
    /\ rough' = IF l.post # None /\ Busy(l.post) THEN rough \cup {l.post}
                ELSE IF l.op = "edit" THEN rough \ {l.post} ELSE rough
    /\ UNCHANGED <<live, used, columns, counts, joined, edits, read, lock, card, undone>>
-----------------------------------------------------------------------------
(* Create and Repost. *)

(* Bound: as many posts as there are ids. *)
Room == Cardinality(PostId \ used) > Cardinality({r \in Request : at[r] = "insert"})

(* The parent is there: the other checks of Create read no state of these. *)
StartCreate(r, u, par, text, tags) ==
    /\ Room /\ par \in live \cup {None}
    /\ Start(r, [NoLocal EXCEPT !.op = "create", !.user = u, !.parent = par, !.text = text,
                                !.tags = tags, !.add = MentionedIn[text]], "insert")

StartRepost(r, u, original) ==
    /\ Room /\ original \in live
    /\ Start(r, [NoLocal EXCEPT !.op = "repost", !.user = u, !.parent = original], "insert")

(* INSERT INTO posts; the foreign key wants the parent (or the original).  *)
InsertRow(r, p) ==
    LET l == req[r] IN
    /\ Step(r, "insert", IF l.parent = None THEN "reread" ELSE "count")
    /\ Free(l.parent) /\ l.parent \in live \cup {None}
    /\ live' = live \cup {p} /\ used' = used \cup {p}
    /\ author' = [author EXCEPT ![p] = l.user]
    /\ content' = [content EXCEPT ![p] = l.text]
    /\ written' = [written EXCEPT ![p] = <<l.text>>]
    /\ parent' = [parent EXCEPT ![p] = IF l.op = "create" THEN l.parent ELSE None]
    /\ repostOf' = [repostOf EXCEPT ![p] = IF l.op = "repost" THEN l.parent ELSE None]
    /\ req' = [req EXCEPT ![r].post = p]
    /\ UNCHANGED <<counts, joined, history, read, lock, card, ghost>>

InsertPost(r) == \E p \in PostId \ used : InsertRow(r, p)

(* Mutant: the counter is forgotten. *)
ForgetCount(r) ==
    /\ Step(r, "count", "reread")
    /\ UNCHANGED <<live, used, columns, counts, joined, edits, read, lock, req, card, ghost>>

(* reply_count + 1 or repost_count + 1 of a row that may be gone by now. *)
CountChild(r) ==
    LET l == req[r] IN
    /\ Step(r, "count", "reread")
    /\ Free(l.parent)
    /\ IF l.op = "create"
       THEN /\ replyCount' = [p \in PostId |->
                    IF p = l.parent /\ p \in live THEN replyCount[p] + 1 ELSE replyCount[p]]
            /\ UNCHANGED repostCount
       ELSE /\ repostCount' = [p \in PostId |->
                    IF p = l.parent /\ p \in live THEN repostCount[p] + 1 ELSE repostCount[p]]
            /\ UNCHANGED replyCount
    /\ UNCHANGED <<live, used, columns, useCount, joined, edits, read, lock, req, card, ghost>>

(* FindByID of the new row; a repost is answered, and published to nobody. *)
RereadPost(r) ==
    /\ req[r].post \in live
    /\ Step(r, "reread", IF req[r].op = "repost" THEN "done" ELSE "tag")
    /\ req' = [req EXCEPT ![r].seen = content[req[r].post]]
    /\ UNCHANGED <<live, used, columns, counts, joined, edits, read, lock, card, ghost>>

(* AttachToPost: FindOrCreate has the tag ready; the row, then the counter. *)
AttachTag(r, t) ==
    LET p == req[r].post IN
    /\ t \in req[r].tags /\ p \in live /\ Free(p)
    /\ Step(r, "tag", "bump")
    /\ tagged' = [tagged EXCEPT ![p] = @ \cup {t}]
    /\ req' = [req EXCEPT ![r].tags = @ \ {t}, ![r].tag = t]
    /\ UNCHANGED <<live, used, columns, counts, mentions, notices, edits, read, lock, card, ghost>>

BumpTag(r) ==
    /\ Step(r, "bump", "tag")
    /\ useCount' = [useCount EXCEPT ![req[r].tag] = @ + 1]
    /\ UNCHANGED <<live, used, columns, replyCount, repostCount, joined, edits, read, lock,
                   req, card, ghost>>

TagsDone(r) ==
    /\ req[r].tags = {}
    /\ at[r] = "tag" /\ at' = [at EXCEPT ![r] = "mention"]
    /\ UNCHANGED <<live, used, columns, counts, joined, edits, read, lock, req, card, ghost>>

(* RecordMentions and SyncMentions insert one row per user, ON CONFLICT DO NOTHING. *)
AddMention(r, u) ==
    LET p == req[r].post IN
    /\ u \in req[r].add /\ p \in live /\ Free(p)
    /\ Step(r, "mention", "mention")
    /\ mentions' = [mentions EXCEPT ![p] = @ \cup {u}]
    /\ req' = [req EXCEPT ![r].add = @ \ {u}, ![r].told = @ \cup {u}]
    /\ UNCHANGED <<live, used, columns, counts, notices, tagged, edits, read, lock, card, ghost>>

(* Nobody is notified of a mention of their own. *)
MentionsDone(r) ==
    /\ req[r].add = {}
    /\ at[r] = "mention" /\ at' = [at EXCEPT ![r] = "notify"]
    /\ req' = [req EXCEPT ![r].told = @ \ {req[r].user}]
    /\ UNCHANGED <<live, used, columns, counts, joined, edits, read, lock, card, ghost>>

Notify(p, u, kind) == notices' = [notices EXCEPT ![p] = @ \cup {<<u, kind>>}]

NotifyMentioned(r, u) ==
    LET p == req[r].post IN
    /\ u \in req[r].told /\ p \in live /\ Free(p)
    /\ Step(r, "notify", "notify")
    /\ Notify(p, u, "mention")
    /\ req' = [req EXCEPT ![r].told = @ \ {u}]
    /\ UNCHANGED <<live, used, columns, counts, mentions, tagged, edits, read, lock, card, ghost>>

NotifyDone(r) ==
    /\ req[r].told = {}
    /\ at[r] = "notify"
    /\ at' = [at EXCEPT ![r] = IF req[r].op = "edit" THEN "publish edit" ELSE "notify parent"]
    /\ UNCHANGED <<live, used, columns, counts, joined, edits, read, lock, req, card, ghost>>

(* The parent's author hears of the reply, if the parent is still there.   *)
NotifyParent(r) ==
    LET p == req[r].post  q == req[r].parent IN
    /\ Step(r, "notify parent", "publish")
    /\ IF q \in live /\ author[q] # req[r].user
       THEN p \in live /\ Free(p) /\ Notify(p, author[q], "reply")
       ELSE UNCHANGED notices
    /\ UNCHANGED <<live, used, columns, counts, mentions, tagged, edits, read, lock, req,
                   card, ghost>>

(* PublishNewPost needs no database and happens even after the context is  *)
(* done; injectNewPost keeps a card that is already there.                 *)
PublishPost(r) ==
    LET p == req[r].post IN
    /\ at[r] = "publish" /\ at' = [at EXCEPT ![r] = "done"]
    /\ card' = IF card[p] = None THEN [card EXCEPT ![p] = req[r].seen] ELSE card
    /\ UNCHANGED <<live, used, columns, counts, joined, edits, read, lock, req, ghost>>
-----------------------------------------------------------------------------
(* Update. *)

StartEdit(r, u, p, text) ==
    /\ p \in live /\ author[p] = u
    /\ Start(r, [NoLocal EXCEPT !.op = "edit", !.user = u, !.post = p, !.text = text], "begin")

BeginEdit(r) ==
    /\ Step(r, "begin", "lock")
    /\ UNCHANGED <<live, used, columns, counts, joined, edits, read, lock, req, card, ghost>>

(* Mutant: SELECT content without FOR UPDATE. *)
ReadUnlocked(r) ==
    LET p == req[r].post IN
    /\ p \in live
    /\ Step(r, "lock", "save")
    /\ req' = [req EXCEPT ![r].seen = content[p]]
    /\ UNCHANGED <<live, used, columns, counts, joined, edits, read, lock, card, ghost>>

(* SELECT content ... FOR UPDATE *)
LockPost(r) ==
    LET p == req[r].post IN
    /\ p \in live /\ Free(p)
    /\ Step(r, "lock", "save")
    /\ lock' = [lock EXCEPT ![p] = r]
    /\ req' = [req EXCEPT ![r].seen = content[p]]
    /\ UNCHANGED <<live, used, columns, counts, joined, edits, read, card, ghost>>

(* The history row and the new content become visible with the COMMIT. *)
SaveEdit(r) ==
    LET l == req[r] IN
    /\ Step(r, "save", "refetch")
    /\ history' = [history EXCEPT ![l.post] = Append(@, l.seen)]
    /\ content' = [content EXCEPT ![l.post] = l.text]
    /\ written' = [written EXCEPT ![l.post] = Append(@, l.text)]
    /\ lock' = [lock EXCEPT ![l.post] = None]
    /\ UNCHANGED <<live, used, author, parent, repostOf, counts, joined, read, req, card, ghost>>

(* FindByID after the commit: what will be published. *)
Refetch(r) ==
    LET p == req[r].post IN
    /\ p \in live
    /\ Step(r, "refetch", "sync")
    /\ req' = [req EXCEPT ![r].seen = content[p]]
    /\ UNCHANGED <<live, used, columns, counts, joined, edits, read, lock, card, ghost>>

(* Mutant: mentions are only ever added. *)
LoadMentionsToAdd(r) ==
    /\ Step(r, "sync", "mention")
    /\ req' = [req EXCEPT ![r].add = MentionedIn[req[r].text] \ mentions[req[r].post]]
    /\ UNCHANGED <<live, used, columns, counts, joined, edits, read, lock, card, ghost>>

(* SyncMentions compares the stored mentions with those of the new content. *)
LoadMentions(r) ==
    LET have == mentions[req[r].post]  want == MentionedIn[req[r].text] IN
    /\ Step(r, "sync", IF have \subseteq want THEN "mention" ELSE "unmention")
    /\ req' = [req EXCEPT ![r].add = want \ have, ![r].drop = have \ want]
    /\ UNCHANGED <<live, used, columns, counts, joined, edits, read, lock, card, ghost>>

DropMentions(r) ==
    LET p == req[r].post IN
    /\ Step(r, "unmention", "mention")
    /\ mentions' = [mentions EXCEPT ![p] = @ \ req[r].drop]
    /\ UNCHANGED <<live, used, columns, counts, notices, tagged, edits, read, lock, req, card, ghost>>

(* PublishPostUpdated patches the card where there is one. *)
PublishEdit(r) ==
    LET p == req[r].post IN
    /\ at[r] = "publish edit" /\ at' = [at EXCEPT ![r] = "done"]
    /\ card' = IF card[p] # None THEN [card EXCEPT ![p] = req[r].seen] ELSE card
    /\ UNCHANGED <<live, used, columns, counts, joined, edits, read, lock, req, ghost>>
-----------------------------------------------------------------------------
(* Delete. *)

StartDelete(r, u, p) ==
    p \in used /\ Start(r, [NoLocal EXCEPT !.op = "delete", !.user = u, !.post = p], "delete")

(* What refers to p without ON DELETE CASCADE. *)
Referenced(p) == p \in read \/ \E q \in live : parent[q] = p \/ repostOf[q] = p

(* The row goes with its mentions, notifications, tags and edit history.   *)
RemovePost(r) ==
    LET p == req[r].post IN
    /\ Step(r, "delete", "publish delete")
    /\ live' = live \ {p}
    /\ parent' = [parent EXCEPT ![p] = None] /\ repostOf' = [repostOf EXCEPT ![p] = None]
    /\ content' = [content EXCEPT ![p] = None]
    /\ history' = [history EXCEPT ![p] = <<>>] /\ written' = [written EXCEPT ![p] = <<>>]
    /\ mentions' = [mentions EXCEPT ![p] = {}] /\ notices' = [notices EXCEPT ![p] = {}]
    /\ tagged' = [tagged EXCEPT ![p] = {}]
    /\ UNCHANGED <<used, author, counts, lock, req, card, ghost>>

(* Mutant: parent_id, repost_of_id and reading_events without foreign keys. *)
DeleteUnchecked(r) ==
    LET p == req[r].post IN
    /\ p \in live /\ author[p] = req[r].user /\ Free(p)
    /\ RemovePost(r) /\ UNCHANGED read

(* DELETE ... WHERE id AND author_id *)
DeletePost(r) ==
    LET p == req[r].post IN
    /\ p \in live /\ author[p] = req[r].user /\ Free(p)
    /\ ~Referenced(p)
    /\ RemovePost(r) /\ UNCHANGED read

(* No row deleted, or a foreign key refuses: 404 either way. *)
RefuseDelete(r) ==
    LET p == req[r].post IN
    /\ Step(r, "delete", "refused")
    /\ p \in live /\ author[p] = req[r].user => Free(p) /\ Referenced(p)
    /\ UNCHANGED <<live, used, columns, counts, joined, edits, read, lock, req, card, ghost>>

(* Mutant: the deletion is announced to nobody. *)
EndSilently(r) ==
    /\ at[r] = "publish delete" /\ at' = [at EXCEPT ![r] = "done"]
    /\ UNCHANGED <<live, used, columns, counts, joined, edits, read, lock, req, card, ghost>>

PublishDelete(r) ==
    /\ at[r] = "publish delete" /\ at' = [at EXCEPT ![r] = "done"]
    /\ card' = [card EXCEPT ![req[r].post] = None]
    /\ UNCHANGED <<live, used, columns, counts, joined, edits, read, lock, req, ghost>>
-----------------------------------------------------------------------------
(* What the handler does after an error: it gives up, or logs it and goes  *)
(* on with the next part of the request.                                   *)
AfterError(r) ==
    CASE at[r] \in {"insert", "count", "reread", "begin", "lock", "save", "refetch"} -> "done"
      [] at[r] \in {"tag", "bump"} -> "mention"
      [] at[r] = "mention" -> IF req[r].op = "edit" THEN "publish edit" ELSE "notify"
      [] at[r] \in {"sync", "unmention"} -> "publish edit"
      [] at[r] = "notify parent" -> "publish"
      [] at[r] = "delete" -> "refused"

(* What it still has to do then: RecordMentions returns whom it recorded,  *)
(* SyncMentions nobody.                                                    *)
Rest(r) ==
    LET l == req[r] IN
    IF at[r] \in {"tag", "bump"} THEN [l EXCEPT !.tags = {}]
    ELSE IF l.op = "create" THEN [l EXCEPT !.add = {}, !.told = @ \ {l.user}]
    ELSE [l EXCEPT !.add = {}, !.told = {}]

(* A statement fails: the context is done, a row it needs is gone, or the  *)
(* database has an error.  The transaction, if there is one, is rolled back. *)
Failing == {"insert", "count", "reread", "tag", "bump", "mention", "notify parent",
            "begin", "lock", "save", "refetch", "sync", "unmention", "delete"}

Fail(r) ==
    /\ at[r] \in Failing
    /\ at[r] = "tag" => req[r].tags # {}
    /\ at[r] = "mention" => req[r].add # {}
    /\ at' = [at EXCEPT ![r] = AfterError(r)]
    /\ req' = [req EXCEPT ![r] = Rest(r)]
    /\ lock' = [p \in PostId |-> IF lock[p] = r THEN None ELSE lock[p]]
    /\ rough' = rough \cup ({req[r].post} \ {None})
    /\ undone' = undone \cup (({req[r].post} \ {None}) \X ({at[r]} \cap Lasting))
    /\ UNCHANGED <<live, used, columns, counts, joined, edits, read, card>>

(* One notification is lost; the loop goes on with the next user. *)
LoseNotice(r, u) ==
    /\ u \in req[r].told
    /\ Step(r, "notify", "notify")
    /\ req' = [req EXCEPT ![r].told = @ \ {u}]
    /\ undone' = undone \cup {<<req[r].post, "notify">>}
    /\ UNCHANGED <<live, used, columns, counts, joined, edits, read, lock, card, rough>>

(* A heartbeat of the reading tracker records that p was read. *)
ReadPost(p) ==
    /\ p \in live \ read /\ Free(p)
    /\ read' = read \cup {p}
    /\ UNCHANGED <<live, used, columns, counts, joined, edits, lock, at, req, card, ghost>>
-----------------------------------------------------------------------------
Creating(r) == \/ InsertPost(r) \/ CountChild(r) \/ RereadPost(r)
               \/ \E t \in Tag : AttachTag(r, t)
               \/ BumpTag(r) \/ TagsDone(r)
               \/ \E u \in User : AddMention(r, u) \/ NotifyMentioned(r, u)
               \/ MentionsDone(r) \/ NotifyDone(r) \/ NotifyParent(r) \/ PublishPost(r)
Editing(r) == \/ BeginEdit(r) \/ LockPost(r) \/ SaveEdit(r) \/ Refetch(r) \/ LoadMentions(r)
              \/ DropMentions(r) \/ PublishEdit(r)
Deleting(r) == DeletePost(r) \/ RefuseDelete(r) \/ PublishDelete(r)
Serve(r) == Creating(r) \/ Editing(r) \/ Deleting(r) \/ Fail(r) \/ \E u \in User : LoseNotice(r, u)

Arrive(r) ==
    \E u \in User :
        \/ \E par \in PostId \cup {None}, text \in Text, tags \in SUBSET Tag :
                StartCreate(r, u, par, text, tags)
        \/ \E p \in PostId : StartRepost(r, u, p) \/ StartDelete(r, u, p)
        \/ \E p \in PostId, text \in Text : StartEdit(r, u, p, text)

Next ==
    \/ \E r \in Request : Arrive(r) \/ Serve(r)
    \/ \E p \in PostId : ReadPost(p)

Spec == Init /\ [][Next]_vars
-----------------------------------------------------------------------------
(* "so we never lose the pre-edit text" (handler/post.go:454-456): however *)
(* edits overlap, fail or are interrupted, the history and the post hold   *)
(* every content the post ever had, in the order they replaced each other. *)
NoTextLost ==
    \A p \in live : written[p] = Append(history[p], content[p])

(* A reply's parent and a repost's original are there as long as it is,    *)
(* although Create and Repost look them up before they insert              *)
(* (handler/post.go:165-177, 711-721; migration 003).                      *)
ThreadsIntact == \A p \in live : {parent[p], repostOf[p]} \subseteq live \cup {None}

(* Posts are counted in a statement of their own, and never taken off      *)
(* (model/post.go:123-133, 155-160; model/tag.go:155-177): a counter may be *)
(* too high, but whatever overlaps it misses no reply, repost or tag except *)
(* one whose own count is still to come or has failed.                     *)
Counted(q) == <<q, "count">> \notin undone /\ \A r \in Request : at[r] = "count" => req[r].post # q
Bumped(q, t) ==
    /\ <<q, "bump">> \notin undone
    /\ \A r \in Request : at[r] = "bump" /\ req[r].tag = t => req[r].post # q

CountsCover ==
    /\ \A p \in live :
        /\ Cardinality({q \in live : parent[q] = p /\ Counted(q)}) <= replyCount[p]
        /\ Cardinality({q \in live : repostOf[q] = p /\ Counted(q)}) <= repostCount[p]
    /\ \A t \in Tag : Cardinality({q \in live : t \in tagged[q] /\ Bumped(q, t)}) <= useCount[t]

(* However requests overlapped, and whatever failed in them, an edit that   *)
(* runs alone and undisturbed, or a creation that does, leaves the post     *)
(* mentioning exactly whom its content mentions; and nobody is mentioned    *)
(* but not told, except the author or where recording or telling has failed *)
(* (model/mention.go:91-155, handler/post.go:545-560).                     *)
MentionsMatch ==
    \A p \in live : ~Busy(p) =>
        /\ p \notin rough => mentions[p] = IF content[p] = None THEN {} ELSE MentionedIn[content[p]]
        /\ undone \cap ({p} \X {"mention", "notify"}) = {} =>
               (mentions[p] \ {author[p]}) \X {"mention"} \subseteq notices[p]

(* Such an edit or creation leaves every viewer with the card as it is      *)
(* stored, or without one if the creation gave up before it published; and  *)
(* no viewer keeps a card of a deleted post: "every open feed removes the   *)
(* zombie card without a reload" (handler/post.go:443-447, 573-589).        *)
ViewersMatch ==
    \A p \in PostId \ rough : ~Busy(p) =>
        \/ card[p] = IF p \in live /\ repostOf[p] = None THEN content[p] ELSE None
        \/ card[p] = None /\ undone \cap ({p} \X {"count", "reread"}) # {}

(* An edit that fails or loses its client gives its row lock back          *)
(* (model/post.go:378-380): whoever holds one is about to commit, so no    *)
(* other request waits for a holder that has gone.                         *)
LocksAreReleased ==
    \A p \in PostId : lock[p] # None => at[lock[p]] = "save" /\ req[lock[p]].post = p

(* Overlapping edits of a post take turns: no text is lost and no lock kept. *)
EditsSerialise == NoTextLost /\ LocksAreReleased
=============================================================================
