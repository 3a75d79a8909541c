----------------------------- MODULE PostsProofs -----------------------------
(***************************************************************************)
(* Proofs about Posts, in layers: where a request is and what it works on, *)
(* the row locks and the edit history, the threads, what holds of every    *)
(* post and request however they overlap, what calm posts look like, and   *)
(* the counters.                                                           *)
(***************************************************************************)
EXTENDS Posts, FiniteSetTheorems, TLAPS

USE DEF ghost

CreateLabel == {"insert", "count", "reread", "tag", "bump", "notify parent", "publish"}
EditLabel == {"begin", "lock", "save", "refetch", "sync", "unmention", "publish edit"}

(* A request at a statement has what the statement works on. *)
Position(r) ==
    LET l == req[r] IN
    /\ at[r] \in CreateLabel => l.op \in {"create", "repost"}
    /\ at[r] \in {"tag", "bump", "notify parent", "publish"} => l.op = "create"
    /\ at[r] \in EditLabel => l.op = "edit"
    /\ at[r] \in {"mention", "notify"} => l.op \in {"create", "edit"}
    /\ at[r] \in {"delete", "publish delete"} => l.op = "delete"
    /\ IF at[r] = "insert" THEN l.post = None ELSE Active(r) => l.post \in used
    /\ l.op \in {"create", "edit"} => l.text \in Text
    /\ l.op = "repost" => l.text = None
    /\ at[r] = "bump" => l.tag \in Tag
    /\ at[r] = "count" => l.parent \in PostId

Typed == TypeOK /\ \A r \in Request : Position(r)

(* Whoever holds a row is about to save it, has read what is in it, and    *)
(* whoever is about to save holds it.                                      *)
Locked(p) ==
    lock[p] # None =>
        /\ at[lock[p]] = "save" /\ req[lock[p]].post = p
        /\ p \in live /\ req[lock[p]].seen = content[p]
Holding(r) == at[r] = "save" => lock[req[r].post] = r
Unused(p) == p \notin used => history[p] = <<>>

Serialised ==
    /\ \A p \in PostId : Locked(p) /\ Unused(p)
    /\ \A r \in Request : Holding(r)
    /\ NoTextLost

(* What a request has from its start, whoever disturbs its post.           *)
Showing == {"tag", "bump", "mention", "notify", "notify parent", "publish",
            "sync", "unmention", "publish edit"}
Joint == {"mention", "notify"}
Unpublished(r) == at[r] \in CreateLabel \ {"insert"} \/ (at[r] \in Joint /\ req[r].op = "create")
Saved(r) == at[r] \in EditLabel \ {"begin", "lock", "save"} \/ (at[r] \in Joint /\ req[r].op = "edit")

Ready(r) ==
    LET l == req[r]  p == l.post IN
    /\ at[r] = "insert" => /\ l.add = IF l.text = None THEN {} ELSE MentionedIn[l.text]
                           /\ l.op = "repost" => l.parent # None
    /\ Active(r) /\ at[r] # "insert" =>
         /\ l.op \in {"create", "edit"} => author[p] = l.user
         /\ l.op = "create" => repostOf[p] = None
         /\ l.op = "repost" /\ p \in live => repostOf[p] # None
    /\ at[r] \in Showing /\ p \in live /\ repostOf[p] = None => l.seen \in Text
    /\ at[r] = "publish delete" => p \notin live

(* An id that is not given out has nothing, and a post has a content.      *)
Stored(p) ==
    /\ p \notin used => mentions[p] = {} /\ card[p] = None /\ tagged[p] = {}
    /\ p \in live /\ repostOf[p] = None => content[p] \in Text

(* A post without a card is a repost, or one whose creation has not come   *)
(* to publish it or gave up before.                                        *)
GaveUp(p) == undone \cap ({p} \X {"count", "reread"}) # {}
Carded(p) ==
    /\ repostOf[p] # None => card[p] = None
    /\ p \in live /\ repostOf[p] = None /\ card[p] = None =>
         GaveUp(p) \/ \E r \in Request : Unpublished(r) /\ req[r].post = p

(* Whoever is mentioned has been told, or some request is about to.        *)
Untold(p) == undone \cap ({p} \X {"mention", "notify"}) # {}
Telling(p, u) == \E r \in Request : at[r] \in Joint /\ req[r].post = p /\ u \in req[r].told
Tells(p) ==
    p \in live /\ ~Untold(p) =>
        \A u \in mentions[p] \ {author[p]} : <<u, "mention">> \in notices[p] \/ Telling(p, u)

Basics ==
    /\ \A r \in Request : Ready(r)
    /\ \A p \in PostId : Stored(p) /\ Carded(p) /\ Tells(p)

(* Requests on the same post that overlap have made it rough.              *)
Alone(r) ==
    LET p == req[r].post IN
    Active(r) /\ p # None /\ p \notin rough =>
        \A s \in Request \ {r} : Active(s) => req[s].post # p

(* What is true of the request that works on a post nobody else disturbs.  *)
Wanted(p) == IF content[p] = None THEN {} ELSE MentionedIn[content[p]]
Matched(p) == mentions[p] = Wanted(p)

MentionsAt(r) ==
    LET l == req[r]  p == l.post IN
    /\ at[r] \in {"count", "reread", "tag", "bump"} =>
         content[p] = l.text /\ mentions[p] = {} /\ l.add = Wanted(p)
    /\ at[r] \in {"refetch", "sync"} => content[p] = l.text
    /\ at[r] = "unmention" =>
         content[p] = l.text /\ (mentions[p] \ l.drop) \cup l.add = Wanted(p)
    /\ at[r] = "mention" => mentions[p] \cup l.add = Wanted(p)
    /\ at[r] \in {"notify", "notify parent", "publish", "publish edit"} => Matched(p)
    /\ at[r] = "delete" /\ p \in live => Matched(p)

Shows(p) ==
    \/ card[p] = IF p \in live /\ repostOf[p] = None THEN content[p] ELSE None
    \/ card[p] = None /\ GaveUp(p)

ViewAt(r) ==
    LET l == req[r]  p == l.post IN
    /\ Unpublished(r) =>
         card[p] = None /\ content[p] = l.text /\ (at[r] \in Showing => l.seen = l.text)
    /\ Saved(r) => content[p] = l.text /\ (at[r] # "refetch" => l.seen = l.text)
    /\ at[r] = "delete" => Shows(p)

Undisturbed(r) ==
    Active(r) /\ req[r].post # None /\ req[r].post \notin rough
       => /\ MentionsAt(r) /\ ViewAt(r)
          /\ at[r] \notin {"delete", "publish delete"} => req[r].post \in live

Settled(p) == p \notin rough /\ ~Busy(p) => (p \in live => Matched(p)) /\ Shows(p)

Calmness ==
    /\ \A r \in Request : Alone(r) /\ Undisturbed(r)
    /\ \A p \in PostId : Settled(p)

Replies(p) == {q \in live : parent[q] = p /\ Counted(q)}
Reposts(p) == {q \in live : repostOf[q] = p /\ Counted(q)}
Taggings(t) == {q \in live : t \in tagged[q] /\ Bumped(q, t)}

(* A request about to count has linked its post to what it counts.         *)
Linked(r) ==
    LET l == req[r] IN
    at[r] = "count" /\ l.post \in live =>
        /\ parent[l.post] = IF l.op = "create" THEN l.parent ELSE None
        /\ repostOf[l.post] = IF l.op = "create" THEN None ELSE l.parent

Sums ==
    /\ \A p \in live : /\ Cardinality(Replies(p)) <= replyCount[p]
                       /\ Cardinality(Reposts(p)) <= repostCount[p]
    /\ \A t \in Tag : Cardinality(Taggings(t)) <= useCount[t]

IInv == Typed /\ Serialised /\ ThreadsIntact /\ Basics /\ Calmness /\ Sums
        /\ \A r \in Request : Linked(r)
-----------------------------------------------------------------------------
(* Types and positions. *)

LEMMA NoLocalType == NoLocal \in Local /\ NoLocal.post = None
BY PostsAssumption DEF NoLocal, Local, Op

(* A step of r leaves the other requests where they are. *)
LEMMA MoveTyped ==
    ASSUME Typed, NEW r \in Request, NEW to \in Label, NEW l \in Local,
           at' = [at EXCEPT ![r] = to], req' = [req EXCEPT ![r] = l],
           used \subseteq used', Position(r)'
    PROVE  /\ at' \in [Request -> Label] /\ req' \in [Request -> Local]
           /\ \A s \in Request : Position(s)'
<1>1. at' \in [Request -> Label] /\ req' \in [Request -> Local]
  BY DEF Typed, TypeOK
<1>2. ASSUME NEW s \in Request, s # r
      PROVE  Position(s)'
  <2>1. at'[s] = at[s] /\ req'[s] = req[s] /\ Position(s)
    BY <1>2 DEF Typed, TypeOK
  <2>2. QED  BY <2>1 DEF Position, Active
<1>3. QED  BY <1>1, <1>2

(* A statement that moves r on and keeps its local variables. *)
LEMMA StepTyped ==
    ASSUME Typed, NEW r \in Request, NEW from, NEW to \in Label,
           at[r] = from, at' = [at EXCEPT ![r] = to], req' = req, used \subseteq used',
           Position(r)'
    PROVE  /\ at' \in [Request -> Label] /\ req' \in [Request -> Local]
           /\ \A s \in Request : Position(s)'
<1>1. req[r] \in Local /\ req' = [req EXCEPT ![r] = req[r]]
  BY DEF Typed, TypeOK
<1>2. QED  BY <1>1, MoveTyped

LEMMA StartTyped ==
    ASSUME Typed, NEW r \in Request, NEW l \in Local, NEW first \in Label, Start(r, l, first),
           Position(r)'
    PROVE  Typed'
<1>1. at' \in [Request -> Label] /\ req' \in [Request -> Local] /\ \A s \in Request : Position(s)'
  BY MoveTyped DEF Start
<1>2. rough' \subseteq PostId
  BY DEF Start, Typed, TypeOK, Local
<1>3. QED  BY <1>1, <1>2 DEF Start, Typed, TypeOK, columns, counts, joined, edits

(* What a handler starts with. *)
Opening(l, first) ==
    \/ /\ first = "insert" /\ l.post = None /\ l.told = {}
       /\ \/ l.op = "create" /\ l.text \in Text /\ l.add = MentionedIn[l.text]
          \/ l.op = "repost" /\ l.text = None /\ l.add = {} /\ l.parent # None
    \/ first = "begin" /\ l.op = "edit" /\ l.text \in Text /\ l.post \in live /\ l.told = {}
       /\ author[l.post] = l.user
    \/ first = "delete" /\ l.op = "delete" /\ l.post \in used

LEMMA ArriveStarts ==
    ASSUME Typed, NEW r \in Request, Arrive(r)
    PROVE  \E l \in Local, first \in Label : Start(r, l, first) /\ Opening(l, first)
<1> USE NoLocalType
<1>1. PICK u \in User :
        \/ \E par \in PostId \cup {None}, text \in Text, tags \in SUBSET Tag :
                StartCreate(r, u, par, text, tags)
        \/ \E p \in PostId : StartRepost(r, u, p) \/ StartDelete(r, u, p)
        \/ \E p \in PostId, text \in Text : StartEdit(r, u, p, text)
  BY DEF Arrive
<1>2. NoLocal.told = {} /\ NoLocal.text = None /\ NoLocal.add = {}
  BY DEF NoLocal
<1>3. ASSUME NEW par \in PostId \cup {None}, NEW text \in Text, NEW tags \in SUBSET Tag,
             StartCreate(r, u, par, text, tags)
      PROVE  \E l \in Local, first \in Label : Start(r, l, first) /\ Opening(l, first)
  <2> DEFINE l == [NoLocal EXCEPT !.op = "create", !.user = u, !.parent = par, !.text = text,
                                  !.tags = tags, !.add = MentionedIn[text]]
  <2>1. l \in Local /\ l.op = "create" /\ l.post = None /\ l.text = text
        /\ l.add = MentionedIn[text] /\ l.told = {}
    BY <1>2, PostsAssumption DEF Local, Op
  <2>2. Start(r, l, "insert") /\ "insert" \in Label
    BY <1>3 DEF StartCreate, Label
  <2> HIDE DEF l
  <2>3. Opening(l, "insert")
    BY <2>1 DEF Opening
  <2>4. QED  BY <2>1, <2>2, <2>3
<1>4. ASSUME NEW p \in PostId, StartRepost(r, u, p)
      PROVE  \E l \in Local, first \in Label : Start(r, l, first) /\ Opening(l, first)
  <2> DEFINE l == [NoLocal EXCEPT !.op = "repost", !.user = u, !.parent = p]
  <2>1. l \in Local /\ l.op = "repost" /\ l.post = None /\ l.text = None /\ l.add = {}
        /\ l.told = {} /\ l.parent = p /\ p # None
    BY <1>2, PostsAssumption DEF Local, Op
  <2>2. Start(r, l, "insert") /\ "insert" \in Label
    BY <1>4 DEF StartRepost, Label
  <2> HIDE DEF l
  <2>3. Opening(l, "insert")
    BY <2>1 DEF Opening
  <2>4. QED  BY <2>1, <2>2, <2>3
<1>5. ASSUME NEW p \in PostId, StartDelete(r, u, p)
      PROVE  \E l \in Local, first \in Label : Start(r, l, first) /\ Opening(l, first)
  <2> DEFINE l == [NoLocal EXCEPT !.op = "delete", !.user = u, !.post = p]
  <2>1. l \in Local /\ l.op = "delete" /\ l.post = p
    BY DEF Local, Op
  <2>2. Start(r, l, "delete") /\ "delete" \in Label /\ p \in used
    BY <1>5 DEF StartDelete, Label
  <2> HIDE DEF l
  <2>3. Opening(l, "delete")
    BY <2>1, <2>2 DEF Opening
  <2>4. QED  BY <2>1, <2>2, <2>3
<1>6. ASSUME NEW p \in PostId, NEW text \in Text, StartEdit(r, u, p, text)
      PROVE  \E l \in Local, first \in Label : Start(r, l, first) /\ Opening(l, first)
  <2> DEFINE l == [NoLocal EXCEPT !.op = "edit", !.user = u, !.post = p, !.text = text]
  <2>1. l \in Local /\ l.op = "edit" /\ l.post = p /\ l.text = text /\ l.told = {}
        /\ l.user = u
    BY <1>2 DEF Local, Op
  <2>2. Start(r, l, "begin") /\ "begin" \in Label /\ p \in live /\ author[p] = u
    BY <1>6 DEF StartEdit, Label
  <2> HIDE DEF l
  <2>3. Opening(l, "begin")
    BY <2>1, <2>2 DEF Opening
  <2>4. QED  BY <2>1, <2>2, <2>3
<1>7. QED  BY <1>1, <1>3, <1>4, <1>5, <1>6

LEMMA ArriveTyped ==
    ASSUME Typed, NEW r \in Request, Arrive(r)
    PROVE  Typed'
<1>1. PICK l \in Local, first \in Label : Start(r, l, first) /\ Opening(l, first)
  BY ArriveStarts
<1>2. at'[r] = first /\ req'[r] = l /\ used' = used /\ live \subseteq used
  BY <1>1 DEF Start, Typed, TypeOK
<1>3. Position(r)'
  BY <1>1, <1>2 DEF Opening, Position, Active, CreateLabel, EditLabel
<1>4. QED  BY <1>1, <1>3, StartTyped

(* The other columns keep their types. *)
LEMMA QuietTyped ==
    ASSUME Typed, NEW r \in Request, NEW to \in Label, NEW l \in Local,
           at' = [at EXCEPT ![r] = to], req' = [req EXCEPT ![r] = l],
           UNCHANGED <<live, used, columns, counts, edits, read>>,
           rough' \subseteq PostId, undone' \subseteq PostId \X Lasting,
           lock' \in [PostId -> Request \cup {None}],
           mentions' \in [PostId -> SUBSET User],
           notices' \in [PostId -> SUBSET (User \X {"mention", "reply"})],
           tagged' \in [PostId -> SUBSET Tag],
           card' \in [PostId -> Text \cup {None}],
           Position(r)'
    PROVE  Typed'
<1>1. at' \in [Request -> Label] /\ req' \in [Request -> Local] /\ \A s \in Request : Position(s)'
  BY MoveTyped
<1>2. QED  BY <1>1 DEF Typed, TypeOK, columns, counts, edits

LEMMA Same ==
    ASSUME Typed, NEW r \in Request
    PROVE  req[r] \in Local /\ req = [req EXCEPT ![r] = req[r]] /\ Position(r)
           /\ at[r] \in Label
BY DEF Typed, TypeOK

LEMMA CreatingTyped ==
    ASSUME Typed, NEW r \in Request, Creating(r)
    PROVE  Typed'
<1> USE Same
<1>1. CASE InsertPost(r)
  <2>1. PICK p \in PostId \ used : InsertRow(r, p)
    BY <1>1 DEF InsertPost
  <2> USE DEF InsertRow
  <2> DEFINE l == [req[r] EXCEPT !.post = p]
             to == IF req[r].parent = None THEN "reread" ELSE "count"
  <2>a. l \in Local
    BY DEF Local
  <2>b. req' = [req EXCEPT ![r] = l]
    BY <2>1 DEF Typed, TypeOK
  <2>2. l \in Local /\ to \in Label /\ req' = [req EXCEPT ![r] = l]
        /\ at' = [at EXCEPT ![r] = to] /\ used' = used \cup {p} /\ at[r] = "insert"
    BY <2>a, <2>b, <2>1 DEF Label, Step
  <2>3. req[r].parent # None => req[r].parent \in PostId
    BY DEF Local
  <2>4. Position(r)'
    BY <2>2, <2>3 DEF Position, Active, CreateLabel, EditLabel, Local, Typed, TypeOK
  <2>5. at' \in [Request -> Label] /\ req' \in [Request -> Local]
        /\ \A s \in Request : Position(s)'
    <3> HIDE DEF l, to
    <3>1. QED  BY <2>2, <2>4, MoveTyped
  <2>6. /\ req[r].user \in User /\ req[r].text \in Text \cup {None}
        /\ req[r].parent \in PostId \cup {None}
    BY DEF Local
  <2>7. <<req[r].text>> \in Seq(Text \cup {None})
    BY <2>6
  <2>8. /\ parent' \in [PostId -> PostId \cup {None}]
        /\ repostOf' \in [PostId -> PostId \cup {None}]
    BY <2>1, <2>6 DEF Typed, TypeOK
  <2>9. QED  BY <2>1, <2>5, <2>6, <2>7, <2>8 DEF Typed, TypeOK, counts, joined
<1>2. CASE CountChild(r)
  <2>1. at' = [at EXCEPT ![r] = "reread"] /\ at[r] = "count" /\ req' = req /\ used' = used
    BY <1>2 DEF CountChild, Step
  <2>2. Position(r)' /\ "reread" \in Label
    BY <2>1 DEF Position, Active, CreateLabel, EditLabel, Typed, TypeOK, Label
  <2>3. at' \in [Request -> Label] /\ req' \in [Request -> Local]
        /\ \A s \in Request : Position(s)'
    BY <2>1, <2>2, StepTyped
  <2>4. replyCount' \in [PostId -> Nat] /\ repostCount' \in [PostId -> Nat]
    <3>1. CASE req[r].op = "create"
      <4>1. replyCount' = [p \in PostId |->
                    IF p = req[r].parent /\ p \in live THEN replyCount[p] + 1 ELSE replyCount[p]]
            /\ repostCount' = repostCount
        BY <1>2, <3>1 DEF CountChild
      <4>2. replyCount \in [PostId -> Nat] /\ repostCount \in [PostId -> Nat]
        BY DEF Typed, TypeOK
      <4>3. QED  BY <4>1, <4>2
    <3>2. CASE req[r].op # "create"
      <4>1. repostCount' = [p \in PostId |->
                    IF p = req[r].parent /\ p \in live THEN repostCount[p] + 1 ELSE repostCount[p]]
            /\ replyCount' = replyCount
        BY <1>2, <3>2 DEF CountChild
      <4>2. QED  BY <4>1 DEF Typed, TypeOK
    <3>3. QED  BY <3>1, <3>2
  <2>5. QED  BY <1>2, <2>3, <2>4 DEF CountChild, Typed, TypeOK, columns, joined, edits
<1>3. CASE RereadPost(r)
  <2> DEFINE to == IF req[r].op = "repost" THEN "done" ELSE "tag"
             l == [req[r] EXCEPT !.seen = content[req[r].post]]
  <2>a. content[req[r].post] \in Text \cup {None}
    BY <1>3 DEF RereadPost, Typed, TypeOK
  <2>1. l \in Local
    BY <2>a DEF Local
  <2>2. req' = [req EXCEPT ![r] = l]
    BY <1>3 DEF RereadPost, Typed, TypeOK
  <2>3. at' = [at EXCEPT ![r] = to] /\ at[r] = "reread" /\ used' = used /\ to \in Label
    BY <1>3 DEF RereadPost, Step, Label
  <2>4. Position(r)'
    BY <2>1, <2>2, <2>3 DEF Position, Active, CreateLabel, EditLabel, Local, Typed, TypeOK
  <2> HIDE DEF to, l
  <2>5. QED
    BY <1>3, <2>1, <2>2, <2>3, <2>4, QuietTyped DEF RereadPost, Typed, TypeOK, joined, edits
<1>4. ASSUME NEW t \in Tag, AttachTag(r, t)
      PROVE  Typed'
  <2> DEFINE l == [req[r] EXCEPT !.tags = @ \ {t}, !.tag = t]
  <2>a. l \in Local
    BY DEF Local
  <2>b. req' = [req EXCEPT ![r] = l]
    BY <1>4 DEF AttachTag, Typed, TypeOK
  <2>1. l \in Local /\ req' = [req EXCEPT ![r] = l]
        /\ at' = [at EXCEPT ![r] = "bump"] /\ used' = used /\ at[r] = "tag" /\ "bump" \in Label
    BY <2>a, <2>b, <1>4 DEF AttachTag, Step, Label
  <2>2. Position(r)'
    BY <2>1 DEF Position, Active, CreateLabel, EditLabel, Local, Typed, TypeOK
  <2>3. tagged' \in [PostId -> SUBSET Tag]
    BY <1>4 DEF AttachTag, Typed, TypeOK
  <2> HIDE DEF l
  <2>4. QED  BY <1>4, <2>1, <2>2, <2>3, QuietTyped DEF AttachTag, Typed, TypeOK
<1>5. CASE BumpTag(r)
  <2>1. at' = [at EXCEPT ![r] = "tag"] /\ at[r] = "bump" /\ req' = req /\ used' = used
    BY <1>5 DEF BumpTag, Step
  <2>2. Position(r)' /\ "tag" \in Label
    BY <2>1 DEF Position, Active, CreateLabel, EditLabel, Typed, TypeOK, Label
  <2>3. at' \in [Request -> Label] /\ req' \in [Request -> Local]
        /\ \A s \in Request : Position(s)'
    BY <2>1, <2>2, StepTyped
  <2>a. req[r].tag \in Tag
    BY <2>1 DEF Position
  <2>4. useCount' \in [Tag -> Nat]
    BY <1>5, <2>a DEF BumpTag, Typed, TypeOK
  <2>5. QED  BY <1>5, <2>3, <2>4 DEF BumpTag, Typed, TypeOK, columns, joined, edits
<1>6. CASE TagsDone(r)
  <2>1. at' = [at EXCEPT ![r] = "mention"] /\ at[r] = "tag" /\ req' = req /\ used' = used
        /\ "mention" \in Label
    BY <1>6 DEF TagsDone, Label
  <2>2. Position(r)'
    BY <2>1 DEF Position, Active, CreateLabel, EditLabel, Typed, TypeOK
  <2>3. QED  BY <1>6, <2>1, <2>2, QuietTyped DEF TagsDone, Typed, TypeOK, joined, edits
<1>7. ASSUME NEW u \in User, AddMention(r, u)
      PROVE  Typed'
  <2> DEFINE l == [req[r] EXCEPT !.add = @ \ {u}, !.told = @ \cup {u}]
  <2>a. l \in Local
    BY DEF Local
  <2>b. req' = [req EXCEPT ![r] = l]
    BY <1>7 DEF AddMention, Typed, TypeOK
  <2>1. l \in Local /\ req' = [req EXCEPT ![r] = l]
        /\ at' = [at EXCEPT ![r] = "mention"] /\ used' = used /\ at[r] = "mention"
        /\ "mention" \in Label
    BY <2>a, <2>b, <1>7 DEF AddMention, Step, Label
  <2>2. Position(r)'
    BY <2>1 DEF Position, Active, CreateLabel, EditLabel, Local, Typed, TypeOK
  <2>3. mentions' \in [PostId -> SUBSET User]
    BY <1>7 DEF AddMention, Typed, TypeOK
  <2> HIDE DEF l
  <2>4. QED  BY <1>7, <2>1, <2>2, <2>3, QuietTyped DEF AddMention, Typed, TypeOK
<1>8. ASSUME NEW u \in User, NotifyMentioned(r, u)
      PROVE  Typed'
  <2> DEFINE l == [req[r] EXCEPT !.told = @ \ {u}]
  <2>a. l \in Local
    BY DEF Local
  <2>b. req' = [req EXCEPT ![r] = l]
    BY <1>8 DEF NotifyMentioned, Typed, TypeOK
  <2>1. l \in Local /\ req' = [req EXCEPT ![r] = l]
        /\ at' = [at EXCEPT ![r] = "notify"] /\ used' = used /\ at[r] = "notify"
        /\ "notify" \in Label
    BY <2>a, <2>b, <1>8 DEF NotifyMentioned, Step, Label
  <2>2. Position(r)'
    BY <2>1 DEF Position, Active, CreateLabel, EditLabel, Local, Typed, TypeOK
  <2>3. notices' \in [PostId -> SUBSET (User \X {"mention", "reply"})]
    BY <1>8 DEF NotifyMentioned, Notify, Typed, TypeOK
  <2> HIDE DEF l
  <2>4. QED  BY <1>8, <2>1, <2>2, <2>3, QuietTyped DEF NotifyMentioned, Typed, TypeOK
<1>9. CASE MentionsDone(r)
  <2> DEFINE l == [req[r] EXCEPT !.told = @ \ {req[r].user}]
  <2>a. l \in Local
    BY DEF Local
  <2>b. req' = [req EXCEPT ![r] = l]
    BY <1>9 DEF MentionsDone, Typed, TypeOK
  <2>1. l \in Local /\ req' = [req EXCEPT ![r] = l]
        /\ at' = [at EXCEPT ![r] = "notify"] /\ used' = used /\ at[r] = "mention"
        /\ "notify" \in Label
    BY <2>a, <2>b, <1>9 DEF MentionsDone, Label
  <2>2. Position(r)'
    BY <2>1 DEF Position, Active, CreateLabel, EditLabel, Local, Typed, TypeOK
  <2> HIDE DEF l
  <2>3. QED  BY <1>9, <2>1, <2>2, QuietTyped DEF MentionsDone, Typed, TypeOK, joined, edits
<1>10. CASE NotifyDone(r)
  <2> DEFINE to == IF req[r].op = "edit" THEN "publish edit" ELSE "notify parent"
  <2>1. at' = [at EXCEPT ![r] = to] /\ at[r] = "notify" /\ req' = req /\ used' = used
        /\ to \in Label
    BY <1>10 DEF NotifyDone, Label
  <2>2. Position(r)'
    BY <2>1 DEF Position, Active, CreateLabel, EditLabel, Typed, TypeOK
  <2> HIDE DEF to
  <2>3. QED  BY <1>10, <2>1, <2>2, QuietTyped DEF NotifyDone, Typed, TypeOK, joined, edits
<1>11. CASE NotifyParent(r)
  <2>1. at' = [at EXCEPT ![r] = "publish"] /\ at[r] = "notify parent" /\ req' = req
        /\ used' = used /\ "publish" \in Label
    BY <1>11 DEF NotifyParent, Step, Label
  <2>2. Position(r)'
    BY <2>1 DEF Position, Active, CreateLabel, EditLabel, Typed, TypeOK
  <2>3. notices' \in [PostId -> SUBSET (User \X {"mention", "reply"})]
    <3>1. CASE notices' = notices
      BY <3>1 DEF Typed, TypeOK
    <3>2. CASE /\ notices' = [notices EXCEPT ![req[r].post] = @ \cup {<<author[req[r].parent], "reply">>}]
               /\ req[r].parent \in live
      <4>1. author[req[r].parent] \in User
        BY <3>2 DEF Typed, TypeOK
      <4> DEFINE new == <<author[req[r].parent], "reply">>
      <4>2. new \in User \X {"mention", "reply"}
        BY <4>1
      <4> HIDE DEF new
      <4>3. notices' = [notices EXCEPT ![req[r].post] = @ \cup {new}]
        BY <3>2 DEF new
      <4>4. QED  BY <4>2, <4>3 DEF Typed, TypeOK
    <3>3. CASE req[r].parent \in live /\ author[req[r].parent] # req[r].user
      <4>1. Notify(req[r].post, author[req[r].parent], "reply")
        BY <1>11, <3>3 DEF NotifyParent
      <4>2. QED  BY <3>2, <3>3, <4>1 DEF Notify
    <3>4. CASE ~(req[r].parent \in live /\ author[req[r].parent] # req[r].user)
      BY <1>11, <3>1, <3>4 DEF NotifyParent
    <3>5. QED  BY <3>3, <3>4
  <2>4. QED  BY <1>11, <2>1, <2>2, <2>3, QuietTyped DEF NotifyParent, Typed, TypeOK
<1>12. CASE PublishPost(r)
  <2>1. at' = [at EXCEPT ![r] = "done"] /\ at[r] = "publish" /\ req' = req
        /\ used' = used /\ "done" \in Label
    BY <1>12 DEF PublishPost, Label
  <2>2. Position(r)'
    BY <2>1 DEF Position, Active, CreateLabel, EditLabel, Typed, TypeOK
  <2>3. card' \in [PostId -> Text \cup {None}]
    BY <1>12 DEF PublishPost, Typed, TypeOK, Local
  <2>4. QED  BY <1>12, <2>1, <2>2, <2>3, QuietTyped DEF PublishPost, Typed, TypeOK, joined, edits
<1>13. QED
  BY <1>1, <1>2, <1>3, <1>4, <1>5, <1>6, <1>7, <1>8, <1>9, <1>10, <1>11, <1>12 DEF Creating


LEMMA EditingTyped ==
    ASSUME Typed, NEW r \in Request, Editing(r)
    PROVE  Typed'
<1> USE Same
<1>1. CASE BeginEdit(r)
  <2>1. at' = [at EXCEPT ![r] = "lock"] /\ at[r] = "begin" /\ req' = req /\ used' = used
        /\ "lock" \in Label
    BY <1>1 DEF BeginEdit, Step, Label
  <2>2. Position(r)'
    BY <2>1 DEF Position, Active, CreateLabel, EditLabel, Typed, TypeOK
  <2>3. QED  BY <1>1, <2>1, <2>2, QuietTyped DEF BeginEdit, Typed, TypeOK, joined, edits
<1>2. CASE LockPost(r)
  <2> DEFINE l == [req[r] EXCEPT !.seen = content[req[r].post]]
  <2>a. content[req[r].post] \in Text \cup {None}
    BY <1>2 DEF LockPost, Typed, TypeOK
  <2>1. l \in Local
    BY <2>a DEF Local
  <2>2. req' = [req EXCEPT ![r] = l]
    BY <1>2 DEF LockPost, Typed, TypeOK
  <2>3. at' = [at EXCEPT ![r] = "save"] /\ used' = used /\ at[r] = "lock" /\ "save" \in Label
    BY <1>2 DEF LockPost, Step, Label
  <2>4. Position(r)'
    BY <2>1, <2>2, <2>3 DEF Position, Active, CreateLabel, EditLabel, Local, Typed, TypeOK
  <2>5. lock' \in [PostId -> Request \cup {None}]
    BY <1>2 DEF LockPost, Typed, TypeOK
  <2> HIDE DEF l
  <2>6. QED
    BY <1>2, <2>1, <2>2, <2>3, <2>4, <2>5, QuietTyped DEF LockPost, Typed, TypeOK, joined, edits
<1>3. CASE SaveEdit(r)
  <2>1. at' = [at EXCEPT ![r] = "refetch"] /\ at[r] = "save" /\ req' = req /\ used' = used
        /\ "refetch" \in Label
    BY <1>3 DEF SaveEdit, Step, Label
  <2>2. Position(r)'
    BY <2>1 DEF Position, Active, CreateLabel, EditLabel, Typed, TypeOK
  <2>3. at' \in [Request -> Label] /\ req' \in [Request -> Local]
        /\ \A s \in Request : Position(s)'
    BY <2>1, <2>2, StepTyped
  <2>4. req[r].post \in PostId /\ req[r].text \in Text \cup {None}
        /\ req[r].seen \in Text \cup {None}
    BY <2>1 DEF Position, Active, Local, Typed, TypeOK
  <2>a. Append(history[req[r].post], req[r].seen) \in Seq(Text \cup {None})
        /\ Append(written[req[r].post], req[r].text) \in Seq(Text \cup {None})
    BY <2>4 DEF Typed, TypeOK
  <2>5. /\ history' \in [PostId -> Seq(Text \cup {None})]
        /\ written' \in [PostId -> Seq(Text \cup {None})]
    <3> DEFINE S == Seq(Text \cup {None})
    <3>1. history \in [PostId -> S] /\ written \in [PostId -> S]
      BY DEF Typed, TypeOK
    <3> HIDE DEF S
    <3>2. Append(history[req[r].post], req[r].seen) \in S
          /\ Append(written[req[r].post], req[r].text) \in S
      BY <2>a DEF S
    <3>3. history' \in [PostId -> S] /\ written' \in [PostId -> S]
      BY <1>3, <3>1, <3>2 DEF SaveEdit
    <3>4. QED  BY <3>3 DEF S
  <2>6. /\ content' \in [PostId -> Text \cup {None}]
        /\ lock' \in [PostId -> Request \cup {None}]
    BY <1>3, <2>4 DEF SaveEdit, Typed, TypeOK
  <2>7. QED  BY <1>3, <2>3, <2>5, <2>6 DEF SaveEdit, Typed, TypeOK, counts, joined
<1>4. CASE Refetch(r)
  <2> DEFINE l == [req[r] EXCEPT !.seen = content[req[r].post]]
  <2>a. content[req[r].post] \in Text \cup {None}
    BY <1>4 DEF Refetch, Typed, TypeOK
  <2>1. l \in Local
    BY <2>a DEF Local
  <2>2. req' = [req EXCEPT ![r] = l]
    BY <1>4 DEF Refetch, Typed, TypeOK
  <2>3. at' = [at EXCEPT ![r] = "sync"] /\ used' = used /\ at[r] = "refetch" /\ "sync" \in Label
    BY <1>4 DEF Refetch, Step, Label
  <2>4. Position(r)'
    BY <2>1, <2>2, <2>3 DEF Position, Active, CreateLabel, EditLabel, Local, Typed, TypeOK
  <2> HIDE DEF l
  <2>5. QED
    BY <1>4, <2>1, <2>2, <2>3, <2>4, QuietTyped DEF Refetch, Typed, TypeOK, joined, edits
<1>5. CASE LoadMentions(r)
  <2> DEFINE have == mentions[req[r].post]
             want == MentionedIn[req[r].text]
             l == [req[r] EXCEPT !.add = want \ have, !.drop = have \ want]
             to == IF have \subseteq want THEN "mention" ELSE "unmention"
  <2>1. at' = [at EXCEPT ![r] = to] /\ used' = used /\ at[r] = "sync" /\ to \in Label
    BY <1>5 DEF LoadMentions, Step, Label
  <2>2. req[r].post \in PostId /\ req[r].text \in Text
    BY <2>1 DEF Position, Active, EditLabel, Typed, TypeOK
  <2>3. have \in SUBSET User /\ want \in SUBSET User
    BY <2>2, PostsAssumption DEF Typed, TypeOK
  <2>4. l \in Local
    BY <2>3 DEF Local
  <2>5. req' = [req EXCEPT ![r] = l]
    BY <1>5 DEF LoadMentions, Typed, TypeOK
  <2>6. Position(r)'
    BY <2>1, <2>4, <2>5 DEF Position, Active, CreateLabel, EditLabel, Local, Typed, TypeOK
  <2> HIDE DEF l, to
  <2>7. QED
    BY <1>5, <2>1, <2>4, <2>5, <2>6, QuietTyped DEF LoadMentions, Typed, TypeOK, joined, edits
<1>6. CASE DropMentions(r)
  <2>1. at' = [at EXCEPT ![r] = "mention"] /\ at[r] = "unmention" /\ req' = req /\ used' = used
        /\ "mention" \in Label
    BY <1>6 DEF DropMentions, Step, Label
  <2>2. Position(r)'
    BY <2>1 DEF Position, Active, CreateLabel, EditLabel, Typed, TypeOK
  <2>3. mentions' \in [PostId -> SUBSET User]
    BY <1>6 DEF DropMentions, Typed, TypeOK
  <2>4. QED  BY <1>6, <2>1, <2>2, <2>3, QuietTyped DEF DropMentions, Typed, TypeOK
<1>7. CASE PublishEdit(r)
  <2>1. at' = [at EXCEPT ![r] = "done"] /\ at[r] = "publish edit" /\ req' = req
        /\ used' = used /\ "done" \in Label
    BY <1>7 DEF PublishEdit, Label
  <2>2. Position(r)'
    BY <2>1 DEF Position, Active, CreateLabel, EditLabel, Typed, TypeOK
  <2>3. card' \in [PostId -> Text \cup {None}]
    BY <1>7 DEF PublishEdit, Typed, TypeOK, Local
  <2>4. QED  BY <1>7, <2>1, <2>2, <2>3, QuietTyped DEF PublishEdit, Typed, TypeOK, joined, edits
<1>8. QED
  BY <1>1, <1>2, <1>3, <1>4, <1>5, <1>6, <1>7 DEF Editing

LEMMA DeletingTyped ==
    ASSUME Typed, NEW r \in Request, Deleting(r)
    PROVE  Typed'
<1> USE Same
<1>1. CASE DeletePost(r)
  <2>1. at' = [at EXCEPT ![r] = "publish delete"] /\ at[r] = "delete" /\ req' = req
        /\ used' = used /\ "publish delete" \in Label
    BY <1>1 DEF DeletePost, RemovePost, Step, Label
  <2>2. Position(r)'
    BY <2>1 DEF Position, Active, CreateLabel, EditLabel, Typed, TypeOK
  <2>3. at' \in [Request -> Label] /\ req' \in [Request -> Local]
        /\ \A s \in Request : Position(s)'
    BY <2>1, <2>2, StepTyped
  <2>4. /\ parent' \in [PostId -> PostId \cup {None}]
        /\ repostOf' \in [PostId -> PostId \cup {None}]
        /\ content' \in [PostId -> Text \cup {None}]
        /\ mentions' \in [PostId -> SUBSET User]
        /\ notices' \in [PostId -> SUBSET (User \X {"mention", "reply"})]
        /\ tagged' \in [PostId -> SUBSET Tag]
    BY <1>1 DEF DeletePost, RemovePost, Typed, TypeOK
  <2>5. /\ history' \in [PostId -> Seq(Text \cup {None})]
        /\ written' \in [PostId -> Seq(Text \cup {None})]
    <3> DEFINE S == Seq(Text \cup {None})
    <3>1. history \in [PostId -> S] /\ written \in [PostId -> S] /\ <<>> \in S
      BY DEF Typed, TypeOK
    <3> HIDE DEF S
    <3>2. history' \in [PostId -> S] /\ written' \in [PostId -> S]
      BY <1>1, <3>1 DEF DeletePost, RemovePost
    <3>3. QED  BY <3>2 DEF S
  <2>6. live' \subseteq used /\ read' \subseteq live'
    BY <1>1 DEF DeletePost, RemovePost, Referenced, Typed, TypeOK
  <2>7. QED  BY <1>1, <2>1, <2>3, <2>4, <2>5, <2>6 DEF DeletePost, RemovePost, Typed, TypeOK, counts
<1>2. CASE RefuseDelete(r)
  <2>1. at' = [at EXCEPT ![r] = "refused"] /\ at[r] = "delete" /\ req' = req /\ used' = used
        /\ "refused" \in Label
    BY <1>2 DEF RefuseDelete, Step, Label
  <2>2. Position(r)'
    BY <2>1 DEF Position, Active, CreateLabel, EditLabel, Typed, TypeOK
  <2>3. QED  BY <1>2, <2>1, <2>2, QuietTyped DEF RefuseDelete, Typed, TypeOK, joined, edits
<1>3. CASE PublishDelete(r)
  <2>1. at' = [at EXCEPT ![r] = "done"] /\ at[r] = "publish delete" /\ req' = req
        /\ used' = used /\ "done" \in Label
    BY <1>3 DEF PublishDelete, Label
  <2>2. Position(r)'
    BY <2>1 DEF Position, Active, CreateLabel, EditLabel, Typed, TypeOK
  <2>3. card' \in [PostId -> Text \cup {None}]
    BY <1>3 DEF PublishDelete, Typed, TypeOK
  <2>4. QED  BY <1>3, <2>1, <2>2, <2>3, QuietTyped DEF PublishDelete, Typed, TypeOK, joined, edits
<1>4. QED
  BY <1>1, <1>2, <1>3 DEF Deleting

LEMMA RestKeeps ==
    ASSUME Typed, NEW r \in Request
    PROVE  /\ Rest(r) \in Local
           /\ Rest(r).op = req[r].op /\ Rest(r).post = req[r].post /\ Rest(r).text = req[r].text
           /\ Rest(r).parent = req[r].parent /\ Rest(r).tag = req[r].tag
           /\ Rest(r).user = req[r].user /\ Rest(r).seen = req[r].seen
           /\ at[r] \in {"tag", "bump"} => Rest(r).add = req[r].add
<1>1. req[r] \in Local
  BY Same
<1>2. QED  BY <1>1 DEF Rest, Local

LEMMA FailTyped ==
    ASSUME Typed, NEW r \in Request, Fail(r)
    PROVE  Typed'
<1> USE Same
<1> DEFINE l == Rest(r)
<1>1. l \in Local
  BY RestKeeps
<1>2. req' = [req EXCEPT ![r] = l]
  BY DEF Fail
<1>3. at' = [at EXCEPT ![r] = AfterError(r)] /\ used' = used /\ at[r] \in Failing
  BY DEF Fail
<1>4. AfterError(r) \in Label
  BY <1>3 DEF AfterError, Failing, Label
<1>5. /\ l.op = req[r].op /\ l.post = req[r].post /\ l.text = req[r].text
      /\ l.parent = req[r].parent /\ l.tag = req[r].tag
  BY RestKeeps
<1>6. at'[r] = AfterError(r) /\ req'[r] = l
  BY <1>2, <1>3 DEF Typed, TypeOK
<1> HIDE DEF l
<1>7. Position(r)'
  <2>1. CASE at[r] \in {"insert", "count", "reread", "begin", "lock", "save", "refetch"}
    <3>1. AfterError(r) = "done"
      BY <2>1 DEF AfterError
    <3>2. QED  BY <1>3, <1>5, <1>6, <3>1 DEF Position, Active, CreateLabel, EditLabel
  <2>2. CASE at[r] \in {"tag", "bump"}
    <3>1. AfterError(r) = "mention"
      BY <2>2 DEF AfterError
    <3>2. QED  BY <2>2, <1>3, <1>5, <1>6, <3>1 DEF Position, Active, CreateLabel, EditLabel
  <2>3. CASE at[r] \in {"sync", "unmention"}
    <3>1. AfterError(r) = "publish edit"
      BY <2>3 DEF AfterError
    <3>2. QED  BY <2>3, <1>3, <1>5, <1>6, <3>1 DEF Position, Active, CreateLabel, EditLabel
  <2>4. CASE at[r] = "mention"
    <3>1. AfterError(r) = IF req[r].op = "edit" THEN "publish edit" ELSE "notify"
      BY <2>4 DEF AfterError
    <3>2. QED  BY <2>4, <1>3, <1>5, <1>6, <3>1 DEF Position, Active, CreateLabel, EditLabel
  <2>5. CASE at[r] = "notify parent"
    <3>1. AfterError(r) = "publish"
      BY <2>5 DEF AfterError
    <3>2. QED  BY <2>5, <1>3, <1>5, <1>6, <3>1 DEF Position, Active, CreateLabel, EditLabel
  <2>6. CASE at[r] = "delete"
    <3>1. AfterError(r) = "refused"
      BY <2>6 DEF AfterError
    <3>2. QED  BY <2>6, <1>3, <1>5, <1>6, <3>1 DEF Position, Active, CreateLabel, EditLabel
  <2>7. QED  BY <1>3, <2>1, <2>2, <2>3, <2>4, <2>5, <2>6 DEF Failing
<1>8. /\ lock' \in [PostId -> Request \cup {None}]
      /\ rough' \subseteq PostId
  BY DEF Fail, Typed, TypeOK, Local
<1>9. undone' \subseteq PostId \X Lasting
  BY DEF Fail, Typed, TypeOK, Local
<1>10. QED
  BY <1>1, <1>2, <1>3, <1>4, <1>7, <1>8, <1>9, QuietTyped DEF Fail, Typed, TypeOK, joined, edits

LEMMA LoseTyped ==
    ASSUME Typed, NEW r \in Request, NEW u \in User, LoseNotice(r, u)
    PROVE  Typed'
<1> USE Same
<1> DEFINE l == [req[r] EXCEPT !.told = @ \ {u}]
<1>1. l \in Local
  BY DEF Local
<1>2. req' = [req EXCEPT ![r] = l]
  BY DEF LoseNotice, Typed, TypeOK
<1>3. at' = [at EXCEPT ![r] = "notify"] /\ used' = used /\ at[r] = "notify" /\ "notify" \in Label
  BY DEF LoseNotice, Step, Label
<1>4. Position(r)'
  BY <1>1, <1>2, <1>3 DEF Position, Active, CreateLabel, EditLabel, Local, Typed, TypeOK
<1>5. undone' \subseteq PostId \X Lasting
  <2>1. req[r].post \in PostId
    BY <1>3 DEF Position, Active, Typed, TypeOK
  <2>2. QED  BY <2>1 DEF LoseNotice, Lasting, Typed, TypeOK
<1> HIDE DEF l
<1>6. QED
  BY <1>1, <1>2, <1>3, <1>4, <1>5, QuietTyped DEF LoseNotice, Typed, TypeOK, joined, edits

LEMMA NextTyped ==
    ASSUME Typed, [Next]_vars
    PROVE  Typed'
<1>1. ASSUME NEW p \in PostId, ReadPost(p)
      PROVE  Typed'
  BY <1>1 DEF ReadPost, Typed, TypeOK, Position, Active, columns, counts, joined, edits
<1>2. CASE UNCHANGED vars
  BY <1>2 DEF vars, Typed, TypeOK, Position, Active, columns, counts, joined, edits
<1>3. QED
  BY <1>1, <1>2, ArriveTyped, CreatingTyped, EditingTyped, DeletingTyped, FailTyped, LoseTyped
  DEF Next, Serve

LEMMA InitTyped == Init => Typed
<1> SUFFICES ASSUME Init PROVE Typed
  OBVIOUS
<1> USE PostsAssumption
<1> DEFINE u0 == CHOOSE u \in User : TRUE
<1>1. u0 \in User
  OBVIOUS
<1>2. author \in [PostId -> User]
  BY <1>1 DEF Init
<1>3. content \in [PostId -> Text \cup {None}] /\ \A p \in Existing : content[p] \in Text
  BY DEF Init
<1>4. mentions \in [PostId -> SUBSET User]
  BY <1>3 DEF Init
<1>5. notices \in [PostId -> SUBSET (User \X {"mention", "reply"})]
  BY <1>2, <1>4 DEF Init
<1>6. written \in [PostId -> Seq(Text \cup {None})] /\ history \in [PostId -> Seq(Text \cup {None})]
  <2>1. \A p \in PostId : <<content[p]>> \in Seq(Text \cup {None})
    BY <1>3
  <2> DEFINE S == Seq(Text \cup {None})
  <2>2. <<>> \in S /\ \A p \in PostId : <<content[p]>> \in S
    BY <2>1
  <2> HIDE DEF S
  <2>3. written \in [PostId -> S] /\ history \in [PostId -> S]
    BY <2>2 DEF Init
  <2>4. QED  BY <2>3 DEF S
<1>7. at \in [Request -> Label] /\ req \in [Request -> Local]
  BY NoLocalType DEF Init, Label
<1>8. \A r \in Request : Position(r)
  BY NoLocalType DEF Init, Position, Active, CreateLabel, EditLabel, NoLocal
<1>9. QED
  BY <1>2, <1>3, <1>4, <1>5, <1>6, <1>7, <1>8 DEF Init, Typed, TypeOK

LEMMA AlwaysTyped == Spec => []Typed
BY InitTyped, NextTyped, PTL DEF Spec

(* Every column, lock and local variable has its type, whatever requests   *)
(* overlap or fail (Posts.TypeOK).                                         *)
THEOREM TypeCorrect == Spec => []TypeOK
<1>1. Typed => TypeOK
  BY DEF Typed
<1>2. QED  BY <1>1, AlwaysTyped, PTL
-----------------------------------------------------------------------------
(* Locks and the edit history. *)

(* A request changes nobody else's place or local variables. *)
LEMMA Others ==
    ASSUME Typed, NEW r \in Request, Arrive(r) \/ Serve(r),
           NEW s \in Request, s # r
    PROVE  at'[s] = at[s] /\ req'[s] = req[s]
<1>a. at \in [Request -> Label] /\ req \in [Request -> Local]
  BY DEF Typed, TypeOK
<1>1. CASE Arrive(r)
  <2>1. PICK l \in Local, first \in Label : Start(r, l, first)
    BY <1>1, ArriveStarts
  <2>2. QED  BY <1>a, <2>1 DEF Start
<1>2. CASE Creating(r)
  <2>1. CASE InsertPost(r) \/ CountChild(r) \/ RereadPost(r) \/ BumpTag(r) \/ TagsDone(r)
             \/ \E t \in Tag : AttachTag(r, t)
    BY <1>a, <2>1 DEF InsertPost, InsertRow, CountChild, RereadPost, AttachTag, BumpTag,
       TagsDone, Step
  <2>2. CASE MentionsDone(r) \/ NotifyDone(r) \/ NotifyParent(r) \/ PublishPost(r)
             \/ \E u \in User : AddMention(r, u) \/ NotifyMentioned(r, u)
    BY <1>a, <2>2 DEF AddMention, NotifyMentioned, MentionsDone, NotifyDone, NotifyParent,
       PublishPost, Step
  <2>3. QED  BY <1>2, <2>1, <2>2 DEF Creating
<1>3. CASE Editing(r)
  BY <1>a, <1>3 DEF Editing, BeginEdit, LockPost, SaveEdit, Refetch, LoadMentions, DropMentions,
     PublishEdit, Step
<1>4. CASE Deleting(r)
  BY <1>a, <1>4 DEF Deleting, DeletePost, RefuseDelete, PublishDelete, RemovePost, Step
<1>5. CASE Fail(r) \/ \E u \in User : LoseNotice(r, u)
  BY <1>a, <1>5 DEF Fail, LoseNotice, Step
<1>6. QED  BY <1>1, <1>2, <1>3, <1>4, <1>5 DEF Serve

(* Every other statement leaves rows, texts and locks alone. *)
LEMMA Frozen ==
    ASSUME Typed, NEW r \in Request,
           Arrive(r) \/ Serve(r),
           ~InsertPost(r), ~LockPost(r), ~SaveEdit(r), ~DeletePost(r), ~Fail(r)
    PROVE  /\ UNCHANGED <<live, used, content, history, written, lock, parent, repostOf, author>>
           /\ at[r] # "save" /\ at'[r] # "save"
<1>1. CASE Arrive(r)
  <2>1. PICK l \in Local, first \in Label : Start(r, l, first) /\ Opening(l, first)
    BY <1>1, ArriveStarts
  <2>2. first # "save"
    BY <2>1 DEF Opening
  <2>3. QED  BY <2>1, <2>2 DEF Start, Typed, TypeOK, columns, edits
<1>2. CASE Creating(r)
  BY <1>2 DEF Creating, CountChild, RereadPost, AttachTag, BumpTag, TagsDone, AddMention,
     NotifyMentioned, MentionsDone, NotifyDone, NotifyParent, PublishPost, Step, Typed, TypeOK,
     columns, edits
<1>3. CASE Editing(r)
  BY <1>3 DEF Editing, BeginEdit, Refetch, LoadMentions, DropMentions, PublishEdit, Step, Typed,
     TypeOK, columns, edits
<1>4. CASE Deleting(r)
  BY <1>4 DEF Deleting, RefuseDelete, PublishDelete, Step, Typed, TypeOK, columns, edits
<1>5. CASE \E u \in User : LoseNotice(r, u)
  BY <1>5 DEF LoseNotice, Step, Typed, TypeOK, columns, edits
<1>6. QED  BY <1>1, <1>2, <1>3, <1>4, <1>5 DEF Serve

LEMMA InsertSerialised ==
    ASSUME Typed, Serialised, NEW r \in Request, InsertPost(r), Typed'
    PROVE  Serialised'
<1>1. PICK p \in PostId \ used : InsertRow(r, p)
  BY DEF InsertPost
<1>2. /\ live' = live \cup {p} /\ used' = used \cup {p} /\ lock' = lock /\ history' = history
      /\ content' = [content EXCEPT ![p] = req[r].text]
      /\ written' = [written EXCEPT ![p] = <<req[r].text>>]
      /\ at[r] = "insert" /\ at'[r] # "save"
  BY <1>1 DEF InsertRow, Step, Typed, TypeOK
<1>3. \A s \in Request \ {r} : at'[s] = at[s] /\ req'[s] = req[s]
  BY Others DEF Serve, Creating
<1>4. p \notin live
  BY DEF Typed, TypeOK
<1>5. ASSUME NEW q \in PostId
      PROVE  Locked(q)' /\ Unused(q)'
  <2>1. CASE lock[q] = None
    BY <2>1, <1>2 DEF Serialised, Locked, Unused
  <2>2. CASE lock[q] # None
    <3>1. lock[q] \in Request /\ Locked(q)
      BY <2>2 DEF Serialised, Typed, TypeOK
    <3>2. at[lock[q]] = "save" /\ req[lock[q]].post = q /\ q \in live
          /\ req[lock[q]].seen = content[q]
      BY <2>2, <3>1 DEF Locked
    <3>3. lock[q] # r /\ q # p
      BY <1>2, <1>4, <3>2
    <3>4. QED  BY <1>2, <1>3, <3>1, <3>2, <3>3 DEF Serialised, Locked, Unused, Typed, TypeOK
  <2>3. QED  BY <2>1, <2>2
<1>6. \A s \in Request : Holding(s)'
  BY <1>2, <1>3 DEF Serialised, Holding, Typed, TypeOK
<1>7. NoTextLost'
  <2>1. ASSUME NEW q \in live', q # p
        PROVE  written'[q] = Append(history'[q], content'[q])
    BY <1>2, <2>1 DEF Serialised, NoTextLost, Typed, TypeOK
  <2>2. written'[p] = Append(history'[p], content'[p])
    BY <1>2 DEF Serialised, Unused, Typed, TypeOK
  <2>3. QED  BY <2>1, <2>2 DEF NoTextLost
<1>8. QED  BY <1>5, <1>6, <1>7 DEF Serialised

LEMMA LockSerialised ==
    ASSUME Typed, Serialised, NEW r \in Request, LockPost(r), Typed'
    PROVE  Serialised'
<1> DEFINE p == req[r].post
<1>1. /\ UNCHANGED <<live, used, history, content, written>>
      /\ lock' = [lock EXCEPT ![p] = r] /\ p \in live /\ at[r] = "lock" /\ at'[r] = "save"
      /\ req'[r].post = p /\ req'[r].seen = content[p]
  BY Same DEF LockPost, Step, Typed, TypeOK, Local, columns, edits
<1>2. p \in PostId /\ lock[p] = None
  BY <1>1, PostsAssumption DEF LockPost, Free, Typed, TypeOK
<1>3. \A s \in Request \ {r} : at'[s] = at[s] /\ req'[s] = req[s]
  BY Others DEF Serve, Editing
<1> HIDE DEF p
<1>4. ASSUME NEW q \in PostId
      PROVE  Locked(q)' /\ Unused(q)'
  <2>1. Unused(q)'
    BY <1>1 DEF Serialised, Unused
  <2>2. CASE q = p
    BY <1>1, <1>2, <2>1, <2>2 DEF Locked, Typed, TypeOK
  <2>3. CASE q # p
    <3>1. lock'[q] = lock[q]
      BY <1>1, <2>3 DEF Typed, TypeOK
    <3>2. CASE lock[q] = None
      BY <2>1, <3>1, <3>2 DEF Locked
    <3>3. CASE lock[q] # None
      <4>1. lock[q] \in Request /\ at[lock[q]] = "save" /\ req[lock[q]].post = q
            /\ q \in live /\ req[lock[q]].seen = content[q]
        BY <3>3 DEF Serialised, Locked, Typed, TypeOK
      <4>2. lock[q] # r
        BY <1>1, <4>1
      <4>3. QED  BY <1>1, <1>3, <2>1, <3>1, <4>1, <4>2 DEF Locked
    <3>4. QED  BY <3>2, <3>3
  <2>4. QED  BY <2>2, <2>3
<1>5. ASSUME NEW s \in Request
      PROVE  Holding(s)'
  <2>1. CASE s = r
    BY <1>1, <1>2, <2>1 DEF Holding, Typed, TypeOK
  <2>2. CASE s # r /\ at[s] = "save"
    <3>1. lock[req[s].post] = s /\ req[s].post # p
      BY <1>2, <2>2, PostsAssumption DEF Serialised, Holding
    <3>2. req[s].post \in PostId
      BY <2>2, Same DEF Position, Active, Typed, TypeOK
    <3>3. QED  BY <1>1, <1>3, <2>2, <3>1, <3>2 DEF Holding, Typed, TypeOK
  <2>3. QED  BY <1>3, <2>1, <2>2 DEF Holding
<1>6. NoTextLost'
  BY <1>1 DEF Serialised, NoTextLost
<1>7. QED  BY <1>4, <1>5, <1>6 DEF Serialised

LEMMA SaveSerialised ==
    ASSUME Typed, Serialised, NEW r \in Request, SaveEdit(r), Typed'
    PROVE  Serialised'
<1> DEFINE p == req[r].post
<1>1. /\ UNCHANGED <<live, used, req>>
      /\ lock' = [lock EXCEPT ![p] = None] /\ at[r] = "save" /\ at'[r] = "refetch"
      /\ history' = [history EXCEPT ![p] = Append(@, req[r].seen)]
      /\ content' = [content EXCEPT ![p] = req[r].text]
      /\ written' = [written EXCEPT ![p] = Append(@, req[r].text)]
  BY Same DEF SaveEdit, Step, Typed, TypeOK
<1>2. p \in PostId
  BY <1>1, Same DEF Position, Active, Typed, TypeOK
<1> HIDE DEF p
<1>3. lock[p] = r /\ p \in live /\ req[r].seen = content[p]
  BY <1>1, <1>2, PostsAssumption DEF Serialised, Holding, Locked, p
<1>4. \A s \in Request \ {r} : at'[s] = at[s]
  BY <1>1, Others DEF Serve, Editing
<1>5. \A q \in PostId : Locked(q)' /\ Unused(q)'
  <2>1. ASSUME NEW q \in PostId, lock'[q] # None PROVE Locked(q)'
    <3>1. q # p /\ lock'[q] = lock[q] /\ content'[q] = content[q]
      BY <1>1, <1>2, <2>1 DEF Typed, TypeOK
    <3>2. /\ at[lock[q]] = "save" /\ req[lock[q]].post = q
          /\ q \in live /\ req[lock[q]].seen = content[q]
      BY <2>1, <3>1 DEF Serialised, Locked
    <3>3. lock[q] # r /\ lock[q] \in Request
      BY <2>1, <3>1, <3>2 DEF p, Typed, TypeOK
    <3>4. QED  BY <1>1, <1>4, <3>1, <3>2, <3>3 DEF Locked
  <2>2. ASSUME NEW q \in PostId PROVE Unused(q)'
    <3>1. p \in used
      BY <1>3 DEF Typed, TypeOK
    <3>2. q # p => history'[q] = history[q]
      BY <1>1 DEF Typed, TypeOK
    <3>3. QED  BY <1>1, <3>1, <3>2 DEF Serialised, Unused
  <2>3. QED  BY <2>1, <2>2 DEF Locked
<1>6. \A s \in Request : Holding(s)'
  BY <1>1, <1>2, <1>3, <1>4 DEF Serialised, Holding, Typed, TypeOK
<1>7. NoTextLost'
  <2>1. ASSUME NEW q \in live, q # p
        PROVE  written'[q] = Append(history'[q], content'[q])
    BY <1>1, <2>1 DEF Serialised, NoTextLost, Typed, TypeOK
  <2>2. written[p] = Append(history[p], content[p])
    BY <1>3 DEF Serialised, NoTextLost
  <2>3. written'[p] = Append(history'[p], content'[p])
    BY <1>1, <1>2, <1>3, <2>2 DEF Typed, TypeOK
  <2>4. QED  BY <1>1, <2>1, <2>3 DEF NoTextLost
<1>8. QED  BY <1>5, <1>6, <1>7 DEF Serialised

LEMMA DeleteSerialised ==
    ASSUME Typed, Serialised, NEW r \in Request, DeletePost(r), Typed'
    PROVE  Serialised'
<1> DEFINE p == req[r].post
<1>1. /\ live' = live \ {p} /\ UNCHANGED <<used, req, lock>>
      /\ history' = [history EXCEPT ![p] = <<>>]
      /\ content' = [content EXCEPT ![p] = None]
      /\ written' = [written EXCEPT ![p] = <<>>]
  BY DEF DeletePost, RemovePost, edits
<1>2. at[r] = "delete" /\ at'[r] = "publish delete"
  <2>1. at' = [at EXCEPT ![r] = "publish delete"] /\ at[r] = "delete"
    BY DEF DeletePost, RemovePost, Step
  <2>2. QED  BY <2>1 DEF Typed, TypeOK
<1>a. p \in live /\ Free(p)
  BY DEF DeletePost
<1>b. p \in PostId /\ p # None
  BY <1>a, PostsAssumption DEF Typed, TypeOK
<1>c. lock[p] = None
  BY <1>a, <1>b DEF Free
<1> HIDE DEF p
<1>3. \A s \in Request \ {r} : at'[s] = at[s]
  BY Others DEF Serve, Deleting
<1>4. ASSUME NEW q \in PostId
      PROVE  Locked(q)' /\ Unused(q)'
  <2>1. Unused(q)'
    BY <1>1 DEF Serialised, Unused, Typed, TypeOK
  <2>2. CASE lock[q] = None
    BY <1>1, <2>1, <2>2 DEF Locked
  <2>3. CASE lock[q] # None
    <3>1. lock[q] \in Request /\ at[lock[q]] = "save" /\ req[lock[q]].post = q
          /\ q \in live /\ req[lock[q]].seen = content[q]
      BY <2>3 DEF Serialised, Locked, Typed, TypeOK
    <3>2. lock[q] # r /\ q # p
      BY <1>1, <1>2, <1>b, <1>c, <2>3, <3>1
    <3>3. QED  BY <1>1, <1>2, <1>3, <2>1, <3>1, <3>2 DEF Locked, Typed, TypeOK
  <2>4. QED  BY <2>2, <2>3
<1>5. \A s \in Request : Holding(s)'
  BY <1>1, <1>2, <1>3 DEF Serialised, Holding, Typed, TypeOK
<1>6. NoTextLost'
  BY <1>1, <1>b DEF Serialised, NoTextLost, Typed, TypeOK
<1>7. QED  BY <1>4, <1>5, <1>6 DEF Serialised

LEMMA FailSerialised ==
    ASSUME Typed, Serialised, NEW r \in Request, Fail(r), Typed'
    PROVE  Serialised'
<1>1. /\ UNCHANGED <<live, used, history, content, written>>
      /\ lock' = [p \in PostId |-> IF lock[p] = r THEN None ELSE lock[p]]
      /\ at[r] \in Failing /\ at'[r] = AfterError(r)
  BY DEF Fail, Typed, TypeOK, columns, edits
<1>2. at'[r] # "save"
  BY <1>1 DEF AfterError, Failing
<1>3. \A s \in Request \ {r} : at'[s] = at[s] /\ req'[s] = req[s]
  BY Others DEF Serve
<1>4. \A q \in PostId : Locked(q)' /\ Unused(q)'
  BY <1>1, <1>3 DEF Serialised, Locked, Unused, Typed, TypeOK
<1>5. \A s \in Request : Holding(s)'
  <2>1. ASSUME NEW s \in Request, s # r, at[s] = "save"
        PROVE  lock'[req[s].post] = s
    <3>1. req[s].post \in PostId
      BY <2>1, Same DEF Position, Active, Typed, TypeOK
    <3>2. QED  BY <1>1, <2>1, <3>1 DEF Serialised, Holding
  <2>2. QED  BY <1>2, <1>3, <2>1 DEF Holding
<1>6. NoTextLost'
  BY <1>1 DEF Serialised, NoTextLost
<1>7. QED  BY <1>4, <1>5, <1>6 DEF Serialised

LEMMA NextSerialised ==
    ASSUME Typed, Serialised, [Next]_vars, Typed'
    PROVE  Serialised'
<1>1. ASSUME NEW r \in Request, Arrive(r) \/ Serve(r)
      PROVE  Serialised'
  <2>1. CASE InsertPost(r) \/ LockPost(r) \/ SaveEdit(r) \/ DeletePost(r) \/ Fail(r)
    BY <2>1, InsertSerialised, LockSerialised, SaveSerialised, DeleteSerialised, FailSerialised
  <2>2. CASE ~(InsertPost(r) \/ LockPost(r) \/ SaveEdit(r) \/ DeletePost(r) \/ Fail(r))
    <3>1. /\ UNCHANGED <<live, used, content, history, written, lock>>
          /\ at[r] # "save" /\ at'[r] # "save"
      BY <1>1, <2>2, Frozen
    <3>2. \A s \in Request \ {r} : at'[s] = at[s] /\ req'[s] = req[s]
      BY <1>1, Others
    <3>3. ASSUME NEW q \in PostId
          PROVE  Locked(q)' /\ Unused(q)'
      <4>1. CASE lock[q] = None
        BY <3>1, <4>1 DEF Serialised, Locked, Unused
      <4>2. CASE lock[q] # None
        <5>1. lock[q] \in Request /\ at[lock[q]] = "save" /\ Locked(q) /\ Unused(q)
          BY <4>2 DEF Serialised, Locked, Typed, TypeOK
        <5>2. lock[q] # r
          BY <3>1, <5>1
        <5>3. QED  BY <3>1, <3>2, <5>1, <5>2 DEF Locked, Unused
      <4>3. QED  BY <4>1, <4>2
    <3>4. \A s \in Request : Holding(s)'
      BY <3>1, <3>2 DEF Serialised, Holding
    <3>5. QED  BY <3>1, <3>3, <3>4 DEF Serialised, NoTextLost
  <2>3. QED  BY <2>1, <2>2
<1>2. ASSUME NEW p \in PostId, ReadPost(p)
      PROVE  Serialised'
  BY <1>2 DEF ReadPost, Serialised, Locked, Unused, Holding, NoTextLost, columns, edits
<1>3. CASE UNCHANGED vars
  BY <1>3 DEF vars, Serialised, Locked, Unused, Holding, NoTextLost, columns, edits
<1>4. QED  BY <1>1, <1>2, <1>3 DEF Next

LEMMA InitSerialised == Init => Serialised
<1> SUFFICES ASSUME Init PROVE Serialised
  OBVIOUS
<1>1. \A p \in live : written[p] = Append(history[p], content[p])
  <2>1. ASSUME NEW p \in live
        PROVE  written[p] = Append(history[p], content[p])
    <3>1. p \in PostId /\ p \in Existing
      BY PostsAssumption DEF Init
    <3>2. history[p] = <<>> /\ written[p] = <<content[p]>>
      BY <3>1 DEF Init
    <3>3. QED  BY <3>2
  <2>2. QED  BY <2>1
<1>2. QED  BY <1>1, PostsAssumption DEF Init, Serialised, Locked, Unused, Holding, NoTextLost

LEMMA AlwaysSerialised == Spec => [](Typed /\ Serialised)
<1>1. Typed /\ Serialised /\ [Next]_vars => (Typed /\ Serialised)'
  BY NextTyped, NextSerialised
<1>2. QED  BY <1>1, InitTyped, InitSerialised, PTL DEF Spec

(* However edits of a post overlap, fail or are interrupted, no text it    *)
(* ever had is lost and every row lock is about to be given back           *)
(* (Posts.EditsSerialise, handler/post.go:454-456, model/post.go:378-380). *)
THEOREM EditsAlwaysSerialise == Spec => []EditsSerialise
<1>1. Typed /\ Serialised => EditsSerialise
  BY DEF Serialised, Locked, EditsSerialise, LocksAreReleased
<1>2. QED  BY <1>1, AlwaysSerialised, PTL
-----------------------------------------------------------------------------
(* Threads. *)

LEMMA NextThreads ==
    ASSUME Typed, ThreadsIntact, [Next]_vars, Typed'
    PROVE  ThreadsIntact'
<1>1. ASSUME UNCHANGED <<live, parent, repostOf>>
      PROVE  ThreadsIntact'
  BY <1>1 DEF ThreadsIntact
<1>2. ASSUME NEW r \in Request, Arrive(r) \/ Serve(r)
      PROVE  ThreadsIntact'
  <2>1. CASE InsertPost(r)
    <3>1. PICK p \in PostId \ used : InsertRow(r, p)
      BY <2>1 DEF InsertPost
    <3>2. /\ req[r].parent \in live \cup {None}
          /\ live' = live \cup {p}
          /\ parent' = [parent EXCEPT ![p] = IF req[r].op = "create" THEN req[r].parent ELSE None]
          /\ repostOf' = [repostOf EXCEPT ![p] = IF req[r].op = "repost" THEN req[r].parent ELSE None]
      BY <3>1 DEF InsertRow
    <3>3. parent'[p] \in live \cup {None} /\ repostOf'[p] \in live \cup {None}
      BY <3>2 DEF Typed, TypeOK
    <3>4. \A q \in live : q # p => parent'[q] = parent[q] /\ repostOf'[q] = repostOf[q]
      BY <3>2 DEF Typed, TypeOK
    <3>5. QED  BY <3>2, <3>3, <3>4 DEF ThreadsIntact
  <2>2. CASE DeletePost(r)
    <3> DEFINE p == req[r].post
    <3>1. /\ live' = live \ {p} /\ ~Referenced(p)
          /\ parent' = [parent EXCEPT ![p] = None] /\ repostOf' = [repostOf EXCEPT ![p] = None]
      BY <2>2 DEF DeletePost, RemovePost
    <3> HIDE DEF p
    <3>2. \A q \in live : parent[q] # p /\ repostOf[q] # p
      BY <3>1 DEF Referenced
    <3>3. \A q \in live' : parent'[q] = parent[q] /\ repostOf'[q] = repostOf[q]
      BY <3>1 DEF Typed, TypeOK
    <3>4. QED  BY <3>1, <3>2, <3>3 DEF ThreadsIntact
  <2>3. CASE LockPost(r) \/ SaveEdit(r) \/ Fail(r)
    BY <1>1, <2>3 DEF LockPost, SaveEdit, Fail, columns
  <2>4. CASE ~(InsertPost(r) \/ DeletePost(r) \/ LockPost(r) \/ SaveEdit(r) \/ Fail(r))
    BY <1>1, <1>2, <2>4, Frozen
  <2>5. QED  BY <2>1, <2>2, <2>3, <2>4
<1>3. ASSUME NEW p \in PostId, ReadPost(p)
      PROVE  ThreadsIntact'
  BY <1>1, <1>3 DEF ReadPost, columns
<1>4. CASE UNCHANGED vars
  BY <1>1, <1>4 DEF vars, columns
<1>5. QED  BY <1>2, <1>3, <1>4 DEF Next

(* No reply loses its parent and no repost its original, although both are *)
(* looked up before the insert (Posts.ThreadsIntact, handler/post.go       *)
(* 165-177 and 711-721, the foreign keys of migration 003).                *)
THEOREM ThreadsStayIntact == Spec => []ThreadsIntact
<1>1. Init => ThreadsIntact
  BY PostsAssumption DEF Init, ThreadsIntact
<1>2. Typed /\ Typed' /\ ThreadsIntact /\ [Next]_vars => ThreadsIntact'
  BY NextThreads
<1>3. QED  BY <1>1, <1>2, AlwaysTyped, PTL DEF Spec
-----------------------------------------------------------------------------
(* Every post and request.  A statement of r disturbs no other post and no *)
(* request on another post; what r itself leaves is shown statement by     *)
(* statement.                                                              *)
Alike(q) ==
    /\ q \in live' <=> q \in live
    /\ mentions'[q] = mentions[q] /\ notices'[q] = notices[q] /\ tagged'[q] = tagged[q]
    /\ content'[q] = content[q] /\ author'[q] = author[q] /\ repostOf'[q] = repostOf[q]
    /\ card'[q] = card[q]

(* Only the insert chooses the post. *)
LEMMA SamePost ==
    ASSUME Typed, NEW r \in Request, Serve(r), ~InsertPost(r)
    PROVE  /\ req'[r].post = req[r].post /\ req'[r].op = req[r].op
           /\ req'[r].user = req[r].user /\ req'[r].text = req[r].text
           /\ used' = used /\ author' = author
           /\ rough' = rough \/ Fail(r)
           /\ repostOf' = repostOf \/ DeletePost(r)
           /\ content' = content \/ DeletePost(r) \/ SaveEdit(r)
           /\ live' = live \/ DeletePost(r)
           /\ Active(r)
<1> USE Same
<1>1. CASE Creating(r)
  <2>1. CASE UNCHANGED req
    BY <1>1, <2>1 DEF Creating, CountChild, RereadPost, BumpTag, TagsDone,
       NotifyDone, NotifyParent, PublishPost, AttachTag, AddMention, NotifyMentioned, MentionsDone,
       Step, Active, columns
  <2>2. CASE \E t \in Tag : AttachTag(r, t)
    BY <2>2 DEF AttachTag, Step, Active, Typed, TypeOK, Local, columns
  <2>3. CASE \E u \in User : AddMention(r, u)
    BY <2>3 DEF AddMention, Step, Active, Typed, TypeOK, Local, columns
  <2>4. CASE \E u \in User : NotifyMentioned(r, u)
    BY <2>4 DEF NotifyMentioned, Step, Active, Typed, TypeOK, Local, columns
  <2>5. CASE MentionsDone(r)
    BY <2>5 DEF MentionsDone, Active, Typed, TypeOK, Local, columns
  <2>6. CASE RereadPost(r)
    BY <2>6 DEF RereadPost, Step, Active, Typed, TypeOK, Local, columns
  <2>7. QED
    BY <1>1, <2>1, <2>2, <2>3, <2>4, <2>5, <2>6 DEF Creating, CountChild, BumpTag,
       TagsDone, NotifyDone, NotifyParent, PublishPost
<1>2. CASE Editing(r)
  <2>1. CASE UNCHANGED req
    BY <1>2, <2>1 DEF Editing, BeginEdit, LockPost, SaveEdit, Refetch, LoadMentions,
       DropMentions, PublishEdit, Step, Active, columns
  <2>2. CASE LockPost(r)
    BY <2>2 DEF LockPost, Step, Active, Typed, TypeOK, Local, columns
  <2>3. CASE Refetch(r)
    BY <2>3 DEF Refetch, Step, Active, Typed, TypeOK, Local, columns
  <2>4. CASE LoadMentions(r)
    BY <2>4 DEF LoadMentions, Step, Active, Typed, TypeOK, Local, columns
  <2>5. QED
    BY <1>2, <2>1, <2>2, <2>3, <2>4 DEF Editing, BeginEdit, SaveEdit, DropMentions, PublishEdit
<1>3. CASE Deleting(r)
  BY <1>3 DEF Deleting, DeletePost, RefuseDelete, PublishDelete, RemovePost, Step, Active, columns
<1>4. CASE Fail(r)
  <2>1. req'[r] = Rest(r) /\ at[r] \in Failing
    BY <1>4 DEF Fail, Typed, TypeOK
  <2>2. QED  BY <1>4, <2>1, RestKeeps DEF Fail, Failing, Active, columns
<1>5. CASE \E u \in User : LoseNotice(r, u)
  BY <1>5 DEF LoseNotice, Step, Active, Typed, TypeOK, Local, columns
<1>6. QED  BY <1>1, <1>2, <1>3, <1>4, <1>5 DEF Serve

LEMMA Elsewhere ==
    ASSUME Typed, Typed', NEW r \in Request, Serve(r), NEW q \in PostId, q # req'[r].post
    PROVE  Alike(q)
<1>1. CASE InsertPost(r)
  <2>1. PICK p \in PostId \ used : InsertRow(r, p)
    BY <1>1 DEF InsertPost
  <2>2. req'[r].post = p
    BY <2>1, Same DEF InsertRow, Typed, TypeOK, Local
  <2>3. QED  BY <2>1, <2>2 DEF InsertRow, Alike, Typed, TypeOK, joined
<1>2. CASE ~InsertPost(r)
  <2>1. q # req[r].post
    BY <1>2, SamePost
  <2>2. CASE Creating(r)
    BY <2>1, <2>2, <1>2 DEF Creating, CountChild, RereadPost, AttachTag, BumpTag, TagsDone,
       AddMention, NotifyMentioned, MentionsDone, NotifyDone, NotifyParent, Notify, PublishPost,
       Alike, Typed, TypeOK, columns, joined
  <2>3. CASE Editing(r)
    BY <2>1, <2>3 DEF Editing, BeginEdit, LockPost, SaveEdit, Refetch, LoadMentions,
       DropMentions, PublishEdit, Alike, Typed, TypeOK, columns, joined
  <2>4. CASE Deleting(r)
    <3>1. CASE DeletePost(r)
      <4> DEFINE p == req[r].post
      <4>1. /\ live' = live \ {p} /\ UNCHANGED <<author, card>>
            /\ repostOf' = [repostOf EXCEPT ![p] = None]
            /\ content' = [content EXCEPT ![p] = None]
            /\ mentions' = [mentions EXCEPT ![p] = {}] /\ notices' = [notices EXCEPT ![p] = {}]
            /\ tagged' = [tagged EXCEPT ![p] = {}]
        BY <3>1 DEF DeletePost, RemovePost
      <4>2. q # p
        BY <2>1
      <4> HIDE DEF p
      <4>3. QED  BY <4>1, <4>2 DEF Alike, Typed, TypeOK
    <3>2. CASE RefuseDelete(r) \/ PublishDelete(r)
      BY <2>1, <3>2 DEF RefuseDelete, PublishDelete, Alike, Typed, TypeOK, columns, joined
    <3>3. QED  BY <2>4, <3>1, <3>2 DEF Deleting
  <2>5. CASE Fail(r) \/ \E u \in User : LoseNotice(r, u)
    BY <2>5 DEF Fail, LoseNotice, Alike, columns, joined
  <2>6. QED  BY <2>2, <2>3, <2>4, <2>5 DEF Serve
<1>3. QED  BY <1>1, <1>2

(* What has failed stays known, and an id is given out once. *)
LEMMA Lasts ==
    ASSUME Typed, NEW r \in Request, Serve(r)
    PROVE  /\ undone \subseteq undone' /\ rough \subseteq rough'
           /\ \A q : (GaveUp(q) => GaveUp(q)') /\ (Untold(q) => Untold(q)')
           /\ \A q \in used :
                /\ q \in used' /\ author'[q] = author[q]
                /\ repostOf[q] = None => repostOf'[q] = None
                /\ q \in live' => q \in live /\ repostOf'[q] = repostOf[q]
           /\ \A s \in Request : s # r => at'[s] = at[s] /\ req'[s] = req[s]
<1>1. undone \subseteq undone' /\ rough \subseteq rough'
  <2>1. CASE Creating(r)
    BY <2>1 DEF Creating, InsertPost, InsertRow, CountChild, RereadPost, AttachTag, BumpTag,
       TagsDone, AddMention, NotifyMentioned, MentionsDone, NotifyDone, NotifyParent, PublishPost
  <2>2. CASE Editing(r)
    BY <2>2 DEF Editing, BeginEdit, LockPost, SaveEdit, Refetch, LoadMentions, DropMentions,
       PublishEdit
  <2>3. CASE Deleting(r)
    BY <2>3 DEF Deleting, DeletePost, RefuseDelete, PublishDelete, RemovePost
  <2>4. CASE Fail(r) \/ \E u \in User : LoseNotice(r, u)
    BY <2>4 DEF Fail, LoseNotice
  <2>5. QED  BY <2>1, <2>2, <2>3, <2>4 DEF Serve
<1>2. ASSUME NEW q \in used
      PROVE  /\ q \in used' /\ author'[q] = author[q]
             /\ repostOf[q] = None => repostOf'[q] = None
             /\ q \in live' => q \in live /\ repostOf'[q] = repostOf[q]
  <2>1. CASE InsertPost(r)
    BY <2>1 DEF InsertPost, InsertRow, Typed, TypeOK
  <2>2. CASE DeletePost(r)
    BY <2>2 DEF DeletePost, RemovePost, Typed, TypeOK
  <2>3. CASE ~InsertPost(r) /\ ~DeletePost(r)
    BY <2>3, SamePost
  <2>4. QED  BY <2>1, <2>2, <2>3
<1>3. \A q : (GaveUp(q) => GaveUp(q)') /\ (Untold(q) => Untold(q)')
  BY <1>1 DEF GaveUp, Untold
<1>4. QED  BY <1>1, <1>2, <1>3, Others

(* Where a statement leads. *)
LEMMA Whereto ==
    ASSUME Typed, NEW r \in Request, Serve(r)
    PROVE  /\ at'[r] \notin {"idle", "insert"}
           /\ at[r] = "insert" => InsertPost(r) \/ at'[r] = "done"
           /\ at'[r] \in Showing /\ ~RereadPost(r) /\ ~Refetch(r) =>
                at[r] \in Showing /\ req'[r].seen = req[r].seen
           /\ at'[r] = "publish delete" => DeletePost(r)
<1>a. at \in [Request -> Label] /\ req \in [Request -> Local] /\ req[r] \in Local
  BY Same DEF Typed, TypeOK
<1>1. ASSUME NEW x, at' = [at EXCEPT ![r] = x]
      PROVE  at'[r] = x
  BY <1>1, <1>a
<1>2. CASE Creating(r)
  <2>1. CASE InsertPost(r)
    BY <1>1, <2>1 DEF InsertPost, InsertRow, Step, Showing
  <2>2. CASE CountChild(r) \/ BumpTag(r) \/ TagsDone(r) \/ NotifyDone(r) \/ NotifyParent(r)
             \/ PublishPost(r)
    BY <1>1, <2>2 DEF CountChild, BumpTag, TagsDone, NotifyDone, NotifyParent, PublishPost,
       Step, Showing
  <2>3. CASE RereadPost(r)
    BY <1>1, <2>3 DEF RereadPost, Step
  <2>4. ASSUME NEW t \in Tag, AttachTag(r, t)
        PROVE  at[r] = "tag" /\ at'[r] = "bump" /\ req'[r].seen = req[r].seen
    BY <1>1, <1>a, <2>4 DEF AttachTag, Step, Local
  <2>5. ASSUME NEW u \in User, AddMention(r, u) \/ NotifyMentioned(r, u)
        PROVE  at[r] \in Joint /\ at'[r] \in Joint /\ req'[r].seen = req[r].seen
    BY <1>1, <1>a, <2>5 DEF AddMention, NotifyMentioned, Step, Local, Joint
  <2>6. CASE MentionsDone(r)
    <3>1. at[r] = "mention" /\ at'[r] = "notify" /\ req'[r].seen = req[r].seen
      BY <1>1, <1>a, <2>6 DEF MentionsDone, Local
    <3>2. QED  BY <3>1 DEF Showing
  <2>7. QED  BY <1>2, <2>1, <2>2, <2>3, <2>4, <2>5, <2>6 DEF Creating, Showing, Joint
<1>3. CASE Editing(r)
  <2>1. CASE BeginEdit(r) \/ SaveEdit(r) \/ DropMentions(r) \/ PublishEdit(r)
    BY <1>1, <2>1 DEF BeginEdit, SaveEdit, DropMentions, PublishEdit, Step, Showing
  <2>2. CASE LockPost(r) \/ Refetch(r)
    BY <1>1, <2>2 DEF LockPost, Refetch, Step, Showing
  <2>3. CASE LoadMentions(r)
    <3> DEFINE have == mentions[req[r].post]  want == MentionedIn[req[r].text]
    <3>1. /\ req' = [req EXCEPT ![r].add = want \ have, ![r].drop = have \ want]
          /\ at[r] = "sync" /\ at'[r] \in {"mention", "unmention"}
      BY <1>1, <2>3 DEF LoadMentions, Step
    <3> HIDE DEF have, want
    <3>2. req'[r].seen = req[r].seen
      BY <1>a, <3>1 DEF Local
    <3>3. QED  BY <3>1, <3>2 DEF Showing
  <2>4. QED  BY <1>3, <2>1, <2>2, <2>3 DEF Editing
<1>4. CASE Deleting(r)
  BY <1>1, <1>4 DEF Deleting, DeletePost, RefuseDelete, PublishDelete, RemovePost, Step, Showing
<1>5. CASE Fail(r)
  <2>1. at[r] \in Failing /\ at'[r] = AfterError(r) /\ req'[r] = Rest(r)
    BY <1>a, <1>5 DEF Fail
  <2>2. AfterError(r) \notin {"idle", "insert", "publish delete"}
        /\ (at[r] = "insert" => AfterError(r) = "done")
        /\ (AfterError(r) \in Showing => at[r] \in Showing)
    BY <2>1 DEF AfterError, Failing, Showing
  <2>3. QED  BY <2>1, <2>2, RestKeeps
<1>6. ASSUME NEW u \in User, LoseNotice(r, u)
      PROVE  at[r] = "notify" /\ at'[r] = "notify" /\ req'[r].seen = req[r].seen
  BY <1>1, <1>a, <1>6 DEF LoseNotice, Step, Local
<1>7. QED  BY <1>2, <1>3, <1>4, <1>5, <1>6 DEF Serve, Showing

LEMMA ServeReady ==
    ASSUME Typed, Typed', Basics, NEW r \in Request, Serve(r), NEW s \in Request
    PROVE  Ready(s)'
<1>1. CASE s # r
  <2>1. at'[s] = at[s] /\ req'[s] = req[s] /\ Ready(s)
    BY <1>1, Lasts DEF Basics
  <2>2. CASE at[s] # "insert" /\ Active(s)
    <3>1. req[s].post \in used
      BY <2>2, Same DEF Position
    <3>2. QED  BY <2>1, <2>2, <3>1, Lasts DEF Ready, Active
  <2>3. CASE at[s] = "insert" \/ ~Active(s)
    <3>1. at[s] \in {"insert", "idle", "done", "refused"}
      BY <2>3 DEF Active
    <3>2. at[s] \notin Showing /\ at[s] # "publish delete"
      BY <3>1 DEF Showing
    <3>3. at[s] = "insert" \/ ~Active(s)'
      BY <2>1, <3>1 DEF Active
    <3>4. QED  BY <2>1, <3>2, <3>3 DEF Ready
  <2>4. QED  BY <2>2, <2>3
<1>2. CASE s = r /\ InsertPost(r)
  <2>1. PICK p \in PostId \ used : InsertRow(r, p)
    BY <1>2 DEF InsertPost
  <2>2. /\ at[r] = "insert" /\ at'[r] \in {"count", "reread"}
        /\ author'[p] = req[r].user
        /\ repostOf'[p] = IF req[r].op = "repost" THEN req[r].parent ELSE None
    BY <2>1 DEF InsertRow, Step, Typed, TypeOK
  <2>3. req'[r].post = p /\ req'[r].op = req[r].op /\ req'[r].user = req[r].user
    BY <2>1, Same DEF InsertRow, Typed, TypeOK, Local
  <2>4. req[r].op \in {"create", "repost"} /\ (req[r].op = "repost" => req[r].parent # None)
    BY <2>2, Same DEF Position, CreateLabel, Basics, Ready
  <2>5. QED  BY <1>2, <2>2, <2>3, <2>4 DEF Ready, Active, Showing
<1>3. CASE s = r /\ ~InsertPost(r)
  <2> DEFINE p == req[r].post
  <2>1. /\ req'[r].post = p /\ req'[r].op = req[r].op /\ req'[r].user = req[r].user
        /\ author' = author /\ Active(r) /\ Ready(r)
    BY <1>3, SamePost DEF Basics
  <2>2. CASE at'[r] = "done"
    BY <1>3, <2>2 DEF Ready, Active, Showing
  <2>3. CASE at'[r] # "done"
    <3>1. at[r] # "insert" /\ p \in used /\ p \in PostId
      BY <1>3, <2>1, <2>3, Whereto, Same DEF Position, Typed, TypeOK
    <3>2. /\ author'[p] = author[p]
          /\ repostOf[p] = None => repostOf'[p] = None
          /\ p \in live' => p \in live /\ repostOf'[p] = repostOf[p]
      BY <3>1, Lasts
    <3>3. ASSUME at'[r] \in Showing, p \in live', repostOf'[p] = None
          PROVE  req'[r].seen \in Text
      <4>1. CASE RereadPost(r) \/ Refetch(r)
        <5>1. req'[r].seen = content[p]
          BY <4>1, Same DEF RereadPost, Refetch, Typed, TypeOK, Local
        <5>2. Stored(p)
          BY <3>1 DEF Basics
        <5>3. QED  BY <3>2, <3>3, <5>1, <5>2 DEF Stored
      <4>2. CASE ~RereadPost(r) /\ ~Refetch(r)
        BY <2>1, <3>2, <3>3, <4>2, Whereto DEF Ready
      <4>3. QED  BY <4>1, <4>2
    <3>4. at'[r] = "publish delete" => p \notin live'
      BY Whereto DEF DeletePost, RemovePost
    <3>5. req[r].op \in {"create", "edit"} => author[p] = req[r].user
      BY <2>1, <3>1 DEF Ready
    <3>6. req[r].op = "create" => repostOf[p] = None
      BY <2>1, <3>1 DEF Ready
    <3>7. req[r].op = "repost" /\ p \in live => repostOf[p] # None
      BY <2>1, <3>1 DEF Ready
    <3>8. req'[r].post = p /\ at'[r] # "insert"
      BY <2>1, Whereto
    <3> HIDE DEF p
    <3>9. QED  BY <1>3, <2>1, <3>2, <3>3, <3>4, <3>5, <3>6, <3>7, <3>8 DEF Ready
  <2>4. QED  BY <2>2, <2>3
<1>4. QED  BY <1>1, <1>2, <1>3

LEMMA ServeStored ==
    ASSUME Typed, Typed', Basics, NEW r \in Request, Serve(r), NEW q \in PostId
    PROVE  Stored(q)'
<1>1. CASE q # req'[r].post
  <2>1. Alike(q) /\ (q \notin used' => q \notin used)
    BY <1>1, Elsewhere, Lasts
  <2>2. QED  BY <2>1 DEF Basics, Stored, Alike
<1>2. CASE q = req'[r].post
  <2>1. q \in used' \/ ~Active(r)'
    BY <1>2, Same, Whereto DEF Typed, Position
  <2>2. CASE InsertPost(r)
    <3>1. PICK p \in PostId \ used : InsertRow(r, p)
      BY <2>2 DEF InsertPost
    <3>2. /\ at[r] = "insert" /\ p \in used' /\ content'[p] = req[r].text
          /\ repostOf'[p] = IF req[r].op = "repost" THEN req[r].parent ELSE None
      BY <3>1 DEF InsertRow, Step, Typed, TypeOK
    <3>3. req'[r].post = p
      BY <3>1, Same DEF InsertRow, Typed, TypeOK, Local
    <3>4. /\ req[r].op = "repost" => req[r].parent # None
          /\ req[r].op \in {"create", "repost"}
          /\ req[r].op = "create" => req[r].text \in Text
      BY <3>2, Same DEF Basics, Ready, Position, CreateLabel
    <3>5. repostOf'[p] = None => content'[p] \in Text
      BY <3>2, <3>4
    <3>6. QED  BY <1>2, <3>2, <3>3, <3>5 DEF Stored
  <2>3. CASE ~InsertPost(r)
    <3>1. q = req[r].post /\ used' = used /\ Active(r)
      BY <1>2, <2>3, SamePost
    <3>2. q \in used
      <4>1. at[r] # "insert"
        BY <3>1, Same, PostsAssumption DEF Position
      <4>2. QED  BY <3>1, <4>1, Same DEF Position
    <3>3. CASE SaveEdit(r)
      <4>1. at[r] = "save" /\ content'[q] = req[r].text
        BY <3>1, <3>3 DEF SaveEdit, Step, Typed, TypeOK
      <4>2. req[r].text \in Text
        BY <4>1, Same DEF Position, EditLabel
      <4>3. QED  BY <3>1, <3>2, <4>1, <4>2 DEF Stored
    <3>4. CASE DeletePost(r)
      BY <3>1, <3>2, <3>4 DEF DeletePost, RemovePost, Stored
    <3>5. CASE ~SaveEdit(r) /\ ~DeletePost(r)
      BY <2>3, <3>1, <3>2, <3>5, SamePost DEF Basics, Stored
    <3>6. QED  BY <3>3, <3>4, <3>5
  <2>4. QED  BY <2>2, <2>3
<1>3. QED  BY <1>1, <1>2

(* A card is left alone, and so is whoever is to publish it.               *)
LEMMA CardKept ==
    ASSUME Typed, NEW r \in Request, Serve(r), NEW q \in used, Carded(q),
           card'[q] = card[q],
           Unpublished(r) /\ req[r].post = q =>
               \/ GaveUp(q)' \/ q \notin live' \/ repostOf[q] # None
               \/ Unpublished(r)' /\ req'[r].post = q
    PROVE  Carded(q)'
<1>1. /\ \A s \in Request : s # r => at'[s] = at[s] /\ req'[s] = req[s]
      /\ GaveUp(q) => GaveUp(q)'
      /\ repostOf[q] = None => repostOf'[q] = None
      /\ q \in live' => q \in live /\ repostOf'[q] = repostOf[q]
  BY Lasts
<1>2. \A s \in Request : s # r => (Unpublished(s)' <=> Unpublished(s))
  BY <1>1 DEF Unpublished
<1>3. repostOf'[q] # None => card'[q] = None
  BY <1>1 DEF Carded
<1>4. ASSUME q \in live', repostOf'[q] = None, card'[q] = None, ~GaveUp(q)'
      PROVE  \E s \in Request : Unpublished(s)' /\ req'[s].post = q
  <2>1. PICK s \in Request : Unpublished(s) /\ req[s].post = q
    BY <1>1, <1>4 DEF Carded
  <2>2. QED  BY <1>1, <1>2, <1>4, <2>1
<1>5. QED  BY <1>3, <1>4 DEF Carded

LEMMA ServeCarded ==
    ASSUME Typed, Typed', Basics, NEW r \in Request, Serve(r), NEW q \in PostId
    PROVE  Carded(q)'
<1>a. at \in [Request -> Label] /\ req \in [Request -> Local] /\ card \in [PostId -> Text \cup {None}]
  BY DEF Typed, TypeOK
<1>b. ASSUME NEW x, at' = [at EXCEPT ![r] = x]
      PROVE  at'[r] = x
  BY <1>a, <1>b
<1>c. Ready(r) /\ Carded(q) /\ Stored(q) /\ Position(r)
  BY Same DEF Basics
<1>1. CASE InsertPost(r) /\ q = req'[r].post
  <2>1. PICK p \in PostId \ used : InsertRow(r, p)
    BY <1>1 DEF InsertPost
  <2>2. req'[r].post = p /\ at'[r] \in {"count", "reread"} /\ card' = card
    BY <2>1, Same DEF InsertRow, Step, Typed, TypeOK, Local
  <2>3. Unpublished(r)' /\ card'[q] = None
    BY <1>1, <1>c, <2>1, <2>2 DEF Unpublished, CreateLabel, Stored
  <2>4. QED  BY <1>1, <2>3 DEF Carded
<1>2. CASE q \notin used /\ q # req'[r].post
  <2>1. Alike(q)
    BY <1>2, Elsewhere
  <2>2. q \notin live /\ card[q] = None
    BY <1>2, <1>c DEF Stored, Typed, TypeOK
  <2>3. QED  BY <2>1, <2>2 DEF Alike, Carded
<1>3. CASE q \in used /\ q # req'[r].post
  <2>1. Alike(q)
    BY <1>3, Elsewhere
  <2>2. req[r].post = q => FALSE
    <3>1. CASE InsertPost(r)
      <4>1. req[r].post = None
        BY <3>1, Same DEF InsertPost, InsertRow, Step, Position
      <4>2. QED  BY <4>1, PostsAssumption
    <3>2. CASE ~InsertPost(r)
      BY <1>3, <3>2, SamePost
    <3>3. QED  BY <3>1, <3>2
  <2>3. QED  BY <1>3, <1>c, <2>1, <2>2, CardKept DEF Alike
<1>4. CASE q = req'[r].post /\ ~InsertPost(r)
  <2>1. /\ q = req[r].post /\ req'[r].op = req[r].op /\ Active(r)
    BY <1>4, SamePost
  <2>2. q \in used /\ at[r] # "insert"
    <3>1. at[r] # "insert"
      BY <2>1, Same, PostsAssumption DEF Position
    <3>2. QED  BY <2>1, <3>1, Same DEF Position
  <2>3. /\ repostOf[q] = None => repostOf'[q] = None
        /\ q \in live' => q \in live /\ repostOf'[q] = repostOf[q]
    BY <2>2, Lasts
  <2>4. CASE PublishPost(r)
    <3>1. at[r] = "publish" /\ card' = IF card[q] = None THEN [card EXCEPT ![q] = req[r].seen] ELSE card
      BY <2>1, <2>4 DEF PublishPost
    <3>2. req[r].op = "create"
      BY <1>c, <3>1 DEF Position
    <3>3. repostOf[q] = None
      BY <1>c, <2>1, <2>2, <3>2 DEF Ready
    <3>4. q \in live => req[r].seen \in Text
      BY <1>c, <2>1, <3>1, <3>3 DEF Ready, Showing
    <3>5. q \in live' => card'[q] # None
      BY <1>a, <2>3, <3>1, <3>4, PostsAssumption
    <3>6. QED  BY <2>3, <3>3, <3>5 DEF Carded
  <2>5. CASE PublishEdit(r)
    <3>1. /\ at[r] = "publish edit"
          /\ card' = IF card[q] # None THEN [card EXCEPT ![q] = req[r].seen] ELSE card
      BY <2>1, <2>5 DEF PublishEdit
    <3>2. CASE card[q] = None
      <4>1. ~Unpublished(r)
        BY <3>1 DEF Unpublished, CreateLabel, Joint
      <4>2. QED  BY <1>c, <2>2, <3>1, <3>2, <4>1, CardKept
    <3>3. CASE card[q] # None
      <4>1. repostOf[q] = None
        BY <1>c, <3>3 DEF Carded
      <4>2. q \in live => req[r].seen \in Text
        BY <1>c, <2>1, <3>1, <4>1 DEF Ready, Showing
      <4>3. q \in live' => card'[q] # None
        BY <1>a, <2>3, <3>1, <3>3, <4>2, PostsAssumption
      <4>4. QED  BY <2>3, <4>1, <4>3 DEF Carded
    <3>4. QED  BY <3>2, <3>3
  <2>6. CASE PublishDelete(r)
    <3>1. at[r] = "publish delete" /\ live' = live /\ card'[q] = None
      BY <1>a, <2>1, <2>6 DEF PublishDelete
    <3>2. q \notin live'
      BY <1>c, <2>1, <3>1 DEF Ready
    <3>3. QED  BY <3>1, <3>2 DEF Carded
  <2>7. CASE DeletePost(r)
    <3>1. q \notin live' /\ card' = card /\ at[r] = "delete"
      BY <2>1, <2>7 DEF DeletePost, RemovePost, Step
    <3>2. QED  BY <1>c, <2>2, <3>1, CardKept
  <2>8. CASE Fail(r)
    <3>1. /\ card' = card /\ at'[r] = AfterError(r) /\ at[r] \in Failing
          /\ undone' = undone \cup (({req[r].post} \ {None}) \X ({at[r]} \cap Lasting))
      BY <1>b, <2>8 DEF Fail
    <3>2. CASE at[r] \in {"count", "reread"}
      <4>1. <<q, at[r]>> \in undone'
        BY <2>1, <3>1, <3>2, PostsAssumption DEF Lasting
      <4>2. GaveUp(q)'
        BY <3>2, <4>1 DEF GaveUp
      <4>3. QED  BY <1>c, <2>2, <3>1, <4>2, CardKept
    <3>3. CASE at[r] \notin {"count", "reread"}
      <4>1. ASSUME Unpublished(r)
            PROVE  at[r] \in {"tag", "bump", "mention", "notify parent"} /\ req[r].op = "create"
        BY <1>c, <2>2, <3>1, <3>3, <4>1 DEF Unpublished, CreateLabel, Joint, Failing, Position
      <4>2. Unpublished(r) => AfterError(r) \in {"mention", "notify", "publish"}
        BY <4>1 DEF AfterError
      <4>3. Unpublished(r) => Unpublished(r)'
        BY <2>1, <3>1, <4>1, <4>2 DEF Unpublished, CreateLabel, Joint
      <4>4. QED  BY <1>4, <1>c, <2>2, <3>1, <4>3, CardKept
    <3>4. QED  BY <3>2, <3>3
  <2>9. CASE RereadPost(r) /\ req[r].op = "repost"
    <3>1. card' = card /\ at[r] = "reread"
      BY <2>9 DEF RereadPost, Step
    <3>2. q \in live => repostOf[q] # None
      BY <1>c, <2>1, <2>2, <2>9 DEF Ready
    <3>3. QED  BY <1>c, <2>2, <2>3, <3>1, <3>2, CardKept
  <2>10. CASE CountChild(r) \/ BumpTag(r) \/ TagsDone(r) \/ MentionsDone(r) \/ NotifyDone(r)
              \/ NotifyParent(r) \/ (RereadPost(r) /\ req[r].op # "repost")
    <3>1. /\ card' = card
          /\ \/ at'[r] \in {"reread", "tag", "notify parent", "publish"}
             \/ at'[r] \in {"mention", "notify"}
             \/ at'[r] = "publish edit" /\ req[r].op = "edit" /\ at[r] = "notify"
      BY <1>b, <2>10 DEF CountChild, BumpTag, TagsDone, MentionsDone, NotifyDone, NotifyParent,
         RereadPost, Step
    <3>2. at[r] \in {"tag", "bump", "reread"} /\ req[r].op # "repost" => req[r].op = "create"
      BY <1>c DEF Position, CreateLabel
    <3>3. Unpublished(r) => Unpublished(r)'
      <4>1. at'[r] \in {"mention", "notify"} => at[r] \in {"tag", "mention"}
        BY <1>b, <2>10 DEF CountChild, BumpTag, TagsDone, MentionsDone, NotifyDone, NotifyParent,
           RereadPost, Step
      <4>2. at[r] = "tag" => req[r].op = "create"
        BY <1>c DEF Position
      <4>3. QED  BY <2>1, <3>1, <4>1, <4>2 DEF Unpublished, CreateLabel, Joint
    <3>4. QED  BY <1>4, <1>c, <2>2, <3>1, <3>3, CardKept
  <2>11. CASE \/ \E t \in Tag : AttachTag(r, t)
              \/ \E u \in User : AddMention(r, u) \/ NotifyMentioned(r, u) \/ LoseNotice(r, u)
    <3>1. /\ card' = card
          /\ \/ at[r] = "tag" /\ at'[r] = "bump"
             \/ at[r] \in Joint /\ at'[r] = at[r]
      BY <1>b, <2>11 DEF AttachTag, AddMention, NotifyMentioned, LoseNotice, Step, Joint
    <3>2. Unpublished(r) => Unpublished(r)'
      BY <2>1, <3>1 DEF Unpublished, CreateLabel, Joint
    <3>3. QED  BY <1>4, <1>c, <2>2, <3>1, <3>2, CardKept
  <2>12. CASE \/ BeginEdit(r) \/ LockPost(r) \/ SaveEdit(r) \/ Refetch(r) \/ LoadMentions(r)
              \/ DropMentions(r) \/ RefuseDelete(r)
    <3>1. card' = card /\ at[r] \in {"begin", "lock", "save", "refetch", "sync", "unmention", "delete"}
      BY <2>12 DEF BeginEdit, LockPost, SaveEdit, Refetch, LoadMentions, DropMentions,
         RefuseDelete, Step
    <3>2. ~Unpublished(r)
      BY <3>1 DEF Unpublished, CreateLabel, Joint
    <3>3. QED  BY <1>c, <2>2, <3>1, <3>2, CardKept
  <2>13. QED
    BY <1>4, <2>4, <2>5, <2>6, <2>7, <2>8, <2>9, <2>10, <2>11, <2>12
    DEF Serve, Creating, Editing, Deleting
<1>5. QED  BY <1>1, <1>2, <1>3, <1>4

(* Nobody new is mentioned, and whoever was to be told by r still is. *)
LEMMA TellsKept ==
    ASSUME Typed, NEW r \in Request, Serve(r), NEW q \in used, Tells(q),
           mentions'[q] \subseteq mentions[q], notices[q] \subseteq notices'[q] \/ q \notin live',
           \A u : at[r] \in Joint /\ req[r].post = q /\ u \in req[r].told =>
               \/ Untold(q)' \/ u = author[q] \/ <<u, "mention">> \in notices'[q]
               \/ at'[r] \in Joint /\ req'[r].post = q /\ u \in req'[r].told
    PROVE  Tells(q)'
<1>1. /\ \A s \in Request : s # r => at'[s] = at[s] /\ req'[s] = req[s]
      /\ Untold(q) => Untold(q)'
      /\ author'[q] = author[q]
      /\ q \in live' => q \in live
  BY Lasts
<1>2. SUFFICES ASSUME q \in live', ~Untold(q)',
                      NEW u \in mentions'[q] \ {author'[q]}, <<u, "mention">> \notin notices'[q]
               PROVE  Telling(q, u)'
  BY DEF Tells
<1>3. u \in mentions[q] \ {author[q]} /\ <<u, "mention">> \notin notices[q]
  BY <1>1, <1>2
<1>4. PICK s \in Request : at[s] \in Joint /\ req[s].post = q /\ u \in req[s].told
  BY <1>1, <1>2, <1>3 DEF Tells, Telling
<1>5. at'[s] \in Joint /\ req'[s].post = q /\ u \in req'[s].told
  BY <1>1, <1>2, <1>3, <1>4
<1>6. QED  BY <1>5 DEF Telling

LEMMA ServeTells ==
    ASSUME Typed, Typed', Basics, NEW r \in Request, Serve(r), NEW q \in PostId
    PROVE  Tells(q)'
<1>a. /\ at \in [Request -> Label] /\ req \in [Request -> Local] /\ req[r] \in Local
      /\ mentions \in [PostId -> SUBSET User]
      /\ notices \in [PostId -> SUBSET (User \X {"mention", "reply"})]
  BY Same DEF Typed, TypeOK
<1>b. ASSUME NEW x, at' = [at EXCEPT ![r] = x]
      PROVE  at'[r] = x
  BY <1>a, <1>b
<1>c. Ready(r) /\ Tells(q) /\ Stored(q) /\ Position(r)
  BY Same DEF Basics
<1>1. CASE InsertPost(r) /\ q = req'[r].post
  <2>1. PICK p \in PostId \ used : InsertRow(r, p)
    BY <1>1 DEF InsertPost
  <2>2. req'[r].post = p /\ mentions' = mentions
    BY <2>1, Same DEF InsertRow, Typed, TypeOK, Local, joined
  <2>3. mentions'[q] = {}
    BY <1>1, <1>c, <2>1, <2>2 DEF Stored
  <2>4. QED  BY <2>3 DEF Tells
<1>2. CASE q \notin used /\ q # req'[r].post
  <2>1. Alike(q)
    BY <1>2, Elsewhere
  <2>2. q \notin live
    BY <1>2 DEF Typed, TypeOK
  <2>3. QED  BY <2>1, <2>2 DEF Alike, Tells
<1>3. CASE q \in used /\ q # req'[r].post
  <2>1. Alike(q)
    BY <1>3, Elsewhere
  <2>2. req[r].post = q => FALSE
    <3>1. CASE InsertPost(r)
      <4>1. req[r].post = None
        BY <3>1, Same DEF InsertPost, InsertRow, Step, Position
      <4>2. QED  BY <4>1, PostsAssumption
    <3>2. CASE ~InsertPost(r)
      BY <1>3, <3>2, SamePost
    <3>3. QED  BY <3>1, <3>2
  <2>3. QED  BY <1>3, <1>c, <2>1, <2>2, TellsKept DEF Alike
<1>4. CASE q = req'[r].post /\ ~InsertPost(r)
  <2>1. /\ q = req[r].post /\ req'[r].op = req[r].op /\ Active(r)
    BY <1>4, SamePost
  <2>2. q \in used /\ at[r] # "insert"
    <3>1. at[r] # "insert"
      BY <2>1, Same, PostsAssumption DEF Position
    <3>2. QED  BY <2>1, <3>1, Same DEF Position
  <2>3. ASSUME NEW u \in User, AddMention(r, u)
        PROVE  Tells(q)'
    <3>1. /\ at[r] = "mention" /\ at'[r] = "mention" /\ UNCHANGED <<live, notices, undone, author>>
          /\ mentions'[q] = mentions[q] \cup {u}
      BY <1>a, <1>b, <2>1, <2>3 DEF AddMention, Step, columns
    <3>2. req'[r].told = req[r].told \cup {u}
      BY <1>a, <2>3 DEF AddMention, Local
    <3>3. \A w : Telling(q, w) => Telling(q, w)'
      <4>1. SUFFICES ASSUME NEW w, NEW s \in Request, at[s] \in Joint, req[s].post = q, w \in req[s].told
                     PROVE  at'[s] \in Joint /\ req'[s].post = q /\ w \in req'[s].told
        BY DEF Telling
      <4>2. QED  BY <1>4, <3>1, <3>2, <4>1, Lasts DEF Joint
    <3>4. Telling(q, u)'
      BY <1>4, <3>1, <3>2 DEF Telling, Joint
    <3>5. Untold(q)' <=> Untold(q)
      BY <3>1 DEF Untold
    <3> HIDE DEF Telling, Untold
    <3>6. QED  BY <1>c, <3>1, <3>3, <3>4, <3>5 DEF Tells
  <2>4. CASE MentionsDone(r)
    <3>1. /\ at[r] = "mention" /\ at'[r] = "notify" /\ UNCHANGED <<live, notices, mentions>>
          /\ req'[r].told = req[r].told \ {req[r].user}
      BY <1>a, <1>b, <2>4 DEF MentionsDone, Local, joined
    <3>2. req[r].user = author[q]
      BY <1>c, <2>1, <2>2, <3>1 DEF Ready, Position
    <3>3. QED  BY <1>4, <1>c, <2>2, <3>1, <3>2, TellsKept DEF Joint
  <2>5. ASSUME NEW u \in User, NotifyMentioned(r, u)
        PROVE  Tells(q)'
    <3>1. /\ at[r] = "notify" /\ at'[r] = "notify" /\ UNCHANGED <<live, mentions>>
          /\ req'[r].told = req[r].told \ {u}
          /\ notices'[q] = notices[q] \cup {<<u, "mention">>}
      BY <1>a, <1>b, <2>1, <2>5 DEF NotifyMentioned, Notify, Step, Local
    <3>2. QED  BY <1>4, <1>c, <2>2, <3>1, TellsKept DEF Joint
  <2>6. ASSUME NEW u \in User, LoseNotice(r, u)
        PROVE  Tells(q)'
    <3>1. <<q, "notify">> \in undone'
      BY <2>1, <2>6 DEF LoseNotice
    <3>2. Untold(q)'
      BY <3>1 DEF Untold
    <3>3. QED  BY <3>2 DEF Tells
  <2>7. CASE NotifyDone(r)
    <3>1. req[r].told = {} /\ UNCHANGED <<mentions, notices>>
      BY <2>7 DEF NotifyDone, joined
    <3>2. QED  BY <1>c, <2>2, <3>1, TellsKept
  <2>8. CASE Fail(r)
    <3>1. /\ at[r] \in Failing /\ UNCHANGED <<mentions, notices>>
          /\ undone' = undone \cup (({req[r].post} \ {None}) \X ({at[r]} \cap Lasting))
      BY <2>8 DEF Fail, joined
    <3>2. CASE at[r] = "mention"
      <4>1. <<q, "mention">> \in undone'
        BY <2>1, <3>1, <3>2, PostsAssumption DEF Lasting
      <4>2. Untold(q)'
        BY <4>1 DEF Untold
      <4>3. QED  BY <4>2 DEF Tells
    <3>3. CASE at[r] # "mention"
      <4>1. at[r] \notin Joint
        BY <3>1, <3>3 DEF Joint, Failing
      <4>2. QED  BY <1>c, <2>2, <3>1, <4>1, TellsKept
    <3>4. QED  BY <3>2, <3>3
  <2>9. CASE DeletePost(r)
    <3>1. q \notin live'
      BY <2>1, <2>9 DEF DeletePost, RemovePost
    <3>2. QED  BY <3>1 DEF Tells
  <2>10. CASE NotifyParent(r)
    <3>1. at[r] = "notify parent" /\ mentions' = mentions
      BY <2>10 DEF NotifyParent, Step
    <3>2. notices[q] \subseteq notices'[q]
      <4>1. CASE req[r].parent \in live /\ author[req[r].parent] # req[r].user
        <5>1. Notify(q, author[req[r].parent], "reply")
          BY <2>1, <2>10, <4>1 DEF NotifyParent
        <5>2. QED  BY <1>a, <5>1 DEF Notify
      <4>2. CASE ~(req[r].parent \in live /\ author[req[r].parent] # req[r].user)
        BY <2>10, <4>2 DEF NotifyParent
      <4>3. QED  BY <4>1, <4>2
    <3>3. QED  BY <1>c, <2>2, <3>1, <3>2, TellsKept DEF Joint
  <2>11. CASE DropMentions(r)
    <3>1. at[r] = "unmention" /\ mentions'[q] \subseteq mentions[q] /\ notices' = notices
      BY <1>a, <2>1, <2>11 DEF DropMentions, Step
    <3>2. QED  BY <1>c, <2>2, <3>1, TellsKept DEF Joint
  <2>12. CASE \/ CountChild(r) \/ RereadPost(r) \/ BumpTag(r) \/ TagsDone(r) \/ PublishPost(r)
              \/ \E t \in Tag : AttachTag(r, t)
    <3>1. at[r] \notin Joint /\ UNCHANGED <<mentions, notices>>
      BY <2>12 DEF CountChild, RereadPost, BumpTag, TagsDone, PublishPost, AttachTag, Step, Joint,
         joined
    <3>2. QED  BY <1>c, <2>2, <3>1, TellsKept
  <2>13. CASE \/ BeginEdit(r) \/ LockPost(r) \/ SaveEdit(r) \/ Refetch(r) \/ LoadMentions(r)
              \/ PublishEdit(r) \/ RefuseDelete(r) \/ PublishDelete(r)
    <3>1. at[r] \notin Joint /\ UNCHANGED <<mentions, notices>>
      BY <2>13 DEF BeginEdit, LockPost, SaveEdit, Refetch, LoadMentions, PublishEdit,
         RefuseDelete, PublishDelete, Step, Joint, joined
    <3>2. QED  BY <1>c, <2>2, <3>1, TellsKept
  <2>14. QED
    BY <1>4, <2>3, <2>4, <2>5, <2>6, <2>7, <2>8, <2>9, <2>10, <2>11, <2>12, <2>13
    DEF Serve, Creating, Editing, Deleting
<1>5. QED  BY <1>1, <1>2, <1>3, <1>4

LEMMA StartBasics ==
    ASSUME Typed, Typed', Basics, NEW r \in Request, NEW l \in Local, NEW first \in Label,
           Start(r, l, first), Opening(l, first)
    PROVE  Basics'
<1>1. /\ at[r] = "idle" /\ at'[r] = first /\ req'[r] = l
      /\ \A s \in Request \ {r} : at'[s] = at[s] /\ req'[s] = req[s]
      /\ UNCHANGED <<live, used, author, repostOf, content, mentions, notices, tagged, card, undone>>
  BY DEF Start, Typed, TypeOK, columns, joined
<1>2. first \in {"insert", "begin", "delete"}
  BY DEF Opening
<1>3. ASSUME NEW s \in Request
      PROVE  Ready(s)'
  <2>1. CASE s = r
    <3>1. first = "insert" => /\ l.add = IF l.text = None THEN {} ELSE MentionedIn[l.text]
                              /\ l.op = "repost" => l.parent # None
      BY PostsAssumption DEF Opening
    <3>2. first # "insert" => /\ l.op \in {"create", "edit"} => author[l.post] = l.user
                              /\ l.op \notin {"create", "repost"}
      BY DEF Opening
    <3>3. QED  BY <1>1, <1>2, <2>1, <3>1, <3>2 DEF Ready, Showing
  <2>2. CASE s # r
    BY <1>1, <2>2 DEF Basics, Ready, Active
  <2>3. QED  BY <2>1, <2>2
<1>4. ASSUME NEW q \in PostId
      PROVE  Stored(q)' /\ Carded(q)' /\ Tells(q)'
  <2>1. Stored(q) /\ Carded(q) /\ Tells(q)
    BY DEF Basics
  <2>2. (GaveUp(q)' <=> GaveUp(q)) /\ (Untold(q)' <=> Untold(q))
    BY <1>1 DEF GaveUp, Untold
  <2>3. ~Unpublished(r) /\ at[r] \notin Joint
    BY <1>1 DEF Unpublished, CreateLabel, Joint
  <2>4. \A s \in Request : Unpublished(s) => Unpublished(s)' /\ req'[s] = req[s]
    BY <1>1, <2>3 DEF Unpublished
  <2>5. \A u : Telling(q, u) => Telling(q, u)'
    BY <1>1, <2>3 DEF Telling
  <2>6. Stored(q)'
    BY <1>1, <2>1 DEF Stored
  <2>7. Carded(q)'
    BY <1>1, <2>1, <2>2, <2>4 DEF Carded
  <2>8. Tells(q)'
    BY <1>1, <2>1, <2>2, <2>5 DEF Tells
  <2>9. QED  BY <2>6, <2>7, <2>8
<1>5. QED  BY <1>3, <1>4 DEF Basics

LEMMA NextBasics ==
    ASSUME Typed, Typed', Basics, [Next]_vars
    PROVE  Basics'
<1>1. ASSUME NEW r \in Request, Serve(r)
      PROVE  Basics'
  BY <1>1, ServeReady, ServeStored, ServeCarded, ServeTells DEF Basics
<1>2. ASSUME NEW r \in Request, Arrive(r)
      PROVE  Basics'
  <2>1. PICK l \in Local, first \in Label : Start(r, l, first) /\ Opening(l, first)
    BY <1>2, ArriveStarts
  <2>2. QED  BY <2>1, StartBasics
<1>3. ASSUME UNCHANGED <<live, used, author, repostOf, content, mentions, notices, tagged, card,
                         undone, at, req>>
      PROVE  Basics'
  <2>1. \A r \in Request : Ready(r)'
    BY <1>3 DEF Basics, Ready, Active
  <2>2. ASSUME NEW p \in PostId
        PROVE  Stored(p)' /\ Carded(p)' /\ Tells(p)'
    <3>1. Stored(p) /\ Carded(p) /\ Tells(p)
      BY DEF Basics
    <3>2. (GaveUp(p)' <=> GaveUp(p)) /\ (Untold(p)' <=> Untold(p))
      BY <1>3 DEF GaveUp, Untold
    <3>3. \A u : Telling(p, u)' <=> Telling(p, u)
      BY <1>3 DEF Telling
    <3>4. \A r \in Request : Unpublished(r)' <=> Unpublished(r)
      BY <1>3 DEF Unpublished
    <3>5. Stored(p)'
      BY <1>3, <3>1 DEF Stored
    <3>6. Carded(p)'
      BY <1>3, <3>1, <3>2, <3>4 DEF Carded
    <3>7. Tells(p)'
      BY <1>3, <3>1, <3>2, <3>3 DEF Tells
    <3>8. QED  BY <3>5, <3>6, <3>7
  <2>3. QED  BY <2>1, <2>2 DEF Basics
<1>4. ASSUME NEW p \in PostId, ReadPost(p)
      PROVE  Basics'
  BY <1>3, <1>4 DEF ReadPost, columns, joined
<1>5. CASE UNCHANGED vars
  BY <1>3, <1>5 DEF vars, columns, joined
<1>6. QED  BY <1>1, <1>2, <1>4, <1>5 DEF Next

LEMMA InitBasics == Init => Basics
<1> SUFFICES ASSUME Init PROVE Basics
  OBVIOUS
<1> USE PostsAssumption
<1>1. \A r \in Request : at[r] = "idle"
  BY DEF Init
<1>2. \A r \in Request : Ready(r)
  BY <1>1 DEF Ready, Active, Showing
<1>3. ASSUME NEW p \in PostId
      PROVE  /\ content[p] \in Text \cup {None} /\ (content[p] = None <=> p \notin Existing)
             /\ card[p] = content[p] /\ repostOf[p] = None /\ tagged[p] = {}
             /\ mentions[p] = IF p \in Existing THEN MentionedIn[content[p]] ELSE {}
             /\ notices[p] = (mentions[p] \ {author[p]}) \X {"mention"}
             /\ live = Existing /\ used = Existing
  BY DEF Init
<1>4. ASSUME NEW p \in PostId
      PROVE  Stored(p) /\ Carded(p) /\ Tells(p)
  <2>1. Stored(p)
    BY <1>3 DEF Stored
  <2>2. Carded(p)
    BY <1>3 DEF Carded
  <2>3. \A u \in mentions[p] \ {author[p]} : <<u, "mention">> \in notices[p]
    BY <1>3
  <2>4. QED  BY <2>1, <2>2, <2>3 DEF Tells
<1>5. QED  BY <1>2, <1>4 DEF Basics

LEMMA AlwaysBasic == Spec => [](Typed /\ Basics)
<1>1. Typed /\ Typed' /\ Basics /\ [Next]_vars => Basics'
  BY NextBasics
<1>2. Typed /\ Basics /\ [Next]_vars => (Typed /\ Basics)'
  BY <1>1, NextTyped
<1>3. QED  BY <1>2, InitTyped, InitBasics, PTL DEF Spec
-----------------------------------------------------------------------------
(* Calm posts. *)

(* What a request leaves for a post it is done with. *)
Rests(p) == p # None /\ p \notin rough => (p \in live => Matched(p)) /\ Shows(p)
After(r) == IF Active(r) THEN Undisturbed(r) ELSE Rests(req[r].post)

LEMMA InsertAfter ==
    ASSUME Typed, Typed', Basics, NEW r \in Request, NEW p \in PostId \ used, InsertRow(r, p)
    PROVE  After(r)'
<1>1. /\ at[r] = "insert" /\ at'[r] \in {"count", "reread"}
      /\ live' = live \cup {p} /\ content'[p] = req[r].text
      /\ UNCHANGED <<mentions, card>>
  BY DEF InsertRow, Step, Typed, TypeOK, joined
<1>2. /\ req'[r].post = p /\ req'[r].op = req[r].op
      /\ req'[r].text = req[r].text /\ req'[r].add = req[r].add
  BY Same DEF InsertRow, Typed, TypeOK, Local
<1>3. /\ req[r].op \in {"create", "repost"}
      /\ req[r].add = IF req[r].text = None THEN {} ELSE MentionedIn[req[r].text]
      /\ mentions[p] = {} /\ card[p] = None
  BY <1>1, Same DEF Basics, Ready, Stored, Position, CreateLabel
<1>4. MentionsAt(r)'
  BY <1>1, <1>2, <1>3 DEF MentionsAt, Wanted
<1>5. ViewAt(r)'
  BY <1>1, <1>2, <1>3 DEF ViewAt, Unpublished, Saved, CreateLabel, EditLabel, Joint, Showing
<1>6. QED
  BY <1>1, <1>2, <1>4, <1>5 DEF After, Active, Undisturbed

(* What is known of a request on a post that nobody else disturbs. *)
Undisturbing(r, p) == p = req[r].post /\ p \in PostId /\ p \notin rough

LEMMA Own ==
    ASSUME Typed, Basics, Calmness, NEW r \in Request, NEW p, Undisturbing(r, p), Active(r)
    PROVE  /\ MentionsAt(r) /\ ViewAt(r) /\ p # None /\ Ready(r) /\ Carded(p) /\ Stored(p)
           /\ at[r] \notin {"delete", "publish delete"} => p \in live
           /\ \A s \in Request \ {r} : Active(s) => req[s].post # p
           /\ req[r] \in Local /\ Position(r)
<1>1. p # None
  BY PostsAssumption DEF Undisturbing
<1>2. QED  BY <1>1, Same DEF Basics, Calmness, Alone, Undisturbed, Undisturbing

LEMMA CreatingAfter ==
    ASSUME Typed, Typed', Basics, Calmness, NEW r \in Request, NEW p, Undisturbing(r, p),
           Creating(r), ~InsertPost(r)
    PROVE  After(r)'
<1> USE DEF Undisturbing, Matched, Wanted, CreateLabel, EditLabel, Joint, Unpublished, Saved,
        Showing
<1>0. /\ req'[r].post = p /\ req'[r].op = req[r].op /\ req'[r].text = req[r].text
      /\ Active(r)
  BY SamePost DEF Serve
<1>a. /\ MentionsAt(r) /\ ViewAt(r) /\ p # None /\ Position(r) /\ Ready(r)
      /\ at[r] \notin {"delete", "publish delete"} => p \in live
  BY <1>0, Own
<1>1. CASE CountChild(r) \/ BumpTag(r)
  <2>1. /\ at[r] \in {"count", "bump"} /\ at'[r] \in {"reread", "tag"} /\ req' = req
        /\ (at'[r] = "tag" => at[r] = "bump")
        /\ UNCHANGED <<live, mentions, content, card>>
    BY <1>1 DEF CountChild, BumpTag, Step, Typed, TypeOK, columns, joined
  <2>2. MentionsAt(r)' /\ ViewAt(r)' /\ p \in live'
    BY <1>0, <1>a, <2>1 DEF MentionsAt, ViewAt
  <2>3. QED  BY <1>0, <2>1, <2>2 DEF After, Active, Undisturbed
<1>2. CASE RereadPost(r)
  <2>1. /\ at[r] = "reread" /\ at'[r] = IF req[r].op = "repost" THEN "done" ELSE "tag"
        /\ UNCHANGED <<live, mentions, content, repostOf, card>>
    BY <1>2 DEF RereadPost, Step, Typed, TypeOK, columns, joined
  <2>2. req'[r].seen = content[p] /\ req'[r].add = req[r].add
    BY <1>2, Same DEF RereadPost, Typed, TypeOK, Local
  <2>3. /\ mentions[p] = {} /\ content[p] = req[r].text /\ req[r].add = Wanted(p)
        /\ card[p] = None /\ p \in live
    BY <1>a, <2>1 DEF MentionsAt, ViewAt
  <2>4. CASE req[r].op = "repost"
    <3>1. content[p] = None /\ repostOf[p] # None
      BY <1>0, <1>a, <2>1, <2>3, <2>4 DEF Position, Ready
    <3>2. QED  BY <1>0, <2>1, <2>3, <2>4, <3>1 DEF After, Active, Rests, Shows
  <2>5. CASE req[r].op # "repost"
    <3>1. MentionsAt(r)' /\ ViewAt(r)' /\ p \in live'
      BY <1>0, <2>1, <2>2, <2>3, <2>5 DEF MentionsAt, ViewAt
    <3>2. QED  BY <1>0, <2>1, <2>5, <3>1 DEF After, Active, Undisturbed
  <2>6. QED  BY <2>4, <2>5
<1>3. ASSUME NEW t \in Tag, AttachTag(r, t)
      PROVE  After(r)'
  <2>1. /\ at[r] = "tag" /\ at'[r] = "bump"
        /\ req'[r].add = req[r].add /\ req'[r].seen = req[r].seen
        /\ UNCHANGED <<live, mentions, content, card>>
    BY <1>3, Same DEF AttachTag, Step, Typed, TypeOK, Local, columns
  <2>2. MentionsAt(r)' /\ ViewAt(r)' /\ p \in live'
    BY <1>0, <1>a, <2>1 DEF MentionsAt, ViewAt
  <2>3. QED  BY <1>0, <2>1, <2>2 DEF After, Active, Undisturbed
<1>4. CASE TagsDone(r)
  <2>1. /\ at[r] = "tag" /\ at'[r] = "mention" /\ req' = req
        /\ UNCHANGED <<live, mentions, content, card>>
    BY <1>4 DEF TagsDone, Typed, TypeOK, columns, joined
  <2>2. req[r].op = "create"
    BY <1>a, <2>1 DEF Position
  <2>3. MentionsAt(r)' /\ ViewAt(r)' /\ p \in live'
    BY <1>0, <1>a, <2>1, <2>2 DEF MentionsAt, ViewAt
  <2>4. QED  BY <1>0, <2>1, <2>3 DEF After, Active, Undisturbed
<1>5. ASSUME NEW u \in User, AddMention(r, u)
      PROVE  After(r)'
  <2>1. /\ at[r] = "mention" /\ at'[r] = "mention" /\ u \in req[r].add
        /\ mentions'[p] = mentions[p] \cup {u}
        /\ UNCHANGED <<live, content, card>>
    BY <1>5 DEF AddMention, Step, Typed, TypeOK, columns
  <2>2. req'[r].add = req[r].add \ {u} /\ req'[r].seen = req[r].seen
    BY <1>5, Same DEF AddMention, Typed, TypeOK, Local
  <2>3. mentions[p] \cup req[r].add = Wanted(p)
    BY <1>a, <2>1 DEF MentionsAt
  <2>4. mentions'[p] \cup req'[r].add = Wanted(p)
    BY <2>1, <2>2, <2>3
  <2>5. MentionsAt(r)'
    BY <1>0, <2>1, <2>4 DEF MentionsAt
  <2>6. ViewAt(r)' /\ p \in live'
    BY <1>0, <1>a, <2>1, <2>2 DEF ViewAt
  <2>7. QED  BY <1>0, <2>1, <2>5, <2>6 DEF After, Active, Undisturbed
<1>6. ASSUME NEW u \in User, NotifyMentioned(r, u)
      PROVE  After(r)'
  <2>1. /\ at[r] = "notify" /\ at'[r] = "notify" /\ UNCHANGED <<live, mentions, content, card>>
    BY <1>6 DEF NotifyMentioned, Step, Typed, TypeOK, columns
  <2>2. req'[r].seen = req[r].seen
    BY <1>6, Same DEF NotifyMentioned, Typed, TypeOK, Local
  <2>3. MentionsAt(r)' /\ ViewAt(r)' /\ p \in live'
    BY <1>0, <1>a, <2>1, <2>2 DEF MentionsAt, ViewAt
  <2>4. QED  BY <1>0, <2>1, <2>3 DEF After, Active, Undisturbed
<1>7. CASE MentionsDone(r)
  <2>1. /\ at[r] = "mention" /\ at'[r] = "notify" /\ req[r].add = {}
        /\ UNCHANGED <<live, mentions, content, card>>
    BY <1>7 DEF MentionsDone, Typed, TypeOK, columns, joined
  <2>2. req'[r].seen = req[r].seen
    BY <1>7, Same DEF MentionsDone, Typed, TypeOK, Local
  <2>3. MentionsAt(r)' /\ ViewAt(r)' /\ p \in live'
    BY <1>0, <1>a, <2>1, <2>2 DEF MentionsAt, ViewAt
  <2>4. QED  BY <1>0, <2>1, <2>3 DEF After, Active, Undisturbed
<1>8. CASE NotifyDone(r)
  <2>1. /\ at[r] = "notify" /\ req' = req
        /\ at'[r] = IF req[r].op = "edit" THEN "publish edit" ELSE "notify parent"
        /\ UNCHANGED <<live, mentions, content, card>>
    BY <1>8 DEF NotifyDone, Typed, TypeOK, columns, joined
  <2>2. req[r].op \in {"create", "edit"} /\ Matched(p)
    BY <1>a, <2>1 DEF Position, MentionsAt
  <2>3. MentionsAt(r)' /\ ViewAt(r)' /\ p \in live'
    BY <1>0, <1>a, <2>1, <2>2 DEF MentionsAt, ViewAt
  <2>4. QED  BY <1>0, <2>1, <2>3 DEF After, Active, Undisturbed
<1>9. CASE NotifyParent(r)
  <2>1. /\ at[r] = "notify parent" /\ at'[r] = "publish" /\ req' = req
        /\ UNCHANGED <<live, mentions, content, card>>
    BY <1>9 DEF NotifyParent, Step, Typed, TypeOK, columns
  <2>2. MentionsAt(r)' /\ ViewAt(r)' /\ p \in live'
    BY <1>0, <1>a, <2>1 DEF MentionsAt, ViewAt
  <2>3. QED  BY <1>0, <2>1, <2>2 DEF After, Active, Undisturbed
<1>10. CASE PublishPost(r)
  <2>1. /\ at[r] = "publish" /\ at'[r] = "done" /\ req' = req
        /\ UNCHANGED <<live, mentions, content, repostOf>>
        /\ card' = IF card[p] = None THEN [card EXCEPT ![p] = req[r].seen] ELSE card
    BY <1>10 DEF PublishPost, Typed, TypeOK, columns, joined
  <2>2. /\ Matched(p) /\ card[p] = None /\ content[p] = req[r].text
        /\ req[r].seen = req[r].text /\ req[r].op = "create" /\ p \in live
    BY <1>a, <2>1 DEF MentionsAt, ViewAt, Position
  <2>3. repostOf[p] = None
    BY <1>0, <1>a, <2>1, <2>2 DEF Ready
  <2>4. card'[p] = content[p]
    BY <2>1, <2>2 DEF Typed, TypeOK
  <2>5. QED  BY <1>0, <2>1, <2>2, <2>3, <2>4 DEF After, Active, Rests, Shows
<1>11. QED
  BY <1>1, <1>2, <1>3, <1>4, <1>5, <1>6, <1>7, <1>8, <1>9, <1>10 DEF Creating


LEMMA EditingAfter ==
    ASSUME Typed, Typed', Basics, Calmness, NEW r \in Request, NEW p, Undisturbing(r, p),
           Editing(r)
    PROVE  After(r)'
<1> USE DEF Undisturbing, Matched, Wanted, CreateLabel, EditLabel, Joint, Unpublished, Saved
<1>0. /\ req'[r].post = p /\ req'[r].op = req[r].op /\ req'[r].text = req[r].text
      /\ Active(r)
  BY SamePost DEF Serve, Editing, InsertPost, InsertRow, Step, BeginEdit, LockPost, SaveEdit,
     Refetch, LoadMentions, DropMentions, PublishEdit
<1>a. /\ MentionsAt(r) /\ ViewAt(r) /\ p # None /\ Position(r) /\ Carded(p)
      /\ at[r] \notin {"delete", "publish delete"} => p \in live
      /\ \A s \in Request \ {r} : Active(s) => req[s].post # p
  BY <1>0, Own
<1>1. CASE BeginEdit(r) \/ LockPost(r)
  <2>1. at[r] \in {"begin", "lock"} /\ at'[r] \in {"lock", "save"} /\ live' = live
    BY <1>1 DEF BeginEdit, LockPost, Step, Typed, TypeOK
  <2>2. MentionsAt(r)' /\ ViewAt(r)' /\ p \in live'
    BY <1>0, <1>a, <2>1 DEF MentionsAt, ViewAt
  <2>3. QED  BY <1>0, <2>1, <2>2 DEF After, Active, Undisturbed
<1>2. CASE SaveEdit(r)
  <2>1. at[r] = "save" /\ at'[r] = "refetch" /\ content'[p] = req[r].text /\ live' = live
    BY <1>2 DEF SaveEdit, Step, Typed, TypeOK
  <2>2. MentionsAt(r)' /\ ViewAt(r)' /\ p \in live'
    BY <1>0, <1>a, <2>1 DEF MentionsAt, ViewAt
  <2>3. QED  BY <1>0, <2>1, <2>2 DEF After, Active, Undisturbed
<1>3. CASE Refetch(r)
  <2>1. at[r] = "refetch" /\ at'[r] = "sync" /\ UNCHANGED <<live, content>>
    BY <1>3 DEF Refetch, Step, Typed, TypeOK, columns
  <2>2. req'[r].seen = content[p]
    BY <1>3, Same DEF Refetch, Typed, TypeOK, Local
  <2>3. MentionsAt(r)' /\ ViewAt(r)' /\ p \in live'
    BY <1>0, <1>a, <2>1, <2>2 DEF MentionsAt, ViewAt
  <2>4. QED  BY <1>0, <2>1, <2>3 DEF After, Active, Undisturbed
<1>4. CASE LoadMentions(r)
  <2> DEFINE have == mentions[p]  want == MentionedIn[req[r].text]
  <2>1. /\ at[r] = "sync" /\ at'[r] = IF have \subseteq want THEN "mention" ELSE "unmention"
        /\ UNCHANGED <<live, mentions, content>>
    BY <1>4 DEF LoadMentions, Step, Typed, TypeOK, columns, joined
  <2>2. /\ req'[r].seen = req[r].seen
        /\ req'[r].add = want \ have /\ req'[r].drop = have \ want
    <3>1. req' = [req EXCEPT ![r].add = want \ have, ![r].drop = have \ want]
      BY <1>4 DEF LoadMentions
    <3>2. req[r] \in Local /\ req \in [Request -> Local]
      BY Same DEF Typed, TypeOK
    <3> HIDE DEF want, have
    <3>3. QED  BY <3>1, <3>2 DEF Local
  <2>3. /\ content[p] = req[r].text /\ p \in live /\ req[r].op = "edit" /\ req[r].text \in Text
        /\ req[r].seen = req[r].text
    BY <1>a, <2>1 DEF MentionsAt, ViewAt, Position
  <2>4. want = Wanted(p)
    BY <2>3, PostsAssumption
  <2>5. ViewAt(r)' /\ p \in live'
    BY <1>0, <2>1, <2>2, <2>3 DEF ViewAt
  <2>6. MentionsAt(r)'
    <3>1. CASE have \subseteq want
      <4>1. at'[r] = "mention" /\ mentions[p] \cup req'[r].add = Wanted(p)
        BY <2>1, <2>2, <2>4, <3>1
      <4>2. QED  BY <1>0, <2>1, <4>1 DEF MentionsAt
    <3>2. CASE ~(have \subseteq want)
      <4>1. at'[r] = "unmention"
            /\ (mentions[p] \ req'[r].drop) \cup req'[r].add = Wanted(p)
        BY <2>1, <2>2, <2>4, <3>2
      <4>2. QED  BY <1>0, <2>1, <2>3, <4>1 DEF MentionsAt
    <3>3. QED  BY <3>1, <3>2
  <2>7. QED  BY <1>0, <2>1, <2>5, <2>6 DEF After, Active, Undisturbed
<1>5. CASE DropMentions(r)
  <2>1. /\ at[r] = "unmention" /\ at'[r] = "mention" /\ req' = req
        /\ mentions'[p] = mentions[p] \ req[r].drop
        /\ UNCHANGED <<live, content>>
    BY <1>5 DEF DropMentions, Step, Typed, TypeOK, columns
  <2>2. (mentions[p] \ req[r].drop) \cup req[r].add = Wanted(p) /\ req[r].op = "edit"
    BY <1>a, <2>1 DEF MentionsAt, Position
  <2>3. MentionsAt(r)'
    BY <1>0, <2>1, <2>2 DEF MentionsAt
  <2>4. ViewAt(r)' /\ p \in live'
    BY <1>0, <1>a, <2>1, <2>2 DEF ViewAt
  <2>5. QED  BY <1>0, <2>1, <2>3, <2>4 DEF After, Active, Undisturbed
<1>6. CASE PublishEdit(r)
  <2>1. /\ at[r] = "publish edit" /\ at'[r] = "done" /\ req' = req
        /\ UNCHANGED <<live, mentions, content, repostOf, undone>>
        /\ card' = IF card[p] # None THEN [card EXCEPT ![p] = req[r].seen] ELSE card
    BY <1>6 DEF PublishEdit, Typed, TypeOK, columns, joined
  <2>2. Matched(p) /\ content[p] = req[r].text /\ req[r].seen = req[r].text /\ p \in live
    BY <1>a, <2>1 DEF MentionsAt, ViewAt
  <2>3. CASE card[p] # None
    <3>1. repostOf[p] = None /\ card'[p] = content[p]
      BY <1>a, <2>1, <2>2, <2>3 DEF Carded, Typed, TypeOK
    <3>2. QED  BY <1>0, <2>1, <2>2, <3>1 DEF After, Active, Rests, Shows
  <2>4. CASE card[p] = None
    <3>1. ASSUME NEW s \in Request, Unpublished(s)
          PROVE  req[s].post # p
      <4>1. s # r /\ Active(s)
        BY <2>1, <3>1 DEF Active
      <4>2. QED  BY <1>a, <4>1
    <3>2. repostOf[p] # None \/ GaveUp(p)
      BY <1>a, <2>2, <2>4, <3>1 DEF Carded
    <3>3. card'[p] = None /\ (GaveUp(p) <=> GaveUp(p)')
      BY <2>1, <2>4 DEF GaveUp
    <3>4. QED  BY <1>0, <2>1, <2>2, <3>2, <3>3 DEF After, Active, Rests, Shows
  <2>5. QED  BY <2>3, <2>4
<1>7. QED  BY <1>1, <1>2, <1>3, <1>4, <1>5, <1>6 DEF Editing

LEMMA DeletingAfter ==
    ASSUME Typed, Typed', Basics, Calmness, NEW r \in Request, NEW p, Undisturbing(r, p),
           Deleting(r)
    PROVE  After(r)'
<1> USE DEF Undisturbing, Matched, Wanted
<1>0. /\ req' = req /\ undone' = undone /\ Active(r)
  BY DEF Deleting, DeletePost, RefuseDelete, PublishDelete, RemovePost, Step, Active
<1>a. /\ MentionsAt(r) /\ ViewAt(r) /\ p # None /\ Ready(r)
  BY <1>0, Own
<1>1. CASE DeletePost(r)
  <2>1. at' = [at EXCEPT ![r] = "publish delete"]
    BY <1>1 DEF DeletePost, RemovePost, Step
  <2>2. at'[r] = "publish delete"
    BY <2>1 DEF Typed, TypeOK
  <2>3. MentionsAt(r)' /\ ViewAt(r)'
    BY <2>2 DEF MentionsAt, ViewAt, Unpublished, Saved, CreateLabel, EditLabel, Joint
  <2>4. QED  BY <1>0, <2>2, <2>3 DEF After, Active, Undisturbed
<1>2. CASE RefuseDelete(r)
  <2>1. /\ at[r] = "delete" /\ at'[r] = "refused"
        /\ UNCHANGED <<live, mentions, content, repostOf, card>>
    BY <1>2 DEF RefuseDelete, Step, Typed, TypeOK, columns, joined
  <2>2. (p \in live => Matched(p)) /\ Shows(p)
    BY <1>a, <2>1 DEF MentionsAt, ViewAt
  <2>3. Shows(p)'
    BY <1>0, <2>1, <2>2 DEF Shows, GaveUp
  <2>4. QED  BY <1>0, <2>1, <2>2, <2>3 DEF After, Active, Rests
<1>3. CASE PublishDelete(r)
  <2>1. /\ at[r] = "publish delete" /\ at'[r] = "done" /\ live' = live
        /\ card'[p] = None
    BY <1>3 DEF PublishDelete, Typed, TypeOK
  <2>2. p \notin live
    BY <1>a, <2>1 DEF Ready
  <2>3. QED  BY <1>0, <1>a, <2>1, <2>2 DEF After, Active, Rests, Shows
<1>4. QED  BY <1>1, <1>2, <1>3 DEF Deleting

LEMMA LoseAfter ==
    ASSUME Typed, Typed', Basics, Calmness, NEW r \in Request, NEW p, Undisturbing(r, p),
           NEW u \in User, LoseNotice(r, u)
    PROVE  After(r)'
<1> USE DEF Undisturbing, Matched, Wanted
<1>0. /\ req'[r].post = p /\ req'[r].op = req[r].op /\ req'[r].text = req[r].text
      /\ Active(r)
  BY SamePost DEF Serve, LoseNotice, Step, InsertPost, InsertRow
<1>1. /\ MentionsAt(r) /\ ViewAt(r) /\ p # None
      /\ at[r] \notin {"delete", "publish delete"} => p \in live
  BY <1>0, Own
<1>2. at[r] = "notify" /\ at'[r] = "notify" /\ UNCHANGED <<live, mentions, content, card>>
  BY DEF LoseNotice, Step, Typed, TypeOK, columns, joined
<1>3. req'[r].seen = req[r].seen
  BY Same DEF LoseNotice, Typed, TypeOK, Local
<1>4. MentionsAt(r)' /\ ViewAt(r)' /\ p \in live'
  BY <1>0, <1>1, <1>2, <1>3 DEF MentionsAt, ViewAt, Unpublished, Saved, CreateLabel, EditLabel,
     Joint, Showing
<1>5. QED  BY <1>0, <1>2, <1>4 DEF After, Active, Undisturbed

LEMMA ServeAfter ==
    ASSUME Typed, Typed', Basics, Calmness, NEW r \in Request, Serve(r)
    PROVE  After(r)'
<1>1. CASE InsertPost(r)
  <2>1. PICK p \in PostId \ used : InsertRow(r, p)
    BY <1>1 DEF InsertPost
  <2>2. QED  BY <2>1, InsertAfter
<1>2. CASE ~InsertPost(r)
  <2> DEFINE p == req[r].post
  <2>1. req'[r].post = p /\ rough \subseteq rough'
    BY <1>2, SamePost, Lasts
  <2>2. CASE p = None \/ p \in rough
    BY <2>1, <2>2 DEF After, Undisturbed, Rests
  <2>3. CASE p # None /\ p \notin rough
    <3>1. p \in PostId
      BY <2>3, Same DEF Local
    <3>2. Undisturbing(r, p)
      BY <2>3, <3>1 DEF Undisturbing
    <3>3. CASE Fail(r)
      <4>1. p \in rough'
        BY <2>3, <3>3 DEF Fail
      <4>2. QED  BY <2>1, <4>1 DEF After, Undisturbed, Rests
    <3> HIDE DEF p
    <3>4. QED  BY <1>2, <3>2, <3>3, CreatingAfter, EditingAfter, DeletingAfter, LoseAfter DEF Serve
  <2>4. QED  BY <2>2, <2>3
<1>3. QED  BY <1>1, <1>2

(* What holds of another request's post, and of a post at rest, stays.     *)
LEMMA AlikeShows ==
    ASSUME NEW q \in PostId, Alike(q), undone \subseteq undone', Shows(q)
    PROVE  Shows(q)'
<1>1. GaveUp(q) => GaveUp(q)'
  BY DEF GaveUp
<1>2. QED  BY <1>1 DEF Alike, Shows

LEMMA AlikeKeeps ==
    ASSUME Typed, Typed', NEW q \in PostId, Alike(q), NEW s \in Request, q = req[s].post,
           undone \subseteq undone', at'[s] = at[s], req'[s] = req[s], MentionsAt(s), ViewAt(s)
    PROVE  MentionsAt(s)' /\ ViewAt(s)'
<1>1. Wanted(q)' = Wanted(q)
  BY DEF Alike, Wanted
<1>2. Shows(q) => Shows(q)'
  BY AlikeShows
<1>3. MentionsAt(s)'
  BY <1>1 DEF MentionsAt, Matched, Alike
<1>4. ViewAt(s)'
  BY <1>2 DEF ViewAt, Unpublished, Saved, CreateLabel, EditLabel, Joint, Alike
<1>5. QED  BY <1>3, <1>4

LEMMA AlikeRests ==
    ASSUME NEW q \in PostId, Alike(q), undone \subseteq undone',
           (q \in live => Matched(q)) /\ Shows(q)
    PROVE  (q \in live => Matched(q))' /\ Shows(q)'
<1>1. Shows(q)'
  BY AlikeShows
<1>2. QED  BY <1>1 DEF Alike, Matched, Wanted

LEMMA ServeCalm ==
    ASSUME Typed, Typed', Basics, Calmness, NEW r \in Request, Serve(r)
    PROVE  Calmness'
<1>1. After(r)'
  BY ServeAfter
<1>2. \A s \in Request \ {r} : at'[s] = at[s] /\ req'[s] = req[s]
  BY Lasts
<1>3. rough \subseteq rough' /\ undone \subseteq undone'
  BY Lasts
<1>4. /\ Active(r)
      /\ \/ req'[r].post = req[r].post
         \/ req'[r].post \in PostId \ used /\ req[r].post = None
  <2>1. CASE InsertPost(r)
    <3>1. PICK p \in PostId \ used : InsertRow(r, p)
      BY <2>1 DEF InsertPost
    <3>2. req'[r].post = p
      BY <3>1, Same DEF InsertRow, Typed, TypeOK, Local
    <3>3. at[r] = "insert"
      BY <3>1 DEF InsertRow, Step
    <3>4. req[r].post = None /\ Active(r)
      BY <3>3, Same DEF Position, Active
    <3>5. QED  BY <3>2, <3>4
  <2>2. CASE ~InsertPost(r)
    BY <2>2, SamePost
  <2>3. QED  BY <2>1, <2>2
<1>5. \A q \in PostId : q # req'[r].post => Alike(q)
  BY Elsewhere
<1>6. ASSUME NEW s \in Request, s # r, Active(s), req[s].post # None, req[s].post \notin rough
      PROVE  /\ req[s].post \in used /\ req[s].post \in PostId
             /\ req[s].post # req[r].post /\ req[s].post # req'[r].post
  <2>1. req[s].post \in used /\ req[s].post \in PostId
    BY <1>6, Same DEF Position, Typed, TypeOK
  <2>2. req[s].post # req[r].post
    BY <1>4, <1>6 DEF Calmness, Alone
  <2>3. QED  BY <1>4, <2>1, <2>2
<1>7. ASSUME NEW s \in Request
      PROVE  Alone(s)'
  <2>1. CASE s # r
    BY <1>2, <1>3, <1>6, <2>1 DEF Calmness, Alone, Active
  <2>2. CASE s = r
    <3>1. SUFFICES ASSUME req'[r].post # None, req'[r].post \notin rough, Active(r)',
                          NEW o \in Request \ {r}, Active(o)'
                   PROVE  req'[o].post # req'[r].post
      BY <1>3, <2>2 DEF Alone
    <3>2. Active(o) /\ req'[o] = req[o]
      BY <1>2, <3>1 DEF Active
    <3>3. CASE req'[r].post = req[r].post
      BY <1>4, <3>1, <3>2, <3>3 DEF Calmness, Alone
    <3>4. CASE req'[r].post \in PostId \ used
      <4>1. req[o].post = None \/ req[o].post \in used
        BY <3>2, Same DEF Position
      <4>2. QED  BY <3>1, <3>2, <3>4, <4>1
    <3>5. QED  BY <1>4, <3>3, <3>4
  <2>3. QED  BY <2>1, <2>2
<1>8. ASSUME NEW s \in Request
      PROVE  Undisturbed(s)'
  <2>1. CASE s = r
    BY <1>1, <2>1 DEF After, Undisturbed
  <2>2. CASE s # r
    <3>1. SUFFICES ASSUME Active(s)', req'[s].post # None, req'[s].post \notin rough'
                   PROVE  Undisturbed(s)'
      BY DEF Undisturbed
    <3> DEFINE q == req[s].post
    <3>2. Active(s) /\ q # None /\ q \notin rough /\ at'[s] = at[s] /\ req'[s] = req[s]
      BY <1>2, <1>3, <2>2, <3>1 DEF Active
    <3>3. q \in PostId /\ q # req'[r].post
      BY <1>6, <2>2, <3>2
    <3>4. Alike(q) /\ Undisturbed(s)
      BY <1>5, <3>3 DEF Calmness
    <3>5. MentionsAt(s)' /\ ViewAt(s)'
      BY <1>3, <3>2, <3>3, <3>4, AlikeKeeps DEF Undisturbed
    <3>6. QED  BY <3>2, <3>4, <3>5 DEF Undisturbed, Alike
  <2>3. QED  BY <2>1, <2>2
<1>9. ASSUME NEW q \in PostId
      PROVE  Settled(q)'
  <2>1. SUFFICES ASSUME q \notin rough', ~Busy(q)'
                 PROVE  (q \in live => Matched(q))' /\ Shows(q)'
    BY DEF Settled
  <2>2. CASE q = req'[r].post
    <3>1. ~Active(r)' /\ q # None
      BY <2>1, <2>2, PostsAssumption DEF Busy
    <3>2. QED  BY <1>1, <2>1, <2>2, <3>1 DEF After, Rests
  <2>3. CASE q # req'[r].post
    <3>1. Alike(q) /\ q \notin rough
      BY <1>3, <1>5, <2>1, <2>3
    <3>2. q # req[r].post
      BY <1>4, <2>3, PostsAssumption
    <3>3. ~Busy(q)
      BY <1>2, <2>1, <3>2 DEF Busy, Active
    <3>4. (q \in live => Matched(q)) /\ Shows(q)
      BY <3>1, <3>3 DEF Calmness, Settled
    <3>5. QED  BY <1>3, <3>1, <3>4, AlikeRests
  <2>4. QED  BY <2>2, <2>3
<1>10. QED  BY <1>7, <1>8, <1>9 DEF Calmness

(* A request that starts with a post nobody works on disturbs nobody, and  *)
(* a lone edit may take the post as it finds it.                           *)
LEMMA StartCalm ==
    ASSUME Typed, Typed', Calmness, NEW r \in Request, NEW l \in Local, NEW first \in Label,
           Start(r, l, first), Opening(l, first)
    PROVE  Calmness'
<1>1. /\ at[r] = "idle" /\ at'[r] = first /\ req'[r] = l
      /\ \A s \in Request \ {r} : at'[s] = at[s] /\ req'[s] = req[s]
      /\ UNCHANGED <<live, author, repostOf, content, mentions, notices, tagged, card, undone>>
  BY DEF Start, Typed, TypeOK, columns, joined
<1>2. first \in {"insert", "begin", "delete"}
  BY DEF Opening
<1>3. l.post # None => l.post \in PostId
  BY DEF Local
<1>4. ~Active(r) /\ Active(r)'
  BY <1>1, <1>2 DEF Active
<1>5. \A q \in PostId : Alike(q)
  BY <1>1 DEF Alike
<1>6. /\ \A q : q # l.post /\ q \notin rough' => q \notin rough
      /\ l.post # None /\ l.post \notin rough' => ~Busy(l.post)
      /\ l.post # None /\ l.post \notin rough' /\ l.op # "edit" => l.post \notin rough
  BY DEF Start
<1>7. ASSUME NEW s \in Request, s # r, Active(s), req[s].post # None, req[s].post \notin rough'
      PROVE  req[s].post # l.post /\ req[s].post \notin rough
  BY <1>6, <1>7 DEF Busy
<1>8. ASSUME NEW s \in Request
      PROVE  Alone(s)'
  <2>1. CASE s = r
    <3>1. SUFFICES ASSUME l.post # None, l.post \notin rough',
                          NEW o \in Request \ {r}, Active(o)'
                   PROVE  req'[o].post # l.post
      BY <1>1, <2>1 DEF Alone
    <3>2. Active(o) /\ req'[o] = req[o]
      BY <1>1, <3>1 DEF Active
    <3>3. QED  BY <1>6, <3>1, <3>2 DEF Busy
  <2>2. CASE s # r
    <3>1. SUFFICES ASSUME Active(s), req[s].post # None, req[s].post \notin rough',
                          NEW o \in Request \ {s}, Active(o)'
                   PROVE  req'[o].post # req[s].post
      BY <1>1, <2>2 DEF Alone, Active
    <3>2. req[s].post # l.post /\ req[s].post \notin rough
      BY <1>7, <2>2, <3>1
    <3>3. CASE o = r
      BY <1>1, <3>2, <3>3
    <3>4. CASE o # r
      BY <1>1, <3>1, <3>2, <3>4 DEF Calmness, Alone, Active
    <3>5. QED  BY <3>3, <3>4
  <2>3. QED  BY <2>1, <2>2
<1>9. ASSUME NEW s \in Request
      PROVE  Undisturbed(s)'
  <2>1. CASE s # r
    <3>1. SUFFICES ASSUME Active(s), req[s].post # None, req[s].post \notin rough'
                   PROVE  Undisturbed(s)'
      BY <1>1, <2>1 DEF Undisturbed, Active
    <3>2. req[s].post \notin rough
      BY <1>7, <2>1, <3>1
    <3>3. req[s].post \in PostId /\ Undisturbed(s)
      BY <3>1, Same DEF Calmness, Local
    <3>4. MentionsAt(s)' /\ ViewAt(s)'
      BY <1>1, <1>5, <2>1, <3>1, <3>2, <3>3, AlikeKeeps DEF Undisturbed
    <3>5. QED  BY <1>1, <2>1, <3>1, <3>2, <3>3, <3>4 DEF Undisturbed
  <2>2. CASE s = r
    <3>1. SUFFICES ASSUME l.post # None, l.post \notin rough'
                   PROVE  Undisturbed(r)'
      BY <1>1, <2>2 DEF Undisturbed
    <3>2. CASE first = "begin"
      <4>1. l.post \in live
        BY <3>2 DEF Opening
      <4>2. MentionsAt(r)'
        BY <1>1, <3>2 DEF MentionsAt
      <4>3. ViewAt(r)'
        BY <1>1, <3>2 DEF ViewAt, Unpublished, Saved, CreateLabel, EditLabel, Joint
      <4>4. QED  BY <1>1, <4>1, <4>2, <4>3 DEF Undisturbed
    <3>3. CASE first = "delete"
      <4>1. l.post \notin rough /\ ~Busy(l.post) /\ l.post \in PostId
        BY <1>3, <1>6, <3>1, <3>3 DEF Opening
      <4>2. (l.post \in live => Matched(l.post)) /\ Shows(l.post)
        BY <4>1 DEF Calmness, Settled
      <4>3. (l.post \in live => Matched(l.post))' /\ Shows(l.post)'
        BY <1>1, <4>2 DEF Matched, Wanted, Shows, GaveUp
      <4>4. MentionsAt(r)'
        BY <1>1, <3>3, <4>3 DEF MentionsAt
      <4>5. ViewAt(r)'
        BY <1>1, <3>3, <4>3 DEF ViewAt, Unpublished, Saved, CreateLabel, EditLabel, Joint
      <4>6. QED  BY <1>1, <3>3, <4>4, <4>5 DEF Undisturbed
    <3>4. QED  BY <3>1, <3>2, <3>3 DEF Opening
  <2>3. QED  BY <2>1, <2>2
<1>10. ASSUME NEW q \in PostId
       PROVE  Settled(q)'
  <2>1. SUFFICES ASSUME q \notin rough', ~Busy(q)'
                 PROVE  (q \in live => Matched(q))' /\ Shows(q)'
    BY DEF Settled
  <2>2. q # l.post
    BY <1>1, <1>4, <2>1 DEF Busy
  <2>3. q \notin rough /\ ~Busy(q)
    BY <1>1, <1>4, <1>6, <2>1, <2>2 DEF Busy, Active
  <2>4. (q \in live => Matched(q)) /\ Shows(q)
    BY <2>3 DEF Calmness, Settled
  <2>5. QED  BY <1>1, <1>5, <2>4, AlikeRests
<1>11. QED  BY <1>8, <1>9, <1>10 DEF Calmness

LEMMA NextCalm ==
    ASSUME Typed, Typed', Basics, Calmness, [Next]_vars
    PROVE  Calmness'
<1>1. ASSUME NEW r \in Request, Arrive(r)
      PROVE  Calmness'
  <2>1. PICK l \in Local, first \in Label : Start(r, l, first) /\ Opening(l, first)
    BY <1>1, ArriveStarts
  <2>2. QED  BY <2>1, StartCalm
<1>2. ASSUME UNCHANGED <<live, author, repostOf, content, mentions, card, rough, undone, at, req>>
      PROVE  Calmness'
  <2>1. ASSUME NEW q
        PROVE  /\ Shows(q)' <=> Shows(q)
               /\ Matched(q)' <=> Matched(q)
               /\ Wanted(q)' = Wanted(q)
               /\ Busy(q)' <=> Busy(q)
    BY <1>2 DEF Shows, GaveUp, Matched, Wanted, Busy, Active
  <2>2. ASSUME NEW r \in Request
        PROVE  Alone(r)'
    BY <1>2 DEF Calmness, Alone, Active
  <2>3. ASSUME NEW r \in Request
        PROVE  Undisturbed(r)'
    <3>1. MentionsAt(r)' <=> MentionsAt(r)
      BY <1>2, <2>1 DEF MentionsAt
    <3>2. ViewAt(r)' <=> ViewAt(r)
      BY <1>2, <2>1 DEF ViewAt, Unpublished, Saved
    <3>3. QED  BY <1>2, <3>1, <3>2 DEF Calmness, Undisturbed, Active
  <2>4. \A q \in PostId : Settled(q)'
    BY <1>2, <2>1 DEF Calmness, Settled
  <2>5. QED  BY <2>2, <2>3, <2>4 DEF Calmness
<1>3. ASSUME NEW p \in PostId, ReadPost(p)
      PROVE  Calmness'
  BY <1>2, <1>3 DEF ReadPost, columns, joined
<1>4. CASE UNCHANGED vars
  BY <1>2, <1>4 DEF vars, columns, joined
<1>5. QED  BY <1>1, <1>3, <1>4, ServeCalm DEF Next

LEMMA InitCalm == Init => Calmness
<1> SUFFICES ASSUME Init PROVE Calmness
  OBVIOUS
<1> USE PostsAssumption
<1>1. \A r \in Request : ~Active(r)
  BY DEF Init, Active
<1>2. \A r \in Request : Alone(r) /\ Undisturbed(r)
  BY <1>1 DEF Alone, Undisturbed
<1>3. ASSUME NEW p \in PostId
      PROVE  /\ content[p] \in Text \cup {None} /\ (content[p] = None <=> p \notin Existing)
             /\ card[p] = content[p] /\ repostOf[p] = None
             /\ mentions[p] = IF p \in Existing THEN MentionedIn[content[p]] ELSE {}
             /\ live = Existing
  BY DEF Init
<1>4. \A p \in PostId : Settled(p)
  BY <1>3 DEF Settled, Matched, Wanted, Shows
<1>5. QED  BY <1>2, <1>4 DEF Calmness

LEMMA AlwaysCalm == Spec => [](Typed /\ Basics /\ Calmness)
<1>1. Typed /\ Typed' /\ Basics /\ Calmness /\ [Next]_vars => Calmness'
  BY NextCalm
<1>2. QED  BY <1>1, AlwaysBasic, InitCalm, PTL DEF Spec

(* However requests overlapped, and whatever failed in them, an edit or    *)
(* creation that runs alone and undisturbed leaves the post mentioning     *)
(* exactly whom its content mentions; and nobody else is mentioned but not *)
(* told, unless recording or telling failed (Posts.MentionsMatch,          *)
(* model/mention.go:91-155, handler/post.go:545-560).                      *)
THEOREM MentionsAlwaysMatch == Spec => []MentionsMatch
<1>1. ASSUME Typed, Basics, Calmness
      PROVE  MentionsMatch
  <2>1. SUFFICES ASSUME NEW p \in live, ~Busy(p)
                 PROVE  /\ p \notin rough => Matched(p)
                        /\ ~Untold(p) =>
                             (mentions[p] \ {author[p]}) \X {"mention"} \subseteq notices[p]
    BY DEF MentionsMatch, Matched, Wanted, Untold
  <2>2. p \in PostId
    BY <1>1 DEF Typed, TypeOK
  <2>3. p \notin rough => Matched(p)
    BY <1>1, <2>1, <2>2 DEF Calmness, Settled
  <2>4. \A u : ~Telling(p, u)
    BY <2>1 DEF Telling, Joint, Busy, Active
  <2>5. ~Untold(p) => \A u \in mentions[p] \ {author[p]} : <<u, "mention">> \in notices[p]
    BY <1>1, <2>1, <2>2, <2>4 DEF Basics, Tells
  <2>6. QED  BY <2>3, <2>5
<1>2. QED  BY <1>1, AlwaysCalm, PTL

(* Such an edit or creation leaves every connected viewer with the card as *)
(* it is stored, or without one if the creation gave up before publishing; *)
(* and nobody keeps a card of a deleted post (Posts.ViewersMatch,          *)
(* handler/post.go:443-447, 573-589).                                      *)
THEOREM ViewersAlwaysMatch == Spec => []ViewersMatch
<1>1. ASSUME Calmness
      PROVE  ViewersMatch
  BY <1>1 DEF Calmness, Settled, ViewersMatch, Shows, GaveUp
<1>2. QED  BY <1>1, AlwaysCalm, PTL
-----------------------------------------------------------------------------
(* Counters. *)

LEMMA NoneMore ==
    ASSUME NEW S, NEW T \in SUBSET PostId, S \subseteq T
    PROVE  Cardinality(S) \in Nat /\ Cardinality(T) \in Nat /\ Cardinality(S) <= Cardinality(T)
<1>1. IsFiniteSet(T)
  BY PostsAssumption, FS_Subset
<1>2. QED  BY <1>1, FS_Subset, FS_CardinalityType

LEMMA OneMore ==
    ASSUME NEW S, NEW T \in SUBSET PostId, NEW x \in PostId, S \subseteq T \cup {x}
    PROVE  Cardinality(S) \in Nat /\ Cardinality(T) \in Nat /\ Cardinality(S) <= Cardinality(T) + 1
<1>1. IsFiniteSet(T)
  BY PostsAssumption, FS_Subset
<1>2. Cardinality(S) \in Nat /\ Cardinality(S) <= Cardinality(T \cup {x})
  <2>1. T \cup {x} \in SUBSET PostId
    OBVIOUS
  <2>2. QED  BY <2>1, NoneMore
<1>3. Cardinality(T) \in Nat /\ Cardinality(T \cup {x}) <= Cardinality(T) + 1
  <2>1. Cardinality(T) \in Nat
    BY <1>1, FS_CardinalityType
  <2>2. Cardinality(T \cup {x}) = IF x \in T THEN Cardinality(T) ELSE Cardinality(T) + 1
    BY <1>1, FS_AddElement
  <2>3. QED  BY <2>1, <2>2
<1>4. Cardinality(T \cup {x}) \in Nat
  BY <1>1, FS_AddElement, FS_CardinalityType
<1>5. QED  BY <1>2, <1>3, <1>4

LEMMA CountedIn ==
    ASSUME Typed
    PROVE  /\ \A p : Replies(p) \in SUBSET PostId /\ Reposts(p) \in SUBSET PostId
           /\ \A t : Taggings(t) \in SUBSET PostId
BY DEF Replies, Reposts, Taggings, Typed, TypeOK

(* No post is counted on that was not counted on before. *)
LEMMA SumsKept ==
    ASSUME Typed, Sums, UNCHANGED counts, NEW p \in live,
           Replies(p)' \subseteq Replies(p), Reposts(p)' \subseteq Reposts(p)
    PROVE  /\ Cardinality(Replies(p))' <= replyCount'[p]
           /\ Cardinality(Reposts(p))' <= repostCount'[p]
<1>1. Cardinality(Replies(p)') <= Cardinality(Replies(p))
      /\ Cardinality(Replies(p)') \in Nat /\ Cardinality(Replies(p)) \in Nat
  BY CountedIn, NoneMore
<1>2. Cardinality(Reposts(p)') <= Cardinality(Reposts(p))
      /\ Cardinality(Reposts(p)') \in Nat /\ Cardinality(Reposts(p)) \in Nat
  BY CountedIn, NoneMore
<1>3. p \in PostId /\ replyCount[p] \in Nat /\ repostCount[p] \in Nat
  BY DEF Typed, TypeOK
<1>4. QED  BY <1>1, <1>2, <1>3 DEF Sums, counts

LEMMA TagsKept ==
    ASSUME Typed, Sums, UNCHANGED counts, NEW t \in Tag, Taggings(t)' \subseteq Taggings(t)
    PROVE  Cardinality(Taggings(t))' <= useCount'[t]
<1>1. Cardinality(Taggings(t)') <= Cardinality(Taggings(t))
      /\ Cardinality(Taggings(t)') \in Nat /\ Cardinality(Taggings(t)) \in Nat
  BY CountedIn, NoneMore
<1>2. useCount[t] \in Nat
  BY DEF Typed, TypeOK
<1>3. QED  BY <1>1, <1>2 DEF Sums, counts

(* A step that starts no counting, and ends it only where it fails. *)
Keeping(label) ==
    \A s \in Request :
        /\ at'[s] = label => at[s] = label /\ req'[s] = req[s]
        /\ at[s] = label => \/ at'[s] = label /\ req'[s] = req[s]
                            \/ <<req[s].post, label>> \in undone'

LEMMA QuietCounts ==
    ASSUME Typed, Sums, \A r \in Request : Linked(r),
           UNCHANGED counts, undone \subseteq undone', live' \subseteq live,
           \A q \in live' : parent'[q] = parent[q] /\ repostOf'[q] = repostOf[q],
           \A q \in live' : tagged'[q] = tagged[q],
           Keeping("count"), Keeping("bump")
    PROVE  Sums' /\ \A r \in Request : Linked(r)'
<1>1. \A q : Counted(q)' => Counted(q)
  BY DEF Counted, Keeping
<1>2. \A q, t : Bumped(q, t)' => Bumped(q, t)
  BY DEF Bumped, Keeping
<1>3. \A p : Replies(p)' \subseteq Replies(p) /\ Reposts(p)' \subseteq Reposts(p)
  BY <1>1 DEF Replies, Reposts
<1>4. \A t : Taggings(t)' \subseteq Taggings(t)
  BY <1>2 DEF Taggings
<1>5. ASSUME NEW r \in Request
      PROVE  Linked(r)'
  <2>1. at'[r] = "count" => at[r] = "count" /\ req'[r] = req[r] /\ Linked(r)
    BY DEF Keeping
  <2>2. QED  BY <2>1 DEF Linked
<1>6. \A p \in live' : /\ Cardinality(Replies(p))' <= replyCount'[p]
                       /\ Cardinality(Reposts(p))' <= repostCount'[p]
  BY <1>3, SumsKept
<1>7. \A t \in Tag : Cardinality(Taggings(t))' <= useCount'[t]
  BY <1>4, TagsKept
<1>8. QED  BY <1>5, <1>6, <1>7 DEF Sums

LEMMA InsertCounts ==
    ASSUME Typed, Typed', Sums, \A r \in Request : Linked(r), ThreadsIntact, Basics,
           NEW r \in Request, InsertPost(r)
    PROVE  Sums' /\ \A s \in Request : Linked(s)'
<1>1. PICK p \in PostId \ used : InsertRow(r, p)
  BY DEF InsertPost
<1>2. /\ at[r] = "insert" /\ live' = live \cup {p} /\ req[r].parent \in live \cup {None}
      /\ at'[r] = IF req[r].parent = None THEN "reread" ELSE "count"
      /\ parent' = [parent EXCEPT ![p] = IF req[r].op = "create" THEN req[r].parent ELSE None]
      /\ repostOf' = [repostOf EXCEPT ![p] = IF req[r].op = "repost" THEN req[r].parent ELSE None]
      /\ UNCHANGED <<counts, tagged, undone>>
  BY <1>1 DEF InsertRow, Step, Typed, TypeOK, joined
<1>3. /\ req'[r].post = p /\ req'[r].op = req[r].op /\ req'[r].parent = req[r].parent
      /\ req[r].op \in {"create", "repost"}
  <2>1. req[r].op \in {"create", "repost"}
    BY <1>2, Same DEF Position, CreateLabel
  <2>2. req' = [req EXCEPT ![r].post = p]
    BY <1>1 DEF InsertRow
  <2>3. QED  BY <2>1, <2>2, Same DEF Typed, TypeOK, Local
<1>4. \A s \in Request \ {r} : at'[s] = at[s] /\ req'[s] = req[s]
  BY Others DEF Serve, Creating
<1>5. p \notin live /\ live \subseteq PostId
  BY DEF Typed, TypeOK
<1>6. /\ parent'[p] = IF req[r].op = "create" THEN req[r].parent ELSE None
      /\ repostOf'[p] = IF req[r].op = "repost" THEN req[r].parent ELSE None
      /\ \A q \in live : parent'[q] = parent[q] /\ repostOf'[q] = repostOf[q]
  BY <1>2, <1>5 DEF Typed, TypeOK
<1>7. tagged[p] = {}
  BY DEF Basics, Stored
<1>8. \A q \in live : Counted(q)' <=> Counted(q)
  BY <1>2, <1>3, <1>4, <1>5 DEF Counted
<1>9. \A q \in live, t \in Tag : Bumped(q, t)' <=> Bumped(q, t)
  BY <1>2, <1>3, <1>4, <1>5 DEF Bumped
<1>10. req[r].parent # None => ~Counted(p)'
  BY <1>2, <1>3 DEF Counted
<1>11. \A q \in PostId : Replies(q)' \subseteq Replies(q) /\ Reposts(q)' \subseteq Reposts(q)
  BY <1>2, <1>6, <1>8, <1>10, PostsAssumption DEF Replies, Reposts
<1>12. \A t \in Tag : Taggings(t)' \subseteq Taggings(t)
  BY <1>2, <1>7, <1>9 DEF Taggings
<1>13. Replies(p) = {} /\ Reposts(p) = {}
  BY <1>5, PostsAssumption DEF ThreadsIntact, Replies, Reposts
<1>14. Cardinality(Replies(p))' <= replyCount'[p] /\ Cardinality(Reposts(p))' <= repostCount'[p]
  <2>1. Replies(p)' = {} /\ Reposts(p)' = {}
    BY <1>11, <1>13
  <2>2. replyCount'[p] \in Nat /\ repostCount'[p] \in Nat
    BY DEF Typed, TypeOK
  <2>3. Cardinality({}) = 0
    BY FS_EmptySet
  <2>4. QED  BY <2>1, <2>2, <2>3
<1>15. \A q \in live : /\ Cardinality(Replies(q))' <= replyCount'[q]
                       /\ Cardinality(Reposts(q))' <= repostCount'[q]
  BY <1>2, <1>5, <1>11, SumsKept
<1>16. \A t \in Tag : Cardinality(Taggings(t))' <= useCount'[t]
  BY <1>2, <1>12, TagsKept
<1>17. ASSUME NEW s \in Request
       PROVE  Linked(s)'
  <2>1. CASE s = r
    BY <1>2, <1>3, <1>6, <2>1 DEF Linked
  <2>2. CASE s # r
    <3>1. at[s] = "count" => req[s].post \in used
      BY Same DEF Position, Active
    <3>2. QED  BY <1>2, <1>4, <1>6, <2>2, <3>1 DEF Linked
  <2>3. QED  BY <2>1, <2>2
<1>18. QED  BY <1>2, <1>14, <1>15, <1>16, <1>17 DEF Sums


LEMMA CountCounts ==
    ASSUME Typed, Typed', Sums, \A r \in Request : Linked(r), ThreadsIntact,
           NEW r \in Request, CountChild(r)
    PROVE  Sums' /\ \A s \in Request : Linked(s)'
<1> DEFINE q == req[r].post
           up == req[r].parent
<1>1. /\ at[r] = "count" /\ at'[r] = "reread"
      /\ UNCHANGED <<live, parent, repostOf, useCount, tagged, undone, req>>
  BY DEF CountChild, Step, Typed, TypeOK, columns, joined
<1>2. \A s \in Request \ {r} : at'[s] = at[s]
  BY Others DEF Serve, Creating
<1>3. q \in PostId /\ up \in PostId /\ live \subseteq PostId /\ req[r].op \in {"create", "repost"}
  BY <1>1, Same DEF Position, Active, CreateLabel, Typed, TypeOK
<1>4. \A p \in live : /\ replyCount[p] \in Nat /\ replyCount'[p] \in Nat
                      /\ repostCount[p] \in Nat /\ repostCount'[p] \in Nat
  BY <1>3 DEF Typed, TypeOK
<1>5. \A p \in live :
        /\ replyCount'[p] = IF req[r].op = "create" /\ p = up THEN replyCount[p] + 1
                            ELSE replyCount[p]
        /\ repostCount'[p] = IF req[r].op # "create" /\ p = up THEN repostCount[p] + 1
                             ELSE repostCount[p]
  <2>1. CASE req[r].op = "create"
    BY <1>3, <2>1 DEF CountChild
  <2>2. CASE req[r].op # "create"
    BY <1>3, <2>2 DEF CountChild
  <2>3. QED  BY <2>1, <2>2
<1>6. q \in live => /\ parent[q] = IF req[r].op = "create" THEN up ELSE None
                    /\ repostOf[q] = IF req[r].op = "create" THEN None ELSE up
  BY <1>1 DEF Linked
<1> HIDE DEF q, up
<1>7. \A p \in live : Counted(p)' => Counted(p) \/ p = q
  BY <1>1, <1>2 DEF Counted, q
<1>8. \A p, t : Bumped(p, t)' => Bumped(p, t)
  BY <1>1, <1>2 DEF Bumped
<1>9. ASSUME NEW p \in live
      PROVE  Cardinality(Replies(p))' <= replyCount'[p]
  <2>1. CASE req[r].op = "create" /\ p = up
    <3>1. Replies(p)' \subseteq Replies(p) \cup {q}
      BY <1>1, <1>7 DEF Replies
    <3>2. /\ Cardinality(Replies(p)') <= Cardinality(Replies(p)) + 1
          /\ Cardinality(Replies(p)') \in Nat /\ Cardinality(Replies(p)) \in Nat
      BY <1>3, <3>1, CountedIn, OneMore
    <3>3. QED  BY <1>4, <1>5, <2>1, <3>2 DEF Sums
  <2>2. CASE ~(req[r].op = "create" /\ p = up)
    <3>1. Replies(p)' \subseteq Replies(p)
      BY <1>1, <1>3, <1>6, <1>7, <1>9, <2>2, PostsAssumption DEF Replies
    <3>2. /\ Cardinality(Replies(p)') <= Cardinality(Replies(p))
          /\ Cardinality(Replies(p)') \in Nat /\ Cardinality(Replies(p)) \in Nat
      BY <3>1, CountedIn, NoneMore
    <3>3. QED  BY <1>4, <1>5, <2>2, <3>2 DEF Sums
  <2>3. QED  BY <2>1, <2>2
<1>10. ASSUME NEW p \in live
       PROVE  Cardinality(Reposts(p))' <= repostCount'[p]
  <2>1. CASE req[r].op # "create" /\ p = up
    <3>1. Reposts(p)' \subseteq Reposts(p) \cup {q}
      BY <1>1, <1>7 DEF Reposts
    <3>2. /\ Cardinality(Reposts(p)') <= Cardinality(Reposts(p)) + 1
          /\ Cardinality(Reposts(p)') \in Nat /\ Cardinality(Reposts(p)) \in Nat
      BY <1>3, <3>1, CountedIn, OneMore
    <3>3. QED  BY <1>4, <1>5, <2>1, <3>2 DEF Sums
  <2>2. CASE ~(req[r].op # "create" /\ p = up)
    <3>1. Reposts(p)' \subseteq Reposts(p)
      BY <1>1, <1>3, <1>6, <1>7, <1>10, <2>2, PostsAssumption DEF Reposts
    <3>2. /\ Cardinality(Reposts(p)') <= Cardinality(Reposts(p))
          /\ Cardinality(Reposts(p)') \in Nat /\ Cardinality(Reposts(p)) \in Nat
      BY <3>1, CountedIn, NoneMore
    <3>3. QED  BY <1>4, <1>5, <2>2, <3>2 DEF Sums
  <2>3. QED  BY <2>1, <2>2
<1>11. ASSUME NEW t \in Tag
       PROVE  Cardinality(Taggings(t))' <= useCount'[t]
  <2>1. Taggings(t)' \subseteq Taggings(t)
    BY <1>1, <1>8 DEF Taggings
  <2>2. /\ Cardinality(Taggings(t)') <= Cardinality(Taggings(t))
        /\ Cardinality(Taggings(t)') \in Nat /\ Cardinality(Taggings(t)) \in Nat
    BY <2>1, CountedIn, NoneMore
  <2>3. useCount[t] \in Nat
    BY DEF Typed, TypeOK
  <2>4. QED  BY <1>1, <2>2, <2>3 DEF Sums
<1>12. \A s \in Request : Linked(s)'
  BY <1>1, <1>2 DEF Linked
<1>13. QED  BY <1>1, <1>9, <1>10, <1>11, <1>12 DEF Sums

LEMMA TagCounts ==
    ASSUME Typed, Typed', Sums, \A r \in Request : Linked(r),
           NEW r \in Request, NEW x \in Tag, AttachTag(r, x)
    PROVE  Sums' /\ \A s \in Request : Linked(s)'
<1> DEFINE q == req[r].post
<1>1. /\ at[r] = "tag" /\ at'[r] = "bump" /\ req'[r].post = q /\ req'[r].tag = x
      /\ UNCHANGED <<live, parent, repostOf, counts, undone>>
      /\ tagged' = [tagged EXCEPT ![q] = @ \cup {x}]
  BY Same DEF AttachTag, Step, Typed, TypeOK, Local, columns
<1>2. \A s \in Request \ {r} : at'[s] = at[s] /\ req'[s] = req[s]
  BY Others DEF Serve, Creating
<1> HIDE DEF q
<1>3. \A p : Counted(p)' => Counted(p)
  BY <1>1, <1>2 DEF Counted
<1>4. \A p, t : Bumped(p, t)' => Bumped(p, t) /\ (p = q => t # x)
  BY <1>1, <1>2 DEF Bumped
<1>5. \A p \in live, t \in Tag : t \in tagged'[p] => t \in tagged[p] \/ (p = q /\ t = x)
  BY <1>1 DEF Typed, TypeOK
<1>6. \A t \in Tag : Taggings(t)' \subseteq Taggings(t)
  BY <1>1, <1>4, <1>5 DEF Taggings
<1>7. \A p : Replies(p)' \subseteq Replies(p) /\ Reposts(p)' \subseteq Reposts(p)
  BY <1>1, <1>3 DEF Replies, Reposts
<1>8. \A s \in Request : Linked(s)'
  BY <1>1, <1>2 DEF Linked
<1>9. \A p \in live : /\ Cardinality(Replies(p))' <= replyCount'[p]
                      /\ Cardinality(Reposts(p))' <= repostCount'[p]
  BY <1>1, <1>7, SumsKept
<1>10. \A t \in Tag : Cardinality(Taggings(t))' <= useCount'[t]
  BY <1>1, <1>6, TagsKept
<1>11. QED  BY <1>1, <1>8, <1>9, <1>10 DEF Sums

LEMMA BumpCounts ==
    ASSUME Typed, Typed', Sums, \A r \in Request : Linked(r),
           NEW r \in Request, BumpTag(r)
    PROVE  Sums' /\ \A s \in Request : Linked(s)'
<1> DEFINE q == req[r].post
           x == req[r].tag
<1>1. /\ at[r] = "bump" /\ at'[r] = "tag"
      /\ UNCHANGED <<live, parent, repostOf, tagged, undone, req, replyCount, repostCount>>
      /\ useCount' = [useCount EXCEPT ![x] = @ + 1]
  BY DEF BumpTag, Step, Typed, TypeOK, columns, joined
<1>2. \A s \in Request \ {r} : at'[s] = at[s]
  BY Others DEF Serve, Creating
<1>3. q \in PostId /\ x \in Tag
  BY <1>1, Same DEF Position, Active, Typed, TypeOK
<1>4. \A p : Counted(p)' => Counted(p)
  BY <1>1, <1>2 DEF Counted
<1>5. \A p, t : Bumped(p, t)' => Bumped(p, t) \/ (p = q /\ t = x)
  BY <1>1, <1>2 DEF Bumped
<1> HIDE DEF q, x
<1>6. \A p : Replies(p)' \subseteq Replies(p) /\ Reposts(p)' \subseteq Reposts(p)
  BY <1>1, <1>4 DEF Replies, Reposts
<1>7. ASSUME NEW p \in live
      PROVE  /\ Cardinality(Replies(p))' <= replyCount'[p]
             /\ Cardinality(Reposts(p))' <= repostCount'[p]
  <2>1. /\ Cardinality(Replies(p)') <= Cardinality(Replies(p))
        /\ Cardinality(Replies(p)') \in Nat /\ Cardinality(Replies(p)) \in Nat
    BY <1>6, CountedIn, NoneMore
  <2>2. /\ Cardinality(Reposts(p)') <= Cardinality(Reposts(p))
        /\ Cardinality(Reposts(p)') \in Nat /\ Cardinality(Reposts(p)) \in Nat
    BY <1>6, CountedIn, NoneMore
  <2>3. replyCount[p] \in Nat /\ repostCount[p] \in Nat
    BY <1>7 DEF Typed, TypeOK
  <2>4. QED  BY <1>1, <2>1, <2>2, <2>3 DEF Sums
<1>8. ASSUME NEW t \in Tag
      PROVE  Cardinality(Taggings(t))' <= useCount'[t]
  <2>1. useCount[t] \in Nat /\ useCount'[t] = IF t = x THEN useCount[t] + 1 ELSE useCount[t]
    BY <1>1, <1>8 DEF Typed, TypeOK
  <2>2. CASE t = x
    <3>1. Taggings(t)' \subseteq Taggings(t) \cup {q}
      BY <1>1, <1>5 DEF Taggings
    <3>2. /\ Cardinality(Taggings(t)') <= Cardinality(Taggings(t)) + 1
          /\ Cardinality(Taggings(t)') \in Nat /\ Cardinality(Taggings(t)) \in Nat
      BY <1>3, <3>1, CountedIn, OneMore
    <3>3. QED  BY <2>1, <2>2, <3>2 DEF Sums
  <2>3. CASE t # x
    <3>1. Taggings(t)' \subseteq Taggings(t)
      BY <1>1, <1>5, <2>3 DEF Taggings
    <3>2. /\ Cardinality(Taggings(t)') <= Cardinality(Taggings(t))
          /\ Cardinality(Taggings(t)') \in Nat /\ Cardinality(Taggings(t)) \in Nat
      BY <3>1, CountedIn, NoneMore
    <3>3. QED  BY <2>1, <2>3, <3>2 DEF Sums
  <2>4. QED  BY <2>2, <2>3
<1>9. \A s \in Request : Linked(s)'
  BY <1>1, <1>2 DEF Linked
<1>10. QED  BY <1>1, <1>7, <1>8, <1>9 DEF Sums

LEMMA ServeCounts ==
    ASSUME Typed, Typed', Sums, \A r \in Request : Linked(r), ThreadsIntact, Basics,
           NEW r \in Request, Arrive(r) \/ Serve(r)
    PROVE  Sums' /\ \A s \in Request : Linked(s)'
<1>1. \A s \in Request \ {r} : at'[s] = at[s] /\ req'[s] = req[s]
  BY Others
<1>2. ASSUME at[r] \notin {"count", "bump"} \/ <<req[r].post, at[r]>> \in undone',
             at'[r] \notin {"count", "bump"}
      PROVE  Keeping("count") /\ Keeping("bump")
  BY <1>1, <1>2 DEF Keeping
<1>a. ASSUME NEW x, at' = [at EXCEPT ![r] = x]
      PROVE  at'[r] = x
  BY <1>a DEF Typed, TypeOK
<1>3. CASE InsertPost(r) \/ CountChild(r) \/ BumpTag(r) \/ \E t \in Tag : AttachTag(r, t)
  BY <1>3, InsertCounts, CountCounts, BumpCounts, TagCounts
<1>4. CASE DeletePost(r)
  <2> DEFINE p == req[r].post
  <2>1. /\ live' = live \ {p} /\ parent' = [parent EXCEPT ![p] = None]
        /\ repostOf' = [repostOf EXCEPT ![p] = None] /\ tagged' = [tagged EXCEPT ![p] = {}]
        /\ UNCHANGED <<counts, undone>>
    BY <1>4 DEF DeletePost, RemovePost
  <2>2. at[r] = "delete" /\ at' = [at EXCEPT ![r] = "publish delete"]
    BY <1>4 DEF DeletePost, RemovePost, Step
  <2>3. Keeping("count") /\ Keeping("bump")
    BY <1>2, <2>2 DEF Typed, TypeOK
  <2> HIDE DEF p
  <2>4. \A q \in live' : /\ parent'[q] = parent[q] /\ repostOf'[q] = repostOf[q]
                         /\ tagged'[q] = tagged[q]
    BY <2>1 DEF Typed, TypeOK
  <2>5. QED  BY <2>1, <2>3, <2>4, QuietCounts
<1>5. CASE Fail(r)
  <2>1. UNCHANGED <<live, parent, repostOf, tagged, counts>> /\ undone \subseteq undone'
    BY <1>5 DEF Fail, columns, joined
  <2>2. at[r] \in Failing /\ at'[r] = AfterError(r)
    BY <1>5 DEF Fail, Typed, TypeOK
  <2>3. at'[r] \notin {"count", "bump"}
    BY <2>2 DEF AfterError, Failing
  <2>4. at[r] \in {"count", "bump"} => <<req[r].post, at[r]>> \in undone'
    <3>1. SUFFICES ASSUME at[r] \in {"count", "bump"} PROVE <<req[r].post, at[r]>> \in undone'
      OBVIOUS
    <3>2. req[r].post # None
      <4>1. used \subseteq PostId /\ Position(r)
        BY Same DEF Typed, TypeOK
      <4>2. req[r].post \in PostId
        BY <3>1, <4>1 DEF Position, Active
      <4>3. QED  BY <4>2, PostsAssumption
    <3>3. QED  BY <1>5, <3>1, <3>2 DEF Fail, Lasting
  <2>5. QED  BY <1>2, <2>1, <2>3, <2>4, QuietCounts
<1>6. CASE Arrive(r)
  <2>1. PICK l \in Local, first \in Label : Start(r, l, first) /\ Opening(l, first)
    BY <1>6, ArriveStarts
  <2>2. /\ UNCHANGED <<live, parent, repostOf, tagged, counts, undone>>
        /\ at[r] = "idle" /\ at'[r] = first /\ first \in {"insert", "begin", "delete"}
    BY <2>1 DEF Start, Opening, Typed, TypeOK, columns, joined
  <2>3. QED  BY <1>2, <2>2, QuietCounts
<1>7. CASE RereadPost(r) \/ TagsDone(r) \/ MentionsDone(r) \/ NotifyDone(r) \/ PublishPost(r)
           \/ BeginEdit(r) \/ LockPost(r) \/ SaveEdit(r) \/ Refetch(r) \/ LoadMentions(r)
           \/ PublishEdit(r) \/ RefuseDelete(r) \/ PublishDelete(r)
  <2>1. UNCHANGED <<live, parent, repostOf, tagged, counts, undone>>
    BY <1>7 DEF RereadPost, TagsDone, MentionsDone, NotifyDone, PublishPost, BeginEdit, LockPost,
       SaveEdit, Refetch, LoadMentions, PublishEdit, RefuseDelete, PublishDelete, columns, joined
  <2>2. at[r] \notin {"count", "bump"} /\ at'[r] \notin {"count", "bump"}
    BY <1>a, <1>7 DEF RereadPost, TagsDone, MentionsDone, NotifyDone, PublishPost, BeginEdit,
       LockPost, SaveEdit, Refetch, LoadMentions, PublishEdit, RefuseDelete, PublishDelete, Step
  <2>3. QED  BY <1>2, <2>1, <2>2, QuietCounts
<1>8. CASE NotifyParent(r) \/ DropMentions(r)
           \/ \E u \in User : AddMention(r, u) \/ NotifyMentioned(r, u)
  <2>1. UNCHANGED <<live, parent, repostOf, tagged, counts, undone>>
    BY <1>8 DEF NotifyParent, DropMentions, AddMention, NotifyMentioned, columns
  <2>2. at[r] \notin {"count", "bump"} /\ at'[r] \notin {"count", "bump"}
    BY <1>a, <1>8 DEF NotifyParent, DropMentions, AddMention, NotifyMentioned, Step
  <2>3. QED  BY <1>2, <2>1, <2>2, QuietCounts
<1>9. ASSUME NEW u \in User, LoseNotice(r, u)
      PROVE  Sums' /\ \A s \in Request : Linked(s)'
  <2>1. UNCHANGED <<live, parent, repostOf, tagged, counts>> /\ undone \subseteq undone'
    BY <1>9 DEF LoseNotice, columns, joined
  <2>2. at[r] \notin {"count", "bump"} /\ at'[r] \notin {"count", "bump"}
    BY <1>a, <1>9 DEF LoseNotice, Step
  <2>3. QED  BY <1>2, <2>1, <2>2, QuietCounts
<1>10. QED
  BY <1>3, <1>4, <1>5, <1>6, <1>7, <1>8, <1>9 DEF Serve, Creating, Editing, Deleting

LEMMA NextInvariant ==
    ASSUME IInv, [Next]_vars
    PROVE  IInv'
<1> USE DEF IInv
<1>1. Typed' /\ Serialised' /\ ThreadsIntact' /\ Basics' /\ Calmness'
  BY NextTyped, NextSerialised, NextThreads, NextBasics, NextCalm
<1>2. ASSUME UNCHANGED <<live, parent, repostOf, tagged, counts, undone, at, req>>
      PROVE  Sums' /\ \A r \in Request : Linked(r)'
  BY <1>2, QuietCounts DEF Keeping
<1>3. ASSUME NEW r \in Request, Arrive(r) \/ Serve(r)
      PROVE  Sums' /\ \A s \in Request : Linked(s)'
  BY <1>1, <1>3, ServeCounts
<1>4. ASSUME NEW p \in PostId, ReadPost(p)
      PROVE  Sums' /\ \A s \in Request : Linked(s)'
  BY <1>2, <1>4 DEF ReadPost, columns, joined
<1>5. CASE UNCHANGED vars
  BY <1>1, <1>2, <1>5 DEF vars, columns, joined
<1>6. QED  BY <1>1, <1>3, <1>4, <1>5 DEF Next

LEMMA InitInvariant == Init => IInv
<1> SUFFICES ASSUME Init PROVE IInv
  OBVIOUS
<1>1. \A p \in PostId : Replies(p) = {} /\ Reposts(p) = {}
  BY PostsAssumption DEF Init, Replies, Reposts
<1>2. \A t \in Tag : Taggings(t) = {}
  BY PostsAssumption DEF Init, Taggings
<1>3. Sums
  <2>1. Cardinality({}) = 0
    BY FS_EmptySet
  <2>2. live \subseteq PostId /\ \A p \in PostId : replyCount[p] = 0 /\ repostCount[p] = 0
    BY PostsAssumption DEF Init
  <2>3. \A t \in Tag : useCount[t] = 0
    BY DEF Init
  <2>4. \A p \in live : Cardinality(Replies(p)) = 0 /\ Cardinality(Reposts(p)) = 0
    BY <1>1, <2>1, <2>2
  <2>5. \A t \in Tag : Cardinality(Taggings(t)) = 0
    BY <1>2, <2>1
  <2> HIDE DEF Replies, Reposts, Taggings
  <2>6. \A p \in live : /\ Cardinality(Replies(p)) <= replyCount[p]
                        /\ Cardinality(Reposts(p)) <= repostCount[p]
    BY <2>2, <2>4
  <2>7. QED  BY <2>3, <2>5, <2>6 DEF Sums
<1>4. \A r \in Request : Linked(r)
  BY DEF Init, Linked
<1>5. ThreadsIntact
  BY PostsAssumption DEF Init, ThreadsIntact
<1>6. QED  BY <1>3, <1>4, <1>5, InitTyped, InitSerialised, InitBasics, InitCalm DEF IInv

LEMMA Invariance == Spec => []IInv
BY InitInvariant, NextInvariant, PTL DEF Spec

(* A counter may be too high, but whatever overlaps it misses no reply,    *)
(* repost or tag except one whose own count is still to come or has failed *)
(* (Posts.CountsCover, model/post.go:123-133, 155-160; model/tag.go:155-177). *)
THEOREM CountersAlwaysCover == Spec => []CountsCover
<1>1. ASSUME IInv
      PROVE  CountsCover
  BY <1>1 DEF IInv, Sums, Replies, Reposts, Taggings, CountsCover
<1>2. QED  BY <1>1, Invariance, PTL
=============================================================================
