------------------------------ MODULE Reading ------------------------------
(***************************************************************************)
(* The reading tracker of one user: the accumulators of the open tabs      *)
(* (readingTracker in web/static/js/golab.js), heartbeats that may be lost *)
(* or overlap, and RecordHeartbeat of internal/model/reading.go, one       *)
(* transaction of several statements under READ COMMITTED.  A statement    *)
(* that updates is two steps: it reads in its snapshot, then writes when   *)
(* it gets the row; rows changed in between are checked again.             *)
(***************************************************************************)
EXTENDS Naturals, Sequences, FiniteSets, SequencesExt

CONSTANTS
    Tab, Post,
    Topic,           \* posts whose page is opened
    Heartbeat,       \* heartbeats that can be under way at once
    MinSeconds,      \* reading_min_seconds_per_post
    Interval,        \* reading_heartbeat_interval_seconds, the cap per post
    MaxActive,       \* reading_max_active_seconds_per_minute
    MaxPosts,        \* reading_max_posts_per_heartbeat
    MaxTicks, MaxBeats     \* bounds of a behaviour

ASSUME ReadingAssumption ==
    /\ {MinSeconds, Interval, MaxActive, MaxPosts, MaxTicks, MaxBeats} \subseteq Nat
    /\ Interval > 0 /\ Topic \subseteq Post /\ Post \cap (Nat \cup {"active"}) = {}
    /\ IsFiniteSet(Tab) /\ IsFiniteSet(Post) /\ IsFiniteSet(Heartbeat)

VARIABLES
    acc,         \* acc[t]: what tab t has gathered since its last heartbeat
    beat,        \* beat[h]: the heartbeat and its transaction
    rows,        \* rows[p]: committed reading_events of post p, oldest id first
    marks,       \* committed topic_views (posts) and user_visits (days)
    stats,       \* the user_reading_stats row
    opening,     \* the page of a topic: not opened, rendered and its backstop to run, or over
    ticks,       \* seconds ticked so far, for the bound
    clock,       \* NOW() of the latest transaction
    window,      \* the earliest NOW() within its last five minutes
    crowded,     \* heartbeats whose transaction overlapped another one
    split,       \* posts that two overlapping transactions reported
    settled      \* stats was last written by a transaction alone, no view added since

tabs == <<acc, ticks>>
database == <<rows, marks, stats>>
time == <<clock, window>>
ghost == <<crowded, split, settled>>
vars == <<tabs, beat, database, opening, time, ghost>>

(* All heartbeats of a behaviour fall on one day, after an earlier one. *)
Today == 2
Day == {1, Today}
Row == [secs : Nat, read : BOOLEAN, at : Nat]
Totals == [active : Nat, posts : Nat, topics : Nat, days : Nat]
Written == [row : Nat, data : Row]           \* row 0: a new one
Gathering == [active : Nat, secs : [Post -> Nat], topics : SUBSET Topic]
Label == {"idle", "sent", "look", "upsert", "mark", "count", "stats", "commit"}

(* A heartbeat.  "own" are the rows its transaction has written, by post.  *)
Formed(b) ==
    /\ b \in [at : Label, active : Nat, posts : Seq([post : Post, secs : Nat]), next : Nat,
              todo : SUBSET (Post \cup Day), now : Nat, window : Nat, seen : Written, own : {b.own},
              marks : SUBSET (Post \cup Day), totals : Totals]
    /\ DOMAIN b.own \subseteq Post /\ \A p \in DOMAIN b.own : b.own[p] \in Written
    /\ b.at \notin {"idle", "sent"} =>
          /\ b.active <= MaxActive /\ Len(b.posts) <= MaxPosts
          /\ \A i \in DOMAIN b.posts : b.posts[i].secs <= Interval

TypeOK ==
    /\ acc \in [Tab -> Gathering]
    /\ beat = [h \in Heartbeat |-> beat[h]] /\ \A h \in Heartbeat : Formed(beat[h])
    /\ rows \in [Post -> Seq(Row)]
    /\ marks \subseteq Post \cup Day
    /\ stats \in Totals
    /\ opening \in [Topic -> {"unopened", "rendered", "over"}]
    /\ ticks \in 0..MaxTicks /\ clock \in 0..MaxBeats /\ window \in 0..clock + 1
    /\ crowded \subseteq Heartbeat /\ split \subseteq Post /\ settled \in BOOLEAN

NewRow(secs, now) == [secs |-> secs, read |-> secs >= MinSeconds, at |-> now]
NotFound == [row |-> 0, data |-> NewRow(0, 0)]
NoTotals == [active |-> 0, posts |-> 0, topics |-> 0, days |-> 0]
Gathered == [active |-> 0, secs |-> [p \in Post |-> 0], topics |-> {}]
NoBeat ==
    [at |-> "idle", active |-> 0, posts |-> <<>>, next |-> 1, todo |-> {}, now |-> 0,
     window |-> 0, seen |-> NotFound, own |-> [p \in {} |-> NotFound], marks |-> {}, totals |-> NoTotals]

IsRead(list) == \E i \in DOMAIN list : list[i].read

Counts(readPosts, seenMarks) ==
    [active |-> 0, posts |-> Cardinality(readPosts),
     topics |-> Cardinality(seenMarks \cap Post), days |-> Cardinality(seenMarks \cap Day)]

(* A user who is new, or one who saw every post for a second just before midnight. *)
Init ==
    /\ acc = [t \in Tab |-> Gathered] /\ ticks = 0
    /\ beat = [h \in Heartbeat |-> NoBeat] /\ clock = 0 /\ window = 0
    /\ \E known \in BOOLEAN :
        /\ rows = [p \in Post |-> IF known THEN <<NewRow(1, 0)>> ELSE <<>>]
        /\ marks = IF known THEN {1} ELSE {}
        /\ stats = [Counts({p \in Post : IsRead(rows[p])}, marks) EXCEPT
                       !.active = IF known THEN 1 ELSE 0]
    /\ opening = [p \in Topic |-> "unopened"]
    /\ crowded = {} /\ split = {} /\ settled = TRUE
-----------------------------------------------------------------------------
(* The browser. *)

(* tick: one second in which the user is active and the given posts are at *)
(* least half in view.                                                     *)
Tick(t, visible) ==
    /\ ticks < MaxTicks
    /\ ticks' = ticks + 1
    /\ acc' = [acc EXCEPT ![t].active = @ + 1,
                          ![t].secs = [p \in Post |-> IF p \in visible THEN @[p] + 1 ELSE @[p]]]
    /\ UNCHANGED <<beat, database, opening, time, ghost>>

(* A tab opens the page of a post: the server starts RecordTopicViewBackstop *)
(* while it renders the page, the tracker adds the topic when it shows it.    *)
(* Bound: once per topic.                                                     *)
OpenTopic(t, p) ==
    /\ opening[p] = "unopened"
    /\ acc' = [acc EXCEPT ![t].topics = @ \cup {p}]
    /\ opening' = [opening EXCEPT ![p] = "rendered"]
    /\ UNCHANGED <<ticks, beat, database, time, ghost>>

(* The posts to report, in the order of the tracker's map: any order, as a *)
(* post that left the view and came back moves to the end.                 *)
Reports(t) ==
    {[i \in DOMAIN order |-> [post |-> order[i], secs |-> acc[t].secs[order[i]]]] :
        order \in SetToSeqs({p \in Post : acc[t].secs[p] > 0})}

(* Mutant: the accumulators are cleared when the next heartbeat answers. *)
SendUncleared(t, h) ==
    /\ acc[t] # Gathered /\ beat[h].at = "idle"
    /\ \E posts \in Reports(t) :
          beat' = [beat EXCEPT ![h] = [NoBeat EXCEPT !.at = "sent", !.active = acc[t].active,
                                                     !.posts = posts, !.todo = acc[t].topics]]
    /\ UNCHANGED <<tabs, database, opening, time, ghost>>

(* sendHeartbeat: the accumulators are cleared first, and nothing is sent   *)
(* again.  Which free record stands for the new heartbeat does not matter.  *)
SendHeartbeat(t, h) ==
    /\ acc[t] # Gathered /\ beat[h].at = "idle"
    /\ h = CHOOSE g \in Heartbeat : beat[g].at = "idle"
    /\ clock + Cardinality({g \in Heartbeat : beat[g].at = "sent"}) < MaxBeats
    /\ \E posts \in Reports(t) :
          beat' = [beat EXCEPT ![h] = [NoBeat EXCEPT !.at = "sent", !.active = acc[t].active,
                                                     !.posts = posts, !.todo = acc[t].topics]]
    /\ acc' = [acc EXCEPT ![t] = Gathered]
    /\ UNCHANGED <<ticks, database, opening, time, ghost>>
-----------------------------------------------------------------------------
(* The request. *)

InTx(h) == beat[h].at \notin {"idle", "sent"}
Others(h) == {g \in Heartbeat \ {h} : InTx(g)}

(* Mutant: only the number of posts is capped. *)
CapCount(posts) == [i \in 1..(IF Len(posts) > MaxPosts THEN MaxPosts ELSE Len(posts)) |-> posts[i]]

(* What the handler accepts of the seconds a heartbeat reports. *)
CapActive(n) == IF n > MaxActive THEN MaxActive ELSE n
CapPosts(posts) ==
    [i \in 1..(IF Len(posts) > MaxPosts THEN MaxPosts ELSE Len(posts)) |->
        [posts[i] EXCEPT !.secs = IF @ > Interval THEN Interval ELSE @]]

PostsOf(h) == {beat[h].posts[i].post : i \in DOMAIN beat[h].posts}

(* The handler caps the report and the transaction begins; NOW() and       *)
(* CURRENT_DATE are those of its begin.  Any time may have passed since the *)
(* last one, but no transaction takes five minutes.                        *)
Begin(h) ==
    LET posts == CapPosts(beat[h].posts)
        reported == {posts[i].post : i \in DOMAIN posts}
        shared == UNION {PostsOf(g) : g \in Others(h)}
    IN
    /\ beat[h].at = "sent"
    /\ clock' = clock + 1
    /\ window' \in window..clock + 1 /\ \A g \in Others(h) : window' <= beat[g].now
    /\ beat' = [beat EXCEPT ![h].at = IF posts = <<>> THEN "mark" ELSE "look", ![h].posts = posts,
                            ![h].active = CapActive(@), ![h].todo = @ \cup {Today},
                            ![h].now = clock + 1, ![h].window = window']
    /\ crowded' = IF Others(h) = {} THEN crowded ELSE crowded \cup {h} \cup Others(h)
    /\ split' = split \cup (reported \cap shared)
    /\ UNCHANGED <<tabs, database, opening, settled>>
-----------------------------------------------------------------------------
(* RecordHeartbeat: one statement per visible post, then per topic, the     *)
(* visit and the counters.                                                  *)

Current(h) == beat[h].posts[beat[h].next]
At(h, label) == beat[h].at = label

(* A row that an open transaction has updated is locked until it ends. *)
Locked(h, p, i) == \E g \in Others(h) : p \in DOMAIN beat[g].own /\ beat[g].own[p].row = i

(* The CTE "existing": the post's last row of the last five minutes. *)
Look(h) ==
    LET p == Current(h).post
        found == {i \in DOMAIN rows[p] : rows[p][i].at >= beat[h].window}
    IN
    /\ At(h, "look")
    /\ \E seen \in IF found = {} THEN {NotFound}
                   ELSE {[row |-> i, data |-> rows[p][i]] : i \in
                            {i \in found : \A j \in found : rows[p][j].at <= rows[p][i].at}} :
          beat' = [beat EXCEPT ![h].seen = seen, ![h].at = "upsert"]
    /\ UNCHANGED <<tabs, database, opening, time, ghost>>

(* Mutant: counted_as_read looks at this heartbeat's seconds alone. *)
ExtendedAnew(row, secs, now) == [NewRow(secs, now) EXCEPT !.secs = row.secs + secs]

Extended(row, secs, now) == NewRow(row.secs + secs, now)

(* The UPDATE waits for the row and checks last_seen_at again; if it found *)
(* nothing to update, the INSERT adds a row.                               *)
Upsert(h) ==
    LET p == Current(h).post
        n == Current(h).secs
        i == beat[h].seen.row
        same == i # 0 /\ rows[p][i].at = beat[h].seen.data.at
        written == IF same
                   THEN [row |-> i, data |-> Extended(rows[p][i], n, beat[h].now)]
                   ELSE [row |-> 0, data |-> NewRow(n, beat[h].now)]
        last == beat[h].next = Len(beat[h].posts)
    IN
    /\ At(h, "upsert") /\ ~(i # 0 /\ Locked(h, p, i))
    /\ beat' = [beat EXCEPT
          ![h].own = [q \in DOMAIN @ \cup {p} |-> IF q = p THEN written ELSE @[q]],
          ![h].seen = NotFound, ![h].next = @ + 1, ![h].at = IF last THEN "mark" ELSE "look"]
    /\ UNCHANGED <<tabs, database, opening, time, ghost>>

(* INSERT ... ON CONFLICT DO NOTHING waits for an open transaction that has *)
(* inserted the same key.                                                   *)
Pending(h, m) == \E g \in Others(h) : m \in beat[g].marks

NextMarks(h) == IF beat[h].todo \subseteq Day THEN beat[h].todo ELSE beat[h].todo \ Day

Mark(h, m) ==
    /\ At(h, "mark") /\ m \in NextMarks(h) /\ ~Pending(h, m)
    /\ beat' = [beat EXCEPT ![h].todo = @ \ {m},
                            ![h].marks = IF m \in marks THEN @ ELSE @ \cup {m},
                            ![h].at = IF beat[h].todo = {m} THEN "count" ELSE "mark"]
    /\ UNCHANGED <<tabs, database, opening, time, ghost>>

(* The tables as transaction h sees them: what is committed and its own. *)
SeenRows(h, p) ==
    IF p \notin DOMAIN beat[h].own THEN rows[p]
    ELSE IF beat[h].own[p].row = 0 THEN Append(rows[p], beat[h].own[p].data)
    ELSE [rows[p] EXCEPT ![beat[h].own[p].row] = beat[h].own[p].data]

(* Mutant: the counters are computed before the statements above. *)
CountCommitted(h) ==
    /\ At(h, "count")
    /\ beat' = [beat EXCEPT ![h].at = "stats",
          ![h].totals = Counts({p \in Post : IsRead(rows[p])}, marks)]
    /\ UNCHANGED <<tabs, database, opening, time, ghost>>

(* The counters are computed in the snapshot of the last statement ... *)
Count(h) ==
    /\ At(h, "count")
    /\ beat' = [beat EXCEPT ![h].at = "stats",
          ![h].totals = Counts({p \in Post : IsRead(SeenRows(h, p))}, marks \cup beat[h].marks)]
    /\ UNCHANGED <<tabs, database, opening, time, ghost>>

(* ... which then waits for the user's row; the active seconds are added to *)
(* what the row holds by then.                                              *)
AddStats(h) ==
    /\ At(h, "stats") /\ \A g \in Others(h) : ~At(g, "commit")
    /\ beat' = [beat EXCEPT ![h].at = "commit", ![h].totals.active = stats.active + beat[h].active]
    /\ UNCHANGED <<tabs, database, opening, time, ghost>>

Commit(h) ==
    /\ At(h, "commit")
    /\ rows' = [p \in Post |-> SeenRows(h, p)]
    /\ marks' = marks \cup beat[h].marks
    /\ stats' = beat[h].totals
    /\ beat' = [beat EXCEPT ![h] = NoBeat]
    /\ settled' = (h \notin crowded)
    /\ crowded' = crowded \ {h}
    /\ UNCHANGED <<tabs, opening, time, split>>

(* The heartbeat ends unrecorded: it is lost or refused on the way; or a    *)
(* statement fails (its context is over, a reported post is gone) and the   *)
(* deferred Rollback undoes the transaction.                                *)
End(h) ==
    /\ beat' = [beat EXCEPT ![h] = NoBeat]
    /\ crowded' = crowded \ {h}
    /\ UNCHANGED <<tabs, database, opening, time, split, settled>>

Lose(h) == At(h, "sent") /\ End(h)
(* Mutant: no deferred Rollback, the transaction stays open. *)
FailOpen(h) == InTx(h) /\ beat' = [beat EXCEPT ![h].at = "open"]
               /\ UNCHANGED <<tabs, database, opening, time, ghost>>
Fail(h) == InTx(h) /\ End(h)
-----------------------------------------------------------------------------
(* PostgreSQL: which transactions a waiting statement waits for, and the    *)
(* detector, which ends one transaction of a cycle.                         *)
WaitsFor(h) ==
    {g \in Others(h) :
        \/ /\ At(h, "upsert") /\ beat[h].seen.row # 0
           /\ Current(h).post \in DOMAIN beat[g].own
           /\ beat[g].own[Current(h).post].row = beat[h].seen.row
        \/ /\ At(h, "mark") /\ \A m \in NextMarks(h) : Pending(h, m)
           /\ NextMarks(h) \cap beat[g].marks # {}
        \/ At(h, "stats") /\ At(g, "commit")}

Deadlocked(h) ==
    \E ring \in SUBSET Heartbeat : h \in ring /\ \A g \in ring : WaitsFor(g) \cap ring # {}

DetectDeadlock(h) == Deadlocked(h) /\ Fail(h)

(* RecordTopicViewBackstop: a statement of its own, whose error is ignored. *)
Backstop(p) ==
    /\ opening[p] = "rendered" /\ \A h \in Heartbeat : p \notin beat[h].marks
    /\ opening' = [opening EXCEPT ![p] = "over"]
    /\ marks' \in {marks, marks \cup {p}}
    /\ settled' = (settled /\ marks' = marks)
    /\ crowded' = IF marks' = marks THEN crowded ELSE crowded \cup {h \in Heartbeat : InTx(h)}
    /\ UNCHANGED <<tabs, beat, rows, stats, time, split>>

Work(h) ==
    \/ Look(h) \/ Upsert(h) \/ (\E m \in Post \cup Day : Mark(h, m))
    \/ Count(h) \/ AddStats(h) \/ Commit(h)

Browse(t) ==
    \/ \E visible \in SUBSET Post : Tick(t, visible)
    \/ \E p \in Topic : OpenTopic(t, p)
    \/ \E h \in Heartbeat : SendHeartbeat(t, h)

Next ==
    \/ \E t \in Tab : Browse(t)
    \/ \E h \in Heartbeat : Begin(h) \/ Work(h) \/ Lose(h) \/ Fail(h) \/ DetectDeadlock(h)
    \/ \E p \in Topic : Backstop(p)

(* A request arrives or is given up, the server's goroutine and PostgreSQL *)
(* go on, and deadlocks are detected; nobody has to tick, send or fail.    *)
Fairness ==
    \A h \in Heartbeat : WF_vars(Begin(h) \/ Lose(h) \/ Work(h) \/ DetectDeadlock(h))

Spec == Init /\ [][Next]_vars
FairSpec == Spec /\ Fairness
-----------------------------------------------------------------------------
(* Every second is recorded at most once: a heartbeat adds what it carries, *)
(* up to the caps, to its posts and to the active total in one step, or is  *)
(* dropped whole, whatever it overlaps (RecordHeartbeat's transaction and   *)
(* upserts, reading.go:173-264, and sendHeartbeat, golab.js:2665-2716).     *)
Item == Post \cup {"active"}
Carried(b, i) ==
    IF i = "active" THEN CapActive(b.active)
    ELSE LET posts == CapPosts(b.posts)
             k == {j \in DOMAIN posts : posts[j].post = i}
         IN IF k = {} THEN 0 ELSE posts[CHOOSE j \in k : TRUE].secs

(* The sum of a function of numbers, as the size of a set with one element *)
(* for each unit.                                                          *)
Units(f) == UNION {{x} \X (1..f[x]) : x \in DOMAIN f}
Total(f) == Cardinality(Units(f))

Unsent(i) == Total([t \in Tab |-> IF i = "active" THEN acc[t].active ELSE acc[t].secs[i]])

Recorded(i) ==
    IF i = "active" THEN stats.active ELSE Total([k \in DOMAIN rows[i] |-> rows[i][k].secs])

Ledger == INSTANCE ReadingLedger WITH
    Item <- Item,
    unsent <- [i \in Item |-> Unsent(i)],
    sent <- [h \in Heartbeat |-> [i \in Item |-> Carried(beat[h], i)]],
    recorded <- [i \in Item |-> Recorded(i)]

LedgerSpec == Ledger!Spec

(* A visit to a post is one row, counted as read once its seconds reach the *)
(* minimum (reading.go:157-162, 183-205), unless two transactions that      *)
(* overlapped reported the post: then each may add a row of its own and     *)
(* neither reach it.                                                        *)
OneRowPerVisit ==
    \A p \in Post \ split :
        /\ Cardinality({i \in DOMAIN rows[p] : rows[p][i].at >= window}) <= 1
        /\ \A i \in DOMAIN rows[p] : rows[p][i].read <=> rows[p][i].secs >= MinSeconds

(* The counters of the profile page agree with their source tables after a  *)
(* heartbeat that overlapped nothing (reading.go:231-257).                  *)
CountsAgree ==
    settled => stats = [Counts({p \in Post : IsRead(rows[p])}, marks) EXCEPT !.active = stats.active]

(* Every heartbeat ends, whichever rows it waits for and in whichever order *)
(* it takes them (reading.go:173-264).                                      *)
HeartbeatsEnd == \A h \in Heartbeat : []<>At(h, "idle")
=============================================================================
