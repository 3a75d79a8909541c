# Verification of GoLab

GoLab (`../src`) is a Go web application: HTTP handlers over PostgreSQL, a
WebSocket hub that pushes events to open pages, and a browser client. This
directory holds TLA+ models of the parts of it that have state and concurrency,
TLC configurations that check them on small instances, and proofs that TLAPS
checks. `PROJECT.json` lists the components, the runs, for every definition the
source lines it models, the hazards, the mutants and the theorems.

    tlc -workers 2 -config Posts.cfg MCPosts
    tlapm PostsProofs.tla

and likewise for the other modules of the table below.

## Inventory

| Part | State | Operations | What is hard | What makes it correct |
|---|---|---|---|---|
| WebSocket hub (`handler/ws.go`) | `clients`, `topics`, channels `register`, `unregister`, `broadcast`, one `send` per client | `Run`'s three cases; `HandleWS`, `readLoop`, `writeLoop` of each connection; `Publish*` of every handler; the dropper goroutines | many goroutines over bounded channels; closing a channel others send on; connections that end from either side | order kept, nothing repeated; a channel closed once and never sent to after; ended connections leave |
| Posts (`handler/post.go`, `model/post.go`, `post_edit_history.go`, `mention.go`, `tag.go`) | tables `posts`, `post_edit_history`, `mentions`, `post_tags`, counters | create, reply, repost, edit, delete | one transaction, all else single statements that can each fail or lose their context; row lock; foreign keys; events after the commit | no text lost, threads whole, counters cover, mentions and pages agree with the content |
| Reactions and notifications (`model/reaction.go`, `model/notification.go`, `handler/notification.go`) | tables `reactions`, `notifications`, `posts.reaction_count`; badge of the page | toggle, unreact, notify, mark read | check-then-insert; recount in a snapshot | recount repairs, nobody notified without cause or twice a minute, badge follows |
| Projects and seasons (`handler/project*.go`, `model/project*.go`, `model/season.go`) | tables `projects`, `project_members`, `project_seasons` | create, reparent, PATCH, delete; members; season creation, activation, closing; post into a season | checks in statements before the change; MAX+1 numbering | one level of sub-projects, owner rows agree, seasons dense and only advancing |
| Accounts (`handler/auth.go`, `profile.go`, `admin.go`, `model/user.go`, `internal/auth`) | tables `users`, `sessions` and the sequence of ids | register, login, logout, ban, approve, reject, change password, rename, change power | bootstrap of the first Owner; checks at the start of a request only; sessions created beside their deletion | an Owner exists and only one without a race; bans and password changes end sessions; names apart |
| Settings (`model/settings.go`) | table `settings`, cache, RW mutex | `Get`, `Set` | a cache behind the database | later registrations obey the setting |
| Reading tracker (`handler/reading.go`, `model/reading.go`, `readingTracker` in `golab.js`) | accumulators of each tab; tables `reading_events`, `topic_views`, `user_visits`, `user_reading_stats` | tick, heartbeat, topic-view backstop | heartbeats are lost, overlap, wait for each other's rows; counters computed in a snapshot | no second recorded twice or in part, a visit is one row, counters agree, every heartbeat ends |
| Ratings of applicants (`model/rating.go`, `handler/admin.go`, `ratingWidget` and `ratingNotes` in `golab.js`) | table `application_ratings`; what each admin page shows | open the page, click a star, type notes, save | optimistic display with rollback, answers in any order, lost answers, a failed read-back | a settled page shows what the row has |
| Backups and imports (`handler/db.go`, `db_crypto.go`) | the backup directory, `.tmp` files, the key, the whole database | backup, export, import, download, delete, retention | the request's context ends after 30 s and kills `pg_dump` and `psql`; restarts change the key; names of one second | an import has its safety net, the newest files stay, an answered import restored its upload |
| Browser client (`golab.js`) | `window.__golabWS`, and per run of the script `wsClosed`, `wsBackoff`, `wsRetryTimer`; cards, badge | connect, reconnect with backoff, unload, apply events | htmx runs the script again and timers of older runs go on; the server ends every socket after 30 s | one live socket, never given up, subscribed to the channel shown |
| Channels, follows, documents (`model/{channel,follow,project_doc}.go`) | one table each, `member_count` | join, leave, follow, save | single statements; `member_count` is recounted as reactions are | not modelled |
| Queries, pages, rendering, uploads, configuration | none of their own | | pure or I/O | not modelled |

Handlers call stores, stores run SQL, and after the database has changed the
handlers hand events to the hub (`Publish`, which never blocks). Requests share
nothing but the database, the hub and the settings cache. The middleware of
`cmd/golab/main.go:127-133` recovers panics of handlers and ends a request's
context after 30 s; a client that goes away ends it too.

## Modules

| Module | Models |
|---|---|
| `OrderedFeed` | the abstract specification of the push channel: messages are accepted in order, a connection is delivered a newer one or nothing |
| `WsHub` | the hub; `MCWsHub` instantiates it for TLC; `PushProofs` holds its theorems |
| `Posts` | posts, edits, mentions, tags and one viewer; `MCPosts`; `PostsProofs` |
| `Reactions` | reactions, notifications, badge; `MCReactions`; `ReactionsProofs` |
| `Projects` | projects, members, seasons; `MCProjects`; `ProjectsProofs` |
| `Accounts` | users, sessions, one setting with its cache; `MCAccounts`; `AccountsProofs` |
| `ReadingLedger` | the abstract specification of the reading tracker: every second is unsent, under way or recorded, in one place at a time |
| `Reading` | tabs, heartbeats and their transactions, which implement the ledger; `MCReading`; `ReadingProofs` |
| `Ratings` | the row of one applicant and the pages that show it; `MCRatings`; `RatingsProofs` |
| `Backups` | backup files, imports, the key; `MCBackups`; `BackupsProofs` |
| `WsClient` | the sockets and timers of a page; `MCWsClient`; `PushProofs`, with the hub's theorems |

Two modules are abstract specifications that a detailed one implements:
`WsHub` instantiates `OrderedFeed` with its own `accepted` and `last`
(`FeedSpec`), and `Reading` instantiates `ReadingLedger` with `unsent` summed
over the tabs, `sent` what a heartbeat carries within the handler's caps and
`recorded` the sums of the committed rows (`LedgerSpec`).

In `Posts`, `Reactions`, `Projects` and `Accounts` a request is served once: `at[r]` is the
statement it runs next, `req[r]` its local variables. One action is one SQL
statement, as each commits on its own, so requests interleave as they do on the
server; a transaction is a chain of actions that shows its effect at its commit
and, where it waits for a row lock, holds it in `lock`. A definition whose comment
begins with "Mutant" is not part of a specification: it is a plausible bug, and
the property named beside it in `PROJECT.json` is violated when it replaces the
definition.

**WsHub.** `hub` is running or names the panic that ended the process. Handler
goroutines step through `HandleWS` and `readLoop` (`handler[c]`), writers through
`writeLoop` (`writer[c]`). A fan-out is one action, as `Run` holds the lock and
never blocks in it; a frame is read and handled in one action. A dropper
goroutine is a unit of `droppers[c]` until the unregister channel has room. The
history variables `accepted`, `last`, `missed`, `early` number messages and
remember who missed one and who was unregistered too early. Ending the hub is
left out: its context is cancelled as the process returns from `run`.

**Posts.** Content is one of a few texts, each with the users it mentions. Any statement may
fail, and without effect (`Fail`, `LoseNotice`); the handler goes along its error path
(`AfterError`, `Rest`), which for tags, mentions and notifications means that it goes on. A
request whose context is done is one whose later statements all fail. The edit's transaction
reads the row FOR UPDATE (`LockPost`), inserts the history row and updates (`SaveEdit`); the
handlers publish what they read back (`RereadPost`, `Refetch`). `card` is what a page that stays
connected shows, events taken in the order of publication. `undone` are the statements that
have failed for good, `rough` the posts whose last requests overlapped or whose last one had a
failure: an edit that starts when no other request is on the post takes it out again. Notices
are a set.

**Reactions.** The recount is one statement and two actions: `Snapshot` counts,
`Write` writes, which is how READ COMMITTED lets it behave beside another
recount. Any statement may fail. The code ignores an error of `UnreadCount`, and pushes 0, and
one of the query for recent notes, and writes the note. One post. The author reads all
notifications, one, or opens the list, whose answers set the badge too; time passes note by
note (`Age`). `rough` are the users whose own requests overlapped, or for whom that query
failed, until their notes are old. `off` says that something has overtaken what last set the
badge; a notification, a "mark all read" or a list that comes alone sets it anew.

**Projects.** One space; callers are authorised; names, visibility, documents and
tags are left out. `CreateSeason` reads the next number and inserts it in two
actions, the unique index being a guard. PATCH is an edit without a parent, as its parameters
never carry the parent over. Viewer and contributor are one role, "member".

**Accounts.** Authorisation is what it was when the request began. An INSERT
takes its id from the sequence in one action and the row appears in the next, so
that ids burn. `Get` under the write lock is `LockCache`, `Fetch`, `Fill`.
Ignored errors are `Skip`, the others `Stop`. A logout also stands for the
expiry of a session. `after[r]` records which requests had ended when `r`
began, so that properties can speak of overlapping ones.

**Reading.** One user. `acc[t]` is what a tab holds, `beat[h]` a heartbeat from
`sendHeartbeat` on, with the rows (`own`) and keys (`marks`) its transaction has
written and not committed. `UPDATE ... WHERE` is `Look` in the statement's
snapshot and `Upsert` when the row is free, with `last_seen_at` checked again, as
READ COMMITTED does; `ON CONFLICT DO NOTHING` waits for an open transaction that inserted
the key; the counters are computed (`Count`) before the statement gets the user's
row (`AddStats`). `WaitsFor` is who waits for whom, and `DetectDeadlock` PostgreSQL's
detector. Two heartbeats can deadlock, as each takes the rows in the order of its own
list. `NOW()` is counted in transactions, and `window` is the earliest one that is within five
minutes of the last: each row leaves the window by its own `last_seen_at`, and no transaction is
open for five minutes. What is
summed for the ledger, the tabs' seconds and a post's rows, is the size of a set with one
element per second (`Units`, `Total`): the sum over a finite set written without recursion,
so that proofs can speak of it.

**Ratings.** The admin page is queried (`Query`) and arrives later (`Open`), so that ratings
saved in between are not on it. A fetch goes from `sent` over `written` to `answered` or
`refused`, and its page may hang up at any moment while the handler goes on. `sure[t]` is what
page `t` may rely on: what it has loaded or saved and no other call has touched since.
The summary is a pair of sum and number, from which `Average` is computed.

**Backups.** A dump is a list of statements, `DROP TABLE`s first; `psql` runs one at a
time and commits it. Every step of a request may fail, be cut by the end of its
context, or be ended by a restart, which may also come when nothing is under way. A file opens
with the key it was written with; a write that fails may leave a torn temporary file, which no
key opens and which the next dump of that name overwrites before it renames it;
`copy` is the one file the administrator holds, `Local` what a request keeps in local
variables. `spoiled` are the names that two
requests of one second share or that somebody deleted; `blurred` are the imports
beside which something else wrote to the database.

**WsClient.** Each run of the script has its own variables and all share
`window.__golabWS` (`current`). `Closed` is the beginning of `wsConnect`, which takes
the handlers off before it closes: nobody hears of such a socket again. An attempt
that fails, a server that ends the socket and a network that does are one action,
`Ends`. `kicked` counts healthy sockets that the timer of an older run replaced.
The names every specification has (`Init`, `Next`, `Spec`, ...) begin with `Page` here,
so that `PushProofs` can extend this module and `WsHub`; the two share no variable and
are checked and proved each by itself.

## What the runs show

| Run | Bounds | Result |
|---|---|---|
| `WsHubOne` | 1 connection, 1 publisher, channels of 1 or 2, 3 messages | the hub implements `OrderedFeed`; `ConnectionEnds` under fairness |
| `WsHubTwo` | 2 connections, 2 messages | no channel is closed twice; who missed a message is being unregistered |
| `WsHubPanic` | 1 connection, 4 messages | violated: a dropped client subscribes again and the next message panics the process |
| `Posts` | 2 requests, 2 users, 2 posts, 2 texts, 1 tag | the five invariants below |
| `Reactions` | 3 requests, the author and one user, 1 type, 2 notifications | the three invariants |
| `Projects` | 3 requests, 2 users, at most 4 projects and 3 seasons | four invariants, and that seasons only advance |
| `Accounts` | 3 requests, 3 names of which 2 differ in case, 4 ids, an empty and a populated table | the five invariants |
| `Reading` | 1 tab, 2 posts of which 1 is opened as a topic, 2 heartbeats of one day, 2 ticks, caps of 1 s and 2 posts, read after 2 s | the ledger is implemented; two invariants; `HeartbeatsEnd` under fairness |
| `Backups` | 2 requests in the same second, 2 tables, 2 versions, keep 1 of at most 2 listed files, 2 keys | the two invariants |
| `BackupsPartial` | as `Backups` | violated: a failed import has dropped or replaced some of the tables |
| `Ratings` | 2 administrators, 2 dimensions of 2 stars, 2 texts, 2 fetches | the invariant |
| `WsClient` | 2 places, the code's 5 doublings of the delay, 3 runs of the script | the invariant; `Reconnects` under fairness |

The bounds. A channel of one is full as soon as it holds a message, so every
blocking and dropping path is taken; a broadcast queue of two is the least that
can be reordered. Races here are between a check and a write of two requests:
two requests suffice for them, and a third is the one that sees the result, the
admin who changes something between, or, for reactions, a later recount that must repair.
Two heartbeats are the least that overlap, wait for each other and deadlock, and two
ticks over two posts let a visit grow past a cap and up to the minimum; the user
may already have rows from an earlier day. Two fetches are the least that
overlap on a page or across pages. With one file kept, a second backup is already
one too many, and the file from before encryption is there as well. Three runs of
the script let a socket be opened over the one of an older run whose timer is still
due, twice. Symmetry is used over requests, administrators and dimensions, which
differ in name only, and never in runs with liveness. Deadlock is checked in
`WsClient`, which may always go on; the other runs may stop, as their requests, heartbeats,
connections and messages are finitely many. That no heartbeat waits for ever is
`HeartbeatsEnd`.

The properties, by the code's own words where it has any:

- *Hub*: `FeedSpec`, `NoDoubleClose`, `SlowClientsLeave`, `ConnectionEnds`.
- *Posts*: `EditsSerialise` (history and post hold every content in order, and no
  row lock outlives its request, under any overlap or failure), `ThreadsIntact`,
  `CountsCover` (whatever overlaps, a counter misses no post but one whose own count is
  to come or has failed; it may be above, as nothing is taken off), `MentionsMatch` (whatever
  went wrong before, a lone edit or creation leaves exactly the mentions of the content; and
  nobody is mentioned and not told unless recording or telling has failed) and `ViewersMatch`
  (such an edit repairs the pages too). Between two requests on one post that overlap
  the code promises neither, and they do disagree, until the next lone edit.
- *Reactions*: `RecountsRepair`, `NoticesAreTrue` (the author is told of a user no
  more often than the user added a reaction, and not twice a minute unless that user's own
  requests overlapped or the query for recent notes failed), `BadgeFollows` (whatever happened
  before, a notification, "mark all read" or list that nothing interferes with puts the badge
  right).
- *Projects*: `ShallowWhenCalm` (only for requests that do not overlap),
  `OwnersAgree`, `SeasonsDense`, `SeasonsAdvance`, `LateOnlyByRace`.
- *Accounts*: `FirstOwner`, `BannedOut`, `OldPasswordOut`, `GateFollowsSettings`,
  `NamesApart`. Most say that the bad state has only one cause, a request that
  overlapped the one meant to prevent it.
- *Reading*: `LedgerSpec` (a heartbeat is recorded whole and once, within the caps,
  or not at all), `OneRowPerVisit` (no two rows of a post within the window, and read exactly
  from the minimum on, except for posts that two overlapping transactions reported), `CountsAgree` (after a heartbeat that overlapped nothing;
  overlap can leave an older count until the next one), `HeartbeatsEnd`.
- *Backups*: `SafetyNet` (no import replays without the dump of the database as it
  was, and the newest `maxBackups` files stay), `ImportsRestore`.
- *Ratings*: `CardsSettle`.
- *WsClient*: `StaysLive` (one live socket; a page that is wanted has a socket or a
  timer; an open socket listens to the channel shown), `Reconnects`.

The two violations are recorded as findings with the lines they contradict.
Further disagreements between the code and its comments, met while reading and
part of the models, though no run is about them alone: an ended client whose
unregister is taken before its register stays in `h.clients` (`ws.go:79-85`);
overlapping edits are listed by the start of their transactions and not "newest
first" (`post_edit_history.go:139`); a delete refused by a foreign key is answered
"post not found or not owned by you" (`handler/post.go:439`); overlapping recounts
leave `reaction_count` different from the rows (`reaction.go:84`) and the reading
counters do not "always reflect the latest truth" (`reading.go:231-235`); a change of
password whose deletion of sessions fails is answered as a success
(`profile.go:280`); a page that comes back from the browser's cache after
`beforeunload` never reconnects (`golab.js:3866`).

**Fairness** is assumed in three modules. In `WsHub`, Go runs every goroutine that can run
and `select` picks at random among ready channels, so each of `Run`'s cases is
weakly fair and so is each writer; senders blocked on a channel are served in
the order they came, so a handler or a dropper whose channel is free again and
again gets through: strong fairness. Peers, readers of frames and publishers owe
nothing. In `Reading`, each heartbeat is weakly fair as a whole: its request arrives
or is given up, the server's goroutine and PostgreSQL go on with the statement that
can run, and the detector ends one transaction of a cycle, as PostgreSQL does after
`deadlock_timeout`. Nobody has to tick, to send or to fail. In `WsClient` a timer that
is due fires (weak fairness, the browser's event loop), and an attempt to connect that
is possible again and again succeeds at some time (strong fairness): that is an
assumption about the network and the server, not about this code, which has to keep
trying. No other request is fair.

## What is proved

`PushProofs`, its first half, about the hub for any sets of clients, topics and
publishers, any capacities and any number of messages, from `HubAssumption`:

- `TypeCorrect`: `Spec => []TypeOK`.
- `ClosedOnce`: `Spec => []NoDoubleClose`. `NoDoubleClose` alone is not
  inductive. `OneLife` strengthens it: a client is at most one of not yet registered, registered, closed, which each
  step of the handler and of `Run` keeps, so that the client taken from
  `unregister` is either in `clients` with its channel open or is ignored.
- `HubImplementsFeed`: `Spec => FeedSpec`. The invariant `Ordered` says that the
  ids in a client's buffer, and then in the broadcast queue, rise, are above
  `last` and not above `accepted`; so a write is a `Deliver`, an accepted
  publication an `Accept`, and everything else a stutter.
- `SlowClientsGo`: `Spec => []SlowClientsLeave`. By `SlowLeave`, a client that was refused a
  message and is neither closed nor was unregistered before it registered has a dropper
  or an entry in `unregister` (`Leaving`); with `OneLife` that is the property.

`ProjectsProofs`, for any users, requests, bounds and first tables that satisfy
`ProjectsAssumption` (a one-level tree, seasons numbered from 1 on: what the
constraints of the schema and the code itself leave behind):

- `TypeCorrect` and `SeasonsStayDense` come from one invariant, `Typed /\ Numbered`.
  `Fits` says what a waiting request's local variables may hold: only rows that
  exist, a parent other than the project itself, a number other than 0. `Numbered`
  adds that a number computed by `MAX()+1` is at most the next one still; as the
  unique index refuses a number that is taken, it can only be the next one, and
  the numbering stays dense however many creations race.
- `OwnersAlwaysAgree`: inductive with `Typed`, as `UPDATE` and `DELETE` of members
  pass over owner rows and nothing changes `owner_id`.
- `SeasonsOnlyAdvance`: the action property, from `Undocumented`: a season that is
  not closed has no closing document.
- `PostsLateOnlyByRace`: `Overlap` says that two requests served at a time are both
  in `rough`; hence what a request outside `rough` has read of its season
  (`Undisturbed`) still holds when it inserts the post.
- `CalmTreesStayShallow`: the same argument for the tree. While nothing overlaps,
  what `ValidateParent` and `HasOwnChildren` answered (`Checked`) still holds at
  the `INSERT` or `UPDATE`, so neither end of a new edge has an edge already.

`PushProofs`, its second half, about the page for any places, any largest delay and any
number of runs of the script, from `WsClientAssumption`:

- `PageTypeCorrect` and `PageStaysLive` come from one invariant, `PageInv`. `StaysLive`
  alone is not inductive: a closing socket's `onclose` could schedule a retry after
  `beforeunload`. `Ended` adds that a run which `beforeunload` has ended has neither
  a live socket nor a timer, and that only such a run's socket is closing. `Alive`
  and `Counted` are the two halves of `KeepsTrying`: each step that takes a socket away sets
  a timer, and each that opens one has used a timer or begun a run, so that sockets, timers
  and kicked sockets together never exceed the runs.

`PostsProofs`, for any users, texts, tags and requests and finitely many posts, from
`PostsAssumption`, in layers of which each uses those before it:

- `TypeCorrect`, from `Typed`: with `Position`, what a request at each statement works on.
- `EditsAlwaysSerialise`, from `Serialised`: who holds a row lock is about to save that
  row, which is live and as it was read (`Holding`, `Locked`). That is why no save
  can miss another's content, and why an interrupted edit leaves no lock.
- `ThreadsStayIntact`: what a reply or a repost refers to is checked by the foreign key at
  the insert and cannot be deleted after it.
- `Basics` holds whatever overlaps and fails: what a request keeps in its local variables
  agrees with its post (`Ready`), an id not given out has nothing (`Stored`), a post without a
  card is one whose creation gave up or is still to publish it (`Carded`), and whoever is
  mentioned has been told or some request is about to (`Tells`).
- `MentionsAlwaysMatch` and `ViewersAlwaysMatch`, from `Basics` and `Calmness`. `Alone` says that
  two requests on one post mean that the post is in `rough`, and `Undisturbed` what a request on
  a calm post has made of its mentions and its card so far; it starts with the statements of an
  edit that repair (`LoadMentions` compares with what is stored, whatever that is), and a
  request that ends leaves the post matching (`Settled`).
- `CountersAlwaysCover`, from `Sums`: a counter is at least the live posts whose increment
  is behind them, where a request that is still to count has linked its post already (`Linked`).

`AccountsProofs`, for any names, requests and first tables, from `AccountsAssumption`: a
first table is empty or was left behind by the code (`Settled`: names differ, one Owner):

- `TypeCorrect`, from `Typed`: at which statements each operation can be, and that the
  statements about a user have one who is there (`On`, `Here`).
- `AlwaysFirstOwner`, from `Bootstrapped`: a registration that counted no users and
  has not yet promoted its own still leads the table (`Leads`), so that a second
  Owner needs a registration that overlapped it.
- `BannedStayOut` and `OldPasswordsStayOut`, from one invariant, `Explained`: a session, or a
  login that is about to open one, that a ban or a change of password should have ended
  (`Stale`) belongs to a request that overlapped a change (`Acted`), or the change has yet to
  delete the sessions or has failed to.
- `GateAlwaysFollows`, from `Followed`: when a change is done and every other had ended before it
  began, the cache holds its value (`Cached`); a registration that began later and read a
  setting has read that value (`Obeyed`).
- `NamesStayApart`, from `Apart`: a rename that found its name free collides with a user only if
  that user has the name from a request that overlapped the rename (`Named`).

`ReactionsProofs`, for any users, types and requests, from `ReactionsAssumption`:

- `TypeCorrect`, with finitely many rows and finitely many requests under way.
- `RecountsAlwaysRepair`, from `Recounted`: what a request alone is about to write is the
  number of rows, whatever earlier recounts left in `reaction_count`.
- `NoticesAlwaysTrue`, from `Backed`: the notes by a user and those that the user's requests
  may still write are together at most the reactions that the user really added; and from
  `Spaced`: of a user outside `rough` one request at most is under way, and it writes its note
  only if no note of the last minute is there.
- `BadgeAlwaysFollows`, from `Badged`: until `off`, what is on its way to the browser, be it a
  push, an answer or a list, is the number of unread notes, and so is the badge when nothing is.

`BackupsProofs`, for finitely many tables and any requests and bounds, from
`BackupsAssumption`:

- `TypeCorrect`.
- `SafetyNetHolds`. The invariant says that a file name belongs to one request unless it is
  spoiled (`Named`, `Unfinished`), that modification times are those recorded and only
  grow (`Dated`), that only a file with `Keep` newer ones is removed or about to be
  (`Kept`), and that the file of an import, temporary or renamed, holds the database as it
  was before it and opens with the configured key (`Covered`).
- `ImportsAlwaysRestore`, from `Scripts` (what `pg_dump` writes drops each of its tables once and
  loads it once, later) and `Replayed`: after any number of statements each table is as
  far as those statements have brought it (`Applied`).

`RatingsProofs`, for any pages, dimensions, stars and calls, from `RatingsAssumption`:

- `TypeCorrect` and `CardsAlwaysSettle`, from one invariant: of each unfinished call it says
  that no other unfinished call touches what it has to itself (`Exclusive`), that what it has
  written alone is still in the row and on the page (`Saves`), and that a rollback
  returns to what the row holds (`RollsBack`). A page becomes sure of something only by an
  answer of such a call.

`ReadingProofs`, for finite sets of tabs, posts and heartbeats and any caps and bounds, from
`ReadingAssumption`. One invariant, `IInv`, has four layers, of which each uses those before it:

- `TypeCorrect`, from `Typed`: a heartbeat reports each post once, and its transaction has
  written a row for exactly the posts behind `next` (`Position`); the heartbeats still to begin
  fit what is left of the clock (`Bounded`).
- `Books`: what an open transaction has written is a row that no other open transaction has
  written (`Exclusive`), and holds the committed seconds of that row plus what the heartbeat
  reports (`Booked`). The `UPDATE` adds to the row as it is once it has the lock, and whoever
  changed the row meanwhile has changed `last_seen_at`, so that no seconds are lost.
- `VisitsStayOneRow`, from `Visits`: a committed row is read exactly when its seconds reach the
  minimum (`Fair`). Outside `split` a post has one recent row at most and one open transaction
  at most reports it (`Apart`); that transaction extends this row, or adds one where there
  is none (`Placed`).
- `CountersAlwaysAgree`, from `Agreed`: a transaction that is not `crowded` is the only open
  one (`Alone`), so the counters it is about to write are those of the rows and marks as they
  will be when it commits (`Counted`).
- `TrackerKeepsLedger`: `Spec => LedgerSpec`. Each step maps to a step of `ReadingLedger`:
  `Tick` to `Tick`; `SendHeartbeat` to `Send`, which moves a tab's seconds, up to the caps, to one
  free heartbeat; `Commit` to `Record`, as by `Books` every post's rows grow by what the
  heartbeat reports and no other post's change; losing, failing and the detector's victim to
  `Drop`; and all others change none of the three and stutter.

Each inductive invariant was checked by TLC on an instance of its module before it was proved.
The conditions on requests that did not overlap are part of the properties, as the code
promises nothing for those that do; no action's guard reads the history variables they speak
of (`rough`, `undone`, `off`, `after`, `alone`, `sure`, `split`, `crowded`, `settled`,
`spoiled`, `blurred`). Where a later request makes good what overlap has left behind (edits,
recounts, badges, counters of the reading tracker), the property asks for that repair;
where nothing does (a tree of three levels, a split visit, a session that a ban missed), it says
that only the named overlap can be the cause.

Only model-checked are:

- `ConnectionEnds`, `HeartbeatsEnd` and `Reconnects`: liveness under fairness is beyond the
  prover.
- `NoSendOnClosed` and `NoPartialImport`, which are violated.

## Not modelled

- Channels and follows: `Join` and `Leave` are an idempotent statement and a recount,
  the pattern `Reactions` shows; `Follow` and `Unfollow` are one statement each.
- Project documents: every operation is one statement under a unique index.
- The lost updates of PATCH (`handler/project.go:240`) in names, slugs and
  visibility: the model has no such columns. The parent that PATCH drops is modelled.
- Queries, search, feeds, pages and charts keep no state; rendering, sanitising and
  validation are functions of text; an image upload writes one file of its own name.
- Real time: the 30 s timeout, session lifetimes and delays are "at any moment"; a
  backup's second and the order of modification times are kept.
- Several servers on one database: the hub and the settings cache are per process,
  and the program is deployed as one.

## Plan

Every safety property that the runs find to hold is proved for every value of the constants.
What could follow: the settings as a register with regular reads, which `Accounts` implements
apart from overlapping changes; and `WsClient` composed with the hub's connections, so that a
page that stays open is shown what the hub accepted.
