--------------------------- MODULE ReadingProofs ---------------------------
(***************************************************************************)
(* Proofs about Reading, in layers: what a heartbeat can be, what its open *)
(* transaction has written, when a visit stays one row, when the counters  *)
(* agree, and that the tracker implements ReadingLedger.                   *)
(***************************************************************************)
EXTENDS Reading, FiniteSetTheorems, FunctionTheorems, SequenceTheorems, TLAPS

(* A heartbeat reports every post once.  Its transaction goes through the   *)
(* posts in order and has written a row for each one behind it.            *)
Position(h) ==
    LET b == beat[h] IN
    /\ b.at = "idle" => b = NoBeat
    /\ b.at = "sent" => b.next = 1 /\ DOMAIN b.own = {} /\ b.marks = {}
    /\ \A i, j \in DOMAIN b.posts : b.posts[i].post = b.posts[j].post => i = j
    /\ InTx(h) =>
          /\ b.next \in 1..Len(b.posts) + 1
          /\ b.at \in {"look", "upsert"} <=> b.next <= Len(b.posts)
          /\ DOMAIN b.own = {b.posts[i].post : i \in 1..b.next - 1}

(* Each heartbeat that is under way will make one more transaction. *)
Bounded == clock + Cardinality({g \in Heartbeat : beat[g].at = "sent"}) <= MaxBeats

Typed == TypeOK /\ Bounded /\ \A h \in Heartbeat : Position(h)

(* What a transaction has written adds what the heartbeat reports to a row  *)
(* that it has locked, or to none.                                         *)
Booked(h) ==
    LET b == beat[h] IN
    InTx(h) =>
      /\ b.at = "upsert" => b.seen.row \in 0..Len(rows[Current(h).post])
      /\ \A i \in 1..b.next - 1 :
            LET p == b.posts[i].post  w == b.own[p] IN
            /\ w.row \in 0..Len(rows[p])
            /\ w.data.secs = b.posts[i].secs + IF w.row = 0 THEN 0 ELSE rows[p][w.row].secs
      /\ b.at = "commit" => b.totals.active = stats.active + b.active

Exclusive(g, h) ==
    InTx(g) /\ InTx(h) /\ g # h =>
        /\ ~(At(g, "commit") /\ At(h, "commit"))
        /\ \A p \in DOMAIN beat[g].own \cap DOMAIN beat[h].own :
              beat[g].own[p].row = beat[h].own[p].row => beat[g].own[p].row = 0

Books == (\A h \in Heartbeat : Booked(h)) /\ \A g, h \in Heartbeat : Exclusive(g, h)

(* A row is counted as read by its own seconds.  Outside split one open    *)
(* transaction at most reports a post, so what it looked up is still there. *)
Fair(row) == row.read <=> row.secs >= MinSeconds
Since(w, p) == {i \in DOMAIN rows[p] : rows[p][i].at >= w}
Apart(p) ==
    /\ \A i, j \in Since(window, p) : i = j
    /\ \A g, h \in Heartbeat : InTx(g) /\ InTx(h) /\ p \in PostsOf(g) \cap PostsOf(h) => g = h

Placed(h, p) ==
    LET recent == Since(beat[h].window, p) IN
    InTx(h) =>
        /\ beat[h].window <= window
        /\ p \in PostsOf(h) => \A i, j \in recent : i = j
        /\ At(h, "upsert") /\ Current(h).post = p =>
              IF beat[h].seen.row = 0 THEN recent = {}
              ELSE beat[h].seen.row \in recent /\ beat[h].seen.data = rows[p][beat[h].seen.row]
        /\ p \in DOMAIN beat[h].own =>
              IF beat[h].own[p].row = 0 THEN recent = {} ELSE beat[h].own[p].row \in recent

Visits ==
    /\ \A p \in Post : \A i \in DOMAIN rows[p] : Fair(rows[p][i])
    /\ \A h \in Heartbeat : \A p \in DOMAIN beat[h].own : Fair(beat[h].own[p].data)
    /\ \A p \in Post \ split : Apart(p) /\ \A h \in Heartbeat : Placed(h, p)

(* A transaction outside crowded is alone, so the counters that it has      *)
(* computed are those of the tables as it will leave them.                 *)
Counted(h) ==
    [Counts({p \in Post : IsRead(SeenRows(h, p))}, marks \cup beat[h].marks)
        EXCEPT !.active = beat[h].totals.active]
Alone(h) ==
    h \notin crowded /\ InTx(h) =>
        Others(h) = {} /\ (beat[h].at \in {"stats", "commit"} => beat[h].totals = Counted(h))
Agreed == CountsAgree /\ \A h \in Heartbeat : Alone(h)

IInv == Typed /\ Books /\ Visits /\ Agreed
-----------------------------------------------------------------------------
(* Sums.                                                                   *)

LEMMA UnitsOfOne ==
  ASSUME NEW x, NEW n \in Nat
  PROVE  IsFiniteSet({x} \X (1..n)) /\ Cardinality({x} \X (1..n)) = n
<1>1. IsFiniteSet({x}) /\ Cardinality({x}) = 1
  BY FS_Singleton
<1>2. IsFiniteSet(1..n) /\ Cardinality(1..n) = n
  BY FS_Interval
<1>3. /\ IsFiniteSet({x} \X (1..n))
      /\ Cardinality({x} \X (1..n)) = Cardinality({x}) * Cardinality(1..n)
  BY <1>1, <1>2, FS_Product
<1>4. QED  BY <1>1, <1>2, <1>3

LEMMA UnitsFinite ==
  ASSUME NEW S, IsFiniteSet(S), NEW f \in [S -> Nat]
  PROVE  IsFiniteSet(Units(f)) /\ Total(f) \in Nat
<1> DEFINE T == {{x} \X (1..f[x]) : x \in S}
           F == [x \in S |-> {x} \X (1..f[x])]
<1>1. F \in Surjection(S, T)
  <2>1. F \in [S -> T] /\ \A t \in T : \E s \in S : F[s] = t
    OBVIOUS
  <2>2. QED  BY <2>1, Fun_IsSurj
<1>2. IsFiniteSet(T)
  BY <1>1, FS_Surjection
<1>3. ASSUME NEW t \in T
      PROVE  IsFiniteSet(t)
  <2>1. PICK x \in S : t = {x} \X (1..f[x])
    OBVIOUS
  <2>2. f[x] \in Nat
    OBVIOUS
  <2>3. QED  BY <2>1, <2>2, UnitsOfOne
<1>4. IsFiniteSet(UNION T)
  BY <1>2, <1>3, FS_UNION
<1>5. QED  BY <1>4, FS_CardinalityType DEF Units, Total

(* An element more adds its own number. *)
LEMMA TotalExtends ==
  ASSUME NEW S, IsFiniteSet(S), NEW x, x \notin S,
         NEW f \in [S -> Nat], NEW g, DOMAIN g = S \cup {x}, g[x] \in Nat,
         \A y \in S : g[y] = f[y]
  PROVE  Total(g) = Total(f) + g[x]
<1> DEFINE New == {x} \X (1..g[x])
<1>1. Units(g) = Units(f) \cup New
  BY DEF Units
<1>2. Units(f) \cap New = {}
  BY DEF Units
<1>3. IsFiniteSet(Units(f)) /\ Cardinality(Units(f)) \in Nat
  BY UnitsFinite DEF Total
<1>4. IsFiniteSet(New) /\ Cardinality(New) = g[x]
  BY UnitsOfOne
<1>5. Cardinality(Units(f) \cup New) = Cardinality(Units(f)) + Cardinality(New)
  <2> HIDE DEF New
  <2>1. Cardinality(Units(f) \cup New)
            = Cardinality(Units(f)) + Cardinality(New) - Cardinality(Units(f) \cap New)
    BY <1>3, <1>4, FS_Union
  <2>2. Cardinality(Units(f) \cap New) = 0
    BY <1>2, FS_EmptySet
  <2>3. QED  BY <1>3, <1>4, <2>1, <2>2
<1>6. QED  BY <1>1, <1>3, <1>4, <1>5 DEF Total

LEMMA TotalAppended ==
  ASSUME NEW n, n \in Nat, NEW f, f \in [1..n -> Nat], NEW g, DOMAIN g = 1..n + 1, g[n + 1] \in Nat,
         \A k \in 1..n : g[k] = f[k]
  PROVE  Total(g) = Total(f) + g[n + 1]
<1>1. IsFiniteSet(1..n)
  BY FS_Interval
<1>2. n + 1 \notin 1..n /\ 1..n + 1 = 1..n \cup {n + 1}
  OBVIOUS
<1>3. ASSUME NEW S, NEW x, S = 1..n, x = n + 1
      PROVE  Total(g) = Total(f) + g[x]
  <2>1. IsFiniteSet(S) /\ x \notin S
    BY <1>1, <1>2, <1>3
  <2>2. f \in [S -> Nat]
    BY <1>3
  <2>3. DOMAIN g = S \cup {x} /\ g[x] \in Nat
    BY <1>2, <1>3
  <2>4. \A y \in S : g[y] = f[y]
    BY <1>3
  <2>5. QED  BY ONLY <2>1, <2>2, <2>3, <2>4, TotalExtends
<1>4. QED  BY <1>3

(* A number that grows adds what it grows by. *)
LEMMA TotalGrows ==
  ASSUME NEW S, IsFiniteSet(S), NEW x \in S, NEW d \in Nat,
         NEW f \in [S -> Nat], NEW g \in [S -> Nat], g[x] = f[x] + d,
         \A y \in S \ {x} : g[y] = f[y]
  PROVE  Total(g) = Total(f) + d
<1> DEFINE R == S \ {x}
           e == [y \in R |-> f[y]]
<1>1. IsFiniteSet(R) /\ e \in [R -> Nat] /\ x \notin R /\ S = R \cup {x}
  BY FS_RemoveElement
<1>2. Total(f) = Total(e) + f[x]
  BY <1>1, TotalExtends, DOMAIN f = R \cup {x}
<1>3. Total(g) = Total(e) + g[x]
  BY <1>1, TotalExtends, DOMAIN g = R \cup {x}
<1>4. Total(e) \in Nat
  BY <1>1, UnitsFinite
<1>5. QED  BY <1>2, <1>3, <1>4

LEMMA TotalOfNothing ==
  ASSUME NEW f, \A x \in DOMAIN f : f[x] = 0
  PROVE  Total(f) = 0
<1>1. Units(f) = {}
  <2>1. \A x \in DOMAIN f : 1..f[x] = {}
    OBVIOUS
  <2>2. QED  BY <2>1 DEF Units
<1>2. QED  BY <1>1, FS_EmptySet DEF Total
-----------------------------------------------------------------------------
(* Types.                                                                  *)

Report == [post : Post, secs : Nat]

LEMMA Constants ==
  /\ {MinSeconds, Interval, MaxActive, MaxPosts, MaxTicks, MaxBeats} \subseteq Nat
  /\ Topic \subseteq Post /\ Post \cap Nat = {} /\ "active" \notin Post /\ Day \subseteq Nat
  /\ IsFiniteSet(Tab) /\ IsFiniteSet(Post) /\ IsFiniteSet(Heartbeat)
BY ReadingAssumption DEF Day, Today

LEMMA Fields ==
  ASSUME NEW b, Formed(b)
  PROVE  /\ b.at \in Label /\ b.active \in Nat /\ b.posts \in Seq(Report) /\ b.next \in Nat
         /\ b.todo \subseteq Post \cup Day /\ b.now \in Nat /\ b.window \in Nat /\ b.seen \in Written
         /\ b.marks \subseteq Post \cup Day /\ b.totals \in Totals
         /\ Len(b.posts) \in Nat /\ DOMAIN b.posts = 1..Len(b.posts)
         /\ \A i \in 1..Len(b.posts) : b.posts[i] \in Report
<1>1. b.posts \in Seq(Report)
  BY DEF Formed, Report
<1>2. QED  BY <1>1, LenProperties, ElementOfSeq DEF Formed

LEMMA OneBeat ==
  ASSUME TypeOK, NEW h \in Heartbeat, NEW b, beat' = [beat EXCEPT ![h] = b]
  PROVE  /\ beat'[h] = b /\ \A g \in Heartbeat \ {h} : beat'[g] = beat[g]
         /\ beat' = [g \in Heartbeat |-> beat'[g]]
BY DEF TypeOK

LEMMA BeatsTyped ==
  ASSUME TypeOK, NEW h \in Heartbeat, NEW b, Formed(b), beat' = [beat EXCEPT ![h] = b]
  PROVE  beat' = [g \in Heartbeat |-> beat'[g]] /\ \A g \in Heartbeat : Formed(beat'[g])
BY OneBeat DEF TypeOK

LEMMA NewRowTyped ==
  ASSUME NEW n \in Nat, NEW m \in Nat
  PROVE  NewRow(n, m) \in Row
<1>1. (n >= MinSeconds) \in BOOLEAN
  OBVIOUS
<1>2. QED  BY <1>1 DEF NewRow, Row

LEMMA ExtendedTyped ==
  ASSUME NEW n \in Nat, NEW m \in Nat, NEW row \in Row
  PROVE  Extended(row, n, m) \in Row
<1>1. row.secs + n \in Nat
  BY DEF Row
<1>2. QED  BY <1>1, NewRowTyped DEF Extended

LEMMA NothingTyped == NotFound \in Written /\ NoTotals \in Totals /\ Formed(NoBeat)
<1>0. MinSeconds \in Nat /\ (0 >= MinSeconds) \in BOOLEAN
  BY Constants
<1>1. NotFound \in Written
  BY <1>0 DEF NotFound, Written, NewRow, Row
<1>2. <<>> \in Seq(Report)
  BY EmptySeq
<1>3. QED  BY <1>1, <1>2 DEF NoBeat, Formed, NoTotals, Totals, Label, Report

LEMMA CountsTyped ==
  ASSUME NEW S \in SUBSET Post, NEW M \in SUBSET (Post \cup Day)
  PROVE  Counts(S, M) \in Totals
<1>1. IsFiniteSet(Day)
  <2>1. {1, 2} = 1..2
    OBVIOUS
  <2>2. 1 \in Int /\ 2 \in Int
    OBVIOUS
  <2>3. IsFiniteSet(1..2)
    BY <2>2, FS_Interval
  <2>4. QED  BY <2>1, <2>3 DEF Day, Today
<1>2. IsFiniteSet(S) /\ IsFiniteSet(M \cap Post) /\ IsFiniteSet(M \cap Day)
  BY <1>1, Constants, FS_Subset
<1>3. QED  BY <1>2, FS_CardinalityType DEF Counts, Totals

LEMMA ListTyped ==
  ASSUME NEW S, NEW n \in Nat, NEW f \in [1..n -> S]
  PROVE  f \in Seq(S) /\ Len(f) = n /\ DOMAIN f = 1..n
<1>1. f \in Seq(S)
  BY SeqDef
<1>2. DOMAIN f = 1..Len(f) /\ Len(f) \in Nat /\ DOMAIN f = 1..n
  BY <1>1, LenProperties
<1>3. QED  BY <1>1, <1>2

LEMMA CapActiveTyped ==
  ASSUME NEW n \in Nat
  PROVE  CapActive(n) \in Nat /\ CapActive(n) <= MaxActive /\ CapActive(n) <= n
BY Constants DEF CapActive

LEMMA CapPostsTyped ==
  ASSUME NEW s \in Seq(Report)
  PROVE  /\ CapPosts(s) \in Seq(Report) /\ Len(CapPosts(s)) <= MaxPosts
         /\ Len(CapPosts(s)) \in 0..Len(s)
         /\ DOMAIN CapPosts(s) = 1..Len(CapPosts(s))
         /\ \A i \in 1..Len(CapPosts(s)) : /\ CapPosts(s)[i].secs <= Interval
                                           /\ CapPosts(s)[i].secs <= s[i].secs
                                           /\ CapPosts(s)[i].post = s[i].post
<1> DEFINE n == IF Len(s) > MaxPosts THEN MaxPosts ELSE Len(s)
           e(i) == [s[i] EXCEPT !.secs = IF @ > Interval THEN Interval ELSE @]
<1>1. n \in Nat /\ n <= MaxPosts /\ n <= Len(s) /\ Len(s) \in Nat
  BY Constants, LenProperties
<1>2. ASSUME NEW i \in 1..n
      PROVE  /\ e(i) \in Report /\ e(i).secs <= Interval /\ e(i).secs <= s[i].secs
             /\ e(i).post = s[i].post
  <2>1. s[i] \in Report
    BY <1>1, ElementOfSeq
  <2>2. s[i].secs \in Nat /\ Interval \in Nat /\ s[i].post \in Post
    BY <2>1, Constants DEF Report
  <2> DEFINE m == IF s[i].secs > Interval THEN Interval ELSE s[i].secs
  <2>4. m \in Nat /\ m <= Interval /\ m <= s[i].secs
    BY <2>2
  <2>5. e(i) = [s[i] EXCEPT !.secs = m]
    OBVIOUS
  <2>6. QED  BY <2>1, <2>4, <2>5 DEF Report
<1>3. CapPosts(s) = [i \in 1..n |-> e(i)]
  BY DEF CapPosts
<1>4. CapPosts(s) \in Seq(Report) /\ Len(CapPosts(s)) = n
  <2> HIDE DEF e
  <2>1. [i \in 1..n |-> e(i)] \in [1..n -> Report]
    BY <1>2
  <2>2. CapPosts(s) \in [1..n -> Report]
    BY <1>3, <2>1
  <2> HIDE DEF n
  <2>3. QED  BY <1>1, <2>2, ListTyped
<1>5. DOMAIN CapPosts(s) = 1..n /\ \A i \in 1..n : CapPosts(s)[i] = e(i)
  BY <1>3
<1> HIDE DEF n, e
<1>6. QED  BY <1>1, <1>2, <1>4, <1>5

LEMMA TypeInit == Init => TypeOK /\ Bounded /\ \A h \in Heartbeat : Position(h)
<1> SUFFICES ASSUME Init PROVE TypeOK /\ Bounded /\ \A h \in Heartbeat : Position(h)
  OBVIOUS
<1>1. PICK known \in BOOLEAN :
        /\ rows = [p \in Post |-> IF known THEN <<NewRow(1, 0)>> ELSE <<>>]
        /\ marks = IF known THEN {1} ELSE {}
        /\ stats = [Counts({p \in Post : IsRead(rows[p])}, marks) EXCEPT
                       !.active = IF known THEN 1 ELSE 0]
  BY DEF Init
<1>2. rows \in [Post -> Seq(Row)]
  <2>1. NewRow(1, 0) \in Row
    BY NewRowTyped, 0 \in Nat, 1 \in Nat
  <2> DEFINE seen == <<NewRow(1, 0)>>
  <2>2. seen \in [1..1 -> Row]
    BY <2>1
  <2>3. seen \in Seq(Row) /\ <<>> \in Seq(Row)
    BY <2>2, ListTyped, 1 \in Nat, EmptySeq
  <2> HIDE DEF seen
  <2>4. rows = [p \in Post |-> IF known THEN seen ELSE <<>>]
    BY <1>1 DEF seen
  <2>5. QED  BY <2>3, <2>4
<1>3. marks \subseteq Post \cup Day /\ stats \in Totals
  <2>1. marks \in SUBSET (Post \cup Day)
    BY <1>1 DEF Day
  <2>2. Counts({p \in Post : IsRead(rows[p])}, marks) \in Totals
    BY <2>1, CountsTyped
  <2>3. QED  BY <1>1, <2>1, <2>2 DEF Totals
<1>4. acc \in [Tab -> Gathering]
  BY DEF Init, Gathered, Gathering
<1>5. TypeOK
  BY <1>2, <1>3, <1>4, NothingTyped, Constants DEF Init, TypeOK
<1>6. Bounded
  <2>1. {g \in Heartbeat : beat[g].at = "sent"} = {}
    BY DEF Init, NoBeat
  <2>2. Cardinality({g \in Heartbeat : beat[g].at = "sent"}) = 0
    BY <2>1, FS_EmptySet
  <2>3. clock = 0 /\ MaxBeats \in Nat
    BY Constants DEF Init
  <2>4. QED  BY <2>2, <2>3 DEF Bounded
<1>7. \A h \in Heartbeat : Position(h)
  BY DEF Init, Position, NoBeat, InTx
<1>8. QED  BY <1>5, <1>6, <1>7

(* What sendHeartbeat reports: every post once, with the seconds gathered. *)
LEMMA ReportsTyped ==
  ASSUME TypeOK, NEW t \in Tab, NEW posts \in Reports(t)
  PROVE  /\ posts \in Seq(Report)
         /\ \A i \in DOMAIN posts : posts[i].secs = acc[t].secs[posts[i].post]
         /\ \A i, j \in DOMAIN posts : posts[i].post = posts[j].post => i = j
<1> DEFINE S == {p \in Post : acc[t].secs[p] > 0}
           n == Cardinality(S)
<1>1. PICK order \in SetToSeqs(S) :
        posts = [i \in DOMAIN order |-> [post |-> order[i], secs |-> acc[t].secs[order[i]]]]
  BY DEF Reports
<1>2. n \in Nat
  <2>1. S \subseteq Post
    OBVIOUS
  <2> HIDE DEF S
  <2>2. QED  BY <2>1, Constants, FS_Subset, FS_CardinalityType
<1>3. order \in [1..n -> S] /\ \A i, j \in 1..n : i # j => order[i] # order[j]
  BY DEF SetToSeqs
<1>4. acc[t].secs \in [Post -> Nat]
  BY DEF TypeOK, Gathering
<1> HIDE DEF n
<1>5. posts \in [1..n -> Report]
  BY <1>1, <1>3, <1>4 DEF Report
<1>6. posts \in Seq(Report) /\ DOMAIN posts = 1..n
  BY <1>2, <1>5, ListTyped
<1>7. \A i \in 1..n : posts[i].post = order[i] /\ posts[i].secs = acc[t].secs[order[i]]
  BY <1>1, <1>3
<1>8. QED  BY <1>3, <1>6, <1>7

LEMMA SendTyped ==
  ASSUME TypeOK, NEW t \in Tab, NEW h \in Heartbeat, SendHeartbeat(t, h)
  PROVE  TypeOK'
<1>1. PICK posts \in Reports(t) :
        beat' = [beat EXCEPT ![h] = [NoBeat EXCEPT !.at = "sent", !.active = acc[t].active,
                                                   !.posts = posts, !.todo = acc[t].topics]]
  BY DEF SendHeartbeat
<1> DEFINE b == [NoBeat EXCEPT !.at = "sent", !.active = acc[t].active,
                               !.posts = posts, !.todo = acc[t].topics]
<1>2. Formed(b)
  <2>1. acc[t].active \in Nat /\ acc[t].topics \subseteq Post \cup Day
    BY Constants DEF TypeOK, Gathering
  <2>2. posts \in Seq(Report)
    BY ReportsTyped
  <2>3. QED  BY <2>1, <2>2, NothingTyped DEF Formed, NoBeat, Label, Report
<1>3. beat' = [g \in Heartbeat |-> beat'[g]] /\ \A g \in Heartbeat : Formed(beat'[g])
  BY <1>1, <1>2, BeatsTyped
<1>4. acc' \in [Tab -> Gathering]
  BY DEF SendHeartbeat, TypeOK, Gathered, Gathering
<1>5. QED  BY <1>3, <1>4 DEF SendHeartbeat, TypeOK, database, time, ghost

LEMMA BrowseTyped ==
  ASSUME TypeOK, NEW t \in Tab,
         (\E visible \in SUBSET Post : Tick(t, visible)) \/ (\E p \in Topic : OpenTopic(t, p))
  PROVE  TypeOK'
<1>1. ASSUME NEW visible \in SUBSET Post, Tick(t, visible)
      PROVE  TypeOK'
  <2> DEFINE secs == [p \in Post |-> IF p \in visible THEN acc[t].secs[p] + 1 ELSE acc[t].secs[p]]
             new == [acc[t] EXCEPT !.active = @ + 1, !.secs = secs]
  <2>0. acc[t] \in Gathering /\ acc \in [Tab -> Gathering]
    BY DEF TypeOK
  <2>1. secs \in [Post -> Nat] /\ acc[t].active + 1 \in Nat
    BY <2>0 DEF Gathering
  <2>2. acc' = [acc EXCEPT ![t].active = @ + 1, ![t].secs = secs]
    BY <1>1, <2>0 DEF Tick
  <2> HIDE DEF secs
  <2>3. new \in Gathering
    BY <2>0, <2>1 DEF Gathering
  <2>4. acc' = [acc EXCEPT ![t] = new]
    BY <2>0, <2>2
  <2> HIDE DEF new
  <2>5. acc' \in [Tab -> Gathering]
    BY <2>0, <2>3, <2>4
  <2>6. ticks' \in 0..MaxTicks
    <3>1. ticks \in 0..MaxTicks /\ MaxTicks \in Nat
      BY Constants DEF TypeOK
    <3>2. ticks < MaxTicks /\ ticks' = ticks + 1
      BY <1>1 DEF Tick
    <3>3. QED  BY <3>1, <3>2
  <2>7. QED  BY <1>1, <2>5, <2>6 DEF Tick, TypeOK, database, time, ghost
<1>2. ASSUME NEW p \in Topic, OpenTopic(t, p)
      PROVE  TypeOK'
  <2> DEFINE new == [acc[t] EXCEPT !.topics = @ \cup {p}]
  <2>0. acc[t] \in Gathering /\ acc \in [Tab -> Gathering]
    BY DEF TypeOK
  <2>1. acc' = [acc EXCEPT ![t] = new]
    BY <1>2, <2>0 DEF OpenTopic
  <2>2. new \in Gathering
    BY <2>0 DEF Gathering
  <2> HIDE DEF new
  <2>3. acc' \in [Tab -> Gathering]
    BY <2>0, <2>1, <2>2
  <2>4. QED  BY <1>2, <2>3 DEF OpenTopic, TypeOK, database, time, ghost
<1>3. QED  BY <1>1, <1>2

(* The steps of a transaction: each changes one heartbeat, and of it what is *)
(* listed.                                                                  *)
Kept(h) == \A g \in Heartbeat \ {h} : beat'[g] = beat[g]

LEMMA BeginStep ==
  ASSUME TypeOK, NEW h \in Heartbeat, Begin(h)
  PROVE  /\ Kept(h) /\ Formed(beat'[h]) /\ beat' = [g \in Heartbeat |-> beat'[g]]
         /\ beat[h].at = "sent"
         /\ beat'[h].at = IF CapPosts(beat[h].posts) = <<>> THEN "mark" ELSE "look"
         /\ beat'[h].posts = CapPosts(beat[h].posts)
         /\ beat'[h].active = CapActive(beat[h].active)
         /\ beat'[h].next = beat[h].next /\ beat'[h].own = beat[h].own
         /\ beat'[h].marks = beat[h].marks
         /\ window' \in window..clock + 1 /\ beat'[h].window = window'
<1> DEFINE posts == CapPosts(beat[h].posts)
           label == IF posts = <<>> THEN "mark" ELSE "look"
           active == CapActive(beat[h].active)
           b == [beat[h] EXCEPT !.at = label, !.posts = posts, !.active = active,
                                !.todo = @ \cup {Today}, !.now = clock + 1, !.window = window']
<1>0. Formed(beat[h]) /\ beat = [g \in Heartbeat |-> beat[g]] /\ clock + 1 \in Nat
      /\ window' \in window..clock + 1 /\ window' \in Nat
  BY DEF TypeOK, Begin
<1>1. posts \in Seq(Report) /\ Len(posts) <= MaxPosts /\ DOMAIN posts = 1..Len(posts)
      /\ \A i \in 1..Len(posts) : posts[i].secs <= Interval
  BY <1>0, Fields, CapPostsTyped
<1>2. active \in Nat /\ active <= MaxActive
  BY <1>0, Fields, CapActiveTyped
<1>3. label \in Label /\ Today \in Day
  BY DEF Label, Day
<1>4. beat' = [beat EXCEPT ![h].at = label, ![h].posts = posts, ![h].active = active,
                           ![h].todo = @ \cup {Today}, ![h].now = clock + 1, ![h].window = window']
      /\ beat[h].at = "sent"
  BY <1>0 DEF Begin
<1>5. label \in {"mark", "look"} /\ (label = IF posts = <<>> THEN "mark" ELSE "look")
  OBVIOUS
<1> HIDE DEF posts, label, active
<1>6. beat' = [beat EXCEPT ![h] = b]
  BY <1>0, <1>4
<1>7. Formed(b)
  BY <1>0, <1>1, <1>2, <1>3 DEF Formed, Report
<1>8. /\ b.at = label /\ b.posts = posts /\ b.active = active /\ b.next = beat[h].next
      /\ b.own = beat[h].own /\ b.marks = beat[h].marks /\ b.window = window'
  BY <1>0 DEF Formed
<1> HIDE DEF b
<1>9. beat'[h] = b /\ Kept(h) /\ beat' = [g \in Heartbeat |-> beat'[g]]
  BY <1>6, OneBeat DEF Kept
<1>10. QED  BY <1>0, <1>4, <1>7, <1>8, <1>9 DEF posts, label, active

LEMMA CurrentTyped ==
  ASSUME NEW h \in Heartbeat, Formed(beat[h]), Position(h), beat[h].at \in {"look", "upsert"}
  PROVE  /\ InTx(h) /\ beat[h].next \in 1..Len(beat[h].posts)
         /\ Current(h) \in Report /\ Current(h).post \in Post /\ Current(h).secs \in Nat
<1>1. InTx(h)
  BY DEF InTx
<1>2. beat[h].next \in 1..Len(beat[h].posts)
  <2>1. beat[h].next \in 1..Len(beat[h].posts) + 1 /\ beat[h].next <= Len(beat[h].posts)
    BY <1>1 DEF Position
  <2>2. Len(beat[h].posts) \in Nat
    BY Fields
  <2>3. QED  BY <2>1, <2>2
<1>3. Current(h) \in Report
  BY <1>2, Fields DEF Current
<1>4. QED  BY <1>1, <1>2, <1>3 DEF Report

LEMMA OwnBooked ==
  ASSUME NEW h \in Heartbeat, Position(h), Booked(h), InTx(h), NEW p \in DOMAIN beat[h].own
  PROVE  \E i \in 1..beat[h].next - 1 :
            /\ beat[h].posts[i].post = p
            /\ beat[h].own[p].row \in 0..Len(rows[p])
            /\ beat[h].own[p].data.secs =
                  beat[h].posts[i].secs
                    + IF beat[h].own[p].row = 0 THEN 0 ELSE rows[p][beat[h].own[p].row].secs
<1>1. DOMAIN beat[h].own = {beat[h].posts[i].post : i \in 1..beat[h].next - 1}
  BY DEF Position
<1>2. PICK i \in 1..beat[h].next - 1 : beat[h].posts[i].post = p
  BY <1>1
<1>3. QED  BY <1>2 DEF Booked

LEMMA LookStep ==
  ASSUME TypeOK, NEW h \in Heartbeat, Position(h), Look(h)
  PROVE  \E seen \in Written :
         /\ Kept(h) /\ Formed(beat'[h]) /\ beat' = [g \in Heartbeat |-> beat'[g]]
         /\ beat[h].at = "look" /\ Current(h) \in Report
         /\ beat' = [beat EXCEPT ![h] = [beat[h] EXCEPT !.seen = seen, !.at = "upsert"]]
         /\ IF Since(beat[h].window, Current(h).post) = {} THEN seen = NotFound
            ELSE seen.row \in Since(beat[h].window, Current(h).post) /\ seen.data = rows[Current(h).post][seen.row]
<1> DEFINE p == Current(h).post
<1>0. Formed(beat[h]) /\ beat = [g \in Heartbeat |-> beat[g]] /\ rows \in [Post -> Seq(Row)]
  BY DEF TypeOK
<1>1. beat[h].at = "look" /\ Current(h) \in Report
  <2>1. beat[h].at = "look"
    BY DEF Look, At
  <2>2. QED  BY <1>0, <2>1, CurrentTyped
<1>2. p \in Post /\ rows[p] \in Seq(Row)
  BY <1>0, <1>1 DEF Report
<1>3. \A i \in Since(beat[h].window, p) : i \in Nat /\ rows[p][i] \in Row
  BY <1>2, LenProperties, ElementOfSeq DEF Since
<1>4. PICK seen \in IF Since(beat[h].window, p) = {} THEN {NotFound}
                    ELSE {[row |-> i, data |-> rows[p][i]] : i \in
                            {i \in Since(beat[h].window, p) : \A j \in Since(beat[h].window, p) : rows[p][j].at <= rows[p][i].at}} :
          beat' = [beat EXCEPT ![h].seen = seen, ![h].at = "upsert"]
  BY DEF Look, Since
<1>5. IF Since(beat[h].window, p) = {} THEN seen = NotFound
      ELSE seen.row \in Since(beat[h].window, p) /\ seen.data = rows[p][seen.row]
  BY <1>4
<1>6. seen \in Written
  BY <1>3, <1>4, NothingTyped DEF Written
<1> DEFINE b == [beat[h] EXCEPT !.seen = seen, !.at = "upsert"]
<1>7. beat' = [beat EXCEPT ![h] = b]
  BY <1>0, <1>4
<1>8. Formed(b)
  BY <1>0, <1>1, <1>6 DEF Formed, Label
<1>9. Kept(h) /\ beat'[h] = b /\ beat' = [g \in Heartbeat |-> beat'[g]]
  BY <1>7, OneBeat DEF Kept
<1>10. QED  BY <1>1, <1>5, <1>6, <1>7, <1>8, <1>9

(* The row that a transaction writes for the post it is at. *)
Same(h) == beat[h].seen.row # 0 /\ rows[Current(h).post][beat[h].seen.row].at = beat[h].seen.data.at
Output(h) ==
    IF Same(h)
    THEN [row |-> beat[h].seen.row,
          data |-> Extended(rows[Current(h).post][beat[h].seen.row], Current(h).secs, beat[h].now)]
    ELSE [row |-> 0, data |-> NewRow(Current(h).secs, beat[h].now)]

LEMMA UpsertStep ==
  ASSUME TypeOK, NEW h \in Heartbeat, Position(h), Booked(h), Upsert(h)
  PROVE  /\ Kept(h) /\ Formed(beat'[h]) /\ beat' = [g \in Heartbeat |-> beat'[g]]
         /\ beat[h].at = "upsert" /\ Current(h) \in Report /\ Output(h) \in Written
         /\ ~(beat[h].seen.row # 0 /\ Locked(h, Current(h).post, beat[h].seen.row))
         /\ beat'[h].at = IF beat[h].next = Len(beat[h].posts) THEN "mark" ELSE "look"
         /\ beat'[h].next = beat[h].next + 1
         /\ beat'[h].posts = beat[h].posts /\ beat'[h].active = beat[h].active
         /\ beat'[h].marks = beat[h].marks /\ beat'[h].totals = beat[h].totals
         /\ beat'[h].window = beat[h].window
         /\ DOMAIN beat'[h].own = DOMAIN beat[h].own \cup {Current(h).post}
         /\ \A q \in DOMAIN beat'[h].own :
               beat'[h].own[q] = IF q = Current(h).post THEN Output(h) ELSE beat[h].own[q]
<1> DEFINE p == Current(h).post
           own == [q \in DOMAIN beat[h].own \cup {p} |-> IF q = p THEN Output(h) ELSE beat[h].own[q]]
           label == IF beat[h].next = Len(beat[h].posts) THEN "mark" ELSE "look"
           b == [beat[h] EXCEPT !.own = own, !.seen = NotFound, !.next = @ + 1, !.at = label]
<1>0. Formed(beat[h]) /\ beat = [g \in Heartbeat |-> beat[g]] /\ rows \in [Post -> Seq(Row)]
  BY DEF TypeOK
<1>1. beat[h].at = "upsert" /\ InTx(h)
  BY DEF Upsert, At, InTx
<1>2. Current(h) \in Report /\ beat[h].next + 1 \in Nat
  BY <1>0, <1>1, Fields, CurrentTyped
<1>3. p \in Post /\ Current(h).secs \in Nat /\ rows[p] \in Seq(Row)
  BY <1>0, <1>2 DEF Report
<1>4. Output(h) \in Written
  <2>1. beat[h].now \in Nat /\ NewRow(Current(h).secs, beat[h].now) \in Row
    BY <1>0, <1>3, Fields, NewRowTyped
  <2>2. ASSUME Same(h)
        PROVE  beat[h].seen.row \in Nat
               /\ Extended(rows[p][beat[h].seen.row], Current(h).secs, beat[h].now) \in Row
    <3>1. beat[h].seen.row \in 1..Len(rows[p])
      <4>1. beat[h].seen.row \in 0..Len(rows[p]) /\ beat[h].seen.row # 0
        BY <1>1, <2>2 DEF Booked, Same
      <4>2. Len(rows[p]) \in Nat
        BY <1>3, LenProperties
      <4>3. QED  BY <4>1, <4>2
    <3>2. rows[p][beat[h].seen.row] \in Row
      BY <1>3, <3>1, ElementOfSeq
    <3>3. QED  BY <1>3, <2>1, <3>1, <3>2, ExtendedTyped
  <2>3. QED  BY <2>1, <2>2 DEF Output, Written
<1>5. beat' = [beat EXCEPT ![h].own = own, ![h].seen = NotFound, ![h].next = @ + 1, ![h].at = label]
      /\ ~(beat[h].seen.row # 0 /\ Locked(h, p, beat[h].seen.row))
  BY <1>0 DEF Upsert, Output, Same
<1>6. DOMAIN own \subseteq Post /\ \A q \in DOMAIN own : own[q] \in Written
  BY <1>0, <1>3, <1>4 DEF Formed
<1>7. label \in Label /\ label \notin {"idle", "sent"}
  BY DEF Label
<1>8. DOMAIN own = DOMAIN beat[h].own \cup {p}
      /\ \A q \in DOMAIN own : own[q] = IF q = p THEN Output(h) ELSE beat[h].own[q]
  OBVIOUS
<1> HIDE DEF own, label
<1>9. beat' = [beat EXCEPT ![h] = b]
  BY <1>0, <1>5
<1>10. Formed(b)
  BY <1>0, <1>1, <1>2, <1>6, <1>7, NothingTyped DEF Formed
<1>11. /\ b.at = label /\ b.posts = beat[h].posts /\ b.active = beat[h].active
       /\ b.next = beat[h].next + 1 /\ b.own = own /\ b.marks = beat[h].marks
       /\ b.totals = beat[h].totals /\ b.window = beat[h].window
  BY <1>0 DEF Formed
<1> HIDE DEF b
<1>12. beat'[h] = b /\ Kept(h) /\ beat' = [g \in Heartbeat |-> beat'[g]]
  BY <1>9, OneBeat DEF Kept
<1>13. beat'[h].at = IF beat[h].next = Len(beat[h].posts) THEN "mark" ELSE "look"
  BY <1>11, <1>12 DEF label
<1>14. /\ DOMAIN beat'[h].own = DOMAIN beat[h].own \cup {p}
       /\ \A q \in DOMAIN beat'[h].own : beat'[h].own[q] = IF q = p THEN Output(h) ELSE beat[h].own[q]
  BY <1>8, <1>11, <1>12
<1>15. Formed(beat'[h])
  BY <1>10, <1>12
<1>16. QED  BY <1>1, <1>2, <1>4, <1>5, <1>11, <1>12, <1>13, <1>14, <1>15

LEMMA MarkStep ==
  ASSUME TypeOK, NEW h \in Heartbeat, NEW m, Mark(h, m)
  PROVE  /\ Kept(h) /\ Formed(beat'[h]) /\ beat' = [g \in Heartbeat |-> beat'[g]]
         /\ beat[h].at = "mark" /\ beat'[h].at \in {"count", "mark"}
         /\ beat'[h].posts = beat[h].posts /\ beat'[h].active = beat[h].active
         /\ beat'[h].next = beat[h].next /\ beat'[h].own = beat[h].own
         /\ beat'[h].window = beat[h].window
<1> DEFINE own == IF m \in marks THEN beat[h].marks ELSE beat[h].marks \cup {m}
           label == IF beat[h].todo = {m} THEN "count" ELSE "mark"
           b == [beat[h] EXCEPT !.todo = @ \ {m}, !.marks = own, !.at = label]
<1>0. Formed(beat[h]) /\ beat = [g \in Heartbeat |-> beat[g]]
  BY DEF TypeOK
<1>1. beat[h].at = "mark" /\ m \in beat[h].todo
  BY DEF Mark, At, NextMarks
<1>2. beat' = [beat EXCEPT ![h].todo = @ \ {m}, ![h].marks = own, ![h].at = label]
  BY <1>0 DEF Mark
<1>3. own \subseteq Post \cup Day /\ beat[h].todo \ {m} \subseteq Post \cup Day
  BY <1>0, <1>1 DEF Formed
<1>4. label \in {"count", "mark"} /\ label \in Label
  BY DEF Label
<1> HIDE DEF own, label
<1>5. beat' = [beat EXCEPT ![h] = b]
  BY <1>0, <1>2
<1>6. Formed(b)
  BY <1>0, <1>1, <1>3, <1>4 DEF Formed
<1>7. /\ b.at = label /\ b.posts = beat[h].posts /\ b.active = beat[h].active
      /\ b.next = beat[h].next /\ b.own = beat[h].own /\ b.window = beat[h].window
  BY <1>0 DEF Formed
<1> HIDE DEF b
<1>8. beat'[h] = b /\ Kept(h) /\ beat' = [g \in Heartbeat |-> beat'[g]]
  BY <1>5, OneBeat DEF Kept
<1>9. QED  BY <1>1, <1>4, <1>6, <1>7, <1>8

LEMMA SeenTyped ==
  ASSUME TypeOK, NEW h \in Heartbeat, Position(h), Booked(h), InTx(h), NEW p \in Post
  PROVE  SeenRows(h, p) \in Seq(Row)
<1>0. Formed(beat[h]) /\ rows[p] \in Seq(Row)
  BY DEF TypeOK
<1>1. CASE p \notin DOMAIN beat[h].own
  BY <1>0, <1>1 DEF SeenRows
<1>2. CASE p \in DOMAIN beat[h].own
  <2> DEFINE w == beat[h].own[p]
  <2>1. w.data \in Row /\ w.row \in Nat
    BY <1>0, <1>2 DEF Formed, Written
  <2>2. w.row \in 0..Len(rows[p])
    BY <1>2, OwnBooked
  <2> HIDE DEF w
  <2>3. Append(rows[p], w.data) \in Seq(Row)
    BY <1>0, <2>1, AppendProperties
  <2>4. w.row # 0 => [rows[p] EXCEPT ![w.row] = w.data] \in Seq(Row)
    BY <1>0, <2>1, <2>2, ExceptSeq, LenProperties
  <2>5. SeenRows(h, p) = IF w.row = 0 THEN Append(rows[p], w.data)
                         ELSE [rows[p] EXCEPT ![w.row] = w.data]
    BY <1>2 DEF SeenRows, w
  <2>6. QED  BY <2>3, <2>4, <2>5
<1>3. QED  BY <1>1, <1>2

LEMMA CountStep ==
  ASSUME TypeOK, NEW h \in Heartbeat, Count(h)
  PROVE  /\ Kept(h) /\ Formed(beat'[h]) /\ beat' = [g \in Heartbeat |-> beat'[g]]
         /\ beat[h].at = "count" /\ beat'[h].at = "stats"
         /\ beat'[h].posts = beat[h].posts /\ beat'[h].active = beat[h].active
         /\ beat'[h].next = beat[h].next /\ beat'[h].own = beat[h].own
         /\ beat'[h].window = beat[h].window
         /\ beat'[h].marks = beat[h].marks
         /\ beat'[h].totals = Counts({p \in Post : IsRead(SeenRows(h, p))}, marks \cup beat[h].marks)
<1> DEFINE totals == Counts({p \in Post : IsRead(SeenRows(h, p))}, marks \cup beat[h].marks)
           b == [beat[h] EXCEPT !.at = "stats", !.totals = totals]
<1>0. Formed(beat[h]) /\ beat = [g \in Heartbeat |-> beat[g]]
  BY DEF TypeOK
<1>1. beat[h].at = "count"
  BY DEF Count, At
<1>2. beat' = [beat EXCEPT ![h].at = "stats", ![h].totals = totals]
  BY <1>0 DEF Count
<1>3. totals \in Totals
  BY <1>0, Fields, CountsTyped DEF TypeOK
<1> HIDE DEF totals
<1>5. beat' = [beat EXCEPT ![h] = b]
  BY <1>0, <1>2
<1>6. Formed(b)
  BY <1>0, <1>1, <1>3 DEF Formed, Label
<1>7. /\ b.at = "stats" /\ b.posts = beat[h].posts /\ b.active = beat[h].active
      /\ b.next = beat[h].next /\ b.own = beat[h].own /\ b.marks = beat[h].marks
      /\ b.totals = totals /\ b.window = beat[h].window
  BY <1>0 DEF Formed
<1> HIDE DEF b
<1>8. beat'[h] = b /\ Kept(h) /\ beat' = [g \in Heartbeat |-> beat'[g]]
  BY <1>5, OneBeat DEF Kept
<1>9. QED  BY <1>1, <1>6, <1>7, <1>8 DEF totals

LEMMA AddStatsStep ==
  ASSUME TypeOK, NEW h \in Heartbeat, AddStats(h)
  PROVE  /\ Kept(h) /\ Formed(beat'[h]) /\ beat' = [g \in Heartbeat |-> beat'[g]]
         /\ beat[h].at = "stats" /\ beat'[h].at = "commit"
         /\ beat'[h].posts = beat[h].posts /\ beat'[h].active = beat[h].active
         /\ beat'[h].next = beat[h].next /\ beat'[h].own = beat[h].own
         /\ beat'[h].window = beat[h].window
         /\ beat'[h].marks = beat[h].marks
         /\ beat'[h].totals = [beat[h].totals EXCEPT !.active = stats.active + beat[h].active]
<1> DEFINE totals == [beat[h].totals EXCEPT !.active = stats.active + beat[h].active]
           b == [beat[h] EXCEPT !.at = "commit", !.totals = totals]
<1>0. Formed(beat[h]) /\ beat = [g \in Heartbeat |-> beat[g]] /\ beat[h].totals \in Totals
  BY Fields DEF TypeOK
<1>1. beat[h].at = "stats"
  BY DEF AddStats, At
<1>2. beat' = [beat EXCEPT ![h].at = "commit", ![h].totals.active = stats.active + beat[h].active]
  BY <1>0 DEF AddStats
<1>3. totals \in Totals
  <2>1. stats.active \in Nat /\ beat[h].active \in Nat
    BY <1>0, Fields DEF TypeOK, Totals
  <2>2. stats.active + beat[h].active \in Nat
    BY <2>1
  <2>3. QED  BY <1>0, <2>2 DEF Totals
<1>5. beat' = [beat EXCEPT ![h] = b]
  BY <1>0, <1>2 DEF Formed
<1> HIDE DEF totals
<1>6. Formed(b)
  BY <1>0, <1>1, <1>3 DEF Formed, Label
<1>7. /\ b.at = "commit" /\ b.posts = beat[h].posts /\ b.active = beat[h].active
      /\ b.next = beat[h].next /\ b.own = beat[h].own /\ b.marks = beat[h].marks
      /\ b.totals = totals /\ b.window = beat[h].window
  BY <1>0 DEF Formed
<1> HIDE DEF b
<1>8. beat'[h] = b /\ Kept(h) /\ beat' = [g \in Heartbeat |-> beat'[g]]
  BY <1>5, OneBeat DEF Kept
<1>9. QED  BY <1>1, <1>6, <1>7, <1>8 DEF totals

LEMMA EndStep ==
  ASSUME TypeOK, NEW h \in Heartbeat, beat' = [beat EXCEPT ![h] = NoBeat]
  PROVE  Kept(h) /\ Formed(beat'[h]) /\ beat' = [g \in Heartbeat |-> beat'[g]] /\ beat'[h] = NoBeat
BY NothingTyped, OneBeat DEF Kept

(* A heartbeat that is not handed in keeps the bound; one that begins moves *)
(* from the second term of it to the first.                                *)
LEMMA BoundKept ==
  ASSUME TypeOK, Bounded, NEW h \in Heartbeat, Kept(h), beat'[h].at # "sent",
         clock' = clock \/ (beat[h].at = "sent" /\ clock' = clock + 1)
  PROVE  Bounded' /\ clock' \in 0..MaxBeats
<1> DEFINE S == {g \in Heartbeat : beat[g].at = "sent"}
           T == {g \in Heartbeat : beat'[g].at = "sent"}
<1>1. T = S \ {h}
  BY DEF Kept
<1>2. h \in S <=> beat[h].at = "sent"
  OBVIOUS
<1>3. S \subseteq Heartbeat /\ clock + Cardinality(S) <= MaxBeats
  BY DEF Bounded
<1>4. Bounded' <=> clock' + Cardinality(T) <= MaxBeats
  BY DEF Bounded
<1> HIDE DEF S, T
<1>5. IsFiniteSet(S) /\ Cardinality(S) \in Nat
  BY <1>3, Constants, FS_Subset, FS_CardinalityType
<1>6. Cardinality(T) = IF h \in S THEN Cardinality(S) - 1 ELSE Cardinality(S)
  BY <1>1, <1>5, FS_RemoveElement
<1>7. Cardinality(T) \in Nat
  BY <1>1, <1>5, FS_Subset, FS_CardinalityType
<1>8. clock \in Nat /\ MaxBeats \in Nat
  BY Constants DEF TypeOK
<1>9. QED  BY <1>2, <1>3, <1>4, <1>5, <1>6, <1>7, <1>8

LEMMA PositionKept ==
  ASSUME NEW h \in Heartbeat, Kept(h), NEW g \in Heartbeat \ {h}, Position(g)
  PROVE  Position(g)'
<1>1. beat'[g] = beat[g]
  BY DEF Kept
<1>2. QED  BY <1>1 DEF Position, InTx

(* Past the posts, the position stays. *)
LEMMA PositionBehind ==
  ASSUME NEW h \in Heartbeat, Position(h), beat[h].at \notin {"idle", "sent", "look", "upsert"},
         beat'[h].at \notin {"idle", "sent", "look", "upsert"}, beat'[h].posts = beat[h].posts,
         beat'[h].next = beat[h].next, beat'[h].own = beat[h].own
  PROVE  Position(h)'
BY DEF Position, InTx

LEMMA PositionNone ==
  ASSUME NEW h \in Heartbeat, beat'[h] = NoBeat
  PROVE  Position(h)'
<1>1. NoBeat.at = "idle" /\ NoBeat.posts = <<>> /\ NoBeat.next = 1 /\ NoBeat.marks = {}
  BY DEF NoBeat
<1>2. QED  BY <1>1 DEF Position, InTx

LEMMA SendPosition ==
  ASSUME Typed, NEW t \in Tab, NEW h \in Heartbeat, SendHeartbeat(t, h)
  PROVE  Typed' /\ Kept(h) /\ beat[h] = NoBeat /\ beat'[h].at = "sent"
<1>0. TypeOK /\ TypeOK'
  BY SendTyped DEF Typed
<1>1. PICK posts \in Reports(t) :
        beat' = [beat EXCEPT ![h] = [NoBeat EXCEPT !.at = "sent", !.active = acc[t].active,
                                                   !.posts = posts, !.todo = acc[t].topics]]
  BY DEF SendHeartbeat
<1> DEFINE b == [NoBeat EXCEPT !.at = "sent", !.active = acc[t].active,
                               !.posts = posts, !.todo = acc[t].topics]
<1>2. b.at = "sent" /\ b.posts = posts /\ b.next = 1 /\ DOMAIN b.own = {} /\ b.marks = {}
  BY DEF NoBeat
<1>3. \A i, j \in DOMAIN posts : posts[i].post = posts[j].post => i = j
  BY <1>0, ReportsTyped
<1> HIDE DEF b
<1>4. beat'[h] = b /\ Kept(h)
  <2>1. beat' = [beat EXCEPT ![h] = b]
    BY <1>1 DEF b
  <2>2. QED  BY <1>0, <2>1, OneBeat DEF Kept
<1>5. Position(h)'
  BY <1>2, <1>3, <1>4 DEF Position, InTx
<1>6. ASSUME NEW g \in Heartbeat \ {h}
      PROVE  Position(g)'
  BY <1>4, PositionKept DEF Typed
<1>7. Bounded'
  <2> DEFINE S == {g \in Heartbeat : beat[g].at = "sent"}
             T == {g \in Heartbeat : beat'[g].at = "sent"}
  <2>0. beat[h].at = "idle" /\ beat'[h].at = "sent"
    BY <1>2, <1>4 DEF SendHeartbeat
  <2>1. T = S \cup {h} /\ h \notin S
    BY <1>4, <2>0 DEF Kept
  <2>2. S \subseteq Heartbeat /\ clock + Cardinality(S) < MaxBeats /\ clock' = clock
    BY DEF SendHeartbeat, time
  <2>3. Bounded' <=> clock' + Cardinality(T) <= MaxBeats
    BY DEF Bounded
  <2> HIDE DEF S, T
  <2>4. IsFiniteSet(S) /\ Cardinality(S) \in Nat
    BY <2>2, Constants, FS_Subset, FS_CardinalityType
  <2>5. Cardinality(T) = Cardinality(S) + 1
    BY <2>1, <2>4, FS_AddElement
  <2>6. clock \in Nat /\ MaxBeats \in Nat
    BY <1>0, Constants DEF TypeOK
  <2>7. QED  BY <2>2, <2>3, <2>4, <2>5, <2>6
<1>8. beat[h] = NoBeat
  BY DEF SendHeartbeat, Typed, Position
<1>9. QED  BY <1>0, <1>2, <1>4, <1>5, <1>6, <1>7, <1>8 DEF Typed

(* A step that leaves the browser and the tables alone. *)
LEMMA OneTyped ==
  ASSUME Typed, NEW h \in Heartbeat, Kept(h), Formed(beat'[h]), Position(h)',
         beat' = [g \in Heartbeat |-> beat'[g]], beat'[h].at # "sent",
         clock' = clock \/ (beat[h].at = "sent" /\ clock' = clock + 1), window' \in 0..clock' + 1,
         rows' \in [Post -> Seq(Row)], marks' \subseteq Post \cup Day, stats' \in Totals,
         crowded' \subseteq Heartbeat, split' \subseteq Post, settled' \in BOOLEAN,
         UNCHANGED <<tabs, opening>>
  PROVE  Typed'
<1>1. \A g \in Heartbeat : Formed(beat'[g]) /\ Position(g)'
  BY PositionKept DEF Typed, TypeOK, Kept
<1>2. Bounded' /\ clock' \in 0..MaxBeats
  BY BoundKept DEF Typed
<1>3. QED  BY <1>1, <1>2 DEF Typed, TypeOK, tabs

LEMMA BeginTyped ==
  ASSUME Typed, NEW h \in Heartbeat, Begin(h)
  PROVE  Typed'
<1>0. TypeOK /\ Position(h) /\ Formed(beat[h])
  BY DEF Typed, TypeOK
<1>1. /\ Kept(h) /\ Formed(beat'[h]) /\ beat' = [g \in Heartbeat |-> beat'[g]]
      /\ beat[h].at = "sent"
      /\ beat'[h].at = IF CapPosts(beat[h].posts) = <<>> THEN "mark" ELSE "look"
      /\ beat'[h].posts = CapPosts(beat[h].posts)
      /\ beat'[h].next = beat[h].next /\ beat'[h].own = beat[h].own
  BY <1>0, BeginStep
<1> DEFINE old == beat[h].posts
           new == CapPosts(old)
<1>2. /\ old \in Seq(Report) /\ DOMAIN old = 1..Len(old) /\ Len(old) \in Nat
      /\ new \in Seq(Report) /\ Len(new) \in 0..Len(old) /\ DOMAIN new = 1..Len(new)
      /\ \A i \in 1..Len(new) : new[i].post = old[i].post
  BY <1>0, Fields, CapPostsTyped
<1>3. /\ beat[h].next = 1 /\ DOMAIN beat[h].own = {}
      /\ \A i, j \in DOMAIN old : old[i].post = old[j].post => i = j
  BY <1>0, <1>1 DEF Position
<1>4. new = <<>> <=> Len(new) = 0
  BY <1>2, EmptySeq
<1>5. Position(h)'
  <2>1. \A i, j \in DOMAIN new : new[i].post = new[j].post => i = j
    <3> HIDE DEF old, new
    <3>1. \A i \in 1..Len(new) : i \in 1..Len(old)
      BY <1>2
    <3>2. QED  BY <1>2, <1>3, <3>1
  <2>2. beat'[h].at \in {"look", "upsert"} <=> 1 <= Len(new)
    BY <1>1, <1>2, <1>4
  <2>3. {beat'[h].posts[i].post : i \in 1..beat'[h].next - 1} = {}
    <3>1. 1..beat'[h].next - 1 = {}
      BY <1>1, <1>3
    <3>2. QED  BY <3>1
  <2>4. beat'[h].next \in 1..Len(new) + 1
    BY <1>1, <1>2, <1>3
  <2>5. beat'[h].at \in {"look", "mark"} /\ beat'[h].next = 1
        /\ beat'[h].posts = new /\ DOMAIN beat'[h].own = {}
    BY <1>1, <1>3
  <2> HIDE DEF new, old
  <2>6. QED  BY <2>1, <2>2, <2>3, <2>4, <2>5 DEF Position, InTx
<1>6. /\ clock' = clock + 1 /\ window' \in 0..clock' + 1
      /\ UNCHANGED <<tabs, database, opening, settled>>
  BY <1>0 DEF Begin, TypeOK
<1>7. crowded' \subseteq Heartbeat
  BY <1>0 DEF Begin, Others, TypeOK
<1>8. split' \subseteq Post
  <2>1. \A i \in 1..Len(new) : new[i].post \in Post
    <3> HIDE DEF new, old
    <3>1. \A i \in 1..Len(new) : new[i] \in Report
      BY <1>2, ElementOfSeq
    <3>2. QED  BY <3>1 DEF Report
  <2>2. split' = split \cup ({new[i].post : i \in DOMAIN new} \cap UNION {PostsOf(g) : g \in Others(h)})
    BY DEF Begin
  <2> HIDE DEF new
  <2>3. QED  BY <1>0, <1>2, <2>1, <2>2 DEF TypeOK
<1>9. beat'[h].at # "sent"
  BY <1>1
<1>10. QED  BY <1>0, <1>1, <1>5, <1>6, <1>7, <1>8, <1>9, OneTyped DEF TypeOK, database

LEMMA LookTyped ==
  ASSUME Typed, NEW h \in Heartbeat, Look(h)
  PROVE  Typed'
<1>0. TypeOK /\ Position(h) /\ Formed(beat[h])
  BY DEF Typed, TypeOK
<1>1. PICK seen \in Written :
         /\ Kept(h) /\ Formed(beat'[h]) /\ beat' = [g \in Heartbeat |-> beat'[g]]
         /\ beat[h].at = "look"
         /\ beat' = [beat EXCEPT ![h] = [beat[h] EXCEPT !.seen = seen, !.at = "upsert"]]
  BY <1>0, LookStep
<1>2. beat'[h].at = "upsert" /\ beat'[h].posts = beat[h].posts
      /\ beat'[h].next = beat[h].next /\ beat'[h].own = beat[h].own
  BY <1>0, <1>1, OneBeat DEF Formed
<1>3. Position(h)'
  BY <1>0, <1>1, <1>2 DEF Position, InTx
<1>4. UNCHANGED <<tabs, database, opening, time, ghost>>
  BY DEF Look
<1>5. QED  BY <1>0, <1>1, <1>2, <1>3, <1>4, OneTyped DEF TypeOK, database, time, ghost

LEMMA UpsertTyped ==
  ASSUME Typed, NEW h \in Heartbeat, Booked(h), Upsert(h)
  PROVE  Typed'
<1>0. TypeOK /\ Position(h) /\ Formed(beat[h])
  BY DEF Typed, TypeOK
<1>1. /\ Kept(h) /\ Formed(beat'[h]) /\ beat' = [g \in Heartbeat |-> beat'[g]]
      /\ beat[h].at = "upsert"
      /\ beat'[h].at = IF beat[h].next = Len(beat[h].posts) THEN "mark" ELSE "look"
      /\ beat'[h].next = beat[h].next + 1
      /\ beat'[h].posts = beat[h].posts
      /\ DOMAIN beat'[h].own = DOMAIN beat[h].own \cup {Current(h).post}
  BY <1>0, UpsertStep
<1>2. beat[h].next \in 1..Len(beat[h].posts) /\ InTx(h) /\ Len(beat[h].posts) \in Nat
  BY <1>0, <1>1, CurrentTyped, Fields
<1>3. Position(h)'
  <2> DEFINE n == beat[h].next  P == beat[h].posts  len == Len(beat[h].posts)
  <2>1. DOMAIN beat[h].own = {P[i].post : i \in 1..n - 1}
        /\ \A i, j \in DOMAIN P : P[i].post = P[j].post => i = j
    BY <1>0, <1>2 DEF Position
  <2>2. DOMAIN beat'[h].own = {P[i].post : i \in 1..n}
    <3>1. 1..n = 1..n - 1 \cup {n}
      BY <1>2
    <3>2. QED  BY <1>1, <2>1, <3>1 DEF Current
  <2>3. beat'[h].at \in {"mark", "look"} /\ (beat'[h].at \in {"look", "upsert"} <=> n # len)
    BY <1>1
  <2> HIDE DEF n, len
  <2>4. n \in 1..len /\ len \in Nat
    BY <1>2 DEF n, len
  <2>5. n + 1 \in 1..len + 1 /\ n + 1 - 1 = n /\ (n # len <=> n + 1 <= len)
    BY <2>4
  <2>6. beat'[h].next = n + 1 /\ beat'[h].posts = P /\ Len(P) = len
    BY <1>1 DEF n, len
  <2> HIDE DEF P
  <2>7. /\ beat'[h].at \notin {"idle", "sent"}
        /\ \A i, j \in DOMAIN beat'[h].posts : beat'[h].posts[i].post = beat'[h].posts[j].post => i = j
    BY <2>1, <2>3, <2>6
  <2>8. beat'[h].next \in 1..Len(beat'[h].posts) + 1
    BY <2>5, <2>6
  <2>9. beat'[h].at \in {"look", "upsert"} <=> beat'[h].next <= Len(beat'[h].posts)
    BY <2>3, <2>5, <2>6
  <2>10. DOMAIN beat'[h].own = {beat'[h].posts[i].post : i \in 1..beat'[h].next - 1}
    <3>1. beat'[h].next - 1 = n
      BY <2>4, <2>6
    <3>2. QED  BY <2>2, <2>6, <3>1
  <2>11. QED  BY <2>7, <2>8, <2>9, <2>10 DEF Position, InTx
<1>4. UNCHANGED <<tabs, database, opening, time, ghost>>
  BY DEF Upsert
<1>5. beat'[h].at # "sent"
  BY <1>1
<1>6. QED  BY <1>0, <1>1, <1>3, <1>4, <1>5, OneTyped DEF TypeOK, database, time, ghost

LEMMA MarkTyped ==
  ASSUME Typed, NEW h \in Heartbeat, NEW m, Mark(h, m)
  PROVE  Typed'
<1>0. TypeOK /\ Position(h)
  BY DEF Typed
<1>1. /\ Kept(h) /\ Formed(beat'[h]) /\ beat' = [g \in Heartbeat |-> beat'[g]]
      /\ beat[h].at = "mark" /\ beat'[h].at \in {"count", "mark"}
      /\ beat'[h].posts = beat[h].posts
      /\ beat'[h].next = beat[h].next /\ beat'[h].own = beat[h].own
  BY <1>0, MarkStep
<1>2. Position(h)'
  BY <1>0, <1>1, PositionBehind
<1>3. UNCHANGED <<tabs, database, opening, time, ghost>>
  BY DEF Mark
<1>4. beat'[h].at # "sent"
  BY <1>1
<1>5. QED  BY <1>0, <1>1, <1>2, <1>3, <1>4, OneTyped DEF TypeOK, database, time, ghost

LEMMA CountTyped ==
  ASSUME Typed, NEW h \in Heartbeat, Count(h) \/ AddStats(h)
  PROVE  Typed'
<1>0. TypeOK /\ Position(h)
  BY DEF Typed
<1>1. /\ Kept(h) /\ Formed(beat'[h]) /\ beat' = [g \in Heartbeat |-> beat'[g]]
      /\ beat[h].at \in {"count", "stats"} /\ beat'[h].at \in {"stats", "commit"}
      /\ beat'[h].posts = beat[h].posts
      /\ beat'[h].next = beat[h].next /\ beat'[h].own = beat[h].own
  BY <1>0, CountStep, AddStatsStep
<1>2. Position(h)'
  BY <1>0, <1>1, PositionBehind
<1>3. UNCHANGED <<tabs, database, opening, time, ghost>>
  BY DEF Count, AddStats
<1>4. beat'[h].at # "sent"
  BY <1>1
<1>5. QED  BY <1>0, <1>1, <1>2, <1>3, <1>4, OneTyped DEF TypeOK, database, time, ghost

LEMMA CommitTyped ==
  ASSUME Typed, NEW h \in Heartbeat, Booked(h), Commit(h)
  PROVE  Typed'
<1>0. TypeOK /\ Position(h) /\ Formed(beat[h]) /\ InTx(h)
  BY DEF Typed, TypeOK, Commit, At, InTx
<1>1. /\ rows' = [p \in Post |-> SeenRows(h, p)] /\ marks' = marks \cup beat[h].marks
      /\ stats' = beat[h].totals /\ beat' = [beat EXCEPT ![h] = NoBeat]
      /\ settled' = (h \notin crowded) /\ crowded' = crowded \ {h}
      /\ UNCHANGED <<tabs, opening, time, split>>
  BY DEF Commit
<1>2. /\ Kept(h) /\ Formed(beat'[h]) /\ beat' = [g \in Heartbeat |-> beat'[g]] /\ beat'[h] = NoBeat
      /\ Position(h)'
  BY <1>0, <1>1, EndStep, PositionNone
<1>3. rows' \in [Post -> Seq(Row)]
  BY <1>0, <1>1, SeenTyped
<1>4. marks' \subseteq Post \cup Day /\ stats' \in Totals
  BY <1>0, <1>1, Fields DEF TypeOK
<1>5. beat'[h].at # "sent" /\ crowded' \subseteq Heartbeat /\ settled' \in BOOLEAN /\ split' \subseteq Post
  BY <1>0, <1>1, <1>2 DEF NoBeat, TypeOK
<1>6. clock' = clock /\ window' \in 0..clock' + 1
  BY <1>0, <1>1 DEF time, TypeOK
<1>7. QED  BY <1>1, <1>2, <1>3, <1>4, <1>5, <1>6, OneTyped

LEMMA EndTyped ==
  ASSUME Typed, NEW h \in Heartbeat, End(h)
  PROVE  Typed' /\ Kept(h) /\ beat'[h] = NoBeat
<1>0. TypeOK /\ beat' = [beat EXCEPT ![h] = NoBeat]
  BY DEF Typed, End
<1>1. /\ Kept(h) /\ Formed(beat'[h]) /\ beat' = [g \in Heartbeat |-> beat'[g]] /\ beat'[h] = NoBeat
      /\ Position(h)'
  BY <1>0, EndStep, PositionNone
<1>2. crowded' \subseteq Heartbeat /\ UNCHANGED <<tabs, database, opening, time, split, settled>>
  BY <1>0 DEF End, TypeOK
<1>3. beat'[h].at # "sent"
  BY <1>1 DEF NoBeat
<1>4. QED  BY <1>0, <1>1, <1>2, <1>3, OneTyped DEF TypeOK, database, time

(* A step that leaves the heartbeats alone. *)
LEMMA RestTyped ==
  ASSUME Typed, TypeOK', UNCHANGED <<beat, time>>
  PROVE  Typed'
<1>1. Bounded'
  BY DEF Typed, Bounded, time
<1>2. QED  BY <1>1 DEF Typed, Position, InTx

LEMMA BrowsingTyped ==
  ASSUME Typed, NEW t \in Tab,
         (\E visible \in SUBSET Post : Tick(t, visible)) \/ (\E p \in Topic : OpenTopic(t, p))
  PROVE  Typed' /\ UNCHANGED <<beat, database, time, ghost>>
<1>1. TypeOK' /\ UNCHANGED <<beat, database, time, ghost>>
  BY BrowseTyped DEF Typed, Tick, OpenTopic
<1>2. QED  BY <1>1, RestTyped

LEMMA BackstopTyped ==
  ASSUME Typed, NEW p \in Topic, Backstop(p)
  PROVE  Typed'
<1>1. TypeOK'
  <2>1. marks' \subseteq Post \cup Day
    BY Constants DEF Backstop, Typed, TypeOK
  <2>2. crowded' \subseteq Heartbeat /\ settled' \in BOOLEAN
    BY DEF Backstop, Typed, TypeOK
  <2>3. opening' \in [Topic -> {"unopened", "rendered", "over"}]
    BY DEF Backstop, Typed, TypeOK
  <2>4. QED  BY <2>1, <2>2, <2>3 DEF Backstop, Typed, TypeOK, tabs, time
<1>2. QED  BY <1>1, RestTyped DEF Backstop

LEMMA StutterTyped ==
  ASSUME Typed, UNCHANGED vars
  PROVE  Typed'
<1>1. TypeOK' /\ UNCHANGED <<beat, time>>
  BY DEF vars, Typed, TypeOK, tabs, database, time, ghost
<1>2. QED  BY <1>1, RestTyped
-----------------------------------------------------------------------------
(* What open transactions have written.                                    *)

(* The rows of a post as a transaction that has written one sees them. *)
LEMMA SeenAdded ==
  ASSUME TypeOK, NEW h \in Heartbeat, Position(h), Booked(h), InTx(h),
         NEW p \in DOMAIN beat[h].own, beat[h].own[p].row = 0
  PROVE  /\ p \in Post /\ Len(SeenRows(h, p)) = Len(rows[p]) + 1
         /\ DOMAIN SeenRows(h, p) = 1..Len(rows[p]) + 1
         /\ SeenRows(h, p)[Len(rows[p]) + 1] = beat[h].own[p].data
         /\ \A k \in 1..Len(rows[p]) : SeenRows(h, p)[k] = rows[p][k]
<1>1. p \in Post /\ rows[p] \in Seq(Row) /\ beat[h].own[p].data \in Row
  BY DEF TypeOK, Formed, Written
<1>2. SeenRows(h, p) = Append(rows[p], beat[h].own[p].data)
  BY DEF SeenRows
<1>3. Append(rows[p], beat[h].own[p].data) \in Seq(Row)
  BY <1>1, AppendProperties
<1>4. QED  BY <1>1, <1>2, <1>3, AppendProperties, LenProperties

LEMMA SeenChanged ==
  ASSUME TypeOK, NEW h \in Heartbeat, Position(h), Booked(h), InTx(h),
         NEW p \in DOMAIN beat[h].own, beat[h].own[p].row # 0
  PROVE  /\ p \in Post /\ Len(SeenRows(h, p)) = Len(rows[p])
         /\ beat[h].own[p].row \in 1..Len(rows[p])
         /\ DOMAIN SeenRows(h, p) = DOMAIN rows[p]
         /\ SeenRows(h, p)[beat[h].own[p].row] = beat[h].own[p].data
         /\ \A k \in 1..Len(rows[p]) \ {beat[h].own[p].row} : SeenRows(h, p)[k] = rows[p][k]
<1> DEFINE w == beat[h].own[p]
<1>1. p \in Post /\ rows[p] \in Seq(Row) /\ w.data \in Row
  BY DEF TypeOK, Formed, Written
<1>2. SeenRows(h, p) = [rows[p] EXCEPT ![w.row] = w.data]
  BY DEF SeenRows
<1>3. w.row \in 1..Len(rows[p])
  <2>1. w.row \in 0..Len(rows[p]) /\ w.row # 0
    BY OwnBooked
  <2>2. Len(rows[p]) \in Nat
    BY <1>1, LenProperties
  <2> HIDE DEF w
  <2>3. QED  BY <2>1, <2>2
<1>4. /\ [rows[p] EXCEPT ![w.row] = w.data] \in Seq(Row)
      /\ Len([rows[p] EXCEPT ![w.row] = w.data]) = Len(rows[p])
      /\ \A k \in 1..Len(rows[p]) : [rows[p] EXCEPT ![w.row] = w.data][k] = IF k = w.row THEN w.data ELSE rows[p][k]
  BY <1>1, <1>3, ExceptSeq
<1>5. QED  BY <1>1, <1>2, <1>3, <1>4, LenProperties

LEMMA SeenUnchanged ==
  ASSUME NEW h, NEW p, p \notin DOMAIN beat[h].own
  PROVE  SeenRows(h, p) = rows[p]
BY DEF SeenRows

(* A step of one transaction that leaves the tables alone. *)
LEMMA BooksOne ==
  ASSUME Books, NEW h \in Heartbeat, Kept(h), UNCHANGED <<rows, stats>>,
         Booked(h)', \A g \in Heartbeat \ {h} : Exclusive(g, h)'
  PROVE  Books'
<1>1. ASSUME NEW g \in Heartbeat PROVE Booked(g)'
  <2>1. CASE g = h
    BY <2>1
  <2>2. CASE g # h
    <3>1. beat'[g] = beat[g]
      BY <2>2 DEF Kept
    <3>2. Booked(g)
      BY DEF Books
    <3>3. QED  BY <3>1, <3>2 DEF Booked, InTx, Current
  <2>3. QED  BY <2>1, <2>2
<1>2. ASSUME NEW g \in Heartbeat, NEW k \in Heartbeat PROVE Exclusive(g, k)'
  <2>1. CASE g = k
    BY <2>1 DEF Exclusive
  <2>2. CASE g # k /\ k = h
    BY <2>2
  <2>3. CASE g # k /\ g = h
    <3>1. Exclusive(k, g)'
      BY <2>3
    <3>2. QED  BY <3>1 DEF Exclusive
  <2>4. CASE g # h /\ k # h
    <3>1. beat'[g] = beat[g] /\ beat'[k] = beat[k] /\ Exclusive(g, k)
      BY <2>4 DEF Kept, Books
    <3>2. QED  BY <3>1 DEF Exclusive, InTx, At
  <2>5. QED  BY <2>1, <2>2, <2>3, <2>4
<1>3. QED  BY <1>1, <1>2 DEF Books

(* Outside a transaction there is nothing to book. *)
LEMMA BooksNone ==
  ASSUME Books, NEW h \in Heartbeat, Kept(h), UNCHANGED <<rows, stats>>, beat'[h].at \in {"idle", "sent"}
  PROVE  Books'
<1>1. Booked(h)' /\ \A g \in Heartbeat \ {h} : Exclusive(g, h)'
  BY DEF Booked, Exclusive, InTx
<1>2. QED  BY <1>1, BooksOne

LEMMA BooksBegin ==
  ASSUME Typed, Books, NEW h \in Heartbeat, Begin(h)
  PROVE  Books'
<1>1. /\ Kept(h) /\ beat[h].at = "sent" /\ beat'[h].at \in {"mark", "look"}
      /\ beat'[h].next = beat[h].next /\ beat'[h].own = beat[h].own
  BY BeginStep DEF Typed
<1>2. beat[h].next = 1 /\ DOMAIN beat[h].own = {}
  BY <1>1 DEF Typed, Position
<1>3. 1..beat'[h].next - 1 = {}
  BY <1>1, <1>2
<1>4. Booked(h)'
  BY <1>1, <1>3 DEF Booked
<1>5. \A g \in Heartbeat \ {h} : Exclusive(g, h)'
  BY <1>1, <1>2 DEF Exclusive, At
<1>6. QED  BY <1>1, <1>4, <1>5, BooksOne DEF Begin, database

LEMMA BooksLook ==
  ASSUME Typed, Books, NEW h \in Heartbeat, Look(h)
  PROVE  Books'
<1>0. TypeOK /\ Position(h) /\ Formed(beat[h]) /\ Booked(h)
  BY DEF Typed, TypeOK, Books
<1>1. PICK seen \in Written :
         /\ Kept(h) /\ beat[h].at = "look" /\ Current(h) \in Report
         /\ beat' = [beat EXCEPT ![h] = [beat[h] EXCEPT !.seen = seen, !.at = "upsert"]]
         /\ IF Since(beat[h].window, Current(h).post) = {} THEN seen = NotFound
            ELSE seen.row \in Since(beat[h].window, Current(h).post) /\ seen.data = rows[Current(h).post][seen.row]
  BY <1>0, LookStep
<1>2. beat'[h].at = "upsert" /\ beat'[h].posts = beat[h].posts /\ beat'[h].active = beat[h].active
      /\ beat'[h].next = beat[h].next /\ beat'[h].own = beat[h].own /\ beat'[h].seen = seen
  BY <1>0, <1>1, OneBeat DEF Formed
<1>3. UNCHANGED <<rows, stats>>
  BY DEF Look, database
<1>4. seen.row \in 0..Len(rows[Current(h).post])
  <2>1. rows[Current(h).post] \in Seq(Row)
    BY <1>0, <1>1 DEF TypeOK, Report
  <2>2. Since(beat[h].window, Current(h).post) \subseteq 1..Len(rows[Current(h).post]) /\ Len(rows[Current(h).post]) \in Nat
    BY <2>1, LenProperties DEF Since
  <2>3. NotFound.row = 0
    BY DEF NotFound
  <2>4. QED  BY <1>1, <2>2, <2>3
<1>5. Current(h)' = Current(h)
  BY <1>2 DEF Current
<1>6. Booked(h)'
  BY <1>0, <1>1, <1>2, <1>3, <1>4, <1>5 DEF Booked, InTx
<1>7. ASSUME NEW g \in Heartbeat \ {h} PROVE Exclusive(g, h)'
  <2>1. Exclusive(g, h) /\ beat'[g] = beat[g]
    BY <1>1 DEF Books, Kept
  <2>2. QED  BY <1>1, <1>2, <2>1 DEF Exclusive, InTx, At
<1>8. QED  BY <1>1, <1>3, <1>6, <1>7, BooksOne

(* What a transaction writes: the seconds of the report on top of the row it *)
(* found, which nobody else has locked.                                     *)
LEMMA OutputBooked ==
  ASSUME TypeOK, NEW h \in Heartbeat, Position(h), Booked(h), beat[h].at = "upsert"
  PROVE  /\ Output(h).row \in 0..Len(rows[Current(h).post])
         /\ Output(h).row # 0 => Output(h).row = beat[h].seen.row
         /\ Output(h).data.secs =
               Current(h).secs
                 + IF Output(h).row = 0 THEN 0 ELSE rows[Current(h).post][Output(h).row].secs
         /\ Fair(Output(h).data)
<1> DEFINE p == Current(h).post  i == beat[h].seen.row  n == Current(h).secs
<1>0. Formed(beat[h]) /\ InTx(h) /\ p \in Post /\ n \in Nat /\ rows[p] \in Seq(Row)
  BY CurrentTyped DEF TypeOK
<1>1. i \in 0..Len(rows[p]) /\ Len(rows[p]) \in Nat
  BY <1>0, LenProperties DEF Booked
<1>2. CASE Same(h)
  <2>1. Output(h).row = i /\ Output(h).data = Extended(rows[p][i], n, beat[h].now) /\ i # 0
    BY <1>2 DEF Output, Same
  <2>2. rows[p][i] \in Row
    <3>1. i \in 1..Len(rows[p])
      <4> HIDE DEF i
      <4>1. QED  BY <1>1, <2>1
    <3>2. QED  BY <1>0, <3>1, ElementOfSeq
  <2>3. rows[p][i].secs \in Nat
    BY <2>2 DEF Row
  <2>4. /\ Extended(rows[p][i], n, beat[h].now).secs = rows[p][i].secs + n
        /\ Extended(rows[p][i], n, beat[h].now).read = (rows[p][i].secs + n >= MinSeconds)
    BY DEF Extended, NewRow
  <2> HIDE DEF n, i
  <2>5. rows[p][i].secs + n = n + rows[p][i].secs
    BY <1>0, <2>3
  <2>6. QED  BY <1>1, <2>1, <2>4, <2>5 DEF Fair, n, i
<1>3. CASE ~Same(h)
  <2>1. Output(h).row = 0 /\ Output(h).data = NewRow(n, beat[h].now)
    BY <1>3 DEF Output
  <2>2. NewRow(n, beat[h].now).secs = n /\ NewRow(n, beat[h].now).read = (n >= MinSeconds)
    BY DEF NewRow
  <2>3. n + 0 = n /\ 0 \in 0..Len(rows[p])
    BY <1>0, <1>1
  <2>4. QED  BY <2>1, <2>2, <2>3 DEF Fair
<1>4. QED  BY <1>2, <1>3

LEMMA BooksUpsert ==
  ASSUME Typed, Books, NEW h \in Heartbeat, Upsert(h)
  PROVE  Books'
<1>0. TypeOK /\ Position(h) /\ Formed(beat[h]) /\ Booked(h)
  BY DEF Typed, TypeOK, Books
<1>1. /\ Kept(h) /\ beat[h].at = "upsert"
      /\ ~(beat[h].seen.row # 0 /\ Locked(h, Current(h).post, beat[h].seen.row))
      /\ beat'[h].at \in {"mark", "look"}
      /\ beat'[h].next = beat[h].next + 1
      /\ beat'[h].posts = beat[h].posts /\ beat'[h].active = beat[h].active
      /\ DOMAIN beat'[h].own = DOMAIN beat[h].own \cup {Current(h).post}
      /\ \A q \in DOMAIN beat'[h].own :
            beat'[h].own[q] = IF q = Current(h).post THEN Output(h) ELSE beat[h].own[q]
  BY <1>0, UpsertStep
<1>2. /\ beat[h].next \in 1..Len(beat[h].posts) /\ InTx(h)
      /\ DOMAIN beat[h].posts = 1..Len(beat[h].posts) /\ Len(beat[h].posts) \in Nat
  BY <1>0, <1>1, CurrentTyped, Fields
<1>3. UNCHANGED <<rows, stats>>
  BY DEF Upsert, database
<1>4. ASSUME NEW i \in 1..beat'[h].next - 1
      PROVE  LET p == beat'[h].posts[i].post  w == beat'[h].own[p] IN
            /\ w.row \in 0..Len(rows'[p])
            /\ w.data.secs = beat'[h].posts[i].secs + IF w.row = 0 THEN 0 ELSE rows'[p][w.row].secs
  <2> DEFINE p == beat[h].posts[i].post
  <2>1. i \in 1..beat[h].next /\ i \in 1..Len(beat[h].posts)
    BY <1>1, <1>2
  <2>2. CASE i = beat[h].next
    <3>1. p = Current(h).post /\ beat'[h].own[p] = Output(h) /\ Current(h).secs = beat[h].posts[i].secs
      BY <1>1, <2>2 DEF Current
    <3>2. QED  BY <1>0, <1>1, <1>3, <3>1, OutputBooked
  <2>3. CASE i # beat[h].next
    <3>1. i \in 1..beat[h].next - 1
      BY <1>2, <2>1, <2>3
    <3>2. p # Current(h).post
      BY <1>0, <1>2, <2>1, <2>3 DEF Position, Current
    <3>3. p \in DOMAIN beat[h].own
      BY <1>0, <1>2, <3>1 DEF Position
    <3>4. beat'[h].own[p] = beat[h].own[p]
      BY <1>1, <3>2, <3>3
    <3>5. /\ beat[h].own[p].row \in 0..Len(rows[p])
          /\ beat[h].own[p].data.secs = beat[h].posts[i].secs
                + IF beat[h].own[p].row = 0 THEN 0 ELSE rows[p][beat[h].own[p].row].secs
      BY <1>0, <1>2, <3>1 DEF Booked
    <3>6. QED  BY <1>1, <1>3, <3>4, <3>5
  <2>4. QED  BY <2>2, <2>3
<1>5. Booked(h)'
  BY <1>1, <1>4 DEF Booked
<1>6. ASSUME NEW g \in Heartbeat \ {h} PROVE Exclusive(g, h)'
  <2>1. beat'[g] = beat[g] /\ Exclusive(g, h)
    BY <1>1 DEF Kept, Books
  <2>2. ASSUME InTx(g), NEW p \in DOMAIN beat'[g].own \cap DOMAIN beat'[h].own,
               beat'[g].own[p].row = beat'[h].own[p].row, beat'[g].own[p].row # 0
        PROVE  FALSE
    <3>1. CASE p = Current(h).post
      <4>1. beat'[h].own[p] = Output(h)
        BY <1>1, <3>1
      <4>2. beat[g].own[p].row = beat[h].seen.row /\ beat[h].seen.row # 0
        BY <1>0, <1>1, <2>1, <2>2, <4>1, OutputBooked
      <4>3. Locked(h, p, beat[h].seen.row)
        BY <2>1, <2>2, <4>2 DEF Locked, Others
      <4>4. QED  BY <1>1, <3>1, <4>2, <4>3
    <3>2. CASE p # Current(h).post
      BY <1>1, <1>2, <2>1, <2>2, <3>2 DEF Exclusive
    <3>3. QED  BY <3>1, <3>2
  <2>3. ~At(h, "commit")'
    BY <1>1 DEF At
  <2>4. InTx(g)' <=> InTx(g)
    BY <2>1 DEF InTx
  <2>5. QED  BY <2>2, <2>3, <2>4 DEF Exclusive
<1>7. QED  BY <1>1, <1>3, <1>5, <1>6, BooksOne

(* A step that leaves the written rows of a transaction alone. *)
LEMMA BooksSame ==
  ASSUME Typed, Books, NEW h \in Heartbeat, Kept(h), UNCHANGED <<rows, stats>>, InTx(h), InTx(h)',
         beat'[h].at # "upsert", beat'[h].posts = beat[h].posts, beat'[h].next = beat[h].next,
         beat'[h].own = beat[h].own, beat'[h].active = beat[h].active,
         beat'[h].at = "commit" =>
             /\ beat'[h].totals.active = stats.active + beat[h].active
             /\ \A g \in Others(h) : ~At(g, "commit")
  PROVE  Books'
<1>1. Booked(h)'
  <2>1. Booked(h)
    BY DEF Books
  <2>2. QED  BY <2>1 DEF Booked
<1>2. ASSUME NEW g \in Heartbeat \ {h} PROVE Exclusive(g, h)'
  <2>1. beat'[g] = beat[g] /\ Exclusive(g, h)
    BY DEF Kept, Books
  <2>2. InTx(g)' => g \in Others(h)
    BY <2>1 DEF InTx, Others
  <2>3. QED  BY <2>1, <2>2 DEF Exclusive, At, InTx
<1>3. QED  BY <1>1, <1>2, BooksOne

LEMMA BooksWork ==
  ASSUME Typed, Books, NEW h \in Heartbeat, (\E m \in Post \cup Day : Mark(h, m)) \/ Count(h) \/ AddStats(h)
  PROVE  Books'
<1>0. TypeOK
  BY DEF Typed
<1>1. /\ Kept(h) /\ InTx(h) /\ InTx(h)'
      /\ beat'[h].at # "upsert" /\ beat'[h].posts = beat[h].posts /\ beat'[h].next = beat[h].next
      /\ beat'[h].own = beat[h].own /\ beat'[h].active = beat[h].active
      /\ beat'[h].at = "commit" => AddStats(h)
  BY <1>0, MarkStep, CountStep, AddStatsStep DEF InTx
<1>2. UNCHANGED <<rows, stats>>
  BY DEF Mark, Count, AddStats, database
<1>3. ASSUME AddStats(h)
      PROVE  /\ beat'[h].totals.active = stats.active + beat[h].active
             /\ \A g \in Others(h) : ~At(g, "commit")
  <2>1. beat'[h].totals = [beat[h].totals EXCEPT !.active = stats.active + beat[h].active]
    BY <1>0, <1>3, AddStatsStep
  <2>2. beat[h].totals \in Totals
    BY <1>0, Fields DEF TypeOK
  <2>3. QED  BY <1>3, <2>1, <2>2 DEF AddStats, Totals
<1>4. QED  BY <1>1, <1>2, <1>3, BooksSame

(* A commit keeps the rows that other transactions have locked. *)
LEMMA CommitKeeps ==
  ASSUME Typed, Books, NEW h \in Heartbeat, InTx(h), NEW g \in Heartbeat \ {h}, InTx(g),
         NEW p \in DOMAIN beat[g].own, beat[g].own[p].row # 0
  PROVE  /\ beat[g].own[p].row \in 1..Len(rows[p])
         /\ SeenRows(h, p)[beat[g].own[p].row] = rows[p][beat[g].own[p].row]
<1> DEFINE k == beat[g].own[p].row
<1>0. TypeOK /\ Position(h) /\ Position(g) /\ Booked(h) /\ Booked(g) /\ Exclusive(g, h)
  BY DEF Typed, Books
<1>1. k \in 1..Len(rows[p])
  BY <1>0, SeenChanged
<1>2. p \in DOMAIN beat[h].own => beat[h].own[p].row # k
  BY <1>0 DEF Exclusive
<1>3. QED
  <2> HIDE DEF k
  <2>1. CASE p \notin DOMAIN beat[h].own
    BY <1>1, <2>1, SeenUnchanged DEF k
  <2>2. CASE p \in DOMAIN beat[h].own /\ beat[h].own[p].row = 0
    BY <1>0, <1>1, <2>2, SeenAdded DEF k
  <2>3. CASE p \in DOMAIN beat[h].own /\ beat[h].own[p].row # 0
    BY <1>0, <1>1, <1>2, <2>3, SeenChanged DEF k
  <2>4. QED  BY <2>1, <2>2, <2>3

(* No row is ever deleted. *)
LEMMA SeenLonger ==
  ASSUME TypeOK, NEW h \in Heartbeat, Position(h), Booked(h), InTx(h), NEW p \in Post
  PROVE  Len(SeenRows(h, p)) \in {Len(rows[p]), Len(rows[p]) + 1} /\ Len(rows[p]) \in Nat
<1>1. Len(rows[p]) \in Nat
  <2>1. rows[p] \in Seq(Row)
    BY DEF TypeOK
  <2>2. QED  BY <2>1, LenProperties
<1>2. QED  BY <1>1, SeenUnchanged, SeenAdded, SeenChanged

LEMMA BooksCommit ==
  ASSUME Typed, Books, NEW h \in Heartbeat, Commit(h)
  PROVE  Books'
<1>0. TypeOK /\ Position(h) /\ Booked(h) /\ At(h, "commit") /\ InTx(h)
  BY DEF Typed, Books, Commit, At, InTx
<1>1. Kept(h) /\ beat'[h].at = "idle" /\ \A p \in Post : rows'[p] = SeenRows(h, p)
  BY <1>0, EndStep DEF Commit, NoBeat
<1>2. ASSUME NEW g \in Heartbeat, InTx(g)'
      PROVE  g # h /\ beat'[g] = beat[g] /\ InTx(g) /\ ~At(g, "commit") /\ Position(g) /\ Booked(g) /\ Formed(beat[g])
  <2>1. g # h /\ beat'[g] = beat[g] /\ InTx(g)
    BY <1>1, <1>2 DEF Kept, InTx
  <2>2. Exclusive(g, h) /\ Position(g) /\ Booked(g) /\ Formed(beat[g])
    BY DEF Books, Typed, TypeOK
  <2>3. QED  BY <1>0, <2>1, <2>2 DEF Exclusive
<1>3. ASSUME NEW g \in Heartbeat PROVE Booked(g)'
  <2> SUFFICES ASSUME InTx(g)' PROVE Booked(g)'
    BY DEF Booked
  <2>1. g # h /\ beat'[g] = beat[g] /\ InTx(g) /\ ~At(g, "commit") /\ Position(g) /\ Booked(g) /\ Formed(beat[g])
    BY <1>2
  <2>2. beat[g].at = "upsert" => beat[g].seen.row \in 0..Len(rows'[Current(g).post])
    <3> SUFFICES ASSUME beat[g].at = "upsert"
                 PROVE  beat[g].seen.row \in 0..Len(rows'[Current(g).post])
      OBVIOUS
    <3>1. Current(g).post \in Post
      BY <2>1, CurrentTyped
    <3>2. beat[g].seen.row \in 0..Len(rows[Current(g).post])
      BY <2>1 DEF Booked
    <3>3. Len(rows'[Current(g).post]) \in {Len(rows[Current(g).post]), Len(rows[Current(g).post]) + 1}
          /\ Len(rows[Current(g).post]) \in Nat
      BY <1>0, <1>1, <3>1, SeenLonger
    <3>4. QED  BY <3>2, <3>3
  <2>3. ASSUME NEW i \in 1..beat[g].next - 1
        PROVE  LET p == beat[g].posts[i].post  w == beat[g].own[p] IN
               /\ w.row \in 0..Len(rows'[p])
               /\ w.data.secs = beat[g].posts[i].secs + IF w.row = 0 THEN 0 ELSE rows'[p][w.row].secs
    <3> DEFINE p == beat[g].posts[i].post  w == beat[g].own[p]
    <3>1. p \in DOMAIN beat[g].own /\ p \in Post
      BY <2>1 DEF Position, Formed
    <3>2. /\ w.row \in 0..Len(rows[p])
          /\ w.data.secs = beat[g].posts[i].secs + IF w.row = 0 THEN 0 ELSE rows[p][w.row].secs
      BY <2>1 DEF Booked
    <3>3. Len(rows'[p]) \in {Len(rows[p]), Len(rows[p]) + 1} /\ Len(rows[p]) \in Nat
      BY <1>0, <1>1, <3>1, SeenLonger
    <3>4. w.row # 0 => rows'[p][w.row] = rows[p][w.row]
      <4>1. g \in Heartbeat \ {h} /\ InTx(h) /\ InTx(g)
        BY <1>0, <2>1
      <4>2. beat[g].own[p].row # 0 => SeenRows(h, p)[beat[g].own[p].row] = rows[p][beat[g].own[p].row]
        <5> HIDE DEF p
        <5>1. QED  BY <3>1, <4>1, CommitKeeps
      <4>3. QED  BY <1>1, <3>1, <4>2
    <3> HIDE DEF w, p
    <3>5. w.row \in 0..Len(rows'[p])
      BY <3>2, <3>3
    <3>6. QED  BY <3>2, <3>4, <3>5 DEF w, p
  <2>4. QED  BY <2>1, <2>2, <2>3 DEF Booked, Current, At
<1>4. ASSUME NEW g \in Heartbeat, NEW k \in Heartbeat PROVE Exclusive(g, k)'
  <2>1. Exclusive(g, k)
    BY DEF Books
  <2>2. QED  BY <1>2, <2>1 DEF Exclusive, At
<1>5. QED  BY <1>3, <1>4 DEF Books

(* A step that leaves the heartbeats and the seconds alone. *)
LEMMA BooksRest ==
  ASSUME Books, UNCHANGED <<beat, rows, stats>>
  PROVE  Books'
BY DEF Books, Booked, Exclusive, InTx, At, Current

LEMMA BooksInit == Init => Books
BY DEF Init, Books, Booked, Exclusive, InTx, NoBeat
-----------------------------------------------------------------------------
(* Visits.                                                                 *)

LEMMA VisitsInit == Init => Visits
<1> SUFFICES ASSUME Init PROVE Visits
  OBVIOUS
<1>1. PICK known \in BOOLEAN : rows = [p \in Post |-> IF known THEN <<NewRow(1, 0)>> ELSE <<>>]
  BY DEF Init
<1>2. \A h \in Heartbeat : beat[h] = NoBeat /\ ~InTx(h)
  BY DEF Init, InTx, NoBeat
<1>3. ASSUME NEW p \in Post
      PROVE  DOMAIN rows[p] \subseteq {1} /\ \A i \in DOMAIN rows[p] : rows[p][i] = NewRow(1, 0)
  <2>1. rows[p] = IF known THEN <<NewRow(1, 0)>> ELSE <<>>
    BY <1>1
  <2>2. QED  BY <2>1
<1>4. Fair(NewRow(1, 0))
  BY DEF Fair, NewRow
<1>5. \A h \in Heartbeat : DOMAIN beat[h].own = {}
  BY <1>2 DEF NoBeat
<1>6. \A p \in Post : Apart(p) /\ \A h \in Heartbeat : Placed(h, p)
  BY <1>2, <1>3 DEF Apart, Placed, Since
<1>7. QED  BY <1>3, <1>4, <1>5, <1>6 DEF Visits

(* A transaction reports what it is at and what it has written. *)
LEMMA Reported ==
  ASSUME NEW h \in Heartbeat, Formed(beat[h]), Position(h), InTx(h)
  PROVE  /\ DOMAIN beat[h].own \subseteq PostsOf(h)
         /\ At(h, "upsert") => Current(h).post \in PostsOf(h)
<1>1. /\ DOMAIN beat[h].posts = 1..Len(beat[h].posts) /\ Len(beat[h].posts) \in Nat
      /\ beat[h].next \in 1..Len(beat[h].posts) + 1
      /\ DOMAIN beat[h].own = {beat[h].posts[i].post : i \in 1..beat[h].next - 1}
  BY Fields DEF Position
<1>2. \A i \in 1..beat[h].next - 1 : i \in 1..Len(beat[h].posts)
  BY <1>1
<1>3. At(h, "upsert") => beat[h].next \in 1..Len(beat[h].posts)
  BY CurrentTyped DEF At
<1>4. QED  BY <1>1, <1>2, <1>3 DEF PostsOf, Current

(* Later, fewer rows are recent. *)
LEMMA SinceShrinks ==
  ASSUME TypeOK, NEW p \in Post, NEW v \in Nat, NEW w \in Nat, v <= w
  PROVE  Since(w, p) \subseteq Since(v, p)
<1>1. rows[p] \in Seq(Row)
  BY DEF TypeOK
<1>2. ASSUME NEW i \in DOMAIN rows[p] PROVE rows[p][i].at \in Nat
  <2>1. rows[p][i] \in Row
    BY <1>1, LenProperties, ElementOfSeq
  <2>2. QED  BY <2>1 DEF Row
<1>3. QED  BY <1>2 DEF Since

LEMMA WindowTyped ==
  ASSUME TypeOK
  PROVE  window \in Nat /\ clock \in Nat /\ \A h \in Heartbeat : beat[h].window \in Nat
BY Fields, Constants DEF TypeOK

(* A step of one transaction that leaves the rows alone. *)
LEMMA VisitsOne ==
  ASSUME TypeOK, Visits, NEW h \in Heartbeat, Kept(h), UNCHANGED rows, split \subseteq split',
         window' \in Nat, window <= window',
         \A p \in DOMAIN beat'[h].own : Fair(beat'[h].own[p].data),
         \A p \in Post \ split' : Placed(h, p)',
         \A p \in Post \ split' : \A g \in Heartbeat \ {h} :
             ~(InTx(g) /\ InTx(h)' /\ p \in PostsOf(g) \cap PostsOf(h)')
  PROVE  Visits'
<1>1. \A p \in Post : \A i \in DOMAIN rows'[p] : Fair(rows'[p][i])
  BY DEF Visits
<1>2. ASSUME NEW g \in Heartbeat, NEW p \in DOMAIN beat'[g].own
      PROVE  Fair(beat'[g].own[p].data)
  <2>1. CASE g = h
    BY <1>2, <2>1
  <2>2. CASE g # h
    BY <1>2, <2>2 DEF Visits, Kept
  <2>3. QED  BY <2>1, <2>2
<1>3. ASSUME NEW g \in Heartbeat \ {h}
      PROVE  beat'[g] = beat[g] /\ PostsOf(g)' = PostsOf(g) /\ InTx(g)' = InTx(g)
  <2>1. beat'[g] = beat[g]
    BY DEF Kept
  <2>2. QED  BY <2>1 DEF PostsOf, InTx
<1>4. ASSUME NEW p \in Post \ split'
      PROVE  Apart(p)'
  <2>1. Apart(p) /\ Since(window, p)' \subseteq Since(window, p)
    <3>1. Since(window', p) \subseteq Since(window, p)
      BY WindowTyped, SinceShrinks
    <3>2. QED  BY <3>1 DEF Visits, Since
  <2>2. ASSUME NEW g \in Heartbeat, NEW k \in Heartbeat, InTx(g)', InTx(k)',
               p \in PostsOf(g)' \cap PostsOf(k)', g # k
        PROVE  FALSE
    <3>1. CASE g = h
      BY <1>3, <2>2, <3>1
    <3>2. CASE k = h
      BY <1>3, <2>2, <3>2
    <3>3. CASE g # h /\ k # h
      BY <1>3, <2>1, <2>2, <3>3 DEF Apart
    <3>4. QED  BY <3>1, <3>2, <3>3
  <2>3. QED  BY <2>1, <2>2 DEF Apart
<1>5. ASSUME NEW p \in Post \ split', NEW g \in Heartbeat
      PROVE  Placed(g, p)'
  <2>1. CASE g = h
    BY <2>1
  <2>2. CASE g # h
    <3>1. beat'[g] = beat[g] /\ Placed(g, p)
      BY <1>3, <2>2 DEF Visits
    <3>2. InTx(g) /\ beat[g].window <= window => beat[g].window <= window'
      BY WindowTyped
    <3>3. QED  BY <3>1, <3>2 DEF Placed, InTx, At, Current, PostsOf, Since
  <2>3. QED  BY <2>1, <2>2
<1>6. QED  BY <1>1, <1>2, <1>4, <1>5 DEF Visits

LEMMA VisitsNone ==
  ASSUME TypeOK, Visits, NEW h \in Heartbeat, Kept(h), UNCHANGED <<rows, window, split>>,
         beat'[h].at \in {"idle", "sent"}, DOMAIN beat'[h].own = {}
  PROVE  Visits'
<1>1. ~InTx(h)' /\ \A p : Placed(h, p)'
  BY DEF InTx, Placed
<1>2. window \in Nat /\ window <= window
  BY WindowTyped
<1>3. QED  BY <1>1, <1>2, VisitsOne

LEMMA VisitsBegin ==
  ASSUME Typed, Visits, NEW h \in Heartbeat, Begin(h)
  PROVE  Visits'
<1>1. /\ Kept(h) /\ beat[h].at = "sent" /\ beat'[h].at \in {"mark", "look"}
      /\ beat'[h].posts = CapPosts(beat[h].posts) /\ beat'[h].own = beat[h].own
      /\ window' \in window..clock + 1 /\ beat'[h].window = window'
  BY BeginStep DEF Typed
<1>2. /\ DOMAIN beat'[h].own = {}
      /\ TypeOK /\ window \in Nat /\ window' \in Nat /\ window <= window' /\ window' <= window'
  BY <1>1, WindowTyped DEF Typed, Position
<1>3. ASSUME NEW p \in Post \ split' PROVE Placed(h, p)'
  <2>1. Apart(p) /\ UNCHANGED rows
    BY DEF Begin, Visits, database
  <2>2. Since(window', p) \subseteq Since(window, p)
    BY <1>2, SinceShrinks
  <2>3. Since(beat[h].window, p)' = Since(window', p)
    BY <1>1, <2>1 DEF Since
  <2>4. \A i, j \in Since(beat[h].window, p)' : i = j
    BY <2>1, <2>2, <2>3 DEF Apart
  <2>5. QED  BY <1>1, <1>2, <2>4 DEF Placed, At
<1>4. UNCHANGED rows /\ split' = split \cup (PostsOf(h)' \cap UNION {PostsOf(g) : g \in Others(h)})
  BY <1>1 DEF Begin, PostsOf, database
<1>5. ASSUME NEW p \in Post \ split', NEW g \in Heartbeat \ {h}, InTx(g), p \in PostsOf(g) \cap PostsOf(h)'
      PROVE  FALSE
  <2>1. g \in Others(h)
    BY <1>5 DEF Others
  <2>2. QED  BY <1>4, <1>5, <2>1
<1>6. QED  BY <1>1, <1>2, <1>3, <1>4, <1>5, VisitsOne

(* A step of one transaction that goes on with what it reports. *)
LEMMA VisitsGoOn ==
  ASSUME TypeOK, Visits, NEW h \in Heartbeat, Kept(h), UNCHANGED <<rows, window, split>>, InTx(h),
         beat'[h].posts = beat[h].posts,
         \A p \in DOMAIN beat'[h].own : Fair(beat'[h].own[p].data),
         \A p \in Post \ split' : Placed(h, p)'
  PROVE  Visits'
<1>1. PostsOf(h)' = PostsOf(h)
  BY DEF PostsOf
<1>2. ASSUME NEW p \in Post \ split', NEW g \in Heartbeat \ {h}
      PROVE  ~(InTx(g) /\ p \in PostsOf(g) \cap PostsOf(h)')
  <2>1. Apart(p)
    BY DEF Visits
  <2>2. QED  BY <1>1, <2>1 DEF Apart
<1>3. window \in Nat /\ window <= window
  BY WindowTyped
<1>4. QED  BY <1>2, <1>3, VisitsOne

LEMMA VisitsLook ==
  ASSUME Typed, Visits, NEW h \in Heartbeat, Look(h)
  PROVE  Visits'
<1>0. TypeOK /\ Position(h) /\ Formed(beat[h])
  BY DEF Typed, TypeOK
<1>1. PICK seen \in Written :
         /\ Kept(h) /\ beat[h].at = "look" /\ Current(h) \in Report
         /\ beat' = [beat EXCEPT ![h] = [beat[h] EXCEPT !.seen = seen, !.at = "upsert"]]
         /\ IF Since(beat[h].window, Current(h).post) = {} THEN seen = NotFound
            ELSE seen.row \in Since(beat[h].window, Current(h).post) /\ seen.data = rows[Current(h).post][seen.row]
  BY <1>0, LookStep
<1>2. beat'[h].posts = beat[h].posts /\ beat'[h].next = beat[h].next
      /\ beat'[h].own = beat[h].own /\ beat'[h].seen = seen /\ beat'[h].window = beat[h].window
  BY <1>0, <1>1, OneBeat DEF Formed
<1>3. UNCHANGED <<rows, window, split>> /\ InTx(h) /\ Current(h)' = Current(h) /\ PostsOf(h)' = PostsOf(h)
  <2>1. UNCHANGED <<rows, window, split>>
    BY DEF Look, database, time, ghost
  <2>2. InTx(h) /\ Current(h)' = Current(h)
    BY <1>1, <1>2 DEF InTx, Current
  <2>3. PostsOf(h)' = PostsOf(h)
    BY <1>2 DEF PostsOf
  <2>4. QED  BY <2>1, <2>2, <2>3
<1>4. ASSUME NEW p \in Post \ split'
      PROVE  Placed(h, p)'
  <2>1. Placed(h, p) /\ Since(beat[h].window, p)' = Since(beat[h].window, p)
    BY <1>2, <1>3 DEF Visits, Since
  <2>2. ASSUME Current(h).post = p
        PROVE  IF seen.row = 0 THEN Since(beat[h].window, p) = {}
               ELSE seen.row \in Since(beat[h].window, p) /\ seen.data = rows[p][seen.row]
    <3>1. NotFound.row = 0
      BY DEF NotFound
    <3>2. 0 \notin Since(beat[h].window, p)
      <4>1. rows[p] \in Seq(Row)
        BY <1>0 DEF TypeOK
      <4>2. QED  BY <4>1, LenProperties DEF Since
    <3>3. QED  BY <1>1, <2>2, <3>1, <3>2
  <2>3. QED  BY <1>2, <1>3, <2>1, <2>2 DEF Placed
<1>5. \A p \in DOMAIN beat'[h].own : Fair(beat'[h].own[p].data)
  BY <1>2 DEF Visits
<1>6. QED  BY <1>0, <1>1, <1>2, <1>3, <1>4, <1>5, VisitsGoOn

LEMMA VisitsUpsert ==
  ASSUME Typed, Books, Visits, NEW h \in Heartbeat, Upsert(h)
  PROVE  Visits'
<1>0. TypeOK /\ Position(h) /\ Formed(beat[h]) /\ Booked(h)
  BY DEF Typed, TypeOK, Books
<1>1. /\ Kept(h) /\ beat[h].at = "upsert" /\ Current(h) \in Report
      /\ beat'[h].at \in {"mark", "look"} /\ beat'[h].posts = beat[h].posts
      /\ beat'[h].window = beat[h].window
      /\ DOMAIN beat'[h].own = DOMAIN beat[h].own \cup {Current(h).post}
      /\ \A q \in DOMAIN beat'[h].own :
            beat'[h].own[q] = IF q = Current(h).post THEN Output(h) ELSE beat[h].own[q]
  BY <1>0, UpsertStep
<1>2. UNCHANGED <<rows, window, split>> /\ InTx(h) /\ PostsOf(h)' = PostsOf(h)
  <2>1. UNCHANGED <<rows, window, split>>
    BY DEF Upsert, database, time, ghost
  <2>2. InTx(h)
    BY <1>1 DEF InTx
  <2>3. PostsOf(h)' = PostsOf(h)
    BY <1>1 DEF PostsOf
  <2>4. QED  BY <2>1, <2>2, <2>3
<1>3. \A p \in DOMAIN beat'[h].own : Fair(beat'[h].own[p].data)
  BY <1>0, <1>1, OutputBooked DEF Visits
<1>4. ASSUME NEW p \in Post \ split'
      PROVE  Placed(h, p)'
  <2>1. Placed(h, p) /\ Since(beat[h].window, p)' = Since(beat[h].window, p)
    BY <1>1, <1>2 DEF Visits, Since
  <2>2. CASE p = Current(h).post
    <3>1. IF beat[h].seen.row = 0 THEN Since(beat[h].window, p) = {}
          ELSE beat[h].seen.row \in Since(beat[h].window, p) /\ beat[h].seen.data = rows[p][beat[h].seen.row]
      BY <1>1, <1>2, <2>1, <2>2 DEF Placed, At
    <3>2. Output(h).row = beat[h].seen.row
      BY <2>2, <3>1 DEF Output, Same
    <3>3. beat'[h].own[p] = Output(h)
      BY <1>1, <2>2
    <3>4. QED  BY <1>1, <1>2, <2>1, <3>1, <3>2, <3>3 DEF Placed, At
  <2>3. CASE p # Current(h).post
    BY <1>1, <1>2, <2>1, <2>3 DEF Placed, At
  <2>4. QED  BY <2>2, <2>3
<1>5. QED  BY <1>0, <1>1, <1>2, <1>3, <1>4, VisitsGoOn

LEMMA VisitsWork ==
  ASSUME Typed, Visits, NEW h \in Heartbeat, (\E m \in Post \cup Day : Mark(h, m)) \/ Count(h) \/ AddStats(h)
  PROVE  Visits'
<1>1. /\ Kept(h) /\ InTx(h) /\ beat'[h].at # "upsert"
      /\ beat'[h].posts = beat[h].posts /\ beat'[h].own = beat[h].own
      /\ beat'[h].window = beat[h].window
  BY MarkStep, CountStep, AddStatsStep DEF InTx, Typed
<1>2. TypeOK /\ UNCHANGED <<rows, window, split>> /\ PostsOf(h)' = PostsOf(h)
  BY <1>1 DEF Mark, Count, AddStats, database, time, ghost, PostsOf, Typed
<1>3. ASSUME NEW p \in Post \ split'
      PROVE  Placed(h, p)'
  <2>1. Placed(h, p) /\ Since(beat[h].window, p)' = Since(beat[h].window, p)
    BY <1>1, <1>2 DEF Visits, Since
  <2>2. QED  BY <1>1, <1>2, <2>1 DEF Placed, At
<1>4. \A p \in DOMAIN beat'[h].own : Fair(beat'[h].own[p].data)
  BY <1>1 DEF Visits
<1>5. QED  BY <1>1, <1>2, <1>3, <1>4, VisitsGoOn

(* The recent rows of a post as a transaction that may be alone with it sees *)
(* them.                                                                    *)
LEMMA SeenRecent ==
  ASSUME TypeOK, NEW h \in Heartbeat, Position(h), Booked(h), InTx(h),
         Formed(beat[h]), NEW p \in Post, Apart(p), Placed(h, p)
  PROVE  \A i, j \in DOMAIN SeenRows(h, p) :
             SeenRows(h, p)[i].at >= window /\ SeenRows(h, p)[j].at >= window => i = j
<1> DEFINE own == beat[h].own
<1>0. DOMAIN rows[p] = 1..Len(rows[p]) /\ Len(rows[p]) \in Nat
  <2>1. rows[p] \in Seq(Row)
    BY DEF TypeOK
  <2>2. QED  BY <2>1, LenProperties
<1>1. Since(window, p) \subseteq Since(beat[h].window, p)
  BY WindowTyped, SinceShrinks DEF Placed
<1>2. CASE p \notin DOMAIN own
  BY <1>2, SeenUnchanged DEF Apart, Since
<1>3. CASE p \in DOMAIN own /\ own[p].row = 0
  <2>1. \A k \in 1..Len(rows[p]) : ~(rows[p][k].at >= window)
    <3>1. Since(beat[h].window, p) = {}
      BY <1>3 DEF Placed
    <3>2. QED  BY <1>0, <1>1, <3>1 DEF Since
  <2>2. /\ DOMAIN SeenRows(h, p) = 1..Len(rows[p]) + 1
        /\ \A k \in 1..Len(rows[p]) : SeenRows(h, p)[k] = rows[p][k]
    BY <1>3, SeenAdded
  <2>3. \A k \in 1..Len(rows[p]) + 1 : k = Len(rows[p]) + 1 \/ k \in 1..Len(rows[p])
    BY <1>0
  <2>4. QED  BY <2>1, <2>2, <2>3
<1>4. CASE p \in DOMAIN own /\ own[p].row # 0
  <2>1. /\ own[p].row \in Since(beat[h].window, p)
        /\ \A i, j \in Since(beat[h].window, p) : i = j
    BY <1>4, Reported DEF Placed
  <2>2. /\ DOMAIN SeenRows(h, p) = DOMAIN rows[p]
        /\ \A k \in 1..Len(rows[p]) \ {own[p].row} : SeenRows(h, p)[k] = rows[p][k]
    BY <1>4, SeenChanged
  <2>3. ASSUME NEW k \in DOMAIN rows[p], SeenRows(h, p)[k].at >= window, k # own[p].row
        PROVE  FALSE
    <3>1. rows[p][k].at >= window
      BY <1>0, <2>2, <2>3
    <3>2. k \in Since(beat[h].window, p)
      BY <1>1, <3>1 DEF Since
    <3>3. QED  BY <2>1, <2>3, <3>2
  <2>4. QED  BY <2>2, <2>3
<1>5. QED  BY <1>2, <1>3, <1>4

LEMMA VisitsCommit ==
  ASSUME Typed, Books, Visits, NEW h \in Heartbeat, Commit(h)
  PROVE  Visits'
<1>0. TypeOK /\ Position(h) /\ Booked(h) /\ InTx(h) /\ Formed(beat[h])
  BY DEF Typed, TypeOK, Books, Commit, At, InTx
<1>1. Kept(h) /\ beat'[h] = NoBeat /\ UNCHANGED <<window, split>> /\ \A p \in Post : rows'[p] = SeenRows(h, p)
  BY <1>0, EndStep DEF Commit, time
<1>2. NoBeat.at = "idle" /\ DOMAIN NoBeat.own = {}
  BY DEF NoBeat
<1>3. ASSUME NEW p \in Post, NEW i \in DOMAIN rows'[p]
      PROVE  Fair(rows'[p][i])
  <2> DEFINE own == beat[h].own
  <2>0. DOMAIN rows[p] = 1..Len(rows[p]) /\ Len(rows[p]) \in Nat
    <3>1. rows[p] \in Seq(Row)
      BY <1>0 DEF TypeOK
    <3>2. QED  BY <3>1, LenProperties
  <2>1. \A k \in 1..Len(rows[p]) : Fair(rows[p][k])
    BY <2>0 DEF Visits
  <2>2. CASE p \notin DOMAIN own
    BY <1>1, <1>3, <2>0, <2>1, <2>2, SeenUnchanged
  <2>3. CASE p \in DOMAIN own /\ own[p].row = 0
    <3>1. i \in 1..Len(rows[p]) \/ i = Len(rows[p]) + 1
      BY <1>0, <1>1, <1>3, <2>0, <2>3, SeenAdded
    <3>2. Fair(own[p].data)
      BY <2>3 DEF Visits
    <3>3. QED  BY <1>0, <1>1, <2>1, <2>3, <3>1, <3>2, SeenAdded
  <2>4. CASE p \in DOMAIN own /\ own[p].row # 0
    <3>1. i \in 1..Len(rows[p])
      BY <1>0, <1>1, <1>3, <2>0, <2>4, SeenChanged
    <3>2. Fair(own[p].data)
      BY <2>4 DEF Visits
    <3>3. QED  BY <1>0, <1>1, <2>1, <2>4, <3>1, <3>2, SeenChanged
  <2>5. QED  BY <2>2, <2>3, <2>4
<1>4. ASSUME NEW g \in Heartbeat, g # h
      PROVE  beat'[g] = beat[g] /\ PostsOf(g)' = PostsOf(g) /\ InTx(g)' = InTx(g)
  <2>1. beat'[g] = beat[g]
    BY <1>1, <1>4 DEF Kept
  <2>2. QED  BY <2>1 DEF PostsOf, InTx
<1>5. ~InTx(h)' /\ \A p \in DOMAIN beat'[h].own : FALSE
  BY <1>1, <1>2 DEF InTx
<1>6. \A g \in Heartbeat : \A p \in DOMAIN beat'[g].own : Fair(beat'[g].own[p].data)
  BY <1>4, <1>5 DEF Visits
<1>7. ASSUME NEW p \in Post \ split'
      PROVE  Apart(p)'
  <2>1. Apart(p) /\ Placed(h, p)
    BY <1>1 DEF Visits
  <2>2. \A i, j \in Since(window, p)' : i = j
    BY <1>0, <1>1, <2>1, SeenRecent DEF Since
  <2>3. \A g, k \in Heartbeat : InTx(g)' /\ InTx(k)' /\ p \in PostsOf(g)' \cap PostsOf(k)' => g = k
    BY <1>4, <1>5, <2>1 DEF Apart
  <2>4. QED  BY <2>2, <2>3 DEF Apart
<1>8. ASSUME NEW p \in Post \ split', NEW g \in Heartbeat
      PROVE  Placed(g, p)'
  <2> SUFFICES ASSUME InTx(g)' PROVE Placed(g, p)'
    BY DEF Placed
  <2>1. g # h /\ beat'[g] = beat[g] /\ InTx(g) /\ Placed(g, p) /\ Apart(p)
    BY <1>1, <1>4, <1>5 DEF Visits
  <2>2. CASE p \in PostsOf(g)
    <3>1. p \notin PostsOf(h)
      BY <1>0, <2>1, <2>2 DEF Apart
    <3>2. rows'[p] = rows[p]
      BY <1>0, <1>1, <3>1, Reported, SeenUnchanged
    <3>3. QED  BY <1>1, <2>1, <3>2 DEF Placed, At, Current, PostsOf, Since
  <2>3. CASE p \notin PostsOf(g)
    <3>1. Formed(beat[g]) /\ Position(g)
      BY <1>0 DEF Typed, TypeOK
    <3>2. p \notin DOMAIN beat[g].own /\ ~(At(g, "upsert") /\ Current(g).post = p)
      BY <2>1, <2>3, <3>1, Reported
    <3>3. QED  BY <1>1, <1>4, <2>1, <2>3, <3>2 DEF Placed, At, Current
  <2>4. QED  BY <2>2, <2>3
<1>9. QED  BY <1>3, <1>6, <1>7, <1>8 DEF Visits

LEMMA VisitsRest ==
  ASSUME Visits, UNCHANGED <<beat, rows, time, split>>
  PROVE  Visits'
BY DEF Visits, Apart, Placed, Since, InTx, At, Current, PostsOf, time
-----------------------------------------------------------------------------
(* The counters.                                                           *)

LEMMA AgreedInit == Init => Agreed
<1> SUFFICES ASSUME Init PROVE Agreed
  OBVIOUS
<1>1. \A h \in Heartbeat : ~InTx(h)
  BY DEF Init, InTx, NoBeat
<1>2. CountsAgree
  BY DEF Init, CountsAgree, Counts
<1>3. QED  BY <1>1, <1>2 DEF Agreed, Alone

(* A heartbeat outside a transaction overlaps nobody. *)
LEMMA AgreedOut ==
  ASSUME Agreed, NEW h \in Heartbeat, Kept(h), ~InTx(h)', UNCHANGED <<database, settled>>,
         crowded \ {h} \subseteq crowded'
  PROVE  Agreed'
<1>1. CountsAgree'
  BY DEF Agreed, CountsAgree, database
<1>2. ASSUME NEW g \in Heartbeat PROVE Alone(g)'
  <2>1. CASE g = h
    BY <2>1 DEF Alone
  <2>2. CASE g # h
    <3>1. beat'[g] = beat[g] /\ Alone(g) /\ (g \notin crowded' => g \notin crowded)
      BY <2>2 DEF Kept, Agreed
    <3>2. Others(g)' \subseteq Others(g)
      BY DEF Others, InTx, Kept
    <3>3. UNCHANGED <<rows, marks>>
      BY DEF database
    <3>4. QED  BY <3>1, <3>2, <3>3 DEF Alone, InTx, Counted, SeenRows
  <2>3. QED  BY <2>1, <2>2
<1>3. QED  BY <1>1, <1>2 DEF Agreed

(* A transaction that is alone goes on with what it has counted. *)
LEMMA AgreedOne ==
  ASSUME Agreed, NEW h \in Heartbeat, Kept(h), InTx(h), UNCHANGED <<database, settled, crowded>>,
         h \notin crowded /\ beat'[h].at \in {"stats", "commit"} => beat'[h].totals = Counted(h)'
  PROVE  Agreed'
<1>1. CountsAgree'
  BY DEF Agreed, CountsAgree, database
<1>2. ASSUME NEW g \in Heartbeat PROVE Alone(g)'
  <2>1. CASE g = h
    <3>1. Alone(h) /\ Others(h)' = Others(h)
      BY DEF Agreed, Others, InTx, Kept
    <3>2. QED  BY <2>1, <3>1 DEF Alone
  <2>2. CASE g # h
    <3>1. beat'[g] = beat[g] /\ Alone(g) /\ h \in Others(g)
      BY <2>2 DEF Kept, Agreed, Others
    <3>2. QED  BY <3>1 DEF Alone, InTx
  <2>3. QED  BY <2>1, <2>2
<1>3. QED  BY <1>1, <1>2 DEF Agreed

LEMMA AgreedBegin ==
  ASSUME Typed, Agreed, NEW h \in Heartbeat, Begin(h)
  PROVE  Agreed'
<1>1. Kept(h) /\ beat'[h].at \in {"mark", "look"}
  BY BeginStep DEF Typed
<1>2. UNCHANGED <<database, settled>>
      /\ crowded' = IF Others(h) = {} THEN crowded ELSE crowded \cup {h} \cup Others(h)
  BY DEF Begin
<1>3. CountsAgree'
  BY <1>2 DEF Agreed, CountsAgree, database
<1>4. ASSUME NEW g \in Heartbeat PROVE Alone(g)'
  <2>1. CASE g = h
    <3>1. Others(h)' = Others(h)
      BY <1>1 DEF Others, InTx, Kept
    <3>2. QED  BY <1>1, <1>2, <2>1, <3>1 DEF Alone
  <2>2. CASE g # h
    <3>1. beat'[g] = beat[g]
      BY <1>1, <2>2 DEF Kept
    <3>2. InTx(g) => g \in Others(h)
      BY <2>2 DEF Others
    <3>3. QED  BY <1>2, <3>1, <3>2 DEF Alone, InTx
  <2>3. QED  BY <2>1, <2>2
<1>5. QED  BY <1>3, <1>4 DEF Agreed

LEMMA AgreedWork ==
  ASSUME Typed, Books, Agreed, NEW h \in Heartbeat,
         Look(h) \/ Upsert(h) \/ \E m \in Post \cup Day : Mark(h, m)
  PROVE  Agreed'
<1>0. TypeOK /\ Position(h) /\ Formed(beat[h]) /\ Booked(h)
  BY DEF Typed, TypeOK, Books
<1>1. CASE Look(h)
  <2>1. PICK seen \in Written :
          /\ Kept(h) /\ beat[h].at = "look"
          /\ beat' = [beat EXCEPT ![h] = [beat[h] EXCEPT !.seen = seen, !.at = "upsert"]]
    BY <1>0, <1>1, LookStep
  <2>2. beat'[h].at = "upsert"
    BY <1>0, <2>1, OneBeat DEF Formed
  <2>3. QED  BY <1>1, <2>1, <2>2, AgreedOne DEF Look, InTx, ghost
<1>2. CASE Upsert(h)
  <2>1. Kept(h) /\ beat[h].at = "upsert" /\ beat'[h].at \in {"mark", "look"}
    BY <1>0, <1>2, UpsertStep
  <2>2. QED  BY <1>2, <2>1, AgreedOne DEF Upsert, InTx, ghost
<1>3. ASSUME NEW m \in Post \cup Day, Mark(h, m)
      PROVE  Agreed'
  <2>1. Kept(h) /\ beat[h].at = "mark" /\ beat'[h].at \in {"count", "mark"}
    BY <1>0, <1>3, MarkStep
  <2>2. QED  BY <1>3, <2>1, AgreedOne DEF Mark, InTx, ghost
<1>4. QED  BY <1>1, <1>2, <1>3

LEMMA AgreedCount ==
  ASSUME Typed, Agreed, NEW h \in Heartbeat, Count(h)
  PROVE  Agreed'
<1> DEFINE C == Counts({p \in Post : IsRead(SeenRows(h, p))}, marks \cup beat[h].marks)
<1>1. /\ Kept(h) /\ beat[h].at = "count" /\ beat'[h].own = beat[h].own
      /\ beat'[h].marks = beat[h].marks /\ beat'[h].totals = C
  BY CountStep DEF Typed
<1>2. UNCHANGED <<database, settled, crowded, rows, marks>> /\ InTx(h)
  BY <1>1 DEF Count, database, ghost, InTx
<1>3. Counted(h)' = [C EXCEPT !.active = C.active]
  BY <1>1, <1>2 DEF Counted, SeenRows
<1>4. [C EXCEPT !.active = C.active] = C
  BY DEF Counts
<1> HIDE DEF C
<1>5. QED  BY <1>1, <1>2, <1>3, <1>4, AgreedOne

LEMMA AgreedAddStats ==
  ASSUME Typed, Agreed, NEW h \in Heartbeat, AddStats(h)
  PROVE  Agreed'
<1> DEFINE C == Counts({p \in Post : IsRead(SeenRows(h, p))}, marks \cup beat[h].marks)
           n == stats.active + beat[h].active
<1>1. /\ Kept(h) /\ beat[h].at = "stats" /\ beat'[h].own = beat[h].own
      /\ beat'[h].marks = beat[h].marks /\ beat'[h].totals = [beat[h].totals EXCEPT !.active = n]
  BY AddStatsStep DEF Typed
<1>2. UNCHANGED <<database, settled, crowded, rows, marks>> /\ InTx(h)
  BY <1>1 DEF AddStats, database, ghost, InTx
<1>3. Counted(h)' = [C EXCEPT !.active = beat'[h].totals.active]
  BY <1>1, <1>2 DEF Counted, SeenRows
<1> HIDE DEF n
<1>4. ASSUME h \notin crowded
      PROVE  beat'[h].totals = Counted(h)'
  <2>1. beat[h].totals = [C EXCEPT !.active = beat[h].totals.active]
    BY <1>1, <1>2, <1>4 DEF Agreed, Alone, Counted
  <2>2. beat'[h].totals = [C EXCEPT !.active = n]
    BY <1>1, <2>1 DEF Counts
  <2>3. beat'[h].totals.active = n
    BY <2>2 DEF Counts
  <2>4. QED  BY <1>3, <2>2, <2>3
<1>5. QED  BY <1>1, <1>2, <1>4, AgreedOne

LEMMA AgreedCommit ==
  ASSUME Typed, Agreed, NEW h \in Heartbeat, Commit(h)
  PROVE  Agreed'
<1>1. Kept(h) /\ beat'[h].at = "idle"
  BY EndStep DEF Commit, Typed, NoBeat
<1>2. /\ rows' = [p \in Post |-> SeenRows(h, p)] /\ marks' = marks \cup beat[h].marks
      /\ stats' = beat[h].totals /\ settled' = (h \notin crowded) /\ crowded' = crowded \ {h}
      /\ beat[h].at = "commit" /\ InTx(h)
  BY DEF Commit, At, InTx
<1>3. CountsAgree'
  <2> SUFFICES ASSUME h \notin crowded PROVE CountsAgree'
    BY <1>2 DEF CountsAgree
  <2>1. beat[h].totals = Counted(h)
    BY <1>2 DEF Agreed, Alone
  <2>2. {p \in Post : IsRead(rows'[p])} = {p \in Post : IsRead(SeenRows(h, p))}
    BY <1>2
  <2>3. Counted(h) = [Counts({p \in Post : IsRead(rows'[p])}, marks') EXCEPT !.active = stats'.active]
    BY <1>2, <2>2 DEF Counted
  <2>4. QED  BY <1>2, <2>1, <2>3 DEF CountsAgree
<1>4. ASSUME NEW g \in Heartbeat PROVE Alone(g)'
  <2>1. CASE g = h
    BY <1>1, <2>1 DEF Alone, InTx
  <2>2. CASE g # h
    <3>1. beat'[g] = beat[g] /\ Alone(g) /\ h \in Others(g)
      BY <1>1, <1>2, <2>2 DEF Kept, Agreed, Others
    <3>2. QED  BY <1>2, <2>2, <3>1 DEF Alone, InTx
  <2>3. QED  BY <2>1, <2>2
<1>5. QED  BY <1>3, <1>4 DEF Agreed

LEMMA AgreedRest ==
  ASSUME Agreed, UNCHANGED <<beat, database, crowded, settled>>
  PROVE  Agreed'
<1>1. UNCHANGED <<beat, rows, marks, stats, crowded, settled>>
  BY DEF database
<1>2. CountsAgree'
  BY <1>1 DEF Agreed, CountsAgree
<1>3. ASSUME NEW h \in Heartbeat PROVE Alone(h)'
  <2>1. Alone(h) /\ InTx(h)' = InTx(h) /\ Others(h)' = Others(h)
    BY <1>1 DEF Agreed, InTx, Others
  <2>2. Counted(h)' = Counted(h)
    BY <1>1 DEF Counted, SeenRows
  <2>3. QED  BY <1>1, <2>1, <2>2 DEF Alone
<1>4. QED  BY <1>2, <1>3 DEF Agreed

LEMMA AgreedBackstop ==
  ASSUME Typed, Agreed, NEW p \in Topic, Backstop(p)
  PROVE  Agreed'
<1>1. /\ UNCHANGED <<beat, rows, stats>> /\ settled' = (settled /\ marks' = marks)
      /\ crowded' = IF marks' = marks THEN crowded ELSE crowded \cup {h \in Heartbeat : InTx(h)}
  BY DEF Backstop
<1>2. CASE marks' = marks
  <2>1. settled' = settled
    BY <1>1, <1>2 DEF Typed, TypeOK
  <2>2. QED  BY <1>1, <1>2, <2>1, AgreedRest DEF database
<1>3. CASE marks' # marks
  BY <1>1, <1>3 DEF Agreed, CountsAgree, Alone, InTx
<1>4. QED  BY <1>2, <1>3
-----------------------------------------------------------------------------
(* The invariant holds. *)

LEMMA Invariance == Spec => []IInv
<1>1. Init => IInv
  BY TypeInit, BooksInit, VisitsInit, AgreedInit DEF IInv, Typed
<1>2. ASSUME IInv, [Next]_vars
      PROVE  IInv'
  <2>0. Typed /\ Books /\ Visits /\ Agreed /\ TypeOK /\ \A h \in Heartbeat : Booked(h)
    BY <1>2 DEF IInv, Typed, Books
  <2>1. ASSUME NEW t \in Tab, NEW visible \in SUBSET Post, Tick(t, visible)
        PROVE  IInv'
    <3>1. Typed' /\ UNCHANGED <<beat, database, time, ghost>>
      BY <2>0, <2>1, BrowsingTyped
    <3>2. QED  BY <2>0, <3>1, BooksRest, VisitsRest, AgreedRest DEF IInv, database, ghost
  <2>2. ASSUME NEW t \in Tab, NEW p \in Topic, OpenTopic(t, p)
        PROVE  IInv'
    <3>1. Typed' /\ UNCHANGED <<beat, database, time, ghost>>
      BY <2>0, <2>2, BrowsingTyped
    <3>2. QED  BY <2>0, <3>1, BooksRest, VisitsRest, AgreedRest DEF IInv, database, ghost
  <2>3. ASSUME NEW t \in Tab, NEW h \in Heartbeat, SendHeartbeat(t, h)
        PROVE  IInv'
    <3>1. Typed' /\ Kept(h) /\ beat'[h].at = "sent"
      BY <2>0, <2>3, SendPosition
    <3>2. DOMAIN beat'[h].own = {}
      BY <3>1 DEF Typed, Position
    <3>3. UNCHANGED <<database, window, split, crowded, settled>> /\ UNCHANGED <<rows, stats>>
      BY <2>3 DEF SendHeartbeat, time, ghost, database
    <3>4. Books'
      BY <2>0, <3>1, <3>3, BooksNone
    <3>5. Visits'
      BY <2>0, <3>1, <3>2, <3>3, VisitsNone
    <3>6. Agreed'
      BY <2>0, <3>1, <3>3, AgreedOut DEF InTx
    <3>7. QED  BY <3>1, <3>4, <3>5, <3>6 DEF IInv
  <2>4. ASSUME NEW h \in Heartbeat, Begin(h)
        PROVE  IInv'
    BY <2>0, <2>4, BeginTyped, BooksBegin, VisitsBegin, AgreedBegin DEF IInv
  <2>5. ASSUME NEW h \in Heartbeat, Look(h)
        PROVE  IInv'
    BY <2>0, <2>5, LookTyped, BooksLook, VisitsLook, AgreedWork DEF IInv
  <2>6. ASSUME NEW h \in Heartbeat, Upsert(h)
        PROVE  IInv'
    BY <2>0, <2>6, UpsertTyped, BooksUpsert, VisitsUpsert, AgreedWork DEF IInv
  <2>7. ASSUME NEW h \in Heartbeat, NEW m \in Post \cup Day, Mark(h, m)
        PROVE  IInv'
    BY <2>0, <2>7, MarkTyped, BooksWork, VisitsWork, AgreedWork DEF IInv
  <2>8. ASSUME NEW h \in Heartbeat, Count(h)
        PROVE  IInv'
    BY <2>0, <2>8, CountTyped, BooksWork, VisitsWork, AgreedCount DEF IInv
  <2>9. ASSUME NEW h \in Heartbeat, AddStats(h)
        PROVE  IInv'
    BY <2>0, <2>9, CountTyped, BooksWork, VisitsWork, AgreedAddStats DEF IInv
  <2>10. ASSUME NEW h \in Heartbeat, Commit(h)
         PROVE  IInv'
    BY <2>0, <2>10, CommitTyped, BooksCommit, VisitsCommit, AgreedCommit DEF IInv
  <2>11. ASSUME NEW h \in Heartbeat, End(h)
         PROVE  IInv'
    <3>1. Typed' /\ Kept(h) /\ beat'[h] = NoBeat
      BY <2>0, <2>11, EndTyped
    <3>2. beat'[h].at = "idle" /\ DOMAIN beat'[h].own = {}
      BY <3>1 DEF NoBeat
    <3>3. UNCHANGED <<database, window, split, settled>> /\ crowded' = crowded \ {h} /\ UNCHANGED <<rows, stats>>
      BY <2>11 DEF End, time, database
    <3>4. Books'
      BY <2>0, <3>1, <3>2, <3>3, BooksNone
    <3>5. Visits'
      BY <2>0, <3>1, <3>2, <3>3, VisitsNone
    <3>6. Agreed'
      BY <2>0, <3>1, <3>2, <3>3, AgreedOut DEF InTx
    <3>7. QED  BY <3>1, <3>4, <3>5, <3>6 DEF IInv
  <2>12. ASSUME NEW p \in Topic, Backstop(p)
         PROVE  IInv'
    <3>1. UNCHANGED <<beat, rows, stats, time, split>>
      BY <2>12 DEF Backstop
    <3>2. QED  BY <2>0, <2>12, <3>1, BackstopTyped, BooksRest, VisitsRest, AgreedBackstop DEF IInv
  <2>13. CASE UNCHANGED vars
    <3>1. UNCHANGED <<beat, rows, stats, time, split, database, crowded, settled>>
      BY <2>13 DEF vars, database, time, ghost
    <3>2. QED  BY <2>0, <2>13, <3>1, StutterTyped, BooksRest, VisitsRest, AgreedRest DEF IInv
  <2>14. QED
    BY <1>2, <2>1, <2>2, <2>3, <2>4, <2>5, <2>6, <2>7, <2>8, <2>9, <2>10, <2>11, <2>12, <2>13
    DEF Next, Browse, Work, Lose, Fail, DetectDeadlock
<1>3. QED  BY <1>1, <1>2, PTL DEF Spec

(* Every state of the tracker is well typed: no heartbeat under way reports *)
(* more than the caps allow, and no more transactions are begun than        *)
(* heartbeats were sent.                                                    *)
THEOREM TypeCorrect == Spec => []TypeOK
<1>1. IInv => TypeOK
  BY DEF IInv, Typed
<1>2. QED  BY <1>1, Invariance, PTL

(* A visit to a post stays one row, counted as read by its seconds, unless  *)
(* two transactions that overlapped reported the post                       *)
(* (reading.go:157-162, 183-205).                                           *)
THEOREM VisitsStayOneRow == Spec => []OneRowPerVisit
<1>1. IInv => OneRowPerVisit
  <2> SUFFICES ASSUME IInv, NEW p \in Post \ split
               PROVE  /\ Cardinality(Since(window, p)) <= 1
                      /\ \A i \in DOMAIN rows[p] : rows[p][i].read <=> rows[p][i].secs >= MinSeconds
    BY DEF OneRowPerVisit, Since
  <2>1. Apart(p) /\ \A i \in DOMAIN rows[p] : Fair(rows[p][i])
    BY DEF IInv, Visits
  <2>2. CASE Since(window, p) = {}
    <3>1. Cardinality(Since(window, p)) = 0
      BY <2>2, FS_EmptySet
    <3>2. QED  BY <2>1, <3>1 DEF Fair
  <2>3. CASE Since(window, p) # {}
    <3>1. PICK i \in Since(window, p) : TRUE
      BY <2>3
    <3>2. Since(window, p) = {i}
      BY <2>1, <3>1 DEF Apart
    <3>3. Cardinality(Since(window, p)) = 1
      BY <3>2, FS_Singleton
    <3>4. QED  BY <2>1, <3>3 DEF Fair
  <2>4. QED  BY <2>2, <2>3
<1>2. QED  BY <1>1, Invariance, PTL

(* The counters agree with their tables after a heartbeat that overlapped   *)
(* nothing (reading.go:231-257).                                            *)
THEOREM CountersAlwaysAgree == Spec => []CountsAgree
<1>1. IInv => CountsAgree
  BY DEF IInv, Agreed
<1>2. QED  BY <1>1, Invariance, PTL
-----------------------------------------------------------------------------
(* The ledger: what the tabs hold, what heartbeats carry, what is recorded. *)

Held(t, i) == IF i = "active" THEN acc[t].active ELSE acc[t].secs[i]

LEMMA HeldTyped ==
  ASSUME TypeOK, NEW t \in Tab, NEW i \in Item
  PROVE  Held(t, i) \in Nat
<1>1. acc[t] \in Gathering
  BY DEF TypeOK
<1>2. i # "active" => i \in Post
  BY DEF Item
<1>3. QED  BY <1>1, <1>2 DEF Held, Gathering

LEMMA UnsentTyped ==
  ASSUME TypeOK, NEW i \in Item
  PROVE  Unsent(i) = Total([t \in Tab |-> Held(t, i)]) /\ Unsent(i) \in Nat
<1>1. Unsent(i) = Total([t \in Tab |-> Held(t, i)])
  BY DEF Unsent, Held
<1>2. [t \in Tab |-> Held(t, i)] \in [Tab -> Nat]
  BY HeldTyped
<1>3. QED  BY <1>1, <1>2, UnitsFinite, Constants

(* One tab alone changes what it holds: it gains, or lets everything go. *)
LEMMA UnsentStep ==
  ASSUME TypeOK, TypeOK', NEW t \in Tab, NEW i \in Item,
         \A u \in Tab \ {t} : acc'[u] = acc[u]
  PROVE  /\ \A d \in Nat : Held(t, i)' = Held(t, i) + d => Unsent(i)' = Unsent(i) + d
         /\ Held(t, i)' = 0 => Unsent(i) = Unsent(i)' + Held(t, i)
         /\ Unsent(i) \in Nat /\ Unsent(i)' \in Nat
<1> DEFINE f == [u \in Tab |-> Held(u, i)]
           g == [u \in Tab |-> Held(u, i)']
<1>1. f \in [Tab -> Nat] /\ Unsent(i) = Total(f)
  BY HeldTyped, UnsentTyped
<1>2. \A u \in Tab : Held(u, i)' \in Nat
  <2>1. acc' \in [Tab -> Gathering]
    BY DEF TypeOK
  <2>2. i # "active" => i \in Post
    BY DEF Item
  <2>3. QED  BY <2>1, <2>2 DEF Held, Gathering
<1>3. g \in [Tab -> Nat] /\ Unsent(i)' = Total(g)
  BY <1>2 DEF Unsent, Held
<1>4. \A u \in Tab \ {t} : g[u] = f[u]
  BY DEF Held
<1>5. f[t] = Held(t, i) /\ g[t] = Held(t, i)'
  OBVIOUS
<1> HIDE DEF f, g
<1>6. ASSUME NEW d \in Nat, Held(t, i)' = Held(t, i) + d
      PROVE  Unsent(i)' = Unsent(i) + d
  <2>1. g[t] = f[t] + d
    BY <1>5, <1>6
  <2>2. IsFiniteSet(Tab) /\ d \in Nat
    BY Constants
  <2>3. Total(g) = Total(f) + d
    BY <1>1, <1>3, <1>4, <2>1, <2>2, TotalGrows
  <2>4. QED  BY <1>1, <1>3, <2>3
<1>7. ASSUME Held(t, i)' = 0
      PROVE  Unsent(i) = Unsent(i)' + Held(t, i)
  <2>1. Held(t, i) \in Nat /\ f[t] = g[t] + Held(t, i)
    BY <1>5, <1>7, HeldTyped
  <2>2. \A u \in Tab \ {t} : f[u] = g[u]
    BY <1>4
  <2>3. QED  BY <1>1, <1>3, <2>1, <2>2, TotalGrows, Constants
<1>8. QED  BY <1>1, <1>3, <1>6, <1>7, UnitsFinite, Constants

(* Capping what is within the caps changes nothing. *)
LEMMA CapCapped ==
  ASSUME NEW s \in Seq(Report), Len(s) <= MaxPosts, \A i \in DOMAIN s : s[i].secs <= Interval
  PROVE  CapPosts(s) = s
<1>1. Len(s) \in Nat /\ DOMAIN s = 1..Len(s) /\ s = [i \in 1..Len(s) |-> s[i]]
      /\ \A i \in 1..Len(s) : s[i] \in Report
  BY LenProperties, ElementOfSeq
<1>2. ~(Len(s) > MaxPosts)
  BY <1>1, Constants
<1>3. \A i \in 1..Len(s) : [s[i] EXCEPT !.secs = IF @ > Interval THEN Interval ELSE @] = s[i]
  <2> SUFFICES ASSUME NEW i \in 1..Len(s)
               PROVE  [s[i] EXCEPT !.secs = IF @ > Interval THEN Interval ELSE @] = s[i]
    OBVIOUS
  <2>1. s[i] \in Report /\ s[i].secs \in Nat /\ s[i].secs <= Interval /\ Interval \in Nat
    BY <1>1, Constants DEF Report
  <2>2. ~(s[i].secs > Interval)
    BY <2>1
  <2>3. QED  BY <2>1, <2>2 DEF Report
<1>4. QED  BY <1>1, <1>2, <1>3 DEF CapPosts

LEMMA TxCapped ==
  ASSUME NEW h \in Heartbeat, Formed(beat[h]), InTx(h)
  PROVE  CapPosts(beat[h].posts) = beat[h].posts /\ CapActive(beat[h].active) = beat[h].active
<1>1. beat[h].posts \in Seq(Report) /\ beat[h].active \in Nat
  BY Fields
<1>2. beat[h].active <= MaxActive /\ Len(beat[h].posts) <= MaxPosts
      /\ \A i \in DOMAIN beat[h].posts : beat[h].posts[i].secs <= Interval
  BY DEF Formed, InTx
<1>3. CapActive(beat[h].active) = beat[h].active
  BY <1>1, <1>2, Constants DEF CapActive
<1>4. QED  BY <1>1, <1>2, <1>3, CapCapped

(* What a heartbeat carries for a post is what it reports of it, capped. *)
LEMMA CarriedPost ==
  ASSUME NEW b, Formed(b), NEW p \in Post,
         \A i, j \in DOMAIN b.posts : b.posts[i].post = b.posts[j].post => i = j
  PROVE  LET posts == CapPosts(b.posts) IN
         /\ (\A j \in DOMAIN posts : posts[j].post # p) => Carried(b, p) = 0
         /\ \A j \in DOMAIN posts : posts[j].post = p => Carried(b, p) = posts[j].secs
<1> DEFINE posts == CapPosts(b.posts)
           k == {j \in DOMAIN posts : posts[j].post = p}
<1>1. p # "active"
  BY Constants
<1>2. Carried(b, p) = IF k = {} THEN 0 ELSE posts[CHOOSE j \in k : TRUE].secs
  BY <1>1 DEF Carried
<1>3. \A i, j \in DOMAIN posts : posts[i].post = posts[j].post => i = j
  <2>1. b.posts \in Seq(Report) /\ Len(b.posts) \in Nat /\ DOMAIN b.posts = 1..Len(b.posts)
    BY Fields
  <2>2. /\ DOMAIN posts = 1..Len(posts) /\ Len(posts) \in 0..Len(b.posts)
        /\ \A i \in 1..Len(posts) : posts[i].post = b.posts[i].post
    BY <2>1, CapPostsTyped
  <2> HIDE DEF posts
  <2>3. \A i \in 1..Len(posts) : i \in 1..Len(b.posts)
    BY <2>1, <2>2
  <2>4. QED  BY <2>1, <2>2, <2>3
<1> HIDE DEF posts
<1>4. ASSUME NEW j \in DOMAIN posts, posts[j].post = p
      PROVE  Carried(b, p) = posts[j].secs
  <2>1. j \in k /\ (CHOOSE i \in k : TRUE) \in k
    BY <1>4
  <2>2. (CHOOSE i \in k : TRUE) = j
    BY <1>3, <1>4, <2>1
  <2>3. QED  BY <1>2, <2>1, <2>2
<1>5. QED  BY <1>2, <1>4 DEF posts

LEMMA CarriedNothing ==
  ASSUME NEW i \in Item
  PROVE  Carried(NoBeat, i) = 0
<1>1. NoBeat.active = 0 /\ NoBeat.posts = <<>>
  BY DEF NoBeat
<1>2. CapActive(0) = 0
  BY Constants DEF CapActive
<1>3. CapPosts(<<>>) = <<>>
  BY Constants DEF CapPosts
<1>4. QED  BY <1>1, <1>2, <1>3 DEF Carried

LEMMA CarriedTyped ==
  ASSUME NEW b, Formed(b), NEW i \in Item,
         \A j, k \in DOMAIN b.posts : b.posts[j].post = b.posts[k].post => j = k
  PROVE  Carried(b, i) \in Nat
<1>1. CASE i = "active"
  BY <1>1, Fields, CapActiveTyped DEF Carried
<1>2. CASE i \in Post
  <2> DEFINE posts == CapPosts(b.posts)
  <2>1. posts \in Seq(Report) /\ DOMAIN posts = 1..Len(posts)
    BY Fields, CapPostsTyped
  <2>2. \A j \in DOMAIN posts : posts[j].secs \in Nat
    <3> HIDE DEF posts
    <3>1. \A j \in 1..Len(posts) : posts[j] \in Report
      BY <2>1, ElementOfSeq
    <3>2. QED  BY <2>1, <3>1 DEF Report
  <2>3. QED  BY <1>2, <2>2, CarriedPost
<1>3. QED  BY <1>1, <1>2 DEF Item

(* What is carried is settled by what is reported, capped. *)
LEMMA CarriedKept ==
  ASSUME NEW b, NEW c, NEW i \in Item, CapPosts(b.posts) = CapPosts(c.posts),
         CapActive(b.active) = CapActive(c.active)
  PROVE  Carried(b, i) = Carried(c, i)
BY DEF Carried

LEMMA RecordedTyped ==
  ASSUME TypeOK, NEW i \in Item
  PROVE  Recorded(i) \in Nat
<1>1. CASE i = "active"
  BY <1>1 DEF Recorded, TypeOK, Totals
<1>2. CASE i \in Post
  <2> DEFINE f == [k \in DOMAIN rows[i] |-> rows[i][k].secs]
  <2>1. rows[i] \in Seq(Row)
    BY <1>2 DEF TypeOK
  <2>2. DOMAIN rows[i] = 1..Len(rows[i]) /\ Len(rows[i]) \in Nat
        /\ \A k \in 1..Len(rows[i]) : rows[i][k] \in Row
    BY <2>1, LenProperties, ElementOfSeq
  <2>3. IsFiniteSet(1..Len(rows[i]))
    BY <2>2, FS_Interval
  <2>4. f \in [1..Len(rows[i]) -> Nat]
    BY <2>2 DEF Row
  <2>5. i # "active"
    BY <1>2, Constants
  <2>6. Recorded(i) = Total(f)
    BY <2>5 DEF Recorded
  <2> HIDE DEF f
  <2>7. QED  BY <2>3, <2>4, <2>6, UnitsFinite
<1>3. QED  BY <1>1, <1>2 DEF Item

(* A commit adds what its heartbeat carries. *)
LEMMA CommitRecords ==
  ASSUME Typed, Books, NEW h \in Heartbeat, Commit(h), NEW i \in Item
  PROVE  Recorded(i)' = Recorded(i) + Carried(beat[h], i)
<1> DEFINE own == beat[h].own  posts == beat[h].posts
<1>0. TypeOK /\ Position(h) /\ Booked(h) /\ Formed(beat[h]) /\ beat[h].at = "commit" /\ InTx(h)
  BY DEF Typed, TypeOK, Books, Commit, At, InTx
<1>1. stats' = beat[h].totals /\ rows' = [p \in Post |-> SeenRows(h, p)]
  BY DEF Commit
<1>2. CapPosts(posts) = posts /\ CapActive(beat[h].active) = beat[h].active
  BY <1>0, TxCapped
<1>3. DOMAIN posts = 1..Len(posts) /\ Len(posts) \in Nat /\ \A j \in 1..Len(posts) : posts[j].secs \in Nat
  BY <1>0, Fields DEF Report
<1>4. DOMAIN own = {posts[j].post : j \in 1..Len(posts)} /\ beat[h].next - 1 = Len(posts)
  <2>1. beat[h].next \in 1..Len(posts) + 1 /\ ~(beat[h].next <= Len(posts))
    BY <1>0 DEF Position
  <2>2. beat[h].next = Len(posts) + 1
    BY <1>3, <2>1
  <2>3. beat[h].next - 1 = Len(posts)
    BY <1>3, <2>2
  <2>4. QED  BY <1>0, <2>3 DEF Position
<1>5. \A j, k \in DOMAIN posts : posts[j].post = posts[k].post => j = k
  BY <1>0 DEF Position
<1>6. CASE i = "active"
  BY <1>0, <1>1, <1>2, <1>6 DEF Recorded, Carried, Booked
<1>7. CASE i \in Post
  <2> DEFINE f == [k \in DOMAIN rows[i] |-> rows[i][k].secs]
             g == [k \in DOMAIN rows'[i] |-> rows'[i][k].secs]
             n == Len(rows[i])
  <2>1. i # "active"
    BY <1>7, Constants
  <2>2. Recorded(i) = Total(f) /\ Recorded(i)' = Total(g)
    BY <2>1 DEF Recorded
  <2>3. rows[i] \in Seq(Row) /\ rows'[i] = SeenRows(h, i)
    BY <1>0, <1>1, <1>7 DEF TypeOK
  <2>4. DOMAIN rows[i] = 1..n /\ n \in Nat /\ \A k \in 1..n : rows[i][k].secs \in Nat
    <3>1. DOMAIN rows[i] = 1..n /\ n \in Nat /\ \A k \in 1..n : rows[i][k] \in Row
      BY <2>3, LenProperties, ElementOfSeq
    <3>2. QED  BY <3>1 DEF Row
  <2>5. IsFiniteSet(1..n) /\ f \in [1..n -> Nat] /\ \A k \in 1..n : f[k] = rows[i][k].secs
    BY <2>4, FS_Interval
  <2>6. CASE i \notin DOMAIN own
    <3>1. Carried(beat[h], i) = 0
      BY <1>0, <1>2, <1>3, <1>4, <1>7, <1>5, <2>6, CarriedPost
    <3>2. g = f
      BY <2>3, <2>6, SeenUnchanged
    <3>3. Recorded(i) \in Nat
      BY <1>0, RecordedTyped
    <3> HIDE DEF f, g
    <3>4. QED  BY <2>2, <3>1, <3>2, <3>3
  <2>7. CASE i \in DOMAIN own
    <3>1. PICK j \in 1..Len(posts) : posts[j].post = i
      BY <1>4, <2>7
    <3>2. Carried(beat[h], i) = posts[j].secs /\ posts[j].secs \in Nat
      <4>1. \A m \in DOMAIN CapPosts(beat[h].posts) : CapPosts(beat[h].posts)[m].post = i =>
                Carried(beat[h], i) = CapPosts(beat[h].posts)[m].secs
        BY <1>0, <1>7, <1>5, CarriedPost
      <4>2. QED  BY <1>2, <1>3, <3>1, <4>1
    <3>3. /\ own[i].row \in 0..n
          /\ own[i].data.secs = posts[j].secs + IF own[i].row = 0 THEN 0 ELSE rows[i][own[i].row].secs
      BY <1>0, <1>4, <3>1 DEF Booked
    <3>4. CASE own[i].row = 0
      <4>1. /\ DOMAIN rows'[i] = 1..n + 1 /\ rows'[i][n + 1] = own[i].data
            /\ \A k \in 1..n : rows'[i][k] = rows[i][k]
        BY <1>0, <2>3, <2>7, <3>4, SeenAdded
      <4>2. own[i].data.secs = posts[j].secs
        BY <3>2, <3>3, <3>4
      <4>3. 1..n + 1 = 1..n \cup {n + 1} /\ n + 1 \notin 1..n
        BY <2>4
      <4>4. DOMAIN g = 1..n \cup {n + 1} /\ g[n + 1] = posts[j].secs /\ \A k \in 1..n : g[k] = f[k]
        BY <2>5, <4>1, <4>2, <4>3
      <4> HIDE DEF f, g, n
      <4>5. g[n + 1] \in Nat
        BY <3>2, <4>4
      <4>6. Total(g) = Total(f) + g[n + 1]
        <5>1. n \in Nat /\ DOMAIN g = 1..n + 1 /\ \A m \in 1..n : g[m] = f[m]
          BY <2>4, <4>3, <4>4
        <5> HIDE DEF n
        <5>2. QED  BY <2>5, <4>5, <5>1, TotalAppended
      <4>7. QED  BY <2>2, <3>2, <4>4, <4>6
    <3>5. CASE own[i].row # 0
      <4> DEFINE k == own[i].row
      <4>1. /\ k \in 1..n /\ DOMAIN rows'[i] = 1..n /\ rows'[i][k] = own[i].data
            /\ \A m \in 1..n \ {k} : rows'[i][m] = rows[i][m]
        BY <1>0, <2>3, <2>4, <2>7, <3>5, SeenChanged
      <4>2. own[i].data.secs = posts[j].secs + rows[i][k].secs /\ rows[i][k].secs \in Nat
        BY <2>4, <3>3, <3>5, <4>1
      <4>3. g \in [1..n -> Nat] /\ g[k] = f[k] + posts[j].secs /\ \A m \in 1..n \ {k} : g[m] = f[m]
        <5>1. g[k] = posts[j].secs + rows[i][k].secs /\ f[k] = rows[i][k].secs
          BY <2>5, <4>1, <4>2
        <5>2. \A m \in 1..n \ {k} : g[m] = f[m]
          BY <2>5, <4>1
        <5>3. DOMAIN g = 1..n /\ \A m \in 1..n : g[m] \in Nat
          <6>1. g[k] \in Nat
            BY <3>2, <4>2, <5>1
          <6>2. \A m \in 1..n \ {k} : g[m] \in Nat
            BY <2>5, <5>2
          <6>3. QED  BY <4>1, <6>1, <6>2
        <5>4. g[k] = f[k] + posts[j].secs
          BY <3>2, <4>2, <5>1
        <5>5. g = [m \in 1..n |-> g[m]]
          BY <4>1
        <5> HIDE DEF f, g
        <5>6. QED  BY <5>2, <5>3, <5>4, <5>5
      <4> DEFINE d == posts[j].secs
      <4>4. d \in Nat /\ g[k] = f[k] + d
        BY <3>2, <4>3
      <4> HIDE DEF f, g, k, n, d
      <4>5. Total(g) = Total(f) + d
        <5> DEFINE S == 1..n
        <5>1. /\ IsFiniteSet(S) /\ f \in [S -> Nat] /\ g \in [S -> Nat] /\ k \in S
              /\ \A y \in S \ {k} : g[y] = f[y]
          BY <2>5, <4>1, <4>3
        <5> HIDE DEF S
        <5>2. QED  BY <4>4, <5>1, TotalGrows
      <4>6. QED  BY <2>2, <3>2, <4>5 DEF d
    <3>6. QED  BY <3>4, <3>5
  <2>8. QED  BY <2>6, <2>7
<1>8. QED  BY <1>6, <1>7 DEF Item

(* What a heartbeat is sent with, capped, is no more than the tab let go. *)
LEMMA SendCarries ==
  ASSUME Typed, NEW t \in Tab, NEW h \in Heartbeat, SendHeartbeat(t, h), NEW i \in Item
  PROVE  Carried(beat'[h], i) + Unsent(i)' <= Unsent(i)
<1>0. TypeOK /\ TypeOK' /\ Kept(h) /\ beat[h] = NoBeat /\ Formed(beat'[h]) /\ Position(h)'
  BY SendPosition DEF Typed, TypeOK
<1>1. PICK posts \in Reports(t) :
        beat' = [beat EXCEPT ![h] = [NoBeat EXCEPT !.at = "sent", !.active = acc[t].active,
                                                   !.posts = posts, !.todo = acc[t].topics]]
  BY DEF SendHeartbeat
<1>2. beat'[h].posts = posts /\ beat'[h].active = acc[t].active
  <2>1. beat'[h] = [NoBeat EXCEPT !.at = "sent", !.active = acc[t].active,
                                  !.posts = posts, !.todo = acc[t].topics]
    BY <1>0, <1>1, OneBeat
  <2>2. QED  BY <2>1 DEF NoBeat
<1>3. acc' = [acc EXCEPT ![t] = Gathered]
  BY DEF SendHeartbeat
<1>4. Held(t, i)' = 0 /\ \A u \in Tab \ {t} : acc'[u] = acc[u]
  <2>1. acc'[t] = Gathered /\ \A u \in Tab \ {t} : acc'[u] = acc[u]
    BY <1>0, <1>3 DEF TypeOK
  <2>2. QED  BY <2>1 DEF Held, Gathered, Item
<1>5. Unsent(i) = Unsent(i)' + Held(t, i) /\ Unsent(i)' \in Nat /\ Held(t, i) \in Nat
  BY <1>0, <1>4, UnsentStep, HeldTyped
<1>6. \A j, k \in DOMAIN posts : posts[j].post = posts[k].post => j = k
  BY <1>0, <1>2 DEF Position
<1>7. Carried(beat'[h], i) \in Nat
  BY <1>0, <1>2, <1>6, CarriedTyped
<1>8. Carried(beat'[h], i) <= Held(t, i)
  <2>1. CASE i = "active"
    <3>1. acc[t].active \in Nat
      BY <1>5, <2>1 DEF Held
    <3>2. QED  BY <1>2, <2>1, <3>1, CapActiveTyped DEF Carried, Held
  <2>2. CASE i \in Post
    <3> DEFINE c == CapPosts(posts)
    <3>1. posts \in Seq(Report) /\ DOMAIN posts = 1..Len(posts) /\ Len(posts) \in Nat
      BY <1>0, <1>2, Fields
    <3>2. /\ DOMAIN c = 1..Len(c) /\ Len(c) \in 0..Len(posts)
          /\ \A j \in 1..Len(c) : c[j].secs <= posts[j].secs /\ c[j].post = posts[j].post
      BY <3>1, CapPostsTyped
    <3>3. \A j \in DOMAIN posts : posts[j].secs = acc[t].secs[posts[j].post]
      BY <1>0, <1>1, ReportsTyped
    <3>4. Held(t, i) = acc[t].secs[i]
      BY <2>2, Constants DEF Held
    <3>5. /\ (\A j \in DOMAIN c : c[j].post # i) => Carried(beat'[h], i) = 0
          /\ \A j \in DOMAIN c : c[j].post = i => Carried(beat'[h], i) = c[j].secs
      BY <1>0, <1>2, <1>6, <2>2, CarriedPost
    <3> HIDE DEF c
    <3>6. CASE \A j \in DOMAIN c : c[j].post # i
      BY <1>5, <3>5, <3>6
    <3>7. ASSUME NEW j \in DOMAIN c, c[j].post = i
          PROVE  Carried(beat'[h], i) <= Held(t, i)
      <4>1. j \in DOMAIN posts
        BY <3>1, <3>2
      <4>2. QED  BY <3>2, <3>3, <3>4, <3>5, <3>7, <4>1
    <3>8. QED  BY <3>6, <3>7
  <2>3. QED  BY <2>1, <2>2 DEF Item
<1>9. QED  BY <1>5, <1>7, <1>8

(* The steps of the tracker as steps of its ledger. *)
LEMMA LedgerStutters ==
  ASSUME UNCHANGED <<acc, rows, stats>>, beat = [h \in Heartbeat |-> beat[h]],
         \A h \in Heartbeat : \A i \in Item : Carried(beat'[h], i) = Carried(beat[h], i)
  PROVE  UNCHANGED Ledger!vars
<1>1. \A i \in Item : Unsent(i)' = Unsent(i) /\ Recorded(i)' = Recorded(i)
  BY DEF Unsent, Recorded
<1>2. QED  BY <1>1 DEF Ledger!vars

LEMMA LedgerTicks ==
  ASSUME Typed, Typed', NEW t \in Tab, NEW visible \in SUBSET Post, Tick(t, visible)
  PROVE  Ledger!Tick
<1>0. TypeOK /\ TypeOK' /\ acc[t] \in Gathering
  BY DEF Typed, TypeOK
<1>1. \A u \in Tab \ {t} : acc'[u] = acc[u]
  BY <1>0 DEF Tick, TypeOK
<1>2. \A i \in Item : Held(t, i)' \in {Held(t, i), Held(t, i) + 1}
  <2> DEFINE secs == [p \in Post |-> IF p \in visible THEN acc[t].secs[p] + 1 ELSE acc[t].secs[p]]
  <2>1. acc' = [acc EXCEPT ![t].active = @ + 1, ![t].secs = secs]
    BY <1>0 DEF Tick, TypeOK
  <2>2. \A p \in Post : secs[p] \in {acc[t].secs[p], acc[t].secs[p] + 1}
    OBVIOUS
  <2> HIDE DEF secs
  <2>3. acc'[t].active = acc[t].active + 1 /\ acc'[t].secs = secs
    BY <1>0, <2>1 DEF TypeOK, Gathering
  <2>4. QED  BY <2>2, <2>3 DEF Held, Item
<1>3. ASSUME NEW i \in Item
      PROVE  Unsent(i)' \in {Unsent(i), Unsent(i) + 1}
  <2>1. Held(t, i) \in Nat
    BY <1>0, HeldTyped
  <2>2. Held(t, i)' = Held(t, i) + 0 \/ Held(t, i)' = Held(t, i) + 1
    BY <1>2, <2>1
  <2>3. 0 \in Nat /\ 1 \in Nat /\ Unsent(i) \in Nat
    BY <1>0, UnsentTyped
  <2>4. Unsent(i)' = Unsent(i) + 0 \/ Unsent(i)' = Unsent(i) + 1
    BY <1>0, <1>1, <2>2, <2>3, UnsentStep
  <2>5. QED  BY <2>3, <2>4
<1>4. UNCHANGED <<beat, rows, stats>>
  BY DEF Tick, database
<1>5. \A i \in Item : Recorded(i)' = Recorded(i)
  BY <1>4 DEF Recorded
<1>6. QED  BY <1>3, <1>4, <1>5 DEF Ledger!Tick

LEMMA LedgerSends ==
  ASSUME Typed, NEW t \in Tab, NEW h \in Heartbeat, SendHeartbeat(t, h)
  PROVE  Ledger!Send(h)
<1>1. Kept(h) /\ beat[h] = NoBeat /\ UNCHANGED <<rows, stats>>
  BY SendPosition DEF SendHeartbeat, database
<1>2. \A i \in Item : Carried(beat[h], i) = 0
  BY <1>1, CarriedNothing
<1>3. \A i \in Item : Carried(beat'[h], i) + Unsent(i)' <= Unsent(i)
  BY SendCarries
<1>4. \A g \in Heartbeat \ {h} : beat'[g] = beat[g]
  BY <1>1 DEF Kept
<1>5. \A i \in Item : Recorded(i)' = Recorded(i)
  BY <1>1 DEF Recorded
<1>6. QED  BY <1>2, <1>3, <1>4, <1>5 DEF Ledger!Send, Ledger!Nothing

(* A heartbeat that is over carries nothing. *)
LEMMA LedgerEmpties ==
  ASSUME NEW h \in Heartbeat, Kept(h), beat'[h] = NoBeat
  PROVE  [g \in Heartbeat |-> [i \in Item |-> Carried(beat'[g], i)]]
            = [[g \in Heartbeat |-> [i \in Item |-> Carried(beat[g], i)]] EXCEPT ![h] = Ledger!Nothing]
<1>1. \A i \in Item : Carried(beat'[h], i) = 0
  BY CarriedNothing
<1>2. \A g \in Heartbeat \ {h} : beat'[g] = beat[g]
  BY DEF Kept
<1>3. [i \in Item |-> Carried(beat'[h], i)] = Ledger!Nothing
  BY <1>1 DEF Ledger!Nothing
<1>4. QED  BY <1>2, <1>3

LEMMA LedgerRecords ==
  ASSUME Typed, Books, NEW h \in Heartbeat, Commit(h)
  PROVE  Ledger!Record(h)
<1>1. Kept(h) /\ beat'[h] = NoBeat /\ UNCHANGED acc
  BY EndStep DEF Typed, Commit, tabs
<1>2. \A i \in Item : Recorded(i)' = Recorded(i) + Carried(beat[h], i)
  BY CommitRecords
<1>3. \A i \in Item : Unsent(i)' = Unsent(i)
  BY <1>1 DEF Unsent
<1>4. QED  BY <1>1, <1>2, <1>3, LedgerEmpties DEF Ledger!Record

LEMMA LedgerDrops ==
  ASSUME Typed, NEW h \in Heartbeat, End(h)
  PROVE  Ledger!Drop(h)
<1>1. Kept(h) /\ beat'[h] = NoBeat /\ UNCHANGED <<acc, rows, stats>>
  BY EndTyped DEF End, tabs, database
<1>2. \A i \in Item : Unsent(i)' = Unsent(i) /\ Recorded(i)' = Recorded(i)
  BY <1>1 DEF Unsent, Recorded
<1>3. QED  BY <1>1, <1>2, LedgerEmpties DEF Ledger!Drop

(* The steps of a transaction before its commit. *)
LEMMA LedgerWaits ==
  ASSUME Typed, Books, NEW h \in Heartbeat,
         Begin(h) \/ Look(h) \/ Upsert(h) \/ (\E m \in Post \cup Day : Mark(h, m)) \/ Count(h) \/ AddStats(h)
  PROVE  UNCHANGED Ledger!vars
<1>0. TypeOK /\ Position(h) /\ Formed(beat[h]) /\ Booked(h) /\ beat = [g \in Heartbeat |-> beat[g]]
  BY DEF Typed, TypeOK, Books
<1>1. Kept(h) /\ CapPosts(beat'[h].posts) = CapPosts(beat[h].posts)
      /\ CapActive(beat'[h].active) = CapActive(beat[h].active)
  <2>1. CASE Begin(h)
    <3>1. Kept(h) /\ beat'[h].posts = CapPosts(beat[h].posts) /\ beat'[h].active = CapActive(beat[h].active)
      BY <1>0, <2>1, BeginStep
    <3> DEFINE c == CapPosts(beat[h].posts)  n == CapActive(beat[h].active)
    <3>2. c \in Seq(Report) /\ Len(c) <= MaxPosts /\ DOMAIN c = 1..Len(c)
          /\ \A i \in 1..Len(c) : c[i].secs <= Interval
      BY <1>0, Fields, CapPostsTyped
    <3>3. CapPosts(c) = c
      <4> HIDE DEF c
      <4>1. QED  BY <3>2, CapCapped
    <3>4. n \in Nat /\ n <= MaxActive
      BY <1>0, Fields, CapActiveTyped
    <3>5. CapActive(n) = n
      <4> HIDE DEF n
      <4>1. QED  BY <3>4, Constants DEF CapActive
    <3>6. QED  BY <3>1, <3>3, <3>5
  <2>2. CASE Look(h)
    <3>1. PICK seen \in Written :
            Kept(h) /\ beat' = [beat EXCEPT ![h] = [beat[h] EXCEPT !.seen = seen, !.at = "upsert"]]
      BY <1>0, <2>2, LookStep
    <3>2. beat'[h].posts = beat[h].posts /\ beat'[h].active = beat[h].active
      BY <1>0, <3>1, OneBeat DEF Formed
    <3>3. QED  BY <3>1, <3>2
  <2>3. CASE Upsert(h)
    BY <1>0, <2>3, UpsertStep
  <2>4. CASE \E m \in Post \cup Day : Mark(h, m)
    BY <1>0, <2>4, MarkStep
  <2>5. CASE Count(h)
    BY <1>0, <2>5, CountStep
  <2>6. CASE AddStats(h)
    BY <1>0, <2>6, AddStatsStep
  <2>7. QED  BY <2>1, <2>2, <2>3, <2>4, <2>5, <2>6
<1>2. \A g \in Heartbeat : \A i \in Item : Carried(beat'[g], i) = Carried(beat[g], i)
  <2>1. \A i \in Item : Carried(beat'[h], i) = Carried(beat[h], i)
    BY <1>1, CarriedKept
  <2>2. QED  BY <1>1, <2>1 DEF Kept
<1>3. UNCHANGED <<acc, rows, stats>>
  BY DEF Begin, Look, Upsert, Mark, Count, AddStats, tabs, database
<1>4. QED  BY <1>0, <1>2, <1>3, LedgerStutters

LEMMA LedgerInit == Init => Ledger!Init
<1> SUFFICES ASSUME Init PROVE Ledger!Init
  OBVIOUS
<1>0. TypeOK /\ \A h \in Heartbeat : beat[h] = NoBeat
  BY TypeInit DEF Init
<1>1. ASSUME NEW i \in Item PROVE Unsent(i) = 0
  <2>1. \A t \in Tab : Held(t, i) = 0
    BY DEF Init, Held, Gathered, Item
  <2>2. Total([t \in Tab |-> Held(t, i)]) = 0
    BY <2>1, TotalOfNothing
  <2>3. QED  BY <1>0, <2>2, UnsentTyped
<1>2. \A h \in Heartbeat : \A i \in Item : Carried(beat[h], i) = 0
  BY <1>0, CarriedNothing
<1>3. \A i \in Item : Recorded(i) \in Nat
  BY <1>0, RecordedTyped
<1>4. QED  BY <1>1, <1>2, <1>3 DEF Ledger!Init, Ledger!Nothing

(* The tracker implements its ledger: every second is in one place, and a   *)
(* heartbeat is recorded whole and once, up to the caps, or dropped whole,  *)
(* whatever it overlaps (reading.go:173-264, golab.js:2665-2716).           *)
THEOREM TrackerKeepsLedger == Spec => LedgerSpec
<1>1. ASSUME IInv, IInv', [Next]_vars
      PROVE  [Ledger!Next]_(Ledger!vars)
  <2>0. Typed /\ Typed' /\ Books /\ TypeOK /\ TypeOK' /\ beat = [h \in Heartbeat |-> beat[h]]
    BY <1>1 DEF IInv, Typed, TypeOK
  <2>1. ASSUME NEW t \in Tab, NEW visible \in SUBSET Post, Tick(t, visible)
        PROVE  Ledger!Next
    BY <2>0, <2>1, LedgerTicks DEF Ledger!Next
  <2>2. ASSUME NEW t \in Tab, NEW p \in Topic, OpenTopic(t, p)
        PROVE  UNCHANGED Ledger!vars
    <3>1. UNCHANGED <<beat, rows, stats>> /\ acc' = [acc EXCEPT ![t].topics = @ \cup {p}]
      BY <2>2 DEF OpenTopic, database
    <3>2. \A u \in Tab : acc'[u].active = acc[u].active /\ acc'[u].secs = acc[u].secs
      BY <2>0, <3>1 DEF TypeOK, Gathering
    <3>3. \A i \in Item : Unsent(i)' = Unsent(i) /\ Recorded(i)' = Recorded(i)
      BY <3>1, <3>2 DEF Unsent, Recorded
    <3>4. QED  BY <3>1, <3>3 DEF Ledger!vars
  <2>3. ASSUME NEW t \in Tab, NEW h \in Heartbeat, SendHeartbeat(t, h)
        PROVE  Ledger!Next
    BY <2>0, <2>3, LedgerSends DEF Ledger!Next
  <2>4. ASSUME NEW h \in Heartbeat,
               Begin(h) \/ Look(h) \/ Upsert(h) \/ (\E m \in Post \cup Day : Mark(h, m))
                   \/ Count(h) \/ AddStats(h)
        PROVE  UNCHANGED Ledger!vars
    BY <2>0, <2>4, LedgerWaits
  <2>5. ASSUME NEW h \in Heartbeat, Commit(h)
        PROVE  Ledger!Next
    BY <2>0, <2>5, LedgerRecords DEF Ledger!Next
  <2>6. ASSUME NEW h \in Heartbeat, End(h)
        PROVE  Ledger!Next
    BY <2>0, <2>6, LedgerDrops DEF Ledger!Next
  <2>7. ASSUME NEW p \in Topic, Backstop(p)
        PROVE  UNCHANGED Ledger!vars
    <3>1. UNCHANGED <<acc, rows, stats>> /\ beat' = beat
      BY <2>7 DEF Backstop, tabs
    <3>2. QED  BY <2>0, <3>1, LedgerStutters
  <2>8. CASE UNCHANGED vars
    <3>1. UNCHANGED <<acc, rows, stats>> /\ beat' = beat
      BY <2>8 DEF vars, tabs, database
    <3>2. QED  BY <2>0, <3>1, LedgerStutters
  <2>9. QED
    BY <1>1, <2>1, <2>2, <2>3, <2>4, <2>5, <2>6, <2>7, <2>8
    DEF Next, Browse, Work, Lose, Fail, DetectDeadlock
<1>2. QED  BY <1>1, LedgerInit, Invariance, PTL DEF Spec, LedgerSpec, Ledger!Spec
=============================================================================
