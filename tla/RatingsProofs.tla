--------------------------- MODULE RatingsProofs ---------------------------
(***************************************************************************)
(* Proofs about Ratings.  CardsSettle is not inductive: what a page is     *)
(* sure of grows with the answers of its calls, so the invariant below     *)
(* says what each unfinished call may still teach its page, and that no    *)
(* other unfinished call touches the same thing.                           *)
(***************************************************************************)
EXTENDS Ratings, TLAPS

(* A call belongs to an open page, and its values fit its column. *)
Sound(k) ==
    /\ call[k].tab \in open
    /\ call[k].value \in Value(call[k].column) /\ call[k].prev \in Value(call[k].column)
    /\ call[k].alone \subseteq Touched(call[k].column)
    /\ call[k].step \in {"answered", "refused"} => call[k].heard

(* While it is unfinished its page is sure of nothing that it touches, and *)
(* what it has to itself no other unfinished call touches.                 *)
Exclusive(k) ==
    /\ sure[call[k].tab] \cap Touched(call[k].column) = {}
    /\ \A j \in Call \ {k} : Unfinished(j) =>
           call[k].alone \cap Touched(call[j].column) = {}

(* A value it has written alone is still in the row, its page shows what   *)
(* it was asked to save, and the summary it brings is that of the row.     *)
Saves(k) ==
    LET c == call[k].column  t == call[k].tab IN
    /\ c \in call[k].alone =>
        /\ call[k].step \in {"written", "answered"} => row[c] = Stored(c, call[k].value)
        /\ IF c = "notes" THEN t \notin typing => shown[t][c] = call[k].value
           ELSE call[k].heard => shown[t][c] = call[k].value
    /\ call[k].step = "answered" /\ "summary" \in call[k].alone => call[k].body = Summary(row)

(* Before it has written, what it would roll back to is in the row.        *)
RollsBack(k) ==
    LET c == call[k].column  both == call[k].alone \cap call[k].before IN
    call[k].step \in {"sent", "refused"} =>
        /\ c \in both /\ c # "notes" => call[k].prev = row[c]
        /\ "summary" \in both => summary[call[k].tab] = Summary(row)

CallInv(k) == Unfinished(k) => Sound(k) /\ Exclusive(k) /\ Saves(k) /\ RollsBack(k)

(* A page that is not loaded is sure of nothing, but for what it queried;    *)
(* that, and what an open page is sure of, is what the row has.             *)
Unloaded == \A t \in Tab \ (loading \cup open) : sure[t] = {}
Known ==
    \A t \in Tab :
        /\ \A c \in Column \cap sure[t] : Stored(c, shown[t][c]) = row[c]
        /\ "summary" \in sure[t] => summary[t] = Summary(row)

IInv == TypeOK /\ Known /\ Unloaded /\ \A k \in Call : CallInv(k)
-----------------------------------------------------------------------------
(* What the operators of the model return. *)

LEMMA SummaryIsSum ==
    ASSUME NEW f \in Rating
    PROVE  Summary(f) \in Sums
<1>1. Dimensions(f) \in [Dim -> 0..MaxStar]
  <2>1. ASSUME NEW d \in Dim
        PROVE  f[d] \in 0..MaxStar
    BY <2>1, RatingsAssumption DEF Rating, Column, Value
  <2>2. QED  BY <2>1 DEF Dimensions
<1>2. QED  BY <1>1 DEF Summary, Sums

(* Notes do not count. *)
LEMMA NotesDoNotCount ==
    ASSUME NEW f \in Rating, NEW v
    PROVE  Summary([f EXCEPT !["notes"] = v]) = Summary(f)
<1>1. Dimensions([f EXCEPT !["notes"] = v]) = Dimensions(f)
  BY RatingsAssumption DEF Dimensions, Rating, Column
<1>2. QED  BY <1>1 DEF Summary

(* A value that fits a column, trimmed, fits the row. *)
LEMMA RatingWrite ==
    ASSUME NEW f \in Rating, NEW c \in Column, NEW v \in Value(c)
    PROVE  /\ [f EXCEPT ![c] = v] \in Rating
           /\ [f EXCEPT ![c] = Stored(c, v)] \in Rating
           /\ c = "notes" => Stored(c, v) # 2
           /\ c # "notes" => Stored(c, v) = v
<1>1. v \in Entry /\ Stored(c, v) \in Entry /\ Stored(c, v) \in Value(c)
  BY RatingsAssumption DEF Entry, Value, Stored
<1>2. QED  BY <1>1 DEF Rating, Stored

LEMMA NothingIsRating == Nothing \in Rating /\ Nothing["notes"] = 0
<1>1. 0 \in Entry /\ \A c \in Column : 0 \in Value(c)
  BY RatingsAssumption DEF Entry, Value
<1>2. QED  BY <1>1 DEF Nothing, Rating, Column

LEMMA NoFetchIsFetch ==
    ASSUME NEW step \in Step
    PROVE  NoFetch(step) \in Fetch
<1>1. 0 \in Entry /\ "notes" \in Column /\ NoSummary \in Sums /\ TRUE \in BOOLEAN
  BY RatingsAssumption DEF Entry, Column, Sums
<1>2. QED  BY <1>1 DEF NoFetch, Fetch

LEMMA TouchedParts == \A c \in Column : Touched(c) \subseteq Part
BY DEF Touched, Part

(* A step of the handler changes only its call, or ends it. *)
LEMMA BecomesOne ==
    ASSUME call \in [Call -> Fetch], NEW k \in Call, NEW new \in Fetch, Becomes(k, new)
    PROVE  /\ call' \in [Call -> Fetch]
           /\ \A j \in Call \ {k} : call'[j] = call[j]
           /\ \/ call'[k] = NoFetch("done")
              \/ /\ call'[k] = new
                 /\ new.step \in {"answered", "refused"} => new.heard
<1>1. NoFetch("done") \in Fetch
  BY NoFetchIsFetch DEF Step
<1>2. QED  BY <1>1 DEF Becomes

LEMMA NoFetchIsOver ==
    ASSUME NEW k \in Call, NEW step \in {"unused", "done"}, call'[k] = NoFetch(step)
    PROVE  CallInv(k)'
BY DEF CallInv, Unfinished, NoFetch

LEMMA InitInv == Init => IInv
<1> SUFFICES ASSUME Init
             PROVE  IInv
  OBVIOUS
<1>1. TypeOK
  BY NothingIsRating, NoFetchIsFetch DEF Init, TypeOK, Sums, Step
<1>2. Known
  BY DEF Init, Known
<1>3. ASSUME NEW k \in Call
      PROVE  CallInv(k)
  BY DEF Init, CallInv, Unfinished, NoFetch
<1>4. QED  BY <1>1, <1>2, <1>3 DEF IInv, Init, Unloaded
-----------------------------------------------------------------------------
(* The steps of a page. *)

(* A page that is loaded has no call under way, and is sure of what it     *)
(* queried.                                                                *)
LEMMA QueryInv ==
    ASSUME IInv, NEW t \in Tab, Query(t)
    PROVE  IInv'
<1> USE DEF IInv
<1>1. /\ t \notin open /\ loading' = loading \cup {t} /\ UNCHANGED <<row, reviewer, open, typing, call>>
      /\ \/ UNCHANGED <<shown, summary, sure>>
         \/ /\ shown' = [shown EXCEPT ![t] = row] /\ summary' = [summary EXCEPT ![t] = Summary(row)]
            /\ sure' = [sure EXCEPT ![t] = Part]
  BY DEF Query, Attach
<1>2. TypeOK'
  BY <1>1, SummaryIsSum DEF TypeOK
<1>3. \A c \in Column : Stored(c, row[c]) = row[c]
  BY DEF TypeOK, Stored
<1>4. Known' /\ Unloaded'
  BY <1>1, <1>3 DEF Known, Unloaded, TypeOK
<1>5. ASSUME NEW k \in Call
      PROVE  CallInv(k)'
  BY <1>1 DEF CallInv, Unfinished, Sound, Exclusive, Saves, RollsBack, TypeOK
<1>6. QED  BY <1>2, <1>4, <1>5

LEMMA OpenInv ==
    ASSUME IInv, NEW t \in Tab, Open(t)
    PROVE  IInv'
<1> USE DEF IInv
<1>1. /\ t \in loading /\ loading' = loading \ {t} /\ open' = open \cup {t}
      /\ UNCHANGED <<row, reviewer, shown, summary, typing, call, sure>>
  BY DEF Open
<1>2. TypeOK' /\ Known' /\ Unloaded'
  BY <1>1 DEF TypeOK, Known, Unloaded
<1>3. ASSUME NEW k \in Call
      PROVE  CallInv(k)'
  BY <1>1 DEF CallInv, Unfinished, Sound, Exclusive, Saves, RollsBack
<1>4. QED  BY <1>2, <1>3

(* What another call of its page touches is no longer a call's alone, and  *)
(* the new call has what nobody else touches.                              *)
LEMMA SendInv ==
    ASSUME IInv, NEW t \in open, NEW c \in Column, NEW value \in Value(c),
           Send(t, c, value, IF c = "notes" THEN value ELSE shown[t][c]),
           shown' = [shown EXCEPT ![t][c] = value],
           typing' = IF c = "notes" THEN typing \ {t} ELSE typing,
           UNCHANGED <<row, reviewer, loading, open, summary>>
    PROVE  IInv'
<1> USE DEF IInv
<1> DEFINE slot == Min(Free)
           others == UNION {Touched(call[k].column) : k \in InFlight}
           prev == IF c = "notes" THEN value ELSE shown[t][c]
           new == [tab |-> t, column |-> c, value |-> value, prev |-> prev, step |-> "sent",
                   heard |-> TRUE, body |-> NoSummary, alone |-> Touched(c) \ others,
                   before |-> sure[t] \cap Touched(c)]
<1>1. /\ call' = [k \in Call |-> IF k = slot THEN new
                                 ELSE IF Unfinished(k)
                                      THEN [call[k] EXCEPT !.alone = @ \ Touched(c)] ELSE call[k]]
      /\ sure' = [sure EXCEPT ![t] = @ \ Touched(c)]
  BY Zenon DEF Send
<1>2. /\ t \in Tab /\ shown[t] \in Rating /\ sure[t] \subseteq Part
      /\ prev \in Value(c) /\ prev \in Entry /\ value \in Entry
      /\ Touched(c) \subseteq Part
  BY TouchedParts, RatingsAssumption DEF TypeOK, Rating, Value, Entry
<1>3. new \in Fetch
  BY <1>2 DEF Fetch, Sums, Step
<1>4. call' \in [Call -> Fetch]
  <2>1. ASSUME NEW k \in Call
        PROVE  [call[k] EXCEPT !.alone = @ \ Touched(c)] \in Fetch
    BY DEF TypeOK, Fetch
  <2>2. QED  BY <1>1, <1>3, <2>1 DEF TypeOK
<1> HIDE DEF slot, new
<1>5. TypeOK'
  <2>1. [shown[t] EXCEPT ![c] = value] \in Rating
    BY <1>2, RatingWrite
  <2>2. QED  BY <1>1, <1>2, <1>4, <2>1 DEF TypeOK
<1>6. Known' /\ Unloaded'
  <2>1. Unloaded'
    BY <1>1, <1>2 DEF TypeOK, Unloaded
  <2>2. QED
    BY <2>1, <1>1, <1>2, RatingsAssumption DEF Known, TypeOK, Touched, Column, Part, Rating
<1>7. ASSUME NEW k \in Call, Unfinished(k)'
      PROVE  (Sound(k) /\ Exclusive(k) /\ Saves(k) /\ RollsBack(k))'
  <2>1. \A j \in Call : Unfinished(j) => Touched(call[j].column) \subseteq others
    BY DEF InFlight
  <2>2. ASSUME NEW j \in Call, j # slot
        PROVE  /\ call'[j].tab = call[j].tab /\ call'[j].column = call[j].column
               /\ call'[j].value = call[j].value /\ call'[j].prev = call[j].prev
               /\ call'[j].step = call[j].step /\ call'[j].heard = call[j].heard
               /\ call'[j].body = call[j].body /\ call'[j].before = call[j].before
               /\ call'[j].alone \subseteq call[j].alone
               /\ Unfinished(j) => call'[j].alone = call[j].alone \ Touched(c)
               /\ Unfinished(j)' <=> Unfinished(j)
    BY <1>1, <2>2 DEF TypeOK, Fetch, Unfinished
  <2> HIDE DEF others
  <2>3. CASE k = slot
    <3>1. /\ call'[k] = new /\ new.tab = t /\ new.column = c /\ new.value = value
          /\ new.prev = prev /\ new.step = "sent" /\ new.heard = TRUE
          /\ new.alone = Touched(c) \ others /\ new.before = sure[t] \cap Touched(c)
      BY <1>1, <2>3 DEF new
    <3>2. Sound(k)'
      BY <1>2, <3>1 DEF Sound
    <3>3. Exclusive(k)'
      BY <1>1, <1>2, <2>1, <2>2, <2>3, <3>1 DEF Exclusive, TypeOK
    <3>4. Saves(k)'
      BY <1>1, <1>2, <3>1 DEF Saves, TypeOK, Rating
    <3>5. RollsBack(k)'
      <4>1. ASSUME c # "notes", c \in sure[t]
            PROVE  prev = row[c]
        BY <1>2, <4>1 DEF Known, Stored
      <4>2. "summary" \in sure[t] => summary[t] = Summary(row)
        BY <1>2 DEF Known
      <4>3. QED
        BY <3>1, <4>1, <4>2 DEF RollsBack
    <3>6. QED  BY <3>2, <3>3, <3>4, <3>5
  <2>4. CASE k # slot
    <3>1. Unfinished(k) /\ CallInv(k)
      BY <1>7, <2>2, <2>4
    <3>2. Sound(k)'
      BY <2>2, <2>4, <3>1 DEF CallInv, Sound
    <3>3. Exclusive(k)'
      <4>1. sure'[call'[k].tab] \cap Touched(call'[k].column) = {}
        <5>1. sure'[call[k].tab] \subseteq sure[call[k].tab]
          BY <1>1, <1>2, <3>1 DEF CallInv, Sound, TypeOK
        <5>2. QED  BY <2>2, <2>4, <3>1, <5>1 DEF CallInv, Exclusive
      <4>2. ASSUME NEW j \in Call \ {k}, Unfinished(j)'
            PROVE  call'[k].alone \cap Touched(call'[j].column) = {}
        <5>1. CASE j = slot
          BY <1>1, <2>2, <2>4, <3>1, <5>1 DEF new
        <5>2. CASE j # slot
          BY <2>2, <2>4, <3>1, <4>2, <5>2 DEF CallInv, Exclusive
        <5>3. QED  BY <5>1, <5>2
      <4>3. QED  BY <4>1, <4>2 DEF Exclusive
    <3>4. Saves(k)'
      <4>1. ASSUME call[k].column \in call'[k].alone
            PROVE  /\ shown'[call[k].tab][call[k].column] = shown[call[k].tab][call[k].column]
                   /\ call[k].column = "notes" =>
                         (call[k].tab \in typing' <=> call[k].tab \in typing)
        <5>1. call[k].column # c
          BY <2>2, <2>4, <3>1, <4>1 DEF Touched
        <5>2. call[k].tab \in Tab
          BY <3>1 DEF CallInv, Sound, TypeOK
        <5>3. QED  BY <1>2, <5>1, <5>2 DEF TypeOK
      <4>2. QED  BY <2>2, <2>4, <3>1, <4>1 DEF CallInv, Saves
    <3>5. RollsBack(k)'
      BY <2>2, <2>4, <3>1 DEF CallInv, RollsBack
    <3>6. QED  BY <3>2, <3>3, <3>4, <3>5
  <2>5. QED  BY <2>3, <2>4
<1>8. QED  BY <1>5, <1>6, <1>7 DEF CallInv

(* A click on a star, a burst of keystrokes and the end of the debounce. *)
LEMMA RateInv ==
    ASSUME IInv, NEW t \in Tab, NEW d \in Dim, NEW n \in 1..MaxStar, Rate(t, d, n)
    PROVE  IInv'
<1> DEFINE next == IF shown[t][d] = n THEN 0 ELSE n
<1>1. d \in Column /\ d # "notes" /\ next \in Value(d)
  BY RatingsAssumption DEF Column, Value
<1>2. /\ t \in open /\ Send(t, d, next, shown[t][d]) /\ shown' = [shown EXCEPT ![t][d] = next]
      /\ UNCHANGED <<row, reviewer, loading, open, summary, typing>>
  BY DEF Rate
<1> HIDE DEF next
<1>3. QED  BY <1>1, <1>2, SendInv

LEMMA SaveNotesInv ==
    ASSUME IInv, NEW t \in Tab, SaveNotes(t)
    PROVE  IInv'
<1> DEFINE v == shown[t]["notes"]
<1>1. "notes" \in Column /\ v \in Value("notes") /\ [shown EXCEPT ![t]["notes"] = v] = shown
  BY DEF Column, IInv, TypeOK, Rating
<1>2. t \in open /\ Send(t, "notes", v, v) /\ typing' = typing \ {t}
      /\ UNCHANGED <<row, reviewer, loading, open, shown, summary>>
  BY DEF SaveNotes, IInv, TypeOK
<1> HIDE DEF v
<1>3. QED  BY <1>1, <1>2, SendInv

LEMMA TypeInv ==
    ASSUME IInv, NEW t \in Tab, NEW text \in Value("notes"), Type(t, text)
    PROVE  IInv'
<1> USE DEF IInv
<1>1. /\ t \in open /\ t \notin typing /\ typing' = typing \cup {t}
      /\ shown' = [shown EXCEPT ![t]["notes"] = text]
      /\ sure' = [sure EXCEPT ![t] = @ \ {"notes"}]
      /\ UNCHANGED <<row, reviewer, loading, open, summary, call>>
  BY DEF Type
<1>2. TypeOK'
  <2>1. [shown[t] EXCEPT !["notes"] = text] \in Rating
    BY RatingWrite DEF TypeOK, Column
  <2>2. QED  BY <1>1, <2>1 DEF TypeOK
<1>3. Known' /\ Unloaded'
  BY <1>1, RatingsAssumption DEF Known, Unloaded, TypeOK, Rating, Column
<1>4. ASSUME NEW k \in Call
      PROVE  CallInv(k)'
  <2>1. call[k].column \in Column
    BY DEF TypeOK, Fetch
  <2>2. \A c \in Column \ {"notes"}, s \in Tab : shown'[s][c] = shown[s][c]
    BY <1>1 DEF TypeOK, Rating
  <2>3. \A s \in Tab \ {t} : shown'[s] = shown[s]
    BY <1>1 DEF TypeOK
  <2>4. Sound(k) /\ Saves(k) => Saves(k)'
    BY <1>1, <2>1, <2>2, <2>3 DEF Saves, Sound, TypeOK
  <2>5. Sound(k) /\ Exclusive(k) => Exclusive(k)'
    BY <1>1 DEF Exclusive, Sound, Unfinished, TypeOK
  <2>6. QED
    BY <1>1, <2>4, <2>5 DEF CallInv, Unfinished, Sound, RollsBack
<1>5. QED  BY <1>2, <1>3, <1>4
-----------------------------------------------------------------------------
(* The steps of the server. *)

(* An upsert touches what no other call has alone, and what every other    *)
(* page forgets; its own page is not sure of it.                           *)
LEMMA WriteInv ==
    ASSUME IInv, NEW k \in Call, Write(k)
    PROVE  IInv'
<1> USE DEF IInv
<1> DEFINE c == call[k].column
           v == Stored(c, call[k].value)
           t == call[k].tab
<1>1. /\ call[k].step = "sent" /\ CallInv(k) /\ Unfinished(k)
      /\ c \in Column /\ call[k] \in Fetch /\ t \in open /\ t \in Tab
  BY DEF Write, CallInv, Unfinished, Sound, TypeOK, Fetch
<1>2. /\ row' = [row EXCEPT ![c] = v] /\ reviewer' = t
      /\ sure' = [s \in Tab |-> IF s = t THEN sure[s] ELSE sure[s] \ Touched(c)]
      /\ UNCHANGED page
  BY DEF Write
<1>3. /\ row' \in Rating /\ row'["notes"] # 2 /\ row'[c] = v
      /\ \A e \in Column \ {c} : row'[e] = row[e]
  <2>1. call[k].value \in Value(c) /\ row \in Rating /\ row["notes"] # 2
    BY <1>1 DEF CallInv, Sound, TypeOK
  <2>2. row' \in Rating /\ (c = "notes" => v # 2)
    BY <1>1, <1>2, <2>1, RatingWrite
  <2>3. row'[c] = v /\ \A e \in Column \ {c} : row'[e] = row[e]
    BY <1>1, <1>2, <2>1 DEF Rating
  <2>4. "notes" \in Column
    BY DEF Column
  <2>5. QED  BY <2>1, <2>2, <2>3, <2>4
<1>4. c = "notes" => Summary(row') = Summary(row)
  BY <1>2, NotesDoNotCount DEF TypeOK
<1>5. /\ call' \in [Call -> Fetch] /\ \A j \in Call \ {k} : call'[j] = call[j]
      /\ \/ call'[k] = NoFetch("done")
         \/ /\ call'[k] = [call[k] EXCEPT !.step = IF c = "notes" THEN "answered" ELSE "written"]
            /\ call'[k].step = "answered" => call'[k].heard
         \/ /\ call'[k] = [call[k] EXCEPT !.step = "refused", !.alone = {}]
            /\ call'[k].heard
  <2> DEFINE ok == [call[k] EXCEPT !.step = IF c = "notes" THEN "answered" ELSE "written"]
             lost == [call[k] EXCEPT !.step = "refused", !.alone = {}]
  <2>1. ok \in Fetch /\ lost \in Fetch /\ lost.step = "refused"
    BY <1>1 DEF Fetch, Step
  <2>2. Becomes(k, ok) \/ Becomes(k, lost)
    BY DEF Write
  <2>3. call \in [Call -> Fetch]
    BY DEF TypeOK
  <2> HIDE DEF ok, lost
  <2>4. /\ call' \in [Call -> Fetch] /\ \A j \in Call \ {k} : call'[j] = call[j]
        /\ \/ call'[k] = NoFetch("done")
           \/ call'[k] = ok /\ (ok.step \in {"answered", "refused"} => ok.heard)
           \/ call'[k] = lost /\ (lost.step \in {"answered", "refused"} => lost.heard)
    BY <2>1, <2>2, <2>3, BecomesOne
  <2>5. QED  BY <2>1, <2>4 DEF ok, lost
<1>6. TypeOK'
  <2>1. reviewer' \in Tab
    BY <1>1, <1>2
  <2>2. sure' \in [Tab -> SUBSET Part]
    BY <1>2 DEF TypeOK
  <2>3. QED  BY <1>2, <1>3, <1>5, <2>1, <2>2, RatingsAssumption DEF TypeOK, page
<1>7. Known' /\ Unloaded'
  <2>1. \A s \in Tab : sure'[s] \subseteq sure[s] /\ sure'[s] \cap Touched(c) = {}
    BY <1>1, <1>2 DEF CallInv, Exclusive, TypeOK
  <2>2. \A s \in Tab : "summary" \in sure'[s] => summary[s] = Summary(row')
    BY <1>1, <1>4, <2>1 DEF Touched, Known, TypeOK
  <2>3. ASSUME NEW s \in Tab, NEW e \in Column \cap sure'[s]
        PROVE  Stored(e, shown[s][e]) = row'[e]
    BY <1>1, <1>3, <2>1, <2>3 DEF Touched, Known, TypeOK
  <2>4. Known'
    BY <1>2, <2>2, <2>3 DEF Known, page
  <2>5. QED  BY <1>2, <2>1, <2>4 DEF Unloaded, page
<1>8. ASSUME NEW j \in Call, j # k
      PROVE  CallInv(j)'
  <2> SUFFICES ASSUME Unfinished(j)
               PROVE  (Sound(j) /\ Exclusive(j) /\ Saves(j) /\ RollsBack(j))'
    BY <1>5, <1>8 DEF CallInv, Unfinished
  <2>1. CallInv(j) /\ call'[j] = call[j] /\ call[j].alone \cap Touched(c) = {}
    BY <1>1, <1>5, <1>8 DEF CallInv, Exclusive
  <2>2. call[j].column \in Column /\ call[j].tab \in Tab
    BY <2>1 DEF CallInv, Sound, TypeOK, Fetch
  <2>3. Sound(j)'
    BY <1>2, <2>1 DEF CallInv, Sound, page
  <2>4. Exclusive(j)'
    <3>1. sure'[call[j].tab] \subseteq sure[call[j].tab]
      BY <1>2, <2>2 DEF TypeOK
    <3>2. \A i \in Call : Unfinished(i)' => Unfinished(i) /\ call'[i].column = call[i].column
      <4>1. ASSUME Unfinished(k)'
            PROVE  call'[k].column = c
        <5>1. NoFetch("done").step = "done"
          BY DEF NoFetch
        <5>2. call'[k] # NoFetch("done")
          BY <4>1, <5>1 DEF Unfinished
        <5>3. CASE call'[k] = [call[k] EXCEPT !.step = IF c = "notes" THEN "answered" ELSE "written"]
          BY <1>1, <5>3 DEF Fetch
        <5>4. CASE call'[k] = [call[k] EXCEPT !.step = "refused", !.alone = {}]
          BY <1>1, <5>4 DEF Fetch
        <5>5. QED  BY <1>5, <5>2, <5>3, <5>4
      <4>2. QED  BY <1>1, <1>5, <4>1 DEF Unfinished
    <3>3. QED  BY <2>1, <3>1, <3>2 DEF CallInv, Exclusive
  <2>5. "summary" \in call[j].alone => Summary(row') = Summary(row)
    BY <1>4, <2>1 DEF Touched
  <2>6. call[j].column \in call[j].alone => row'[call[j].column] = row[call[j].column]
    BY <1>1, <1>3, <2>1, <2>2 DEF Touched
  <2>7. Saves(j)'
    BY <1>2, <2>1, <2>5, <2>6 DEF CallInv, Saves, page
  <2>8. RollsBack(j)'
    BY <1>2, <2>1, <2>5, <2>6 DEF CallInv, RollsBack, page
  <2>9. QED  BY <2>3, <2>4, <2>7, <2>8
<1>9. CallInv(k)'
  <2>1. CASE call'[k] = NoFetch("done")
    BY <2>1, NoFetchIsOver
  <2>2. CASE /\ call'[k] = [call[k] EXCEPT !.step = IF c = "notes" THEN "answered" ELSE "written"]
             /\ call'[k].step = "answered" => call'[k].heard
    <3>1. /\ call'[k].column = c /\ call'[k].tab = t /\ call'[k].value = call[k].value
          /\ call'[k].prev = call[k].prev /\ call'[k].heard = call[k].heard
          /\ call'[k].alone = call[k].alone
          /\ call'[k].step = IF c = "notes" THEN "answered" ELSE "written"
      BY <1>1, <2>2 DEF Fetch
    <3>2. \A i \in Call \ {k} : Unfinished(i)' <=> Unfinished(i)
      BY <1>5 DEF Unfinished
    <3>3. Sound(k)' /\ Exclusive(k)'
      BY <1>1, <1>2, <1>5, <2>2, <3>1, <3>2 DEF CallInv, Sound, Exclusive, TypeOK, page
    <3>4. Saves(k)'
      BY <1>1, <1>2, <1>3, <3>1 DEF CallInv, Sound, Saves, Touched, page
    <3>5. RollsBack(k)'
      BY <3>1 DEF RollsBack
    <3>6. QED  BY <3>3, <3>4, <3>5 DEF CallInv
  <2>3. CASE /\ call'[k] = [call[k] EXCEPT !.step = "refused", !.alone = {}]
             /\ call'[k].heard
    <3>1. /\ call'[k].column = c /\ call'[k].tab = t /\ call'[k].value = call[k].value
          /\ call'[k].prev = call[k].prev /\ call'[k].alone = {} /\ call'[k].step = "refused"
      BY <1>1, <2>3 DEF Fetch
    <3>2. QED
      BY <1>1, <1>2, <2>3, <3>1 DEF CallInv, Sound, Exclusive, Saves, RollsBack, TypeOK, page
  <2>4. QED  BY <1>5, <2>1, <2>2, <2>3
<1>10. QED  BY <1>6, <1>7, <1>8, <1>9

(* Another unfinished call keeps what it has to itself when call k goes on *)
(* with its column, or is over.                                            *)
LEMMA OtherCall ==
    ASSUME IInv, NEW k \in Call, Unfinished(k), \A i \in Call \ {k} : call'[i] = call[i],
           Unfinished(k)' => call'[k].column = call[k].column,
           NEW j \in Call \ {k}, Unfinished(j)
    PROVE  /\ call'[j] = call[j] /\ CallInv(j) /\ call[j].tab \in Tab
           /\ call[j].alone \cap Touched(call[k].column) = {}
           /\ call[k].alone \cap Touched(call[j].column) = {}
           /\ \A i \in Call \ {j} : Unfinished(i)' =>
                  call'[j].alone \cap Touched(call'[i].column) = {}
<1>1. call'[j] = call[j] /\ CallInv(j) /\ CallInv(k)
  BY DEF IInv
<1>2. \A i \in Call : Unfinished(i)' => Unfinished(i) /\ call'[i].column = call[i].column
  BY DEF Unfinished
<1>3. QED  BY <1>1, <1>2 DEF CallInv, Exclusive, Sound, IInv, TypeOK

LEMMA AnswerInv ==
    ASSUME IInv, NEW k \in Call, ReadBack(k) \/ Refuse(k)
    PROVE  IInv'
<1> USE DEF IInv
<1> DEFINE read == [call[k] EXCEPT !.step = "answered", !.body = Summary(row)]
           unread == [call[k] EXCEPT !.step = "answered", !.alone = @ \ {"summary"}]
           refused == [call[k] EXCEPT !.step = "refused"]
<1>1. /\ Unfinished(k) /\ CallInv(k) /\ call[k] \in Fetch /\ call[k].tab \in Tab
      /\ UNCHANGED <<row, reviewer, page, sure>>
      /\ \/ call[k].step = "written" /\ (Becomes(k, read) \/ Becomes(k, unread))
         \/ call[k].step = "sent" /\ Becomes(k, refused)
  BY DEF ReadBack, Refuse, CallInv, Unfinished, Sound, TypeOK
<1>2. /\ read \in Fetch /\ read.step = "answered" /\ unread \in Fetch /\ unread.step = "answered"
      /\ refused \in Fetch /\ refused.step = "refused"
  BY <1>1, SummaryIsSum DEF Fetch, Step, TypeOK
<1> HIDE DEF read, unread, refused
<1>3. /\ call' \in [Call -> Fetch] /\ \A j \in Call \ {k} : call'[j] = call[j]
      /\ \/ call'[k] = NoFetch("done")
         \/ call[k].step = "written" /\ call'[k] \in {read, unread} /\ call'[k].heard
         \/ call[k].step = "sent" /\ call'[k] = refused /\ call'[k].heard
  BY <1>1, <1>2, BecomesOne DEF TypeOK
<1>4. \/ call'[k] = NoFetch("done")
      \/ /\ call'[k].column = call[k].column /\ call'[k].tab = call[k].tab
         /\ call'[k].value = call[k].value /\ call'[k].prev = call[k].prev
         /\ call'[k].before = call[k].before /\ call'[k].alone \subseteq call[k].alone
         /\ call'[k].heard /\ call[k].heard
         /\ \/ /\ call[k].step = "written" /\ call'[k].step = "answered"
               /\ "summary" \in call'[k].alone => call'[k].body = Summary(row)
            \/ call[k].step = "sent" /\ call'[k].step = "refused"
  <2>1. CASE call'[k] = read
    BY <1>1, <1>2, <1>3, <2>1 DEF Fetch, read
  <2>2. CASE call'[k] = unread
    BY <1>1, <1>2, <1>3, <2>2 DEF Fetch, unread
  <2>3. CASE call'[k] = refused
    BY <1>1, <1>2, <1>3, <2>3 DEF Fetch, refused
  <2>4. QED  BY <1>3, <2>1, <2>2, <2>3
<1>5. Unfinished(k)' => call'[k].column = call[k].column
  BY <1>4 DEF Unfinished, NoFetch
<1>6. TypeOK'
  BY <1>1, <1>3 DEF TypeOK, page
<1>7. Known' /\ Unloaded'
  BY <1>1 DEF Known, Unloaded, page
<1>8. ASSUME NEW j \in Call, j # k
      PROVE  CallInv(j)'
  <2> SUFFICES ASSUME Unfinished(j)
               PROVE  (Sound(j) /\ Exclusive(j) /\ Saves(j) /\ RollsBack(j))'
    BY <1>3, <1>8 DEF CallInv, Unfinished
  <2>1. /\ call'[j] = call[j] /\ CallInv(j)
        /\ \A i \in Call \ {j} : Unfinished(i)' =>
                  call'[j].alone \cap Touched(call'[i].column) = {}
    BY <1>1, <1>3, <1>5, <1>8, OtherCall
  <2>2. UNCHANGED <<row, open, shown, summary, typing, sure>>
    BY <1>1 DEF page
  <2>3. Exclusive(j)'
    BY <2>1, <2>2 DEF CallInv, Exclusive
  <2>4. QED  BY <2>1, <2>2, <2>3 DEF CallInv, Sound, Saves, RollsBack
<1>9. CallInv(k)'
  <2>1. CASE call'[k] = NoFetch("done")
    BY <2>1, NoFetchIsOver
  <2>2. CASE call'[k] # NoFetch("done")
    <3>1. \A i \in Call \ {k} : Unfinished(i)' => Unfinished(i) /\ call'[i] = call[i]
      BY <1>3 DEF Unfinished
    <3>2. Exclusive(k)'
      BY <1>1, <1>4, <2>2, <3>1 DEF CallInv, Exclusive
    <3>3. Sound(k)'
      BY <1>1, <1>4, <2>2 DEF CallInv, Sound, page
    <3>4. Saves(k)'
      BY <1>1, <1>4, <2>2 DEF CallInv, Saves, page
    <3>5. RollsBack(k)'
      BY <1>1, <1>4, <2>2 DEF CallInv, RollsBack, page
    <3>6. QED  BY <3>2, <3>3, <3>4, <3>5 DEF CallInv
  <2>3. QED  BY <2>1, <2>2
<1>10. QED  BY <1>6, <1>7, <1>8, <1>9
-----------------------------------------------------------------------------
(* What the page hears. *)

(* It is sure of what the call had to itself, and the call is over. *)
LEMMA SavedInv ==
    ASSUME IInv, NEW k \in Call, Saved(k)
    PROVE  IInv'
<1> USE DEF IInv
<1> DEFINE t == call[k].tab
           c == call[k].column
           learned == call[k].alone \ IF t \in typing THEN {"notes"} ELSE {}
<1>1. /\ call[k].step = "answered" /\ Unfinished(k) /\ CallInv(k) /\ call[k] \in Fetch
      /\ t \in open /\ t \in Tab /\ c \in Column /\ call[k].heard
      /\ call[k].alone \subseteq Touched(c) /\ sure[t] \cap Touched(c) = {}
  BY DEF Saved, CallInv, Unfinished, Sound, Exclusive, TypeOK, Fetch
<1>2. /\ summary' = IF c \in Dim THEN [summary EXCEPT ![t] = call[k].body] ELSE summary
      /\ sure' = [sure EXCEPT ![t] = @ \cup learned]
      /\ UNCHANGED <<row, reviewer, loading, open, shown, typing>>
  BY DEF Saved
<1>3. /\ call' \in [Call -> Fetch] /\ \A j \in Call \ {k} : call'[j] = call[j]
      /\ call'[k] = NoFetch("done")
  BY NoFetchIsFetch DEF Saved, TypeOK, Step
<1>4. learned \subseteq Touched(c) /\ learned \subseteq Part
  BY <1>1, TouchedParts
<1>5. TypeOK'
  BY <1>1, <1>2, <1>3, <1>4 DEF TypeOK, Fetch
<1>6. Known' /\ Unloaded'
  <2>1. ASSUME c \in learned
        PROVE  Stored(c, shown[t][c]) = row[c]
    BY <1>1, <2>1 DEF CallInv, Saves
  <2>2. ASSUME "summary" \in sure'[t]
        PROVE  summary'[t] = Summary(row)
    <3>1. CASE c \in Dim
      BY <1>1, <1>2, <2>2, <3>1, RatingsAssumption DEF CallInv, Saves, Touched, TypeOK
    <3>2. CASE c = "notes"
      BY <1>1, <1>2, <1>4, <2>2, <3>2, RatingsAssumption DEF Touched, Known, TypeOK
    <3>3. QED  BY <1>1, <3>1, <3>2 DEF Column
  <2>3. \A e \in Column \cap sure'[t] : Stored(e, shown[t][e]) = row[e]
    BY <1>1, <1>2, <1>4, <2>1, RatingsAssumption DEF Known, Touched, TypeOK, Column
  <2>4. \A s \in Tab \ {t} : sure'[s] = sure[s] /\ summary'[s] = summary[s]
    BY <1>2 DEF TypeOK
  <2>5. Known'
    BY <1>2, <2>2, <2>3, <2>4 DEF Known
  <2>6. QED  BY <1>1, <1>2, <2>5 DEF Unloaded, TypeOK
<1>7. ASSUME NEW j \in Call, j # k
      PROVE  CallInv(j)'
  <2> SUFFICES ASSUME Unfinished(j)
               PROVE  (Sound(j) /\ Exclusive(j) /\ Saves(j) /\ RollsBack(j))'
    BY <1>3, <1>7 DEF CallInv, Unfinished
  <2>1. ~Unfinished(k)'
    BY <1>3 DEF Unfinished, NoFetch
  <2>2. /\ call'[j] = call[j] /\ CallInv(j) /\ call[j].tab \in Tab
        /\ call[j].alone \cap Touched(c) = {} /\ call[k].alone \cap Touched(call[j].column) = {}
        /\ \A i \in Call \ {j} : Unfinished(i)' =>
                  call'[j].alone \cap Touched(call'[i].column) = {}
    BY <1>1, <1>3, <1>7, <2>1, OtherCall
  <2>3. Exclusive(j)'
    BY <1>2, <2>2 DEF CallInv, Exclusive, TypeOK
  <2>4. Sound(j)' /\ Saves(j)'
    BY <1>2, <2>2 DEF CallInv, Sound, Saves
  <2>5. "summary" \in call[j].alone => summary' = summary
    BY <1>1, <1>2, <2>2, RatingsAssumption DEF Touched
  <2>6. RollsBack(j)'
    BY <1>2, <2>2, <2>5 DEF CallInv, RollsBack
  <2>7. QED  BY <2>3, <2>4, <2>6
<1>8. CallInv(k)'
  BY <1>3, NoFetchIsOver
<1>9. QED  BY <1>5, <1>6, <1>7, <1>8

(* A call that is refused, or whose answer is lost, gives its page back    *)
(* what it showed: nobody is sure of that, but for what the call knew to   *)
(* be in the row.                                                          *)
LEMMA RollBackShows ==
    ASSUME IInv, NEW k \in Call, Unfinished(k), shown' = RollBack(k)
    PROVE  /\ shown' \in [Tab -> Rating]
           /\ \A t \in Tab, e \in Column :
                  \/ shown'[t][e] = shown[t][e]
                  \/ t = call[k].tab /\ e = call[k].column
           /\ call[k].column # "notes" =>
                  shown'[call[k].tab][call[k].column] = call[k].prev
           /\ \A t \in Tab : shown'[t]["notes"] = shown[t]["notes"]
<1> DEFINE t == call[k].tab
           c == call[k].column
           v == IF c \in Dim THEN call[k].prev ELSE shown[t][c]
<1>1. t \in Tab /\ c \in Column /\ call[k].prev \in Value(c) /\ shown \in [Tab -> Rating]
  BY DEF IInv, CallInv, Sound, TypeOK, Fetch
<1>2. shown[t] \in Rating /\ v \in Value(c)
  BY <1>1 DEF Rating
<1>3. shown' = [shown EXCEPT ![t] = [shown[t] EXCEPT ![c] = v]]
  BY <1>1 DEF RollBack
<1>4. [shown[t] EXCEPT ![c] = v] \in Rating
  BY <1>1, <1>2, RatingWrite
<1>5. c # "notes" => v = call[k].prev
  BY <1>1 DEF Column
<1>6. c = "notes" => v = shown[t]["notes"]
  BY RatingsAssumption
<1> HIDE DEF v, t, c
<1>7. \A s \in Tab \ {t} : shown'[s] = shown[s]
  BY <1>1, <1>3
<1>8. shown'[t] = [shown[t] EXCEPT ![c] = v] /\ shown' \in [Tab -> Rating]
  BY <1>1, <1>3, <1>4
<1>9. \A e \in Column : shown'[t][e] = IF e = c THEN v ELSE shown[t][e]
  BY <1>2, <1>8 DEF Rating
<1>10. "notes" \in Column
  BY DEF Column
<1>11. QED  BY <1>1, <1>5, <1>6, <1>7, <1>8, <1>9, <1>10 DEF t, c

(* So the other calls are not concerned. *)
LEMMA RollBackOthers ==
    ASSUME IInv, NEW k \in Call, Unfinished(k), shown' = RollBack(k),
           UNCHANGED <<row, open, summary, typing>>, sure' \in [Tab -> SUBSET Part],
           \A i \in Call \ {k} : call'[i] = call[i],
           Unfinished(k)' => call'[k].column = call[k].column,
           \A t \in Tab : sure'[t] \subseteq sure[t] \cup
               IF t = call[k].tab THEN call[k].alone ELSE {},
           NEW j \in Call \ {k}
    PROVE  CallInv(j)'
<1> SUFFICES ASSUME Unfinished(j)
             PROVE  (Sound(j) /\ Exclusive(j) /\ Saves(j) /\ RollsBack(j))'
  BY DEF CallInv, Unfinished
<1>1. /\ call'[j] = call[j] /\ CallInv(j) /\ call[j].tab \in Tab
      /\ call[j].alone \cap Touched(call[k].column) = {}
      /\ call[k].alone \cap Touched(call[j].column) = {}
      /\ \A i \in Call \ {j} : Unfinished(i)' =>
             call'[j].alone \cap Touched(call'[i].column) = {}
  BY OtherCall
<1>2. call[j].column \in Column
  BY DEF IInv, TypeOK, Fetch
<1>3. call[j].column \in call[j].alone => call[j].column # call[k].column
  BY <1>1, <1>2 DEF Touched
<1>4. call[j].column \in call[j].alone =>
          shown'[call[j].tab][call[j].column] = shown[call[j].tab][call[j].column]
  BY <1>1, <1>2, <1>3, RollBackShows
<1>5. Sound(j)' /\ Saves(j)' /\ RollsBack(j)'
  BY <1>1, <1>4 DEF CallInv, Sound, Saves, RollsBack
<1>6. Exclusive(j)'
  BY <1>1 DEF CallInv, Exclusive
<1>7. QED  BY <1>5, <1>6

LEMMA NotSavedInv ==
    ASSUME IInv, NEW k \in Call, NotSaved(k)
    PROVE  IInv'
<1> USE DEF IInv
<1> DEFINE t == call[k].tab
           c == call[k].column
           known == (call[k].alone \cap call[k].before) \ {"notes"}
<1>1. /\ call[k].step = "refused" /\ Unfinished(k) /\ CallInv(k)
      /\ t \in open /\ t \in Tab /\ c \in Column
      /\ call[k].alone \subseteq Touched(c) /\ sure[t] \cap Touched(c) = {}
  BY DEF NotSaved, CallInv, Unfinished, Sound, Exclusive, TypeOK, Fetch
<1>2. /\ shown' = RollBack(k) /\ sure' = [sure EXCEPT ![t] = @ \cup known]
      /\ UNCHANGED <<row, reviewer, loading, open, summary, typing>>
  BY DEF NotSaved
<1>3. /\ call' \in [Call -> Fetch] /\ \A j \in Call \ {k} : call'[j] = call[j]
      /\ call'[k] = NoFetch("done") /\ ~Unfinished(k)'
  BY NoFetchIsFetch DEF NotSaved, TypeOK, Step, Unfinished, NoFetch
<1>4. known \subseteq call[k].alone /\ known \subseteq Part
  BY <1>1, TouchedParts
<1>5. /\ sure' \in [Tab -> SUBSET Part]
      /\ \A s \in Tab : sure'[s] \subseteq sure[s] \cup IF s = t THEN call[k].alone ELSE {}
  BY <1>2, <1>4 DEF TypeOK
<1>6. TypeOK'
  BY <1>1, <1>2, <1>3, <1>5, RollBackShows DEF TypeOK
<1>7. Known' /\ Unloaded'
  <2>1. ASSUME NEW e \in Column \cap known
        PROVE  Stored(e, shown'[t][e]) = row[e]
    <3>1. e = c /\ c # "notes"
      BY <1>1, <2>1, RatingsAssumption DEF Touched, Column
    <3>2. shown'[t][c] = call[k].prev /\ call[k].prev = row[c]
      BY <1>1, <1>2, <2>1, <3>1, RollBackShows DEF CallInv, RollsBack
    <3>3. QED  BY <3>1, <3>2 DEF Stored
  <2>2. ASSUME NEW s \in Tab, NEW e \in Column \cap sure[s]
        PROVE  Stored(e, shown'[s][e]) = row[e]
    <3>1. ~(s = t /\ e = c)
      BY <1>1, <2>2 DEF Touched
    <3>2. shown'[s][e] = shown[s][e]
      BY <1>1, <1>2, <2>2, <3>1, RollBackShows DEF TypeOK
    <3>3. QED  BY <2>2, <3>2 DEF Known
  <2>3. "summary" \in known => summary[t] = Summary(row)
    BY <1>1 DEF CallInv, RollsBack
  <2>4. \A s \in Tab : sure'[s] = IF s = t THEN sure[s] \cup known ELSE sure[s]
    BY <1>1, <1>2 DEF TypeOK
  <2> HIDE DEF known
  <2>5. Known'
    BY <1>1, <1>2, <2>1, <2>2, <2>3, <2>4 DEF Known, TypeOK
  <2>6. QED  BY <1>1, <1>2, <2>4, <2>5 DEF Unloaded
<1>8. ASSUME NEW j \in Call, j # k
      PROVE  CallInv(j)'
  BY <1>1, <1>2, <1>3, <1>5, <1>8, RollBackOthers
<1>9. CallInv(k)'
  BY <1>3, NoFetchIsOver
<1>10. QED  BY <1>6, <1>7, <1>8, <1>9

LEMMA HangUpInv ==
    ASSUME IInv, NEW k \in Call, HangUp(k)
    PROVE  IInv'
<1> USE DEF IInv
<1> DEFINE unheard == [call[k] EXCEPT !.heard = FALSE]
           t == call[k].tab
           c == call[k].column
<1>1. /\ Unfinished(k) /\ CallInv(k) /\ shown' = RollBack(k) /\ Becomes(k, unheard)
      /\ UNCHANGED <<row, reviewer, loading, open, summary, typing, sure>>
      /\ call[k] \in Fetch /\ t \in Tab /\ c \in Column
  BY DEF HangUp, CallInv, Sound, TypeOK, Fetch
<1>2. /\ unheard \in Fetch /\ unheard.step = call[k].step /\ unheard.column = c
      /\ unheard.tab = t /\ unheard.value = call[k].value /\ unheard.prev = call[k].prev
      /\ unheard.alone = call[k].alone /\ unheard.before = call[k].before
      /\ unheard.heard = FALSE /\ unheard.body = call[k].body
  BY <1>1 DEF Fetch
<1> HIDE DEF unheard
<1>3. /\ call' \in [Call -> Fetch] /\ \A j \in Call \ {k} : call'[j] = call[j]
      /\ \/ call'[k] = NoFetch("done")
         \/ call'[k] = unheard /\ call[k].step \notin {"answered", "refused"}
  BY <1>1, <1>2, BecomesOne DEF TypeOK
<1>4. Unfinished(k)' => call'[k].column = c
  BY <1>2, <1>3 DEF Unfinished, NoFetch
<1>5. TypeOK'
  BY <1>1, <1>3, RollBackShows DEF TypeOK
<1>6. Known' /\ Unloaded'
  <2>1. ASSUME NEW s \in Tab, NEW e \in Column \cap sure[s]
        PROVE  Stored(e, shown'[s][e]) = row[e]
    <3>1. ~(s = t /\ e = c)
      BY <1>1, <2>1 DEF Touched, CallInv, Exclusive
    <3>2. shown'[s][e] = shown[s][e]
      BY <1>1, <2>1, <3>1, RollBackShows DEF TypeOK
    <3>3. QED  BY <2>1, <3>2 DEF Known
  <2>2. QED  BY <1>1, <2>1 DEF Known, Unloaded
<1>7. ASSUME NEW j \in Call, j # k
      PROVE  CallInv(j)'
  <2>1. sure' \in [Tab -> SUBSET Part] /\ \A s \in Tab : sure'[s] = sure[s]
    BY <1>1 DEF TypeOK
  <2>2. QED  BY <1>1, <1>3, <1>4, <1>7, <2>1, RollBackOthers
<1>8. CallInv(k)'
  <2>1. CASE call'[k] = NoFetch("done")
    BY <2>1, NoFetchIsOver
  <2>2. CASE call'[k] = unheard /\ call[k].step \notin {"answered", "refused"}
    <3>1. Sound(k)' /\ RollsBack(k)'
      BY <1>1, <1>2, <2>2 DEF CallInv, Sound, RollsBack
    <3>2. Exclusive(k)'
      BY <1>1, <1>2, <1>3, <2>2 DEF CallInv, Exclusive, Unfinished
    <3>3. \A s \in Tab : shown'[s]["notes"] = shown[s]["notes"]
      BY <1>1, RollBackShows
    <3>4. Saves(k)'
      BY <1>1, <1>2, <2>2, <3>3 DEF CallInv, Saves
    <3>5. QED  BY <3>1, <3>2, <3>4 DEF CallInv
  <2>3. QED  BY <1>3, <2>1, <2>2
<1>9. QED  BY <1>5, <1>6, <1>7, <1>8
-----------------------------------------------------------------------------
LEMMA StutterInv == IInv /\ UNCHANGED vars => IInv'
BY DEF IInv, TypeOK, Known, Unloaded, CallInv, Unfinished, Sound, Exclusive, Saves,
       RollsBack, vars, page

LEMMA NextInv == IInv /\ [Next]_vars => IInv'
BY StutterInv, QueryInv, OpenInv, SaveNotesInv, RateInv, TypeInv, WriteInv, AnswerInv, SavedInv,
   NotSavedInv, HangUpInv DEF Next

LEMMA Invariance == Spec => []IInv
<1>1. QED  BY InitInv, NextInv, PTL DEF Spec

(* The row, the pages and the calls are well-typed: whoever writes is the  *)
(* reviewer, and nothing but a rating or text of the form gets in.         *)
THEOREM TypeCorrect == Spec => []TypeOK
<1>1. IInv => TypeOK
  BY DEF IInv
<1>2. QED  BY <1>1, Invariance, PTL

(* However saves, refusals and lost answers of any number of pages overlap, *)
(* what a page has loaded or saved undisturbed is what the row has.         *)
THEOREM CardsAlwaysSettle == Spec => []CardsSettle
<1>1. IInv => CardsSettle
  BY DEF IInv, Known, CardsSettle, TypeOK
<1>2. QED  BY <1>1, Invariance, PTL
=============================================================================
