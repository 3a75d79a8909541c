------------------------------ MODULE Ratings ------------------------------
(***************************************************************************)
(* The ratings that administrators give an applicant.  Every click on a    *)
(* star and every pause in typing notes saves at once: the browser         *)
(* (web/static/js/golab.js:687-788) changes what it shows, sends a PUT and  *)
(* rolls a refused click back; the server (internal/handler/admin.go and   *)
(* internal/model/rating.go) writes one column and reads the summary back. *)
(* Calls of one page overlap, and so do those of two administrators.       *)
(***************************************************************************)
EXTENDS Naturals, FiniteSetsExt

CONSTANTS
    Tab,         \* open admin pages, each of one administrator
    Dim,         \* rating dimensions, five in the code
    MaxStar,     \* 10 in the code
    Nobody,      \* no reviewer
    MaxCalls     \* bound on the fetches of a behaviour

ASSUME RatingsAssumption ==
    /\ MaxStar \in Nat \ {0} /\ MaxCalls \in Nat
    /\ Nobody \notin Tab /\ {"notes", "summary"} \cap Dim = {}

Column == Dim \cup {"notes"}
Part == Column \cup {"summary"}
Call == 1..MaxCalls

(* 0 stands for no rating and for no text.  Text 2 is text 1 with a blank  *)
(* after it.                                                               *)
Value(c) == IF c = "notes" THEN 0..2 ELSE 0..MaxStar
Entry == 0..MaxStar \cup {2}
Rating == {f \in [Column -> Entry] : \A c \in Column : f[c] \in Value(c)}

(* ApplicationRating.dimensions, and their average and number: average is  *)
(* sum over number, over the dimensions that are rated.                    *)
Dimensions(rating) == [d \in Dim |-> rating[d]]
Averaged(stars) ==
    <<MapThenSumSet(LAMBDA d : stars[d], Dim), Cardinality({d \in Dim : stars[d] # 0})>>
Summary(rating) == Averaged(Dimensions(rating))

(* What a summary line can say; it is empty until one has arrived. *)
NoSummary == <<0, 0>>
Sums == {Averaged(stars) : stars \in [Dim -> 0..MaxStar]} \cup {NoSummary}

VARIABLES
    row,         \* the applicant's row; one that is missing reads as all 0
    reviewer,    \* its reviewer_id
    loading,     \* pages whose ratings were queried
    open,        \* pages that are loaded
    shown,       \* shown[t][c]: what page t shows for column c
    summary,     \* summary[t]: sum and number of the ratings, as shown by t
    typing,      \* pages whose debounce timer runs
    call,        \* the fetches
    sure         \* sure[t]: what nothing has disturbed since t learned it

page == <<loading, open, shown, summary, typing>>
vars == <<row, reviewer, page, call, sure>>

Step == {"unused", "sent", "written", "answered", "refused", "done"}
Fetch == [tab : Tab \cup {Nobody}, column : Column, value : Entry, prev : Entry, step : Step,
          heard : BOOLEAN, body : Sums, alone : SUBSET Part, before : SUBSET Part]

Nothing == [c \in Column |-> 0]
NoFetch(step) ==
    [tab |-> Nobody, column |-> "notes", value |-> 0, prev |-> 0, step |-> step,
     heard |-> TRUE, body |-> NoSummary, alone |-> {}, before |-> {}]

TypeOK ==
    /\ row \in Rating /\ row["notes"] # 2 /\ shown \in [Tab -> Rating]
    /\ reviewer \in Tab \cup {Nobody} /\ (row # Nothing => reviewer # Nobody)
    /\ loading \subseteq Tab /\ open \subseteq Tab /\ typing \subseteq open
    /\ summary \in [Tab -> Sums] /\ sure \in [Tab -> SUBSET Part]
    /\ call \in [Call -> Fetch]

Init ==
    /\ row = Nothing /\ reviewer = Nobody
    /\ loading = {} /\ open = {}
    /\ shown = [t \in Tab |-> Nothing] /\ summary = [t \in Tab |-> NoSummary]
    /\ typing = {} /\ call = [k \in Call |-> NoFetch("unused")] /\ sure = [t \in Tab |-> {}]

(* strings.TrimSpace in SetRatingNotes. *)
Stored(c, v) == IF c = "notes" /\ v = 2 THEN 1 ELSE v
-----------------------------------------------------------------------------
Unfinished(k) == call[k].step \in {"sent", "written", "answered", "refused"}
InFlight == {k \in Call : Unfinished(k)}
Free == {k \in Call : call[k].step = "unused"}
Touched(c) == IF c = "notes" THEN {c} ELSE {c, "summary"}

(* AttachTo: an applicant without a row has the rating with nothing in it. *)
Attach(t) ==
    /\ shown' = [shown EXCEPT ![t] = row] /\ summary' = [summary EXCEPT ![t] = Summary(row)]
    /\ sure' = [sure EXCEPT ![t] = Part]

(* The handler of the admin page: when AttachTo fails the error is dropped *)
(* and everybody looks unrated.                                            *)
Query(t) ==
    /\ t \notin loading \cup open /\ loading' = loading \cup {t}
    /\ Attach(t) \/ UNCHANGED <<shown, summary, sure>>
    /\ UNCHANGED <<row, reviewer, open, typing, call>>

(* The page arrives; what others have saved since the query it does not show. *)
Open(t) ==
    /\ t \in loading /\ loading' = loading \ {t} /\ open' = open \cup {t}
    /\ UNCHANGED <<row, reviewer, shown, summary, typing, call, sure>>

(* fetch: what another call touches too is no longer this call's alone.    *)
Send(t, c, value, prev) ==
    /\ Free # {}
    /\ LET slot == Min(Free)
           others == UNION {Touched(call[k].column) : k \in InFlight} IN
       call' = [k \in Call |->
           IF k = slot
           THEN [tab |-> t, column |-> c, value |-> value, prev |-> prev, step |-> "sent",
                 heard |-> TRUE, body |-> NoSummary, alone |-> Touched(c) \ others,
                 before |-> sure[t] \cap Touched(c)]
           ELSE IF Unfinished(k) THEN [call[k] EXCEPT !.alone = @ \ Touched(c)] ELSE call[k]]
    /\ sure' = [sure EXCEPT ![t] = @ \ Touched(c)]

(* rate(n): a click on the star that is shown clears the rating. *)
Rate(t, d, n) ==
    LET next == IF shown[t][d] = n THEN 0 ELSE n IN
    /\ t \in open
    /\ Send(t, d, next, shown[t][d])
    /\ shown' = [shown EXCEPT ![t][d] = next]
    /\ UNCHANGED <<row, reviewer, loading, open, summary, typing>>

(* The textarea and its debounce: one burst of keystrokes.  A text is only *)
(* typed while a fetch is left to save it (a bound).                       *)
Type(t, text) ==
    /\ t \in open \ typing /\ text # shown[t]["notes"] /\ Free # {}
    /\ shown' = [shown EXCEPT ![t]["notes"] = text]
    /\ typing' = typing \cup {t}
    /\ sure' = [sure EXCEPT ![t] = @ \ {"notes"}]
    /\ UNCHANGED <<row, reviewer, loading, open, summary, call>>

SaveNotes(t) ==
    /\ t \in typing /\ typing' = typing \ {t}
    /\ Send(t, "notes", shown[t]["notes"], shown[t]["notes"])
    /\ UNCHANGED <<row, reviewer, loading, open, shown, summary>>
-----------------------------------------------------------------------------
(* The server. *)

(* A call whose page has hung up is over when the handler returns. *)
Becomes(k, new) ==
    call' = [call EXCEPT ![k] =
        IF new.step \in {"answered", "refused"} /\ ~new.heard THEN NoFetch("done") ELSE new]

(* Mutant: the upsert sets every column, and those the call leaves out to NULL. *)
WriteAll(k) ==
    LET c == call[k].column IN
    /\ call[k].step = "sent"
    /\ row' = [Nothing EXCEPT ![c] = Stored(c, call[k].value)]
    /\ reviewer' = call[k].tab
    /\ \/ Becomes(k, [call[k] EXCEPT !.step = IF c = "notes" THEN "answered" ELSE "written"])
       \/ Becomes(k, [call[k] EXCEPT !.step = "refused", !.alone = {}])
    /\ sure' = [t \in Tab |-> IF t = call[k].tab THEN sure[t] ELSE sure[t] \ Touched(c)]
    /\ UNCHANGED page

(* Mutant: notes do not stamp the reviewer. *)
WriteUnstamped(k) ==
    LET c == call[k].column IN
    /\ call[k].step = "sent"
    /\ row' = [row EXCEPT ![c] = Stored(c, call[k].value)]
    /\ reviewer' = IF c = "notes" THEN reviewer ELSE call[k].tab
    /\ \/ Becomes(k, [call[k] EXCEPT !.step = IF c = "notes" THEN "answered" ELSE "written"])
       \/ Becomes(k, [call[k] EXCEPT !.step = "refused", !.alone = {}])
    /\ sure' = [t \in Tab |-> IF t = call[k].tab THEN sure[t] ELSE sure[t] \ Touched(c)]
    /\ UNCHANGED page

(* SetDimension, SetNotes: an upsert of one column.  The connection may be *)
(* lost after the commit: then the call is refused all the same.           *)
Write(k) ==
    LET c == call[k].column IN
    /\ call[k].step = "sent"
    /\ row' = [row EXCEPT ![c] = Stored(c, call[k].value)]
    /\ reviewer' = call[k].tab
    /\ \/ Becomes(k, [call[k] EXCEPT !.step = IF c = "notes" THEN "answered" ELSE "written"])
       \/ Becomes(k, [call[k] EXCEPT !.step = "refused", !.alone = {}])
    /\ sure' = [t \in Tab |-> IF t = call[k].tab THEN sure[t] ELSE sure[t] \ Touched(c)]
    /\ UNCHANGED page

(* SetRating answers with the summary it reads back, or with zeros when the *)
(* read fails.                                                              *)
ReadBack(k) ==
    /\ call[k].step = "written"
    /\ \/ Becomes(k, [call[k] EXCEPT !.step = "answered", !.body = Summary(row)])
       \/ Becomes(k, [call[k] EXCEPT !.step = "answered", !.alone = @ \ {"summary"}])
    /\ UNCHANGED <<row, reviewer, page, sure>>

(* The session or the power is gone, the applicant is, or the upsert fails. *)
Refuse(k) ==
    /\ call[k].step = "sent"
    /\ Becomes(k, [call[k] EXCEPT !.step = "refused"])
    /\ UNCHANGED <<row, reviewer, page, sure>>
-----------------------------------------------------------------------------
(* The page hears of its call. *)

Saved(k) ==
    LET t == call[k].tab c == call[k].column IN
    /\ call[k].step = "answered"
    /\ summary' = IF c \in Dim THEN [summary EXCEPT ![t] = call[k].body] ELSE summary
    /\ sure' = [sure EXCEPT ![t] =
                   @ \cup (call[k].alone \ IF t \in typing THEN {"notes"} ELSE {})]
    /\ call' = [call EXCEPT ![k] = NoFetch("done")]
    /\ UNCHANGED <<row, reviewer, loading, open, shown, typing>>

(* The widget shows prev again; notes keep what was typed. *)
RollBack(k) == [shown EXCEPT ![call[k].tab][call[k].column] =
                   IF call[k].column \in Dim THEN call[k].prev ELSE @]

NotSaved(k) ==
    /\ call[k].step = "refused"
    /\ shown' = RollBack(k)
    /\ sure' = [sure EXCEPT ![call[k].tab] =
                   @ \cup ((call[k].alone \cap call[k].before) \ {"notes"})]
    /\ call' = [call EXCEPT ![k] = NoFetch("done")]
    /\ UNCHANGED <<row, reviewer, loading, open, summary, typing>>

(* "network error": the request or its answer is lost, and the handler may *)
(* still be at work.                                                       *)
HangUp(k) ==
    /\ Unfinished(k) /\ call[k].heard
    /\ shown' = RollBack(k)
    /\ Becomes(k, [call[k] EXCEPT !.heard = FALSE])
    /\ UNCHANGED <<row, reviewer, loading, open, summary, typing, sure>>

Next ==
    \/ \E t \in Tab :
        \/ Query(t) \/ Open(t) \/ SaveNotes(t)
        \/ \E d \in Dim, n \in 1..MaxStar : Rate(t, d, n)
        \/ \E text \in Value("notes") : Type(t, text)
    \/ \E k \in Call : Write(k) \/ ReadBack(k) \/ Refuse(k) \/ Saved(k) \/ NotSaved(k) \/ HangUp(k)

Spec == Init /\ [][Next]_vars
-----------------------------------------------------------------------------
(* "value is the saved rating ... on success the server confirms, on       *)
(* failure we roll back" (golab.js:691-693): whatever a page has loaded or  *)
(* saved since, or had refused, without another call that touched the same  *)
(* thing meanwhile, and without a lost answer, it shows as the row has it:  *)
(* each rating, the notes, and the summary line.  A save that had the row   *)
(* to itself repairs what earlier races left behind.                       *)
CardsSettle ==
    \A t \in open :
        /\ \A c \in Column \cap sure[t] : Stored(c, shown[t][c]) = row[c]
        /\ "summary" \in sure[t] => summary[t] = Summary(row)
=============================================================================
