------------------------------ MODULE WsClient ------------------------------
(***************************************************************************)
(* The browser's side of live updates (web/static/js/golab.js:3247-3335     *)
(* and 3860-3874): one socket per page, and retries with a growing delay.  *)
(*                                                                         *)
(* hx-boost swaps the body without a new page and evaluates its script     *)
(* tags again, so a page runs the module many times.  All runs share       *)
(* window.__golabWS; each has its own wsClosed, wsBackoff and wsRetryTimer, *)
(* and the timer of an older run goes on.  Server and network end sockets  *)
(* at any time: the 30 s request timeout of cmd/golab/main.go:133 alone    *)
(* ends every one of them.                                                 *)
(*                                                                         *)
(* The names a specification always has begin with Page here, so that one  *)
(* module can extend both ends of the channel, this one and WsHub.         *)
(***************************************************************************)
EXTENDS Naturals, FiniteSetsExt

CONSTANTS
    Place,           \* pages; each is a channel's topic, or NoChannel for all others
    NoChannel,
    MaxBackoff,      \* doublings of the delay; 5 in the code, from 1 s to 30 s
    MaxRuns          \* bound on the runs of the module in one page

ASSUME WsClientAssumption ==
    /\ NoChannel \in Place /\ MaxBackoff \in Nat /\ MaxRuns \in Nat \ {0}

PageRun == 1..MaxRuns
None == 0

VARIABLES
    page,        \* "here", "gone" after beforeunload, or "back" from the browser's cache
    place,       \* location.pathname
    loading,     \* script elements of swapped bodies that have not run yet
    runs,        \* runs of the module so far; they are numbered
    wsClosed, wsBackoff, wsRetryTimer,     \* of each run
    sock,        \* sock[i]: the socket run i opened last, until nobody hears of it
    current,     \* the run whose socket window.__golabWS is, or None
    kicked       \* live sockets of one run that the timer of another has closed

timers == <<wsClosed, wsBackoff, wsRetryTimer>>
pageVars == <<page, place, loading, runs, timers, sock, current, kicked>>

Socket == [state : {"none", "connecting", "open", "closing"}, topic : Place]
NoSocket == [state |-> "none", topic |-> NoChannel]
Connecting == [state |-> "connecting", topic |-> NoChannel]
Live == {i \in PageRun : sock[i].state \in {"connecting", "open"}}

PageTypeOK ==
    /\ page \in {"here", "gone", "back"} /\ place \in Place
    /\ runs \in PageRun /\ loading \in 0..MaxRuns - runs /\ kicked \in Nat
    /\ wsClosed \in [PageRun -> BOOLEAN] /\ wsRetryTimer \in [PageRun -> BOOLEAN]
    /\ wsBackoff \in [PageRun -> 0..MaxBackoff]
    /\ sock \in [PageRun -> Socket] /\ current \in 0..runs
    /\ \A i \in PageRun : i > runs => sock[i] = NoSocket /\ ~wsRetryTimer[i]

(* The page has loaded; init of the first run has called wsConnect. *)
PageInit ==
    /\ page = "here" /\ place \in Place /\ loading = 0 /\ runs = 1
    /\ wsClosed = [i \in PageRun |-> FALSE] /\ wsBackoff = [i \in PageRun |-> 0]
    /\ wsRetryTimer = [i \in PageRun |-> FALSE]
    /\ sock = [i \in PageRun |-> IF i = 1 THEN Connecting ELSE NoSocket]
    /\ current = 1 /\ kicked = 0
-----------------------------------------------------------------------------
(* Mutant: the delay doubles without a maximum. *)
ScheduleUncapped(i) ==
    /\ wsRetryTimer' = [wsRetryTimer EXCEPT ![i] = TRUE]
    /\ wsBackoff' = [wsBackoff EXCEPT ![i] = @ + 1]

(* scheduleReconnect. *)
Schedule(i) ==
    /\ wsRetryTimer' = [wsRetryTimer EXCEPT ![i] = TRUE]
    /\ wsBackoff' = [wsBackoff EXCEPT ![i] = Min({@ + 1, MaxBackoff})]

(* Mutant: the old socket keeps its handlers. *)
ClosedWired ==
    IF current \notin Live THEN sock ELSE [sock EXCEPT ![current].state = "closing"]

(* wsConnect closes the socket the page has, whoever opened it, after       *)
(* taking its handlers off; then it opens one, unless the constructor       *)
(* throws, and hands what happens to the timers to its caller.              *)
Closed == IF current = None THEN sock ELSE [sock EXCEPT ![current] = NoSocket]

Opened(i) == sock' = [Closed EXCEPT ![i] = Connecting] /\ current' = i
Threw(i) == sock' = [Closed EXCEPT ![i] = NoSocket] /\ current' = None

(* Mutant: only a socket that was open is replaced. *)
OnCloseOfOpen(i) ==
    IF wsClosed[i] \/ sock[i].state = "connecting" THEN UNCHANGED <<wsBackoff, wsRetryTimer>>
    ELSE Schedule(i)

(* onclose. *)
OnClose(i) ==
    IF wsClosed[i] THEN UNCHANGED <<wsBackoff, wsRetryTimer>> ELSE Schedule(i)

(* The timer fires: it is cleared, then wsConnect. *)
TimerFires(i) ==
    /\ page # "gone" /\ wsRetryTimer[i]
    /\ \/ Opened(i) /\ wsRetryTimer' = [wsRetryTimer EXCEPT ![i] = FALSE] /\ UNCHANGED wsBackoff
       \/ Threw(i) /\ Schedule(i)
    /\ kicked' = IF current \in Live THEN kicked + 1 ELSE kicked
    /\ UNCHANGED <<page, place, loading, runs, wsClosed>>

(* A boosted link: the location changes and the body is swapped; its        *)
(* script elements are fetched and run later.                               *)
Navigate(p) ==
    /\ page # "gone" /\ loading < MaxRuns - runs
    /\ place' = p /\ loading' = loading + 1
    /\ UNCHANGED <<page, runs, timers, sock, current, kicked>>

(* The module runs again with variables of its own, and init connects.      *)
RunScript ==
    /\ page # "gone" /\ loading > 0
    /\ loading' = loading - 1 /\ runs' = runs + 1
    /\ \/ Opened(runs + 1) /\ UNCHANGED <<wsBackoff, wsRetryTimer>>
       \/ Threw(runs + 1) /\ Schedule(runs + 1)
    /\ UNCHANGED <<page, place, wsClosed, kicked>>

(* onopen subscribes to what detectContext finds at that moment. *)
Opens(i) ==
    /\ page # "gone" /\ sock[i].state = "connecting"
    /\ sock' = [sock EXCEPT ![i] = [state |-> "open", topic |-> place]]
    /\ wsBackoff' = [wsBackoff EXCEPT ![i] = 0]
    /\ UNCHANGED <<page, place, loading, runs, wsClosed, wsRetryTimer, current, kicked>>

(* The attempt fails, the server or the network ends the socket, or the end *)
(* of one that was closed is noticed.                                       *)
Ends(i) ==
    /\ page # "gone" /\ sock[i].state # "none"
    /\ sock' = [sock EXCEPT ![i] = NoSocket]
    /\ OnClose(i)
    /\ UNCHANGED <<page, place, loading, runs, wsClosed, current, kicked>>

(* beforeunload: every run's listener. *)
Unload ==
    /\ page # "gone" /\ page' = "gone"
    /\ wsClosed' = [i \in PageRun |-> wsClosed[i] \/ i <= runs]
    /\ wsRetryTimer' = [i \in PageRun |-> FALSE]
    /\ sock' = IF current \in Live THEN [sock EXCEPT ![current].state = "closing"] ELSE sock
    /\ current' = None
    /\ UNCHANGED <<place, loading, runs, wsBackoff, kicked>>

(* The back button may bring the page as it was; init is not called. *)
Restore ==
    /\ page = "gone" /\ page' = "back"
    /\ UNCHANGED <<place, loading, runs, timers, sock, current, kicked>>

PageNext ==
    \/ \E i \in PageRun : TimerFires(i) \/ Opens(i) \/ Ends(i)
    \/ \E p \in Place : Navigate(p)
    \/ RunScript \/ Unload \/ Restore

(* The browser runs due timers; and attempts that never stop do not all     *)
(* fail, as the server comes back.                                          *)
PageFairness == \A i \in PageRun : WF_pageVars(TimerFires(i)) /\ SF_pageVars(Opens(i))

PageSpec == PageInit /\ [][PageNext]_pageVars /\ PageFairness
-----------------------------------------------------------------------------
(* Runs that beforeunload has not ended: somebody looks at their page. *)
Wanted == {i \in 1..runs : ~wsClosed[i]}
Pending == {i \in PageRun : wsRetryTimer[i]}

(* "close the old one before opening a new one (also catches re-inits after *)
(* HTMX hx-boost swaps which re-run this module)" (golab.js:3257-3259): at   *)
(* most one socket is live.                                                  *)
OneSocket == Live \subseteq {current}

(* While the page is wanted there is a socket or a timer for one, and no    *)
(* more than the runs account for: a timer that an older run left behind    *)
(* closes a healthy socket once and is gone.                                *)
KeepsTrying ==
    /\ Wanted # {} => Live \cup Pending # {}
    /\ Cardinality(Live) + Cardinality(Pending) + kicked <= runs

(* An open socket is subscribed to the channel that the page shows, once    *)
(* the scripts of the last navigation have run (golab.js:3296-3300).        *)
SubscribedHere ==
    loading = 0 => \A i \in Live : sock[i].state = "open" => sock[i].topic = place

StaysLive == OneSocket /\ KeepsTrying /\ SubscribedHere

(* A page that is wanted is connected again and again. *)
Reconnects == []<>(Wanted = {} \/ \E i \in Live : sock[i].state = "open")
=============================================================================
