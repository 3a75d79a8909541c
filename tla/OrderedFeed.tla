---------------------------- MODULE OrderedFeed ----------------------------
(***************************************************************************)
(* What the WebSocket fan-out promises a browser, without its channels,    *)
(* goroutines and buffers: messages are numbered in the order the hub      *)
(* accepts them, and a connection sees some of them, each at most once and *)
(* never an older one after a newer one.  Messages may be skipped (a full  *)
(* queue, a slow client, a lost connection), never reordered or repeated.  *)
(***************************************************************************)
EXTENDS Naturals

CONSTANT Client      \* the WebSocket connections

VARIABLES
    accepted,        \* how many messages the hub has accepted so far
    last             \* last[c]: number of the newest message written to c

feedVars == <<accepted, last>>

Init == /\ accepted = 0
        /\ last = [c \in Client |-> 0]

(* A publisher got its message into the broadcast queue. *)
Accept == /\ accepted' = accepted + 1
          /\ UNCHANGED last

(* c is sent a message newer than every message it has seen. *)
Deliver(c) == /\ \E n \in (last[c] + 1)..accepted :
                    last' = [last EXCEPT ![c] = n]
              /\ UNCHANGED accepted

Next == Accept \/ \E c \in Client : Deliver(c)

Spec == Init /\ [][Next]_feedVars
=============================================================================
