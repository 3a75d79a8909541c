--------------------------- MODULE ReadingLedger ---------------------------
(***************************************************************************)
(* What the reading tracker promises: every second a tab ticks off is in   *)
(* one place, still unsent, in a heartbeat that is under way, or recorded; *)
(* a heartbeat is recorded whole and once, or dropped whole.  An item is a *)
(* post, or the user's active time.                                        *)
(***************************************************************************)
EXTENDS Naturals

CONSTANTS Item, Heartbeat

VARIABLES
    unsent,      \* unsent[i]: seconds the tabs hold for item i
    sent,        \* sent[h][i]: seconds heartbeat h will add, 0 when it is over
    recorded     \* recorded[i]: seconds in the database

vars == <<unsent, sent, recorded>>
Nothing == [i \in Item |-> 0]

Init ==
    /\ unsent = Nothing
    /\ sent = [h \in Heartbeat |-> Nothing]
    /\ recorded \in [Item -> Nat]

Tick ==
    /\ \A i \in Item : unsent'[i] \in {unsent[i], unsent[i] + 1}
    /\ UNCHANGED <<sent, recorded>>

(* What a cap cuts off leaves the books for good. *)
Send(h) ==
    /\ sent[h] = Nothing
    /\ \A i \in Item : sent'[h][i] + unsent'[i] <= unsent[i]
    /\ \A g \in Heartbeat \ {h} : sent'[g] = sent[g]
    /\ UNCHANGED recorded

Record(h) ==
    /\ recorded' = [i \in Item |-> recorded[i] + sent[h][i]]
    /\ sent' = [sent EXCEPT ![h] = Nothing]
    /\ UNCHANGED unsent

Drop(h) ==
    /\ sent' = [sent EXCEPT ![h] = Nothing]
    /\ UNCHANGED <<unsent, recorded>>

Next ==
    \/ Tick
    \/ \E h \in Heartbeat : Send(h) \/ Record(h) \/ Drop(h)

Spec == Init /\ [][Next]_vars
=============================================================================
