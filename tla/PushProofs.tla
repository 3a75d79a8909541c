----------------------------- MODULE PushProofs -----------------------------
(* Proofs about the two ends of the push channel.  First the hub of        *)
(* internal/handler/ws.go (WsHub), for every set of connections, topics    *)
(* and posters and every buffer size; then the page's socket and its       *)
(* retries in golab.js (WsClient), for any pages, any largest delay and    *)
(* any number of runs of the module in one page.                           *)
EXTENDS WsHub, WsClient, FiniteSetTheorems, TLAPS
-----------------------------------------------------------------------------
(* The hub.                                                                *)

(* A send on a buffered channel with room, and a receive from one. *)

LEMMA Enqueued ==
    ASSUME NEW S, NEW cap \in Nat, NEW s \in Seq(S), Len(s) < cap, NEW x \in S
    PROVE  Append(s, x) \in Seq(S) /\ Len(Append(s, x)) <= cap
  OBVIOUS

LEMMA Dequeued ==
    ASSUME NEW S, NEW cap \in Nat, NEW s \in Seq(S), Len(s) <= cap, s # <<>>
    PROVE  Tail(s) \in Seq(S) /\ Len(Tail(s)) <= cap /\ Head(s) \in S
  OBVIOUS

LEMMA Capacities == /\ RegisterCap \in Nat /\ UnregisterCap \in Nat
                    /\ BroadcastCap \in Nat /\ SendCap \in Nat
  BY HubAssumption

LEMMA TopicFacts == /\ Global \in Topic
                    /\ ChannelTopic \subseteq Topic
                    /\ UserTopics \subseteq Topic
                    /\ NoTopic \notin Topic
                    /\ \A c \in Client : UserTopic[c] \in Topic \cup {NoTopic}
  BY HubAssumption DEF Topic, UserTopics
-----------------------------------------------------------------------------
(* Type correctness: every buffer stays within its capacity, however many  *)
(* publishers, connections and drops there are.                            *)
THEOREM TypeCorrect == Spec => []TypeOK
<1> USE DEF hubVars, connVars, publishers
<1>1. Init => TypeOK
  <2>1. \A S : <<>> \in Seq(S) /\ Len(<<>>) = 0
    OBVIOUS
  <2>2. \A c \in Nat : 0 <= c
    OBVIOUS
  <2>3. QED
    BY <2>1, <2>2, Capacities, TopicFacts DEF Init, TypeOK, HandlerState
<1>2. TypeOK /\ [Next]_vars => TypeOK'
  <2> SUFFICES ASSUME TypeOK, [Next]_vars PROVE TypeOK'
    OBVIOUS
  <2>1. ASSUME NEW c \in Client, Accept(c) PROVE TypeOK'
    BY <2>1 DEF TypeOK, Accept, Goto, HandlerState
  <2>2. ASSUME NEW c \in Client, SendRegister(c) PROVE TypeOK'
    <3>1. /\ register \in Seq(Client) /\ Len(register) < RegisterCap
          /\ register' = Append(register, c)
      BY <2>2 DEF TypeOK, SendRegister
    <3>2. register' \in Seq(Client) /\ Len(register') <= RegisterCap
      BY <3>1, Enqueued, Capacities
    <3>3. QED
      BY <2>2, <3>2 DEF TypeOK, SendRegister, Goto, HandlerState
  <2>3. ASSUME NEW c \in Client, JoinGlobal(c) PROVE TypeOK'
    BY <2>3, TopicFacts DEF TypeOK, JoinGlobal, Goto, HandlerState
  <2>4. ASSUME NEW c \in Client, JoinUser(c) PROVE TypeOK'
    BY <2>4, TopicFacts DEF TypeOK, JoinUser, Goto, HandlerState
  <2>5. ASSUME NEW c \in Client, ReadFails(c) PROVE TypeOK'
    BY <2>5 DEF TypeOK, ReadFails, Goto, HandlerState
  <2>6. ASSUME NEW c \in Client, SendUnregister(c) PROVE TypeOK'
    <3>1. /\ unregister \in Seq(Client) /\ Len(unregister) < UnregisterCap
          /\ unregister' = Append(unregister, c)
      BY <2>6 DEF TypeOK, SendUnregister
    <3>2. unregister' \in Seq(Client) /\ Len(unregister') <= UnregisterCap
      BY <3>1, Enqueued, Capacities
    <3>3. QED
      BY <2>6, <3>2 DEF TypeOK, SendUnregister, Goto, HandlerState
  <2>7. ASSUME NEW c \in Client, Ping(c) PROVE TypeOK'
    <3>1. /\ send[c] \in Seq(Message \cup {Pong}) /\ Len(send[c]) < SendCap
          /\ Pong \in Message \cup {Pong}
      BY <2>7 DEF TypeOK, Ping
    <3>2. /\ Append(send[c], Pong) \in Seq(Message \cup {Pong})
          /\ Len(Append(send[c], Pong)) <= SendCap
      BY <3>1, Enqueued, Capacities
    <3>3. QED
      BY <2>7, <3>2 DEF TypeOK, Ping
  <2>8. ASSUME NEW c \in Client, PingPanics(c) PROVE TypeOK'
    BY <2>8 DEF TypeOK, PingPanics, Goto, HandlerState
  <2>9. ASSUME NEW c \in Client, NEW t \in Topic, Subscribe(c, t) PROVE TypeOK'
    BY <2>9 DEF TypeOK, Subscribe
  <2>10. ASSUME NEW c \in Client, NEW t \in Topic, Unsubscribe(c, t) PROVE TypeOK'
    BY <2>10 DEF TypeOK, Unsubscribe
  <2>11. ASSUME NEW c \in Client, CutConnection(c) PROVE TypeOK'
    BY <2>11 DEF TypeOK, CutConnection
  <2>12. ASSUME NEW c \in Client, WriteMessage(c) PROVE TypeOK'
    <3>1. send[c] \in Seq(Message \cup {Pong}) /\ Len(send[c]) <= SendCap /\ send[c] # <<>>
      BY <2>12 DEF TypeOK, WriteMessage
    <3>2. /\ Tail(send[c]) \in Seq(Message \cup {Pong}) /\ Len(Tail(send[c])) <= SendCap
          /\ Head(send[c]) \in Message \cup {Pong}
      BY <3>1, Dequeued, Capacities
    <3>3. last' \in [Client -> Nat]
      BY <2>12, <3>2 DEF TypeOK, WriteMessage, Message
    <3>4. QED
      BY <2>12, <3>2, <3>3 DEF TypeOK, WriteMessage
  <2>12a. ASSUME NEW c \in Client, WriteFails(c) PROVE TypeOK'
    <3>1. send[c] \in Seq(Message \cup {Pong}) /\ Len(send[c]) <= SendCap /\ send[c] # <<>>
      BY <2>12a DEF TypeOK, WriteFails
    <3>2. Tail(send[c]) \in Seq(Message \cup {Pong}) /\ Len(Tail(send[c])) <= SendCap
      BY <3>1, Dequeued, Capacities
    <3>3. QED
      BY <2>12a, <3>2 DEF TypeOK, WriteFails
  <2>13. ASSUME NEW c \in Client, WriterStops(c) PROVE TypeOK'
    BY <2>13 DEF TypeOK, WriterStops
  <2>14. ASSUME NEW c \in Client, DropClient(c) PROVE TypeOK'
    <3>1. /\ unregister \in Seq(Client) /\ Len(unregister) < UnregisterCap
          /\ unregister' = Append(unregister, c)
      BY <2>14 DEF TypeOK, DropClient
    <3>2. unregister' \in Seq(Client) /\ Len(unregister') <= UnregisterCap
      BY <3>1, Enqueued, Capacities
    <3>3. droppers' \in [Client -> Nat]
      <4>1. droppers \in [Client -> Nat] /\ droppers[c] > 0
        BY <2>14 DEF TypeOK, DropClient
      <4>2. droppers[c] - 1 \in Nat
        BY <4>1
      <4>3. QED
        BY <2>14, <4>1, <4>2 DEF DropClient
    <3>4. QED
      BY <2>14, <3>2, <3>3 DEF TypeOK, DropClient
  <2>15. CASE TakeRegister
    <3>1. register \in Seq(Client) /\ Len(register) <= RegisterCap /\ register # <<>>
      BY <2>15 DEF TypeOK, TakeRegister
    <3>2. /\ Tail(register) \in Seq(Client) /\ Len(Tail(register)) <= RegisterCap
          /\ Head(register) \in Client
      BY <3>1, Dequeued, Capacities
    <3>3. QED
      BY <2>15, <3>2 DEF TypeOK, TakeRegister
  <2>16. CASE TakeUnregister
    <3>1. unregister \in Seq(Client) /\ Len(unregister) <= UnregisterCap /\ unregister # <<>>
      BY <2>16 DEF TypeOK, TakeUnregister
    <3>2. /\ Tail(unregister) \in Seq(Client) /\ Len(Tail(unregister)) <= UnregisterCap
          /\ Head(unregister) \in Client
      BY <3>1, Dequeued, Capacities
    <3>3. QED
      BY <2>16, <3>2 DEF TypeOK, TakeUnregister, Remove
  <2>17. CASE TakeBroadcast
    <3> DEFINE m == Head(broadcast)
    <3>1. broadcast \in Seq(Message) /\ Len(broadcast) <= BroadcastCap /\ broadcast # <<>>
      BY <2>17 DEF TypeOK, TakeBroadcast
    <3>2. /\ Tail(broadcast) \in Seq(Message) /\ Len(Tail(broadcast)) <= BroadcastCap
          /\ m \in Message
      BY <3>1, Dequeued, Capacities
    <3>3. m.topic \in Topic
      BY <3>2 DEF Message
    <3> HIDE DEF m
    <3>4. ASSUME Enqueue(m), NEW c \in Client
          PROVE  send'[c] \in Seq(Message \cup {Pong}) /\ Len(send'[c]) <= SendCap
      <4>1. send[c] \in Seq(Message \cup {Pong}) /\ Len(send[c]) <= SendCap
        BY DEF TypeOK
      <4>2. CASE c \in topics[m.topic] \ Full(m)
        <5>1. send'[c] = Append(send[c], m) /\ Len(send[c]) # SendCap
          BY <3>4, <4>2 DEF Enqueue, Full
        <5>2. Len(send[c]) < SendCap
          BY <4>1, <5>1, Capacities
        <5>3. QED
          BY <3>2, <4>1, <5>1, <5>2, Enqueued, Capacities
      <4>3. CASE c \notin topics[m.topic] \ Full(m)
        BY <3>4, <4>1, <4>3 DEF Enqueue
      <4>4. QED
        BY <4>2, <4>3
    <3>5. Enqueue(m) => send' \in [Client -> Seq(Message \cup {Pong})]
      BY <3>4 DEF Enqueue
    <3>6. Full(m) \subseteq Client
      BY <3>3 DEF TypeOK, Full
    <3>7. FanOut(m)
      BY <2>17 DEF TakeBroadcast, m
    <3>8. /\ send' \in [Client -> Seq(Message \cup {Pong})]
          /\ \A c \in Client : Len(send'[c]) <= SendCap
      <4>1. CASE Enqueue(m)
        BY <3>4, <3>5, <4>1
      <4>2. CASE send' = send
        BY <4>2 DEF TypeOK
      <4>3. QED
        BY <3>7, <4>1, <4>2 DEF FanOut
    <3>9. droppers' \in [Client -> Nat] /\ missed' \subseteq Client
      <4>1. droppers \in [Client -> Nat] /\ missed \subseteq Client
        BY DEF TypeOK
      <4>2. \A c \in Client : droppers[c] + 1 \in Nat
        BY <4>1
      <4>3. QED
        BY <3>6, <3>7, <4>1, <4>2 DEF FanOut
    <3>10. /\ hub' \in {"running", "send on closed channel", "close of closed channel"}
           /\ UNCHANGED <<clients, topics, closed, early>>
      BY <3>7 DEF FanOut, TypeOK
    <3>11. /\ broadcast' = Tail(broadcast)
           /\ UNCHANGED <<register, unregister, connVars, publishers>>
      BY <2>17 DEF TakeBroadcast
    <3>12. QED
      BY <3>2, <3>8, <3>9, <3>10, <3>11 DEF TypeOK
  <2>18. ASSUME NEW t \in Topic, Publish(t)
         PROVE  /\ broadcast' \in Seq(Message) /\ Len(broadcast') <= BroadcastCap
                /\ published' \in Nat /\ accepted' \in Nat
                /\ UNCHANGED <<hub, hubVars, register, unregister, send, connVars>>
    <3>0. published \in Nat /\ accepted \in Nat
      BY DEF TypeOK
    <3>1. broadcast \in Seq(Message) /\ Len(broadcast) <= BroadcastCap
      BY DEF TypeOK
    <3>2. [topic |-> t, id |-> accepted + 1] \in Message
      <4>1. accepted + 1 \in Nat \ {0}
        BY <3>0
      <4>2. QED
        BY <4>1 DEF Message
    <3>3. CASE Len(broadcast) < BroadcastCap
      <4>1. broadcast' = Append(broadcast, [topic |-> t, id |-> accepted + 1])
        BY <2>18, <3>3 DEF Publish
      <4>2. broadcast' \in Seq(Message) /\ Len(broadcast') <= BroadcastCap
        BY <3>1, <3>2, <3>3, <4>1, Enqueued, Capacities
      <4>3. QED
        BY <2>18, <3>0, <3>3, <4>2 DEF Publish
    <3>4. CASE ~(Len(broadcast) < BroadcastCap)
      BY <2>18, <3>0, <3>1, <3>4 DEF Publish
    <3>5. QED
      BY <3>3, <3>4
  <2>19. CASE Publishing
    <3>1. PICK t \in Topic : Publish(t) /\ second' \in [Poster -> ChannelTopic \cup {NoTopic}]
      BY <2>19, TopicFacts
         DEF Publishing, PublishToUser, PublishPost, PublishPostToChannel, TypeOK
    <3>2. QED
      BY <2>18, <3>1 DEF TypeOK
  <2>20. CASE UNCHANGED vars
    BY <2>20 DEF vars, TypeOK
  <2>21. QED
    BY <2>1, <2>2, <2>3, <2>4, <2>5, <2>6, <2>7, <2>8, <2>9, <2>10, <2>11, <2>12, <2>12a, <2>13,
       <2>14, <2>15, <2>16, <2>17, <2>19, <2>20
       DEF Next, Handler, Frame, Writer, Run
<1>3. QED
  BY <1>1, <1>2, PTL DEF Spec
-----------------------------------------------------------------------------
(* Why no channel is closed twice.  A connection is registered once in its *)
(* life: until it has sent itself to register it is nowhere, afterwards it *)
(* is in at most one of register, clients and closed.                      *)
Nowhere(c) == /\ c \notin clients \cup closed
              /\ \A i \in DOMAIN register : register[i] # c

OneLife ==
    /\ \A c \in Client : handler[c] \in {"idle", "accepted"} => Nowhere(c)
    /\ \A i \in DOMAIN register : register[i] \notin clients \cup closed
    /\ \A i, j \in DOMAIN register : register[i] = register[j] => i = j
    /\ clients \cap closed = {}
    /\ NoDoubleClose

(* Every step that leaves the hub's record of who is registered alone, and *)
(* starts no connection over, keeps OneLife.                               *)
LEMMA OneLifeFrame ==
    ASSUME OneLife, UNCHANGED <<register, clients, closed>>,
           hub' = hub \/ hub' = "send on closed channel",
           \A c \in Client : handler'[c] \in {"idle", "accepted"}
                              => handler[c] \in {"idle", "accepted"}
    PROVE  OneLife'
  BY DEF OneLife, Nowhere, NoDoubleClose

LEMMA OneLifeStep == TypeOK /\ OneLife /\ [Next]_vars => OneLife'
<1> SUFFICES ASSUME TypeOK, OneLife, [Next]_vars PROVE OneLife'
  OBVIOUS
<1> USE DEF hubVars, connVars, publishers
<1>0. handler \in [Client -> HandlerState]
  BY DEF TypeOK
<1>1. ASSUME NEW c \in Client, Accept(c) PROVE OneLife'
  BY <1>0, <1>1, OneLifeFrame DEF Accept, Goto
<1>2. ASSUME NEW c \in Client, SendRegister(c) PROVE OneLife'
  <2>1. register \in Seq(Client) /\ Nowhere(c)
    BY <1>2 DEF SendRegister, Goto, TypeOK, OneLife
  <2>2. register' = Append(register, c) /\ UNCHANGED <<hub, clients, closed>>
    BY <1>2 DEF SendRegister
  <2>3. /\ DOMAIN register' = DOMAIN register \cup {Len(register) + 1}
        /\ Len(register) + 1 \notin DOMAIN register
        /\ \A i \in DOMAIN register : register'[i] = register[i]
        /\ register'[Len(register) + 1] = c
    BY <2>1, <2>2
  <2>4. \A d \in Client : handler'[d] \in {"idle", "accepted"}
                           => d # c /\ handler[d] \in {"idle", "accepted"}
    BY <1>0, <1>2 DEF SendRegister, Goto
  <2>5. \A d \in Client : handler'[d] \in {"idle", "accepted"} => Nowhere(d)'
    BY <2>2, <2>3, <2>4 DEF OneLife, Nowhere
  <2>6. \A i, j \in DOMAIN register' : register'[i] = register'[j] => i = j
    BY <2>1, <2>3 DEF OneLife, Nowhere
  <2>7. \A i \in DOMAIN register' : register'[i] \notin clients' \cup closed'
    BY <2>1, <2>2, <2>3 DEF OneLife, Nowhere
  <2>8. QED
    BY <2>2, <2>5, <2>6, <2>7 DEF OneLife, NoDoubleClose
<1>3. CASE TakeRegister
  <2> DEFINE c == Head(register)
  <2>1. /\ register \in Seq(Client) /\ register # <<>> /\ register' = Tail(register)
        /\ clients' = clients \cup {c} /\ UNCHANGED <<hub, closed, handler>>
    BY <1>3 DEF TakeRegister, TypeOK
  <2>2. /\ c = register[1] /\ 1 \in DOMAIN register
        /\ \A i \in DOMAIN register' : /\ i + 1 \in DOMAIN register /\ i + 1 # 1
                                         /\ register'[i] = register[i + 1]
        /\ \A i, j \in DOMAIN register' : i + 1 = j + 1 => i = j
    BY <2>1
  <2>3. c \notin clients \cup closed /\ \A i \in DOMAIN register' : register'[i] # c
    BY <2>2 DEF OneLife
  <2>4. \A d \in Client : handler'[d] \in {"idle", "accepted"} => Nowhere(d)'
    BY <2>1, <2>2 DEF OneLife, Nowhere
  <2>5. \A i \in DOMAIN register' : register'[i] \notin clients' \cup closed'
    BY <2>1, <2>2, <2>3 DEF OneLife
  <2>6. \A i, j \in DOMAIN register' : register'[i] = register'[j] => i = j
    BY <2>2 DEF OneLife
  <2>7. clients' \cap closed' = {} /\ NoDoubleClose'
    BY <2>1, <2>3 DEF OneLife, NoDoubleClose
  <2>8. QED
    BY <2>4, <2>5, <2>6, <2>7 DEF OneLife
<1>4. CASE TakeUnregister
  <2> DEFINE c == Head(unregister)
  <2>1. CASE c \in clients
    <3>1. /\ clients' = clients \ {c} /\ closed' = closed \cup {c}
          /\ hub' = (IF c \in closed THEN "close of closed channel" ELSE hub)
          /\ UNCHANGED <<register, handler>>
      BY <1>4, <2>1 DEF TakeUnregister, Remove
    <3>2. c \notin closed
      BY <2>1 DEF OneLife
    <3>3. QED
      BY <2>1, <3>1, <3>2 DEF OneLife, Nowhere, NoDoubleClose
  <2>2. CASE c \notin clients
    <3>1. UNCHANGED <<hub, clients, closed, register, handler>>
      BY <1>4, <2>2 DEF TakeUnregister
    <3>2. QED
      BY <3>1, OneLifeFrame
  <2>3. QED
    BY <2>1, <2>2
<1>5. ASSUME NEW c \in Client, SendUnregister(c) \/ JoinGlobal(c) \/ JoinUser(c)
                               \/ ReadFails(c) \/ PingPanics(c)
      PROVE  OneLife'
  BY <1>0, <1>5, OneLifeFrame
     DEF SendUnregister, JoinGlobal, JoinUser, ReadFails, PingPanics, Goto
<1>6. ASSUME NEW c \in Client,
             CutConnection(c) \/ DropClient(c) \/ Ping(c) \/ Writer(c)
             \/ \E t \in Topic : Subscribe(c, t) \/ Unsubscribe(c, t)
      PROVE  OneLife'
  BY <1>6, OneLifeFrame
     DEF CutConnection, DropClient, Ping, Writer, WriteMessage, WriteFails, WriterStops, Subscribe,
         Unsubscribe
<1>7. CASE TakeBroadcast
  BY <1>7, OneLifeFrame DEF TakeBroadcast, FanOut
<1>8. CASE Publishing
  BY <1>8, OneLifeFrame
     DEF Publishing, PublishToUser, PublishPost, PublishPostToChannel, Publish
<1>9. CASE UNCHANGED vars
  BY <1>9, OneLifeFrame DEF vars
<1>10. QED
  BY <1>1, <1>2, <1>3, <1>4, <1>5, <1>6, <1>7, <1>8, <1>9
     DEF Next, Handler, Frame, Run

LEMMA OneLifeInvariant == Spec => []OneLife
<1>1. Init => OneLife
  BY DEF Init, OneLife, Nowhere, NoDoubleClose
<1>2. QED
  BY <1>1, OneLifeStep, TypeCorrect, PTL DEF Spec

(* No interleaving of drops, disconnections and registrations makes Run    *)
(* close a channel twice.                                                  *)
THEOREM ClosedOnce == Spec => []NoDoubleClose
<1>1. OneLife => NoDoubleClose
  BY DEF OneLife
<1>2. QED
  BY <1>1, OneLifeInvariant, PTL
-----------------------------------------------------------------------------
(* Why no connection sees a message twice or out of order.  Numbers rise   *)
(* along the path of a message: what a connection has been written lies    *)
(* below what its buffer holds, and that below what is still in broadcast. *)
Entry == Message \cup {Pong}

Rising(s) == \A i, j \in DOMAIN s : i < j /\ s[i] # Pong /\ s[j] # Pong => s[i].id < s[j].id
Within(s, low, high) == \A i \in DOMAIN s : s[i] # Pong => low < s[i].id /\ s[i].id <= high
Before(s, b) == \A i \in DOMAIN s, k \in DOMAIN b : s[i] # Pong => s[i].id < b[k].id

Ordered ==
    /\ Rising(broadcast)
    /\ \A c \in Client : /\ last[c] <= accepted
                         /\ Within(broadcast, last[c], accepted)
                         /\ Within(send[c], last[c], accepted)
                         /\ Rising(send[c])
                         /\ Before(send[c], broadcast)
    /\ Within(broadcast, 0, accepted)

LEMMA EntryFacts == /\ \A m \in Message : m # Pong /\ m \in Entry /\ m.id \in Nat
                    /\ Pong \in Entry
                    /\ \A e \in Entry : e # Pong => e \in Message /\ e.id \in Nat
  BY DEF Message, Pong, Entry

(* The elements of a queue after a send and after a receive. *)
LEMMA AppendAt ==
    ASSUME NEW S, NEW s \in Seq(S), NEW x \in S
    PROVE  /\ DOMAIN s = 1..Len(s) /\ Len(s) \in Nat
           /\ DOMAIN Append(s, x) = 1..(Len(s) + 1)
           /\ \A i \in DOMAIN s : Append(s, x)[i] = s[i] /\ s[i] \in S
           /\ Append(s, x)[Len(s) + 1] = x
  OBVIOUS

LEMMA TailAt ==
    ASSUME NEW S, NEW s \in Seq(S), s # <<>>
    PROVE  /\ DOMAIN s \subseteq Nat /\ \A i \in DOMAIN s : s[i] \in S
           /\ 1 \in DOMAIN s /\ Head(s) = s[1]
           /\ \A i \in DOMAIN Tail(s) : /\ i \in Nat /\ i + 1 \in DOMAIN s /\ 1 < i + 1
                                        /\ Tail(s)[i] = s[i + 1]
  OBVIOUS

LEMMA RisingAppend ==
    ASSUME NEW s \in Seq(Entry), Rising(s), NEW x \in Entry,
           x # Pong => \A i \in DOMAIN s : s[i] # Pong => s[i].id < x.id
    PROVE  Rising(Append(s, x))
<1> DEFINE a == Append(s, x)
<1>1. /\ DOMAIN s = 1..Len(s) /\ Len(s) \in Nat
      /\ DOMAIN a = 1..(Len(s) + 1)
      /\ \A i \in DOMAIN s : a[i] = s[i]
      /\ a[Len(s) + 1] = x
  BY AppendAt
<1> HIDE DEF a
<1> SUFFICES ASSUME NEW i \in DOMAIN a, NEW j \in DOMAIN a, i < j, a[i] # Pong, a[j] # Pong
             PROVE  a[i].id < a[j].id
  BY DEF Rising, a
<1>2. i \in DOMAIN s
  BY <1>1
<1>3. CASE j \in DOMAIN s
  BY <1>1, <1>2, <1>3 DEF Rising
<1>4. CASE j = Len(s) + 1
  BY <1>1, <1>2, <1>4
<1>5. QED
  BY <1>1, <1>3, <1>4

LEMMA WithinAppend ==
    ASSUME NEW s \in Seq(Entry), NEW low, NEW high, Within(s, low, high), NEW x \in Entry,
           x # Pong => low < x.id /\ x.id <= high
    PROVE  Within(Append(s, x), low, high)
<1>1. \A i \in DOMAIN Append(s, x) : \/ i \in DOMAIN s /\ Append(s, x)[i] = s[i]
                                     \/ Append(s, x)[i] = x
  BY AppendAt
<1>2. QED
  BY <1>1 DEF Within

LEMMA TailKeeps ==
    ASSUME NEW s \in Seq(Entry), s # <<>>
    PROVE  /\ Rising(s) => Rising(Tail(s))
           /\ \A low, high : Within(s, low, high) => Within(Tail(s), low, high)
           /\ \A b : Before(s, b) => Before(Tail(s), b)
           /\ \A q : Before(q, s) => Before(q, Tail(s))
<1> DEFINE t == Tail(s)
<1>1. \A i \in DOMAIN t : i \in Nat /\ i + 1 \in DOMAIN s /\ t[i] = s[i + 1]
  BY TailAt
<1> HIDE DEF t
<1>2. Rising(s) => Rising(t)
  <2> SUFFICES ASSUME Rising(s), NEW i \in DOMAIN t, NEW j \in DOMAIN t,
                      i < j, t[i] # Pong, t[j] # Pong
               PROVE  t[i].id < t[j].id
    BY DEF Rising
  <2>1. i + 1 < j + 1 /\ s[i + 1] = t[i] /\ s[j + 1] = t[j]
    BY <1>1
  <2>2. i + 1 \in DOMAIN s /\ j + 1 \in DOMAIN s
    BY <1>1
  <2>3. QED  BY <2>1, <2>2 DEF Rising
<1>3. \A low, high : Within(s, low, high) => Within(t, low, high)
  BY <1>1 DEF Within
<1>4. (\A b : Before(s, b) => Before(t, b)) /\ (\A q : Before(q, s) => Before(q, t))
  BY <1>1 DEF Before
<1>5. QED
  BY <1>2, <1>3, <1>4 DEF t

LEMMA OrderedStep == TypeOK /\ Ordered /\ [Next]_vars => Ordered'
<1> SUFFICES ASSUME TypeOK, Ordered, [Next]_vars PROVE Ordered'
  OBVIOUS
<1> USE DEF hubVars, connVars, publishers
<1>1. /\ send \in [Client -> Seq(Entry)] /\ broadcast \in Seq(Message)
      /\ broadcast \in Seq(Entry) /\ accepted \in Nat /\ last \in [Client -> Nat]
  <2>1. broadcast \in Seq(Message)
    BY DEF TypeOK
  <2>2. broadcast \in Seq(Entry)
    BY <2>1 DEF Entry
  <2>3. QED
    BY <2>1, <2>2 DEF TypeOK, Entry
<1>2. ASSUME UNCHANGED <<broadcast, send, last, accepted>> PROVE Ordered'
  BY <1>2 DEF Ordered
<1>3. ASSUME NEW c \in Client, WriteMessage(c) \/ WriteFails(c) PROVE Ordered'
  <2> DEFINE s == send[c]
             h == Head(s)
  <2>1. /\ s \in Seq(Entry) /\ s # <<>> /\ UNCHANGED <<broadcast, accepted>>
        /\ send' = [send EXCEPT ![c] = Tail(s)]
        /\ \/ last' = last
           \/ h # Pong /\ last' = [last EXCEPT ![c] = h.id]
    BY <1>1, <1>3 DEF WriteMessage, WriteFails
  <2>2. /\ 1 \in DOMAIN s /\ h = s[1] /\ h \in Entry
        /\ \A i \in DOMAIN Tail(s) : /\ i + 1 \in DOMAIN s /\ 1 < i + 1
                                     /\ Tail(s)[i] = s[i + 1]
    BY <2>1, TailAt
  <2>3. /\ last[c] <= accepted /\ Within(s, last[c], accepted) /\ Rising(s)
        /\ Before(s, broadcast) /\ Within(broadcast, last[c], accepted)
    BY DEF Ordered
  <2>4. /\ Rising(Tail(s)) /\ Within(Tail(s), last[c], accepted)
        /\ Before(Tail(s), broadcast)
    BY <2>1, <2>3, TailKeeps
  <2> HIDE DEF s, h
  <2>5. CASE last' = last
    <3>1. last' = last
      BY <2>5
    <3>2. \A d \in Client : d # c => send'[d] = send[d]
      BY <1>1, <2>1
    <3>3. send'[c] = Tail(s)
      BY <1>1, <2>1
    <3>4. QED
      BY <2>1, <2>3, <2>4, <3>1, <3>2, <3>3 DEF Ordered
  <2>6. CASE h # Pong /\ last' = [last EXCEPT ![c] = h.id]
    <3>1. last[c] < h.id /\ h.id <= accepted
      BY <2>2, <2>3, <2>6 DEF Within
    <3>2. Within(broadcast, h.id, accepted)
      BY <2>2, <2>3, <2>6 DEF Within, Before
    <3>3. Within(Tail(s), h.id, accepted)
      <4> SUFFICES ASSUME NEW i \in DOMAIN Tail(s), Tail(s)[i] # Pong
                   PROVE  h.id < Tail(s)[i].id /\ Tail(s)[i].id <= accepted
        BY DEF Within
      <4>1. s[1].id < s[i + 1].id
        BY <2>2, <2>3, <2>6 DEF Rising
      <4>2. QED
        BY <2>2, <2>4, <4>1 DEF Within
    <3>4. \A d \in Client : d # c => send'[d] = send[d] /\ last'[d] = last[d]
      BY <1>1, <2>1, <2>6
    <3>5. send'[c] = Tail(s) /\ last'[c] = h.id
      BY <1>1, <2>1, <2>6
    <3>6. QED
      BY <2>1, <2>3, <2>4, <3>1, <3>2, <3>3, <3>4, <3>5 DEF Ordered
  <2>7. QED
    BY <2>1, <2>5, <2>6
<1>4. ASSUME NEW c \in Client, Ping(c) PROVE Ordered'
  <2>1. send' = [send EXCEPT ![c] = Append(@, Pong)] /\ UNCHANGED <<broadcast, accepted, last>>
    BY <1>4 DEF Ping
  <2>2. send[c] \in Seq(Entry) /\ Pong \in Entry
    BY <1>1, EntryFacts
  <2>3. Rising(Append(send[c], Pong)) /\ Within(Append(send[c], Pong), last[c], accepted)
    BY <2>2, RisingAppend, WithinAppend DEF Ordered
  <2>4. Before(Append(send[c], Pong), broadcast)
    <3>1. \A i \in DOMAIN Append(send[c], Pong) :
            \/ i \in DOMAIN send[c] /\ Append(send[c], Pong)[i] = send[c][i]
            \/ Append(send[c], Pong)[i] = Pong
      BY <2>2, AppendAt
    <3>2. QED
      BY <3>1 DEF Ordered, Before
  <2>5. \A d \in Client : send'[d] = IF d = c THEN Append(send[c], Pong) ELSE send[d]
    BY <1>1, <2>1
  <2>6. QED
    BY <2>1, <2>3, <2>4, <2>5 DEF Ordered
<1>5. CASE TakeBroadcast
  <2> DEFINE m == Head(broadcast)
             b == Tail(broadcast)
  <2>1. /\ broadcast # <<>> /\ broadcast' = b /\ FanOut(m)
        /\ UNCHANGED <<accepted, last>>
    BY <1>5 DEF TakeBroadcast
  <2>2. /\ 1 \in DOMAIN broadcast /\ m = broadcast[1] /\ m \in Message /\ m \in Entry
        /\ \A i \in DOMAIN b : /\ i + 1 \in DOMAIN broadcast /\ 1 < i + 1
                               /\ b[i] = broadcast[i + 1] /\ b[i] \in Message
    BY <1>1, <2>1, TailAt, EntryFacts
  <2>3. /\ Rising(b) /\ Within(b, 0, accepted)
        /\ \A c \in Client : Within(b, last[c], accepted) /\ Before(send[c], b)
    BY <1>1, <2>1, TailKeeps DEF Ordered
  <2>4. \A c \in Client : send'[c] = send[c] \/ send'[c] = Append(send[c], m)
    BY <2>1 DEF FanOut, Enqueue
  <2>5. \A i \in DOMAIN b : m.id < b[i].id
    BY <2>2, EntryFacts DEF Ordered, Rising
  <2> HIDE DEF m, b
  <2>6. ASSUME NEW c \in Client
        PROVE  /\ Within(send'[c], last[c], accepted) /\ Rising(send'[c])
               /\ Before(send'[c], b)
    <3>1. /\ Within(send[c], last[c], accepted) /\ Rising(send[c]) /\ Before(send[c], b)
          /\ send[c] \in Seq(Entry)
      BY <1>1, <2>3 DEF Ordered
    <3>2. CASE send'[c] = Append(send[c], m)
      <4>1. last[c] < m.id /\ m.id <= accepted
        BY <2>2, EntryFacts DEF Ordered, Within
      <4>2. \A i \in DOMAIN send[c] : send[c][i] # Pong => send[c][i].id < m.id
        BY <2>2 DEF Ordered, Before
      <4>3. Within(Append(send[c], m), last[c], accepted) /\ Rising(Append(send[c], m))
        BY <2>2, <3>1, <4>1, <4>2, RisingAppend, WithinAppend
      <4>4. \A i \in DOMAIN Append(send[c], m) :
              \/ i \in DOMAIN send[c] /\ Append(send[c], m)[i] = send[c][i]
              \/ Append(send[c], m)[i] = m
        BY <2>2, <3>1, AppendAt
      <4>5. Before(Append(send[c], m), b)
        BY <2>5, <3>1, <4>4 DEF Before
      <4>6. QED
        BY <3>2, <4>3, <4>5
    <3>3. QED
      BY <2>4, <3>1, <3>2
  <2>7. QED
    BY <2>1, <2>3, <2>6 DEF Ordered
<1>6. ASSUME NEW t \in Topic, Publish(t) PROVE Ordered'
  <2> DEFINE x == [topic |-> t, id |-> accepted + 1]
  <2>1. CASE Len(broadcast) < BroadcastCap
    <3>1. /\ broadcast' = Append(broadcast, x) /\ accepted' = accepted + 1
          /\ UNCHANGED <<send, last>>
      BY <1>6, <2>1 DEF Publish
    <3>2. x \in Message /\ x \in Entry /\ x # Pong /\ x.id = accepted + 1
      <4>1. accepted + 1 \in Nat \ {0}
        BY <1>1
      <4>2. QED
        BY <4>1, EntryFacts DEF Message
    <3> HIDE DEF x
    <3>3. \A i \in DOMAIN broadcast : broadcast[i] \in Message /\ broadcast[i] # Pong
      BY <1>1, AppendAt, EntryFacts
    <3>4. Rising(Append(broadcast, x))
      <4>1. \A i \in DOMAIN broadcast : broadcast[i].id < accepted + 1
        BY <1>1, <3>3, EntryFacts DEF Ordered, Within
      <4>2. QED
        BY <1>1, <3>2, <4>1, RisingAppend DEF Ordered
    <3>5. ASSUME NEW s \in Seq(Entry), NEW low \in Nat, low <= accepted,
                 Within(s, low, accepted)
          PROVE  Within(s, low, accepted + 1)
      <4>1. \A i \in DOMAIN s : s[i] \in Entry
        BY AppendAt
      <4>2. QED
        BY <1>1, <3>5, <4>1, EntryFacts DEF Within
    <3>6. ASSUME NEW low \in Nat, low <= accepted, Within(broadcast, low, accepted)
          PROVE  Within(Append(broadcast, x), low, accepted + 1)
      <4>1. Within(broadcast, low, accepted + 1)
        BY <1>1, <3>5, <3>6
      <4>2. low < x.id /\ x.id <= accepted + 1
        BY <1>1, <3>2, <3>6
      <4>3. QED
        BY <1>1, <3>2, <4>1, <4>2, WithinAppend
    <3>7. ASSUME NEW c \in Client PROVE Before(send[c], Append(broadcast, x))
      <4>1. \A k \in DOMAIN Append(broadcast, x) :
              \/ k \in DOMAIN broadcast /\ Append(broadcast, x)[k] = broadcast[k]
              \/ Append(broadcast, x)[k] = x
        BY <1>1, <3>2, AppendAt
      <4>2. \A i \in DOMAIN send[c] : send[c][i] # Pong => send[c][i].id < x.id
        <5>1. \A i \in DOMAIN send[c] : send[c][i] \in Entry
          BY <1>1, AppendAt
        <5>2. Within(send[c], last[c], accepted)
          BY DEF Ordered
        <5>3. QED
          BY <1>1, <3>2, <5>1, <5>2, EntryFacts DEF Within
      <4>3. QED
        BY <4>1, <4>2 DEF Ordered, Before
    <3>8. ASSUME NEW c \in Client
          PROVE  /\ last[c] <= accepted + 1
                 /\ Within(Append(broadcast, x), last[c], accepted + 1)
                 /\ Within(send[c], last[c], accepted + 1)
      BY <1>1, <3>5, <3>6 DEF Ordered
    <3>9. Within(Append(broadcast, x), 0, accepted + 1)
      BY <1>1, <3>6 DEF Ordered
    <3>10. QED
      BY <3>1, <3>4, <3>7, <3>8, <3>9 DEF Ordered
  <2>2. CASE ~(Len(broadcast) < BroadcastCap)
    BY <1>2, <1>6, <2>2 DEF Publish
  <2>3. QED
    BY <2>1, <2>2
<1>7. CASE Publishing
  BY <1>6, <1>7, TopicFacts
     DEF Publishing, PublishToUser, PublishPost, PublishPostToChannel, TypeOK
<1>8. ASSUME NEW c \in Client, Accept(c) \/ Handler(c) \/ CutConnection(c) \/ DropClient(c)
                               \/ PingPanics(c) \/ WriterStops(c)
                               \/ \E t \in Topic : Subscribe(c, t) \/ Unsubscribe(c, t)
      PROVE  Ordered'
  BY <1>2, <1>8
     DEF Accept, Handler, SendRegister, JoinGlobal, JoinUser, ReadFails, SendUnregister,
         CutConnection, DropClient, PingPanics, WriterStops, Subscribe, Unsubscribe
<1>9. CASE TakeRegister \/ TakeUnregister
  BY <1>2, <1>9 DEF TakeRegister, TakeUnregister
<1>10. CASE UNCHANGED vars
  BY <1>2, <1>10 DEF vars
<1>11. QED
  BY <1>3, <1>4, <1>5, <1>7, <1>8, <1>9, <1>10 DEF Next, Frame, Writer, Run

LEMMA OrderedInvariant == Spec => []Ordered
<1>1. Init => Ordered
  <2>1. SUFFICES ASSUME Init PROVE Ordered
    OBVIOUS
  <2>2. /\ broadcast = <<>> /\ accepted = 0
        /\ \A c \in Client : send[c] = <<>> /\ last[c] = 0
    BY <2>1 DEF Init
  <2>3. DOMAIN <<>> = {}
    OBVIOUS
  <2>4. QED
    BY <2>2, <2>3 DEF Ordered, Rising, Within, Before
<1>2. QED
  BY <1>1, OrderedStep, TypeCorrect, PTL DEF Spec

(* The hub implements the ordered feed: whatever is dropped, the messages  *)
(* a connection is written keep the order in which the hub accepted them,  *)
(* and none comes twice.                                                   *)
THEOREM HubImplementsFeed == Spec => FeedSpec
<1>1. Init => Feed!Init
  BY DEF Init, Feed!Init
<1>2. TypeOK /\ Ordered /\ [Next]_vars => [Feed!Next]_(Feed!feedVars)
  <2> SUFFICES ASSUME TypeOK, Ordered, [Next]_vars PROVE [Feed!Next]_(Feed!feedVars)
    OBVIOUS
  <2> USE DEF hubVars, connVars, publishers
  <2>1. ASSUME NEW c \in Client, WriteMessage(c)
        PROVE  Feed!Deliver(c) \/ UNCHANGED <<accepted, last>>
    <3>1. CASE Head(send[c]) = Pong
      BY <2>1, <3>1 DEF WriteMessage
    <3>2. CASE Head(send[c]) # Pong
      <4>1. send[c] \in Seq(Entry) /\ send[c] # <<>>
        BY <2>1 DEF WriteMessage, TypeOK, Entry
      <4>2. /\ 1 \in DOMAIN send[c] /\ Head(send[c]) = send[c][1]
            /\ send[c][1] \in Entry
        BY <4>1, TailAt
      <4>3. /\ Head(send[c]).id \in Nat /\ accepted \in Nat /\ last[c] \in Nat
            /\ last[c] < Head(send[c]).id /\ Head(send[c]).id <= accepted
        BY <3>2, <4>2, EntryFacts DEF Ordered, Within, TypeOK
      <4>4. Head(send[c]).id \in (last[c] + 1)..accepted
        BY <4>3
      <4>5. QED
        BY <2>1, <3>2, <4>4 DEF WriteMessage, Feed!Deliver
    <3>3. QED
      BY <3>1, <3>2
  <2>2. ASSUME NEW t \in Topic, Publish(t)
        PROVE  Feed!Accept \/ UNCHANGED <<accepted, last>>
    BY <2>2 DEF Publish, Feed!Accept
  <2>3. CASE Publishing
    BY <2>2, <2>3, TopicFacts
       DEF Publishing, PublishToUser, PublishPost, PublishPostToChannel, TypeOK,
           Feed!Next, Feed!feedVars
  <2>4. ASSUME NEW c \in Client,
               Accept(c) \/ Handler(c) \/ CutConnection(c) \/ DropClient(c)
               \/ Frame(c) \/ WriteFails(c) \/ WriterStops(c)
        PROVE  UNCHANGED <<accepted, last>>
    BY <2>4
       DEF Accept, Handler, SendRegister, JoinGlobal, JoinUser, ReadFails, SendUnregister,
           CutConnection, DropClient, Frame, Ping, PingPanics, WriteFails, WriterStops,
           Subscribe, Unsubscribe
  <2>5. CASE Run
    BY <2>5 DEF Run, TakeRegister, TakeUnregister, TakeBroadcast, Feed!feedVars
  <2>6. CASE UNCHANGED vars
    BY <2>6 DEF vars, Feed!feedVars
  <2>7. QED
    BY <2>1, <2>3, <2>4, <2>5, <2>6 DEF Next, Writer, Feed!Next, Feed!feedVars
<1>3. QED
  BY <1>1, <1>2, TypeCorrect, OrderedInvariant, PTL DEF Spec, FeedSpec, Feed!Spec
-----------------------------------------------------------------------------
(* A client that was refused a message: until Run has closed its channel or *)
(* ignored its unregistration, somebody is about to unregister it.          *)
Leaving(c) == droppers[c] > 0 \/ \E i \in DOMAIN unregister : unregister[i] = c
SlowLeave == \A c \in missed \ (early \cup closed) : Leaving(c)

LEMMA SlowFrame ==
    ASSUME SlowLeave, UNCHANGED <<missed, early, closed, droppers, unregister>>
    PROVE  SlowLeave'
  BY DEF SlowLeave, Leaving

(* c is sent to unregister: everyone who was there still is. *)
LEMMA Queued ==
    ASSUME TypeOK, NEW c \in Client, unregister' = Append(unregister, c)
    PROVE  /\ \E i \in DOMAIN unregister' : unregister'[i] = c
           /\ \A d : (\E i \in DOMAIN unregister : unregister[i] = d)
                      => \E i \in DOMAIN unregister' : unregister'[i] = d
<1>1. unregister \in Seq(Client)
  BY DEF TypeOK
<1>2. /\ DOMAIN unregister = 1..Len(unregister) /\ Len(unregister) \in Nat
      /\ DOMAIN unregister' = 1..(Len(unregister) + 1)
      /\ \A i \in DOMAIN unregister : unregister'[i] = unregister[i]
      /\ unregister'[Len(unregister) + 1] = c
  BY <1>1, AppendAt
<1>3. QED
  BY <1>2

LEMMA SlowStep == TypeOK /\ TypeOK' /\ SlowLeave /\ [Next]_vars => SlowLeave'
<1> SUFFICES ASSUME TypeOK, TypeOK', SlowLeave, [Next]_vars PROVE SlowLeave'
  OBVIOUS
<1> USE DEF hubVars, connVars, publishers
<1>0. droppers \in [Client -> Nat] /\ missed \subseteq Client /\ unregister \in Seq(Client)
  BY DEF TypeOK
<1>1. CASE TakeUnregister
  <2>1. PICK c : c = Head(unregister)
    OBVIOUS
  <2>2. /\ unregister # <<>> /\ unregister' = Tail(unregister) /\ UNCHANGED <<droppers, missed>>
        /\ early \subseteq early' /\ closed \subseteq closed' /\ c \in early' \cup closed'
    BY <1>1, <2>1 DEF TakeUnregister, Remove
  <2>3. \A i \in DOMAIN unregister : unregister[i] = c
          \/ \E j \in DOMAIN unregister' : unregister'[j] = unregister[i]
    <3>1. unregister[1] = c
      BY <1>0, <2>1, <2>2, TailAt
    <3>2. ASSUME NEW i \in DOMAIN unregister, i # 1
          PROVE  \E j \in DOMAIN unregister' : unregister'[j] = unregister[i]
      <4>1. i - 1 \in DOMAIN unregister' /\ unregister'[i - 1] = unregister[i]
        BY <1>0, <2>2, <3>2
      <4>2. QED
        BY <4>1
    <3>3. QED
      BY <3>1, <3>2
  <2>4. QED
    BY <2>2, <2>3 DEF SlowLeave, Leaving
<1>2. CASE TakeBroadcast
  <2>1. PICK m : FanOut(m) /\ unregister' = unregister
    BY <1>2 DEF TakeBroadcast
  <2>2. UNCHANGED <<early, closed>>
    BY <2>1 DEF FanOut
  <2>3. CASE UNCHANGED <<droppers, missed>>
    BY <2>1, <2>2, <2>3, SlowFrame
  <2>4. CASE /\ droppers' = [c \in Client |-> IF c \in Full(m) THEN droppers[c] + 1 ELSE droppers[c]]
             /\ missed' = missed \cup Full(m)
    <3>1. \A c \in Client : /\ droppers[c] > 0 => droppers'[c] > 0
                            /\ c \in Full(m) => droppers'[c] > 0
      BY <1>0, <2>4
    <3>2. missed' \subseteq Client
      BY DEF TypeOK
    <3>3. QED
      BY <1>0, <2>1, <2>2, <2>4, <3>1, <3>2 DEF SlowLeave, Leaving
  <2>5. QED
    BY <2>1, <2>3, <2>4 DEF FanOut
<1>3. ASSUME NEW c \in Client, DropClient(c) PROVE SlowLeave'
  <2>1. /\ unregister' = Append(unregister, c) /\ UNCHANGED <<missed, early, closed>>
        /\ \A d \in Client : d # c => droppers'[d] = droppers[d]
    BY <1>0, <1>3 DEF DropClient
  <2>2. QED
    BY <1>0, <2>1, Queued DEF SlowLeave, Leaving
<1>4. ASSUME NEW c \in Client, SendUnregister(c) PROVE SlowLeave'
  <2>1. unregister' = Append(unregister, c) /\ UNCHANGED <<missed, early, closed, droppers>>
    BY <1>4 DEF SendUnregister
  <2>2. QED
    BY <1>0, <2>1, Queued DEF SlowLeave, Leaving
<1>5. ASSUME NEW c \in Client,
             \/ Accept(c) \/ SendRegister(c) \/ JoinGlobal(c) \/ JoinUser(c) \/ ReadFails(c)
             \/ Frame(c) \/ Writer(c) \/ CutConnection(c)
      PROVE  SlowLeave'
  BY <1>5, SlowFrame
     DEF Accept, SendRegister, JoinGlobal, JoinUser, ReadFails, Frame, Ping, PingPanics, Subscribe,
         Unsubscribe, Writer, WriteMessage, WriteFails, WriterStops, CutConnection
<1>6. CASE TakeRegister \/ Publishing \/ UNCHANGED vars
  BY <1>6, SlowFrame
     DEF TakeRegister, Publishing, PublishToUser, PublishPost, PublishPostToChannel, Publish, vars
<1>7. QED
  BY <1>1, <1>2, <1>3, <1>4, <1>5, <1>6 DEF Next, Run, Handler

(* No registered client lives on with a gap: one that is too slow is on its *)
(* way out (ws.go:104-105), however many are dropped at once.               *)
THEOREM SlowClientsGo == Spec => []SlowClientsLeave
<1>1. Init => SlowLeave
  BY DEF Init, SlowLeave
<1>2. SlowLeave /\ OneLife => SlowClientsLeave
  BY DEF SlowLeave, Leaving, OneLife, SlowClientsLeave
<1>3. QED
  BY <1>1, <1>2, SlowStep, TypeCorrect, OneLifeInvariant, PTL DEF Spec
-----------------------------------------------------------------------------
(* The page.                                                               *)

(* What lets StaysLive survive every step: a run that beforeunload has      *)
(* ended has neither a live socket nor a timer, and a socket that is being  *)
(* closed belongs to such a run, so that its onclose schedules nothing.     *)
Ended ==
    /\ \A i \in PageRun : i > runs => ~wsClosed[i]
    /\ \A i \in PageRun : wsClosed[i] => i \notin Live /\ ~wsRetryTimer[i]
    /\ \A i \in PageRun : sock[i].state = "closing" => wsClosed[i]

Alive == Wanted # {} => Live \cup Pending # {}
Counted == Cardinality(Live) + Cardinality(Pending) + kicked <= runs

PageInv == PageTypeOK /\ Ended /\ OneSocket /\ Alive /\ Counted /\ SubscribedHere

LEMMA Shorter ==
    ASSUME NEW a \in Nat, NEW b \in Nat
    PROVE  Min({a, b}) = IF a <= b THEN a ELSE b
<1> DEFINE m == IF a <= b THEN a ELSE b
<1>1. m \in {a, b} /\ \A y \in {a, b} : m <= y
  OBVIOUS
<1>2. \A x \in {a, b} : (\A y \in {a, b} : x <= y) => x = m
  OBVIOUS
<1>3. QED
  BY <1>1, <1>2 DEF Min

LEMMA PageConstants == MaxBackoff \in Nat /\ MaxRuns \in Nat /\ MaxRuns > 0 /\ NoChannel \in Place
                   /\ 0 \in 0..MaxBackoff /\ 1 \in PageRun /\ PageRun \subseteq Nat
  BY WsClientAssumption DEF PageRun

LEMMA DelayCapped ==
    ASSUME NEW b \in 0..MaxBackoff
    PROVE  Min({b + 1, MaxBackoff}) \in 0..MaxBackoff
  BY PageConstants, Shorter

(* What scheduleReconnect leaves in the timers and delays. *)
LEMMA Scheduled ==
    ASSUME PageTypeOK, NEW i \in PageRun, Schedule(i)
    PROVE  /\ wsRetryTimer' \in [PageRun -> BOOLEAN] /\ wsBackoff' \in [PageRun -> 0..MaxBackoff]
           /\ wsRetryTimer'[i] /\ \A j \in PageRun \ {i} : wsRetryTimer'[j] = wsRetryTimer[j]
<1>1. wsBackoff[i] \in 0..MaxBackoff
  BY DEF PageTypeOK
<1>2. Min({wsBackoff[i] + 1, MaxBackoff}) \in 0..MaxBackoff
  BY <1>1, DelayCapped
<1>3. wsBackoff' \in [PageRun -> 0..MaxBackoff]
  BY <1>2 DEF Schedule, PageTypeOK
<1>4. QED
  BY <1>3 DEF Schedule, PageTypeOK
-----------------------------------------------------------------------------
(* Counting sockets and timers. *)

LEMMA LiveCount ==
    ASSUME NEW S, NEW c, S \subseteq {c}
    PROVE  /\ IsFiniteSet(S)
           /\ Cardinality(S) = IF c \in S THEN 1 ELSE 0
<1>1. CASE c \in S
  BY <1>1, S = {c}, FS_Singleton
<1>2. CASE c \notin S
  BY <1>2, S = {}, FS_EmptySet
<1>3. QED
  BY <1>1, <1>2

LEMMA PendingFinite == IsFiniteSet(Pending) /\ Cardinality(Pending) \in Nat
<1>1. IsFiniteSet(PageRun)
  BY PageConstants, FS_Interval DEF PageRun
<1>2. Pending \in SUBSET PageRun
  BY DEF Pending
<1>3. QED
  BY <1>1, <1>2, FS_Subset, FS_CardinalityType

LEMMA PendingGains ==
    ASSUME NEW i \in PageRun, wsRetryTimer'[i], \A j \in PageRun \ {i} : wsRetryTimer'[j] = wsRetryTimer[j]
    PROVE  Cardinality(Pending') = IF i \in Pending THEN Cardinality(Pending)
                                   ELSE Cardinality(Pending) + 1
<1>1. Pending' = Pending \cup {i}
  BY DEF Pending
<1>2. QED
  BY <1>1, PendingFinite, FS_AddElement

LEMMA PendingLoses ==
    ASSUME NEW i \in PageRun, i \in Pending, ~wsRetryTimer'[i],
           \A j \in PageRun \ {i} : wsRetryTimer'[j] = wsRetryTimer[j]
    PROVE  Cardinality(Pending') = Cardinality(Pending) - 1
<1>1. Pending' = Pending \ {i}
  BY DEF Pending
<1>2. QED
  BY <1>1, PendingFinite, FS_RemoveElement

(* wsConnect leaves no live socket but the one it opens. *)
LEMMA Replaced ==
    ASSUME PageTypeOK, OneSocket
    PROVE  /\ Closed \in [PageRun -> Socket]
           /\ \A j \in PageRun :
                /\ Closed[j].state \notin {"connecting", "open"}
                /\ Closed[j].state = "closing" => sock[j].state = "closing"
                /\ j > runs => Closed[j] = NoSocket
<1>1. NoSocket \in Socket /\ NoSocket.state = "none"
  BY PageConstants DEF NoSocket, Socket
<1>2. Closed \in [PageRun -> Socket]
  BY <1>1 DEF Closed, PageTypeOK
<1>3. ASSUME NEW j \in PageRun
      PROVE  Closed[j] = IF current # None /\ j = current THEN NoSocket ELSE sock[j]
  BY DEF Closed, PageTypeOK
<1>4. ASSUME NEW j \in PageRun, sock[j].state \in {"connecting", "open"}
      PROVE  current # None /\ j = current
  BY <1>4, PageConstants DEF OneSocket, Live, None, PageRun
<1>5. QED
  BY <1>1, <1>2, <1>3, <1>4 DEF PageTypeOK

LEMMA AfterOpened ==
    ASSUME PageTypeOK, OneSocket, NEW i \in PageRun, Opened(i)
    PROVE  /\ sock' \in [PageRun -> Socket] /\ current' = i
           /\ Live' = {i} /\ sock'[i].state = "connecting"
           /\ \A j \in PageRun : sock'[j].state = "closing" => sock[j].state = "closing"
           /\ \A j \in PageRun \ {i} : j > runs => sock'[j] = NoSocket
<1>1. Connecting \in Socket /\ Connecting.state = "connecting"
  BY PageConstants DEF Connecting, Socket
<1>2. sock' \in [PageRun -> Socket]
  BY <1>1, Replaced DEF Opened
<1>3. \A j \in PageRun : sock'[j] = IF j = i THEN Connecting ELSE Closed[j]
  BY Replaced DEF Opened
<1>4. QED
  BY <1>1, <1>2, <1>3, Replaced DEF Opened, Live

LEMMA AfterThrew ==
    ASSUME PageTypeOK, OneSocket, NEW i \in PageRun, Threw(i)
    PROVE  /\ sock' \in [PageRun -> Socket] /\ current' = None
           /\ Live' = {}
           /\ \A j \in PageRun : sock'[j].state = "closing" => sock[j].state = "closing"
           /\ \A j \in PageRun : j > runs => sock'[j] = NoSocket
<1>1. NoSocket \in Socket /\ NoSocket.state = "none"
  BY PageConstants DEF NoSocket, Socket
<1>2. sock' \in [PageRun -> Socket]
  BY <1>1, Replaced DEF Threw
<1>3. \A j \in PageRun : sock'[j] = IF j = i THEN NoSocket ELSE Closed[j]
  BY Replaced DEF Threw
<1>4. QED
  BY <1>1, <1>2, <1>3, Replaced DEF Threw, Live

LEMMA CountInv ==
    ASSUME PageInv
    PROVE  /\ Cardinality(Live) = IF Live = {} THEN 0 ELSE 1
           /\ (current \in Live) <=> (Live # {})
           /\ Cardinality(Live) \in Nat /\ Cardinality(Pending) \in Nat
           /\ kicked \in Nat /\ runs \in Nat
<1>1. Live \subseteq {current}
  BY DEF PageInv, OneSocket
<1>2. Cardinality(Live) = IF current \in Live THEN 1 ELSE 0
  BY <1>1, LiveCount
<1>3. (current \in Live) <=> (Live # {})
  BY <1>1
<1>4. kicked \in Nat /\ runs \in Nat
  BY PageConstants DEF PageInv, PageTypeOK
<1>5. QED
  BY <1>2, <1>3, <1>4, PendingFinite
-----------------------------------------------------------------------------
LEMMA InitInv == PageInit => PageInv
<1> SUFFICES ASSUME PageInit PROVE PageInv
  OBVIOUS
<1>1. Connecting \in Socket /\ NoSocket \in Socket /\ Connecting.state = "connecting"
      /\ NoSocket.state = "none"
  BY PageConstants DEF Connecting, NoSocket, Socket
<1>2. sock \in [PageRun -> Socket] /\ sock[1] = Connecting
      /\ \A j \in PageRun : j > 1 => sock[j] = NoSocket
  BY <1>1, PageConstants DEF PageInit
<1>3. Live = {1}
  BY <1>1, <1>2, PageConstants DEF Live, PageRun
<1>4. Pending = {}
  BY DEF PageInit, Pending
<1>5. PageTypeOK
  BY <1>2, PageConstants DEF PageInit, PageTypeOK, PageRun
<1>6. Ended
  BY <1>1, <1>2 DEF PageInit, Ended, PageRun
<1>7. OneSocket /\ Alive
  BY <1>3 DEF PageInit, OneSocket, Alive
<1>8. Counted
  <2>1. Cardinality(Live) = 1 /\ Cardinality(Pending) = 0
    BY <1>3, <1>4, FS_Singleton, FS_EmptySet
  <2>2. QED
    BY <2>1 DEF PageInit, Counted
<1>9. SubscribedHere
  BY <1>1, <1>2, <1>3 DEF SubscribedHere
<1>10. QED
  BY <1>5, <1>6, <1>7, <1>8, <1>9 DEF PageInv

(* The timer of a run, be it the newest or one that an older run left. *)
LEMMA FiresInv ==
    ASSUME PageInv, NEW i \in PageRun, TimerFires(i)
    PROVE  PageInv'
<1>1. PageTypeOK /\ OneSocket /\ Ended /\ i \in Pending
  BY DEF PageInv, TimerFires, Pending
<1>2. i <= runs /\ ~wsClosed[i] /\ i # None
  BY <1>1, PageConstants DEF PageTypeOK, Ended, Pending, None, PageRun
<1>3. UNCHANGED <<page, place, loading, runs, wsClosed>>
      /\ kicked' = IF current \in Live THEN kicked + 1 ELSE kicked
  BY DEF TimerFires
<1>4. kicked' \in Nat
  BY <1>1, <1>3 DEF PageTypeOK
<1>5. CASE /\ Opened(i) /\ wsRetryTimer' = [wsRetryTimer EXCEPT ![i] = FALSE]
           /\ UNCHANGED wsBackoff
  <2>1. PageTypeOK'
    BY <1>1, <1>2, <1>3, <1>4, <1>5, AfterOpened, PageConstants DEF PageTypeOK, PageRun
  <2>2. Ended'
    BY <1>1, <1>2, <1>3, <1>5, AfterOpened DEF Ended, PageTypeOK
  <2>3. OneSocket' /\ Alive' /\ SubscribedHere'
    BY <1>1, <1>5, AfterOpened DEF OneSocket, Alive, SubscribedHere
  <2>4. Counted'
    <3>1. Cardinality(Pending') = Cardinality(Pending) - 1
      BY <1>1, <1>5, PendingLoses DEF PageTypeOK
    <3>2. Cardinality(Live') = 1
      BY <1>1, <1>5, AfterOpened, FS_Singleton
    <3>3. QED
      BY <1>3, <3>1, <3>2, CountInv DEF PageInv, Counted
  <2>5. QED
    BY <2>1, <2>2, <2>3, <2>4 DEF PageInv
<1>6. CASE Threw(i) /\ Schedule(i)
  <2>1. PageTypeOK'
    BY <1>1, <1>2, <1>3, <1>4, <1>6, AfterThrew, Scheduled, PageConstants DEF PageTypeOK, PageRun, None
  <2>2. Ended'
    BY <1>1, <1>2, <1>3, <1>6, AfterThrew, Scheduled DEF Ended, PageTypeOK
  <2>3. i \in Pending'
    BY <1>1, <1>6, Scheduled DEF Pending
  <2>4. OneSocket' /\ Alive' /\ SubscribedHere'
    BY <1>1, <1>6, <2>3, AfterThrew DEF OneSocket, Alive, SubscribedHere
  <2>5. Counted'
    <3>1. Cardinality(Pending') = Cardinality(Pending)
      BY <1>1, <1>6, Scheduled, PendingGains
    <3>2. Cardinality(Live') = 0
      BY <1>1, <1>6, AfterThrew, FS_EmptySet
    <3>3. QED
      BY <1>3, <3>1, <3>2, CountInv DEF PageInv, Counted
  <2>6. QED
    BY <2>1, <2>2, <2>4, <2>5 DEF PageInv
<1>7. QED
  BY <1>5, <1>6 DEF TimerFires

LEMMA NavigateInv ==
    ASSUME PageInv, NEW p \in Place, Navigate(p)
    PROVE  PageInv'
<1> USE DEF Navigate, timers
<1>1. Live' = Live /\ Pending' = Pending /\ Wanted' = Wanted
  BY DEF Live, Pending, Wanted
<1>2. PageTypeOK'
  BY PageConstants DEF PageInv, PageTypeOK, PageRun
<1>3. Ended' /\ OneSocket' /\ Alive' /\ Counted'
  BY <1>1 DEF PageInv, Ended, OneSocket, Alive, Counted
<1>4. loading' # 0
  BY DEF PageInv, PageTypeOK
<1>5. QED
  BY <1>2, <1>3, <1>4 DEF PageInv, SubscribedHere

LEMMA RunScriptInv ==
    ASSUME PageInv, RunScript
    PROVE  PageInv'
<1> DEFINE i == runs + 1
<1>1. PageTypeOK /\ OneSocket /\ Ended /\ i \in PageRun /\ i # None /\ runs \in Nat
  BY PageConstants DEF PageInv, RunScript, PageTypeOK, None, PageRun
<1>2. i \notin Pending /\ ~wsClosed[i]
  BY <1>1 DEF PageTypeOK, Ended, Pending
<1>3. UNCHANGED <<page, place, wsClosed, kicked>> /\ loading' = loading - 1 /\ runs' = i
  BY DEF RunScript
<1>4. loading' \in 0..MaxRuns - runs'
  BY <1>1, <1>3, PageConstants DEF PageTypeOK, RunScript, PageRun
<1> HIDE DEF i
<1>5. \A j \in PageRun : j > runs' => j > runs /\ j # i
  BY <1>1, <1>3, PageConstants DEF i
<1>6. CASE Opened(i) /\ UNCHANGED <<wsBackoff, wsRetryTimer>>
  <2>1. PageTypeOK'
    <3>1. current' \in 0..runs' /\ runs' \in PageRun
      BY <1>1, <1>3, <1>6, AfterOpened, PageConstants DEF PageRun
    <3>2. \A j \in PageRun : j > runs' => sock'[j] = NoSocket /\ ~wsRetryTimer'[j]
      BY <1>1, <1>5, <1>6, AfterOpened DEF PageTypeOK
    <3>3. sock' \in [PageRun -> Socket]
      BY <1>1, <1>6, AfterOpened
    <3>4. QED
      BY <1>1, <1>3, <1>4, <1>6, <3>1, <3>2, <3>3 DEF PageTypeOK
  <2>2. Ended'
    BY <1>1, <1>2, <1>3, <1>5, <1>6, AfterOpened DEF Ended, Pending
  <2>3. OneSocket' /\ Alive' /\ SubscribedHere'
    BY <1>1, <1>6, AfterOpened DEF OneSocket, Alive, SubscribedHere
  <2>4. Counted'
    <3>1. Pending' = Pending
      BY <1>6 DEF Pending
    <3>2. Cardinality(Live') = 1
      BY <1>1, <1>6, AfterOpened, FS_Singleton
    <3>3. QED
      BY <1>3, <3>1, <3>2, CountInv DEF PageInv, Counted, i
  <2>5. QED
    BY <2>1, <2>2, <2>3, <2>4 DEF PageInv
<1>7. CASE Threw(i) /\ Schedule(i)
  <2>1. PageTypeOK'
    <3>1. current' \in 0..runs' /\ runs' \in PageRun
      BY <1>1, <1>3, <1>7, AfterThrew, PageConstants DEF PageRun, None
    <3>2. \A j \in PageRun : j > runs' => sock'[j] = NoSocket /\ ~wsRetryTimer'[j]
      BY <1>1, <1>5, <1>7, AfterThrew, Scheduled DEF PageTypeOK
    <3>3. sock' \in [PageRun -> Socket]
      BY <1>1, <1>7, AfterThrew
    <3>4. QED
      BY <1>1, <1>3, <1>4, <1>7, <3>1, <3>2, <3>3, Scheduled DEF PageTypeOK
  <2>2. Ended'
    BY <1>1, <1>2, <1>3, <1>5, <1>7, AfterThrew, Scheduled DEF Ended
  <2>3. i \in Pending'
    BY <1>1, <1>7, Scheduled DEF Pending
  <2>4. OneSocket' /\ Alive' /\ SubscribedHere'
    BY <1>1, <1>7, <2>3, AfterThrew DEF OneSocket, Alive, SubscribedHere
  <2>5. Counted'
    <3>1. Cardinality(Pending') = Cardinality(Pending) + 1
      BY <1>1, <1>2, <1>7, Scheduled, PendingGains
    <3>2. Cardinality(Live') = 0
      BY <1>1, <1>7, AfterThrew, FS_EmptySet
    <3>3. QED
      BY <1>3, <3>1, <3>2, CountInv DEF PageInv, Counted, i
  <2>6. QED
    BY <2>1, <2>2, <2>4, <2>5 DEF PageInv
<1>8. QED
  BY <1>6, <1>7 DEF RunScript, i

LEMMA OpensInv ==
    ASSUME PageInv, NEW i \in PageRun, Opens(i)
    PROVE  PageInv'
<1>1. PageTypeOK /\ OneSocket /\ Ended
  BY DEF PageInv
<1>2. UNCHANGED <<page, place, loading, runs, wsClosed, wsRetryTimer, current, kicked>>
  BY DEF Opens
<1>3. sock' = [sock EXCEPT ![i] = [state |-> "open", topic |-> place]]
      /\ sock[i].state = "connecting"
  BY DEF Opens
<1>4. [state |-> "open", topic |-> place] \in Socket
  BY <1>1 DEF PageTypeOK, Socket
<1>5. sock' \in [PageRun -> Socket]
  BY <1>1, <1>3, <1>4 DEF PageTypeOK
<1>6. \A j \in PageRun : sock'[j] = IF j = i THEN [state |-> "open", topic |-> place] ELSE sock[j]
  BY <1>1, <1>3 DEF PageTypeOK
<1>7. Live' = Live /\ Pending' = Pending /\ Wanted' = Wanted
  BY <1>2, <1>3, <1>6 DEF Live, Pending, Wanted
<1>8. Live \subseteq {i}
  BY <1>1, <1>3 DEF OneSocket, Live
<1>9. i <= runs
  BY <1>1, <1>3, PageConstants DEF PageTypeOK, NoSocket, PageRun
<1>10. 0 \in 0..MaxBackoff
  BY PageConstants
<1>11. PageTypeOK'
  <2>1. wsBackoff' \in [PageRun -> 0..MaxBackoff]
    BY <1>1, <1>10 DEF Opens, PageTypeOK
  <2>2. \A j \in PageRun : j > runs => j # i
    BY <1>1, <1>9, PageConstants DEF PageTypeOK, PageRun
  <2>3. QED
    BY <1>1, <1>2, <1>5, <1>6, <2>1, <2>2 DEF PageTypeOK
<1>12. Ended' /\ OneSocket' /\ Alive' /\ Counted'
  BY <1>1, <1>2, <1>6, <1>7 DEF PageInv, Ended, OneSocket, Alive, Counted
<1>13. SubscribedHere'
  BY <1>2, <1>6, <1>7, <1>8 DEF SubscribedHere
<1>14. QED
  BY <1>11, <1>12, <1>13 DEF PageInv

(* A socket that was live has its run schedule another; one that was being *)
(* closed has not.                                                         *)
LEMMA EndsInv ==
    ASSUME PageInv, NEW i \in PageRun, Ends(i)
    PROVE  PageInv'
<1>1. PageTypeOK /\ OneSocket /\ Ended
  BY DEF PageInv
<1>2. UNCHANGED <<page, place, loading, runs, wsClosed, current, kicked>>
  BY DEF Ends
<1>3. NoSocket \in Socket /\ NoSocket.state = "none"
  BY PageConstants DEF NoSocket, Socket
<1>4. sock' \in [PageRun -> Socket]
  BY <1>1, <1>3 DEF Ends, PageTypeOK
<1>5. \A j \in PageRun : sock'[j] = IF j = i THEN NoSocket ELSE sock[j]
  BY <1>1 DEF Ends, PageTypeOK
<1>6. Live' = Live \ {i} /\ Wanted' = Wanted
  BY <1>2, <1>3, <1>5 DEF Live, Wanted
<1>7. i <= runs
  BY <1>1, <1>3, PageConstants DEF Ends, PageTypeOK, PageRun
<1>8. CASE wsClosed[i]
  <2>1. UNCHANGED <<wsBackoff, wsRetryTimer>>
    BY <1>8 DEF Ends, OnClose
  <2>2. i \notin Live
    BY <1>1, <1>8 DEF Ended
  <2>3. Live' = Live /\ Pending' = Pending
    BY <1>6, <2>1, <2>2 DEF Pending
  <2>4. PageTypeOK'
    BY <1>1, <1>2, <1>4, <1>5, <2>1 DEF PageTypeOK
  <2>5. Ended'
    BY <1>1, <1>2, <1>3, <1>5, <2>1, <2>3 DEF Ended
  <2>6. OneSocket' /\ Alive' /\ Counted' /\ SubscribedHere'
    <3>1. OneSocket' /\ Alive' /\ Counted'
      BY <1>2, <1>6, <2>3 DEF PageInv, OneSocket, Alive, Counted
    <3>2. \A j \in Live : sock'[j] = sock[j]
      BY <1>5, <2>2 DEF Live
    <3>3. QED
      BY <1>2, <2>3, <3>1, <3>2 DEF PageInv, SubscribedHere
  <2>7. QED
    BY <2>4, <2>5, <2>6 DEF PageInv
<1>9. CASE ~wsClosed[i]
  <2>1. Schedule(i)
    BY <1>9 DEF Ends, OnClose
  <2>2. sock[i].state \in {"connecting", "open"}
    BY <1>1, <1>9 DEF Ends, Ended, PageTypeOK, Socket
  <2>3. i \in Live /\ i \in Pending'
    BY <1>1, <2>1, <2>2, Scheduled DEF Live, Pending
  <2>4. Live' = {}
    BY <1>1, <1>6, <2>3 DEF OneSocket
  <2>5. PageTypeOK'
    <3>1. \A j \in PageRun : j > runs => j # i
      BY <1>1, <1>7, PageConstants DEF PageTypeOK, PageRun
    <3>2. QED
      BY <1>1, <1>2, <1>4, <1>5, <2>1, <3>1, Scheduled DEF PageTypeOK
  <2>6. Ended'
    BY <1>1, <1>2, <1>3, <1>5, <1>6, <1>9, <2>1, Scheduled DEF Ended
  <2>7. OneSocket' /\ Alive' /\ SubscribedHere'
    BY <2>3, <2>4 DEF OneSocket, Alive, SubscribedHere
  <2>8. Counted'
    <3>1. Cardinality(Pending') <= Cardinality(Pending) + 1
      BY <1>1, <2>1, Scheduled, PendingGains, PendingFinite
    <3>2. Cardinality(Live') = 0 /\ Cardinality(Live) = 1
      BY <2>3, <2>4, CountInv, FS_EmptySet
    <3>3. Cardinality(Pending') \in Nat
      BY <1>1, <2>1, Scheduled, PendingGains, PendingFinite
    <3>4. QED
      BY <1>2, <3>1, <3>2, <3>3, CountInv DEF PageInv, Counted
  <2>9. QED
    BY <2>5, <2>6, <2>7, <2>8 DEF PageInv
<1>10. QED
  BY <1>8, <1>9

LEMMA UnloadInv ==
    ASSUME PageInv, Unload
    PROVE  PageInv'
<1>1. PageTypeOK /\ OneSocket /\ Ended
  BY DEF PageInv
<1>2. UNCHANGED <<place, loading, runs, wsBackoff, kicked>> /\ page' = "gone" /\ current' = None
      /\ wsClosed' = [j \in PageRun |-> wsClosed[j] \/ j <= runs]
      /\ wsRetryTimer' = [j \in PageRun |-> FALSE]
  BY DEF Unload
<1>3. \A j \in PageRun : sock'[j] = IF j \in Live THEN [sock[j] EXCEPT !.state = "closing"] ELSE sock[j]
  BY <1>1 DEF Unload, OneSocket, PageTypeOK, Live
<1>4. sock' \in [PageRun -> Socket]
  <2>1. \A s \in Socket : [s EXCEPT !.state = "closing"] \in Socket
    BY DEF Socket
  <2>2. current \in Live => current \in PageRun
    BY DEF Live
  <2>3. QED
    BY <1>1, <2>1, <2>2 DEF Unload, PageTypeOK
<1>5. \A j \in PageRun : j \in Live => sock'[j].state = "closing"
  BY <1>1, <1>3 DEF PageTypeOK, Socket
<1>6. \A j \in PageRun : j \notin Live => sock'[j] = sock[j]
  BY <1>3
<1>7. Live' = {}
  BY <1>5, <1>6 DEF Live
<1>8. Pending' = {}
  BY <1>2 DEF Pending
<1>9. \A j \in PageRun : j \in Live => j <= runs
  BY <1>1, PageConstants DEF PageTypeOK, Live, NoSocket, PageRun
<1>10. PageTypeOK'
  <2>1. \A j \in PageRun : j > runs => j \notin Live
    BY <1>1, <1>9, PageConstants DEF PageTypeOK, PageRun
  <2>2. None \in 0..runs
    BY <1>1, PageConstants DEF PageTypeOK, None
  <2>3. QED
    BY <1>1, <1>2, <1>4, <1>6, <2>1, <2>2 DEF PageTypeOK
<1>11. Ended'
  <2>1. \A j \in PageRun : j > runs => ~(j <= runs)
    BY <1>1, PageConstants DEF PageTypeOK
  <2>2. \A j \in PageRun : sock'[j].state = "closing" => wsClosed'[j]
    BY <1>1, <1>2, <1>6, <1>9 DEF Ended
  <2>3. QED
    BY <1>1, <1>2, <1>7, <2>1, <2>2 DEF Ended
<1>12. Wanted' = {}
  <2>1. \A j \in 1..runs : j \in PageRun /\ j <= runs
    BY <1>1, PageConstants DEF PageTypeOK, PageRun
  <2>2. \A j \in 1..runs : wsClosed'[j]
    BY <1>2, <2>1
  <2>3. QED
    BY <1>2, <2>2 DEF Wanted
<1>13. OneSocket' /\ Alive' /\ SubscribedHere'
  BY <1>7, <1>12 DEF OneSocket, Alive, SubscribedHere
<1>14. Counted'
  BY <1>2, <1>7, <1>8, FS_EmptySet, CountInv DEF PageInv, Counted
<1>15. QED
  BY <1>10, <1>11, <1>13, <1>14 DEF PageInv

LEMMA RestoreInv ==
    ASSUME PageInv, Restore
    PROVE  PageInv'
<1>1. UNCHANGED <<place, loading, runs, wsClosed, wsBackoff, wsRetryTimer, sock, current, kicked>>
      /\ page' = "back"
  BY DEF Restore, timers
<1>2. Live' = Live /\ Pending' = Pending /\ Wanted' = Wanted
  BY <1>1 DEF Live, Pending, Wanted
<1>3. PageTypeOK' /\ Ended' /\ OneSocket'
  BY <1>1, <1>2 DEF PageInv, PageTypeOK, Ended, OneSocket
<1>4. Alive' /\ Counted' /\ SubscribedHere'
  BY <1>1, <1>2 DEF PageInv, Alive, Counted, SubscribedHere
<1>5. QED
  BY <1>3, <1>4 DEF PageInv
-----------------------------------------------------------------------------
(* IInv holds in every reachable state. *)
THEOREM PageInvariance == PageSpec => []PageInv
<1>1. PageInv /\ [PageNext]_pageVars => PageInv'
  <2> SUFFICES ASSUME PageInv, [PageNext]_pageVars PROVE PageInv'
    OBVIOUS
  <2>1. ASSUME NEW i \in PageRun, TimerFires(i) \/ Opens(i) \/ Ends(i) PROVE PageInv'
    BY <2>1, FiresInv, OpensInv, EndsInv
  <2>2. ASSUME NEW p \in Place, Navigate(p) PROVE PageInv'
    BY <2>2, NavigateInv
  <2>3. CASE RunScript \/ Unload \/ Restore
    BY <2>3, RunScriptInv, UnloadInv, RestoreInv
  <2>4. CASE UNCHANGED pageVars
    <3>1. Live' = Live /\ Pending' = Pending /\ Wanted' = Wanted
      BY <2>4 DEF pageVars, timers, Live, Pending, Wanted
    <3>2. PageTypeOK' /\ Ended' /\ OneSocket'
      BY <2>4, <3>1 DEF pageVars, timers, PageInv, PageTypeOK, Ended, OneSocket
    <3>3. Alive' /\ Counted' /\ SubscribedHere'
      BY <2>4, <3>1 DEF pageVars, timers, PageInv, Alive, Counted, SubscribedHere
    <3>4. QED
      BY <3>2, <3>3 DEF PageInv
  <2>5. QED
    BY <2>1, <2>2, <2>3, <2>4 DEF PageNext
<1>2. QED
  BY InitInv, <1>1, PTL DEF PageSpec

(* Type correctness: the delay never passes its maximum, and the page's     *)
(* shared socket is one that a run of this page opened.                     *)
THEOREM PageTypeCorrect == PageSpec => []PageTypeOK
<1>1. PageInv => PageTypeOK
  BY DEF PageInv
<1>2. QED
  BY <1>1, PageInvariance, PTL

(* However often the page is swapped, closed and restored, however its      *)
(* sockets end and whichever run's timer fires: one live socket at most; a  *)
(* page somebody looks at has a socket or a timer; every timer an older run *)
(* left closes at most one healthy socket; and once the scripts have run an *)
(* open socket is subscribed to the channel shown (golab.js:3270-3335).     *)
THEOREM PageStaysLive == PageSpec => []StaysLive
<1>1. PageInv => StaysLive
  BY DEF PageInv, StaysLive, KeepsTrying, Alive, Counted
<1>2. QED
  BY <1>1, PageInvariance, PTL
=============================================================================
