------------------------------- MODULE WsHub -------------------------------
(***************************************************************************)
(* The WebSocket hub of internal/handler/ws.go: one Run goroutine that     *)
(* serves the register, unregister and broadcast channels, two goroutines  *)
(* per connection (readLoop inside the HTTP handler, writeLoop), a         *)
(* goroutine per dropped delivery, and the request handlers that publish.  *)
(*                                                                         *)
(* Every channel is a bounded FIFO; a plain send blocks while it is full,  *)
(* a select with a default drops.  One action is one channel operation or  *)
(* one critical section of Hub.mu.  Run's select takes any ready channel.  *)
(***************************************************************************)
EXTENDS Naturals, Sequences, FiniteSets

CONSTANTS
    Client,          \* connections, each used once: a reconnect is another one
    Poster,          \* request handlers that publish posts
    Global,          \* the topic "global"
    ChannelTopic,    \* the topics "channel:slug"
    UserTopic,       \* UserTopic[c]: topic "user:N" of c's user, or NoTopic
    NoTopic,
    RegisterCap,     \* 16 in NewHub
    UnregisterCap,   \* 16 in NewHub
    BroadcastCap,    \* 64 in NewHub
    SendCap,         \* 16 in HandleWS
    MaxPublish       \* bound on the messages published in a behaviour

UserTopics == {UserTopic[c] : c \in Client} \ {NoTopic}
Topic == {Global} \cup ChannelTopic \cup UserTopics

ASSUME HubAssumption ==
    /\ UserTopic \in [Client -> Topic \cup {NoTopic}]
    /\ NoTopic \notin {Global} \cup ChannelTopic
    /\ {RegisterCap, UnregisterCap, BroadcastCap, SendCap} \subseteq Nat \ {0}
    /\ MaxPublish \in Nat

VARIABLES
    hub,         \* "running", or why the process died of a panic in Run
    clients,     \* Hub.clients
    topics,      \* Hub.topics; a topic without clients is an empty set
    register,    \* Hub.register
    unregister,  \* Hub.unregister
    broadcast,   \* Hub.broadcast
    droppers,    \* droppers[c]: goroutines blocked on sending c to unregister
    send,        \* send[c]: the buffered channel Client.send
    closed,      \* clients whose send channel is closed
    handler,     \* handler[c]: where HandleWS and its readLoop are
    writer,      \* writer[c]: writeLoop
    conn,        \* conn[c]: the socket together with the request's context
    second,      \* second[p]: topic p has still to publish its post to
    published,   \* calls of Publish so far
    accepted,    \* messages that entered broadcast so far; numbers them
    last,        \* last[c]: number of the newest message written to c
    missed,      \* clients that were refused a message by a full buffer
    early        \* clients whose unregistration Run took and ignored

hubVars    == <<clients, topics, droppers, closed, missed, early>>
connVars   == <<handler, writer, conn, last>>
publishers == <<second, published, accepted>>
vars == <<hub, hubVars, register, unregister, broadcast, send, connVars, publishers>>

(* A broadcast carries its number; the answer to a ping has number 0. *)
Pong == [topic |-> NoTopic, id |-> 0]
Message == [topic : Topic, id : Nat \ {0}]

HandlerState == {"idle", "accepted", "registering", "joining", "reading", "leaving", "done"}

TypeOK ==
    /\ hub \in {"running", "send on closed channel", "close of closed channel"}
    /\ clients \subseteq Client
    /\ topics \in [Topic -> SUBSET Client]
    /\ register \in Seq(Client) /\ Len(register) <= RegisterCap
    /\ unregister \in Seq(Client) /\ Len(unregister) <= UnregisterCap
    /\ broadcast \in Seq(Message) /\ Len(broadcast) <= BroadcastCap
    /\ droppers \in [Client -> Nat]
    /\ send \in [Client -> Seq(Message \cup {Pong})]
    /\ \A c \in Client : Len(send[c]) <= SendCap
    /\ closed \subseteq Client
    /\ handler \in [Client -> HandlerState]
    /\ writer \in [Client -> {"off", "on", "done"}]
    /\ conn \in [Client -> {"none", "open", "closed"}]
    /\ second \in [Poster -> ChannelTopic \cup {NoTopic}]
    /\ published \in Nat /\ accepted \in Nat
    /\ last \in [Client -> Nat]
    /\ missed \subseteq Client /\ early \subseteq Client

Init ==
    /\ hub = "running"
    /\ clients = {} /\ topics = [t \in Topic |-> {}]
    /\ register = <<>> /\ unregister = <<>> /\ broadcast = <<>>
    /\ droppers = [c \in Client |-> 0]
    /\ send = [c \in Client |-> <<>>]
    /\ closed = {}
    /\ handler = [c \in Client |-> "idle"]
    /\ writer = [c \in Client |-> "off"]
    /\ conn = [c \in Client |-> "none"]
    /\ second = [p \in Poster |-> NoTopic]
    /\ published = 0 /\ accepted = 0
    /\ last = [c \in Client |-> 0]
    /\ missed = {} /\ early = {}
-----------------------------------------------------------------------------
(* HandleWS and readLoop, one goroutine per connection. *)

(* A panic in Run is not recovered: it takes the whole process down. *)
Up == hub = "running"

Goto(c, from, to) == handler[c] = from /\ handler' = [handler EXCEPT ![c] = to]

(* websocket.Accept succeeded and the Client struct exists. *)
Accept(c) ==
    /\ Up
    /\ Goto(c, "idle", "accepted")
    /\ conn' = [conn EXCEPT ![c] = "open"]
    /\ UNCHANGED <<hub, hubVars, register, unregister, broadcast, send, writer, last, publishers>>

(* h.register <- client, blocking while the channel is full. *)
SendRegister(c) ==
    /\ Up
    /\ Len(register) < RegisterCap
    /\ Goto(c, "accepted", "registering")
    /\ register' = Append(register, c)
    /\ UNCHANGED <<hub, hubVars, unregister, broadcast, send, writer, conn, last, publishers>>

(* subscribe(client, "global"): it does not wait for Run to take the client. *)
JoinGlobal(c) ==
    /\ Up
    /\ Goto(c, "registering", "joining")
    /\ topics' = [topics EXCEPT ![Global] = @ \cup {c}]
    /\ UNCHANGED <<hub, clients, droppers, closed, missed, early, register, unregister,
                   broadcast, send, writer, conn, last, publishers>>

(* subscribe(client, "user:N") unless anonymous, then both loops start. *)
JoinUser(c) ==
    /\ Up
    /\ Goto(c, "joining", "reading")
    /\ topics' = IF UserTopic[c] = NoTopic THEN topics
                 ELSE [topics EXCEPT ![UserTopic[c]] = @ \cup {c}]
    /\ writer' = [writer EXCEPT ![c] = "on"]
    /\ UNCHANGED <<hub, clients, droppers, closed, missed, early, register, unregister,
                   broadcast, send, conn, last, publishers>>

(* A subscribe frame.  Reading and handling a frame is one step: what the  *)
(* writer does in between commutes with Hub.subscribe.                     *)
Subscribe(c, t) ==
    /\ Up
    /\ handler[c] = "reading" /\ conn[c] = "open"
    /\ topics' = [topics EXCEPT ![t] = @ \cup {c}]
    /\ UNCHANGED <<hub, clients, droppers, closed, missed, early, register, unregister,
                   broadcast, send, connVars, publishers>>

Unsubscribe(c, t) ==
    /\ Up
    /\ handler[c] = "reading" /\ conn[c] = "open"
    /\ topics' = [topics EXCEPT ![t] = @ \ {c}]
    /\ UNCHANGED <<hub, clients, droppers, closed, missed, early, register, unregister,
                   broadcast, send, connVars, publishers>>

(* A ping frame: the pong is dropped when the buffer is full. *)
Ping(c) ==
    /\ Up
    /\ handler[c] = "reading" /\ conn[c] = "open"
    /\ c \notin closed
    /\ Len(send[c]) < SendCap
    /\ send' = [send EXCEPT ![c] = Append(@, Pong)]
    /\ UNCHANGED <<hub, hubVars, register, unregister, broadcast, connVars, publishers>>

(* A ping frame of a client already dropped: the send panics, the deferred *)
(* unregister runs and net/http (or Recoverer) ends this handler only.     *)
PingPanics(c) ==
    /\ Up
    /\ conn[c] = "open" /\ c \in closed
    /\ Goto(c, "reading", "leaving")
    /\ UNCHANGED <<hub, hubVars, register, unregister, broadcast, send, writer, conn, last,
                   publishers>>

(* wsjson.Read fails once the socket or the request context is gone. *)
ReadFails(c) ==
    /\ Up
    /\ conn[c] = "closed"
    /\ Goto(c, "reading", "leaving")
    /\ UNCHANGED <<hub, hubVars, register, unregister, broadcast, send, writer, conn, last,
                   publishers>>

(* The deferred hub.unregister <- c, and then HandleWS's cancel(). *)
SendUnregister(c) ==
    /\ Up
    /\ Len(unregister) < UnregisterCap
    /\ Goto(c, "leaving", "done")
    /\ unregister' = Append(unregister, c)
    /\ conn' = [conn EXCEPT ![c] = "closed"]
    /\ UNCHANGED <<hub, hubVars, register, broadcast, send, writer, last, publishers>>

(* The peer leaves, the network fails, a frame is malformed, or the        *)
(* Timeout(30s) middleware that wraps /ws too ends the request's context.  *)
CutConnection(c) ==
    /\ Up
    /\ conn[c] = "open"
    /\ conn' = [conn EXCEPT ![c] = "closed"]
    /\ UNCHANGED <<hub, hubVars, register, unregister, broadcast, send, handler, writer, last,
                   publishers>>
-----------------------------------------------------------------------------
(* writeLoop, one goroutine per connection. *)

WriteMessage(c) ==
    /\ Up
    /\ writer[c] = "on" /\ conn[c] = "open" /\ send[c] # <<>>
    /\ send' = [send EXCEPT ![c] = Tail(@)]
    /\ last' = IF Head(send[c]) = Pong THEN last
               ELSE [last EXCEPT ![c] = Head(send[c]).id]
    /\ UNCHANGED <<hub, hubVars, register, unregister, broadcast, handler, writer, conn,
                   publishers>>

(* The message taken from the buffer is lost with the socket. *)
WriteFails(c) ==
    /\ Up
    /\ writer[c] = "on" /\ conn[c] = "closed" /\ send[c] # <<>>
    /\ send' = [send EXCEPT ![c] = Tail(@)]
    /\ writer' = [writer EXCEPT ![c] = "done"]
    /\ UNCHANGED <<hub, hubVars, register, unregister, broadcast, handler, conn, last, publishers>>

(* Mutant: writeLoop without its deferred conn.Close. *)
WriterStopsQuietly(c) ==
    /\ Up
    /\ writer[c] = "on"
    /\ conn[c] = "closed" \/ (c \in closed /\ send[c] = <<>>)
    /\ writer' = [writer EXCEPT ![c] = "done"]
    /\ UNCHANGED <<hub, hubVars, register, unregister, broadcast, send, handler, conn, last,
                   publishers>>

(* The context is done, or the closed channel is drained; the deferred     *)
(* conn.Close ends the reader as well.                                     *)
WriterStops(c) ==
    /\ Up
    /\ writer[c] = "on"
    /\ conn[c] = "closed" \/ (c \in closed /\ send[c] = <<>>)
    /\ writer' = [writer EXCEPT ![c] = "done"]
    /\ conn' = [conn EXCEPT ![c] = "closed"]
    /\ UNCHANGED <<hub, hubVars, register, unregister, broadcast, send, handler, last, publishers>>
-----------------------------------------------------------------------------
(* Hub.Run. *)

TakeRegister ==
    /\ Up
    /\ register # <<>>
    /\ register' = Tail(register)
    /\ clients' = clients \cup {Head(register)}
    /\ UNCHANGED <<hub, topics, droppers, closed, missed, early, unregister, broadcast, send,
                   connVars, publishers>>

(* Only a registered client is removed and has its channel closed. *)
Remove(c) ==
    /\ clients' = clients \ {c}
    /\ topics' = [t \in Topic |-> topics[t] \ {c}]
    /\ closed' = closed \cup {c}
    /\ hub' = IF c \in closed THEN "close of closed channel" ELSE hub
    /\ UNCHANGED early

(* Mutant: close(c.send) without looking the client up first. *)
TakeUnregisterUnchecked ==
    /\ Up
    /\ unregister # <<>>
    /\ unregister' = Tail(unregister)
    /\ Remove(Head(unregister))
    /\ UNCHANGED <<droppers, missed, register, broadcast, send, connVars, publishers>>

TakeUnregister ==
    /\ Up
    /\ unregister # <<>>
    /\ unregister' = Tail(unregister)
    /\ \/ /\ Head(unregister) \in clients
          /\ Remove(Head(unregister))
       \/ /\ Head(unregister) \notin clients
          /\ early' = early \cup {Head(unregister)}
          /\ UNCHANGED <<hub, clients, topics, closed>>
    /\ UNCHANGED <<droppers, missed, register, broadcast, send, connVars, publishers>>

Full(m) == {c \in topics[m.topic] : Len(send[c]) = SendCap}

Enqueue(m) == send' = [c \in Client |-> IF c \in topics[m.topic] \ Full(m)
                                       THEN Append(send[c], m) ELSE send[c]]

(* Mutant: the default branch skips the message and keeps the client. *)
FanOutSkipping(m) ==
    /\ \/ topics[m.topic] \cap closed = {} /\ Enqueue(m) /\ UNCHANGED hub
       \/ topics[m.topic] \cap closed # {} /\ hub' = "send on closed channel" /\ UNCHANGED send
    /\ missed' = missed \cup Full(m)
    /\ UNCHANGED <<clients, topics, closed, early, droppers>>

(* Fan out m to every subscriber, under the read lock: a closed channel    *)
(* panics whatever the order of the map iteration, a full one costs the    *)
(* client its registration through a goroutine of its own.                 *)
FanOut(m) ==
    /\ \/ /\ topics[m.topic] \cap closed = {}
          /\ Enqueue(m)
          /\ droppers' = [c \in Client |-> IF c \in Full(m) THEN droppers[c] + 1
                                           ELSE droppers[c]]
          /\ missed' = missed \cup Full(m)
          /\ UNCHANGED hub
       \/ /\ topics[m.topic] \cap closed # {}
          /\ hub' = "send on closed channel"
          /\ UNCHANGED <<send, droppers, missed>>
    /\ UNCHANGED <<clients, topics, closed, early>>

(* Mutant: the newest message first. *)
TakeNewestBroadcast ==
    /\ Up
    /\ broadcast # <<>>
    /\ broadcast' = SubSeq(broadcast, 1, Len(broadcast) - 1)
    /\ FanOut(broadcast[Len(broadcast)])
    /\ UNCHANGED <<register, unregister, connVars, publishers>>

TakeBroadcast ==
    /\ Up
    /\ broadcast # <<>>
    /\ broadcast' = Tail(broadcast)
    /\ FanOut(Head(broadcast))
    /\ UNCHANGED <<register, unregister, connVars, publishers>>

(* go func(cc) { h.unregister <- cc }(c) *)
DropClient(c) ==
    /\ Up
    /\ droppers[c] > 0
    /\ Len(unregister) < UnregisterCap
    /\ droppers' = [droppers EXCEPT ![c] = @ - 1]
    /\ unregister' = Append(unregister, c)
    /\ UNCHANGED <<hub, clients, topics, closed, missed, early, register, broadcast, send,
                   connVars, publishers>>
-----------------------------------------------------------------------------
(* Publish, called from request handlers; never blocks. *)

(* Mutant: an unbounded broadcast queue. *)
PublishUnbounded(t) ==
    /\ Up
    /\ published < MaxPublish
    /\ published' = published + 1
    /\ broadcast' = Append(broadcast, [topic |-> t, id |-> accepted + 1])
    /\ accepted' = accepted + 1
    /\ UNCHANGED <<hub, hubVars, register, unregister, send, connVars>>

Publish(t) ==
    /\ Up
    /\ published < MaxPublish
    /\ published' = published + 1
    /\ IF Len(broadcast) < BroadcastCap
       THEN /\ broadcast' = Append(broadcast, [topic |-> t, id |-> accepted + 1])
            /\ accepted' = accepted + 1
       ELSE UNCHANGED <<broadcast, accepted>>
    /\ UNCHANGED <<hub, hubVars, register, unregister, send, connVars>>

(* PublishToUser: a notification or a badge count. *)
PublishToUser(t) == Publish(t) /\ UNCHANGED second

(* PublishNewPost, PublishPostUpdated, PublishPostDeleted: first global,   *)
(* then the post's channel if it has one; other steps may come in between. *)
PublishPost(p, t) ==
    /\ second[p] = NoTopic
    /\ Publish(Global)
    /\ second' = [second EXCEPT ![p] = t]

PublishPostToChannel(p) ==
    /\ second[p] # NoTopic
    /\ Publish(second[p])
    /\ second' = [second EXCEPT ![p] = NoTopic]
-----------------------------------------------------------------------------
Handler(c) == SendRegister(c) \/ JoinGlobal(c) \/ JoinUser(c) \/ ReadFails(c)
              \/ SendUnregister(c)
Frame(c) == Ping(c) \/ PingPanics(c) \/ \E t \in Topic : Subscribe(c, t) \/ Unsubscribe(c, t)
Writer(c) == WriteMessage(c) \/ WriteFails(c) \/ WriterStops(c)
Run == TakeRegister \/ TakeUnregister \/ TakeBroadcast
Publishing == \/ \E t \in UserTopics : PublishToUser(t)
              \/ \E p \in Poster : \/ \E t \in ChannelTopic \cup {NoTopic} : PublishPost(p, t)
                                   \/ PublishPostToChannel(p)

Next ==
    \/ Run
    \/ Publishing
    \/ \E c \in Client : \/ Accept(c) \/ Handler(c) \/ Frame(c) \/ Writer(c)
                         \/ CutConnection(c) \/ DropClient(c)

Spec == Init /\ [][Next]_vars

(* Go runs every goroutine that can run, its select picks at random among  *)
(* the ready channels, and a goroutine blocked on a full channel is served *)
(* in arrival order (hence SF).  Peers and publishers owe nothing.         *)
Fairness ==
    /\ WF_vars(TakeRegister) /\ WF_vars(TakeUnregister) /\ WF_vars(TakeBroadcast)
    /\ \A c \in Client : /\ SF_vars(Handler(c))
                         /\ WF_vars(Writer(c))
                         /\ SF_vars(DropClient(c))

FairSpec == Spec /\ Fairness
-----------------------------------------------------------------------------
(* Run never closes a client's channel twice, although a client that is    *)
(* too slow while its reader ends sends itself to unregister several times *)
(* (ws.go:85-94): closing a closed channel would kill the process.         *)
NoDoubleClose == hub # "close of closed channel"

(* The process survives every fan-out: "client is too slow, drop them"     *)
(* (ws.go:104) promises that a client whose channel was closed is out of   *)
(* the hub, so that Run never sends on a closed channel.                   *)
NoSendOnClosed == hub # "send on closed channel"

(* A registered client that was refused a message is on its way out        *)
(* (ws.go:104-105): no connection silently lives on with a gap, except one *)
(* whose unregistration Run took before its registration.                  *)
SlowClientsLeave ==
    \A c \in (missed \cap clients) \ early :
        droppers[c] > 0 \/ \E i \in DOMAIN unregister : unregister[i] = c

(* A connection sees the accepted messages in order and at most once,      *)
(* through the broadcast queue and its own buffer (ws.go:97-108, 350-359). *)
Feed == INSTANCE OrderedFeed WITH Client <- Client, accepted <- accepted, last <- last
FeedSpec == Feed!Spec

(* Once a connection is cut, or the hub has dropped it, both its goroutines *)
(* end and the socket is closed, unless the process dies first: closing     *)
(* the channel ends the writer, whose Close ends the reader (ws.go:338-352). *)
ConnectionEnds ==
    \A c \in Client :
        (conn[c] = "closed" \/ c \in closed)
            ~> (\/ handler[c] = "done" /\ writer[c] = "done" /\ conn[c] = "closed"
                \/ ~Up)
=============================================================================
