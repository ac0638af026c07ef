-------------------------------- MODULE Ntfy --------------------------------
(***************************************************************************)
(* The Ntfy backend: class NtfyPushProvider, the server-sent events stream *)
(* it reads messages from, the server that keeps them, and the part of the *)
(* distributor's command queue that drives it.                             *)
(*                                                                         *)
(* All topics share one stream.  Every registration and unregistration     *)
(* aborts it and opens another one for the new set of topics, which starts *)
(* after the last message that was handled.  What the aborted one has      *)
(* brought is still in the event queue.  A message can have an attachment, *)
(* which is fetched before it is handled.                                  *)
(*                                                                         *)
(* One action is one handler run by the Qt event loop.  Operators no       *)
(* action refers to (SinceNow, KeepsStream, ...) are slips of the          *)
(* definition that follows them, for the README's mutants.                 *)
(***************************************************************************)
EXTENDS Integers, Sequences, FiniteSets

CONSTANTS
  MaxTopics,   \* bound: topics created
  MaxMessages, \* bound: messages published
  Limits       \* bounds: how often the surroundings do each of Kinds, a
               \* set of alternatives

Kinds == {"register", "unregister", "publish", "attach", "drop", "reject",
          "network", "crash", "fail"}

ASSUME NtfyAssumption ==
  /\ MaxTopics \in Nat /\ MaxMessages \in Nat
  /\ Limits \subseteq [Kinds -> Nat]

VARIABLES
  topics,        \* m_topics, which are the distributor's clients too
  lastMessageId, \* m_lastMessageId, 0 if empty
  storedTopics,  \* QSettings Ntfy-internal/Topics
  storedId,      \* QSettings Ntfy-internal/LastMessageId
  stream,        \* m_sseReply: off, opening or open; the topics it asked
                 \* for; the last message that has come on it
  events,        \* queued invocations of messageReceived()
  fetches,       \* attachments being fetched, by message
  log,           \* the messages the server has, in order; the identifier
                 \* of a message is its position
  created,       \* topics 1..created have been created, each for one
                 \* registration, and applications told their endpoints
  delivered,     \* messages that reached a client of the distributor
  status,        \* the distributor's m_status,
  current,       \* m_currentCommand, as far as it waits for something,
  queue,         \* and m_commandQueue
  network,       \* isNetworkAvailable()
  budget         \* what is left of the limits

objectVars == <<topics, lastMessageId, storedTopics, storedId>>
arrivals == <<events, fetches>>
serverVars == <<log, created>>
daemonVars == <<status, current, queue, network>>
vars == <<objectVars, stream, arrivals, serverVars, delivered, daemonVars,
          budget>>

-----------------------------------------------------------------------------
(* Types *)

Topics == 1..MaxTopics
NoTopic == 0
Message == [topic : Topics, attachment : BOOLEAN]
MessageIds == 1..MaxMessages
Stream == [state : {"off", "opening", "open"}, topics : SUBSET Topics,
           last : 0..MaxMessages]
(* 0 stands for the event "open", others are messages. *)
Events == 0..MaxMessages
Commands ==
  [type : {"Connect", "Disconnect", "Wait", "Register"}, topic : {NoTopic}]
  \cup [type : {"Unregister"}, topic : Topics]

TypeOK ==
  /\ topics \subseteq Topics /\ storedTopics \subseteq Topics
  /\ lastMessageId \in 0..MaxMessages /\ storedId \in 0..MaxMessages
  /\ stream \in Stream
  /\ events \in Seq(Events) /\ fetches \in Seq(MessageIds)
  /\ log \in Seq(Message) /\ Len(log) <= MaxMessages
  /\ created \in 0..MaxTopics
  /\ delivered \subseteq MessageIds
  /\ status \in {"Idle", "NoNetwork", "Connected"}
  /\ current \in {"NoCommand", "Connect", "Wait"}
  /\ queue \in Seq(Commands)
  /\ network \in BOOLEAN
  /\ budget \in [Kinds -> Nat]

-----------------------------------------------------------------------------
(* Helpers *)

Cmd(type) == [type |-> type, topic |-> NoTopic]
Without(s, i) == SubSeq(s, 1, i - 1) \o SubSeq(s, i + 1, Len(s))

Off == [state |-> "off", topics |-> {}, last |-> 0]
Spend(kind) == /\ budget[kind] > 0
               /\ budget' = [budget EXCEPT ![kind] = @ - 1]

(* providerConnected() *)
Connected(cmd) ==
  /\ status' = "Connected"
  /\ current' = IF cmd = "Connect" THEN "NoCommand" ELSE cmd

(* storeState() *)
StoreState == storedTopics' = topics' /\ storedId' = lastMessageId'

(* doConnectToProvider() for the topics ts, while cmd is current; the      *)
(* server is asked for what came after the last message, or for all it     *)
(* has.                                                                    *)
SinceNow(ts) == [state |-> "opening", topics |-> ts, last |-> Len(log)]
Since(ts) == [state |-> "opening", topics |-> ts, last |-> lastMessageId]
KeepsStream(ts, cmd) ==
  IF ts = {}
  THEN stream' = Off /\ Connected(cmd)
  ELSE /\ stream' = IF stream = Off THEN Since(ts) ELSE stream
       /\ UNCHANGED status /\ current' = cmd
DoConnectToProvider(ts, cmd) ==
  IF ts = {}
  THEN stream' = Off /\ Connected(cmd)
  ELSE stream' = Since(ts) /\ UNCHANGED status /\ current' = cmd

-----------------------------------------------------------------------------
Init ==
  /\ topics = {} /\ lastMessageId = 0 /\ storedTopics = {} /\ storedId = 0
  /\ stream = Off /\ events = <<>> /\ fetches = <<>>
  /\ log = <<>> /\ created = 0 /\ delivered = {}
  /\ status = "Idle" /\ current = "NoCommand" /\ queue = <<>>
  /\ network = TRUE /\ budget \in Limits

(* What the distributor queues: a registration, preceded by Connect for    *)
(* the first client, and an unregistration.                                *)
CallRegister ==
  /\ Spend("register")
  /\ queue' = queue
              \o (IF topics = {} THEN <<Cmd("Connect")>> ELSE <<>>)
              \o <<Cmd("Register")>>
  /\ UNCHANGED <<objectVars, stream, arrivals, serverVars, delivered, status,
                 current, network>>

CallUnregister(t) ==
  /\ t \in topics /\ Spend("unregister")
  /\ queue' = Append(queue, [type |-> "Unregister", topic |-> t])
  /\ UNCHANGED <<objectVars, stream, arrivals, serverVars, delivered, status,
                 current, network>>

(* reachabilityChanged() *)
NetworkChange ==
  /\ Spend("network") /\ network' = ~network
  /\ queue' =
       CASE network' /\ topics # {} /\ status # "Connected" ->
              Append(queue, Cmd("Connect"))
         [] ~network' /\ status = "Connected" ->
              Append(queue, Cmd("Disconnect"))
         [] OTHER -> queue
  /\ UNCHANGED <<objectVars, stream, arrivals, serverVars, delivered, status,
                 current>>

(* doProcessNextCommand() *)
Takes(type) ==
  /\ current = "NoCommand" /\ queue # <<>> /\ Head(queue).type = type
  /\ network \/ type = "Disconnect"
  /\ queue' = Tail(queue)

ConnectToProvider ==
  /\ Takes("Connect")
  /\ DoConnectToProvider(topics, "Connect")
  /\ UNCHANGED <<objectVars, arrivals, serverVars, delivered, network, budget>>

(* registerClient(): creates a topic, and has registered it at once. *)
RegisterClient ==
  /\ Takes("Register") /\ created < MaxTopics
  /\ created' = created + 1
  /\ topics' = topics \cup {created'} /\ UNCHANGED lastMessageId
  /\ StoreState
  /\ DoConnectToProvider(topics', "NoCommand")
  /\ UNCHANGED <<arrivals, log, delivered, network, budget>>

(* unregisterClient(): with the last client the distributor disconnects,   *)
(* unless there is more to do.                                             *)
UnregisterClient ==
  LET t == Head(queue).topic
      left == topics \ {t}
  IN
  /\ current = "NoCommand" /\ queue # <<>>
  /\ Head(queue).type = "Unregister" /\ network
  /\ queue' = IF t \in topics /\ left = {} /\ Tail(queue) = <<>>
              THEN <<Cmd("Disconnect")>> ELSE Tail(queue)
  /\ topics' = left /\ UNCHANGED lastMessageId /\ StoreState
  /\ DoConnectToProvider(left, "NoCommand")
  /\ UNCHANGED <<arrivals, serverVars, delivered, network, budget>>

(* disconnectFromProvider() *)
DisconnectFromProvider ==
  /\ Takes("Disconnect")
  /\ stream' = Off
  /\ status' = IF topics = {} THEN "Idle" ELSE "NoNetwork"
  /\ UNCHANGED <<objectVars, arrivals, serverVars, delivered, current, network,
                 budget>>

(* The retry timer. *)
Wait ==
  /\ Takes("Wait") /\ current' = "Wait"
  /\ UNCHANGED <<objectVars, stream, arrivals, serverVars, delivered, status,
                 network, budget>>
RetryTimeout ==
  /\ current = "Wait" /\ current' = "NoCommand"
  /\ UNCHANGED <<objectVars, stream, arrivals, serverVars, delivered, status,
                 queue, network, budget>>

-----------------------------------------------------------------------------
(* The server and the stream: external, except that what arrives is put    *)
(* into the event queue instead of being handled.                          *)

Publish(t, attachment) ==
  /\ t \in 1..created /\ Len(log) < MaxMessages
  /\ Spend(IF attachment THEN "attach" ELSE "publish")
  /\ log' = Append(log, [topic |-> t, attachment |-> attachment])
  /\ UNCHANGED <<objectVars, stream, arrivals, created, delivered, daemonVars>>

StreamOpens ==
  /\ stream.state = "opening"
  /\ stream' = [stream EXCEPT !.state = "open"]
  /\ events' = Append(events, 0)
  /\ UNCHANGED <<objectVars, fetches, serverVars, delivered, daemonVars, budget>>

ToSend == {m \in DOMAIN log : m > stream.last /\ log[m].topic \in stream.topics}
ServerSends ==
  /\ stream.state = "open"
  /\ \E m \in ToSend :
       /\ \A other \in ToSend : m <= other
       /\ stream' = [stream EXCEPT !.last = m]
       /\ events' = Append(events, m)
  /\ UNCHANGED <<objectVars, fetches, serverVars, delivered, daemonVars, budget>>

(* messageReceived(), of the distributor too, which drops what is not for  *)
(* one of its clients.                                                     *)
ReceiveNext(m) ==
  /\ lastMessageId' = m + 1 /\ UNCHANGED topics /\ StoreState
  /\ delivered' = IF log[m].topic \in topics THEN delivered \cup {m}
                                             ELSE delivered
Receive(m) ==
  /\ lastMessageId' = m /\ UNCHANGED topics /\ StoreState
  /\ delivered' = IF log[m].topic \in topics THEN delivered \cup {m}
                                             ELSE delivered

(* The handler of the stream's events. *)
HandleOpen ==
  /\ events # <<>> /\ Head(events) = 0
  /\ events' = Tail(events)
  /\ Connected(current)
  /\ UNCHANGED <<objectVars, stream, fetches, serverVars, delivered, queue,
                 network, budget>>

HandleMessage ==
  /\ events # <<>> /\ Head(events) # 0 /\ ~log[Head(events)].attachment
  /\ events' = Tail(events)
  /\ Receive(Head(events))
  /\ UNCHANGED <<stream, fetches, serverVars, daemonVars, budget>>

HandleAttachment ==
  /\ events # <<>> /\ Head(events) # 0 /\ log[Head(events)].attachment
  /\ events' = Tail(events)
  /\ fetches' = Append(fetches, Head(events))
  /\ UNCHANGED <<objectVars, stream, serverVars, delivered, daemonVars, budget>>

(* The attachment has been fetched, or that failed. *)
FetchFinished(i) ==
  /\ i \in DOMAIN fetches
  /\ fetches' = Without(fetches, i)
  /\ Receive(fetches[i])
  /\ UNCHANGED <<stream, events, serverVars, daemonVars, budget>>
FetchFails(i) ==
  /\ i \in DOMAIN fetches /\ Spend("fail")
  /\ fetches' = Without(fetches, i)
  /\ UNCHANGED <<objectVars, stream, events, serverVars, delivered, daemonVars>>

(* The reply finishes on its own: after an error message of the server, or *)
(* because the link is lost.  providerDisconnected() connects again after  *)
(* a while in the latter case.                                             *)
Disconnected(retry) ==
  /\ status' = "NoNetwork" /\ current' = "NoCommand"
  /\ queue' = (IF topics # {} /\ retry
               THEN <<Cmd("Wait"), Cmd("Connect")>> ELSE <<>>)
              \o (IF current = "Wait" THEN <<Cmd("Wait")>> ELSE <<>>) \o queue
StreamFails ==
  /\ stream.state # "off" /\ Spend("drop")
  /\ stream' = Off
  /\ Disconnected(TRUE)
  /\ UNCHANGED <<objectVars, arrivals, serverVars, delivered, network>>
ServerRejects ==
  /\ stream.state = "opening" /\ Spend("reject")
  /\ stream' = Off
  /\ Disconnected(FALSE)
  /\ UNCHANGED <<objectVars, arrivals, serverVars, delivered, network>>

(* The daemon ends and starts again: loadSettings(). *)
Restart ==
  /\ Spend("crash")
  /\ topics' = storedTopics /\ lastMessageId' = storedId
  /\ stream' = Off /\ events' = <<>> /\ fetches' = <<>>
  /\ status' = IF storedTopics = {} THEN "Idle" ELSE "NoNetwork"
  /\ current' = "NoCommand"
  /\ queue' = IF storedTopics = {} THEN <<>> ELSE <<Cmd("Connect")>>
  /\ UNCHANGED <<storedTopics, storedId, serverVars, delivered, network>>

-----------------------------------------------------------------------------
Daemon ==
  \/ ConnectToProvider \/ RegisterClient \/ UnregisterClient
  \/ DisconnectFromProvider \/ Wait \/ RetryTimeout
Handle == HandleOpen \/ HandleMessage \/ HandleAttachment
Calls == CallRegister \/ \E t \in Topics : CallUnregister(t)
Publishes == \E t \in Topics, a \in BOOLEAN : Publish(t, a)
Fetched == \E i \in DOMAIN fetches : FetchFinished(i)
FetchLost == \E i \in DOMAIN fetches : FetchFails(i)

Next ==
  \/ Daemon \/ Handle \/ Calls \/ Publishes \/ Fetched \/ FetchLost
  \/ StreamOpens \/ ServerSends \/ StreamFails \/ ServerRejects
  \/ NetworkChange \/ Restart

Spec == Init /\ [][Next]_vars

=============================================================================
