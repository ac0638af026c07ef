----------------------------- MODULE NtfyProofs -----------------------------
(***************************************************************************)
(* Theorems about module Ntfy: no message without attachment is skipped,   *)
(* the backend implements the mailboxes, and a daemon that is connected    *)
(* listens, for every number of topics and messages, and however often     *)
(* links break and the daemon restarts.                                    *)
(***************************************************************************)
EXTENDS NtfyProperties, SequenceTheorems, TLAPS

-----------------------------------------------------------------------------
(* Lemmas *)

(* Without(s, i) has no elements that s does not have. *)
LEMMA WithoutType ==
  ASSUME NEW S, NEW s \in Seq(S), NEW i \in DOMAIN s
  PROVE  /\ Without(s, i) \in Seq(S)
         /\ \A k \in DOMAIN Without(s, i) :
              \E j \in DOMAIN s : Without(s, i)[k] = s[j]
<1> DEFINE a == SubSeq(s, 1, i - 1)
           b == SubSeq(s, i + 1, Len(s))
<1>1. a \in Seq(S) /\ Len(a) = i - 1 /\ \A k \in 1..Len(a) : a[k] = s[k]
  OBVIOUS
<1>2. b \in Seq(S) /\ Len(b) = Len(s) - i
      /\ \A k \in 1..Len(b) : b[k] = s[k + i]
  OBVIOUS
<1> HIDE DEF a, b
<1>3. a \o b \in Seq(S) /\ Len(a \o b) = Len(a) + Len(b)
  BY <1>1, <1>2, ConcatProperties
<1>4. \A k \in 1..Len(a \o b) :
        (a \o b)[k] = IF k <= Len(a) THEN a[k] ELSE b[k - Len(a)]
  BY <1>1, <1>2, ConcatProperties
<1>5. \A k \in 1..Len(a \o b) : \E j \in DOMAIN s : (a \o b)[k] = s[j]
  <2> TAKE k \in 1..Len(a \o b)
  <2>1. CASE k <= Len(a)
    <3>1. k \in 1..Len(a) /\ k \in DOMAIN s
      BY <1>1, <1>3, <2>1
    <3>2. QED
      BY <1>1, <1>4, <2>1, <3>1
  <2>2. CASE ~(k <= Len(a))
    <3>1. k - Len(a) \in 1..Len(b) /\ k - Len(a) + i \in DOMAIN s
      BY <1>1, <1>2, <1>3, <2>2
    <3>2. QED
      BY <1>2, <1>4, <2>2, <3>1
  <2>3. QED
    BY <2>1, <2>2
<1>6. Without(s, i) = a \o b
  BY DEF Without, a, b
<1>7. DOMAIN (a \o b) = 1..Len(a \o b)
  BY <1>3
<1>8. QED
  BY <1>3, <1>5, <1>6, <1>7

-----------------------------------------------------------------------------
(* Types *)

(* Every variable keeps its type. *)
LEMMA TypeInit == Init => TypeOK
BY NtfyAssumption
   DEF Init, TypeOK, Off, Stream, Message, Events, Commands, Topics, MessageIds

(* The states of the stream. *)
LEMMA StreamType ==
  /\ Off \in Stream
  /\ \A s \in Stream : [s EXCEPT !.state = "open"] \in Stream
  /\ \A s \in Stream, m \in 0..MaxMessages : [s EXCEPT !.last = m] \in Stream
BY NtfyAssumption DEF Off, Stream

LEMMA ReconnectType ==
  ASSUME TypeOK, NEW ts \in SUBSET Topics,
         NEW cmd \in {"NoCommand", "Connect", "Wait"},
         DoConnectToProvider(ts, cmd)
  PROVE  /\ stream' \in Stream
         /\ status' \in {"Idle", "NoNetwork", "Connected"}
         /\ current' \in {"NoCommand", "Connect", "Wait"}
BY NtfyAssumption
   DEF TypeOK, DoConnectToProvider, Since, Off, Connected, Stream

LEMMA ReceiveType ==
  ASSUME TypeOK, NEW m \in MessageIds, Receive(m)
  PROVE  /\ topics' \subseteq Topics /\ storedTopics' \subseteq Topics
         /\ lastMessageId' \in 0..MaxMessages /\ storedId' \in 0..MaxMessages
         /\ delivered' \subseteq MessageIds
BY NtfyAssumption DEF TypeOK, Receive, StoreState, MessageIds

LEMMA SpendType ==
  ASSUME TypeOK, NEW kind \in Kinds, Spend(kind)
  PROVE  budget' \in [Kinds -> Nat]
BY DEF TypeOK, Spend

(* The commands the distributor queues. *)
LEMMA CommandsType ==
  /\ \A type \in {"Connect", "Disconnect", "Wait", "Register"} :
       Cmd(type) \in Commands
  /\ \A t \in Topics : [type |-> "Unregister", topic |-> t] \in Commands
BY DEF Cmd, Commands

LEMMA TypeNext == TypeOK /\ [Next]_vars => TypeOK'
<1> SUFFICES ASSUME TypeOK, [Next]_vars PROVE TypeOK'
  OBVIOUS
<1> USE NtfyAssumption
<1>1. CASE ConnectToProvider
  <2>1. queue' \in Seq(Commands)
    BY <1>1 DEF TypeOK, ConnectToProvider, Takes
  <2>2. /\ stream' \in Stream
        /\ status' \in {"Idle", "NoNetwork", "Connected"}
        /\ current' \in {"NoCommand", "Connect", "Wait"}
    BY <1>1, ReconnectType DEF TypeOK, ConnectToProvider
  <2>3. QED
    BY <1>1, <2>1, <2>2 DEF TypeOK, ConnectToProvider, objectVars, arrivals, serverVars
<1>2. CASE RegisterClient
  <2>1. queue' \in Seq(Commands)
    BY <1>2 DEF TypeOK, RegisterClient, Takes
  <2>2. topics' \subseteq Topics /\ created' \in 0..MaxTopics
    BY <1>2 DEF TypeOK, RegisterClient, Topics
  <2>3. /\ stream' \in Stream
        /\ status' \in {"Idle", "NoNetwork", "Connected"}
        /\ current' \in {"NoCommand", "Connect", "Wait"}
    BY <1>2, <2>2, ReconnectType DEF RegisterClient
  <2>4. QED
    BY <1>2, <2>1, <2>2, <2>3
       DEF TypeOK, RegisterClient, StoreState, arrivals
<1>3. CASE UnregisterClient
  <2>1. queue' \in Seq(Commands)
    BY <1>3, CommandsType DEF TypeOK, UnregisterClient
  <2>2. topics' \subseteq Topics
    BY <1>3 DEF TypeOK, UnregisterClient
  <2>3. /\ stream' \in Stream
        /\ status' \in {"Idle", "NoNetwork", "Connected"}
        /\ current' \in {"NoCommand", "Connect", "Wait"}
    BY <1>3, <2>2, ReconnectType DEF UnregisterClient
  <2>4. QED
    BY <1>3, <2>1, <2>2, <2>3
       DEF TypeOK, UnregisterClient, StoreState, arrivals, serverVars
<1>4. CASE DisconnectFromProvider
  BY <1>4 DEF TypeOK, DisconnectFromProvider, Takes, Off, Stream, objectVars,
              arrivals, serverVars
<1>5. CASE Wait \/ RetryTimeout
  <2>1. CASE Wait
    <3>1. queue' \in Seq(Commands)
      BY <2>1 DEF TypeOK, Wait, Takes
    <3>2. QED
      BY <2>1, <3>1 DEF TypeOK, Wait, objectVars, arrivals, serverVars
  <2>2. CASE RetryTimeout
    BY <2>2 DEF TypeOK, RetryTimeout, objectVars, arrivals, serverVars
  <2>3. QED
    BY <1>5, <2>1, <2>2
<1>6. CASE HandleOpen
  BY <1>6 DEF TypeOK, HandleOpen, Connected, objectVars, serverVars
<1>7. CASE HandleMessage
  <2>1. events' \in Seq(Events) /\ Head(events) \in MessageIds
    BY <1>7 DEF TypeOK, HandleMessage, Events, MessageIds
  <2>2. QED
    BY <1>7, <2>1, ReceiveType DEF TypeOK, HandleMessage, serverVars, daemonVars
<1>8. CASE HandleAttachment
  <2>1. events' \in Seq(Events) /\ Head(events) \in MessageIds
    BY <1>8 DEF TypeOK, HandleAttachment, Events, MessageIds
  <2>2. fetches' \in Seq(MessageIds)
    BY <1>8, <2>1 DEF TypeOK, HandleAttachment
  <2>3. QED
    BY <1>8, <2>1, <2>2 DEF TypeOK, HandleAttachment,
                            objectVars, serverVars, daemonVars
<1>9. ASSUME NEW i \in DOMAIN fetches, FetchFinished(i) PROVE TypeOK'
  <2>1. fetches' \in Seq(MessageIds)
    BY <1>9, WithoutType DEF TypeOK, FetchFinished
  <2>2. fetches[i] \in MessageIds
    BY DEF TypeOK
  <2>3. QED
    BY <1>9, <2>1, <2>2, ReceiveType
       DEF TypeOK, FetchFinished, serverVars, daemonVars
<1>10. ASSUME NEW i \in DOMAIN fetches, FetchFails(i) PROVE TypeOK'
  <2>1. fetches' \in Seq(MessageIds)
    BY <1>10, WithoutType DEF TypeOK, FetchFails
  <2>2. budget' \in [Kinds -> Nat]
    BY <1>10, SpendType DEF FetchFails, Kinds
  <2>3. QED
    BY <1>10, <2>1, <2>2 DEF TypeOK, FetchFails, objectVars, serverVars,
                             daemonVars
<1>11. CASE CallRegister
  <2>1. budget' \in [Kinds -> Nat]
    BY <1>11, SpendType DEF CallRegister, Kinds
  <2>2. queue' \in Seq(Commands)
    BY <1>11, CommandsType DEF TypeOK, CallRegister
  <2>3. QED
    BY <1>11, <2>1, <2>2 DEF TypeOK, CallRegister, objectVars, arrivals,
                             serverVars
<1>12. ASSUME NEW t \in Topics, CallUnregister(t) PROVE TypeOK'
  <2>1. budget' \in [Kinds -> Nat]
    BY <1>12, SpendType DEF CallUnregister, Kinds
  <2>2. queue' \in Seq(Commands)
    BY <1>12, CommandsType DEF TypeOK, CallUnregister
  <2>3. QED
    BY <1>12, <2>1, <2>2 DEF TypeOK, CallUnregister, objectVars, arrivals,
                             serverVars
<1>13. ASSUME NEW t \in Topics, NEW a \in BOOLEAN, Publish(t, a) PROVE TypeOK'
  <2>1. budget' \in [Kinds -> Nat]
    BY <1>13, SpendType DEF Publish, Kinds
  <2>2. [topic |-> t, attachment |-> a] \in Message
    BY DEF Message
  <2>3. log' \in Seq(Message) /\ Len(log') <= MaxMessages
    BY <1>13, <2>2 DEF TypeOK, Publish
  <2>4. QED
    BY <1>13, <2>1, <2>3 DEF TypeOK, Publish, objectVars, arrivals, daemonVars
<1>14. CASE StreamOpens
  <2>1. 0 \in Events /\ stream' \in Stream
    BY <1>14, StreamType DEF TypeOK, StreamOpens, Events
  <2>2. events' \in Seq(Events)
    BY <1>14, <2>1 DEF TypeOK, StreamOpens
  <2>3. QED
    BY <1>14, <2>1, <2>2 DEF TypeOK, StreamOpens, objectVars, serverVars,
                             daemonVars
<1>15. CASE ServerSends
  <2>1. PICK m \in ToSend : /\ stream' = [stream EXCEPT !.last = m]
                            /\ events' = Append(events, m)
    BY <1>15 DEF ServerSends
  <2>2. m \in Events
    BY DEF TypeOK, ToSend, Events
  <2>3. stream' \in Stream
    BY <2>1, <2>2, StreamType DEF TypeOK, Events
  <2>4. events' \in Seq(Events)
    BY <2>1, <2>2 DEF TypeOK
  <2>5. QED
    BY <1>15, <2>3, <2>4 DEF TypeOK, ServerSends, objectVars, serverVars,
                             daemonVars
<1>16. CASE StreamFails \/ ServerRejects
  <2>1. budget' \in [Kinds -> Nat]
    BY <1>16, SpendType DEF StreamFails, ServerRejects, Kinds
  <2>2. \A retry \in BOOLEAN :
          Disconnected(retry) => queue' \in Seq(Commands)
    BY CommandsType DEF TypeOK, Disconnected
  <2>3. queue' \in Seq(Commands)
    BY <1>16, <2>2 DEF StreamFails, ServerRejects
  <2>4. stream' \in Stream
    BY <1>16, StreamType DEF StreamFails, ServerRejects
  <2>5. QED
    BY <1>16, <2>1, <2>3, <2>4
       DEF TypeOK, StreamFails, ServerRejects, Disconnected, objectVars,
           arrivals, serverVars
<1>17. CASE NetworkChange
  <2>1. budget' \in [Kinds -> Nat]
    BY <1>17, SpendType DEF NetworkChange, Kinds
  <2>2. queue' \in Seq(Commands)
    BY <1>17, CommandsType DEF TypeOK, NetworkChange
  <2>3. QED
    BY <1>17, <2>1, <2>2 DEF TypeOK, NetworkChange, objectVars, arrivals,
                             serverVars
<1>18. CASE Restart
  <2>1. budget' \in [Kinds -> Nat]
    BY <1>18, SpendType DEF Restart, Kinds
  <2>2. queue' \in Seq(Commands) /\ stream' \in Stream
    BY <1>18, CommandsType, StreamType DEF Restart
  <2>3. QED
    BY <1>18, <2>1, <2>2 DEF TypeOK, Restart, serverVars
<1>19. CASE UNCHANGED vars
  BY <1>19 DEF TypeOK, vars, objectVars, arrivals, serverVars, daemonVars
<1>20. QED
  BY <1>1, <1>2, <1>3, <1>4, <1>5, <1>6, <1>7, <1>8, <1>9, <1>10, <1>11, <1>12,
     <1>13, <1>14, <1>15, <1>16, <1>17, <1>18, <1>19
     DEF Next, Daemon, Handle, Calls, Publishes, Fetched, FetchLost

(* The types of all variables. *)
THEOREM NtfyTypeCorrect == Spec => []TypeOK
BY TypeInit, TypeNext, PTL DEF Spec

-----------------------------------------------------------------------------
(* The inductive invariant: where a waiting message without attachment can *)
(* be.  It is after the last message handled; with a stream, it is still   *)
(* to be sent or in the event queue, before anything that follows it; and  *)
(* no attachment that is being fetched came after it.                      *)

Wanted == Waiting \cap Plain

Consistent == storedTopics = topics /\ storedId = lastMessageId

(* What has not been created or published is nowhere. *)
Bounded ==
  /\ topics \subseteq 1..created
  /\ \A m \in DOMAIN log : log[m].topic \in 1..created
  /\ lastMessageId <= Len(log) /\ stream.last <= Len(log)
  /\ \A i \in DOMAIN events : events[i] <= Len(log)
  /\ \A i \in DOMAIN fetches : fetches[i] <= Len(log)
  /\ delivered \subseteq 1..Len(log)

StreamTopics == stream.state # "off" => stream.topics = topics
NoneSkipped == \A m \in Wanted : m > lastMessageId
NoneMissed ==
  stream.state # "off" =>
    \A m \in Wanted : m > stream.last \/ \E i \in DOMAIN events : events[i] = m
InOrder ==
  \A i \in DOMAIN events, m \in Wanted :
    m > events[i] \/ \E j \in 1..i : events[j] = m
NoneFetched == \A i \in DOMAIN fetches, m \in Wanted : m > fetches[i]

IInv ==
  /\ TypeOK /\ Consistent /\ Bounded /\ StreamTopics
  /\ NoneSkipped /\ NoneMissed /\ InOrder /\ NoneFetched

LEMMA InvariantInit == Init => IInv
BY TypeInit, NtfyAssumption
   DEF Init, IInv, Consistent, Bounded, StreamTopics, NoneSkipped, NoneMissed,
       InOrder, NoneFetched, Wanted, Waiting, Plain, Off

(* No message becomes a waiting one but by being published. *)
LEMMA WantedShrinks ==
  ASSUME IInv, log' = log, delivered \subseteq delivered',
         topics' \subseteq topics \cup {created + 1}
  PROVE  Wanted' \subseteq Wanted
<1>1. \A m \in DOMAIN log : log[m].topic # created + 1
  BY DEF IInv, TypeOK, Bounded
<1>2. QED
  BY <1>1 DEF Wanted, Waiting, Plain

(* Steps that concern the command queue alone. *)
LEMMA QueueStep ==
  ASSUME IInv, TypeOK',
         UNCHANGED <<objectVars, stream, arrivals, serverVars, delivered>>
  PROVE  IInv'
BY DEF IInv, objectVars, arrivals, serverVars, Consistent, Bounded, StreamTopics,
       NoneSkipped, NoneMissed, InOrder, NoneFetched, Wanted, Waiting, Plain

(* Steps that end the stream, or start one for all topics after the last   *)
(* message handled, and may create a topic or remove one.                  *)
LEMMA ReconnectStep ==
  ASSUME IInv, TypeOK',
         stream' = Off \/ stream' = [state |-> "opening", topics |-> topics',
                                    last |-> lastMessageId],
         topics' \subseteq topics \cup {created + 1},
         topics' \subseteq 1..created', created <= created',
         lastMessageId' = lastMessageId, StoreState,
         UNCHANGED <<arrivals, log, delivered>>
  PROVE  IInv'
<1>1. Wanted' \subseteq Wanted
  BY WantedShrinks DEF IInv, TypeOK
<1>2. Consistent' /\ StreamTopics'
  BY DEF Consistent, StreamTopics, StoreState, Off
<1>3. created \in Nat /\ created' \in Nat
  BY NtfyAssumption DEF IInv, TypeOK
<1>4. Bounded'
  <2>1. \A m \in DOMAIN log' : log'[m].topic \in 1..created'
    BY <1>3 DEF IInv, Bounded
  <2>2. stream'.last <= Len(log')
    BY DEF IInv, TypeOK, Bounded, Off
  <2>3. QED
    BY <2>1, <2>2 DEF IInv, Bounded, arrivals
<1>5. NoneSkipped' /\ InOrder' /\ NoneFetched'
  BY <1>1 DEF IInv, NoneSkipped, InOrder, NoneFetched, arrivals
<1>6. NoneMissed'
  BY <1>1 DEF IInv, NoneMissed, NoneSkipped, Off
<1>7. QED
  BY <1>2, <1>4, <1>5, <1>6 DEF IInv

(* Message m is handled, which every waiting one follows. *)
LEMMA ReceiveStep ==
  ASSUME IInv, TypeOK', NEW m \in MessageIds, m <= Len(log), Receive(m),
         \A w \in Wanted : w >= m,
         UNCHANGED <<stream, serverVars>>
  PROVE  /\ Consistent' /\ StreamTopics' /\ NoneSkipped'
         /\ Wanted' \subseteq Wanted \ {m}
         /\ topics' = topics /\ delivered' \subseteq 1..Len(log)
<1>1. log' = log /\ topics' = topics /\ created' = created
  BY DEF Receive, serverVars
<1>2. delivered \subseteq delivered' /\ delivered' \subseteq delivered \cup {m}
  BY DEF Receive
<1>3. Wanted' \subseteq Wanted
  BY <1>1, <1>2, WantedShrinks
<1>4. m \notin Wanted'
  BY <1>1 DEF Wanted, Waiting, Receive
<1>5. NoneSkipped'
  <2>1. \A w \in Wanted : w \in Nat
    BY DEF IInv, TypeOK, Wanted, Waiting
  <2>2. QED
    BY <1>3, <1>4, <2>1 DEF Receive, NoneSkipped, MessageIds
<1>6. Consistent' /\ StreamTopics'
  BY <1>1 DEF IInv, Consistent, StreamTopics, Receive, StoreState
<1>7. delivered' \subseteq 1..Len(log)
  BY <1>2 DEF IInv, Bounded, MessageIds
<1>8. QED
  BY <1>1, <1>3, <1>4, <1>5, <1>6, <1>7

(* The head of the event queue precedes all waiting messages, or is the    *)
(* first of them.                                                          *)
LEMMA HeadFirst ==
  ASSUME IInv, events # <<>>
  PROVE  \A w \in Wanted : w > Head(events) \/ w = Head(events)
<1>1. 1 \in DOMAIN events /\ Head(events) = events[1]
  BY DEF IInv, TypeOK
<1>2. QED
  BY <1>1 DEF IInv, InOrder

(* The head of the event queue goes, and no waiting message with it. *)
LEMMA HeadGoes ==
  ASSUME IInv, events # <<>>, events' = Tail(events),
         Wanted' \subseteq Wanted \ {Head(events)}, UNCHANGED stream
  PROVE  /\ NoneMissed' /\ InOrder'
         /\ \A i \in DOMAIN events' : \E k \in DOMAIN events : events'[i] = events[k]
<1>1. /\ events \in Seq(Events) /\ Head(events) = events[1]
      /\ \A i \in DOMAIN events' : i + 1 \in DOMAIN events
                                   /\ events'[i] = events[i + 1]
      /\ \A i \in DOMAIN events : i = 1 \/ (i - 1 \in DOMAIN events'
                                          /\ events'[i - 1] = events[i])
      /\ DOMAIN events \subseteq Nat /\ DOMAIN events' \subseteq Nat
  BY DEF IInv, TypeOK
<1>2. NoneMissed'
  <2>1. \A w \in Wanted', i \in DOMAIN events :
          events[i] = w => \E k \in DOMAIN events' : events'[k] = w
    BY <1>1
  <2>2. QED
    BY <2>1 DEF IInv, NoneMissed
<1>3. InOrder'
  <2> SUFFICES ASSUME NEW i \in DOMAIN events', NEW w \in Wanted',
                      ~(w > events'[i])
               PROVE  \E j \in 1..i : events'[j] = w
    BY DEF InOrder
  <2>1. PICK j \in 1..(i + 1) : events[j] = w
    BY <1>1 DEF IInv, InOrder
  <2>2. j # 1 /\ j - 1 \in 1..i /\ j \in DOMAIN events
    BY <1>1, <2>1
  <2>3. QED
    BY <1>1, <2>1, <2>2
<1>4. QED
  BY <1>1, <1>2, <1>3

(* An event joins the queue that every waiting message follows, is, or     *)
(* comes before in the queue.                                              *)
LEMMA EventJoins ==
  ASSUME IInv, NEW e \in Events, events' = Append(events, e),
         Wanted' = Wanted,
         \A w \in Wanted : \/ w > e \/ w = e
                           \/ \E i \in DOMAIN events : events[i] = w
  PROVE  /\ InOrder'
         /\ \A w : (\E i \in DOMAIN events : events[i] = w) \/ w = e
                  => \E i \in DOMAIN events' : events'[i] = w
<1>1. /\ DOMAIN events = 1..Len(events) /\ Len(events) \in Nat
      /\ DOMAIN events' = 1..(Len(events) + 1)
      /\ \A i \in DOMAIN events : events'[i] = events[i]
      /\ events'[Len(events) + 1] = e
  BY DEF IInv, TypeOK
<1>2. InOrder'
  <2> SUFFICES ASSUME NEW i \in DOMAIN events', NEW w \in Wanted,
                      ~(w > events'[i])
               PROVE  \E j \in 1..i : events'[j] = w
    BY DEF InOrder
  <2>1. CASE i \in DOMAIN events
    <3>1. PICK j \in 1..i : events[j] = w
      BY <1>1, <2>1 DEF IInv, InOrder
    <3>2. QED
      BY <1>1, <2>1, <3>1
  <2>2. CASE i = Len(events) + 1
    BY <1>1, <2>2
  <2>3. QED
    BY <1>1, <2>1, <2>2
<1>3. QED
  BY <1>1, <1>2

LEMMA InvariantNext == IInv /\ [Next]_vars => IInv'
<1> SUFFICES ASSUME IInv, [Next]_vars PROVE IInv'
  OBVIOUS
<1> USE NtfyAssumption
<1>t. TypeOK'
  BY TypeNext DEF IInv
<1>1. CASE ConnectToProvider
  <2>1. UNCHANGED <<objectVars, created, log, delivered, arrivals>>
    BY <1>1 DEF ConnectToProvider, serverVars
  <2>2. StoreState
    BY <2>1 DEF IInv, Consistent, StoreState, objectVars
  <2>3. stream' = Off \/ stream' = Since(topics)
    BY <1>1 DEF ConnectToProvider, DoConnectToProvider
  <2>4. topics' = topics /\ created' = created /\ created \in Nat
    BY <2>1 DEF IInv, TypeOK, objectVars
  <2>5. QED
    BY <1>t, <2>1, <2>2, <2>3, <2>4, ReconnectStep
       DEF IInv, Bounded, Since, objectVars
<1>2. CASE RegisterClient
  <2>1. created \in Nat /\ created' = created + 1
    BY <1>2 DEF IInv, TypeOK, RegisterClient
  <2>2. /\ topics' = topics \cup {created + 1} /\ topics' \subseteq 1..created'
    <3>1. topics' = topics \cup {created + 1}
      BY <1>2, <2>1 DEF RegisterClient
    <3>2. topics \subseteq 1..created
      BY DEF IInv, Bounded
    <3>3. QED
      BY <2>1, <3>1, <3>2
  <2>3. stream' = Off \/ stream' = Since(topics')
    BY <1>2 DEF RegisterClient, DoConnectToProvider
  <2>4. QED
    BY <1>2, <1>t, <2>1, <2>2, <2>3, ReconnectStep DEF RegisterClient, Since
<1>3. CASE UnregisterClient
  <2>1. /\ topics' \subseteq topics /\ created' = created /\ created \in Nat
        /\ StoreState /\ lastMessageId' = lastMessageId
        /\ UNCHANGED <<arrivals, log, delivered>>
    BY <1>3 DEF IInv, TypeOK, UnregisterClient, serverVars
  <2>2. stream' = Off \/ stream' = Since(topics')
    BY <1>3 DEF UnregisterClient, DoConnectToProvider
  <2>3. topics' \subseteq 1..created'
    BY <2>1 DEF IInv, Bounded
  <2>4. QED
    BY <1>t, <2>1, <2>2, <2>3, ReconnectStep DEF Since
<1>4. CASE DisconnectFromProvider \/ StreamFails \/ ServerRejects
  <2>1. stream' = Off /\ UNCHANGED <<objectVars, serverVars, delivered, arrivals>>
    BY <1>4 DEF DisconnectFromProvider, StreamFails, ServerRejects
  <2>2. StoreState /\ topics' = topics /\ created' = created /\ created \in Nat
    BY <2>1 DEF IInv, TypeOK, Consistent, StoreState, objectVars, serverVars
  <2>3. QED
    BY <1>t, <2>1, <2>2, ReconnectStep
       DEF IInv, Bounded, objectVars, serverVars
<1>5. CASE Wait \/ RetryTimeout \/ CallRegister \/ NetworkChange
  BY <1>5, <1>t, QueueStep DEF Wait, RetryTimeout, CallRegister, NetworkChange
<1>6. ASSUME NEW t \in Topics, CallUnregister(t) PROVE IInv'
  BY <1>6, <1>t, QueueStep DEF CallUnregister
<1>7. CASE HandleOpen
  <2>1. Wanted' = Wanted
    BY <1>7 DEF HandleOpen, Wanted, Waiting, Plain, objectVars, serverVars
  <2>2. 0 \notin Wanted
    BY DEF IInv, TypeOK, Wanted, Waiting
  <2>3. /\ NoneMissed' /\ InOrder'
        /\ \A i \in DOMAIN events' : \E k \in DOMAIN events : events'[i] = events[k]
    BY <1>7, <2>1, <2>2, HeadGoes DEF HandleOpen
  <2>4. QED
    BY <1>7, <1>t, <2>1, <2>3
       DEF IInv, HandleOpen, Consistent, Bounded, StreamTopics, NoneSkipped,
           NoneFetched, objectVars, serverVars
<1>8. CASE HandleMessage
  <2> DEFINE m == Head(events)
  <2>1. m \in MessageIds /\ m <= Len(log)
    <3>1. 1 \in DOMAIN events /\ m = events[1] /\ events[1] \in Events
      BY <1>8 DEF IInv, TypeOK, HandleMessage
    <3>2. QED
      BY <1>8, <3>1 DEF IInv, Bounded, HandleMessage, Events, MessageIds
  <2>2. \A w \in Wanted : w >= m
    <3>1. \A w \in Wanted : w \in Nat
      BY DEF IInv, TypeOK, Wanted, Waiting
    <3>2. \A w \in Wanted : w > m \/ w = m
      BY <1>8, HeadFirst DEF HandleMessage
    <3>3. QED
      BY <2>1, <3>1, <3>2 DEF MessageIds
  <2>3. /\ Consistent' /\ StreamTopics' /\ NoneSkipped'
        /\ Wanted' \subseteq Wanted \ {m}
        /\ topics' = topics /\ delivered' \subseteq 1..Len(log)
    BY <1>8, <1>t, <2>1, <2>2, ReceiveStep DEF HandleMessage
  <2>4. /\ NoneMissed' /\ InOrder'
        /\ \A i \in DOMAIN events' : \E k \in DOMAIN events : events'[i] = events[k]
    BY <1>8, <2>3, HeadGoes DEF HandleMessage
  <2>5. NoneFetched' /\ Bounded'
    BY <1>8, <2>1, <2>3, <2>4
       DEF IInv, HandleMessage, NoneFetched, Bounded, Receive, serverVars
  <2>6. QED
    BY <1>t, <2>3, <2>4, <2>5 DEF IInv
<1>9. CASE HandleAttachment
  <2> DEFINE m == Head(events)
  <2>1. m \in MessageIds /\ m <= Len(log) /\ m \notin Wanted
    <3>1. 1 \in DOMAIN events /\ m = events[1] /\ events[1] \in Events
      BY <1>9 DEF IInv, TypeOK, HandleAttachment
    <3>2. QED
      BY <1>9, <3>1 DEF IInv, Bounded, HandleAttachment, Events, MessageIds,
                        Wanted, Plain
  <2>2. Wanted' = Wanted
    BY <1>9 DEF HandleAttachment, Wanted, Waiting, Plain,
                objectVars, serverVars
  <2>3. /\ NoneMissed' /\ InOrder'
        /\ \A i \in DOMAIN events' : \E k \in DOMAIN events : events'[i] = events[k]
    BY <1>9, <2>1, <2>2, HeadGoes DEF HandleAttachment
  <2>4. \A i \in DOMAIN fetches' :
          fetches'[i] = m \/ (i \in DOMAIN fetches /\ fetches'[i] = fetches[i])
    BY <1>9 DEF IInv, TypeOK, HandleAttachment
  <2>5. \A w \in Wanted : w > m
    BY <1>9, <2>1, HeadFirst DEF HandleAttachment
  <2>6. NoneFetched'
    BY <2>2, <2>4, <2>5 DEF IInv, NoneFetched
  <2>7. Bounded'
    BY <1>9, <2>1, <2>3, <2>4 DEF IInv, Bounded, HandleAttachment,
                                  objectVars, serverVars
  <2>8. QED
    BY <1>9, <1>t, <2>2, <2>3, <2>6, <2>7
       DEF IInv, HandleAttachment, Consistent, StreamTopics,
           NoneSkipped, objectVars
<1>10. ASSUME NEW i \in DOMAIN fetches, FetchFinished(i) PROVE IInv'
  <2>1. fetches[i] \in MessageIds /\ fetches[i] <= Len(log)
    BY DEF IInv, TypeOK, Bounded
  <2>2. \A w \in Wanted : w >= fetches[i] /\ w # fetches[i]
    BY <2>1 DEF IInv, TypeOK, NoneFetched, MessageIds, Wanted, Waiting
  <2>3. /\ Consistent' /\ StreamTopics' /\ NoneSkipped'
        /\ Wanted' \subseteq Wanted \ {fetches[i]}
        /\ topics' = topics /\ delivered' \subseteq 1..Len(log)
    BY <1>10, <1>t, <2>1, <2>2, ReceiveStep DEF FetchFinished
  <2>4. \A k \in DOMAIN fetches' : \E j \in DOMAIN fetches : fetches'[k] = fetches[j]
    BY <1>10, WithoutType DEF IInv, TypeOK, FetchFinished
  <2>5. NoneMissed' /\ InOrder' /\ NoneFetched'
    BY <1>10, <2>3, <2>4 DEF IInv, FetchFinished, NoneMissed, InOrder, NoneFetched
  <2>6. Bounded'
    BY <1>10, <2>1, <2>3, <2>4
       DEF IInv, FetchFinished, Bounded, Receive, serverVars
  <2>7. QED
    BY <1>t, <2>3, <2>5, <2>6 DEF IInv
<1>11. ASSUME NEW i \in DOMAIN fetches, FetchFails(i) PROVE IInv'
  <2>1. \A k \in DOMAIN fetches' : \E j \in DOMAIN fetches : fetches'[k] = fetches[j]
    BY <1>11, WithoutType DEF IInv, TypeOK, FetchFails
  <2>2. Wanted' = Wanted
    BY <1>11 DEF FetchFails, Wanted, Waiting, Plain, objectVars, serverVars
  <2>3. QED
    BY <1>11, <1>t, <2>1, <2>2
       DEF IInv, FetchFails, Consistent, Bounded, StreamTopics, NoneSkipped,
           NoneMissed, InOrder, NoneFetched, objectVars, serverVars
<1>12. ASSUME NEW t \in Topics, NEW a \in BOOLEAN, Publish(t, a) PROVE IInv'
  <2> DEFINE new == Len(log) + 1
  <2>1. /\ DOMAIN log = 1..Len(log) /\ Len(log) \in Nat /\ Len(log') = new
        /\ DOMAIN log' = 1..new
        /\ \A m \in DOMAIN log : log'[m] = log[m]
        /\ log'[new].topic = t
    BY <1>12 DEF IInv, TypeOK, Publish, Message
  <2>2. Wanted' \subseteq Wanted \cup {new}
    BY <1>12, <2>1 DEF Wanted, Waiting, Plain, Publish, objectVars
  <2>3. Bounded'
    <3>1. /\ topics' = topics /\ created' = created /\ stream' = stream
          /\ lastMessageId' = lastMessageId /\ delivered' = delivered
          /\ events' = events /\ fetches' = fetches /\ t \in 1..created
      BY <1>12 DEF Publish, objectVars, arrivals
    <3>2. /\ lastMessageId \in Int /\ stream.last \in Int
          /\ \A i \in DOMAIN events : events[i] \in Int
          /\ \A i \in DOMAIN fetches : fetches[i] \in Int
      BY DEF IInv, TypeOK, Stream, Events, MessageIds
    <3>3. \A m \in DOMAIN log' : log'[m].topic \in 1..created
      BY <2>1, <3>1 DEF IInv, Bounded
    <3>4. delivered \subseteq 1..Len(log')
      BY <2>1 DEF IInv, Bounded
    <3>5. QED
      BY <2>1, <3>1, <3>2, <3>3, <3>4 DEF IInv, Bounded
  <2>4. /\ new > lastMessageId /\ new > stream.last
        /\ \A i \in DOMAIN events : new > events[i]
        /\ \A i \in DOMAIN fetches : new > fetches[i]
    <3>1. /\ lastMessageId \in Nat /\ stream.last \in Nat
          /\ \A i \in DOMAIN events : events[i] \in Nat
          /\ \A i \in DOMAIN fetches : fetches[i] \in Nat
      BY DEF IInv, TypeOK, Stream, Events, MessageIds
    <3>2. QED
      BY <2>1, <3>1 DEF IInv, Bounded
  <2>5. NoneSkipped' /\ NoneMissed' /\ InOrder' /\ NoneFetched'
    BY <1>12, <2>2, <2>4
       DEF IInv, Publish, NoneSkipped, NoneMissed, InOrder, NoneFetched,
           objectVars, arrivals
  <2>6. QED
    BY <1>12, <1>t, <2>3, <2>5
       DEF IInv, Publish, Consistent, StreamTopics, objectVars
<1>13. CASE StreamOpens
  <2>1. Wanted' = Wanted
    BY <1>13 DEF StreamOpens, Wanted, Waiting, Plain, objectVars, serverVars
  <2>2. 0 \in Events /\ \A w \in Wanted : w > 0
    BY DEF IInv, TypeOK, Wanted, Waiting, Events
  <2>3. /\ InOrder'
        /\ \A w : (\E i \in DOMAIN events : events[i] = w) \/ w = 0
                 => \E i \in DOMAIN events' : events'[i] = w
    BY <1>13, <2>1, <2>2, EventJoins DEF StreamOpens
  <2>4. stream.state # "off" /\ stream'.topics = stream.topics
        /\ stream'.last = stream.last
    BY <1>13 DEF IInv, TypeOK, StreamOpens, Stream
  <2>5. NoneMissed' /\ StreamTopics'
    BY <1>13, <2>1, <2>3, <2>4
       DEF IInv, StreamOpens, NoneMissed, StreamTopics, objectVars
  <2>6. \A i \in DOMAIN events' :
          events'[i] = 0 \/ (i \in DOMAIN events /\ events'[i] = events[i])
    <3>1. events \in Seq(Events) /\ 0 \in Events /\ events' = Append(events, 0)
      BY <1>13, <2>2 DEF IInv, TypeOK, StreamOpens
    <3>2. QED
      BY <3>1
  <2>7. Bounded'
    BY <1>13, <2>4, <2>6 DEF IInv, TypeOK, Bounded, StreamOpens, objectVars,
                             serverVars
  <2>8. QED
    BY <1>13, <1>t, <2>1, <2>3, <2>5, <2>7
       DEF IInv, StreamOpens, Consistent, NoneSkipped, NoneFetched, objectVars
<1>14. CASE ServerSends
  <2>1. PICK m \in ToSend : /\ \A other \in ToSend : m <= other
                            /\ stream' = [stream EXCEPT !.last = m]
                            /\ events' = Append(events, m)
    BY <1>14 DEF ServerSends
  <2>2. /\ stream.state = "open" /\ stream'.state = "open"
        /\ stream'.topics = stream.topics /\ stream'.last = m
    BY <1>14, <2>1 DEF IInv, TypeOK, ServerSends, Stream
  <2>3. m \in Events /\ m <= Len(log) /\ m \in Nat
    BY DEF IInv, TypeOK, ToSend, Events
  <2>4. Wanted' = Wanted
    BY <1>14 DEF ServerSends, Wanted, Waiting, Plain, objectVars, serverVars
  <2>5. \A w \in Wanted : \/ w > m \/ w = m
                          \/ \E i \in DOMAIN events : events[i] = w
    <3>1. TAKE w \in Wanted
    <3>2. CASE w > stream.last
      <4>1. w \in ToSend /\ w \in Nat
        BY <2>2, <3>2 DEF IInv, TypeOK, StreamTopics, ToSend, Wanted, Waiting
      <4>2. QED
        BY <2>1, <2>3, <4>1
    <3>3. QED
      BY <2>2, <3>2 DEF IInv, NoneMissed
  <2>6. /\ InOrder'
        /\ \A w : (\E i \in DOMAIN events : events[i] = w) \/ w = m
                 => \E i \in DOMAIN events' : events'[i] = w
    BY <2>1, <2>3, <2>4, <2>5, EventJoins
  <2>7. NoneMissed' /\ StreamTopics'
    BY <1>14, <2>2, <2>4, <2>5, <2>6
       DEF IInv, ServerSends, NoneMissed, StreamTopics, objectVars
  <2>8. \A i \in DOMAIN events' :
          events'[i] = m \/ (i \in DOMAIN events /\ events'[i] = events[i])
    BY <2>1 DEF IInv, TypeOK
  <2>9. Bounded'
    BY <1>14, <2>2, <2>3, <2>8 DEF IInv, Bounded, ServerSends, objectVars,
                                   serverVars
  <2>10. QED
    BY <1>14, <1>t, <2>4, <2>6, <2>7, <2>9
       DEF IInv, ServerSends, Consistent, NoneSkipped, NoneFetched, objectVars
<1>15. CASE Restart
  <2>1. UNCHANGED <<topics, lastMessageId, storedTopics, storedId, log, created,
                    delivered>>
    BY <1>15 DEF IInv, Consistent, Restart, serverVars
  <2>2. Wanted' = Wanted
    BY <2>1 DEF Wanted, Waiting, Plain
  <2>3. stream' = Off /\ events' = <<>> /\ fetches' = <<>>
    BY <1>15 DEF Restart
  <2>4. Bounded'
    BY <2>1, <2>3 DEF IInv, TypeOK, Bounded, Off
  <2>5. QED
    BY <1>t, <2>1, <2>2, <2>3, <2>4
       DEF IInv, Consistent, StreamTopics, NoneSkipped, NoneMissed, InOrder,
           NoneFetched, Off
<1>16. CASE UNCHANGED vars
  BY <1>16, <1>t, QueueStep DEF vars
<1>17. QED
  BY <1>1, <1>2, <1>3, <1>4, <1>5, <1>6, <1>7, <1>8, <1>9, <1>10, <1>11, <1>12,
     <1>13, <1>14, <1>15, <1>16
     DEF Next, Daemon, Handle, Calls, Publishes, Fetched, FetchLost

LEMMA Invariance == Spec => []IInv
BY InvariantInit, InvariantNext, PTL DEF Spec

(* However often links break, streams are opened anew and the daemon       *)
(* restarts, the server is never told to skip a message without attachment *)
(* that has not been handled.                                              *)
THEOREM NtfyNeverSkips == Spec => []PlainNeverSkipped
<1>1. IInv => PlainNeverSkipped
  BY DEF IInv, PlainNeverSkipped, Consistent, NoneSkipped, Wanted
<1>2. QED
  BY <1>1, Invariance, PTL

-----------------------------------------------------------------------------
(* The refinement *)

Boxes == {<<log[m].topic, m>> : m \in Wanted}

LEMMA BoxesFull ==
  /\ IInv => InMailboxes = Boxes
  /\ IInv' => InMailboxes' = Boxes'
<1>1. NoneSkipped => InMailboxes = Boxes
  BY DEF InMailboxes, Boxes, NoneSkipped, Wanted
<1>2. NoneSkipped' => InMailboxes' = Boxes'
  BY DEF InMailboxes, Boxes, NoneSkipped, Wanted
<1>3. QED
  BY <1>1, <1>2 DEF IInv

(* Steps that leave topics, messages and deliveries alone. *)
LEMMA StutterStep ==
  ASSUME IInv, IInv', UNCHANGED <<topics, log, delivered>>
  PROVE  UNCHANGED Mailbox!mailboxVars
<1>1. Wanted' = Wanted /\ Plain' = Plain
  BY DEF Wanted, Waiting, Plain
<1>2. Boxes' = Boxes
  BY <1>1 DEF Boxes
<1>3. QED
  BY <1>1, <1>2, BoxesFull DEF Mailbox!mailboxVars

(* A message is handled: it leaves its mailbox, if it is in one. *)
LEMMA DeliverStep ==
  ASSUME IInv, IInv', NEW m \in MessageIds, Receive(m), log' = log
  PROVE  \/ UNCHANGED Mailbox!mailboxVars
         \/ \E t \in Topics : Mailbox!Deliver(t, m)
<1>1. topics' = topics /\ Plain' = Plain
  BY DEF Receive, Plain
<1>2. CASE m \in Wanted
  <2>1. log[m].topic \in topics /\ m \in Plain /\ m \in DOMAIN log
    BY <1>2 DEF Wanted, Waiting
  <2>2. delivered' = delivered \cup {m}
    BY <2>1 DEF Receive
  <2>3. Wanted' = Wanted \ {m}
    BY <1>1, <2>2 DEF Wanted, Waiting
  <2>4. Boxes' = Boxes \ {<<log[m].topic, m>>}
    BY <2>3 DEF Boxes
  <2>5. <<log[m].topic, m>> \in Boxes
    BY <1>2 DEF Boxes
  <2>6. log[m].topic \in Topics
    BY <2>1 DEF IInv, TypeOK
  <2>7. delivered' \cap Plain' = (delivered \cap Plain) \cup {m}
    BY <1>1, <2>1, <2>2
  <2>8. Mailbox!Deliver(log[m].topic, m)
    BY <1>1, <2>4, <2>5, <2>7, BoxesFull DEF Mailbox!Deliver
  <2>9. QED
    BY <2>6, <2>8
<1>3. CASE m \notin Wanted
  <2>1. delivered' \cap Plain = delivered \cap Plain
    BY <1>3 DEF Wanted, Waiting, Plain, Receive
  <2>2. Wanted' = Wanted
    BY <1>1, <1>3, <2>1 DEF Wanted, Waiting, Plain
  <2>3. Boxes' = Boxes
    BY <2>2 DEF Boxes
  <2>4. QED
    BY <1>1, <2>1, <2>3, BoxesFull DEF Mailbox!mailboxVars
<1>4. QED
  BY <1>2, <1>3

LEMMA MailboxStep ==
  IInv /\ IInv' /\ [Next]_vars => [Mailbox!MailboxNext]_(Mailbox!mailboxVars)
<1> SUFFICES ASSUME IInv, IInv', [Next]_vars
             PROVE  [Mailbox!MailboxNext]_(Mailbox!mailboxVars)
  OBVIOUS
<1> USE NtfyAssumption
<1>1. CASE RegisterClient
  <2>1. /\ topics' = topics \cup {created + 1} /\ created + 1 \in Topics
        /\ log' = log /\ delivered' = delivered
    BY <1>1 DEF IInv, TypeOK, RegisterClient, Topics
  <2>2. \A m \in DOMAIN log : log[m].topic # created + 1
    BY DEF IInv, TypeOK, Bounded
  <2>3. Wanted' = Wanted /\ Plain' = Plain
    BY <2>1, <2>2 DEF Wanted, Waiting, Plain
  <2>4. Boxes' = Boxes
    BY <2>1, <2>3 DEF Boxes
  <2>5. Mailbox!Register(created + 1)
    BY <2>1, <2>3, <2>4, BoxesFull DEF Mailbox!Register
  <2>6. QED
    BY <2>1, <2>5 DEF Mailbox!MailboxNext
<1>2. CASE UnregisterClient
  <2> DEFINE t == Head(queue).topic
  <2>1. /\ topics' = topics \ {t} /\ log' = log /\ delivered' = delivered
    BY <1>2 DEF UnregisterClient, serverVars
  <2>2. t \in Topics
    <3>1. Head(queue) \in Commands /\ Head(queue).type = "Unregister"
      BY <1>2 DEF IInv, TypeOK, UnregisterClient
    <3>2. QED
      BY <3>1 DEF Commands
  <2>3. Wanted' = {m \in Wanted : log[m].topic # t} /\ Plain' = Plain
    BY <2>1 DEF Wanted, Waiting, Plain
  <2>4. Boxes' = {b \in Boxes : b[1] # t}
    BY <2>1, <2>3 DEF Boxes
  <2>5. Mailbox!Unregister(t)
    BY <2>1, <2>3, <2>4, BoxesFull DEF Mailbox!Unregister
  <2>6. QED
    BY <2>2, <2>5 DEF Mailbox!MailboxNext
<1>3. ASSUME NEW t \in Topics, NEW a \in BOOLEAN, Publish(t, a)
      PROVE  [Mailbox!MailboxNext]_(Mailbox!mailboxVars)
  <2> DEFINE new == Len(log) + 1
  <2>1. /\ DOMAIN log = 1..Len(log) /\ Len(log) \in Nat
        /\ DOMAIN log' = 1..new /\ new \in MessageIds
        /\ \A m \in DOMAIN log : log'[m] = log[m]
        /\ log'[new].topic = t /\ log'[new].attachment = a
    BY <1>3 DEF IInv, TypeOK, Publish, Message, MessageIds
  <2>2. topics' = topics /\ delivered' = delivered /\ new \notin delivered
    BY <1>3, <2>1 DEF IInv, Bounded, Publish, objectVars
  <2>3. delivered' \cap Plain' = delivered \cap Plain
    BY <2>1, <2>2 DEF IInv, Bounded, Plain
  <2>4. CASE t \in topics /\ ~a
    <3>1. Wanted' = Wanted \cup {new}
      BY <2>1, <2>2, <2>4 DEF Wanted, Waiting, Plain
    <3>2. Boxes' = Boxes \cup {<<t, new>>}
      BY <2>1, <3>1 DEF Boxes, Wanted, Waiting
    <3>3. \A b \in Boxes : b[2] # new
      BY <2>1 DEF Boxes, Wanted, Waiting
    <3>4. Mailbox!Publish(t, new)
      BY <2>2, <2>3, <2>4, <3>2, <3>3, BoxesFull DEF Mailbox!Publish
    <3>5. QED
      BY <2>1, <3>4 DEF Mailbox!MailboxNext
  <2>5. CASE ~(t \in topics /\ ~a)
    <3>1. Wanted' = Wanted
      BY <2>1, <2>2, <2>5 DEF Wanted, Waiting, Plain
    <3>2. Boxes' = Boxes
      BY <2>1, <3>1 DEF Boxes, Wanted, Waiting
    <3>3. QED
      BY <2>2, <2>3, <3>2, BoxesFull DEF Mailbox!mailboxVars
  <2>6. QED
    BY <2>4, <2>5
<1>4. CASE HandleMessage
  <2>1. Head(events) \in MessageIds
    BY <1>4 DEF IInv, TypeOK, HandleMessage, Events, MessageIds
  <2>2. QED
    BY <1>4, <2>1, DeliverStep DEF HandleMessage, serverVars, Mailbox!MailboxNext
<1>5. ASSUME NEW i \in DOMAIN fetches, FetchFinished(i)
      PROVE  [Mailbox!MailboxNext]_(Mailbox!mailboxVars)
  <2>1. fetches[i] \in MessageIds
    BY DEF IInv, TypeOK
  <2>2. QED
    BY <1>5, <2>1, DeliverStep DEF FetchFinished, serverVars, Mailbox!MailboxNext
<1>6. CASE Restart
  BY <1>6, StutterStep DEF IInv, Consistent, Restart, serverVars
<1>7. CASE \/ ConnectToProvider \/ DisconnectFromProvider \/ Wait \/ RetryTimeout
           \/ HandleOpen \/ HandleAttachment \/ Calls \/ FetchLost
           \/ StreamOpens \/ ServerSends \/ StreamFails \/ ServerRejects
           \/ NetworkChange \/ UNCHANGED vars
  <2>1. UNCHANGED <<topics, log, delivered>>
    BY <1>7
       DEF ConnectToProvider, DisconnectFromProvider, Wait, RetryTimeout,
           HandleOpen, HandleAttachment, Calls, CallRegister,
           CallUnregister, FetchLost, FetchFails, StreamOpens, ServerSends,
           StreamFails, ServerRejects, NetworkChange, vars, objectVars,
           serverVars
  <2>2. QED
    BY <2>1, StutterStep
<1>8. QED
  BY <1>1, <1>2, <1>3, <1>4, <1>5, <1>6, <1>7
     DEF Next, Daemon, Handle, Publishes, Fetched

(* The backend implements the mailboxes: a message without attachment      *)
(* stays in reach until it is delivered or its client is gone.             *)
THEOREM NtfyImplementsMailboxes == Spec => KeepsMailboxes
<1>1. Init => Mailbox!MailboxInit
  BY DEF Init, Mailbox!MailboxInit, InMailboxes, Waiting, Plain
<1>2. QED
  BY <1>1, MailboxStep, Invariance, PTL
     DEF Spec, KeepsMailboxes, Mailbox!MailboxSpec

-----------------------------------------------------------------------------
(* The stream of a connected daemon *)

(* The network stays, and the server does not reject streams. *)
StreamsWelcome == \A l \in Limits : l["network"] = 0 /\ l["reject"] = 0

HasConnect(q) == \E i \in DOMAIN q : q[i].type = "Connect"
DisconnectsAt(q, i) == q[i].type = "Disconnect"

(* A daemon that has clients and no stream is going to connect.  It is     *)
(* going to disconnect only right after the last client has left.          *)
Listens ==
  /\ topics # {} /\ stream.state = "off" => HasConnect(queue)
  /\ \A i \in DOMAIN queue : DisconnectsAt(queue, i) =>
       i = 1 /\ topics = {} /\ stream.state = "off" /\ current = "NoCommand"
  /\ budget["network"] = 0 /\ budget["reject"] = 0

(* What is queued behind others. *)
LEMMA BehindConnects ==
  ASSUME NEW p \in Seq(Commands), NEW q \in Seq(Commands)
  PROVE  /\ HasConnect(p) => HasConnect(p \o q)
         /\ HasConnect(q) => HasConnect(p \o q)
<1>1. \A i \in DOMAIN p : i \in DOMAIN (p \o q) /\ (p \o q)[i] = p[i]
  OBVIOUS
<1>2. \A i \in DOMAIN q : /\ Len(p) + i \in DOMAIN (p \o q)
                         /\ (p \o q)[Len(p) + i] = q[i]
  OBVIOUS
<1>3. QED
  BY <1>1, <1>2 DEF HasConnect

(* Taking a command that is not Connect leaves Connect in the queue. *)
LEMMA TailConnects ==
  ASSUME NEW q \in Seq(Commands), q # <<>>, Head(q).type # "Connect",
         HasConnect(q)
  PROVE  HasConnect(Tail(q))
<1>1. PICK i \in DOMAIN q : q[i].type = "Connect"
  BY DEF HasConnect
<1>2. i # 1
  BY <1>1
<1>3. i - 1 \in DOMAIN Tail(q) /\ Tail(q)[i - 1] = q[i]
  BY <1>2
<1>4. QED
  BY <1>1, <1>3 DEF HasConnect

(* What follows the first command is no Disconnect. *)
LEMMA TailStays ==
  ASSUME TypeOK, Listens, queue # <<>>
  PROVE  \A i \in DOMAIN Tail(queue) : ~DisconnectsAt(Tail(queue), i)
<1>1. ASSUME NEW i \in DOMAIN Tail(queue)
      PROVE  i + 1 \in DOMAIN queue /\ i + 1 # 1 /\ Tail(queue)[i] = queue[i + 1]
  BY DEF TypeOK
<1>2. QED
  BY <1>1 DEF Listens, DisconnectsAt

(* Something other than Disconnect is queued behind. *)
LEMMA AppendStays ==
  ASSUME NEW p \in Seq(Commands), NEW q \in Seq(Commands),
         \A i \in DOMAIN q : ~DisconnectsAt(q, i),
         NEW j \in DOMAIN (p \o q), DisconnectsAt(p \o q, j)
  PROVE  j \in DOMAIN p /\ DisconnectsAt(p, j)
<1>1. \/ j \in DOMAIN p /\ (p \o q)[j] = p[j]
      \/ /\ j - Len(p) \in DOMAIN q
         /\ (p \o q)[j] = q[j - Len(p)]
  OBVIOUS
<1>2. QED
  BY <1>1 DEF DisconnectsAt

LEMMA ListensNext == TypeOK /\ TypeOK' /\ Listens /\ [Next]_vars => Listens'
<1> SUFFICES ASSUME TypeOK, TypeOK', Listens, [Next]_vars PROVE Listens'
  OBVIOUS
<1>0. queue \in Seq(Commands) /\ queue' \in Seq(Commands)
      /\ budget \in [Kinds -> Nat]
  BY DEF TypeOK
<1>1. ASSUME NEW kind \in Kinds, Spend(kind)
      PROVE  /\ kind \notin {"network", "reject"}
             /\ budget'["network"] = 0 /\ budget'["reject"] = 0
  BY <1>0, <1>1 DEF Spend, Listens, Kinds
<1>2. ASSUME NEW ts, NEW cmd, DoConnectToProvider(ts, cmd), ts # {}
      PROVE  stream'.state # "off"
  BY <1>2 DEF DoConnectToProvider, Since
<1>3. CASE ConnectToProvider \/ RegisterClient
  <2>1. /\ queue # <<>> /\ queue' = Tail(queue) /\ UNCHANGED budget
        /\ topics' # {} => stream'.state # "off"
    BY <1>2, <1>3
    DEF ConnectToProvider, RegisterClient, Takes, objectVars
  <2>2. QED
    BY <2>1, TailStays DEF Listens
<1>4. CASE UnregisterClient
  <2>1. /\ queue # <<>> /\ UNCHANGED budget
        /\ topics' # {} => stream'.state # "off"
        /\ topics' = {} => stream'.state = "off" /\ current' = "NoCommand"
        /\ \/ queue' = Tail(queue)
           \/ queue' = <<Cmd("Disconnect")>> /\ topics' = {}
    <3> DEFINE t == Head(queue).topic
    <3>1. /\ queue # <<>> /\ UNCHANGED budget
          /\ DoConnectToProvider(topics', "NoCommand")
          /\ queue' = IF t \in topics /\ topics' = {} /\ Tail(queue) = <<>>
                      THEN <<Cmd("Disconnect")>> ELSE Tail(queue)
      BY <1>4 DEF UnregisterClient
    <3> HIDE DEF t
    <3>2. topics' = {} => stream'.state = "off" /\ current' = "NoCommand"
      BY <3>1 DEF DoConnectToProvider, Connected, Off
    <3>3. QED
      BY <1>2, <3>1, <3>2
  <2>2. CASE queue' = Tail(queue)
    BY <2>1, <2>2, TailStays DEF Listens
  <2>3. CASE queue' = <<Cmd("Disconnect")>> /\ topics' = {}
    BY <2>1, <2>3 DEF Listens
  <2>4. QED
    BY <2>1, <2>2, <2>3
<1>5. CASE DisconnectFromProvider
  <2>1. /\ queue # <<>> /\ Head(queue).type = "Disconnect"
        /\ queue' = Tail(queue) /\ UNCHANGED <<topics, budget>>
    BY <1>5 DEF DisconnectFromProvider, Takes, objectVars
  <2>2. topics = {}
    BY <1>0, <2>1 DEF Listens, DisconnectsAt
  <2>3. QED
    BY <2>1, <2>2, TailStays DEF Listens
<1>6. CASE Wait
  <2>1. /\ queue # <<>> /\ Head(queue).type # "Connect"
        /\ queue' = Tail(queue) /\ UNCHANGED <<topics, stream, budget>>
    BY <1>6 DEF Wait, Takes, objectVars
  <2>2. QED
    BY <1>0, <2>1, TailStays, TailConnects DEF Listens
<1>7. CASE RetryTimeout \/ HandleOpen
  <2>1. /\ UNCHANGED <<topics, stream, queue, budget>>
        /\ current = "NoCommand" => current' = "NoCommand"
    BY <1>7 DEF RetryTimeout, HandleOpen, Connected, objectVars
  <2>2. QED
    BY <2>1 DEF Listens, HasConnect, DisconnectsAt
<1>8. CASE HandleMessage \/ HandleAttachment \/ Fetched \/ StreamOpens
           \/ ServerSends \/ UNCHANGED vars
  <2>1. /\ UNCHANGED <<topics, queue, current, budget>>
        /\ stream'.state = "off" <=> stream.state = "off"
    BY <1>8
    DEF HandleMessage, HandleAttachment, Fetched, FetchFinished, StreamOpens,
        ServerSends, Receive, vars, objectVars, daemonVars, TypeOK, Stream
  <2>2. QED
    BY <2>1 DEF Listens, HasConnect, DisconnectsAt
<1>9. CASE Publishes \/ FetchLost
  <2>1. UNCHANGED <<topics, stream, queue, current>>
    BY <1>9
    DEF Publishes, Publish, FetchLost, FetchFails, objectVars, daemonVars
  <2>2. budget'["network"] = 0 /\ budget'["reject"] = 0
    BY <1>1, <1>9 DEF Publishes, Publish, FetchLost, FetchFails, Kinds
  <2>3. QED
    BY <2>1, <2>2 DEF Listens, HasConnect, DisconnectsAt
<1>10. CASE Calls
  <2>1. /\ UNCHANGED <<topics, stream, current>>
        /\ budget'["network"] = 0 /\ budget'["reject"] = 0
    BY <1>1, <1>10 DEF Calls, CallRegister, CallUnregister, objectVars, Kinds
  <2>2. PICK q \in Seq(Commands) :
          /\ queue' = queue \o q
          /\ \A i \in DOMAIN q : ~DisconnectsAt(q, i)
    <3>1. CASE CallRegister
      <4> DEFINE a == IF topics = {} THEN <<Cmd("Connect")>> ELSE <<>>
                 b == <<Cmd("Register")>>
                 q == a \o b
      <4>1. q \in Seq(Commands) /\ \A i \in DOMAIN q : ~DisconnectsAt(q, i)
        BY CommandsType DEF DisconnectsAt, Cmd
      <4>2. queue' = queue \o q
        <5>1. a \in Seq(Commands) /\ b \in Seq(Commands)
          BY CommandsType
        <5>2. queue' = (queue \o a) \o b
          BY <3>1 DEF CallRegister
        <5> HIDE DEF a, b
        <5>3. QED
          BY <1>0, <5>1, <5>2, ConcatAssociative
      <4>3. QED
        BY <4>1, <4>2
    <3>2. ASSUME NEW t \in Topics, CallUnregister(t)
          PROVE  \E q \in Seq(Commands) :
                   /\ queue' = queue \o q
                   /\ \A i \in DOMAIN q : ~DisconnectsAt(q, i)
      <4> DEFINE c == [type |-> "Unregister", topic |-> t]
      <4>1. c \in Commands /\ c.type = "Unregister"
        BY CommandsType
      <4>2. queue' = Append(queue, c)
        BY <3>2 DEF CallUnregister
      <4> HIDE DEF c
      <4>3. queue' = queue \o <<c>> /\ <<c>> \in Seq(Commands)
        BY <1>0, <4>1, <4>2
      <4>4. \A i \in DOMAIN <<c>> : ~DisconnectsAt(<<c>>, i)
        BY <4>1 DEF DisconnectsAt
      <4>5. QED
        BY <4>3, <4>4
    <3>3. QED
      BY <1>10, <3>1, <3>2 DEF Calls
  <2>3. HasConnect(queue) => HasConnect(queue')
    BY <1>0, <2>2, BehindConnects
  <2>4. \A j \in DOMAIN queue' :
          DisconnectsAt(queue', j) => j \in DOMAIN queue /\ DisconnectsAt(queue, j)
    BY <1>0, <2>2, AppendStays
  <2>5. QED
    BY <2>1, <2>3, <2>4 DEF Listens
<1>11. CASE StreamFails
  <2>1. /\ stream.state # "off" /\ stream'.state = "off"
        /\ UNCHANGED topics /\ Disconnected(TRUE)
        /\ budget'["network"] = 0 /\ budget'["reject"] = 0
    BY <1>1, <1>11 DEF StreamFails, objectVars, Off, Kinds
  <2> DEFINE retry == IF topics # {} THEN <<Cmd("Wait"), Cmd("Connect")>> ELSE <<>>
             wait == IF current = "Wait" THEN <<Cmd("Wait")>> ELSE <<>>
  <2>2. /\ retry \in Seq(Commands) /\ wait \in Seq(Commands)
        /\ retry \o wait \in Seq(Commands)
    BY CommandsType
  <2>3. queue' = (retry \o wait) \o queue
    BY <2>1 DEF Disconnected
  <2>4. topics # {} => HasConnect(retry)
    <3>1. topics # {} => 2 \in DOMAIN retry /\ retry[2].type = "Connect"
      BY DEF Cmd
    <3>2. QED
      BY <3>1 DEF HasConnect
  <2>5. \A i \in DOMAIN (retry \o wait) : ~DisconnectsAt(retry \o wait, i)
    BY DEF DisconnectsAt, Cmd
  <2> DEFINE both == retry \o wait
  <2>6. topics # {} => HasConnect(queue')
    <3>1. topics # {} => HasConnect(both)
      BY <2>2, <2>4, BehindConnects
    <3> HIDE DEF both
    <3>2. QED
      BY <1>0, <2>2, <2>3, <3>1, BehindConnects DEF both
  <2>7. \A i \in DOMAIN queue : ~DisconnectsAt(queue, i)
    BY <2>1 DEF Listens
  <2>8. \A j \in DOMAIN queue' : ~DisconnectsAt(queue', j)
    <3> HIDE DEF both
    <3>1. both \in Seq(Commands) /\ queue' = both \o queue
          /\ \A i \in DOMAIN both : ~DisconnectsAt(both, i)
      BY <2>2, <2>3, <2>5 DEF both
    <3>2. QED
      BY <1>0, <2>7, <3>1, AppendStays
  <2>9. QED
    BY <2>1, <2>6, <2>8 DEF Listens
<1>12. CASE ServerRejects \/ NetworkChange
  BY <1>1, <1>12 DEF ServerRejects, NetworkChange, Kinds
<1>13. CASE Restart
  <2>1. budget'["network"] = 0 /\ budget'["reject"] = 0
    BY <1>1, <1>13 DEF Restart, Kinds
  <2>2. QED
    BY <1>13, <2>1 DEF Restart, Listens, HasConnect, DisconnectsAt, Cmd
<1>14. QED
  BY <1>3, <1>4, <1>5, <1>6, <1>7, <1>8, <1>9, <1>10, <1>11, <1>12, <1>13
  DEF Next, Daemon, Handle

(* A daemon that is connected and has nothing left to do has a stream for  *)
(* all its topics, after registrations, unregistrations, broken streams    *)
(* and restarts in any order, as long as the network stays and the server  *)
(* does not reject a stream.                                               *)
THEOREM NtfyListens == ASSUME StreamsWelcome PROVE Spec => []ConnectedListens
<1>1. Init => Listens
  BY DEF Init, Listens, StreamsWelcome, DisconnectsAt
<1>2. IInv /\ Listens => ConnectedListens
  BY DEF IInv, StreamTopics, Listens, HasConnect, ConnectedListens
<1>3. QED
  BY <1>1, <1>2, ListensNext, NtfyTypeCorrect, Invariance, PTL DEF Spec

=============================================================================
