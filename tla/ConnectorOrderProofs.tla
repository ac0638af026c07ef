----------------------- MODULE ConnectorOrderProofs -----------------------
(***************************************************************************)
(* Proofs about module Connector, continued: its queue of commands does    *)
(* not stall (NeverStuck), and what an undisturbed connector and its       *)
(* distributor agree on when everything has been delivered: registration   *)
(* (EndsRegistered, EndsUnregistered), endpoint (EndpointAgrees) and VAPID *)
(* key (KeyInUse).                                                         *)
(***************************************************************************)
EXTENDS ConnectorProofs

-----------------------------------------------------------------------------
(* What processNextCommand() and addCommand() do to the queue              *)

(* The commands before the m-th are dropped, there is nothing to do.       *)
DroppedTo(c, m) ==
  /\ m \in DOMAIN c.queue
  /\ \A i \in 1..(m - 1) : Ready(c, c.queue[i]) /\ Done(c, c.queue[i])
From(s, m) == SubSeq(s, m, Len(s))

Skips(c, p) ==
  \/ /\ \A i \in DOMAIN c.queue : Ready(c, c.queue[i]) /\ Done(c, c.queue[i])
     /\ p = [c EXCEPT !.queue = <<>>]
  \/ \E m \in DOMAIN c.queue :
       /\ DroppedTo(c, m) /\ ~Ready(c, c.queue[m])
       /\ p = [c EXCEPT !.queue = From(c.queue, m)]
Runs1(c, p, m) ==
  /\ DroppedTo(c, m) /\ Ready(c, c.queue[m]) /\ ~Done(c, c.queue[m])
  /\ p = Issue([c EXCEPT !.queue = From(c.queue, m + 1)], c.queue[m])

LEMMA ProcessCases ==
  ASSUME NEW c \in ConnectorState
  PROVE  LET p == ProcessNextCommand(c) IN
         \/ (c.current # "None" \/ c.iface = None) /\ p = c
         \/ /\ c.current = "None" /\ c.iface # None
            /\ Skips(c, p) \/ \E m \in DOMAIN c.queue : Runs1(c, p, m)
<1> DEFINE n == Len(c.queue)
           stops == {i \in DOMAIN c.queue :
                       ~Ready(c, c.queue[i]) \/ ~Done(c, c.queue[i])}
           rest == IF stops = {} THEN <<>>
                   ELSE SubSeq(c.queue, Min(stops), Len(c.queue))
           p == ProcessNextCommand(c)
<1>0. c.queue \in Seq(Commands) /\ DOMAIN c.queue = 1..n /\ n \in Nat
  BY DEF ConnectorState
<1>1. p = IF c.current # "None" \/ c.iface = None THEN c
          ELSE IF rest = <<>> \/ ~Ready(c, Head(rest))
          THEN [c EXCEPT !.queue = rest]
          ELSE Issue([c EXCEPT !.queue = Tail(rest)], Head(rest))
  BY DEF ProcessNextCommand
<1>2. CASE c.current # "None" \/ c.iface = None
  BY <1>1, <1>2
<1>3. CASE c.current = "None" /\ c.iface # None /\ stops = {}
  <2>1. p = [c EXCEPT !.queue = <<>>]
    BY <1>1, <1>3
  <2>2. QED
    BY <1>3, <2>1 DEF Skips
<1>4. CASE c.current = "None" /\ c.iface # None /\ stops # {}
  <2>1. /\ stops \in SUBSET Nat /\ stops \subseteq 1..n
        /\ \A i \in 1..n : i \notin stops =>
             Ready(c, c.queue[i]) /\ Done(c, c.queue[i])
        /\ \A i \in stops : ~Ready(c, c.queue[i]) \/ ~Done(c, c.queue[i])
    BY <1>0
  <2>2. rest = SubSeq(c.queue, Min(stops), n)
    BY <1>4
  <2> HIDE DEF stops, rest
  <2>3. PICK m \in stops : \A i \in stops : m <= i
    BY <1>4, <2>1, LeastNumber
  <2>4. Min(stops) \in stops /\ \A i \in stops : Min(stops) <= i
    BY <2>3 DEF Min
  <2>5. PICK k : k = Min(stops)
    OBVIOUS
  <2>6. k \in 1..n /\ DroppedTo(c, k)
    <3>1. k \in 1..n
      BY <2>1, <2>4, <2>5
    <3>2. ASSUME NEW i \in 1..(k - 1) PROVE i \in 1..n /\ i \notin stops
      <4>1. i \in 1..n /\ ~(k <= i)
        BY <1>0, <3>1
      <4>2. QED
        BY <2>4, <2>5, <4>1
    <3>3. QED
      BY <1>0, <2>1, <3>1, <3>2 DEF DroppedTo
  <2>7. /\ Head(rest) = c.queue[k] /\ Tail(rest) = SubSeq(c.queue, k + 1, n)
        /\ rest # <<>>
    <3>1. n \in k..n /\ rest = SubSeq(c.queue, k, n)
      BY <1>0, <2>2, <2>5, <2>6
    <3>2. /\ Head(rest) = c.queue[k]
          /\ Tail(rest) = SubSeq(c.queue, k + 1, n)
      BY <1>0, <2>6, <3>1, HeadTailOfSubSeq
    <3>3. rest # <<>>
      <4>1. Len(rest) = n - k + 1
        BY <1>0, <2>6, <3>1
      <4>2. QED
        BY <1>0, <2>6, <4>1, EmptySeq
    <3>4. QED
      BY <3>2, <3>3
  <2>8. ~Ready(c, c.queue[k]) \/ ~Done(c, c.queue[k])
    BY <2>1, <2>4, <2>5
  <2>9. CASE ~Ready(c, c.queue[k])
    <3>1. p = [c EXCEPT !.queue = From(c.queue, k)]
      BY <1>1, <1>4, <2>2, <2>5, <2>7, <2>9 DEF From
    <3>2. QED
      BY <1>0, <1>4, <2>6, <2>9, <3>1 DEF Skips
  <2>10. CASE Ready(c, c.queue[k])
    <3>1. p = Issue([c EXCEPT !.queue = SubSeq(c.queue, k + 1, n)],
                    c.queue[k])
      BY <1>1, <1>4, <2>7, <2>10
    <3>2. Runs1(c, p, k)
      BY <2>6, <2>8, <2>10, <3>1 DEF Runs1, From
    <3>3. QED
      BY <1>0, <1>4, <2>6, <3>2
  <2>11. QED
    BY <2>9, <2>10
<1>5. QED
  BY <1>2, <1>3, <1>4

(* addCommand() leaves the queue alone, takes its last command away, or    *)
(* appends the new one.                                                    *)
LEMMA AddCases ==
  ASSUME NEW c \in ConnectorState, NEW cmd \in Commands
  PROVE  LET p == AddCommand(c, cmd)
             q == [c EXCEPT !.queue = Append(@, cmd)]
             n == Len(c.queue)
         IN \/ /\ p = c
               /\ \/ c.queue # <<>> /\ Last(c.queue) = cmd
                  \/ c.queue = <<>> /\ c.current = cmd
            \/ /\ c.queue # <<>> /\ Cancel(Last(c.queue), cmd)
               /\ p = [c EXCEPT !.queue = Front(@)]
            \/ /\ p = ProcessNextCommand(q) /\ q \in ConnectorState
               /\ c.queue # <<>> => Last(c.queue) # cmd
                                    /\ ~Cancel(Last(c.queue), cmd)
               /\ c.queue = <<>> => c.current # cmd
<1>1. [c EXCEPT !.queue = Append(@, cmd)] \in ConnectorState
  BY DEF ConnectorState
<1>2. QED
  BY <1>1 DEF AddCommand

LEMMA FrontOf ==
  ASSUME NEW S, NEW s \in Seq(S), s # <<>>
  PROVE  /\ Front(s) \in Seq(S) /\ Len(Front(s)) = Len(s) - 1
         /\ Len(s) \in Nat \ {0}
         /\ \A i \in 1..(Len(s) - 1) : Front(s)[i] = s[i]
<1>1. PICK n \in Nat \ {0} : n = Len(s)
  BY EmptySeq
<1>2. n - 1 \in Int /\ \A i \in 1..(n - 1) : s[i] \in S
  BY <1>1
<1>3. /\ SubSeq(s, 1, n - 1) \in Seq(S)
      /\ Len(SubSeq(s, 1, n - 1)) = IF 1 <= n - 1 THEN n - 1 - 1 + 1 ELSE 0
      /\ \A i \in 1..(n - 1 - 1 + 1) : SubSeq(s, 1, n - 1)[i] = s[1 + i - 1]
  BY <1>2, SubSeqProperties
<1>4. \A i \in 1..(n - 1) : i \in 1..(n - 1 - 1 + 1) /\ 1 + i - 1 = i
  BY <1>1
<1>5. Len(SubSeq(s, 1, n - 1)) = n - 1
  BY <1>1, <1>3
<1>6. \A i \in 1..(n - 1) : SubSeq(s, 1, n - 1)[i] = s[i]
  BY <1>3, <1>4
<1>7. QED
  BY <1>1, <1>3, <1>5, <1>6 DEF Front

LEMMA FromOf ==
  ASSUME NEW S, NEW s \in Seq(S), NEW m \in 1..(Len(s) + 1)
  PROVE  /\ From(s, m) \in Seq(S) /\ Len(From(s, m)) = Len(s) - m + 1
         /\ \A i \in 1..(Len(s) - m + 1) : From(s, m)[i] = s[m + i - 1]
<1>1. \A i \in m..Len(s) : s[i] \in S
  OBVIOUS
<1>2. m \in Int /\ Len(s) \in Nat /\ m <= Len(s) + 1
  BY LenProperties
<1>3. QED
  BY <1>1, <1>2, SubSeqProperties DEF From

LEMMA FromHead ==
  ASSUME NEW S, NEW s \in Seq(S), NEW m \in DOMAIN s
  PROVE  From(s, m) # <<>> /\ Head(From(s, m)) = s[m]
<1>1. PICK n \in Nat : n = Len(s) /\ m \in 1..n
  OBVIOUS
<1>2. Head(SubSeq(s, m, n)) = s[m]
  BY <1>1, HeadTailOfSubSeq
<1>3. Len(SubSeq(s, m, n)) = n - m + 1
  BY <1>1
<1>4. SubSeq(s, m, n) # <<>>
  <2>1. Len(SubSeq(s, m, n)) # 0
    BY <1>1, <1>3
  <2>2. Len(<<>>) = 0
    OBVIOUS
  <2>3. QED
    BY <2>1, <2>2
<1>5. QED
  BY <1>1, <1>2, <1>4 DEF From

-----------------------------------------------------------------------------
(* The queue does not stall                                                *)

(* With a distributor and no current command, there is no command in the   *)
(* queue that could be run.                                                *)
Runs(c) ==
  \/ c.current # "None" \/ c.iface = None
  \/ c.queue = <<>> \/ ~Ready(c, Head(c.queue))

LEMMA ProcessRuns ==
  ASSUME NEW c \in ConnectorState
  PROVE  Runs(ProcessNextCommand(c))
<1> DEFINE p == ProcessNextCommand(c)
<1>0. c.queue \in Seq(Commands) /\ DOMAIN c.queue = 1..Len(c.queue)
  BY DEF ConnectorState
<1>1. CASE (c.current # "None" \/ c.iface = None) /\ p = c
  BY <1>1 DEF Runs
<1>2. CASE p = [c EXCEPT !.queue = <<>>]
  BY <1>2 DEF Runs, ConnectorState
<1>3. ASSUME NEW m \in DOMAIN c.queue, ~Ready(c, c.queue[m]),
             p = [c EXCEPT !.queue = From(c.queue, m)]
      PROVE  Runs(p)
  <2>1. From(c.queue, m) # <<>> /\ Head(From(c.queue, m)) = c.queue[m]
    BY <1>0, FromHead
  <2>2. /\ p.queue = From(c.queue, m)
        /\ p.required = c.required /\ p.key = c.key
    BY <1>3 DEF ConnectorState
  <2>3. QED
    BY <1>3, <2>1, <2>2 DEF Runs, Ready
<1>4. ASSUME NEW m \in DOMAIN c.queue, Runs1(c, p, m) PROVE Runs(p)
  <2>1. c.queue[m] # "None"
    BY <1>4 DEF Runs1, Done
  <2>2. p.current = c.queue[m]
    BY <1>4 DEF Runs1, Issue, ConnectorState
  <2>3. QED
    BY <2>1, <2>2 DEF Runs
<1>5. QED
  BY <1>1, <1>2, <1>3, <1>4, ProcessCases DEF Skips

LEMMA AddRuns ==
  ASSUME NEW c \in ConnectorState, NEW cmd \in Commands, Runs(c)
  PROVE  Runs(AddCommand(c, cmd))
<1> DEFINE p == AddCommand(c, cmd)
<1>1. CASE p = c
  BY <1>1
<1>2. CASE c.queue # <<>> /\ p = [c EXCEPT !.queue = Front(@)]
  <2>1. /\ Front(c.queue) \in Seq(Commands)
        /\ Front(c.queue) # <<>> => Head(Front(c.queue)) = Head(c.queue)
    BY <1>2, FrontOf DEF ConnectorState
  <2>2. /\ p.queue = Front(c.queue) /\ p.current = c.current
        /\ p.iface = c.iface /\ p.required = c.required /\ p.key = c.key
    BY <1>2 DEF ConnectorState
  <2>3. QED
    BY <1>2, <2>1, <2>2 DEF Runs, Ready
<1>3. ASSUME NEW q \in ConnectorState, p = ProcessNextCommand(q)
      PROVE  Runs(p)
  BY <1>3, ProcessRuns
<1>4. QED
  BY <1>1, <1>2, <1>3, AddCases

LEMMA AddKeepsType ==
  ASSUME TypeOK, NEW c \in ConnectorState, Sound(c), NEW cmd \in Commands
  PROVE  AddCommand(c, cmd) \in ConnectorState /\ Sound(AddCommand(c, cmd))
BY ConSound, AddFollows DEF Follows, Sound

(* Whatever became of the queue when the key came, the last command that   *)
(* setVapidPublicKey() adds sees to it.                                    *)
LEMMA ReregisterRuns ==
  ASSUME TypeOK, NEW c \in ConnectorState, Sound(c)
  PROVE  Runs(Reregister(c))
<1> DEFINE c1 == AddCommand(c, "Unregister")
           c2 == AddCommand(c1, "None")
           c3 == AddCommand(c2, "Register")
<1>1. c1 \in ConnectorState /\ Sound(c1)
  BY AddKeepsType DEF Commands
<1>2. c2 \in ConnectorState /\ Sound(c2)
  BY <1>1, AddKeepsType DEF Commands
<1>3. Reregister(c) = c3
  BY DEF Reregister
<1> HIDE DEF c1
<1>4. CASE Runs(c2)
  BY <1>2, <1>3, <1>4, AddRuns DEF Commands
<1>5. CASE ~Runs(c2)
  <2>1. c2 = c1 /\ (c1.queue # <<>> => Last(c1.queue) = "None")
    <3>1. \A last : ~Cancel(last, "None")
      BY DEF Cancel
    <3>2. ASSUME NEW q \in ConnectorState, c2 = ProcessNextCommand(q)
          PROVE  FALSE
      BY <1>5, <3>2, ProcessRuns
    <3>3. "None" \in Commands
      BY DEF Commands
    <3> HIDE DEF c2
    <3>4. QED
      BY <1>1, <3>1, <3>2, <3>3, AddCases DEF c2
  <2>2. c2.queue # <<>> /\ Last(c2.queue) = "None" /\ c2.current = "None"
    BY <1>5, <2>1 DEF Runs
  <2> HIDE DEF c2
  <2>3. c3 = ProcessNextCommand([c2 EXCEPT !.queue = Append(@, "Register")])
        /\ [c2 EXCEPT !.queue = Append(@, "Register")] \in ConnectorState
    BY <1>2, <2>2, AddCases DEF Commands, Cancel
  <2>4. QED
    BY <1>3, <2>3, ProcessRuns
<1>6. QED
  BY <1>4, <1>5

(* What a step does to the queue: nothing, or its handler changes other    *)
(* members, which makes b of the connector, then has its methods add or    *)
(* process commands, which makes c of b.                                   *)
SameQueue(b, c) ==
  /\ c.queue = b.queue /\ c.current = b.current /\ c.iface = b.iface
  /\ c.key = b.key /\ c.required = b.required
Queues(b, c) ==
  \/ c = b /\ b.iface = None
  \/ c = ProcessNextCommand(b)
  \/ c = AddCommand(b, "Register") /\ (b = con \/ b.queue = <<>>)
  \/ c = ProcessNextCommand(AddCommand(b, "Register"))
  \/ /\ c = AddCommand(b, "Unregister") /\ b = con
     /\ budget'["unregister"] < budget["unregister"]
  \/ c = Reregister(b) /\ budget'["key"] < budget["key"]
QueueHandled ==
  \E b, c \in ConnectorState :
    /\ Sound(b) /\ Queues(b, c) /\ con' = [c EXCEPT !.call = "None"]
    /\ b.queue \in {con.queue, <<>>} /\ b.current \in {con.current, "None"}

LEMMA QueueSteps ==
  ASSUME TypeOK, [Next]_vars
  PROVE  SameQueue(con, con') \/ con' = Fresh \/ QueueHandled
<1> DEFINE Goal == SameQueue(con, con') \/ con' = Fresh \/ QueueHandled
<1>0. con \in ConnectorState /\ Sound(con) /\ issued \in Nat
  BY ConSound DEF TypeOK
<1>1. ASSUME UNCHANGED con PROVE Goal
  BY <1>1 DEF SameQueue
<1>2. ASSUME Stop PROVE Goal
  BY <1>2, StopTyped
<1>3. ASSUME NEW b, Sound(b), NEW c, Sound(c), NEW rest, Handled(c, rest),
             Queues(b, c), b.queue \in {con.queue, <<>>},
             b.current \in {con.current, "None"}
      PROVE  Goal
  BY <1>3 DEF QueueHandled, Handled, Sound
<1>4. ASSUME NEW b, Sound(b), NEW rest, Handled(ProcessNextCommand(b), rest),
             b.queue \in {con.queue, <<>>},
             b.current \in {con.current, "None"}
      PROVE  Goal
  BY <1>0, <1>3, <1>4, ProcessFollows DEF Queues, Follows
<1>5. ASSUME NEW b, Sound(b), NEW rest, Handled(b, rest), SameQueue(con, b)
      PROVE  Goal
  BY <1>5 DEF Handled, SameQueue, Sound, ConnectorState
<1>6. CASE Start
  <2> DEFINE b == Loaded
             d == SelectDistributor
             c == SetDistributor(b, d)
  <2>1. /\ Sound(b) /\ b.iface = None /\ b.call = "None" /\ b.current = "None"
        /\ b.queue = <<>> /\ d \in Distributors \cup {None}
    <3>1. b.queue = <<>>
      BY FreshSound DEF Loaded, Fresh
    <3>2. QED
      BY <3>1, LoadedSound, SelectsService DEF TypeOK, Sound
  <2>2. Handled(c, incoming) /\ Sound(c)
    BY <1>0, <1>6, <2>1, SetDistributorFollows DEF Start, Sound
  <2> HIDE DEF b, d
  <2>3. CASE d = None
    <3>1. c.queue = <<>> /\ c.iface = None /\ c.current = "None"
      BY <2>1, <2>3 DEF SetDistributor, Sound, ConnectorState
    <3> HIDE DEF c
    <3>2. QED
      BY <1>3, <2>2, <3>1 DEF Queues
  <2>4. CASE d # None
    <3> DEFINE e == [b EXCEPT !.iface = d, !.state = "Unregistered"]
    <3>1. /\ e \in ConnectorState /\ Sound(e) /\ e.current = "None"
          /\ e.queue = <<>>
      BY <2>1, <2>4 DEF ConnectorState, States, Sound
    <3>2. c \in {e, AddCommand(e, "Register")}
      BY <2>4 DEF SetDistributor
    <3>3. e = ProcessNextCommand(e) \/ c # e
      <4>1. [e EXCEPT !.queue = <<>>] = e
        BY <3>1 DEF ConnectorState
      <4>2. \A m \in DOMAIN e.queue : FALSE
        BY <3>1
      <4> HIDE DEF e
      <4>3. QED
        BY <3>1, <4>1, <4>2, ProcessCases DEF Skips
    <3> HIDE DEF c, e
    <3>4. QED
      BY <1>3, <2>2, <3>1, <3>2, <3>3 DEF Queues
  <2>5. QED
    BY <2>3, <2>4
<1>7. CASE RegisterClient
  <2>1. Sound(AddCommand(con, "Register"))
    BY <1>0, AddFollows DEF Commands, Follows
  <2>2. QED
    BY <1>0, <1>3, <1>7, <2>1 DEF RegisterClient, Queues
<1>8. CASE UnregisterClient
  <2>1. Sound(AddCommand(con, "Unregister"))
    BY <1>0, AddFollows DEF Commands, Follows
  <2>2. budget'["unregister"] < budget["unregister"]
    <3>1. Spend("unregister")
      BY <1>8 DEF UnregisterClient
    <3>2. budget \in [Kinds -> Nat] /\ "unregister" \in Kinds
      BY DEF TypeOK, Kinds
    <3>3. QED
      BY <3>1, <3>2 DEF Spend
  <2>3. QED
    BY <1>0, <1>3, <1>8, <2>1, <2>2 DEF UnregisterClient, Queues
<1>9. ASSUME NEW k \in VapidKeys, SetVapidPublicKey(k) PROVE Goal
  <2> DEFINE b == [con EXCEPT !.key = k]
  <2>1. Sound(b) /\ b.queue = con.queue /\ b.current = con.current
    BY <1>0 DEF Sound, ConnectorState
  <2>2. \/ Handled(ProcessNextCommand(b), incoming)
        \/ Handled(Reregister(b), incoming)
    BY <1>9 DEF SetVapidPublicKey
  <2>3. budget'["key"] < budget["key"]
    <3>1. Spend("key")
      BY <1>9 DEF SetVapidPublicKey
    <3>2. budget \in [Kinds -> Nat] /\ "key" \in Kinds
      BY DEF TypeOK, Kinds
    <3>3. QED
      BY <3>1, <3>2 DEF Spend
  <2> HIDE DEF b
  <2>4. CASE Handled(Reregister(b), incoming)
    <3>1. Sound(Reregister(b))
      BY <1>0, <2>1, ReregisterFollows DEF Follows
    <3>2. QED
      BY <1>3, <2>1, <2>3, <2>4, <3>1 DEF Queues
  <2>5. QED
    BY <1>4, <2>1, <2>2, <2>4
<1>10. CASE SetVapidPublicKeyRequired
  <2> DEFINE b == [con EXCEPT !.required = ~@]
  <2>1. Sound(b) /\ b.queue = con.queue /\ b.current = con.current
    BY <1>0 DEF Sound, ConnectorState
  <2>2. Handled(ProcessNextCommand(b), incoming)
    BY <1>10 DEF SetVapidPublicKeyRequired
  <2> HIDE DEF b
  <2>3. QED
    BY <1>4, <2>1, <2>2
<1>11. CASE EnsureKeys
  BY <1>0, <1>11 DEF EnsureKeys, SameQueue, ConnectorState
<1>12. CASE NewEndpointArrives
  <2> DEFINE b == [con EXCEPT !.endpoint = Head(incoming).endpoint,
                              !.state = "Registered"]
  <2>1. Head(incoming) \in Event
    BY <1>12 DEF NewEndpointArrives, Receives, TypeOK
  <2>2. Sound(b) /\ SameQueue(con, b) /\ SameQueue(con, con)
    BY <1>0, <2>1 DEF Sound, ConnectorState, States, Event, SameQueue
  <2>3. Handled(b, Tail(incoming)) \/ Handled(con, Tail(incoming))
    BY <1>12 DEF NewEndpointArrives
  <2> HIDE DEF b
  <2>4. QED
    BY <1>0, <1>5, <2>2, <2>3
<1>13. CASE UnregisteredArrives
  <2> DEFINE gone == [con EXCEPT !.endpoint = None, !.state = "Unregistered"]
             confirmed == Head(incoming).token = NoToken
                            \/ con.current = "Unregister"
             c == IF confirmed THEN [gone EXCEPT !.token = NoToken] ELSE gone
             next == IF con.current = "Unregister"
                     THEN [c EXCEPT !.current = "None"] ELSE c
  <2>1. /\ gone \in ConnectorState /\ gone.call = "None"
        /\ gone.queue = con.queue /\ gone.current = con.current
    BY <1>0 DEF TypeOK, ConnectorState, States
  <2>2. \/ Handled(ProcessNextCommand(next), Tail(incoming))
        \/ Handled(con, Tail(incoming))
    BY <1>13 DEF UnregisteredArrives
  <2> HIDE DEF gone
  <2>3. /\ Sound(next) /\ next.queue = con.queue
        /\ next.current \in {con.current, "None"}
    BY <2>1 DEF Sound, ConnectorState, Commands, NoToken
  <2>4. SameQueue(con, con)
    BY DEF SameQueue
  <2> HIDE DEF next
  <2>5. QED
    BY <1>0, <1>4, <1>5, <2>2, <2>3, <2>4
<1>14. CASE ReplyArrives
  <2> DEFINE state == CASE Head(incoming).event # "Success" -> "Error"
                        [] con.endpoint = None -> "Registering"
                        [] OTHER -> "Registered"
             b == CommandEnds([con EXCEPT !.state = state])
  <2>1. state \in States
    BY DEF States
  <2>2. Handled(ProcessNextCommand(b), Tail(incoming))
    BY <1>14 DEF ReplyArrives
  <2> HIDE DEF state
  <2>3. Sound(b) /\ b.queue = con.queue /\ b.current = "None"
    BY <1>0, <2>1 DEF CommandEnds, TypeOK, Sound, ConnectorState, Commands
  <2> HIDE DEF b
  <2>4. QED
    BY <1>4, <2>2, <2>3
<1>15. CASE ServiceRegistered
  <2>1. CASE con.iface # None
    BY <1>0, <1>5, <1>15, <2>1 DEF ServiceRegistered, SameQueue
  <2>2. CASE con.iface = None
    <3> DEFINE d == SelectDistributor
               c == SetDistributor(con, d)
    <3>1. d \in Distributors \cup {None}
      BY SelectsService DEF TypeOK
    <3>2. Sound(c) /\ Handled(ProcessNextCommand(c), Tail(incoming))
      BY <1>0, <1>15, <2>2, <3>1, SetDistributorFollows
      DEF ServiceRegistered, TypeOK
    <3> HIDE DEF d
    <3>3. CASE d = None
      <4>1. c.queue = con.queue /\ c.current = con.current
        BY <1>0, <3>3 DEF SetDistributor, ConnectorState
      <4> HIDE DEF c
      <4>2. QED
        BY <1>4, <3>2, <4>1
    <3>4. CASE d # None
      <4> DEFINE e == [con EXCEPT !.iface = d, !.state = "Unregistered"]
      <4>1. Sound(e) /\ e.queue = con.queue /\ e.current = con.current
        BY <1>0, <3>1, <3>4 DEF ConnectorState, States, Sound, TypeOK
      <4>2. c \in {e, AddCommand(e, "Register")}
        BY <3>4 DEF SetDistributor
      <4> HIDE DEF c, e
      <4>3. Sound(ProcessNextCommand(c))
        BY <1>0, <3>2, ProcessFollows DEF Follows
      <4>4. QED
        BY <1>3, <3>2, <4>1, <4>2, <4>3 DEF Queues
    <3>5. QED
      BY <3>3, <3>4
  <2>3. QED
    BY <2>1, <2>2
<1>16. CASE ServiceUnregistered
  <2> DEFINE b == WithoutDistributor(con, Head(incoming).service)
  <2>1. Sound(b)
    BY <1>0, WithoutSound DEF TypeOK
  <2>2. \/ b = con
        \/ b.iface = None /\ b.queue = con.queue /\ b.current = "None"
    BY <1>0 DEF WithoutDistributor, ConnectorState
  <2>3. Handled(b, Tail(incoming))
    BY <1>16 DEF ServiceUnregistered
  <2> HIDE DEF b
  <2>4. QED
    BY <1>0, <1>3, <1>5, <2>1, <2>2, <2>3 DEF Queues, SameQueue
<1>17. CASE Application
  <2>1. Quit => Stop
    BY DEF Quit
  <2>2. RemoveState => UNCHANGED con
    BY DEF RemoveState
  <2>3. QED
    BY <1>1, <1>2, <1>7, <1>8, <1>9, <1>10, <1>11, <1>17, <2>1, <2>2
    DEF Application
<1>18. CASE Delivery
  BY <1>2, <1>12, <1>13, <1>14, <1>15, <1>16, <1>18
  DEF Delivery, ServiceUnregisteredCrash
<1>19. ASSUME NEW d \in Distributors,
              \/ Works(d) \/ Rejects(d) \/ DistributorGone(d)
              \/ DistributorHere(d)
              \/ \E t \in Tokens : Move(d, t) \/ ForceUnregister(d, t)
       PROVE  UNCHANGED con
  BY <1>19 DEF Works, Rejects, Registers, SilentlyUnregisters, Unregisters,
     RejectsRegistration, RejectsUnregistration, DistributorGone,
     DistributorHere, Move, ForceUnregister
<1>20. Timeout \/ UNCHANGED vars => UNCHANGED con
  BY DEF Timeout, vars
<1>21. QED
  BY <1>1, <1>6, <1>17, <1>18, <1>19, <1>20 DEF Next

LEMMA RunsNext == TypeOK /\ Runs(con) /\ [Next]_vars => Runs(con)'
<1> SUFFICES ASSUME TypeOK, Runs(con), [Next]_vars PROVE Runs(con')
  BY DEF Runs, Ready
<1>1. CASE SameQueue(con, con') \/ con' = Fresh
  BY <1>1, FreshSound DEF SameQueue, Runs, Ready
<1>2. ASSUME NEW b \in ConnectorState, NEW c \in ConnectorState, Sound(b),
             Queues(b, c), con' = [c EXCEPT !.call = "None"]
      PROVE  Runs(con')
  <2>1. ASSUME Runs(c) PROVE Runs(con')
    BY <1>2, <2>1 DEF Runs, Ready, ConnectorState
  <2>2. CASE c = b /\ b.iface = None
    BY <2>1, <2>2 DEF Runs
  <2>3. CASE c = ProcessNextCommand(b)
    BY <1>2, <2>1, <2>3, ProcessRuns
  <2>4. CASE c = AddCommand(b, "Register") /\ (b = con \/ b.queue = <<>>)
    <3>1. Runs(b)
      BY <2>4 DEF Runs
    <3>2. QED
      BY <1>2, <2>1, <2>4, <3>1, AddRuns DEF Commands
  <2>5. CASE c = ProcessNextCommand(AddCommand(b, "Register"))
    BY <1>2, <2>1, <2>5, AddKeepsType, ProcessRuns DEF Commands
  <2>6. CASE c = AddCommand(b, "Unregister") /\ b = con
    BY <1>2, <2>1, <2>6, AddRuns DEF Commands
  <2>7. CASE c = Reregister(b)
    BY <1>2, <2>1, <2>7, ReregisterRuns
  <2>8. QED
    BY <1>2, <2>2, <2>3, <2>4, <2>5, <2>6, <2>7 DEF Queues
<1>3. QED
  BY <1>1, <1>2, QueueSteps DEF QueueHandled

LEMMA RunsAlways == Spec => []Runs(con)
<1>1. Init => Runs(con)
  BY FreshSound DEF Init, Runs
<1>2. QED
  BY <1>1, RunsNext, ConnectorTypeCorrect, PTL DEF Spec

(* What is left of the limits is spent or kept. *)
LEMMA SpendsOrKeeps ==
  ASSUME TypeOK, [Next]_vars
  PROVE  budget' = budget \/ \E kind \in Kinds : Spend(kind)
<1>1. Start \/ UNCHANGED vars => budget' = budget
  BY DEF Start, vars
<1>2. Application => \E kind \in Kinds : Spend(kind)
  BY DEF Application, RegisterClient, UnregisterClient, SetVapidPublicKey,
     SetVapidPublicKeyRequired, EnsureKeys, RemoveState, Quit, Kinds
<1>3. Delivery => budget' = budget
  BY DEF Delivery, NewEndpointArrives, UnregisteredArrives, ReplyArrives,
     ServiceRegistered, ServiceUnregistered, ServiceUnregisteredCrash
<1>4. Timeout => \E kind \in Kinds : Spend(kind)
  BY DEF Timeout, Kinds
<1>5. ASSUME NEW d \in Distributors
      PROVE  /\ Works(d) => budget' = budget
             /\ Rejects(d) \/ DistributorGone(d) \/ DistributorHere(d) =>
                  \E kind \in Kinds : Spend(kind)
             /\ \A t \in Tokens : Move(d, t) \/ ForceUnregister(d, t) =>
                  \E kind \in Kinds : Spend(kind)
  BY DEF Works, Rejects, Registers, SilentlyUnregisters, Unregisters,
     RejectsRegistration, RejectsUnregistration, DistributorGone,
     DistributorHere, Move, ForceUnregister, Kinds
<1>6. QED
  BY <1>1, <1>2, <1>3, <1>4, <1>5 DEF Next

(* The application does not unregister, nor change its VAPID key, which    *)
(* unregisters it, too.                                                    *)
StaysRegistered == \A l \in Limits : l["unregister"] = 0 /\ l["key"] = 0

OnlyRegisters(c) ==
  c.queue \in Seq({"Register"}) /\ c.current \in {"None", "Register"}

LEMMA ProcessOnlyRegisters ==
  ASSUME NEW c \in ConnectorState, OnlyRegisters(c)
  PROVE  OnlyRegisters(ProcessNextCommand(c))
<1> DEFINE p == ProcessNextCommand(c)
<1>0. /\ DOMAIN c.queue = 1..Len(c.queue) /\ Len(c.queue) \in Nat
      /\ \A i \in DOMAIN c.queue : c.queue[i] = "Register"
  BY DEF OnlyRegisters
<1>1. \A m \in 1..(Len(c.queue) + 1) : From(c.queue, m) \in Seq({"Register"})
  BY FromOf DEF OnlyRegisters
<1>2. CASE p = c \/ p = [c EXCEPT !.queue = <<>>]
  <2>1. p = c \/ (p.queue = <<>> /\ p.current = c.current)
    BY <1>2 DEF ConnectorState
  <2>2. OnlyRegisters(p)
    <3> HIDE DEF p
    <3>1. QED
      BY <2>1, EmptySeq DEF OnlyRegisters
  <2>3. QED
    BY <2>2
<1>3. ASSUME NEW m \in DOMAIN c.queue,
             p = [c EXCEPT !.queue = From(c.queue, m)]
      PROVE  OnlyRegisters(p)
  BY <1>0, <1>1, <1>3 DEF OnlyRegisters, ConnectorState
<1>4. ASSUME NEW m \in DOMAIN c.queue, Runs1(c, p, m)
      PROVE  OnlyRegisters(p)
  <2>1. /\ From(c.queue, m + 1) \in Seq({"Register"})
        /\ c.queue[m] = "Register"
    BY <1>0, <1>1
  <2>2. /\ p.queue = From(c.queue, m + 1)
        /\ p.current = "Register"
    BY <1>4, <2>1 DEF Runs1, Issue, ConnectorState
  <2>3. QED
    BY <2>1, <2>2 DEF OnlyRegisters
<1>5. QED
  <2>1. \/ p = c \/ p = [c EXCEPT !.queue = <<>>]
        \/ \E m \in DOMAIN c.queue : p = [c EXCEPT !.queue = From(c.queue, m)]
        \/ \E m \in DOMAIN c.queue : Runs1(c, p, m)
    BY ProcessCases, Zenon DEF Skips
  <2>2. QED
    BY <1>2, <1>3, <1>4, <2>1, Zenon

LEMMA AddOnlyRegisters ==
  ASSUME NEW c \in ConnectorState, OnlyRegisters(c)
  PROVE  OnlyRegisters(AddCommand(c, "Register"))
<1> DEFINE q == [c EXCEPT !.queue = Append(@, "Register")]
<1>1. c.queue # <<>> => ~Cancel(Last(c.queue), "Register")
  BY DEF OnlyRegisters, Last, Cancel
<1>2. q.queue = Append(c.queue, "Register") /\ q.current = c.current
  BY DEF ConnectorState
<1>3. OnlyRegisters(q)
  BY <1>2 DEF OnlyRegisters
<1> HIDE DEF q
<1>4. \/ AddCommand(c, "Register") = c
      \/ q \in ConnectorState /\ AddCommand(c, "Register") = ProcessNextCommand(q)
  BY <1>1, AddCases DEF q, Commands
<1>5. QED
  BY <1>3, <1>4, ProcessOnlyRegisters

OnlyRegistersInv ==
  /\ OnlyRegisters(con)
  /\ budget["unregister"] = 0 /\ budget["key"] = 0

LEMMA OnlyRegistersNext ==
  TypeOK /\ OnlyRegistersInv /\ [Next]_vars => OnlyRegistersInv'
<1> SUFFICES ASSUME TypeOK, OnlyRegistersInv, [Next]_vars
             PROVE  OnlyRegistersInv'
  OBVIOUS
<1>1. budget'["unregister"] = 0 /\ budget'["key"] = 0
  <2>1. ASSUME NEW kind \in Kinds, Spend(kind)
        PROVE  budget'["unregister"] = 0 /\ budget'["key"] = 0
    BY <2>1 DEF Spend, TypeOK, Kinds, OnlyRegistersInv
  <2>2. budget' = budget \/ \E kind \in Kinds : Spend(kind)
    BY SpendsOrKeeps
  <2>3. QED
    BY <2>1, <2>2 DEF OnlyRegistersInv
<1>2. CASE SameQueue(con, con') \/ con' = Fresh
  <2>1. OnlyRegisters(Fresh)
    BY EmptySeq DEF Fresh, OnlyRegisters
  <2>2. OnlyRegisters(con')
    BY <1>2, <2>1 DEF SameQueue, OnlyRegisters, OnlyRegistersInv
  <2>3. QED
    BY <1>1, <2>2 DEF OnlyRegistersInv, OnlyRegisters
<1>3. ASSUME NEW b \in ConnectorState, NEW c \in ConnectorState, Sound(b),
             Queues(b, c), con' = [c EXCEPT !.call = "None"],
             b.queue \in {con.queue, <<>>}, b.current \in {con.current, "None"}
      PROVE  OnlyRegistersInv'
  <2>1. OnlyRegisters(b)
    <3>1. <<>> \in Seq({"Register"})
      BY EmptySeq
    <3>2. QED
      BY <1>3, <3>1 DEF OnlyRegistersInv, OnlyRegisters
  <2>2. /\ AddCommand(b, "Register") \in ConnectorState
        /\ OnlyRegisters(AddCommand(b, "Register"))
    BY <1>3, <2>1, AddOnlyRegisters, AddKeepsType DEF Commands
  <2>3. \/ c \in {b, AddCommand(b, "Register"), ProcessNextCommand(b)}
        \/ c = ProcessNextCommand(AddCommand(b, "Register"))
    BY <1>1, <1>3 DEF Queues, OnlyRegistersInv
  <2>4. OnlyRegisters(c)
    BY <1>3, <2>1, <2>2, <2>3, ProcessOnlyRegisters
  <2>5. QED
    BY <1>1, <1>3, <2>4 DEF OnlyRegisters, OnlyRegistersInv, ConnectorState
<1>4. QED
  BY <1>2, <1>3, QueueSteps DEF QueueHandled

(* A connector that only registers is not stuck when nothing is under way, *)
(* however often it and the distributors restart, calls fail or time out,  *)
(* and the user moves or removes the client: each reply, and each loss of  *)
(* the distributor, lets it look for the next command.                     *)
THEOREM NotStuckRegistering ==
  ASSUME StaysRegistered PROVE Spec => []NeverStuck
<1>1. Init => OnlyRegistersInv
  BY DEF Init, OnlyRegistersInv, OnlyRegisters, Fresh, StaysRegistered
<1>2. OnlyRegistersInv /\ Runs(con) /\ ReplyOnItsWay => NeverStuck
  BY DEF OnlyRegistersInv, OnlyRegisters, Runs, ReplyOnItsWay, NeverStuck, Quiet
<1>3. QED
  BY <1>1, <1>2, OnlyRegistersNext, RunsAlways, RepliesCome,
     ConnectorTypeCorrect, PTL DEF Spec

-----------------------------------------------------------------------------
(* Entries of sequences *)

(* s has no entry in S; it has one, which is in U. *)
HasNone(s, S) == \A i \in DOMAIN s : s[i] \notin S
HasOne(s, S, U) ==
  \E i \in DOMAIN s : /\ s[i] \in S /\ s[i] \in U
                      /\ \A j \in DOMAIN s : s[j] \in S => j = i

LEMMA EmptyEntries == ASSUME NEW S PROVE HasNone(<<>>, S)
BY DEF HasNone

LEMMA AppendEntries ==
  ASSUME NEW T, NEW s \in Seq(T), NEW e \in T, NEW S, NEW U
  PROVE  /\ HasNone(s, S) /\ e \notin S => HasNone(Append(s, e), S)
         /\ HasNone(s, S) /\ e \in S /\ e \in U => HasOne(Append(s, e), S, U)
         /\ HasOne(s, S, U) /\ e \notin S => HasOne(Append(s, e), S, U)
<1>1. PICK n \in Nat : n = Len(s) /\ DOMAIN s = 1..n
  BY LenProperties
<1>2. /\ DOMAIN Append(s, e) = 1..(n + 1)
      /\ \A i \in 1..n : Append(s, e)[i] = s[i]
      /\ Append(s, e)[n + 1] = e
  BY <1>1
<1>3. \A i \in 1..(n + 1) : i \in 1..n \/ i = n + 1
  BY <1>1
<1>4. n + 1 \in 1..(n + 1) /\ \A i \in 1..n : i \in 1..(n + 1)
  BY <1>1
<1>5. HasNone(s, S) /\ e \notin S => HasNone(Append(s, e), S)
  BY <1>1, <1>2, <1>3 DEF HasNone
<1>6. ASSUME HasNone(s, S), e \in S, e \in U PROVE HasOne(Append(s, e), S, U)
  <2>1. \A j \in 1..(n + 1) : Append(s, e)[j] \in S => j = n + 1
    BY <1>1, <1>2, <1>3, <1>6 DEF HasNone
  <2>2. QED
    BY <1>2, <1>4, <1>6, <2>1 DEF HasOne
<1>7. ASSUME HasOne(s, S, U), e \notin S PROVE HasOne(Append(s, e), S, U)
  <2>1. PICK i \in 1..n : /\ s[i] \in S /\ s[i] \in U
                          /\ \A j \in 1..n : s[j] \in S => j = i
    BY <1>1, <1>7 DEF HasOne
  <2>2. \A j \in 1..(n + 1) : Append(s, e)[j] \in S => j = i
    BY <1>2, <1>3, <1>7, <2>1
  <2>3. QED
    BY <1>2, <1>4, <2>1, <2>2 DEF HasOne
<1>8. QED
  BY <1>5, <1>6, <1>7

LEMMA TailEntries ==
  ASSUME NEW T, NEW s \in Seq(T), s # <<>>, NEW S, NEW U
  PROVE  /\ HasNone(s, S) => Head(s) \notin S /\ HasNone(Tail(s), S)
         /\ HasOne(s, S, U) /\ Head(s) \in S =>
              Head(s) \in U /\ HasNone(Tail(s), S)
         /\ HasOne(s, S, U) /\ Head(s) \notin S => HasOne(Tail(s), S, U)
<1>1. PICK n \in Nat \ {0} : n = Len(s) /\ DOMAIN s = 1..n
  BY LenProperties, EmptySeq
<1>2. /\ DOMAIN Tail(s) = 1..(n - 1) /\ Head(s) = s[1]
      /\ \A i \in 1..(n - 1) : Tail(s)[i] = s[i + 1]
  BY <1>1, HeadTailProperties
<1>3. /\ 1 \in 1..n /\ \A i \in 1..(n - 1) : i + 1 \in 1..n /\ i + 1 # 1
      /\ \A i \in 1..n : i # 1 => i - 1 \in 1..(n - 1) /\ (i - 1) + 1 = i
  BY <1>1
<1>4. HasNone(s, S) => Head(s) \notin S /\ HasNone(Tail(s), S)
  BY <1>1, <1>2, <1>3 DEF HasNone
<1>5. ASSUME HasOne(s, S, U)
      PROVE  /\ Head(s) \in S => Head(s) \in U /\ HasNone(Tail(s), S)
             /\ Head(s) \notin S => HasOne(Tail(s), S, U)
  <2>1. PICK i \in 1..n : /\ s[i] \in S /\ s[i] \in U
                          /\ \A j \in 1..n : s[j] \in S => j = i
    BY <1>1, <1>5 DEF HasOne
  <2>2. ASSUME Head(s) \in S PROVE Head(s) \in U /\ HasNone(Tail(s), S)
    <3>1. i = 1
      BY <1>2, <1>3, <2>1, <2>2
    <3>2. QED
      BY <1>2, <1>3, <2>1, <3>1 DEF HasNone
  <2>3. ASSUME Head(s) \notin S PROVE HasOne(Tail(s), S, U)
    <3>1. i # 1
      BY <1>2, <2>1, <2>3
    <3>2. PICK k \in 1..(n - 1) : k + 1 = i
      BY <1>3, <3>1
    <3>3. Tail(s)[k] = s[i]
      BY <1>2, <3>2
    <3>4. ASSUME NEW j \in 1..(n - 1), Tail(s)[j] \in S PROVE j = k
      <4>1. j + 1 = i
        BY <1>2, <1>3, <2>1, <3>4
      <4>2. QED
        BY <1>1, <3>2, <4>1
    <3>5. QED
      BY <1>2, <2>1, <3>3, <3>4 DEF HasOne
  <2>4. QED
    BY <2>2, <2>3
<1>6. QED
  BY <1>4, <1>5

(* A sequence whose entries are all in U. *)
LEMMA NarrowSeq ==
  ASSUME NEW T, NEW s \in Seq(T), NEW U, \A i \in DOMAIN s : s[i] \in U
  PROVE  s \in Seq(U)
<1>1. PICK n \in Nat : n = Len(s) /\ DOMAIN s = 1..n /\ s \in [1..n -> T]
  BY LenProperties
<1>2. s \in [1..n -> U]
  BY <1>1
<1>3. QED
  BY <1>2, SeqDef

-----------------------------------------------------------------------------
(* What the methods call for *)

(* Of b, the methods have made c: its queue has changed, or its next       *)
(* command, which there is something to do for, has become current.        *)
Outcome(b, c) ==
  \/ c = [b EXCEPT !.queue = c.queue]
  \/ /\ b.current = "None" /\ b.iface # None
     /\ \E cmd \in {"Register", "Unregister"} :
          ~Done(b, cmd) /\ c = Issue([b EXCEPT !.queue = c.queue], cmd)

LEMMA OutcomeSame ==
  ASSUME NEW b \in ConnectorState
  PROVE  Outcome(b, b)
BY DEF Outcome, ConnectorState

LEMMA OutcomeProcess ==
  ASSUME NEW b \in ConnectorState
  PROVE  Outcome(b, ProcessNextCommand(b))
<1> DEFINE p == ProcessNextCommand(b)
<1>1. ASSUME NEW q, p = [b EXCEPT !.queue = q] PROVE Outcome(b, p)
  BY <1>1 DEF Outcome, ConnectorState
<1>2. p = b => Outcome(b, p)
  BY OutcomeSame
<1>3. ASSUME NEW m \in DOMAIN b.queue, Runs1(b, p, m),
             b.current = "None", b.iface # None
      PROVE  Outcome(b, p)
  <2> DEFINE cmd == b.queue[m]
  <2>1. cmd \in {"Register", "Unregister"} /\ ~Done(b, cmd)
    BY <1>3 DEF Runs1, Done, ConnectorState, Commands
  <2>2. p = Issue([b EXCEPT !.queue = From(b.queue, m + 1)], cmd)
    BY <1>3 DEF Runs1
  <2> HIDE DEF cmd
  <2>3. p.queue = From(b.queue, m + 1)
    BY <2>2 DEF Issue, ConnectorState
  <2>4. QED
    BY <1>3, <2>1, <2>2, <2>3 DEF Outcome
<1>4. \/ p = b \/ \E q : p = [b EXCEPT !.queue = q]
      \/ /\ b.current = "None" /\ b.iface # None
         /\ \E m \in DOMAIN b.queue : Runs1(b, p, m)
  BY ProcessCases, Zenon DEF Skips
<1>5. QED
  BY <1>1, <1>2, <1>3, <1>4, Zenon

(* A further call of a method adds to what the first ones have done.       *)
LEMMA OutcomeQueue ==
  ASSUME NEW b \in ConnectorState, NEW c \in ConnectorState, Outcome(b, c),
         NEW q \in Seq(Commands)
  PROVE  Outcome(b, [c EXCEPT !.queue = q])
<1> DEFINE e == [c EXCEPT !.queue = q]
<1>0. e.queue = q
  BY DEF ConnectorState
<1>1. CASE c = [b EXCEPT !.queue = c.queue]
  <2>1. e = [b EXCEPT !.queue = q]
    BY <1>1 DEF ConnectorState
  <2>2. QED
    BY <1>0, <2>1 DEF Outcome
<1>2. ASSUME b.current = "None", b.iface # None,
             NEW cmd \in {"Register", "Unregister"}, ~Done(b, cmd),
             c = Issue([b EXCEPT !.queue = c.queue], cmd)
      PROVE  Outcome(b, e)
  <2>1. e = Issue([b EXCEPT !.queue = q], cmd)
    BY <1>2 DEF Issue, ConnectorState
  <2>2. QED
    BY <1>0, <1>2, <2>1 DEF Outcome
<1>3. QED
  BY <1>1, <1>2 DEF Outcome

LEMMA OutcomeProcessAfter ==
  ASSUME NEW b \in ConnectorState, NEW c \in ConnectorState, Outcome(b, c)
  PROVE  Outcome(b, ProcessNextCommand(c))
<1>1. CASE c = [b EXCEPT !.queue = c.queue]
  <2> DEFINE p == ProcessNextCommand(c)
  <2>1. Outcome(c, p)
    BY OutcomeProcess
  <2>2. /\ c.current = b.current /\ c.iface = b.iface /\ c.state = b.state
        /\ [c EXCEPT !.queue = p.queue] = [b EXCEPT !.queue = p.queue]
    BY <1>1 DEF ConnectorState
  <2>3. \A cmd : Done(c, cmd) <=> Done(b, cmd)
    BY <2>2 DEF Done
  <2> HIDE DEF p
  <2>4. QED
    BY <2>1, <2>2, <2>3 DEF Outcome, p
<1>2. CASE c.current # "None"
  BY <1>2 DEF ProcessNextCommand
<1>3. ASSUME NEW cmd \in {"Register", "Unregister"},
             c = Issue([b EXCEPT !.queue = c.queue], cmd)
      PROVE  c.current # "None"
  BY <1>3 DEF Issue, ConnectorState
<1>4. QED
  BY <1>1, <1>2, <1>3 DEF Outcome

LEMMA OutcomeAdd ==
  ASSUME NEW b \in ConnectorState, NEW c \in ConnectorState, Outcome(b, c),
         NEW cmd \in Commands
  PROVE  Outcome(b, AddCommand(c, cmd))
<1> DEFINE q == [c EXCEPT !.queue = Append(@, cmd)]
           f == [c EXCEPT !.queue = Front(@)]
<1>0. q = [c EXCEPT !.queue = Append(c.queue, cmd)]
      /\ Append(c.queue, cmd) \in Seq(Commands)
  BY DEF ConnectorState
<1>1. Outcome(b, q) /\ q \in ConnectorState
  <2> HIDE DEF q
  <2>1. Outcome(b, q)
    BY <1>0, OutcomeQueue
  <2>2. q \in ConnectorState
    BY <1>0 DEF ConnectorState
  <2>3. QED
    BY <2>1, <2>2
<1>2. c.queue # <<>> => Outcome(b, f)
  BY FrontOf, OutcomeQueue DEF ConnectorState
<1>3. Outcome(b, ProcessNextCommand(q))
  <2> HIDE DEF q
  <2>1. QED
    BY <1>1, OutcomeProcessAfter
<1>4. \/ AddCommand(c, cmd) = c
      \/ c.queue # <<>> /\ AddCommand(c, cmd) = f
      \/ AddCommand(c, cmd) = ProcessNextCommand(q)
  BY AddCases
<1> HIDE DEF q, f
<1>5. QED
  BY <1>2, <1>3, <1>4

LEMMA OutcomeReregister ==
  ASSUME TypeOK, NEW b \in ConnectorState, Sound(b)
  PROVE  Outcome(b, Reregister(b))
<1> DEFINE c1 == AddCommand(b, "Unregister")
           c2 == AddCommand(c1, "None")
<1>1. c1 \in ConnectorState /\ Sound(c1) /\ Outcome(b, c1)
  BY OutcomeSame, OutcomeAdd, AddKeepsType DEF Commands
<1> HIDE DEF c1
<1>2. c2 \in ConnectorState /\ Outcome(b, c2)
  BY <1>1, OutcomeAdd, AddKeepsType DEF Commands
<1> HIDE DEF c2
<1>3. Outcome(b, AddCommand(c2, "Register"))
  BY <1>2, OutcomeAdd DEF Commands
<1>4. QED
  BY <1>3 DEF Reregister, c1, c2

-----------------------------------------------------------------------------
(* Where the connector's order is                                          *)

(* What is on its way to an application that nothing disturbs, and what a  *)
(* distributor that knows n tokens has to do for it.                       *)
Expected ==
  {e \in Event : /\ e.event \in {"NewEndpoint", "Unregistered", "Success",
                                 "Here"}
                 /\ e.event = "NewEndpoint" => e.token # NoToken}
Jobs(n) ==
  {w \in Work : /\ w.op # "ForceUnregister" /\ w.token <= n
                /\ w.waits => w.op = "Register"}

Answers == {e \in Event : e.event = "Success"}
Confirmations == {e \in Event : e.event = "Unregistered"}
Mine(t) == {e \in Event : e.token \in {NoToken, t}}
Offers(t) ==
  {e \in Event : e.event = "NewEndpoint" /\ e.token = t /\ e.endpoint # None}
Asking == {w \in Work : w.waits}
Leaving == {w \in Work : w.op = "Unregister"}
Of(t) == {w \in Work : w.token = t}

(* The endpoint comes right before the answer.                             *)
Prepared(c, s) ==
  \A i \in DOMAIN s : s[i] \in Answers =>
    IF i = 1 THEN c.endpoint # None ELSE s[i - 1] \in Offers(c.token)

(* The connector c, to which s is on its way, has no order, has one with   *)
(* its distributor, or the answer to it is on its way.                     *)
Idle(c, s) ==
  /\ c.current = "None" /\ pending = None
  /\ HasNone(work[c.iface], Asking) /\ HasNone(work[c.iface], Leaving)
  /\ HasNone(s, Answers) /\ HasNone(s, Confirmations)
  /\ IF c.token = NoToken THEN c.state = "Unregistered"
     ELSE c.state = "Registered" /\ Known(c.iface, c.token)
Asked(c, s) ==
  /\ c.current = "Register" /\ c.token # NoToken /\ pending = c.iface
  /\ HasOne(work[c.iface], Asking, Of(c.token))
  /\ HasNone(work[c.iface], Leaving)
  /\ HasNone(s, Answers) /\ HasNone(s, Confirmations)
Answered(c, s) ==
  /\ c.current = "Register" /\ c.token # NoToken /\ pending = None
  /\ Known(c.iface, c.token)
  /\ HasNone(work[c.iface], Asking) /\ HasNone(work[c.iface], Leaving)
  /\ HasOne(s, Answers, Answers) /\ Prepared(c, s) /\ HasNone(s, Confirmations)
Leaves(c, s) ==
  /\ c.current = "Unregister" /\ c.token # NoToken /\ pending = None
  /\ HasNone(work[c.iface], Asking)
  /\ HasOne(work[c.iface], Leaving, Of(c.token))
  /\ HasNone(s, Answers) /\ HasNone(s, Confirmations)
Left(c, s) ==
  /\ c.current = "Unregister" /\ c.token # NoToken /\ pending = None
  /\ HasNone(work[c.iface], Asking) /\ HasNone(work[c.iface], Leaving)
  /\ HasNone(s, Answers) /\ HasOne(s, Confirmations, Mine(c.token))

Nowhere(c, s) ==
  /\ c.token = NoToken /\ c.current = "None" /\ pending = None
  /\ HasNone(s, Answers) /\ HasNone(s, Confirmations)
Somewhere(c, s) ==
  /\ c.iface \in services /\ work[c.iface] \in Seq(Jobs(issued))
  /\ \A t \in Tokens : Known(c.iface, t) => t <= issued
  /\ Idle(c, s) \/ Asked(c, s) \/ Answered(c, s) \/ Leaves(c, s) \/ Left(c, s)
OnOrder(c, s) ==
  /\ s \in Seq(Expected) /\ c.token <= issued
  /\ \A d \in Distributors :
       d # c.iface => work[d] = <<>> /\ \A t \in Tokens : ~Known(d, t)
  /\ IF c.iface = None THEN Nowhere(c, s) ELSE Somewhere(c, s)

(* Nothing else of the connector matters.                                  *)
SameOrder(b, c) ==
  /\ c.iface = b.iface /\ c.token = b.token /\ c.current = b.current
  /\ c.state = b.state /\ c.endpoint = b.endpoint
LEMMA SameOnOrder ==
  ASSUME NEW b, NEW c, SameOrder(b, c), NEW s, OnOrder(b, s)
  PROVE  OnOrder(c, s)
<1>1. Prepared(b, s) => Prepared(c, s)
  BY DEF Prepared, SameOrder
<1>2. QED
  BY <1>1 DEF SameOrder, OnOrder, Nowhere, Somewhere, Idle, Asked, Answered,
     Leaves, Left

(* What a handler that calls methods makes of the order: it stays where it *)
(* is, or an idle connector asks for a registration with a new token, or   *)
(* for the end of its registration.                                        *)
AskJob(t, k) == [op |-> "Register", token |-> t, key |-> k, waits |-> TRUE]
LeaveJob(t) == [op |-> "Unregister", token |-> t, key |-> None, waits |-> FALSE]
Keeps(b, rest) ==
  /\ SameOrder(b, con') /\ incoming' = rest
  /\ UNCHANGED <<issued, work, pending>>
Asks(b, rest) ==
  /\ b.iface # None /\ Idle(b, rest) /\ b.token = NoToken
  /\ con'.iface = b.iface /\ con'.current = "Register"
  /\ con'.token = issued + 1 /\ con'.key = b.key
  /\ issued' = issued + 1 /\ issued + 1 \in Tokens
  /\ incoming' = rest /\ pending' = b.iface
  /\ work' = [work EXCEPT ![b.iface] = Append(@, AskJob(issued + 1,
                IF VersionOf[b.iface] = "v2" THEN b.key ELSE None))]
TakesLeave(b, rest) ==
  /\ b.iface # None /\ Idle(b, rest) /\ b.token # NoToken
  /\ con'.iface = b.iface /\ con'.current = "Unregister"
  /\ con'.token = b.token /\ con'.endpoint = b.endpoint
  /\ UNCHANGED <<issued, pending>> /\ incoming' = rest
  /\ work' = [work EXCEPT ![b.iface] = Append(@, LeaveJob(b.token))]

LEMMA HandledOrder ==
  ASSUME TypeOK, NEW b \in ConnectorState, b.call = "None",
         NEW c \in ConnectorState, Outcome(b, c),
         NEW rest, OnOrder(b, rest), Handled(c, rest)
  PROVE  Keeps(b, rest) \/ Asks(b, rest) \/ TakesLeave(b, rest)
<1>0. issued \in 0..MaxToken /\ MaxToken \in Nat
  BY ConnectorAssumption DEF TypeOK
<1>1. CASE c = [b EXCEPT !.queue = c.queue]
  <2>1. c.call = "None" /\ SameOrder(b, c)
    BY <1>1 DEF SameOrder, ConnectorState
  <2>2. SameOrder(b, con') /\ incoming' = rest /\ UNCHANGED <<work, pending>>
    BY <2>1 DEF Handled, SameOrder, ConnectorState
  <2>3. c.token <= issued /\ c.token \in Nat
    BY <2>1 DEF OnOrder, SameOrder, ConnectorState
  <2>4. issued' = issued
    BY <1>0, <2>3 DEF Handled
  <2>5. QED
    BY <2>2, <2>4 DEF Keeps
<1>2. ASSUME b.current = "None", b.iface # None, ~Done(b, "Register"),
             c = Issue([b EXCEPT !.queue = c.queue], "Register")
      PROVE  Asks(b, rest)
  <2>1. Idle(b, rest) /\ b.iface \in services /\ b.iface \in Distributors
    BY <1>2 DEF OnOrder, Somewhere, Asked, Answered, Leaves, Left, TypeOK
  <2>2. b.token = NoToken
    BY <1>2, <2>1 DEF Idle, Done
  <2>3. c = [b EXCEPT !.queue = c.queue, !.current = "Register",
                      !.call = "Register", !.state = "Registering",
                      !.token = issued + 1]
    BY <1>2, <2>2 DEF Issue, ConnectorState
  <2>4. /\ c.iface = b.iface /\ c.token = issued + 1 /\ c.call = "Register"
        /\ c.key = b.key /\ c.current = "Register"
    BY <2>3 DEF ConnectorState
  <2>5. /\ con'.iface = b.iface /\ con'.current = "Register"
        /\ con'.token = issued + 1 /\ con'.key = b.key
        /\ issued' = issued + 1 /\ issued + 1 \in Tokens
    BY <1>0, <2>4 DEF Handled, Tokens, ConnectorState
  <2>6. ~Known(b.iface, issued + 1)
    BY <1>0, <1>2, <2>5 DEF OnOrder, Somewhere
  <2>7. CallRegister(c, rest)
    BY <2>4 DEF Handled
  <2>8. /\ incoming' = rest /\ pending' = b.iface
        /\ work' = [work EXCEPT ![b.iface] = Append(@, AskJob(issued + 1,
                      IF VersionOf[b.iface] = "v2" THEN b.key ELSE None))]
    BY <2>1, <2>4, <2>6, <2>7 DEF CallRegister, AskJob
  <2>9. QED
    BY <1>2, <2>1, <2>2, <2>5, <2>8 DEF Asks
<1>3. ASSUME b.current = "None", b.iface # None, ~Done(b, "Unregister"),
             c = Issue([b EXCEPT !.queue = c.queue], "Unregister")
      PROVE  TakesLeave(b, rest)
  <2>1. Idle(b, rest) /\ b.iface \in services /\ b.token <= issued
    BY <1>3 DEF OnOrder, Somewhere, Asked, Answered, Leaves, Left
  <2>2. b.token # NoToken /\ Known(b.iface, b.token)
    BY <1>3, <2>1 DEF Idle, Done
  <2>3. c = [b EXCEPT !.queue = c.queue, !.current = "Unregister",
                      !.call = "Unregister"]
    BY <1>3 DEF Issue, ConnectorState
  <2>4. /\ c.iface = b.iface /\ c.token = b.token /\ c.call = "Unregister"
        /\ c.current = "Unregister" /\ b.token \in Nat
        /\ c.endpoint = b.endpoint
    BY <2>3 DEF ConnectorState
  <2>5. /\ con'.iface = b.iface /\ con'.current = "Unregister"
        /\ con'.token = b.token /\ issued' = issued
        /\ con'.endpoint = b.endpoint
    BY <1>0, <2>1, <2>4 DEF Handled, ConnectorState
  <2>6. CallUnregister(c, rest)
    BY <2>4 DEF Handled
  <2>7. /\ incoming' = rest /\ pending' = pending
        /\ work' = [work EXCEPT ![b.iface] = Append(@, LeaveJob(b.token))]
    BY <2>1, <2>2, <2>4, <2>6 DEF CallUnregister, LeaveJob
  <2>8. QED
    BY <1>3, <2>1, <2>2, <2>5, <2>7 DEF TakesLeave
<1>4. QED
  BY <1>1, <1>2, <1>3 DEF Outcome

LEMMA WiderJobs ==
  ASSUME NEW n \in Nat, NEW m \in Nat, n <= m, NEW s \in Seq(Jobs(n))
  PROVE  s \in Seq(Jobs(m))
<1>1. Jobs(n) \subseteq Jobs(m)
  BY DEF Jobs, Work, Tokens
<1>2. \A i \in DOMAIN s : s[i] \in Jobs(m)
  BY <1>1
<1>3. QED
  BY <1>2, NarrowSeq

LEMMA KeepsOnOrder ==
  ASSUME NEW b, NEW rest, OnOrder(b, rest), Keeps(b, rest),
         UNCHANGED <<services, clients>>
  PROVE  OnOrder(con, incoming)'
<1>1. OnOrder(con', incoming')
  BY SameOnOrder DEF Keeps
<1>2. Prepared(con', incoming') <=> Prepared(con, incoming)'
  BY DEF Prepared, Offers
<1>3. \A d, t : Known(d, t)' <=> Known(d, t)
  BY DEF Known
<1>4. QED
  BY <1>1, <1>2, <1>3 DEF Keeps, OnOrder, Nowhere, Somewhere, Idle, Asked,
     Answered, Leaves, Left, HasNone, HasOne

LEMMA AsksOnOrder ==
  ASSUME TypeOK, TypeOK', NEW b \in ConnectorState,
         NEW rest, OnOrder(b, rest), Asks(b, rest),
         UNCHANGED <<services, clients>>
  PROVE  OnOrder(con, incoming)'
<1> DEFINE d == b.iface
           k == IF VersionOf[d] = "v2" THEN b.key ELSE None
           w == AskJob(issued + 1, k)
<1>0. /\ d \in Distributors /\ d \in services /\ issued \in Nat
      /\ work[d] \in Seq(Work) /\ work[d] \in Seq(Jobs(issued))
  BY ConSound DEF Asks, OnOrder, Somewhere, TypeOK
<1>1. w \in Jobs(issued + 1) /\ w \in Asking /\ w \notin Leaving
      /\ w \in Of(issued + 1)
  BY <1>0 DEF Asks, AskJob, Jobs, Asking, Leaving, Of, Work, ConnectorState
<1>2. work'[d] = Append(work[d], w)
      /\ \A x \in Distributors : x # d => work'[x] = work[x]
  BY <1>0 DEF Asks, TypeOK
<1> HIDE DEF w
<1>3. work'[d] \in Seq(Jobs(issued'))
  <2>1. work[d] \in Seq(Jobs(issued + 1))
    BY <1>0, WiderJobs
  <2>2. Append(work[d], w) \in Seq(Jobs(issued + 1))
    BY <1>1, <2>1
  <2>3. QED
    BY <1>2, <2>2 DEF Asks
<1>4. HasOne(work'[d], Asking, Of(issued + 1)) /\ HasNone(work'[d], Leaving)
  <2>1. w \in Work /\ HasNone(work[d], Leaving) /\ HasNone(work[d], Asking)
    BY <1>1 DEF Asks, Idle, Jobs
  <2>2. HasOne(Append(work[d], w), Asking, Of(issued + 1))
    BY <1>0, <1>1, <2>1, AppendEntries
  <2>3. HasNone(Append(work[d], w), Leaving)
    BY <1>0, <1>1, <2>1, AppendEntries
  <2>4. QED
    BY <1>2, <2>2, <2>3
<1>5. \A x, t : Known(x, t)' <=> Known(x, t)
  BY DEF Known
<1>6. Asked(con, incoming)'
  BY <1>0, <1>4 DEF Asks, Asked, Idle, NoToken, HasNone, HasOne
<1>7. \A t \in Tokens : Known(d, t)' => t <= issued'
  BY <1>0, <1>5 DEF Asks, OnOrder, Somewhere, Tokens
<1>8. Somewhere(con, incoming)'
  BY <1>0, <1>3, <1>6, <1>7 DEF Somewhere, Asks
<1>9. con'.iface = d /\ con'.token <= issued' /\ d # None
  BY <1>0 DEF Asks
<1>10. \A x \in Distributors : x # d =>
         work'[x] = <<>> /\ \A t \in Tokens : ~Known(x, t)'
  BY <1>2, <1>5 DEF OnOrder
<1>11. incoming' \in Seq(Expected)
  BY DEF OnOrder, Asks
<1>12. QED
  BY <1>8, <1>9, <1>10, <1>11 DEF OnOrder

LEMMA TakesLeaveOnOrder ==
  ASSUME TypeOK, NEW b \in ConnectorState,
         NEW rest, OnOrder(b, rest), TakesLeave(b, rest),
         UNCHANGED <<services, clients>>
  PROVE  OnOrder(con, incoming)'
<1> DEFINE d == b.iface
           w == LeaveJob(b.token)
<1>0. /\ d \in Distributors /\ d \in services /\ issued \in Nat
      /\ work[d] \in Seq(Work) /\ work[d] \in Seq(Jobs(issued))
  BY ConSound DEF TakesLeave, OnOrder, Somewhere, TypeOK
<1>1. w \in Jobs(issued) /\ w \notin Asking /\ w \in Leaving
      /\ w \in Of(b.token)
  <2>1. b.token \in Tokens /\ b.token <= issued
    BY <1>0 DEF TakesLeave, OnOrder, Idle, Known
  <2>2. QED
    BY <2>1 DEF LeaveJob, Jobs, Asking, Leaving, Of, Work
<1>2. work'[d] = Append(work[d], w)
      /\ \A x \in Distributors : x # d => work'[x] = work[x]
  BY <1>0 DEF TakesLeave, TypeOK
<1> HIDE DEF w
<1>3. work'[d] \in Seq(Jobs(issued'))
  BY <1>0, <1>1, <1>2 DEF TakesLeave
<1>4. HasOne(work'[d], Leaving, Of(b.token)) /\ HasNone(work'[d], Asking)
  <2>1. w \in Work /\ HasNone(work[d], Leaving) /\ HasNone(work[d], Asking)
    BY <1>1 DEF TakesLeave, Idle, Jobs
  <2>2. HasOne(Append(work[d], w), Leaving, Of(b.token))
    BY <1>0, <1>1, <2>1, AppendEntries
  <2>3. HasNone(Append(work[d], w), Asking)
    BY <1>0, <1>1, <2>1, AppendEntries
  <2>4. QED
    BY <1>2, <2>2, <2>3
<1>5. \A x, t : Known(x, t)' <=> Known(x, t)
  BY DEF Known
<1>6. Leaves(con, incoming)'
  BY <1>0, <1>4 DEF TakesLeave, Leaves, Idle, HasNone, HasOne
<1>7. \A t \in Tokens : Known(d, t)' => t <= issued'
  BY <1>0, <1>5 DEF TakesLeave, OnOrder, Somewhere, Tokens
<1>8. Somewhere(con, incoming)'
  BY <1>0, <1>3, <1>6, <1>7 DEF Somewhere, TakesLeave
<1>9. con'.iface = d /\ con'.token <= issued' /\ d # None
  BY <1>0 DEF TakesLeave, OnOrder
<1>10. \A x \in Distributors : x # d =>
         work'[x] = <<>> /\ \A t \in Tokens : ~Known(x, t)'
  BY <1>2, <1>5 DEF OnOrder
<1>11. incoming' \in Seq(Expected)
  BY DEF OnOrder, TakesLeave
<1>12. QED
  BY <1>8, <1>9, <1>10, <1>11 DEF OnOrder

(* A handler ends in order when it makes its calls in order. *)
LEMMA HandlerOnOrder ==
  ASSUME TypeOK, TypeOK', NEW b \in ConnectorState, b.call = "None",
         NEW c \in ConnectorState, Outcome(b, c),
         NEW rest, OnOrder(b, rest), Handled(c, rest),
         UNCHANGED <<services, clients>>
  PROVE  OnOrder(con, incoming)'
<1>1. CASE Keeps(b, rest)
  BY <1>1, KeepsOnOrder
<1>2. CASE Asks(b, rest)
  BY <1>2, AsksOnOrder
<1>3. CASE TakesLeave(b, rest)
  BY <1>3, TakesLeaveOnOrder
<1>4. QED
  BY <1>1, <1>2, <1>3, HandledOrder

(* What a connector whose order is somewhere hears of the bus: it becomes  *)
(* b, of which its methods make c.                                         *)
HearsEndpoint(b, c) ==
  LET e == Head(incoming) IN
  /\ e.event = "NewEndpoint" /\ e.token = con.token
  /\ b = [con EXCEPT !.endpoint = e.endpoint, !.state = "Registered"] /\ c = b
HearsOther(b, c) ==
  LET e == Head(incoming) IN
  /\ \/ e.event = "NewEndpoint" /\ e.token # con.token
     \/ e.event = "Here" /\ con.iface # None
  /\ b = con /\ c = b
HearsConfirmation(b, c) ==
  /\ Head(incoming).event = "Unregistered" /\ con.current = "Unregister"
  /\ b = [con EXCEPT !.endpoint = None, !.state = "Unregistered",
                     !.token = NoToken, !.current = "None"]
  /\ c = ProcessNextCommand(b)
HearsAnswer(b, c) ==
  /\ Head(incoming).event = "Success" /\ con.current = "Register"
  /\ con.endpoint # None
  /\ b = [con EXCEPT !.state = "Registered", !.current = "None"]
  /\ c = ProcessNextCommand(b)
HearsDistributor(b, c) ==
  /\ Head(incoming).event = "Here" /\ con.iface = None
  /\ \/ \E x \in services :
          b = [con EXCEPT !.iface = x, !.state = "Unregistered"]
     \/ b = [con EXCEPT !.state = "NoDistributor"]
  /\ c = ProcessNextCommand(b)
Hears(b, c) ==
  \/ HearsEndpoint(b, c) \/ HearsOther(b, c) \/ HearsConfirmation(b, c)
  \/ HearsAnswer(b, c) \/ HearsDistributor(b, c)

LEMMA Heard ==
  ASSUME TypeOK, OnOrder(con, incoming), Delivery
  PROVE  /\ incoming # <<>> /\ UNCHANGED <<running, services, clients, wish>>
         /\ \E b, c \in ConnectorState :
              /\ b.call = "None" /\ Hears(b, c) /\ Handled(c, Tail(incoming))
<1> DEFINE e == Head(incoming)
           rest == Tail(incoming)
           Goal == \E b, c \in ConnectorState :
                     /\ b.call = "None" /\ Hears(b, c) /\ Handled(c, rest)
<1>0. con \in ConnectorState /\ con.call = "None" /\ con.token <= issued
  BY DEF TypeOK, OnOrder
<1>1. incoming # <<>>
  BY DEF Delivery, NewEndpointArrives, UnregisteredArrives, ReplyArrives,
     ServiceRegistered, ServiceUnregistered, ServiceUnregisteredCrash, Receives
<1>2. e \in Expected /\ incoming \in Seq(Event)
  BY <1>1 DEF OnOrder, TypeOK
<1>3. ASSUME NEW b \in ConnectorState, b.call = "None"
      PROVE  ProcessNextCommand(b) \in ConnectorState
  BY <1>3, ConSound, ProcessFollows DEF Sound, Follows
<1>4. CASE NewEndpointArrives
  <2> DEFINE b == [con EXCEPT !.endpoint = e.endpoint, !.state = "Registered"]
  <2>1. b \in ConnectorState /\ b.call = "None"
    BY <1>0, <1>2 DEF Expected, Event, ConnectorState, States
  <2>2. /\ e.event = "NewEndpoint" /\ e.token # NoToken
        /\ UNCHANGED <<running, services, clients, wish>>
    BY <1>2, <1>4 DEF NewEndpointArrives, Receives, Expected
  <2>3. CASE e.token = con.token
    <3>1. HearsEndpoint(b, b) /\ Handled(b, rest)
      BY <1>4, <2>2, <2>3 DEF NewEndpointArrives, HearsEndpoint, IsMine
    <3> HIDE DEF b
    <3>2. QED
      BY <1>1, <2>1, <2>2, <3>1 DEF Hears
  <2>4. CASE e.token # con.token
    <3>1. HearsOther(con, con) /\ Handled(con, rest)
      BY <1>4, <2>2, <2>4 DEF NewEndpointArrives, HearsOther, IsMine
    <3>2. QED
      BY <1>0, <1>1, <2>2, <3>1 DEF Hears
  <2>5. QED
    BY <2>3, <2>4
<1>5. CASE UnregisteredArrives
  <2> DEFINE b == [con EXCEPT !.endpoint = None, !.state = "Unregistered",
                              !.token = NoToken, !.current = "None"]
             c == ProcessNextCommand(b)
             gone == [con EXCEPT !.endpoint = None, !.state = "Unregistered"]
             fresh == [gone EXCEPT !.token = NoToken]
  <2>1. b \in ConnectorState /\ b.call = "None"
    BY <1>0 DEF ConnectorState, States, Commands, NoToken
  <2>2. e \in Confirmations
    BY <1>2, <1>5
    DEF UnregisteredArrives, Receives, Expected, Confirmations
  <2>3. e.token \in {NoToken, con.token} /\ con.current = "Unregister"
    BY <1>1, <1>2, <2>2, TailEntries DEF OnOrder, Nowhere, Somewhere, Idle,
       Asked, Answered, Leaves, Left, Mine
  <2>4. [fresh EXCEPT !.current = "None"] = b
    BY <1>0 DEF ConnectorState
  <2>5. Handled(c, rest) /\ UNCHANGED <<running, services, clients, wish>>
    BY <1>5, <2>3, <2>4 DEF UnregisteredArrives
  <2>6. HearsConfirmation(b, c)
    BY <2>2, <2>3 DEF HearsConfirmation, Confirmations
  <2>7. c \in ConnectorState
    BY <1>3, <2>1
  <2> HIDE DEF b, c
  <2>8. QED
    BY <1>1, <2>1, <2>5, <2>6, <2>7 DEF Hears
<1>6. CASE ReplyArrives
  <2> DEFINE b == [con EXCEPT !.state = "Registered", !.current = "None"]
             c == ProcessNextCommand(b)
  <2>1. b \in ConnectorState /\ b.call = "None"
    BY <1>0 DEF ConnectorState, States, Commands
  <2>2. e \in Answers /\ e.event = "Success"
    BY <1>2, <1>6 DEF ReplyArrives, Receives, Expected, Answers
  <2>3. con.current = "Register" /\ Prepared(con, incoming)
    BY <1>1, <1>2, <2>2, TailEntries DEF OnOrder, Nowhere, Somewhere, Idle,
       Asked, Answered, Leaves, Left
  <2>4. con.endpoint # None
    <3>1. 1 \in DOMAIN incoming /\ incoming[1] = e
      BY <1>1, <1>2
    <3>2. QED
      BY <2>2, <2>3, <3>1 DEF Prepared
  <2>5. CommandEnds([con EXCEPT !.state = "Registered"]) = b
    BY <1>0 DEF CommandEnds, ConnectorState
  <2>6. Handled(c, rest) /\ UNCHANGED <<running, services, clients, wish>>
    BY <1>6, <2>2, <2>4, <2>5 DEF ReplyArrives
  <2>7. HearsAnswer(b, c)
    BY <2>2, <2>3, <2>4 DEF HearsAnswer
  <2>8. c \in ConnectorState
    BY <1>3, <2>1
  <2> HIDE DEF b, c
  <2>9. QED
    BY <1>1, <2>1, <2>6, <2>7, <2>8 DEF Hears
<1>7. CASE ServiceRegistered
  <2>0. e.event = "Here" /\ UNCHANGED <<running, services, clients, wish>>
    BY <1>7 DEF ServiceRegistered, Receives
  <2>1. CASE con.iface # None
    <3>1. Handled(con, rest) /\ HearsOther(con, con)
      BY <1>7, <2>0, <2>1 DEF ServiceRegistered, HearsOther
    <3>2. QED
      BY <1>0, <1>1, <2>0, <3>1 DEF Hears
  <2>2. CASE con.iface = None
    <3> DEFINE d == SelectDistributor
               b == SetDistributor(con, d)
               c == ProcessNextCommand(b)
    <3>1. d = None \/ (d \in services /\ d \in Distributors /\ d # None)
      BY SelectsService, ConnectorAssumption DEF TypeOK
    <3>2. b = IF d = None THEN [con EXCEPT !.state = "NoDistributor"]
              ELSE [con EXCEPT !.iface = d, !.state = "Unregistered"]
      BY <2>2 DEF SetDistributor, OnOrder, Nowhere
    <3> HIDE DEF d
    <3>3. b \in ConnectorState /\ b.call = "None"
      <4>1. {"NoDistributor", "Unregistered"} \subseteq States
        BY DEF States
      <4>2. CASE d = None
        BY <1>0, <3>2, <4>1, <4>2 DEF ConnectorState
      <4>3. CASE d # None
        <5>1. b = [con EXCEPT !.iface = d, !.state = "Unregistered"]
              /\ d \in Distributors
          BY <3>1, <3>2, <4>3
        <5> HIDE DEF b
        <5>2. QED
          BY <1>0, <4>1, <5>1 DEF ConnectorState
      <4>4. QED
        BY <4>2, <4>3
    <3>4. Handled(c, rest)
      BY <1>7, <2>2 DEF ServiceRegistered, d
    <3>5. c \in ConnectorState
      BY <1>3, <3>3
    <3> HIDE DEF b
    <3>6. HearsDistributor(b, c)
      <4>1. CASE d = None
        BY <2>0, <2>2, <3>2, <4>1 DEF HearsDistributor
      <4>2. CASE d \in services /\ d # None
        <5>1. b = [con EXCEPT !.iface = d, !.state = "Unregistered"]
          BY <3>2, <4>2
        <5>2. QED
          BY <2>0, <2>2, <4>2, <5>1, Zenon DEF HearsDistributor
      <4>3. QED
        BY <3>1, <4>1, <4>2
    <3> HIDE DEF c
    <3>7. QED
      BY <1>1, <2>0, <3>3, <3>4, <3>5, <3>6 DEF Hears
  <2>3. QED
    BY <2>1, <2>2
<1>8. CASE ServiceUnregistered \/ ServiceUnregisteredCrash
  BY <1>2, <1>8 DEF ServiceUnregistered, ServiceUnregisteredCrash, Receives,
     Expected
<1>9. QED
  BY <1>4, <1>5, <1>6, <1>7, <1>8 DEF Delivery

LEMMA HeardOnOrder ==
  ASSUME TypeOK, OnOrder(con, incoming), incoming # <<>>,
         NEW b, NEW c, Hears(b, c)
  PROVE  OnOrder(b, Tail(incoming))
<1> DEFINE s == incoming
           e == Head(incoming)
           rest == Tail(incoming)
           d == con.iface
<1>0. /\ con \in ConnectorState /\ s \in Seq(Expected) /\ s \in Seq(Event)
      /\ e \in Expected /\ e \in Event /\ rest \in Seq(Expected)
      /\ issued \in Nat
  BY ConSound DEF TypeOK, OnOrder
<1>1. /\ HasNone(s, Answers) => e \notin Answers /\ HasNone(rest, Answers)
      /\ HasNone(s, Confirmations) =>
           e \notin Confirmations /\ HasNone(rest, Confirmations)
  BY <1>0, TailEntries
<1>2. /\ HasOne(s, Answers, Answers) /\ e \in Answers => HasNone(rest, Answers)
      /\ HasOne(s, Answers, Answers) /\ e \notin Answers =>
           HasOne(rest, Answers, Answers)
  BY <1>0, TailEntries
<1>3. \A t : /\ HasOne(s, Confirmations, Mine(t)) /\ e \in Confirmations =>
                  HasNone(rest, Confirmations)
             /\ HasOne(s, Confirmations, Mine(t)) /\ e \notin Confirmations =>
                  HasOne(rest, Confirmations, Mine(t))
  BY <1>0, TailEntries
<1>4. ASSUME Prepared(con, s), b.token = con.token,
             e \in Offers(con.token) => b.endpoint # None
      PROVE  Prepared(b, rest)
  <2>1. /\ DOMAIN rest = 1..(Len(s) - 1) /\ DOMAIN s = 1..Len(s)
        /\ Len(s) \in Nat /\ e = s[1]
        /\ \A i \in 1..(Len(s) - 1) : rest[i] = s[i + 1]
    BY <1>0
  <2>2. ASSUME NEW i \in DOMAIN rest, rest[i] \in Answers
        PROVE  IF i = 1 THEN b.endpoint # None ELSE rest[i - 1] \in Offers(b.token)
    <3>1. i + 1 \in DOMAIN s /\ i + 1 # 1 /\ (i + 1) - 1 = i
          /\ s[i + 1] \in Answers
      BY <2>1, <2>2
    <3>2. s[i] \in Offers(con.token)
      BY <1>4, <3>1 DEF Prepared
    <3>3. i # 1 => rest[i - 1] = s[i]
      BY <2>1, <2>2
    <3>4. QED
      BY <1>4, <2>1, <3>2, <3>3
  <2>3. QED
    BY <2>2 DEF Prepared
<1>5. CASE HearsEndpoint(b, c)
  <2>1. /\ b.iface = d /\ b.token = con.token /\ b.current = con.current
        /\ b.state = "Registered" /\ b.endpoint = e.endpoint
        /\ con.token # NoToken
        /\ e \notin Answers /\ e \notin Confirmations
    BY <1>0, <1>5
    DEF HearsEndpoint, ConnectorState, Answers, Confirmations, Expected
  <2>2. e \in Offers(con.token) => b.endpoint # None
    BY <2>1 DEF Offers
  <2>3. Prepared(con, s) => Prepared(b, rest)
    BY <1>4, <2>1, <2>2
  <2>4. QED
    BY <1>0, <1>1, <1>2, <1>3, <2>1, <2>3
    DEF OnOrder, Nowhere, Somewhere, Idle, Asked, Answered, Leaves, Left
<1>6. CASE HearsOther(b, c)
  <2>1. b = con /\ e \notin Answers /\ e \notin Confirmations
    BY <1>6 DEF HearsOther, Answers, Confirmations
  <2>2. e \notin Offers(con.token)
    BY <1>6 DEF HearsOther, Offers
  <2>3. Prepared(con, s) => Prepared(b, rest)
    BY <1>4, <2>1, <2>2
  <2>4. QED
    BY <1>0, <1>1, <1>2, <1>3, <2>1, <2>3
    DEF OnOrder, Nowhere, Somewhere, Idle, Asked, Answered, Leaves, Left
<1>7. CASE HearsConfirmation(b, c)
  <2>1. /\ b.iface = d /\ b.token = NoToken /\ b.current = "None"
        /\ b.state = "Unregistered" /\ e \in Confirmations
        /\ con.current = "Unregister"
    BY <1>0, <1>7 DEF HearsConfirmation, ConnectorState, Confirmations
  <2>2. Left(con, s) /\ d # None
    BY <1>1, <2>1
    DEF OnOrder, Nowhere, Somewhere, Idle, Asked, Answered, Leaves
  <2>3. e \notin Answers /\ HasNone(rest, Answers)
        /\ HasNone(rest, Confirmations)
    BY <1>1, <1>3, <2>1, <2>2 DEF Left
  <2>4. Idle(b, rest)
    BY <2>1, <2>2, <2>3 DEF Left, Idle
  <2>5. NoToken <= issued
    BY <1>0 DEF NoToken
  <2>6. QED
    BY <1>0, <2>1, <2>2, <2>4, <2>5 DEF OnOrder, Somewhere
<1>8. CASE HearsAnswer(b, c)
  <2>1. /\ b.iface = d /\ b.token = con.token /\ b.current = "None"
        /\ b.state = "Registered" /\ e \in Answers
        /\ con.current = "Register"
    BY <1>0, <1>8 DEF HearsAnswer, ConnectorState, Answers
  <2>2. Answered(con, s) /\ d # None
    BY <1>1, <2>1
    DEF OnOrder, Nowhere, Somewhere, Idle, Asked, Leaves, Left
  <2>3. HasNone(rest, Answers) /\ HasNone(rest, Confirmations)
    BY <1>1, <1>2, <2>1, <2>2 DEF Answered
  <2>4. Idle(b, rest)
    BY <2>1, <2>2, <2>3 DEF Answered, Idle
  <2>5. QED
    BY <1>0, <2>1, <2>2, <2>4 DEF OnOrder, Somewhere
<1>9. CASE HearsDistributor(b, c)
  <2>1. /\ d = None /\ Nowhere(con, s)
        /\ \A x \in Distributors :
             work[x] = <<>> /\ \A t \in Tokens : ~Known(x, t)
    <3>1. d = None
      BY <1>9 DEF HearsDistributor
    <3>2. \A x \in Distributors : x # d
      BY <3>1, ConnectorAssumption
    <3>3. QED
      BY <3>1, <3>2 DEF OnOrder
  <2>2. HasNone(rest, Answers) /\ HasNone(rest, Confirmations)
    BY <1>1, <2>1 DEF Nowhere
  <2>3. CASE b = [con EXCEPT !.state = "NoDistributor"]
    <3>1. b.iface = None /\ b.token = con.token /\ b.current = con.current
      BY <1>0, <2>1, <2>3 DEF ConnectorState
    <3>2. QED
      BY <1>0, <2>1, <2>2, <3>1 DEF OnOrder, Nowhere
  <2>4. ASSUME NEW x \in services,
               b = [con EXCEPT !.iface = x, !.state = "Unregistered"]
        PROVE  OnOrder(b, rest)
    <3>1. /\ b.iface = x /\ b.token = NoToken /\ b.current = "None"
          /\ b.state = "Unregistered" /\ x \in Distributors /\ x # None
          /\ pending = None
      BY <1>0, <2>1, <2>4, ConnectorAssumption
      DEF ConnectorState, Nowhere, TypeOK
    <3>2. work[x] = <<>> /\ work[x] \in Seq(Jobs(issued))
      BY <2>1, <3>1, EmptySeq
    <3>3. HasNone(work[x], Asking) /\ HasNone(work[x], Leaving)
      BY <3>2, EmptyEntries
    <3>4. Idle(b, rest)
      BY <2>2, <3>1, <3>3 DEF Idle
    <3>5. NoToken <= issued
      BY <1>0 DEF NoToken
    <3>6. QED
      BY <1>0, <2>1, <3>1, <3>2, <3>4, <3>5 DEF OnOrder, Somewhere
  <2>5. QED
    BY <1>9, <2>3, <2>4, Zenon DEF HearsDistributor
<1>10. QED
  BY <1>5, <1>6, <1>7, <1>8, <1>9 DEF Hears

(* The answer that follows the endpoint, and what comes later.             *)
LEMMA PreparedAppend ==
  ASSUME NEW c, NEW s \in Seq(Event), NEW e \in Event, e \notin Answers,
         Prepared(c, s)
  PROVE  Prepared(c, Append(s, e))
<1>1. PICK n \in Nat : n = Len(s) /\ DOMAIN s = 1..n
  BY LenProperties
<1>2. /\ DOMAIN Append(s, e) = 1..(n + 1)
      /\ \A i \in 1..n : Append(s, e)[i] = s[i]
      /\ Append(s, e)[n + 1] = e
  BY <1>1
<1>3. \A i \in 1..(n + 1) : i = n + 1 \/ (i \in 1..n /\ (i # 1 => i - 1 \in 1..n))
  BY <1>1
<1>4. ASSUME NEW i \in DOMAIN Append(s, e), Append(s, e)[i] \in Answers
      PROVE  IF i = 1 THEN c.endpoint # None
             ELSE Append(s, e)[i - 1] \in Offers(c.token)
  BY <1>1, <1>2, <1>3, <1>4 DEF Prepared
<1>5. QED
  BY <1>4 DEF Prepared

LEMMA PreparedAnswer ==
  ASSUME NEW c, NEW s \in Seq(Event), HasNone(s, Answers),
         NEW o \in Offers(c.token), NEW a \in Answers
  PROVE  LET r == Append(Append(s, o), a) IN
         r \in Seq(Event) /\ Prepared(c, r) /\ HasOne(r, Answers, Answers)
<1> DEFINE r == Append(Append(s, o), a)
<1>0. o \in Event /\ o \notin Answers /\ a \in Event
      /\ Append(s, o) \in Seq(Event)
  BY DEF Offers, Answers
<1>1. PICK n \in Nat : n = Len(s) /\ DOMAIN s = 1..n
  BY LenProperties
<1>2. /\ DOMAIN r = 1..(n + 2) /\ r[n + 1] = o
      /\ \A i \in 1..n : r[i] = s[i]
  BY <1>0, <1>1
<1>3. \A i \in 1..(n + 2) : i \in 1..n \/ i = n + 1 \/ i = n + 2
  BY <1>1
<1>4. n + 2 # 1 /\ (n + 2) - 1 = n + 1
  BY <1>1
<1>5. Prepared(c, r)
  <2>1. ASSUME NEW i \in DOMAIN r, r[i] \in Answers
        PROVE  IF i = 1 THEN c.endpoint # None ELSE r[i - 1] \in Offers(c.token)
    <3>1. i = n + 2
      BY <1>0, <1>1, <1>2, <1>3, <2>1 DEF HasNone
    <3>2. QED
      BY <1>2, <1>4, <3>1
  <2>2. QED
    BY <2>1 DEF Prepared
<1>6. HasNone(Append(s, o), Answers)
  BY <1>0, AppendEntries
<1>7. HasOne(r, Answers, Answers)
  BY <1>0, <1>6, AppendEntries
<1>8. QED
  BY <1>0, <1>5, <1>7

(* A step that does not disturb what the order is recognized by.           *)
KeepsEntries(s, r, S) ==
  /\ HasNone(s, S) => HasNone(r, S)
  /\ \A U : HasOne(s, S, U) => HasOne(r, S, U)
LEMMA EntriesAppend ==
  ASSUME NEW T, NEW s \in Seq(T), NEW e \in T, NEW S, e \notin S
  PROVE  KeepsEntries(s, Append(s, e), S)
BY AppendEntries DEF KeepsEntries
LEMMA EntriesTail ==
  ASSUME NEW T, NEW s \in Seq(T), s # <<>>, NEW S, Head(s) \notin S
  PROVE  KeepsEntries(s, Tail(s), S)
BY TailEntries DEF KeepsEntries

KeepsPhase(d) ==
  /\ UNCHANGED <<con, issued, pending>>
  /\ d \in services' /\ work'[d] \in Seq(Jobs(issued))
  /\ KeepsEntries(work[d], work'[d], Asking)
  /\ KeepsEntries(work[d], work'[d], Leaving)
  /\ KeepsEntries(incoming, incoming', Answers)
  /\ KeepsEntries(incoming, incoming', Confirmations)
  /\ Prepared(con, incoming) => Prepared(con, incoming')
  /\ \A t \in Tokens : Known(d, t) => Known(d, t)'
  /\ \A t \in Tokens : Known(d, t)' => t <= issued
Elsewhere(d) ==
  \A x \in Distributors :
    x # d => work'[x] = work[x] /\ \A t \in Tokens : Known(x, t)' <=> Known(x, t)

LEMMA PhaseKept ==
  ASSUME OnOrder(con, incoming), con.iface # None, KeepsPhase(con.iface),
         Elsewhere(con.iface), incoming' \in Seq(Expected)
  PROVE  OnOrder(con, incoming)'
<1> DEFINE d == con.iface
<1>1. /\ \A x \in Distributors :
           x # d => work'[x] = <<>> /\ \A t \in Tokens : ~Known(x, t)'
      /\ Somewhere(con, incoming)
  BY DEF OnOrder, Elsewhere
<1>2. Prepared(con, incoming) => Prepared(con, incoming)'
  BY DEF KeepsPhase, Prepared, Offers
<1>3. Known(d, con.token) => Known(con.iface, con.token)'
  BY DEF KeepsPhase, Known
<1>4. /\ HasNone(work[d], Asking) => HasNone(work[con.iface], Asking)'
      /\ HasNone(work[d], Leaving) => HasNone(work[con.iface], Leaving)'
      /\ HasNone(incoming, Answers) => HasNone(incoming, Answers)'
      /\ HasNone(incoming, Confirmations) => HasNone(incoming, Confirmations)'
  BY DEF KeepsPhase, KeepsEntries, HasNone
<1>5. con' = con
  BY DEF KeepsPhase
<1>6. /\ HasOne(work[d], Asking, Of(con.token)) =>
           HasOne(work[con.iface], Asking, Of(con.token))'
      /\ HasOne(work[d], Leaving, Of(con.token)) =>
           HasOne(work[con.iface], Leaving, Of(con.token))'
      /\ HasOne(incoming, Answers, Answers) =>
           HasOne(incoming, Answers, Answers)'
      /\ HasOne(incoming, Confirmations, Mine(con.token)) =>
           HasOne(incoming, Confirmations, Mine(con.token))'
  <2>1. HasOne(work[d], Asking, Of(con.token)) =>
          HasOne(work'[d], Asking, Of(con.token))
    BY DEF KeepsPhase, KeepsEntries
  <2>2. HasOne(work[d], Leaving, Of(con.token)) =>
          HasOne(work'[d], Leaving, Of(con.token))
    BY DEF KeepsPhase, KeepsEntries
  <2>3. HasOne(incoming, Answers, Answers) =>
          HasOne(incoming', Answers, Answers)
    BY DEF KeepsPhase, KeepsEntries
  <2>4. HasOne(incoming, Confirmations, Mine(con.token)) =>
          HasOne(incoming', Confirmations, Mine(con.token))
    BY DEF KeepsPhase, KeepsEntries
  <2>5. HasOne(work'[d], Asking, Of(con.token)) =>
          HasOne(work[con.iface], Asking, Of(con.token))'
    BY <1>5 DEF HasOne
  <2>6. HasOne(work'[d], Leaving, Of(con.token)) =>
          HasOne(work[con.iface], Leaving, Of(con.token))'
    BY <1>5 DEF HasOne
  <2>7. HasOne(incoming', Answers, Answers) =>
          HasOne(incoming, Answers, Answers)'
    BY DEF HasOne
  <2>8. HasOne(incoming', Confirmations, Mine(con.token)) =>
          HasOne(incoming, Confirmations, Mine(con.token))'
    BY <1>5 DEF HasOne
  <2>9. QED
    BY <2>1, <2>2, <2>3, <2>4, <2>5, <2>6, <2>7, <2>8
<1>7. /\ Idle(con, incoming) => Idle(con, incoming)'
      /\ Asked(con, incoming) => Asked(con, incoming)'
      /\ Answered(con, incoming) => Answered(con, incoming)'
      /\ Leaves(con, incoming) => Leaves(con, incoming)'
      /\ Left(con, incoming) => Left(con, incoming)'
  BY <1>2, <1>3, <1>4, <1>6
  DEF Idle, Asked, Answered, Leaves, Left, KeepsPhase
<1>8. Somewhere(con, incoming)'
  BY <1>1, <1>7 DEF Somewhere, KeepsPhase
<1>9. con' = con /\ issued' = issued /\ con.token <= issued
  BY DEF OnOrder, KeepsPhase
<1>10. QED
  BY <1>1, <1>8, <1>9 DEF OnOrder

(* The connector's distributor is the only one that works.                 *)
WorkedOff(d) ==
  /\ d = con.iface /\ d # None /\ d \in Distributors /\ d \in services
  /\ work[d] # <<>> /\ work[d] \in Seq(Work) /\ Head(work[d]) \in Jobs(issued)
  /\ work'[d] = Tail(work[d]) /\ Tail(work[d]) \in Seq(Jobs(issued))
  /\ UNCHANGED <<running, con, file, issued, services, wish, budget>>
  /\ Somewhere(con, incoming) /\ Elsewhere(d)
HasRegistered(d, w, e) ==
  /\ w.op = "Register"
  /\ clients' = [clients EXCEPT ![d][w.token] =
                   [endpoint |-> e, stored |-> e, key |-> w.key]]
  /\ pending' = IF w.waits THEN None ELSE pending
  /\ incoming' = IF w.waits
                 THEN Append(Append(incoming, NewEndpoint(w.token, e)),
                             Plain("Success"))
                 ELSE Append(incoming, NewEndpoint(w.token, e))
HasLeft(d, w) ==
  /\ w.op = "Unregister"
  /\ clients' = [clients EXCEPT ![d][w.token] = None] /\ pending' = pending
  /\ \E t \in {NoToken, w.token} : incoming' = Append(incoming, Unregistered(t))
SameClients ==
  \A x \in Distributors, t \in Tokens :
    /\ Known(x, t)' <=> Known(x, t)
    /\ Known(x, t) => /\ clients'[x][t].endpoint = clients[x][t].endpoint
                      /\ clients'[x][t].key = clients[x][t].key
HasLeftSilently(d, w) ==
  /\ w.op = "SilentUnregister" /\ SameClients /\ UNCHANGED pending
  /\ incoming' = Append(incoming, NewEndpoint(w.token, None))

(* Clearing what is stored leaves the rest of a client alone.              *)
LEMMA StoredCleared ==
  ASSUME TypeOK, NEW d \in Distributors, NEW u, Known(d, u),
         clients' = [clients EXCEPT ![d][u].stored = None]
  PROVE  SameClients
<1>1. clients[d][u] \in Registration
  BY DEF Known, TypeOK
<1>2. clients'[d][u] = [clients[d][u] EXCEPT !.stored = None]
      /\ \A x \in Distributors, t \in Tokens :
           x # d \/ t # u => clients'[x][t] = clients[x][t]
  BY DEF TypeOK, Known
<1>3. /\ clients'[d][u] \in Registration
      /\ clients'[d][u].endpoint = clients[d][u].endpoint
      /\ clients'[d][u].key = clients[d][u].key
  BY <1>1, <1>2 DEF Registration
<1>4. clients'[d][u] # None
  BY <1>3, NoneAssumption
<1>5. QED
  BY <1>2, <1>3, <1>4 DEF SameClients, Known

(* As long as none leaves, one that appears has no clients to load.        *)
LEMMA HereKeepsClients ==
  ASSUME TypeOK, OnOrder(con, incoming), NEW d \in Distributors,
         DistributorHere(d)
  PROVE  UNCHANGED clients
<1>1. d # con.iface
  BY ConnectorAssumption DEF DistributorHere, OnOrder, Somewhere
<1>2. \A t \in Tokens : clients[d][t] = None
  BY <1>1 DEF OnOrder, Known
<1>3. clients' = [clients EXCEPT ![d] =
                   [t \in Tokens |-> FromSettings(clients[d][t])]]
  BY DEF DistributorHere
<1>4. [t \in Tokens |-> FromSettings(clients[d][t])] = clients[d]
  BY <1>2 DEF FromSettings, TypeOK
<1>5. QED
  BY <1>3, <1>4 DEF TypeOK

LEMMA WorksHere ==
  ASSUME TypeOK, OnOrder(con, incoming), NEW d \in Distributors, Works(d)
  PROVE  /\ WorkedOff(d)
         /\ LET w == Head(work[d]) IN
            \/ \E e \in Endpoints : HasRegistered(d, w, e)
            \/ HasLeft(d, w) \/ HasLeftSilently(d, w)
<1> DEFINE w == Head(work[d])
<1>1. /\ d \in services /\ work[d] # <<>>
      /\ work' = [work EXCEPT ![d] = Tail(@)]
      /\ UNCHANGED <<running, con, file, issued, services, wish, budget>>
  BY DEF Works, Registers, SilentlyUnregisters, Unregisters, Working
<1>2. d = con.iface /\ d # None
  BY <1>1, ConnectorAssumption DEF OnOrder
<1>3. /\ Somewhere(con, incoming) /\ work[d] \in Seq(Jobs(issued))
      /\ work[d] \in Seq(Work) /\ incoming \in Seq(Event)
  BY <1>2 DEF OnOrder, Somewhere, TypeOK
<1>4. w \in Jobs(issued) /\ Tail(work[d]) \in Seq(Jobs(issued))
  BY <1>1, <1>3
<1>5. work'[d] = Tail(work[d]) /\ \A x \in Distributors : x # d => work'[x] = work[x]
  BY <1>1 DEF TypeOK
<1>6. CASE Registers(d)
  <2>1. PICK e \in Endpoints :
          /\ clients' = [clients EXCEPT ![d][w.token] =
                           [endpoint |-> e, stored |-> e, key |-> w.key]]
          /\ incoming' = incoming \o <<NewEndpoint(w.token, e)>>
                           \o Replied(w, "Success")
    BY <1>6 DEF Registers
  <2>2. /\ NewEndpoint(w.token, e) \in Event /\ Plain("Success") \in Event
    BY <1>4, EventTypes DEF Jobs, Work, Tokens
  <2>3. w.waits => incoming' = Append(Append(incoming, NewEndpoint(w.token, e)),
                                      Plain("Success"))
    <3>1. w.waits => Replied(w, "Success") = <<Plain("Success")>>
      BY DEF Replied
    <3> DEFINE o == NewEndpoint(w.token, e)
               a == Plain("Success")
    <3> HIDE DEF o, a
    <3>2. incoming \o <<o>> = Append(incoming, o)
          /\ Append(incoming, o) \in Seq(Event)
      BY <1>3, <2>2 DEF o
    <3>3. Append(incoming, o) \o <<a>> = Append(Append(incoming, o), a)
      BY <2>2, <3>2 DEF a
    <3>4. QED
      BY <2>1, <3>1, <3>2, <3>3 DEF o, a
  <2>4. ~w.waits => incoming' = Append(incoming, NewEndpoint(w.token, e))
    BY <1>3, <2>1, <2>2 DEF Replied
  <2>5. w.op = "Register" /\ pending' = IF w.waits THEN None ELSE pending
    BY <1>6 DEF Registers, Working
  <2>6. HasRegistered(d, w, e)
    BY <2>1, <2>3, <2>4, <2>5 DEF HasRegistered
  <2>7. \A x \in Distributors, t \in Tokens :
          x # d => Known(x, t)' <=> Known(x, t)
    BY <2>1 DEF Known, TypeOK
  <2>8. QED
    BY <1>1, <1>2, <1>3, <1>4, <1>5, <2>6, <2>7 DEF WorkedOff, Elsewhere
<1>7. ASSUME NEW op \in {"Unregister", "ForceUnregister"}, Unregisters(d, op)
      PROVE  WorkedOff(d) /\ HasLeft(d, w)
  <2>1. w.op = "Unregister" /\ op = "Unregister"
    BY <1>4, <1>7 DEF Unregisters, Working, Jobs
  <2>2. /\ clients' = [clients EXCEPT ![d][w.token] = None]
        /\ pending' = pending
        /\ incoming' = Append(incoming, Unregistered(
             IF op = "Unregister" /\ VersionOf[d] = "v1" THEN NoToken
                                                         ELSE w.token))
    BY <1>7 DEF Unregisters
  <2>3. HasLeft(d, w)
    BY <2>1, <2>2 DEF HasLeft
  <2>4. \A x \in Distributors, t \in Tokens :
          x # d => Known(x, t)' <=> Known(x, t)
    BY <2>2 DEF Known, TypeOK
  <2>5. QED
    BY <1>1, <1>2, <1>3, <1>4, <1>5, <2>3, <2>4 DEF WorkedOff, Elsewhere
<1>8. CASE SilentlyUnregisters(d)
  <2>0. SameClients
    <3>1. CASE Known(d, w.token)
      BY <1>8, <3>1, StoredCleared DEF SilentlyUnregisters
    <3>2. CASE ~Known(d, w.token)
      BY <1>8, <3>2 DEF SilentlyUnregisters, SameClients, Known
    <3>3. QED
      BY <3>1, <3>2
  <2>1. HasLeftSilently(d, w)
    BY <1>8, <2>0 DEF SilentlyUnregisters, Working, HasLeftSilently
  <2>2. \A x \in Distributors, t \in Tokens : Known(x, t)' <=> Known(x, t)
    BY <2>0 DEF SameClients
  <2>3. QED
    BY <1>1, <1>2, <1>3, <1>4, <1>5, <2>1, <2>2 DEF WorkedOff, Elsewhere
<1>9. QED
  BY <1>6, <1>7, <1>8 DEF Works

LEMMA EventFields ==
  /\ \A t \in Tokens, e \in Endpoints \cup {None} :
       /\ NewEndpoint(t, e) \in Event /\ NewEndpoint(t, e).token = t
       /\ NewEndpoint(t, e).event = "NewEndpoint"
       /\ NewEndpoint(t, e).endpoint = e /\ t # NoToken
  /\ Plain("Success") \in Event /\ Plain("Success").event = "Success"
  /\ \A u \in Nat : /\ Unregistered(u) \in Event /\ Unregistered(u).token = u
                     /\ Unregistered(u).event = "Unregistered"
  /\ \A d \in Distributors : /\ Service("Here", d) \in Event
                              /\ Service("Here", d).event = "Here"
<1>1. \A t \in Tokens : t \in Nat /\ t # NoToken
  BY ConnectorAssumption DEF Tokens, NoToken
<1>2. \A t \in Nat, e \in Endpoints \cup {None} :
        /\ NewEndpoint(t, e) \in Event /\ NewEndpoint(t, e).token = t
        /\ NewEndpoint(t, e).event = "NewEndpoint"
        /\ NewEndpoint(t, e).endpoint = e
  BY EventTypes DEF NewEndpoint, Plain
<1>3. \A u \in Nat : /\ Unregistered(u) \in Event /\ Unregistered(u).token = u
                     /\ Unregistered(u).event = "Unregistered"
  BY DEF Unregistered, Plain, Event, NoToken
<1>4. QED
  BY <1>1, <1>2, <1>3, EventTypes

LEMMA ExpectedEvents ==
  /\ \A t \in Tokens, e \in Endpoints \cup {None} :
       /\ NewEndpoint(t, e) \in Expected /\ NewEndpoint(t, e) \notin Answers
       /\ NewEndpoint(t, e) \notin Confirmations
       /\ e # None => NewEndpoint(t, e) \in Offers(t)
  /\ Plain("Success") \in Expected /\ Plain("Success") \in Answers
  /\ \A t \in Nat : \A u \in {NoToken, t} :
       /\ Unregistered(u) \in Expected /\ Unregistered(u) \notin Answers
       /\ Unregistered(u) \in Confirmations /\ Unregistered(u) \in Mine(t)
  /\ \A d \in Distributors :
       /\ Service("Here", d) \in Expected /\ Service("Here", d) \notin Answers
       /\ Service("Here", d) \notin Confirmations
<1>1. \A t \in Nat : \A u \in {NoToken, t} : u \in Nat
  BY DEF NoToken
<1>2. QED
  BY <1>1, EventFields DEF Expected, Answers, Confirmations, Offers, Mine

LEMMA WorksOnOrder ==
  ASSUME TypeOK, OnOrder(con, incoming), NEW d \in Distributors, Works(d)
  PROVE  OnOrder(con, incoming)'
<1> DEFINE w == Head(work[d])
<1>0. /\ WorkedOff(d) /\ d = con.iface /\ w \in Jobs(issued) /\ w \in Work
      /\ w.token \in Tokens /\ issued \in Nat
      /\ incoming \in Seq(Event) /\ incoming \in Seq(Expected)
  BY WorksHere, ConSound DEF WorkedOff, Jobs, Work, OnOrder, TypeOK
<1>1. \A t \in Tokens : Known(d, t) => t <= issued
  BY <1>0 DEF WorkedOff, Somewhere
<1>2. ASSUME w \notin Asking, w \notin Leaving,
             NEW e \in Expected, e \notin Answers, e \notin Confirmations,
             incoming' = Append(incoming, e), pending' = pending,
             \A t \in Tokens : Known(d, t) => Known(d, t)',
             \A t \in Tokens : Known(d, t)' => Known(d, t) \/ t = w.token
      PROVE  OnOrder(con, incoming)'
  <2>1. e \in Event /\ incoming' \in Seq(Expected)
    BY <1>0, <1>2 DEF Expected
  <2>2. Prepared(con, incoming) => Prepared(con, incoming')
    BY <1>0, <1>2, <2>1, PreparedAppend
  <2>3. /\ KeepsEntries(incoming, incoming', Answers)
        /\ KeepsEntries(incoming, incoming', Confirmations)
    BY <1>0, <1>2, <2>1, EntriesAppend
  <2>4. /\ KeepsEntries(work[d], work'[d], Asking)
        /\ KeepsEntries(work[d], work'[d], Leaving)
    BY <1>0, <1>2, EntriesTail DEF WorkedOff
  <2>5. \A t \in Tokens : Known(d, t)' => t <= issued
    BY <1>0, <1>1, <1>2 DEF Jobs
  <2>6. KeepsPhase(d)
    BY <1>0, <1>2, <2>2, <2>3, <2>4, <2>5 DEF KeepsPhase, WorkedOff
  <2>7. QED
    BY <1>0, <2>1, <2>6, PhaseKept DEF WorkedOff
<1>3. ASSUME Somewhere(con, incoming)', incoming' \in Seq(Expected)
      PROVE  OnOrder(con, incoming)'
  <2>1. con' = con /\ issued' = issued /\ con.iface # None /\ Elsewhere(con.iface)
    BY <1>0 DEF WorkedOff
  <2>2. \A x \in Distributors :
          x # con.iface => work'[x] = <<>> /\ \A t \in Tokens : ~Known(x, t)'
    BY <2>1 DEF OnOrder, Elsewhere
  <2>3. QED
    BY <1>3, <2>1, <2>2 DEF OnOrder
<1>4. ASSUME NEW e \in Endpoints, HasRegistered(d, w, e)
      PROVE  OnOrder(con, incoming)'
  <2> DEFINE o == NewEndpoint(w.token, e)
  <2>0. /\ o \in Expected /\ o \notin Answers /\ o \notin Confirmations
        /\ o \in Offers(w.token) /\ o \in Event
    BY <1>0, ExpectedEvents, ConnectorAssumption DEF Expected
  <2> HIDE DEF o
  <2>1. \A t \in Tokens : Known(d, t)' <=> Known(d, t) \/ t = w.token
    <3>1. [endpoint |-> e, stored |-> e, key |-> w.key] # None
      BY <1>0, NoneAssumption DEF Registration, Work
    <3>2. QED
      BY <1>0, <1>4, <3>1 DEF HasRegistered, Known, TypeOK
  <2>2. CASE ~w.waits
    <3>1. w \notin Asking /\ w \notin Leaving
      BY <1>4, <2>2 DEF Asking, Leaving, HasRegistered
    <3>2. incoming' = Append(incoming, o) /\ pending' = pending
      BY <1>4, <2>2 DEF HasRegistered, o
    <3>3. QED
      BY <1>2, <2>0, <2>1, <3>1, <3>2
  <2>3. CASE w.waits
    <3> DEFINE a == Plain("Success")
    <3>1. w \in Asking /\ w \notin Leaving
      BY <1>0, <1>4, <2>3 DEF Asking, Leaving, HasRegistered
    <3>2. Asked(con, incoming)
      BY <1>0, <3>1, TailEntries
      DEF WorkedOff, Somewhere, Idle, Answered, Leaves, Left
    <3>3. /\ w \in Of(con.token) /\ HasNone(work'[d], Asking)
          /\ HasNone(work'[d], Leaving)
      <4>1. /\ HasOne(work[d], Asking, Of(con.token))
            /\ HasNone(work[d], Leaving)
            /\ work[d] \in Seq(Work) /\ work[d] # <<>>
            /\ work'[d] = Tail(work[d])
        BY <1>0, <3>2 DEF WorkedOff, Asked
      <4>2. w \in Of(con.token) /\ HasNone(Tail(work[d]), Asking)
        BY <3>1, <4>1, TailEntries
      <4>3. HasNone(Tail(work[d]), Leaving)
        BY <4>1, TailEntries
      <4>4. QED
        BY <4>1, <4>2, <4>3
    <3>4. w.token = con.token
      BY <3>3 DEF Of
    <3>5. /\ incoming' = Append(Append(incoming, o), a) /\ pending' = None
      BY <1>4, <2>3 DEF HasRegistered, o
    <3>6. a \in Expected /\ a \in Answers /\ a \notin Confirmations
          /\ a \in Event
      BY ExpectedEvents DEF Expected, Answers, Confirmations
    <3> HIDE DEF a
    <3>7. Prepared(con, incoming') /\ HasOne(incoming', Answers, Answers)
      BY <1>0, <2>0, <3>2, <3>4, <3>5, <3>6, PreparedAnswer DEF Asked
    <3>8. HasNone(incoming', Confirmations) /\ incoming' \in Seq(Expected)
      <4>1. /\ Append(incoming, o) \in Seq(Event)
            /\ Append(incoming, o) \in Seq(Expected)
        BY <1>0, <2>0
      <4>2. HasNone(incoming, Confirmations)
        BY <3>2 DEF Asked
      <4>3. HasNone(Append(incoming, o), Confirmations)
        BY <1>0, <2>0, <4>2, AppendEntries
      <4>4. HasNone(Append(Append(incoming, o), a), Confirmations)
        BY <3>6, <4>1, <4>3, AppendEntries
      <4>5. Append(Append(incoming, o), a) \in Seq(Expected)
        BY <3>6, <4>1
      <4>6. QED
        BY <3>5, <4>4, <4>5
    <3>9. Answered(con, incoming)'
      <4>1. con' = con
        BY <1>0 DEF WorkedOff
      <4>2. con.token \in Tokens /\ clients'[d][con.token] # None
        BY <1>0, <2>1, <3>4 DEF Known
      <4>3. Known(con.iface, con.token)'
        BY <1>0, <4>1, <4>2 DEF Known
      <4>4. /\ HasNone(work[con.iface], Asking)'
            /\ HasNone(work[con.iface], Leaving)'
            /\ HasNone(incoming, Confirmations)'
        BY <1>0, <3>3, <3>8, <4>1 DEF HasNone
      <4>5. Prepared(con, incoming)' /\ HasOne(incoming, Answers, Answers)'
        BY <3>7, <4>1 DEF Prepared, HasOne, Offers
      <4>6. QED
        BY <3>2, <3>5, <4>1, <4>3, <4>4, <4>5 DEF Answered, Asked
    <3>10. \A t \in Tokens : Known(d, t)' => t <= issued
      BY <1>0, <1>1, <2>1 DEF Jobs
    <3>11. Somewhere(con, incoming)'
      BY <1>0, <3>9, <3>10 DEF Somewhere, WorkedOff
    <3>12. QED
      BY <1>3, <3>8, <3>11
  <2>4. QED
    BY <2>2, <2>3
<1>5. ASSUME HasLeft(d, w) PROVE OnOrder(con, incoming)'
  <2>1. w \in Leaving /\ w \notin Asking
    BY <1>0, <1>5 DEF Asking, Leaving, HasLeft, Jobs
  <2>2. Leaves(con, incoming)
    BY <1>0, <2>1, TailEntries
    DEF WorkedOff, Somewhere, Idle, Asked, Answered, Left
  <2>3. /\ w \in Of(con.token) /\ HasNone(work'[d], Leaving)
        /\ HasNone(work'[d], Asking)
    <3>1. /\ HasOne(work[d], Leaving, Of(con.token))
          /\ HasNone(work[d], Asking)
          /\ work[d] \in Seq(Work) /\ work[d] # <<>>
          /\ work'[d] = Tail(work[d])
      BY <1>0, <2>2 DEF WorkedOff, Leaves
    <3>2. w \in Of(con.token) /\ HasNone(Tail(work[d]), Leaving)
      BY <2>1, <3>1, TailEntries
    <3>3. HasNone(Tail(work[d]), Asking)
      BY <3>1, TailEntries
    <3>4. QED
      BY <3>1, <3>2, <3>3
  <2>4. PICK t \in {NoToken, w.token} :
          incoming' = Append(incoming, Unregistered(t))
    BY <1>5 DEF HasLeft
  <2>5. /\ Unregistered(t) \in Expected /\ Unregistered(t) \notin Answers
        /\ Unregistered(t) \in Confirmations
        /\ Unregistered(t) \in Mine(con.token) /\ Unregistered(t) \in Event
    <3>1. w.token = con.token /\ con.token \in Nat
      BY <1>0, <2>3 DEF Of, TypeOK, ConnectorState
    <3>2. QED
      BY <2>4, <3>1, ExpectedEvents DEF Expected
  <2>6. /\ HasNone(incoming', Answers) /\ incoming' \in Seq(Expected)
        /\ HasOne(incoming', Confirmations, Mine(con.token))
    BY <1>0, <2>2, <2>4, <2>5, AppendEntries DEF Leaves
  <2>7. con' = con /\ pending' = pending
    BY <1>0, <1>5 DEF WorkedOff, HasLeft
  <2>8. Left(con, incoming)'
    <3>1. /\ HasNone(work[con.iface], Asking)'
          /\ HasNone(work[con.iface], Leaving)'
          /\ HasNone(incoming, Answers)'
      BY <1>0, <2>3, <2>6, <2>7 DEF HasNone
    <3>2. HasOne(incoming, Confirmations, Mine(con.token))'
      BY <2>6, <2>7 DEF HasOne
    <3>3. QED
      BY <2>2, <2>7, <3>1, <3>2 DEF Left, Leaves
  <2>9. \A t1 \in Tokens : Known(d, t1)' => t1 <= issued
    BY <1>0, <1>1, <1>5 DEF HasLeft, Known, TypeOK
  <2>10. Somewhere(con, incoming)'
    BY <1>0, <2>8, <2>9 DEF Somewhere, WorkedOff
  <2>11. QED
    BY <1>3, <2>6, <2>10
<1>6. ASSUME HasLeftSilently(d, w) PROVE OnOrder(con, incoming)'
  <2>1. w \notin Asking /\ w \notin Leaving
    BY <1>0, <1>6 DEF Asking, Leaving, HasLeftSilently, Jobs
  <2>2. /\ incoming' = Append(incoming, NewEndpoint(w.token, None))
        /\ pending' = pending /\ \A t \in Tokens : Known(d, t)' <=> Known(d, t)
    BY <1>6 DEF HasLeftSilently, SameClients
  <2>3. QED
    BY <1>0, <1>2, <2>1, <2>2, ExpectedEvents
<1>7. QED
  BY <1>4, <1>5, <1>6, WorksHere

LEMMA MoveOnOrder ==
  ASSUME TypeOK, OnOrder(con, incoming), NEW d \in Distributors,
         NEW t \in Tokens, Move(d, t)
  PROVE  OnOrder(con, incoming)'
<1> DEFINE u == Todo(d, t, "SilentUnregister")
           v == Todo(d, t, "Register")
<1>0. d \in services /\ Known(d, t) /\ issued \in Nat
  BY ConSound DEF Move
<1>1. d = con.iface /\ d # None
  BY <1>0, ConnectorAssumption DEF OnOrder
<1>2. /\ Somewhere(con, incoming) /\ work[d] \in Seq(Jobs(issued))
      /\ work[d] \in Seq(Work) /\ t <= issued
  BY <1>0, <1>1 DEF OnOrder, Somewhere, TypeOK
<1>3. \A x \in {u, v} : /\ x \in Jobs(issued) /\ x \in Work
                        /\ x \notin Asking /\ x \notin Leaving
  <2>1. clients[d][t].key \in VapidKeys \cup {None}
    BY <1>0, KnownEndpoint DEF Tokens
  <2>2. u \in Work /\ v \in Work /\ u.op = "SilentUnregister"
        /\ v.op = "Register" /\ u.token = t /\ v.token = t
        /\ ~u.waits /\ ~v.waits
    BY <2>1 DEF Todo, Work
  <2> HIDE DEF u, v
  <2>3. QED
    BY <1>2, <2>2 DEF Jobs, Asking, Leaving
<1>4. work' = [work EXCEPT ![d] = @ \o <<u, v>>]
  BY DEF Move
<1> HIDE DEF u, v
<1>5. work[d] \o <<u, v>> = Append(Append(work[d], u), v)
  BY <1>2, <1>3
<1>6. /\ work'[d] = Append(Append(work[d], u), v)
      /\ \A x \in Distributors : x # d => work'[x] = work[x]
  BY <1>4, <1>5 DEF TypeOK
<1>7. /\ Append(work[d], u) \in Seq(Work)
      /\ work'[d] \in Seq(Jobs(issued))
  <2>1. Append(work[d], u) \in Seq(Work)
        /\ Append(work[d], u) \in Seq(Jobs(issued))
    BY <1>2, <1>3
  <2>2. Append(Append(work[d], u), v) \in Seq(Jobs(issued))
    BY <1>3, <2>1
  <2>3. QED
    BY <1>6, <2>1, <2>2
<1>8. ASSUME NEW S, u \notin S, v \notin S
      PROVE  KeepsEntries(work[d], work'[d], S)
  <2>1. /\ KeepsEntries(work[d], Append(work[d], u), S)
        /\ KeepsEntries(Append(work[d], u), Append(Append(work[d], u), v), S)
    BY <1>2, <1>3, <1>7, <1>8, EntriesAppend
  <2>2. QED
    BY <1>6, <2>1 DEF KeepsEntries
<1>9. /\ UNCHANGED <<con, issued, pending, incoming, services>>
      /\ \A x, y : Known(x, y)' <=> Known(x, y)
  BY DEF Move, Known
<1>10. /\ KeepsEntries(incoming, incoming', Answers)
       /\ KeepsEntries(incoming, incoming', Confirmations)
       /\ KeepsEntries(work[d], work'[d], Asking)
       /\ KeepsEntries(work[d], work'[d], Leaving)
  BY <1>3, <1>8, <1>9 DEF KeepsEntries
<1>11. KeepsPhase(d)
  <2>1. \A y \in Tokens : Known(d, y) => y <= issued
    BY <1>1, <1>2 DEF Somewhere
  <2>2. Prepared(con, incoming) => Prepared(con, incoming')
    BY <1>9
  <2>3. QED
    BY <1>0, <1>7, <1>9, <1>10, <2>1, <2>2 DEF KeepsPhase
<1>12. Elsewhere(d)
  BY <1>6, <1>9 DEF Elsewhere
<1>13. incoming' \in Seq(Expected)
  BY <1>9 DEF OnOrder
<1>14. QED
  BY <1>1, <1>11, <1>12, <1>13, PhaseKept

LEMMA HereOnOrder ==
  ASSUME TypeOK, OnOrder(con, incoming), NEW d \in Distributors,
         DistributorHere(d)
  PROVE  OnOrder(con, incoming)'
<1> DEFINE e == Service("Here", d)
           x == con.iface
<1>0. /\ services' = services \cup {d}
      /\ incoming' = incoming \o Signal("Here", d)
      /\ UNCHANGED <<con, issued, pending, work, clients>>
      /\ incoming \in Seq(Event) /\ incoming \in Seq(Expected)
  BY HereKeepsClients DEF DistributorHere, TypeOK, OnOrder
<1>1. e \in Expected /\ e \in Event /\ e \notin Answers /\ e \notin Confirmations
  BY ExpectedEvents DEF Expected
<1>2. incoming' = incoming \/ incoming' = Append(incoming, e)
  BY <1>0, <1>1 DEF Signal
<1> HIDE DEF e
<1>3. incoming' \in Seq(Expected)
  <2>1. Append(incoming, e) \in Seq(Expected)
    BY <1>0, <1>1
  <2>2. QED
    BY <1>0, <1>2, <2>1
<1>4. /\ KeepsEntries(incoming, incoming', Answers)
      /\ KeepsEntries(incoming, incoming', Confirmations)
  BY <1>0, <1>1, <1>2, EntriesAppend DEF KeepsEntries
<1>5. Prepared(con, incoming) => Prepared(con, incoming')
  BY <1>0, <1>1, <1>2, PreparedAppend
<1>6. \A y, t : Known(y, t)' <=> Known(y, t)
  BY <1>0 DEF Known
<1>7. CASE x # None
  <2>1. KeepsPhase(x)
    BY <1>0, <1>4, <1>5, <1>6, <1>7
    DEF KeepsPhase, KeepsEntries, OnOrder, Somewhere
  <2>2. Elsewhere(x)
    BY <1>0, <1>6 DEF Elsewhere
  <2>3. QED
    BY <1>3, <1>7, <2>1, <2>2, PhaseKept
<1>8. CASE x = None
  <2>1. HasNone(incoming', Answers) /\ HasNone(incoming', Confirmations)
    BY <1>4, <1>8 DEF OnOrder, Nowhere, KeepsEntries
  <2>2. Nowhere(con, incoming)'
    BY <1>0, <1>8, <2>1 DEF OnOrder, Nowhere, HasNone
  <2>3. QED
    BY <1>0, <1>3, <1>6, <1>8, <2>2 DEF OnOrder
<1>9. QED
  BY <1>7, <1>8

(* What the application asks for makes c of the connector, which has       *)
(* become b.                                                               *)
Tells(b, c) ==
  \/ b = con /\ c = AddCommand(con, "Register") /\ wish' = "registered"
  \/ /\ b = con /\ c = AddCommand(con, "Unregister") /\ wish' = "unregistered"
     /\ Spend("unregister")
  \/ /\ wish' = wish /\ Spend("key")
     /\ \E k \in VapidKeys :
          /\ k # con.key /\ b = [con EXCEPT !.key = k]
          /\ c = IF b.token = NoToken THEN ProcessNextCommand(b)
                                      ELSE Reregister(b)
  \/ /\ wish' = wish /\ Spend("required")
     /\ b = [con EXCEPT !.required = ~@] /\ c = ProcessNextCommand(b)
  \/ wish' = wish /\ b = [con EXCEPT !.hasKeys = TRUE] /\ c = b
  \/ wish' = wish /\ b = con /\ c = b

LEMMA Told ==
  ASSUME TypeOK, Application, ~Quit, con.token <= issued
  PROVE  /\ UNCHANGED <<running, services, clients>>
         /\ \E b, c \in ConnectorState :
              /\ b.call = "None" /\ SameOrder(con, b)
              /\ Tells(b, c) /\ Outcome(b, c) /\ Handled(c, incoming)
<1> DEFINE Goal == \E b, c \in ConnectorState :
                     /\ b.call = "None" /\ SameOrder(con, b)
                     /\ Tells(b, c) /\ Outcome(b, c) /\ Handled(c, incoming)
<1>0. /\ con \in ConnectorState /\ con.call = "None" /\ issued \in Nat
      /\ Sound(con) /\ con.token \in 0..MaxToken
  BY ConSound DEF TypeOK
<1>1. SameOrder(con, con)
  BY DEF SameOrder
<1>2. ASSUME NEW cmd \in {"Register", "Unregister"}
      PROVE  /\ AddCommand(con, cmd) \in ConnectorState
             /\ Outcome(con, AddCommand(con, cmd))
  BY <1>0, OutcomeSame, OutcomeAdd, AddKeepsType DEF Commands
<1>3. ASSUME NEW b \in ConnectorState, b.call = "None"
      PROVE  /\ Sound(b) /\ Outcome(b, b)
             /\ ProcessNextCommand(b) \in ConnectorState
             /\ Outcome(b, ProcessNextCommand(b))
             /\ Reregister(b) \in ConnectorState
             /\ Outcome(b, Reregister(b))
  <2>1. Sound(b)
    BY <1>3 DEF Sound
  <2>2. QED
    BY <1>0, <1>3, <2>1, ProcessFollows, ReregisterFollows, OutcomeSame,
       OutcomeProcess, OutcomeReregister DEF Follows, Sound
<1>4. CASE RegisterClient
  BY <1>0, <1>1, <1>2, <1>4 DEF RegisterClient, Tells
<1>5. CASE UnregisterClient
  BY <1>0, <1>1, <1>2, <1>5 DEF UnregisterClient, Tells
<1>6. ASSUME NEW k \in VapidKeys, SetVapidPublicKey(k)
      PROVE  UNCHANGED <<running, services, clients>> /\ Goal
  <2> DEFINE b == [con EXCEPT !.key = k]
             c == IF b.token = NoToken THEN ProcessNextCommand(b)
                                       ELSE Reregister(b)
  <2>1. b \in ConnectorState /\ b.call = "None" /\ SameOrder(con, b)
    BY <1>0 DEF ConnectorState, SameOrder
  <2>2. /\ Handled(c, incoming) /\ wish' = wish /\ k # con.key /\ Spend("key")
        /\ UNCHANGED <<running, services, clients>>
    BY <1>6 DEF SetVapidPublicKey
  <2>3. c \in ConnectorState /\ Outcome(b, c)
    BY <1>3, <2>1
  <2>4. Tells(b, c)
    BY <2>2 DEF Tells
  <2> HIDE DEF b, c
  <2>5. QED
    BY <2>1, <2>2, <2>3, <2>4
<1>7. CASE SetVapidPublicKeyRequired
  <2> DEFINE b == [con EXCEPT !.required = ~@]
             c == ProcessNextCommand(b)
  <2>1. b \in ConnectorState /\ b.call = "None" /\ SameOrder(con, b)
    BY <1>0 DEF ConnectorState, SameOrder
  <2>2. /\ Handled(c, incoming) /\ wish' = wish /\ Spend("required")
        /\ UNCHANGED <<running, services, clients>>
    BY <1>7 DEF SetVapidPublicKeyRequired
  <2>3. c \in ConnectorState /\ Outcome(b, c)
    BY <1>3, <2>1
  <2>4. Tells(b, c)
    BY <2>2 DEF Tells
  <2> HIDE DEF b, c
  <2>5. QED
    BY <2>1, <2>2, <2>3, <2>4
<1>8. CASE EnsureKeys
  <2> DEFINE b == [con EXCEPT !.hasKeys = TRUE]
  <2>1. b \in ConnectorState /\ b.call = "None" /\ SameOrder(con, b)
        /\ [b EXCEPT !.call = "None"] = b /\ b.token = con.token
    BY <1>0 DEF ConnectorState, SameOrder
  <2>2. /\ con' = b /\ wish' = wish
        /\ UNCHANGED <<running, services, clients, issued, incoming, pending,
                       work>>
    BY <1>8 DEF EnsureKeys, distributors
  <2>3. Handled(b, incoming)
    BY <1>0, <2>1, <2>2, ConnectorAssumption DEF Handled
  <2>4. Tells(b, b)
    BY <2>2 DEF Tells
  <2> HIDE DEF b
  <2>5. QED
    BY <1>3, <2>1, <2>2, <2>3, <2>4
<1>9. CASE RemoveState
  <2>1. [con EXCEPT !.call = "None"] = con
    BY <1>0 DEF ConnectorState
  <2>2. /\ wish' = wish
        /\ UNCHANGED <<running, con, services, clients, issued, incoming,
                       pending, work>>
    BY <1>9 DEF RemoveState, distributors
  <2>3. Handled(con, incoming)
    BY <1>0, <2>1, <2>2, ConnectorAssumption DEF Handled
  <2>4. QED
    BY <1>0, <1>1, <1>3, <2>2, <2>3 DEF Tells
<1>10. QED
  BY <1>4, <1>5, <1>6, <1>7, <1>8, <1>9 DEF Application

(* Nothing fails, nothing times out, distributors stay, and so does the    *)
(* application, and nobody but it ends its registration.  It registers,    *)
(* unregisters and changes its key as it likes, and the user changes the   *)
(* push provider.                                                          *)
Disturbances == {"fail", "reject", "timeout", "gone", "force", "quit"}
Undisturbed == \A l \in Limits, k \in Disturbances : l[k] = 0

Orderly ==
  /\ \A k \in Disturbances : budget[k] = 0
  /\ OnOrder(con, incoming)
  /\ ~running => con = Fresh /\ file = None /\ incoming = <<>>

(* Limits that are zero stay so. *)
LEMMA StaysZero ==
  ASSUME TypeOK, [Next]_vars, NEW k \in Kinds, budget[k] = 0
  PROVE  budget'[k] = 0 /\ ~Spend(k)
<1>1. ASSUME NEW kind \in Kinds, Spend(kind) PROVE budget'[k] = 0 /\ kind # k
  <2>1. budget[kind] > 0 /\ budget' = [budget EXCEPT ![kind] = @ - 1]
    BY <1>1 DEF Spend
  <2>2. kind # k
    BY <2>1
  <2>3. QED
    BY <2>1, <2>2 DEF TypeOK
<1>2. QED
  BY <1>1, SpendsOrKeeps

LEMMA InitOrderly == ASSUME Undisturbed PROVE Init => Orderly
<1> SUFFICES ASSUME Init PROVE Orderly
  OBVIOUS
<1>1. \A k \in Disturbances : budget[k] = 0
  BY DEF Undisturbed, Init
<1>2. incoming \in Seq(Expected)
  BY EmptySeq DEF Init
<1>3. HasNone(incoming, Answers) /\ HasNone(incoming, Confirmations)
  BY EmptyEntries DEF Init
<1>4. Nowhere(con, incoming) /\ con.iface = None /\ con.token <= issued
  BY <1>3, FreshSound DEF Nowhere, Init, NoToken
<1>5. \A d \in Distributors : work[d] = <<>> /\ \A t \in Tokens : ~Known(d, t)
  BY DEF Init, Known
<1>6. QED
  BY <1>1, <1>2, <1>4, <1>5 DEF Orderly, OnOrder, Init

(* The first start: the connector has a distributor, if there is any.      *)
LEMMA StartFresh ==
  ASSUME TypeOK, Orderly, Start
  PROVE  /\ incoming = <<>> /\ UNCHANGED <<services, clients, wish>> /\ running'
         /\ \A x \in Distributors :
              work[x] = <<>> /\ \A t \in Tokens : ~Known(x, t)
         /\ \E b \in ConnectorState :
              /\ b.call = "None" /\ b.current = "None" /\ b.queue = <<>>
              /\ b.token = NoToken /\ b.iface \in services \cup {None}
              /\ b.iface # None => b.state = "Unregistered"
              /\ ~b.required /\ Handled(b, incoming)
<1> DEFINE d == SelectDistributor
           b == SetDistributor(Fresh, d)
<1>1. /\ con = Fresh /\ file = None /\ incoming = <<>> /\ Loaded = Fresh
      /\ OnOrder(con, incoming)
  BY DEF Start, Orderly, Loaded
<1>2. \A x \in Distributors :
        work[x] = <<>> /\ \A t \in Tokens : ~Known(x, t)
  BY <1>1, FreshSound, ConnectorAssumption DEF OnOrder
<1>3. d = None \/ (d \in services /\ d \in Distributors /\ d # None)
  BY SelectsService, ConnectorAssumption DEF TypeOK
<1>4. b = IF d = None THEN [Fresh EXCEPT !.state = "NoDistributor"]
          ELSE [Fresh EXCEPT !.iface = d, !.state = "Unregistered"]
  BY FreshSound DEF SetDistributor, NoToken
<1>5. Handled(b, incoming) /\ UNCHANGED <<services, clients, wish>> /\ running'
  BY <1>1 DEF Start
<1> HIDE DEF d, b
<1>6. /\ b \in ConnectorState /\ b.call = "None" /\ b.current = "None"
      /\ b.queue = <<>> /\ b.token = NoToken /\ b.iface \in services \cup {None}
      /\ b.iface # None => b.state = "Unregistered"
      /\ ~b.required
  <2>1. CASE d = None
    BY <1>4, <2>1, FreshSound DEF Fresh, ConnectorState, States
  <2>2. CASE d # None
    BY <1>3, <1>4, <2>2, FreshSound DEF Fresh, ConnectorState, States
  <2>3. QED
    BY <2>1, <2>2
<1>7. QED
  BY <1>1, <1>2, <1>5, <1>6

(* What the steps of an orderly connector are: handlers, which make it b,  *)
(* of which its methods make c, while rest is on its way; the work of its  *)
(* distributor, or what the surroundings do.                               *)
Handles(b, c, rest) ==
  /\ b \in ConnectorState /\ c \in ConnectorState /\ OnOrder(b, rest)
  /\ Outcome(b, c) /\ con' = [c EXCEPT !.call = "None"]
  /\ Keeps(b, rest) \/ Asks(b, rest) \/ TakesLeave(b, rest)
  /\ running' /\ UNCHANGED <<services, clients>> /\ OnOrder(con, incoming)'
Starts(b) ==
  /\ Handles(b, b, <<>>) /\ b.queue = <<>> /\ b.current = "None"
  /\ b.token = NoToken /\ ~b.required /\ wish' = wish /\ ~running
  /\ \A x \in Distributors : work[x] = <<>> /\ \A t \in Tokens : ~Known(x, t)

LEMMA HandlerHandles ==
  ASSUME TypeOK, TypeOK', NEW b \in ConnectorState, b.call = "None",
         NEW c \in ConnectorState, Outcome(b, c), NEW rest, OnOrder(b, rest),
         Handled(c, rest), UNCHANGED <<services, clients>>, running'
  PROVE  Handles(b, c, rest)
BY HandledOrder, HandlerOnOrder DEF Handles, Handled

LEMMA StartStarts ==
  ASSUME TypeOK, TypeOK', Orderly, Start
  PROVE  \E b : Starts(b)
<1>1. PICK b \in ConnectorState :
        /\ b.call = "None" /\ b.current = "None" /\ b.queue = <<>>
        /\ b.token = NoToken /\ b.iface \in services \cup {None}
        /\ b.iface # None => b.state = "Unregistered"
        /\ ~b.required /\ Handled(b, incoming)
  BY StartFresh
<1>2. /\ incoming = <<>> /\ UNCHANGED <<services, clients, wish>> /\ running'
      /\ \A x \in Distributors :
           work[x] = <<>> /\ \A t \in Tokens : ~Known(x, t)
  BY StartFresh
<1>3. /\ HasNone(incoming, Answers) /\ HasNone(incoming, Confirmations)
      /\ incoming \in Seq(Expected)
  BY <1>2, EmptyEntries, EmptySeq
<1>4. NoToken <= issued
  BY ConSound DEF NoToken
<1>5. pending = None /\ ~running
  BY FreshSound DEF Start, Orderly, OnOrder, Nowhere
<1>6. OnOrder(b, incoming)
  <2>1. CASE b.iface = None
    BY <1>1, <1>2, <1>3, <1>4, <1>5, <2>1 DEF OnOrder, Nowhere
  <2>2. CASE b.iface # None
    <3>1. b.iface \in services /\ b.iface \in Distributors
      BY <1>1, <2>2 DEF TypeOK
    <3>2. /\ work[b.iface] \in Seq(Jobs(issued))
          /\ HasNone(work[b.iface], Asking) /\ HasNone(work[b.iface], Leaving)
      BY <1>2, <3>1, EmptyEntries, EmptySeq
    <3>3. Idle(b, incoming)
      BY <1>1, <1>3, <1>5, <2>2, <3>2 DEF Idle
    <3>4. QED
      BY <1>1, <1>2, <1>3, <1>4, <2>2, <3>1, <3>2, <3>3 DEF OnOrder, Somewhere
  <2>3. QED
    BY <2>1, <2>2
<1>7. Handles(b, b, <<>>)
  BY <1>1, <1>2, <1>6, OutcomeSame, HandlerHandles
<1>8. QED
  BY <1>1, <1>2, <1>5, <1>7 DEF Starts

LEMMA OrderlySteps ==
  ASSUME TypeOK, Orderly, [Next]_vars
  PROVE  \/ \E b : Starts(b)
         \/ running /\ \E b, c : /\ SameOrder(con, b) /\ Tells(b, c)
                                 /\ Handles(b, c, incoming)
         \/ /\ running /\ incoming # <<>> /\ wish' = wish
            /\ \E b, c : Hears(b, c) /\ Handles(b, c, Tail(incoming))
         \/ \E d \in Distributors : running /\ Works(d)
         \/ \E d \in Distributors : DistributorHere(d)
         \/ \E d \in Distributors, t \in Tokens : Move(d, t)
         \/ UNCHANGED vars
<1>0. /\ TypeOK' /\ OnOrder(con, incoming) /\ con.token <= issued
      /\ con \in ConnectorState
  BY TypeNext DEF Orderly, OnOrder, TypeOK
<1>1. \A k \in Disturbances : ~Spend(k)
  BY StaysZero DEF Orderly, Disturbances, Kinds
<1>2. Start => \E b : Starts(b)
  BY <1>0, StartStarts
<1>3. ASSUME Application
      PROVE  running /\ \E b, c : /\ SameOrder(con, b) /\ Tells(b, c)
                                  /\ Handles(b, c, incoming)
  <2>1. running /\ ~Quit
    BY <1>1, <1>3 DEF Application, RegisterClient, UnregisterClient,
       SetVapidPublicKey, SetVapidPublicKeyRequired, EnsureKeys, RemoveState,
       Quit, Disturbances
  <2>2. UNCHANGED <<running, services, clients>>
    BY <1>0, <1>3, <2>1, Told
  <2>3. PICK b \in ConnectorState, c \in ConnectorState :
          /\ b.call = "None" /\ SameOrder(con, b) /\ Tells(b, c)
          /\ Outcome(b, c) /\ Handled(c, incoming)
    BY <1>0, <1>3, <2>1, Told
  <2>4. OnOrder(b, incoming)
    BY <1>0, <2>3, SameOnOrder
  <2>5. Handles(b, c, incoming)
    BY <1>0, <2>1, <2>2, <2>3, <2>4, HandlerHandles
  <2>6. QED
    BY <2>1, <2>3, <2>5
<1>4. ASSUME Delivery
      PROVE  /\ running /\ incoming # <<>> /\ wish' = wish
             /\ \E b, c : Hears(b, c) /\ Handles(b, c, Tail(incoming))
  <2>1. running
    BY <1>4 DEF Delivery, NewEndpointArrives, UnregisteredArrives,
       ReplyArrives, ServiceRegistered, ServiceUnregistered,
       ServiceUnregisteredCrash, Receives
  <2>2. incoming # <<>> /\ UNCHANGED <<running, services, clients, wish>>
    BY <1>0, <1>4, Heard
  <2>3. PICK b \in ConnectorState, c \in ConnectorState :
          b.call = "None" /\ Hears(b, c) /\ Handled(c, Tail(incoming))
    BY <1>0, <1>4, Heard
  <2>4. OnOrder(b, Tail(incoming))
    BY <1>0, <2>2, <2>3, HeardOnOrder
  <2>5. Outcome(b, c)
    BY <2>3, OutcomeSame, OutcomeProcess DEF Hears, HearsEndpoint, HearsOther,
       HearsConfirmation, HearsAnswer, HearsDistributor
  <2>6. Handles(b, c, Tail(incoming))
    BY <1>0, <2>1, <2>2, <2>3, <2>4, <2>5, HandlerHandles
  <2>7. QED
    BY <2>1, <2>2, <2>3, <2>6
<1>5. ASSUME NEW d \in Distributors, Works(d) PROVE running
  BY <1>0, <1>5, WorksHere, FreshSound DEF WorkedOff, Orderly
<1>6. ASSUME NEW d \in Distributors
      PROVE  /\ ~Rejects(d) /\ ~DistributorGone(d)
             /\ \A t \in Tokens : ~ForceUnregister(d, t)
  BY <1>1 DEF Rejects, RejectsRegistration, RejectsUnregistration,
     DistributorGone, ForceUnregister, Disturbances
<1>7. ~Timeout
  BY <1>1 DEF Timeout, Disturbances
<1>8. QED
  BY <1>2, <1>3, <1>4, <1>5, <1>6, <1>7 DEF Next

LEMMA OrderlyNext == TypeOK /\ Orderly /\ [Next]_vars => Orderly'
<1> SUFFICES ASSUME TypeOK, Orderly, [Next]_vars PROVE Orderly'
  OBVIOUS
<1>0. OnOrder(con, incoming)
  BY DEF Orderly
<1>1. \A k \in Disturbances : budget'[k] = 0
  BY StaysZero DEF Orderly, Disturbances, Kinds
<1>2. ASSUME OnOrder(con, incoming)',
             running' \/ UNCHANGED <<running, con, file, incoming>>
      PROVE  Orderly'
  BY <1>1, <1>2 DEF Orderly
<1>3. ASSUME NEW b, NEW c, NEW rest, Handles(b, c, rest) PROVE Orderly'
  BY <1>2, <1>3 DEF Handles
<1>4. ASSUME NEW d \in Distributors, running, Works(d) PROVE Orderly'
  BY <1>0, <1>2, <1>4, WorksHere, WorksOnOrder DEF WorkedOff
<1>5. ASSUME NEW d \in Distributors, DistributorHere(d) PROVE Orderly'
  <2>1. UNCHANGED <<running, con, file>>
    BY <1>5 DEF DistributorHere
  <2>2. ~running => incoming' = incoming
    BY <1>5 DEF DistributorHere, Signal, Orderly
  <2>3. QED
    BY <1>0, <1>2, <1>5, <2>1, <2>2, HereOnOrder
<1>6. ASSUME NEW d \in Distributors, NEW t \in Tokens, Move(d, t)
      PROVE  Orderly'
  <2>1. UNCHANGED <<running, con, file, incoming>>
    BY <1>6 DEF Move
  <2>2. QED
    BY <1>0, <1>2, <1>6, <2>1, MoveOnOrder
<1>7. CASE UNCHANGED vars
  BY <1>7 DEF vars, distributors, Orderly, OnOrder, Nowhere, Somewhere, Idle,
     Asked, Answered, Leaves, Left, Known, HasNone, HasOne, Prepared, Offers
<1>8. QED
  BY <1>3, <1>4, <1>5, <1>6, <1>7, OrderlySteps DEF Starts

LEMMA OrderlyAlways == ASSUME Undisturbed PROVE Spec => []Orderly
BY InitOrderly, OrderlyNext, ConnectorTypeCorrect, PTL DEF Spec

(* Once everything has been delivered, the connector has no order.         *)
LEMMA QuietIdle ==
  ASSUME Orderly, Quiet, con.iface # None, con.iface \in Distributors
  PROVE  Idle(con, incoming)
<1>1. work[con.iface] = <<>> /\ incoming = <<>>
  BY DEF Quiet
<1>2. \A S, U : ~HasOne(<<>>, S, U)
  BY DEF HasOne
<1>3. QED
  BY <1>1, <1>2
  DEF Orderly, OnOrder, Somewhere, Asked, Answered, Leaves, Left

(* When everything has been delivered, an undisturbed connector has        *)
(* answered every wish: no command is current, and none that could be run  *)
(* is left in the queue.                                                   *)
THEOREM NotStuckUndisturbed ==
  ASSUME Undisturbed PROVE Spec => []NeverStuck
<1>1. TypeOK /\ Orderly /\ Runs(con) => NeverStuck
  <2> SUFFICES ASSUME TypeOK, Orderly, Runs(con), Quiet, con.iface # None
               PROVE  /\ con.current = "None"
                      /\ con.queue = <<>> \/ ~Ready(con, Head(con.queue))
    BY DEF NeverStuck
  <2>1. con.iface \in Distributors
    BY DEF TypeOK, ConnectorState
  <2>2. QED
    BY <2>1, QuietIdle DEF Idle, Runs
<1>2. QED
  BY <1>1, OrderlyAlways, RunsAlways, ConnectorTypeCorrect, PTL

-----------------------------------------------------------------------------
(* The endpoint is on its way                                              *)

Renewals(t) == {w \in Work : w.op = "Register" /\ w.token = t}
News(t) == {e \in Event : e.event = "NewEndpoint" /\ e.token = t}

(* A client that the commands q unregister silently, they register again.  *)
Renews(q) ==
  \A i \in DOMAIN q : q[i].op = "SilentUnregister" =>
    \E j \in DOMAIN q : j > i /\ q[j] \in Renewals(q[i].token)

(* After the events s, the endpoint of the client t, now e, is p.          *)
Learns(t, p, e, s) ==
  \/ \E i \in DOMAIN s :
       /\ s[i] \in News(t) /\ s[i].endpoint = p
       /\ \A j \in DOMAIN s : s[j] \in News(t) => j <= i
  \/ e = p /\ HasNone(s, News(t))

LEMMA RenewsAppend ==
  ASSUME NEW q \in Seq(Work), Renews(q), NEW w \in Work,
         w.op # "SilentUnregister"
  PROVE  Renews(Append(q, w))
<1>1. PICK n \in Nat : n = Len(q) /\ DOMAIN q = 1..n
  BY LenProperties
<1>2. /\ DOMAIN Append(q, w) = 1..(n + 1) /\ Append(q, w)[n + 1] = w
      /\ \A i \in 1..n : Append(q, w)[i] = q[i] /\ i \in 1..(n + 1)
      /\ \A i \in 1..(n + 1) : i \in 1..n \/ i = n + 1
  BY <1>1
<1>3. QED
  BY <1>1, <1>2 DEF Renews

LEMMA RenewsMore ==
  ASSUME NEW q \in Seq(Work), Renews(q), NEW u \in Work, NEW v \in Work,
         v \in Renewals(u.token)
  PROVE  Renews(Append(Append(q, u), v))
<1> DEFINE r == Append(Append(q, u), v)
<1>1. PICK n \in Nat : n = Len(q) /\ DOMAIN q = 1..n
  BY LenProperties
<1>2. /\ DOMAIN r = 1..(n + 2) /\ r[n + 1] = u /\ r[n + 2] = v
      /\ \A i \in 1..n : r[i] = q[i] /\ i \in 1..(n + 2)
  BY <1>1
<1>3. /\ \A i \in 1..(n + 2) : i \in 1..n \/ i = n + 1 \/ i = n + 2
      /\ n + 2 \in 1..(n + 2) /\ n + 2 > n + 1
  BY <1>1
<1>4. v.op # "SilentUnregister"
  BY DEF Renewals
<1> HIDE DEF r
<1>5. Renews(r)
  BY <1>1, <1>2, <1>3, <1>4 DEF Renews
<1>6. QED
  BY <1>5 DEF r

LEMMA RenewsTail ==
  ASSUME NEW q \in Seq(Work), q # <<>>, Renews(q)
  PROVE  /\ Renews(Tail(q))
         /\ Head(q).op = "SilentUnregister" =>
              ~HasNone(Tail(q), Renewals(Head(q).token))
<1>1. PICK n \in Nat \ {0} : n = Len(q) /\ DOMAIN q = 1..n
  BY LenProperties, EmptySeq
<1>2. /\ DOMAIN Tail(q) = 1..(n - 1) /\ Head(q) = q[1]
      /\ \A i \in 1..(n - 1) : Tail(q)[i] = q[i + 1]
  BY <1>1, HeadTailProperties
<1>3. /\ 1 \in 1..n /\ \A i \in 1..(n - 1) : i + 1 \in 1..n /\ i + 1 # 1
      /\ \A i, j \in 1..n : j > i =>
           j - 1 \in 1..(n - 1) /\ (j - 1) + 1 = j /\ \A k \in 1..(n - 1) :
             i = k + 1 => j - 1 > k
  BY <1>1
<1>4. ASSUME NEW i \in DOMAIN Tail(q), Tail(q)[i].op = "SilentUnregister"
      PROVE  \E j \in DOMAIN Tail(q) :
               j > i /\ Tail(q)[j] \in Renewals(Tail(q)[i].token)
  <2>1. i + 1 \in 1..n /\ Tail(q)[i] = q[i + 1]
    BY <1>2, <1>3
  <2>2. PICK j \in 1..n : j > i + 1 /\ q[j] \in Renewals(q[i + 1].token)
    BY <1>1, <1>4, <2>1 DEF Renews
  <2>3. j - 1 \in 1..(n - 1) /\ (j - 1) + 1 = j /\ j - 1 > i
    BY <1>2, <1>3, <2>1, <2>2
  <2>4. Tail(q)[j - 1] = q[j]
    BY <1>2, <2>3
  <2>5. QED
    BY <1>2, <2>1, <2>2, <2>3, <2>4
<1>5. ASSUME Head(q).op = "SilentUnregister"
      PROVE  ~HasNone(Tail(q), Renewals(Head(q).token))
  <2>1. PICK j \in 1..n : j > 1 /\ q[j] \in Renewals(q[1].token)
    BY <1>1, <1>2, <1>3, <1>5 DEF Renews
  <2>2. j - 1 \in 1..(n - 1) /\ Tail(q)[j - 1] = q[j]
    BY <1>2, <1>3, <2>1
  <2>3. QED
    BY <1>2, <2>1, <2>2 DEF HasNone
<1>6. QED
  BY <1>4, <1>5 DEF Renews

LEMMA SomeStay ==
  ASSUME NEW T, NEW s \in Seq(T), NEW S, ~HasNone(s, S)
  PROVE  /\ \A e \in T : ~HasNone(Append(s, e), S)
         /\ s # <<>> /\ Head(s) \notin S => ~HasNone(Tail(s), S)
<1>1. PICK n \in Nat : n = Len(s) /\ DOMAIN s = 1..n
  BY LenProperties
<1>2. PICK i \in 1..n : s[i] \in S
  BY <1>1 DEF HasNone
<1>3. ASSUME NEW e \in T PROVE ~HasNone(Append(s, e), S)
  <2>1. i \in DOMAIN Append(s, e) /\ Append(s, e)[i] = s[i]
    BY <1>1
  <2>2. QED
    BY <1>2, <2>1 DEF HasNone
<1>4. ASSUME s # <<>>, Head(s) \notin S PROVE ~HasNone(Tail(s), S)
  <2>1. /\ DOMAIN Tail(s) = 1..(n - 1) /\ Head(s) = s[1]
        /\ \A k \in 1..(n - 1) : Tail(s)[k] = s[k + 1]
    BY <1>1, <1>4, HeadTailProperties
  <2>2. i # 1
    BY <1>2, <1>4, <2>1
  <2>3. i - 1 \in 1..(n - 1) /\ (i - 1) + 1 = i
    BY <1>1, <2>2
  <2>4. QED
    BY <1>2, <2>1, <2>3 DEF HasNone
<1>5. QED
  BY <1>3, <1>4

LEMMA LearnsAppend ==
  ASSUME NEW s \in Seq(Event), NEW e \in Event, NEW t, NEW p, NEW o
  PROVE  /\ e \in News(t) /\ e.endpoint = p => Learns(t, p, o, Append(s, e))
         /\ e \notin News(t) /\ Learns(t, p, o, s) =>
              Learns(t, p, o, Append(s, e))
<1>1. PICK n \in Nat : n = Len(s) /\ DOMAIN s = 1..n
  BY LenProperties
<1>2. /\ DOMAIN Append(s, e) = 1..(n + 1) /\ Append(s, e)[n + 1] = e
      /\ \A i \in 1..n : Append(s, e)[i] = s[i] /\ i \in 1..(n + 1)
  BY <1>1
<1>3. /\ n + 1 \in 1..(n + 1) /\ \A i \in 1..(n + 1) : i <= n + 1
      /\ \A i \in 1..(n + 1) : i \in 1..n \/ i = n + 1
  BY <1>1
<1>4. ASSUME e \in News(t), e.endpoint = p PROVE Learns(t, p, o, Append(s, e))
  BY <1>2, <1>3, <1>4 DEF Learns
<1>5. ASSUME e \notin News(t), Learns(t, p, o, s)
      PROVE  Learns(t, p, o, Append(s, e))
  <2>1. ASSUME NEW i \in 1..n, s[i] \in News(t), s[i].endpoint = p,
               \A j \in 1..n : s[j] \in News(t) => j <= i
        PROVE  Learns(t, p, o, Append(s, e))
    <3>1. \A j \in 1..(n + 1) : Append(s, e)[j] \in News(t) => j <= i
      BY <1>2, <1>3, <1>5, <2>1
    <3>2. QED
      BY <1>2, <2>1, <3>1 DEF Learns
  <2>2. HasNone(s, News(t)) => HasNone(Append(s, e), News(t))
    BY <1>5, AppendEntries
  <2>3. QED
    BY <1>1, <1>5, <2>1, <2>2 DEF Learns
<1>6. QED
  BY <1>4, <1>5

LEMMA LearnsTail ==
  ASSUME NEW s \in Seq(Event), s # <<>>, NEW t, NEW p, NEW o, NEW new,
         Learns(t, p, o, s),
         new = IF Head(s) \in News(t) THEN Head(s).endpoint ELSE o
  PROVE  Learns(t, p, new, Tail(s))
<1>1. PICK n \in Nat \ {0} : n = Len(s) /\ DOMAIN s = 1..n
  BY LenProperties, EmptySeq
<1>2. /\ DOMAIN Tail(s) = 1..(n - 1) /\ Head(s) = s[1]
      /\ \A i \in 1..(n - 1) : Tail(s)[i] = s[i + 1]
  BY <1>1, HeadTailProperties
<1>3. \A i \in 1..(n - 1) : i + 1 \in 1..n /\ i + 1 > 1
  BY <1>1
<1>4. ASSUME NEW i \in 1..n, s[i] \in News(t), s[i].endpoint = p,
             \A j \in 1..n : s[j] \in News(t) => j <= i
      PROVE  Learns(t, p, new, Tail(s))
  <2>1. CASE i = 1
    <3>1. new = p
      BY <1>2, <1>4, <2>1
    <3>2. ASSUME NEW j \in 1..(n - 1) PROVE Tail(s)[j] \notin News(t)
      <4>1. j + 1 \in 1..n /\ ~(j + 1 <= i)
        BY <1>3, <2>1
      <4>2. QED
        BY <1>2, <1>4, <4>1
    <3>3. QED
      BY <1>2, <3>1, <3>2 DEF Learns, HasNone
  <2>2. CASE i # 1
    <3>1. i - 1 \in 1..(n - 1) /\ (i - 1) + 1 = i
      BY <1>1, <2>2
    <3>2. Tail(s)[i - 1] = s[i]
      BY <1>2, <3>1
    <3>3. ASSUME NEW j \in 1..(n - 1), Tail(s)[j] \in News(t)
          PROVE  j <= i - 1
      <4>1. j + 1 <= i
        BY <1>2, <1>3, <1>4, <3>3
      <4>2. QED
        BY <1>1, <4>1
    <3>4. QED
      BY <1>2, <1>4, <3>1, <3>2, <3>3 DEF Learns
  <2>3. QED
    BY <2>1, <2>2
<1>5. ASSUME o = p, HasNone(s, News(t)) PROVE Learns(t, p, new, Tail(s))
  BY <1>5, TailEntries DEF Learns
<1>6. QED
  BY <1>1, <1>4, <1>5 DEF Learns

(* The endpoint of a client that has one is the connector's when it has    *)
(* heard everything, unless the client is yet to be registered again.      *)
EndpointComing(c, s) ==
  LET d == c.iface
      t == c.token
  IN d # None =>
       /\ Renews(work[d])
       /\ t # NoToken /\ Known(d, t) =>
            \/ ~HasNone(work[d], Renewals(t))
            \/ Learns(t, clients[d][t].endpoint, c.endpoint, s)

LEMMA EndpointHandled ==
  ASSUME TypeOK, NEW b, NEW c, NEW rest, Handles(b, c, rest),
         EndpointComing(b, rest)
  PROVE  EndpointComing(con, incoming)'
<1> DEFINE d == b.iface
<1>0. /\ \A x, t : Known(x, t)' <=> Known(x, t)
      /\ clients' = clients /\ b \in ConnectorState /\ OnOrder(b, rest)
  BY DEF Handles, Known
<1>1. CASE Keeps(b, rest)
  BY <1>0, <1>1 DEF Keeps, SameOrder, EndpointComing, Learns, HasNone, Renews
<1>2. CASE Asks(b, rest)
  <2> DEFINE k == IF VersionOf[d] = "v2" THEN b.key ELSE None
             w == AskJob(issued + 1, k)
  <2>0. /\ d # None /\ d \in Distributors /\ con'.iface = d
        /\ con'.token = issued + 1 /\ issued \in Nat
        /\ work[d] \in Seq(Work) /\ Somewhere(b, rest)
    BY <1>0, <1>2, ConSound DEF Asks, TypeOK, ConnectorState, OnOrder
  <2>1. w \in Work /\ w.op # "SilentUnregister"
    BY <1>0, <1>2 DEF Asks, AskJob, Work, ConnectorState
  <2>2. work'[d] = Append(work[d], w)
    BY <1>2, <2>0 DEF Asks, TypeOK
  <2> HIDE DEF w
  <2>3. Renews(work'[d])
    BY <2>0, <2>1, <2>2, RenewsAppend DEF EndpointComing
  <2>4. ~Known(d, issued + 1)
    <3>1. issued + 1 \in Tokens => ~(issued + 1 <= issued)
      BY <2>0
    <3>2. QED
      BY <2>0, <3>1 DEF Somewhere, Known
  <2>5. ~Known(con.iface, con.token)'
    BY <1>0, <2>0, <2>4 DEF Known
  <2>6. Renews(work[con.iface])'
    BY <2>0, <2>3 DEF Renews
  <2>7. QED
    BY <2>5, <2>6 DEF EndpointComing
<1>3. CASE TakesLeave(b, rest)
  <2> DEFINE w == LeaveJob(b.token)
             t == b.token
  <2>0. /\ d # None /\ d \in Distributors /\ con'.iface = d
        /\ con'.token = t /\ con'.endpoint = b.endpoint /\ incoming' = rest
        /\ work[d] \in Seq(Work) /\ t \in Tokens /\ t # NoToken
    BY <1>0, <1>3 DEF TakesLeave, Idle, Known, TypeOK, ConnectorState
  <2>1. w \in Work /\ w.op # "SilentUnregister"
    BY <2>0 DEF LeaveJob, Work
  <2>2. work'[d] = Append(work[d], w)
    BY <1>3, <2>0 DEF TakesLeave, TypeOK
  <2> HIDE DEF w
  <2>3. Renews(work'[d])
    BY <2>0, <2>1, <2>2, RenewsAppend DEF EndpointComing
  <2>4. ASSUME Known(d, t)
        PROVE  \/ ~HasNone(work'[d], Renewals(t))
               \/ Learns(t, clients[d][t].endpoint, b.endpoint, rest)
    BY <2>0, <2>1, <2>2, <2>4, SomeStay DEF EndpointComing
  <2>5. Renews(work[con.iface])'
    BY <2>0, <2>3 DEF Renews
  <2>6. ASSUME Known(con.iface, con.token)'
        PROVE  \/ ~HasNone(work[con.iface], Renewals(con.token))'
               \/ Learns(con.token, clients[con.iface][con.token].endpoint,
                         con.endpoint, incoming)'
    <3>1. Known(d, t)
      BY <2>0, <2>6, <1>0 DEF Known
    <3>2. CASE ~HasNone(work'[d], Renewals(t))
      BY <2>0, <3>2 DEF HasNone
    <3>3. CASE Learns(t, clients[d][t].endpoint, b.endpoint, rest)
      BY <1>0, <2>0, <3>3 DEF Learns, HasNone
    <3>4. QED
      BY <2>4, <3>1, <3>2, <3>3
  <2>7. QED
    BY <2>5, <2>6 DEF EndpointComing
<1>4. QED
  BY <1>1, <1>2, <1>3 DEF Handles

LEMMA EndpointHeard ==
  ASSUME TypeOK, OnOrder(con, incoming), incoming # <<>>, NEW b, NEW c,
         Hears(b, c), EndpointComing(con, incoming)
  PROVE  EndpointComing(b, Tail(incoming))
<1> DEFINE e == Head(incoming)
           d == con.iface
           t == con.token
<1>0. /\ con \in ConnectorState /\ incoming \in Seq(Event) /\ e \in Event
  BY DEF TypeOK
<1>1. ASSUME b.iface = d, b.token = t,
             b.endpoint = IF e \in News(t) THEN e.endpoint ELSE con.endpoint
      PROVE  EndpointComing(b, Tail(incoming))
  BY <1>0, <1>1, LearnsTail DEF EndpointComing
<1>2. CASE HearsEndpoint(b, c)
  BY <1>0, <1>1, <1>2 DEF HearsEndpoint, News, ConnectorState
<1>3. CASE HearsOther(b, c)
  BY <1>1, <1>3 DEF HearsOther, News
<1>4. CASE HearsAnswer(b, c)
  BY <1>0, <1>1, <1>4 DEF HearsAnswer, News, ConnectorState
<1>5. CASE HearsConfirmation(b, c)
  <2>1. b.iface = d /\ b.token = NoToken
    BY <1>0, <1>5 DEF HearsConfirmation, ConnectorState
  <2>2. QED
    BY <2>1 DEF EndpointComing
<1>6. CASE HearsDistributor(b, c)
  <2>1. /\ d = None /\ t = NoToken
        /\ \A x \in Distributors : work[x] = <<>>
    <3>1. d = None
      BY <1>6, Zenon DEF HearsDistributor
    <3>2. \A x \in Distributors : x # d
      BY <3>1, ConnectorAssumption
    <3>3. QED
      BY <3>1, <3>2 DEF OnOrder, Nowhere
  <2>2. /\ b.token = NoToken /\ b.iface \in services \cup {None}
    <3>1. CASE b = [con EXCEPT !.state = "NoDistributor"]
      BY <1>0, <2>1, <3>1 DEF ConnectorState
    <3>2. ASSUME NEW x \in services,
                 b = [con EXCEPT !.iface = x, !.state = "Unregistered"]
          PROVE  b.token = NoToken /\ b.iface \in services \cup {None}
      BY <1>0, <2>1, <3>2 DEF ConnectorState
    <3>3. QED
      BY <1>6, <3>1, <3>2, Zenon DEF HearsDistributor
  <2>3. b.iface # None => work[b.iface] = <<>>
    BY <2>1, <2>2 DEF TypeOK
  <2>4. QED
    BY <2>2, <2>3 DEF EndpointComing, Renews
<1>7. QED
  BY <1>2, <1>3, <1>4, <1>5, <1>6 DEF Hears

LEMMA EndpointWorks ==
  ASSUME TypeOK, OnOrder(con, incoming), NEW d \in Distributors, Works(d),
         EndpointComing(con, incoming)
  PROVE  EndpointComing(con, incoming)'
<1> DEFINE w == Head(work[d])
           t == con.token
           Wanted == t # NoToken /\ Known(d, t)
           Due(q) == ~HasNone(q, Renewals(t))
           Heeds(s) == Learns(t, clients[d][t].endpoint, con.endpoint, s)
           Heeds2(s) == Learns(t, clients'[d][t].endpoint, con.endpoint, s)
<1>0. /\ WorkedOff(d) /\ d = con.iface /\ w \in Work /\ w.token \in Tokens
      /\ incoming \in Seq(Event) /\ work[d] \in Seq(Work) /\ work[d] # <<>>
      /\ work'[d] = Tail(work[d]) /\ con' = con
  BY WorksHere DEF WorkedOff, Jobs, Work, TypeOK
<1>1. /\ Renews(work[d])
      /\ Wanted => Due(work[d]) \/ Heeds(incoming)
  BY <1>0 DEF EndpointComing, WorkedOff
<1>2. /\ Renews(Tail(work[d]))
      /\ w.op = "SilentUnregister" => ~HasNone(Tail(work[d]), Renewals(w.token))
  BY <1>0, <1>1, RenewsTail
<1>3. ASSUME t # NoToken /\ clients'[d][t] # None /\ t \in Tokens =>
               Due(Tail(work[d])) \/ Heeds2(incoming')
      PROVE  EndpointComing(con, incoming)'
  <2>1. Known(con.iface, con.token)' <=> t \in Tokens /\ clients'[d][t] # None
    BY <1>0 DEF Known
  <2>2. Due(Tail(work[d])) => ~HasNone(work[con.iface], Renewals(con.token))'
    BY <1>0 DEF HasNone, Renewals
  <2>3. Heeds2(incoming') =>
          Learns(con.token, clients[con.iface][con.token].endpoint,
                 con.endpoint, incoming)'
    BY <1>0 DEF Learns, HasNone, News
  <2>4. Renews(work[con.iface])'
    BY <1>0, <1>2 DEF Renews
  <2>5. QED
    BY <1>0, <1>3, <2>1, <2>2, <2>3, <2>4 DEF EndpointComing
<1>4. ASSUME w.token # t \/ w.op = "Unregister" PROVE Due(work[d]) => Due(Tail(work[d]))
  BY <1>0, <1>4, SomeStay DEF Renewals
<1>5. ASSUME NEW e \in Endpoints, HasRegistered(d, w, e)
      PROVE  EndpointComing(con, incoming)'
  <2> DEFINE o == NewEndpoint(w.token, e)
             a == Plain("Success")
  <2>1. /\ o \in Event /\ a \in Event /\ a \notin News(t)
        /\ o \in News(w.token) /\ o.endpoint = e
        /\ w.token # t => o \notin News(t)
    <3>1. o \in Event /\ o.event = "NewEndpoint" /\ o.token = w.token
          /\ o.endpoint = e
      BY <1>0, EventFields
    <3>2. a \in Event /\ a.event = "Success"
      BY EventFields
    <3> HIDE DEF o, a
    <3>3. QED
      BY <3>1, <3>2 DEF News
  <2>2. incoming' \in {Append(incoming, o), Append(Append(incoming, o), a)}
    BY <1>5 DEF HasRegistered
  <2> HIDE DEF o, a
  <2>3. ASSUME NEW p, Learns(t, p, con.endpoint, Append(incoming, o))
        PROVE  Learns(t, p, con.endpoint, incoming')
    <3>1. Append(incoming, o) \in Seq(Event)
      BY <1>0, <2>1
    <3>2. Learns(t, p, con.endpoint, Append(Append(incoming, o), a))
      BY <2>1, <2>3, <3>1, LearnsAppend
    <3>3. QED
      BY <2>2, <2>3, <3>2
  <2>4. clients' = [clients EXCEPT ![d][w.token] =
                      [endpoint |-> e, stored |-> e, key |-> w.key]]
    BY <1>5 DEF HasRegistered
  <2>5. CASE w.token = t
    <3>1. clients'[d][t].endpoint = e
      BY <1>0, <2>4, <2>5 DEF TypeOK
    <3>2. Learns(t, e, con.endpoint, Append(incoming, o))
      BY <1>0, <2>1, <2>5, LearnsAppend
    <3>3. QED
      BY <1>3, <2>3, <3>1, <3>2
  <2>6. CASE w.token # t
    <3>1. clients'[d][t] = clients[d][t]
      BY <1>0, <2>4, <2>6 DEF TypeOK
    <3>2. Heeds(incoming) => Heeds2(incoming')
      BY <1>0, <2>1, <2>3, <2>6, <3>1, LearnsAppend
    <3>3. QED
      BY <1>1, <1>3, <1>4, <2>6, <3>1, <3>2 DEF Known
  <2>7. QED
    BY <2>5, <2>6
<1>6. ASSUME HasLeft(d, w) PROVE EndpointComing(con, incoming)'
  <2>1. clients' = [clients EXCEPT ![d][w.token] = None]
    BY <1>6 DEF HasLeft
  <2>2. CASE w.token = t
    <3>1. clients'[d][t] = None
      BY <1>0, <2>1, <2>2 DEF TypeOK
    <3>2. QED
      BY <1>3, <3>1
  <2>3. CASE w.token # t
    <3>1. clients'[d][t] = clients[d][t]
      BY <1>0, <2>1, <2>3 DEF TypeOK
    <3>2. PICK u \in {NoToken, w.token} :
            incoming' = Append(incoming, Unregistered(u))
      BY <1>6 DEF HasLeft
    <3>3. Unregistered(u) \in Event /\ Unregistered(u) \notin News(t)
      <4>1. u \in Nat
        BY <1>0, <3>2 DEF Tokens, NoToken
      <4>2. Unregistered(u) \in Event /\ Unregistered(u).event = "Unregistered"
        BY <4>1, EventFields
      <4>3. QED
        BY <4>2 DEF News
    <3>4. Heeds(incoming) => Heeds2(incoming')
      BY <1>0, <3>1, <3>2, <3>3, LearnsAppend
    <3>5. QED
      BY <1>1, <1>3, <1>4, <2>3, <3>1, <3>4 DEF Known
  <2>4. QED
    BY <2>2, <2>3
<1>7. ASSUME HasLeftSilently(d, w) PROVE EndpointComing(con, incoming)'
  <2>1. /\ SameClients /\ w.op = "SilentUnregister"
        /\ incoming' = Append(incoming, NewEndpoint(w.token, None))
    BY <1>7 DEF HasLeftSilently
  <2>2. CASE w.token = t
    BY <1>2, <1>3, <2>1, <2>2
  <2>3. CASE w.token # t
    <3> DEFINE o == NewEndpoint(w.token, None)
    <3>1. o \in Event /\ o \notin News(t)
      <4>1. o \in Event /\ o.token = w.token
        BY <1>0, EventFields
      <4>2. QED
        BY <2>3, <4>1 DEF News
    <3>2. incoming' = Append(incoming, o)
      BY <2>1
    <3> HIDE DEF o
    <3>3. Heeds(incoming) =>
            Learns(t, clients[d][t].endpoint, con.endpoint, incoming')
      BY <1>0, <3>1, <3>2, LearnsAppend
    <3>4. Known(d, t) => clients'[d][t].endpoint = clients[d][t].endpoint
      BY <2>1 DEF SameClients, Known
    <3>5. t \in Tokens /\ clients'[d][t] # None => Known(d, t)
      BY <2>1 DEF SameClients, Known
    <3>6. QED
      BY <1>1, <1>3, <1>4, <2>3, <3>3, <3>4, <3>5
  <2>4. QED
    BY <2>2, <2>3
<1>8. QED
  BY <1>5, <1>6, <1>7, WorksHere

LEMMA EndpointNext ==
  ASSUME TypeOK, Orderly, [Next]_vars, EndpointComing(con, incoming)
  PROVE  EndpointComing(con, incoming)'
<1>0. OnOrder(con, incoming) /\ con \in ConnectorState /\ incoming \in Seq(Event)
  BY DEF Orderly, TypeOK
<1>1. ASSUME NEW b, Starts(b) PROVE EndpointComing(con, incoming)'
  <2>1. b.iface # None => work[b.iface] = <<>>
    BY <1>1 DEF Starts, Handles, ConnectorState
  <2>2. EndpointComing(b, <<>>)
    BY <1>1, <2>1 DEF EndpointComing, Renews, Starts
  <2>3. QED
    BY <1>1, <2>2, EndpointHandled DEF Starts
<1>2. ASSUME NEW b, NEW c, SameOrder(con, b), Handles(b, c, incoming)
      PROVE  EndpointComing(con, incoming)'
  <2>1. EndpointComing(b, incoming)
    BY <1>2 DEF SameOrder, EndpointComing
  <2>2. QED
    BY <1>2, <2>1, EndpointHandled
<1>3. ASSUME NEW b, NEW c, incoming # <<>>, Hears(b, c),
             Handles(b, c, Tail(incoming))
      PROVE  EndpointComing(con, incoming)'
  BY <1>0, <1>3, EndpointHeard, EndpointHandled
<1>4. ASSUME NEW d \in Distributors, Works(d)
      PROVE  EndpointComing(con, incoming)'
  BY <1>0, <1>4, EndpointWorks
<1>5. ASSUME NEW d \in Distributors, DistributorHere(d)
      PROVE  EndpointComing(con, incoming)'
  <2> DEFINE e == Service("Here", d)
             t == con.token
  <2>1. /\ incoming' = incoming \o Signal("Here", d)
        /\ UNCHANGED <<con, work, clients>>
    BY <1>0, <1>5, HereKeepsClients DEF DistributorHere
  <2>2. e \in Event /\ e \notin News(t)
    BY EventFields DEF News
  <2>3. incoming' \in {incoming, Append(incoming, e)}
    BY <1>0, <2>1, <2>2 DEF Signal
  <2> HIDE DEF e
  <2>4. \A p : Learns(t, p, con.endpoint, incoming) =>
                 Learns(t, p, con.endpoint, incoming')
    BY <1>0, <2>2, <2>3, LearnsAppend
  <2>5. EndpointComing(con, incoming')
    BY <2>4 DEF EndpointComing
  <2>6. QED
    BY <2>1, <2>5 DEF EndpointComing, Known, Renews, HasNone, Learns
<1>6. ASSUME NEW d \in Distributors, NEW t \in Tokens, Move(d, t)
      PROVE  EndpointComing(con, incoming)'
  <2> DEFINE u == Todo(d, t, "SilentUnregister")
             v == Todo(d, t, "Register")
             x == con.iface
  <2>1. /\ d \in services /\ Known(d, t)
        /\ work' = [work EXCEPT ![d] = @ \o <<u, v>>]
        /\ UNCHANGED <<con, incoming, clients>>
    BY <1>6 DEF Move
  <2>2. d = x /\ d # None /\ work[d] \in Seq(Work)
    BY <1>0, <2>1, ConnectorAssumption DEF OnOrder, TypeOK
  <2>3. u \in Work /\ v \in Work /\ v \in Renewals(u.token)
    <3>1. clients[d][t].key \in VapidKeys \cup {None}
      BY <2>1, KnownEndpoint DEF Tokens
    <3>2. QED
      BY <3>1 DEF Todo, Work, Renewals
  <2> HIDE DEF u, v
  <2>4. work'[d] = Append(Append(work[d], u), v)
        /\ Append(work[d], u) \in Seq(Work)
    BY <2>1, <2>2, <2>3 DEF TypeOK
  <2>5. Renews(work'[d])
    BY <2>2, <2>3, <2>4, RenewsMore DEF EndpointComing
  <2>6. \A S : ~HasNone(work[d], S) => ~HasNone(work'[d], S)
    BY <2>2, <2>3, <2>4, SomeStay
  <2>7. ~HasNone(work[d], Renewals(con.token)) =>
          ~HasNone(work[con.iface], Renewals(con.token))'
    <3>1. ~HasNone(work[d], Renewals(con.token)) =>
            ~HasNone(work'[d], Renewals(con.token))
      BY <2>6
    <3>2. QED
      BY <2>1, <2>2, <3>1 DEF HasNone, Renewals
  <2>8. Renews(work[con.iface])'
    BY <2>1, <2>2, <2>5 DEF Renews
  <2>9. QED
    BY <2>1, <2>2, <2>7, <2>8 DEF EndpointComing, Known, Learns, HasNone, News
<1>7. CASE UNCHANGED vars
  BY <1>7 DEF vars, distributors, EndpointComing, Known, Learns, HasNone,
     Renews
<1>8. QED
  BY <1>1, <1>2, <1>3, <1>4, <1>5, <1>6, <1>7, OrderlySteps

(* When everything has been delivered, the endpoint of an undisturbed      *)
(* registered connector is the one its distributor has for it, however     *)
(* often it registers anew and is moved to another push provider, in       *)
(* whichever order the calls, the moves and the news about them cross.     *)
THEOREM EndpointKnown == ASSUME Undisturbed PROVE Spec => []EndpointAgrees
<1> DEFINE Inv == EndpointComing(con, incoming)
<1>1. Init => Inv
  BY FreshSound DEF Init, EndpointComing
<1>2. TypeOK /\ Orderly /\ Inv /\ [Next]_vars => Inv'
  BY EndpointNext
<1>3. TypeOK /\ Orderly /\ Inv => EndpointAgrees
  <2> SUFFICES ASSUME TypeOK, Orderly, Inv, Quiet, con.iface # None,
                      con.state \in {"Registered", "Registering"}
               PROVE  /\ Known(con.iface, con.token)
                      /\ con.endpoint = clients[con.iface][con.token].endpoint
    BY DEF EndpointAgrees
  <2>1. con.iface \in Distributors
    BY DEF TypeOK, ConnectorState
  <2>2. con.token # NoToken /\ Known(con.iface, con.token)
    BY <2>1, QuietIdle DEF Idle
  <2>3. work[con.iface] = <<>> /\ incoming = <<>>
    BY <2>1 DEF Quiet
  <2>4. /\ HasNone(work[con.iface], Renewals(con.token))
        /\ \A t, p, e : Learns(t, p, e, incoming) => e = p
    BY <2>3, EmptyEntries DEF Learns
  <2>5. QED
    BY <2>2, <2>4 DEF EndpointComing
<1> HIDE DEF Inv
<1>4. QED
  BY <1>1, <1>2, <1>3, OrderlyAlways, ConnectorTypeCorrect, PTL DEF Spec

-----------------------------------------------------------------------------
(* The shape of the queue                                                  *)

(* A registration is queued last.  Behind one that is current, the client  *)
(* is unregistered first; if that is for a new key, the no-op follows.     *)
StartsOver(q) == Len(q) >= 2 /\ q[1] = "Unregister" /\ q[2] = "None"
Shaped(c) ==
  /\ \A i \in DOMAIN c.queue : c.queue[i] = "Register" => i = Len(c.queue)
  /\ c.current = "Register" =>
       c.queue \in {<<>>, <<"Unregister">>} \/ StartsOver(c.queue)
NoRegister(q) == \A i \in DOMAIN q : q[i] # "Register"

LEMMA ProcessNoRegister ==
  ASSUME NEW c \in ConnectorState, NoRegister(c.queue)
  PROVE  LET p == ProcessNextCommand(c) IN
         NoRegister(p.queue) /\ p.current \in {c.current, "Unregister"}
<1> DEFINE p == ProcessNextCommand(c)
<1>0. c.queue \in Seq(Commands) /\ DOMAIN c.queue = 1..Len(c.queue)
      /\ Len(c.queue) \in Nat
  BY DEF ConnectorState
<1>1. \A m \in 1..(Len(c.queue) + 1) : NoRegister(From(c.queue, m))
  <2>1. ASSUME NEW m \in 1..(Len(c.queue) + 1), NEW i \in DOMAIN From(c.queue, m)
        PROVE  From(c.queue, m)[i] # "Register"
    <3>1. /\ DOMAIN From(c.queue, m) = 1..(Len(c.queue) - m + 1)
          /\ From(c.queue, m)[i] = c.queue[m + i - 1]
      <4>1. /\ From(c.queue, m) \in Seq(Commands)
            /\ Len(From(c.queue, m)) = Len(c.queue) - m + 1
            /\ \A j \in 1..(Len(c.queue) - m + 1) :
                 From(c.queue, m)[j] = c.queue[m + j - 1]
        BY <1>0, FromOf
      <4>2. DOMAIN From(c.queue, m) = 1..(Len(c.queue) - m + 1)
        BY <4>1
      <4>3. QED
        BY <4>1, <4>2
    <3>2. m + i - 1 \in 1..Len(c.queue)
      BY <1>0, <3>1
    <3>3. QED
      BY <1>0, <3>1, <3>2 DEF NoRegister
  <2>2. QED
    BY <2>1 DEF NoRegister
<1>2. CASE p = c
  BY <1>2
<1>3. CASE p = [c EXCEPT !.queue = <<>>]
  BY <1>3 DEF ConnectorState, NoRegister
<1>4. ASSUME NEW m \in DOMAIN c.queue, p = [c EXCEPT !.queue = From(c.queue, m)]
      PROVE  NoRegister(p.queue) /\ p.current = c.current
  BY <1>0, <1>1, <1>4 DEF ConnectorState
<1>5. ASSUME NEW m \in DOMAIN c.queue, Runs1(c, p, m)
      PROVE  NoRegister(p.queue) /\ p.current = "Unregister"
  <2>1. c.queue[m] = "Unregister" /\ NoRegister(From(c.queue, m + 1))
    BY <1>0, <1>1, <1>5 DEF Runs1, Done, NoRegister, Commands
  <2>2. p.queue = From(c.queue, m + 1) /\ p.current = "Unregister"
    BY <1>5, <2>1 DEF Runs1, Issue, ConnectorState
  <2>3. QED
    BY <2>1, <2>2
<1>6. QED
  <2>1. \/ p = c \/ p = [c EXCEPT !.queue = <<>>]
        \/ \E m \in DOMAIN c.queue : p = [c EXCEPT !.queue = From(c.queue, m)]
        \/ \E m \in DOMAIN c.queue : Runs1(c, p, m)
    BY ProcessCases, Zenon DEF Skips
  <2>2. QED
    BY <1>2, <1>3, <1>4, <1>5, <2>1

LEMMA ProcessShaped ==
  ASSUME NEW c \in ConnectorState, Shaped(c)
  PROVE  Shaped(ProcessNextCommand(c))
<1> DEFINE p == ProcessNextCommand(c)
           n == Len(c.queue)
<1>0. /\ c.queue \in Seq(Commands) /\ DOMAIN c.queue = 1..n /\ n \in Nat
      /\ \A i \in 1..n : c.queue[i] = "Register" => i = n
  BY DEF ConnectorState, Shaped
<1>1. ASSUME NEW m \in 1..(n + 1), NEW i \in DOMAIN From(c.queue, m),
             From(c.queue, m)[i] = "Register"
      PROVE  i = Len(From(c.queue, m))
  <2>1. /\ DOMAIN From(c.queue, m) = 1..(n - m + 1)
        /\ Len(From(c.queue, m)) = n - m + 1
        /\ From(c.queue, m)[i] = c.queue[m + i - 1]
    <3>1. /\ From(c.queue, m) \in Seq(Commands)
          /\ Len(From(c.queue, m)) = n - m + 1
          /\ \A j \in 1..(n - m + 1) :
               From(c.queue, m)[j] = c.queue[m + j - 1]
      BY <1>0, FromOf
    <3>2. DOMAIN From(c.queue, m) = 1..(n - m + 1)
      BY <3>1
    <3>3. QED
      BY <3>1, <3>2
  <2>2. m \in Int /\ i \in Int /\ n \in Nat /\ 1 <= m /\ 1 <= i /\ i <= n - m + 1
    BY <1>0, <2>1
  <2>3. m + i - 1 \in 1..n /\ c.queue[m + i - 1] = "Register"
    BY <1>1, <2>1, <2>2, SMT
  <2> HIDE DEF n
  <2>4. m + i - 1 = n
    BY <1>0, <2>3
  <2>5. QED
    BY <2>1, <2>2, <2>4
<1>2. CASE p = c
  BY <1>2
<1>3. ASSUME c.current = "None", p = [c EXCEPT !.queue = <<>>] PROVE Shaped(p)
  BY <1>3 DEF ConnectorState, Shaped
<1>4. ASSUME c.current = "None", NEW m \in DOMAIN c.queue,
             p = [c EXCEPT !.queue = From(c.queue, m)]
      PROVE  Shaped(p)
  <2>1. p.queue = From(c.queue, m) /\ p.current = "None" /\ m \in 1..(n + 1)
    BY <1>0, <1>4 DEF ConnectorState
  <2>2. QED
    BY <1>1, <2>1 DEF Shaped
<1>5. ASSUME NEW m \in DOMAIN c.queue, Runs1(c, p, m) PROVE Shaped(p)
  <2>1. c.queue[m] \in {"Register", "Unregister"} /\ m + 1 \in 1..(n + 1)
    BY <1>0, <1>5 DEF Runs1, Done, Commands
  <2>2. p.queue = From(c.queue, m + 1) /\ p.current = c.queue[m]
    BY <1>5, <2>1 DEF Runs1, Issue, ConnectorState
  <2>3. c.queue[m] = "Register" => From(c.queue, m + 1) = <<>>
    <3>1. ASSUME m = n PROVE From(c.queue, m + 1) = <<>>
      <4>1. /\ From(c.queue, n + 1) \in Seq(Commands)
            /\ Len(From(c.queue, n + 1)) = n - (n + 1) + 1
        BY <1>0, <2>1, <3>1, FromOf
      <4>2. Len(From(c.queue, n + 1)) = 0
        BY <1>0, <4>1
      <4>3. QED
        BY <3>1, <4>1, <4>2, EmptySeq
    <3>2. QED
      BY <1>0, <3>1
  <2>4. QED
    BY <1>1, <2>1, <2>2, <2>3 DEF Shaped
<1>6. QED
  <2>1. \/ p = c
        \/ c.current = "None" /\ p = [c EXCEPT !.queue = <<>>]
        \/ /\ c.current = "None"
           /\ \E m \in DOMAIN c.queue : p = [c EXCEPT !.queue = From(c.queue, m)]
        \/ \E m \in DOMAIN c.queue : Runs1(c, p, m)
    BY ProcessCases, Zenon DEF Skips
  <2>2. QED
    BY <1>2, <1>3, <1>4, <1>5, <2>1

(* A command is appended unless it cancels the last one; after that, no    *)
(* registration is behind another command.                                 *)
LEMMA AddShaped ==
  ASSUME NEW c \in ConnectorState, Shaped(c),
         NEW cmd \in {"Register", "Unregister"}
  PROVE  Shaped(AddCommand(c, cmd))
<1> DEFINE p == AddCommand(c, cmd)
           q == [c EXCEPT !.queue = Append(@, cmd)]
           n == Len(c.queue)
<1>0. /\ c.queue \in Seq(Commands) /\ DOMAIN c.queue = 1..n /\ n \in Nat
      /\ \A i \in 1..n : c.queue[i] = "Register" => i = n
      /\ c.queue # <<>> => n # 0 /\ Last(c.queue) = c.queue[n]
  BY EmptySeq DEF ConnectorState, Shaped, Last
<1>1. CASE p = c
  BY <1>1
<1>2. ASSUME c.queue # <<>>, Cancel(Last(c.queue), cmd),
             p = [c EXCEPT !.queue = Front(@)]
      PROVE  Shaped(p)
  <2> DEFINE f == Front(c.queue)
  <2>1. /\ f \in Seq(Commands) /\ Len(f) = n - 1 /\ DOMAIN f = 1..(n - 1)
        /\ \A i \in 1..(n - 1) : f[i] = c.queue[i]
    BY <1>0, <1>2, FrontOf
  <2>2. p.queue = f /\ p.current = c.current
    BY <1>2 DEF ConnectorState
  <2>3. c.queue[n] # "None"
    BY <1>0, <1>2 DEF Cancel
  <2> HIDE DEF f
  <2>4. \A i \in DOMAIN f : f[i] # "Register"
    BY <1>0, <2>1
  <2>5. ASSUME c.current = "Register" PROVE f = <<>> \/ StartsOver(f)
    <3>1. CASE c.queue = <<"Unregister">>
      <4>1. n = 1
        BY <3>1
      <4>2. QED
        BY <2>1, <4>1, EmptySeq
    <3>2. CASE StartsOver(c.queue)
      <4>1. n >= 3
        BY <1>0, <2>3, <3>2 DEF StartsOver
      <4>2. QED
        BY <1>0, <2>1, <3>2, <4>1 DEF StartsOver
    <3>3. QED
      BY <1>2, <2>5, <3>1, <3>2 DEF Shaped
  <2>6. QED
    BY <2>2, <2>4, <2>5 DEF Shaped
<1>3. ASSUME p = ProcessNextCommand(q), q \in ConnectorState,
             c.queue # <<>> => Last(c.queue) # cmd
                               /\ ~Cancel(Last(c.queue), cmd),
             c.queue = <<>> => c.current # cmd
      PROVE  Shaped(p)
  <2>1. /\ q.queue = Append(c.queue, cmd) /\ q.current = c.current
        /\ Len(q.queue) = n + 1 /\ DOMAIN q.queue = 1..(n + 1)
        /\ q.queue[n + 1] = cmd /\ \A i \in 1..n : q.queue[i] = c.queue[i]
    BY <1>0 DEF ConnectorState
  <2>2. c.queue # <<>> => c.queue[n] = "None"
    <3>1. ASSUME c.queue # <<>>
          PROVE  c.queue[n] \in Commands \ {"Register", "Unregister"}
      BY <1>0, <1>3, <3>1 DEF Cancel
    <3>2. QED
      BY <3>1 DEF Commands
  <2>3. \A i \in DOMAIN q.queue : q.queue[i] = "Register" => i = n + 1
    BY <1>0, <2>1, <2>2
  <2>4. ASSUME c.current = "Register"
        PROVE  q.queue = <<"Unregister">> \/ StartsOver(q.queue)
    <3>1. CASE c.queue = <<>>
      BY <1>3, <2>1, <2>4, <3>1
    <3>2. CASE c.queue = <<"Unregister">>
      BY <2>2, <3>2
    <3>3. CASE StartsOver(c.queue)
      BY <1>0, <2>1, <3>3 DEF StartsOver
    <3>4. QED
      BY <2>4, <3>1, <3>2, <3>3 DEF Shaped
  <2>5. Shaped(q)
    BY <2>1, <2>3, <2>4 DEF Shaped
  <2> HIDE DEF q
  <2>6. QED
    BY <1>3, <2>5, ProcessShaped
<1>4. QED
  BY <1>1, <1>2, <1>3, AddCases DEF Commands

(* Nothing becomes of a current command but by what the bus delivers.      *)
LEMMA BusyStays ==
  ASSUME NEW c \in ConnectorState, c.current # "None", NEW cmd \in Commands
  PROVE  AddCommand(c, cmd).current = c.current
<1> DEFINE p == AddCommand(c, cmd)
           q == [c EXCEPT !.queue = Append(@, cmd)]
<1>1. q.current = c.current
  BY DEF ConnectorState
<1>2. q.current # "None" => ProcessNextCommand(q) = q
  BY DEF ProcessNextCommand
<1>3. [c EXCEPT !.queue = Front(@)].current = c.current
  BY DEF ConnectorState
<1> HIDE DEF q
<1>4. p = c \/ p = [c EXCEPT !.queue = Front(@)] \/ p = ProcessNextCommand(q)
  BY AddCases DEF q
<1>5. QED
  BY <1>1, <1>2, <1>3, <1>4

(* An unregistration that is added leaves no registration in the queue.    *)
LEMMA UnregisterLast ==
  ASSUME NEW c \in ConnectorState, Shaped(c)
  PROVE  LET p == AddCommand(c, "Unregister") IN
         NoRegister(p.queue) /\ (p.current = "Register" => p.queue # <<>>)
<1> DEFINE p == AddCommand(c, "Unregister")
           q == [c EXCEPT !.queue = Append(@, "Unregister")]
           n == Len(c.queue)
<1>0. /\ c.queue \in Seq(Commands) /\ DOMAIN c.queue = 1..n /\ n \in Nat
      /\ \A i \in 1..n : c.queue[i] = "Register" => i = n
      /\ c.queue # <<>> => n # 0 /\ Last(c.queue) = c.queue[n]
  BY EmptySeq DEF ConnectorState, Shaped, Last
<1>1. ASSUME p = c, c.queue # <<>>, Last(c.queue) = "Unregister"
      PROVE  NoRegister(p.queue) /\ p.queue # <<>>
  BY <1>0, <1>1 DEF NoRegister
<1>2. ASSUME p = c, c.queue = <<>>, c.current = "Unregister"
      PROVE  NoRegister(p.queue) /\ p.current # "Register"
  BY <1>0, <1>2 DEF NoRegister
<1>3. ASSUME c.queue # <<>>, Cancel(Last(c.queue), "Unregister"),
             p = [c EXCEPT !.queue = Front(@)]
      PROVE  NoRegister(p.queue) /\ (p.current = "Register" => p.queue # <<>>)
  <2> DEFINE f == Front(c.queue)
  <2>1. /\ f \in Seq(Commands) /\ Len(f) = n - 1 /\ DOMAIN f = 1..(n - 1)
        /\ \A i \in 1..(n - 1) : f[i] = c.queue[i]
    BY <1>0, <1>3, FrontOf
  <2>2. p.queue = f /\ p.current = c.current
    BY <1>3 DEF ConnectorState
  <2>3. c.queue[n] = "Register"
    BY <1>0, <1>3 DEF Cancel
  <2> HIDE DEF f
  <2>4. \A i \in DOMAIN f : f[i] # "Register"
    BY <1>0, <2>1
  <2>5. ASSUME c.current = "Register" PROVE f # <<>>
    <3>1. c.queue # <<"Unregister">>
      BY <2>3
    <3>2. n >= 2
      BY <1>3, <2>5, <3>1 DEF Shaped, StartsOver
    <3>3. Len(f) # 0
      BY <1>0, <2>1, <3>2
    <3>4. QED
      BY <3>3
  <2>6. QED
    BY <2>2, <2>4, <2>5 DEF NoRegister
<1>4. ASSUME p = ProcessNextCommand(q), q \in ConnectorState,
             c.queue # <<>> => ~Cancel(Last(c.queue), "Unregister")
      PROVE  NoRegister(p.queue) /\ (p.current = "Register" => p.queue # <<>>)
  <2>1. /\ q.queue = Append(c.queue, "Unregister") /\ q.current = c.current
        /\ Len(q.queue) = n + 1 /\ DOMAIN q.queue = 1..(n + 1)
        /\ q.queue[n + 1] = "Unregister"
        /\ \A i \in 1..n : q.queue[i] = c.queue[i]
    BY <1>0 DEF ConnectorState
  <2>2. \A i \in 1..n : c.queue[i] # "Register"
    BY <1>0, <1>4 DEF Cancel
  <2>3. NoRegister(q.queue)
    <3>1. \A i \in 1..(n + 1) : i \in 1..n \/ i = n + 1
      BY <1>0
    <3>2. QED
      BY <2>1, <2>2, <3>1 DEF NoRegister
  <2>4. q.queue # <<>>
    BY <1>0, <2>1
  <2> HIDE DEF q
  <2>5. NoRegister(p.queue) /\ p.current \in {q.current, "Unregister"}
    BY <1>4, <2>3, ProcessNoRegister
  <2>6. ASSUME p.current = "Register" PROVE p.queue # <<>>
    <3>1. q.current = "Register"
      BY <2>5, <2>6
    <3>2. p = q
      BY <1>4, <3>1 DEF ProcessNextCommand
    <3>3. QED
      BY <2>4, <3>2
  <2>7. QED
    BY <2>5, <2>6
<1>5. QED
  BY <1>1, <1>2, <1>3, <1>4, AddCases DEF Commands

(* So does the no-op that follows it.                                      *)
LEMMA BarrierShaped ==
  ASSUME NEW c \in ConnectorState, Shaped(c), NoRegister(c.queue),
         c.current = "Register" => c.queue # <<>>
  PROVE  LET p == AddCommand(c, "None") IN
         /\ Shaped(p)
         /\ c.current = "Register" => StartsOver(p.queue)
<1> DEFINE p == AddCommand(c, "None")
           q == [c EXCEPT !.queue = Append(@, "None")]
           n == Len(c.queue)
<1>0. /\ c.queue \in Seq(Commands) /\ DOMAIN c.queue = 1..n /\ n \in Nat
      /\ c.queue # <<>> => n # 0 /\ Last(c.queue) = c.queue[n]
  BY EmptySeq DEF ConnectorState, Last
<1>1. ASSUME p = c, c.queue = <<>> \/ Last(c.queue) = "None"
      PROVE  Shaped(p) /\ (c.current = "Register" => StartsOver(p.queue))
  <2>1. ASSUME c.current = "Register" PROVE c.queue # <<"Unregister">>
    <3>1. c.queue # <<>> /\ c.queue[n] = "None"
      BY <1>0, <1>1, <2>1
    <3>2. QED
      BY <3>1
  <2>2. QED
    BY <1>1, <2>1 DEF Shaped
<1>2. ASSUME p = ProcessNextCommand(q), q \in ConnectorState
      PROVE  Shaped(p) /\ (c.current = "Register" => StartsOver(p.queue))
  <2>1. /\ q.queue = Append(c.queue, "None") /\ q.current = c.current
        /\ Len(q.queue) = n + 1 /\ DOMAIN q.queue = 1..(n + 1)
        /\ q.queue[n + 1] = "None"
        /\ \A i \in 1..n : q.queue[i] = c.queue[i]
    BY <1>0 DEF ConnectorState
  <2>2. NoRegister(q.queue)
    <3>1. \A i \in 1..(n + 1) : i \in 1..n \/ i = n + 1
      BY <1>0
    <3>2. QED
      BY <1>0, <2>1, <3>1 DEF NoRegister
  <2>3. ASSUME c.current = "Register" PROVE p = q /\ StartsOver(q.queue)
    <3>1. CASE c.queue = <<"Unregister">>
      BY <1>2, <2>1, <2>3, <3>1 DEF ProcessNextCommand, StartsOver
    <3>2. CASE StartsOver(c.queue)
      <4>1. StartsOver(q.queue)
        BY <1>0, <2>1, <3>2 DEF StartsOver
      <4>2. QED
        BY <1>2, <2>1, <2>3, <4>1 DEF ProcessNextCommand
    <3>3. QED
      BY <2>3, <3>1, <3>2 DEF Shaped
  <2>4. Shaped(q)
    BY <2>1, <2>2, <2>3 DEF Shaped, NoRegister
  <2> HIDE DEF q
  <2>5. Shaped(p)
    BY <1>2, <2>4, ProcessShaped
  <2>6. QED
    BY <2>3, <2>5
<1>3. \A last \in Commands : ~Cancel(last, "None")
  BY DEF Cancel
<1>4. c.queue # <<>> => Last(c.queue) \in Commands
  BY <1>0
<1> HIDE DEF q
<1>5. \/ p = c /\ (c.queue = <<>> \/ Last(c.queue) = "None")
      \/ p = ProcessNextCommand(q) /\ q \in ConnectorState
  BY <1>3, <1>4, AddCases DEF Commands, q
<1>6. QED
  BY <1>1, <1>2, <1>5

(* A registration that is current starts over after setVapidPublicKey(),   *)
(* whatever was queued behind it, and stays so.                            *)
LEMMA StartsOverStays ==
  ASSUME NEW c \in ConnectorState, c.current = "Register",
         StartsOver(c.queue), NEW cmd \in {"Register", "Unregister"}
  PROVE  LET p == AddCommand(c, cmd) IN
         p.current = "Register" /\ StartsOver(p.queue)
<1> DEFINE p == AddCommand(c, cmd)
           q == [c EXCEPT !.queue = Append(@, cmd)]
           n == Len(c.queue)
<1>0. /\ c.queue \in Seq(Commands) /\ DOMAIN c.queue = 1..n /\ n \in Nat
      /\ n >= 2 /\ Last(c.queue) = c.queue[n]
  BY EmptySeq DEF ConnectorState, Last, StartsOver
<1>1. p = c => p.current = "Register" /\ StartsOver(p.queue)
  OBVIOUS
<1>2. ASSUME c.queue # <<>>, Cancel(Last(c.queue), cmd),
             p = [c EXCEPT !.queue = Front(@)]
      PROVE  p.current = "Register" /\ StartsOver(p.queue)
  <2> DEFINE f == Front(c.queue)
  <2>1. /\ f \in Seq(Commands) /\ Len(f) = n - 1
        /\ \A i \in 1..(n - 1) : f[i] = c.queue[i]
    BY <1>0, <1>2, FrontOf
  <2>2. p.queue = f /\ p.current = "Register"
    BY <1>2 DEF ConnectorState
  <2>3. n # 2
    BY <1>0, <1>2 DEF Cancel, StartsOver
  <2> HIDE DEF f, p, n
  <2>4. Len(f) >= 2 /\ f[1] = c.queue[1] /\ f[2] = c.queue[2]
    <3>1. n - 1 \in Nat /\ n - 1 >= 2
      BY <1>0, <2>3
    <3>2. 1 \in 1..(n - 1) /\ 2 \in 1..(n - 1)
      BY <3>1
    <3>3. QED
      BY <2>1, <3>1, <3>2
  <2>5. StartsOver(f)
    BY <2>4 DEF StartsOver
  <2>6. QED
    BY <2>2, <2>5
<1>3. ASSUME p = ProcessNextCommand(q)
      PROVE  p.current = "Register" /\ StartsOver(p.queue)
  <2>1. /\ q.queue = Append(c.queue, cmd) /\ q.current = "Register"
        /\ Len(q.queue) = n + 1 /\ \A i \in 1..n : q.queue[i] = c.queue[i]
    BY <1>0 DEF ConnectorState
  <2>2. p = q
    BY <1>3, <2>1 DEF ProcessNextCommand
  <2>3. QED
    BY <1>0, <2>1, <2>2 DEF StartsOver
<1>4. QED
  BY <1>1, <1>2, <1>3, AddCases DEF Commands

LEMMA ReregisterShaped ==
  ASSUME TypeOK, NEW c \in ConnectorState, Sound(c), Shaped(c)
  PROVE  LET p == Reregister(c) IN
         /\ Shaped(p)
         /\ c.current = "Register" =>
              p.current = "Register" /\ StartsOver(p.queue)
<1> DEFINE c1 == AddCommand(c, "Unregister")
           c2 == AddCommand(c1, "None")
           c3 == AddCommand(c2, "Register")
<1>1. /\ c1 \in ConnectorState /\ Sound(c1) /\ Shaped(c1)
      /\ NoRegister(c1.queue) /\ (c1.current = "Register" => c1.queue # <<>>)
  BY AddKeepsType, AddShaped, UnregisterLast DEF Commands
<1>2. c.current = "Register" => c1.current = "Register"
  BY BusyStays DEF Commands
<1> HIDE DEF c1
<1>3. /\ c2 \in ConnectorState /\ Shaped(c2)
      /\ c1.current = "Register" => StartsOver(c2.queue)
  BY <1>1, AddKeepsType, BarrierShaped DEF Commands
<1>4. c1.current = "Register" => c2.current = "Register"
  BY <1>1, BusyStays DEF Commands
<1> HIDE DEF c2
<1>5. /\ Shaped(c3)
      /\ c.current = "Register" => c3.current = "Register" /\ StartsOver(c3.queue)
  BY <1>2, <1>3, <1>4, AddShaped, StartsOverStays
<1>6. QED
  BY <1>5 DEF Reregister, c1, c2

LEMMA ShapedNext == TypeOK /\ Shaped(con) /\ [Next]_vars => Shaped(con)'
<1> SUFFICES ASSUME TypeOK, Shaped(con), [Next]_vars PROVE Shaped(con')
  BY DEF Shaped, StartsOver
<1>1. CASE SameQueue(con, con') \/ con' = Fresh
  BY <1>1, FreshSound DEF SameQueue, Shaped, Fresh
<1>2. ASSUME NEW b \in ConnectorState, NEW c \in ConnectorState, Sound(b),
             Queues(b, c), con' = [c EXCEPT !.call = "None"],
             b.queue \in {con.queue, <<>>}, b.current \in {con.current, "None"}
      PROVE  Shaped(con')
  <2>1. Shaped(b)
    BY <1>2 DEF Shaped
  <2>2. AddCommand(b, "Register") \in ConnectorState
        /\ Shaped(AddCommand(b, "Register"))
    BY <1>2, <2>1, AddKeepsType, AddShaped DEF Commands
  <2>3. Shaped(ProcessNextCommand(b))
        /\ Shaped(ProcessNextCommand(AddCommand(b, "Register")))
    BY <2>1, <2>2, ProcessShaped
  <2>4. Shaped(AddCommand(b, "Unregister")) /\ Shaped(Reregister(b))
    BY <1>2, <2>1, AddShaped, ReregisterShaped
  <2>5. Shaped(c)
    BY <1>2, <2>1, <2>2, <2>3, <2>4 DEF Queues
  <2>6. con'.queue = c.queue /\ con'.current = c.current
    BY <1>2 DEF ConnectorState
  <2>7. QED
    BY <2>5, <2>6 DEF Shaped
<1>3. QED
  BY <1>1, <1>2, QueueSteps DEF QueueHandled

LEMMA ShapedAlways == Spec => []Shaped(con)
<1>1. Init => Shaped(con)
  BY FreshSound DEF Init, Shaped, Fresh
<1>2. QED
  BY <1>1, ShapedNext, ConnectorTypeCorrect, PTL DEF Spec

-----------------------------------------------------------------------------
(* The key in use                                                          *)

(* A registered client leaves first, when that is the next command.        *)
LEMMA ProcessLeaves ==
  ASSUME NEW c \in ConnectorState, c.current = "None", c.iface # None,
         c.queue # <<>>, c.queue[1] = "Unregister", c.state # "Unregistered"
  PROVE  ProcessNextCommand(c).current = "Unregister"
<1> DEFINE p == ProcessNextCommand(c)
<1>1. /\ 1 \in DOMAIN c.queue /\ Ready(c, c.queue[1]) /\ ~Done(c, c.queue[1])
      /\ c.queue \in Seq(Commands) /\ DOMAIN c.queue \subseteq Nat \ {0}
  BY EmptySeq DEF Ready, Done, ConnectorState
<1>2. ASSUME NEW m, DroppedTo(c, m) PROVE m = 1
  <2>1. m \in Nat \ {0}
    BY <1>1, <1>2 DEF DroppedTo
  <2>2. m # 1 => 1 \in 1..(m - 1)
    BY <2>1
  <2>3. QED
    BY <1>1, <1>2, <2>2 DEF DroppedTo
<1>3. PICK m \in DOMAIN c.queue : Runs1(c, p, m)
  BY <1>1, <1>2, ProcessCases DEF Skips
<1>4. p = Issue([c EXCEPT !.queue = From(c.queue, 2)], "Unregister")
  BY <1>2, <1>3 DEF Runs1
<1>5. QED
  BY <1>4 DEF Issue, ConnectorState

LEMMA ReregisterLeaves ==
  ASSUME TypeOK, NEW c \in ConnectorState, Sound(c), c.iface # None,
         c.current = "Unregister" \/
           (c.current = "None" /\ c.queue = <<>> /\ c.state = "Registered")
  PROVE  Reregister(c).current = "Unregister"
<1> DEFINE c1 == AddCommand(c, "Unregister")
           c2 == AddCommand(c1, "None")
           c3 == AddCommand(c2, "Register")
           q == [c EXCEPT !.queue = Append(@, "Unregister")]
<1>1. c1 \in ConnectorState /\ Sound(c1)
  BY AddKeepsType DEF Commands
<1>2. c1.current = "Unregister"
  <2>1. CASE c.current = "Unregister"
    BY <2>1, BusyStays DEF Commands
  <2>2. CASE c.current = "None" /\ c.queue = <<>> /\ c.state = "Registered"
    <3>1. c1 = ProcessNextCommand(q)
      BY <2>2 DEF AddCommand
    <3>2. /\ q.queue = <<"Unregister">> /\ q.iface # None
          /\ q.current = "None" /\ q.state = "Registered"
      BY <2>2 DEF ConnectorState
    <3>3. q \in ConnectorState
      BY DEF ConnectorState, Commands
    <3>4. q.queue # <<>> /\ q.queue[1] = "Unregister"
      BY <3>2
    <3> HIDE DEF q
    <3>5. QED
      BY <3>1, <3>2, <3>3, <3>4, ProcessLeaves
  <2>3. QED
    BY <2>1, <2>2
<1> HIDE DEF c1
<1>3. c2 \in ConnectorState /\ c2.current = "Unregister"
  BY <1>1, <1>2, AddKeepsType, BusyStays DEF Commands
<1> HIDE DEF c2
<1>4. c3.current = "Unregister"
  BY <1>3, BusyStays DEF Commands
<1>5. QED
  BY <1>4 DEF Reregister, c1, c2

(* The registration of c at its distributor, current or to come, is with   *)
(* the key of c, or is going to end.                                       *)
OtherKey(t, k) == {w \in Work : w.op = "Register" /\ w.token = t /\ w.key # k}
KeyAgrees(c) ==
  /\ HasNone(work[c.iface], OtherKey(c.token, c.key))
  /\ Known(c.iface, c.token) => clients[c.iface][c.token].key = c.key
KeyKept(c) ==
  c.iface # None /\ c.token # NoToken /\ VersionOf[c.iface] = "v2" =>
    \/ c.current = "Unregister"
    \/ c.current = "Register" /\ StartsOver(c.queue)
    \/ KeyAgrees(c)

LEMMA KeyHandled ==
  ASSUME TypeOK, NEW b, NEW c, NEW rest, Handles(b, c, rest), KeyKept(b),
         b.current = "Register" /\ StartsOver(b.queue) => StartsOver(c.queue)
  PROVE  KeyKept(con)'
<1> DEFINE d == b.iface
<1>0. /\ \A x, t : Known(x, t)' <=> Known(x, t)
      /\ clients' = clients /\ b \in ConnectorState /\ c \in ConnectorState
      /\ OnOrder(b, rest) /\ con'.queue = c.queue
  BY DEF Handles, Known, ConnectorState
<1>1. con'.key = b.key
  <2>1. c.key = b.key
    BY <1>0 DEF Handles, Outcome, Issue, ConnectorState
  <2>2. QED
    BY <1>0, <2>1 DEF Handles, ConnectorState
<1>2. CASE Keeps(b, rest)
  <2>1. /\ con'.iface = d /\ con'.token = b.token /\ con'.current = b.current
        /\ work' = work
    BY <1>2 DEF Keeps, SameOrder
  <2>2. KeyAgrees(b) => KeyAgrees(con)'
    BY <1>0, <1>1, <2>1 DEF KeyAgrees, HasNone, OtherKey
  <2>3. StartsOver(c.queue) => StartsOver(con.queue)'
    BY <1>0 DEF StartsOver
  <2>4. QED
    BY <2>1, <2>2, <2>3 DEF KeyKept
<1>3. CASE Asks(b, rest)
  <2> DEFINE k == IF VersionOf[d] = "v2" THEN b.key ELSE None
             w == AskJob(issued + 1, k)
             t == issued + 1
  <2>0. /\ d # None /\ d \in Distributors /\ con'.iface = d
        /\ con'.token = t /\ issued \in Nat
        /\ work[d] \in Seq(Work) /\ Somewhere(b, rest)
    BY <1>0, <1>3, ConSound DEF Asks, TypeOK, ConnectorState, OnOrder
  <2>1. w \in Work /\ (VersionOf[d] = "v2" => w.key = b.key)
    BY <1>0, <1>3 DEF Asks, AskJob, Work, ConnectorState
  <2>2. work'[d] = Append(work[d], w)
    BY <1>3, <2>0 DEF Asks, TypeOK
  <2> HIDE DEF w
  <2>3. ASSUME VersionOf[d] = "v2" PROVE KeyAgrees(con)'
    <3>1. HasNone(work[d], OtherKey(t, b.key))
      <4>1. work[d] \in Seq(Jobs(issued))
        BY <2>0 DEF Somewhere
      <4>2. \A i \in DOMAIN work[d] : work[d][i] \in Jobs(issued)
        BY <4>1
      <4>3. ~(t <= issued)
        BY <2>0
      <4>4. QED
        BY <4>2, <4>3 DEF HasNone, OtherKey, Jobs
    <3>2. HasNone(work'[d], OtherKey(t, b.key))
      <4>1. w \notin OtherKey(t, b.key)
        BY <2>1, <2>3 DEF OtherKey
      <4>2. work[d] \in Seq(Work) /\ w \in Work
        BY <2>0, <2>1
      <4> HIDE DEF d, t
      <4>3. HasNone(Append(work[d], w), OtherKey(t, b.key))
        BY <3>1, <4>1, <4>2, AppendEntries
      <4>4. QED
        BY <2>2, <4>3
    <3>3. ~Known(d, t)
      <4>1. t \in Tokens => ~(t <= issued)
        BY <2>0
      <4>2. QED
        BY <2>0, <4>1 DEF Somewhere, Known
    <3>4. ~Known(con.iface, con.token)'
      BY <1>0, <2>0, <3>3 DEF Known
    <3>5. HasNone(work[con.iface], OtherKey(con.token, con.key))'
      BY <1>1, <2>0, <3>2 DEF HasNone, OtherKey
    <3>6. QED
      BY <3>4, <3>5 DEF KeyAgrees
  <2>4. QED
    BY <2>0, <2>3 DEF KeyKept
<1>4. CASE TakesLeave(b, rest)
  BY <1>4 DEF TakesLeave, KeyKept
<1>5. QED
  BY <1>2, <1>3, <1>4 DEF Handles

LEMMA KeyHeard ==
  ASSUME TypeOK, OnOrder(con, incoming), NEW b, NEW c, Hears(b, c),
         Handles(b, c, Tail(incoming)), KeyKept(con)
  PROVE  KeyKept(con)' /\ b.required = con.required
<1>0. con \in ConnectorState /\ b \in ConnectorState /\ c \in ConnectorState
  BY DEF TypeOK, Handles
<1>1. c = b \/ c = ProcessNextCommand(b)
  BY DEF Hears, HearsEndpoint, HearsOther, HearsConfirmation, HearsAnswer,
     HearsDistributor
<1>2. b.current = "Register" => c = b
  BY <1>1 DEF ProcessNextCommand
<1>3. ASSUME KeyKept(b) PROVE KeyKept(con)'
  BY <1>2, <1>3, KeyHandled
<1>4. ASSUME b.iface = con.iface, b.token = con.token, b.key = con.key,
             b.current = con.current, b.queue = con.queue
      PROVE  KeyKept(con)'
  BY <1>3, <1>4 DEF KeyKept, KeyAgrees
<1>5. CASE HearsEndpoint(b, c)
  BY <1>0, <1>4, <1>5 DEF HearsEndpoint, ConnectorState
<1>6. CASE HearsOther(b, c)
  BY <1>4, <1>6 DEF HearsOther
<1>7. CASE HearsConfirmation(b, c)
  <2>1. b.token = NoToken /\ b.required = con.required
    BY <1>0, <1>7 DEF HearsConfirmation, ConnectorState
  <2>2. QED
    BY <1>3, <2>1 DEF KeyKept
<1>8. CASE HearsAnswer(b, c)
  <2>1. /\ b.iface = con.iface /\ b.token = con.token /\ b.key = con.key
        /\ b.queue = con.queue /\ b.current = "None" /\ b.state = "Registered"
        /\ b.required = con.required /\ con.current = "Register"
        /\ c = ProcessNextCommand(b)
    BY <1>0, <1>8 DEF HearsAnswer, ConnectorState
  <2>2. b.iface # None
    BY <2>1 DEF OnOrder, Nowhere
  <2>3. CASE StartsOver(con.queue)
    <3>1. b.queue # <<>> /\ b.queue[1] = "Unregister"
      BY <2>1, <2>3 DEF StartsOver
    <3>2. c.current = "Unregister"
      BY <1>0, <2>1, <2>2, <3>1, ProcessLeaves
    <3>3. con'.current = "Unregister"
      BY <1>0, <3>2 DEF Handles, ConnectorState
    <3>4. QED
      BY <2>1, <3>3 DEF KeyKept
  <2>4. CASE ~StartsOver(con.queue)
    <3>1. KeyKept(b)
      BY <2>1, <2>4 DEF KeyKept, KeyAgrees
    <3>2. QED
      BY <1>3, <2>1, <3>1
  <2>5. QED
    BY <2>3, <2>4
<1>9. CASE HearsDistributor(b, c)
  <2>1. con.iface = None /\ con.token = NoToken
    <3>1. con.iface = None
      BY <1>9, Zenon DEF HearsDistributor
    <3>2. QED
      BY <3>1 DEF OnOrder, Nowhere
  <2>2. b.token = con.token /\ b.required = con.required
    <3>1. CASE b = [con EXCEPT !.state = "NoDistributor"]
      BY <1>0, <3>1 DEF ConnectorState
    <3>2. ASSUME NEW x \in services,
                 b = [con EXCEPT !.iface = x, !.state = "Unregistered"]
          PROVE  b.token = con.token /\ b.required = con.required
      BY <1>0, <3>2 DEF ConnectorState
    <3>3. QED
      BY <1>9, <3>1, <3>2, Zenon DEF HearsDistributor
  <2>3. QED
    BY <1>3, <2>1, <2>2 DEF KeyKept
<1>10. (HearsEndpoint(b, c) \/ HearsOther(b, c)) => b.required = con.required
  BY <1>0 DEF HearsEndpoint, HearsOther, ConnectorState
<1>11. QED
  BY <1>5, <1>6, <1>7, <1>8, <1>9, <1>10 DEF Hears

LEMMA KeyTold ==
  ASSUME TypeOK, Runs(con), Shaped(con), KeyKept(con), ~con.required,
         ~Spend("required"), NEW b, NEW c, SameOrder(con, b), Tells(b, c),
         Handles(b, c, incoming)
  PROVE  KeyKept(con)' /\ ~b.required
<1>0. /\ con \in ConnectorState /\ b \in ConnectorState /\ c \in ConnectorState
      /\ OnOrder(b, incoming) /\ con'.current = c.current
      /\ con'.queue = c.queue
  BY DEF TypeOK, Handles, ConnectorState
<1>1. ASSUME KeyKept(b),
             b.current = "Register" /\ StartsOver(b.queue) => StartsOver(c.queue)
      PROVE  KeyKept(con)'
  BY <1>1, KeyHandled
<1>2. ASSUME b = con, NEW cmd \in {"Register", "Unregister"},
             c = AddCommand(con, cmd)
      PROVE  KeyKept(con)' /\ ~b.required
  BY <1>0, <1>1, <1>2, StartsOverStays
<1>3. ASSUME NEW k \in VapidKeys, b = [con EXCEPT !.key = k],
             c = IF b.token = NoToken THEN ProcessNextCommand(b)
                                      ELSE Reregister(b)
      PROVE  KeyKept(con)' /\ ~b.required
  <2>1. /\ b.queue = con.queue /\ b.current = con.current /\ ~b.required
        /\ b.iface = con.iface /\ Sound(b)
    BY <1>0, <1>3, ConSound DEF ConnectorState, Sound
  <2>2. CASE b.token = NoToken
    <3>1. b.current = "Register" => c = b
      BY <1>3, <2>2 DEF ProcessNextCommand
    <3>2. QED
      BY <1>1, <2>1, <2>2, <3>1 DEF KeyKept
  <2>3. CASE b.token # NoToken
    <3>1. c = Reregister(b)
      BY <1>3, <2>3
    <3>2. b.iface # None /\ Somewhere(b, incoming)
      BY <1>0, <2>3 DEF OnOrder, Nowhere
    <3>3. ASSUME b.current = "None"
          PROVE  b.queue = <<>> /\ b.state = "Registered"
      <4>1. b.state = "Registered"
        BY <2>3, <3>2, <3>3
        DEF Somewhere, Idle, Asked, Answered, Leaves, Left
      <4>2. b.queue = <<>>
        BY <2>1, <3>2, <3>3 DEF Runs, Ready
      <4>3. QED
        BY <4>1, <4>2
    <3>4. CASE b.current = "Register"
      <4>1. Shaped(b)
        BY <2>1 DEF Shaped
      <4>2. c.current = "Register" /\ StartsOver(c.queue)
        BY <1>0, <2>1, <3>1, <3>4, <4>1, ReregisterShaped
      <4>3. con'.current = "Register" /\ StartsOver(con.queue)'
        BY <1>0, <4>2 DEF StartsOver
      <4>4. QED
        BY <2>1, <4>3 DEF KeyKept
    <3>5. CASE b.current # "Register"
      <4>1. b.current = "None" \/ b.current = "Unregister"
        BY <1>0, <3>5 DEF ConnectorState, Commands
      <4>2. c.current = "Unregister"
        BY <1>0, <2>1, <3>1, <3>2, <3>3, <4>1, ReregisterLeaves
      <4>3. QED
        BY <1>0, <2>1, <4>2 DEF KeyKept
    <3>6. QED
      BY <3>4, <3>5
  <2>4. QED
    BY <2>2, <2>3
<1>4. ASSUME b = con, c = b PROVE KeyKept(con)' /\ ~b.required
  BY <1>1, <1>4
<1>5. ASSUME b = [con EXCEPT !.hasKeys = TRUE], c = b
      PROVE  KeyKept(con)' /\ ~b.required
  <2>1. /\ b.queue = con.queue /\ b.current = con.current /\ ~b.required
        /\ b.iface = con.iface /\ b.token = con.token /\ b.key = con.key
    BY <1>0, <1>5 DEF ConnectorState
  <2>2. KeyKept(b)
    BY <2>1 DEF KeyKept, KeyAgrees
  <2>3. QED
    BY <1>1, <1>5, <2>1, <2>2
<1>6. QED
  BY <1>2, <1>3, <1>4, <1>5, Zenon DEF Tells

LEMMA KeyWorks ==
  ASSUME TypeOK, OnOrder(con, incoming), NEW d \in Distributors, Works(d),
         KeyKept(con)
  PROVE  KeyKept(con)' /\ con' = con
<1> DEFINE w == Head(work[d])
           t == con.token
           Other == OtherKey(t, con.key)
<1>0. /\ WorkedOff(d) /\ d = con.iface /\ w \in Work /\ w.token \in Tokens
      /\ work[d] \in Seq(Work) /\ work[d] # <<>>
      /\ work'[d] = Tail(work[d]) /\ con' = con
  BY WorksHere DEF WorkedOff, Jobs, Work
<1>1. ASSUME KeyAgrees(con) PROVE KeyAgrees(con)'
  <2>1. HasNone(work[d], Other) /\ (Known(d, t) => clients[d][t].key = con.key)
    BY <1>0, <1>1 DEF KeyAgrees
  <2>2. w \notin Other /\ HasNone(Tail(work[d]), Other)
    BY <1>0, <2>1, TailEntries
  <2>3. HasNone(work[con.iface], OtherKey(con.token, con.key))'
    BY <1>0, <2>2 DEF HasNone, OtherKey
  <2>4. ASSUME NEW e \in Endpoints, HasRegistered(d, w, e)
        PROVE  t \in Tokens /\ clients'[d][t] # None =>
                 clients'[d][t].key = con.key
    <3>1. /\ w.op = "Register"
          /\ clients' = [clients EXCEPT ![d][w.token] =
                           [endpoint |-> e, stored |-> e, key |-> w.key]]
      BY <2>4 DEF HasRegistered
    <3>2. CASE w.token = t
      <4>1. w.key = con.key
        BY <1>0, <2>2, <3>1, <3>2 DEF OtherKey
      <4>2. clients'[d][t].key = w.key
        BY <1>0, <3>1, <3>2 DEF TypeOK
      <4>3. QED
        BY <4>1, <4>2
    <3>3. CASE w.token # t
      <4>1. clients'[d][t] = clients[d][t]
        BY <1>0, <3>1, <3>3 DEF TypeOK
      <4>2. QED
        BY <2>1, <4>1 DEF Known
    <3>4. QED
      BY <3>2, <3>3
  <2>5. ASSUME HasLeft(d, w)
        PROVE  t \in Tokens /\ clients'[d][t] # None =>
                 clients'[d][t].key = con.key
    <3>1. clients' = [clients EXCEPT ![d][w.token] = None]
      BY <2>5 DEF HasLeft
    <3>2. clients'[d][t] = None \/ clients'[d][t] = clients[d][t]
      BY <1>0, <3>1 DEF TypeOK
    <3>3. QED
      BY <2>1, <3>2 DEF Known
  <2>6. ASSUME HasLeftSilently(d, w)
        PROVE  t \in Tokens /\ clients'[d][t] # None =>
                 clients'[d][t].key = con.key
    BY <1>0, <2>1, <2>6 DEF HasLeftSilently, SameClients, Known
  <2>7. t \in Tokens /\ clients'[d][t] # None => clients'[d][t].key = con.key
    BY <2>4, <2>5, <2>6, WorksHere
  <2>8. Known(con.iface, con.token)' <=> t \in Tokens /\ clients'[d][t] # None
    BY <1>0 DEF Known
  <2>9. QED
    BY <1>0, <2>3, <2>7, <2>8 DEF KeyAgrees
<1>2. QED
  BY <1>0, <1>1 DEF KeyKept, StartsOver

LEMMA KeyMoves ==
  ASSUME TypeOK, OnOrder(con, incoming), NEW d \in Distributors,
         NEW t \in Tokens, Move(d, t), KeyKept(con)
  PROVE  KeyKept(con)' /\ con' = con
<1> DEFINE u == Todo(d, t, "SilentUnregister")
           v == Todo(d, t, "Register")
           Other == OtherKey(con.token, con.key)
<1>1. /\ d \in services /\ Known(d, t)
      /\ work' = [work EXCEPT ![d] = @ \o <<u, v>>]
      /\ UNCHANGED <<con, clients>>
  BY DEF Move
<1>2. d = con.iface /\ work[d] \in Seq(Work)
  BY <1>1, ConnectorAssumption DEF OnOrder, TypeOK
<1>3. u \in Work /\ v \in Work /\ v.token = t /\ v.key = clients[d][t].key
      /\ u.op # "Register"
  <2>1. clients[d][t].key \in VapidKeys \cup {None}
    BY <1>1, KnownEndpoint DEF Tokens
  <2>2. QED
    BY <2>1 DEF Todo, Work
<1> HIDE DEF u, v
<1>4. work'[d] = Append(Append(work[d], u), v)
      /\ Append(work[d], u) \in Seq(Work)
  BY <1>1, <1>2, <1>3 DEF TypeOK
<1>5. ASSUME KeyAgrees(con) PROVE KeyAgrees(con)'
  <2>1. HasNone(work[d], Other) /\ (Known(d, con.token) =>
                                      clients[d][con.token].key = con.key)
    BY <1>2, <1>5 DEF KeyAgrees
  <2>2. u \notin Other /\ v \notin Other
    BY <1>1, <1>3, <2>1 DEF OtherKey
  <2>3. HasNone(Append(work[d], u), Other)
    <3> HIDE DEF Other
    <3>1. work[d] \in Seq(Work) /\ u \in Work
      BY <1>2, <1>3
    <3>2. QED
      BY <2>1, <2>2, <3>1, AppendEntries
  <2>4. HasNone(Append(Append(work[d], u), v), Other)
    <3> HIDE DEF Other
    <3>1. Append(work[d], u) \in Seq(Work) /\ v \in Work
      BY <1>3, <1>4
    <3>2. QED
      BY <2>2, <2>3, <3>1, AppendEntries
  <2>5. HasNone(work[con.iface], OtherKey(con.token, con.key))'
    BY <1>1, <1>2, <1>4, <2>4 DEF HasNone, OtherKey
  <2>6. QED
    BY <1>1, <1>2, <2>1, <2>5 DEF KeyAgrees, Known
<1>6. QED
  BY <1>1, <1>5 DEF KeyKept, StartsOver

NeverRequired == \A l \in Limits : l["required"] = 0
KeyInv == KeyKept(con) /\ ~con.required /\ budget["required"] = 0

LEMMA KeyNext ==
  ASSUME TypeOK, Orderly, Runs(con), Shaped(con), KeyInv, [Next]_vars
  PROVE  KeyInv'
<1>0. /\ KeyKept(con) /\ ~con.required /\ budget["required"] = 0
      /\ OnOrder(con, incoming) /\ con \in ConnectorState
  BY DEF KeyInv, Orderly, TypeOK
<1>1. budget'["required"] = 0 /\ ~Spend("required")
  BY <1>0, StaysZero DEF Kinds
<1>2. ASSUME NEW b, NEW c, NEW rest, Handles(b, c, rest), ~b.required
      PROVE  ~con'.required
  <2>1. c.required = b.required
    BY <1>2 DEF Handles, Outcome, Issue, ConnectorState
  <2>2. QED
    BY <1>2, <2>1 DEF Handles, ConnectorState
<1>3. ASSUME NEW b, Starts(b) PROVE KeyInv'
  <2>1. KeyKept(b) /\ Handles(b, b, <<>>) /\ ~b.required
    BY <1>3 DEF Starts, KeyKept
  <2>2. KeyKept(con)'
    BY <2>1, KeyHandled
  <2>3. QED
    BY <1>1, <1>2, <2>1, <2>2 DEF KeyInv
<1>4. ASSUME NEW b, NEW c, SameOrder(con, b), Tells(b, c),
             Handles(b, c, incoming)
      PROVE  KeyInv'
  <2>1. KeyKept(con)' /\ ~b.required
    BY <1>0, <1>1, <1>4, KeyTold
  <2>2. QED
    BY <1>1, <1>2, <1>4, <2>1 DEF KeyInv
<1>5. ASSUME NEW b, NEW c, Hears(b, c), Handles(b, c, Tail(incoming))
      PROVE  KeyInv'
  <2>1. KeyKept(con)' /\ ~b.required
    BY <1>0, <1>5, KeyHeard
  <2>2. QED
    BY <1>1, <1>2, <1>5, <2>1 DEF KeyInv
<1>6. ASSUME NEW d \in Distributors, Works(d) PROVE KeyInv'
  BY <1>0, <1>1, <1>6, KeyWorks DEF KeyInv
<1>7. ASSUME NEW d \in Distributors, NEW t \in Tokens, Move(d, t)
      PROVE  KeyInv'
  BY <1>0, <1>1, <1>7, KeyMoves DEF KeyInv
<1>8. ASSUME UNCHANGED <<con, work, clients>> PROVE KeyInv'
  BY <1>0, <1>1, <1>8
  DEF KeyInv, KeyKept, KeyAgrees, HasNone, OtherKey, Known, StartsOver
<1>9. ASSUME NEW d \in Distributors, DistributorHere(d) PROVE KeyInv'
  BY <1>0, <1>8, <1>9, HereKeepsClients DEF DistributorHere
<1>10. CASE UNCHANGED vars
  BY <1>8, <1>10 DEF vars, distributors
<1>11. QED
  BY <1>3, <1>4, <1>5, <1>6, <1>7, <1>9, <1>10, OrderlySteps

(* When everything has been delivered, a distributor that takes VAPID keys *)
(* has the connector's key: an undisturbed application that does not       *)
(* change whether it requires one may change the key itself at any time,   *)
(* while it is registered, unregistered or moved, and repeatedly.  A       *)
(* registration that is under way is then followed by an unregistration    *)
(* and a no-op, which calls that come later cannot cancel.                 *)
THEOREM NewKeyArrives ==
  ASSUME Undisturbed, NeverRequired PROVE Spec => []KeyInUse
<1>1. Init => KeyInv
  <2>1. Fresh.iface = None /\ Fresh.required = FALSE
    BY DEF Fresh
  <2>2. QED
    BY <2>1 DEF Init, NeverRequired, KeyInv, KeyKept
<1>2. TypeOK /\ Orderly /\ Runs(con) /\ Shaped(con) /\ KeyInv => KeyInUse
  <2> SUFFICES ASSUME TypeOK, Orderly, KeyInv, Quiet, con.iface # None,
                      Known(con.iface, con.token),
                      VersionOf[con.iface] = "v2"
               PROVE  clients[con.iface][con.token].key = con.key
    BY DEF KeyInUse
  <2>1. con.iface \in Distributors
    BY DEF TypeOK, ConnectorState
  <2>2. con.current = "None"
    BY <2>1, QuietIdle DEF Idle
  <2>3. con.token # NoToken
    BY DEF Known, Tokens, NoToken
  <2>4. QED
    BY <2>2, <2>3 DEF KeyInv, KeyKept, KeyAgrees
<1>3. QED
  BY <1>1, <1>2, KeyNext, RunsAlways, ShapedAlways, OrderlyAlways,
     ConnectorTypeCorrect, PTL DEF Spec

-----------------------------------------------------------------------------
(* The last wish                                                           *)

At(c, current, q) == c.current = current /\ c.queue = q

LEMMA ProcessEmpty ==
  ASSUME NEW c \in ConnectorState, c.queue = <<>>
  PROVE  ProcessNextCommand(c) = c
<1>1. [c EXCEPT !.queue = <<>>] = c
  BY DEF ConnectorState
<1>2. \A m \in DOMAIN c.queue : FALSE
  OBVIOUS
<1>3. QED
  BY <1>1, <1>2, ProcessCases DEF Skips

LEMMA ProcessOne ==
  ASSUME NEW c \in ConnectorState, NEW cmd \in Commands,
         At(c, "None", <<cmd>>), c.iface # None, Ready(c, cmd)
  PROVE  LET p == ProcessNextCommand(c) IN
         /\ p.token = IF cmd = "Register" /\ ~Done(c, cmd) /\ c.token = NoToken
                      THEN issued + 1 ELSE c.token
         /\ IF Done(c, cmd) THEN At(p, "None", <<>>) ELSE At(p, cmd, <<>>)
<1> DEFINE p == ProcessNextCommand(c)
<1>1. /\ DOMAIN c.queue = {1} /\ c.queue[1] = cmd /\ c.current = "None"
      /\ c.queue \in Seq(Commands) /\ Len(c.queue) = 1
  BY DEF At, ConnectorState
<1>2. CASE Done(c, cmd)
  <2>1. \A m \in DOMAIN c.queue : Ready(c, c.queue[m]) /\ Done(c, c.queue[m])
    BY <1>1, <1>2
  <2>2. p = [c EXCEPT !.queue = <<>>]
    BY <1>1, <2>1, ProcessCases DEF Skips, Runs1
  <2>3. QED
    BY <1>1, <1>2, <2>2 DEF At, ConnectorState
<1>3. CASE ~Done(c, cmd)
  <2>1. PICK m \in DOMAIN c.queue : Runs1(c, p, m)
    BY <1>1, <1>3, ProcessCases DEF Skips
  <2>2. From(c.queue, 2) = <<>>
    <3>1. From(c.queue, 2) \in Seq(Commands) /\ Len(From(c.queue, 2)) = 0
      <4>1. 2 \in 1..(Len(c.queue) + 1)
        BY <1>1
      <4>2. /\ From(c.queue, 2) \in Seq(Commands)
            /\ Len(From(c.queue, 2)) = Len(c.queue) - 2 + 1
        BY <1>1, <4>1, FromOf
      <4>3. QED
        BY <1>1, <4>2
    <3>2. QED
      BY <3>1, EmptySeq
  <2>3. p = Issue([c EXCEPT !.queue = <<>>], cmd)
    BY <1>1, <2>1, <2>2 DEF Runs1
  <2>4. cmd \in {"Register", "Unregister"}
    BY <1>3 DEF Done, Commands
  <2>5. QED
    BY <1>1, <1>3, <2>3, <2>4 DEF At, Issue, ConnectorState
<1>4. QED
  BY <1>2, <1>3

LEMMA AddFirst ==
  ASSUME NEW c \in ConnectorState, NEW cmd \in {"Register", "Unregister"},
         c.queue = <<>>, c.current # cmd
  PROVE  LET q == [c EXCEPT !.queue = <<cmd>>] IN
         /\ AddCommand(c, cmd) = ProcessNextCommand(q)
         /\ q \in ConnectorState /\ At(q, c.current, <<cmd>>)
         /\ q.iface = c.iface /\ q.token = c.token /\ q.state = c.state
         /\ q.required = c.required
<1>1. AddCommand(c, cmd) = ProcessNextCommand([c EXCEPT !.queue = <<cmd>>])
  BY DEF AddCommand
<1>2. <<cmd>> \in Seq(Commands)
  BY DEF Commands
<1>3. [c EXCEPT !.queue = <<cmd>>] \in ConnectorState
  BY <1>2 DEF ConnectorState
<1>4. QED
  BY <1>1, <1>3 DEF At, ConnectorState

LEMMA AddSecond ==
  ASSUME NEW c \in ConnectorState, NEW cmd \in {"Register", "Unregister"},
         NEW last \in {"Register", "Unregister"}, c.queue = <<last>>
  PROVE  LET p == AddCommand(c, cmd) IN
         /\ p.current = c.current /\ p.token = c.token /\ p.iface = c.iface
         /\ p.queue = IF last = cmd THEN <<cmd>> ELSE <<>>
<1>1. c.queue # <<>> /\ Last(c.queue) = last
  BY DEF Last
<1>2. CASE last = cmd
  BY <1>1, <1>2 DEF AddCommand
<1>3. CASE last # cmd
  <2>1. Cancel(last, cmd)
    BY <1>3 DEF Cancel
  <2>2. AddCommand(c, cmd) = [c EXCEPT !.queue = Front(@)]
    BY <1>1, <1>3, <2>1 DEF AddCommand
  <2>3. Front(c.queue) = <<>>
    <3>1. Front(c.queue) \in Seq(Commands) /\ Len(Front(c.queue)) = 0
      <4>1. c.queue \in Seq(Commands) /\ Len(c.queue) = 1
        BY DEF ConnectorState
      <4>2. /\ Front(c.queue) \in Seq(Commands)
            /\ Len(Front(c.queue)) = Len(c.queue) - 1
        BY <1>1, <4>1, FrontOf
      <4>3. QED
        BY <4>1, <4>2
    <3>2. QED
      BY <3>1, EmptySeq
  <2>4. QED
    BY <1>3, <2>2, <2>3 DEF ConnectorState
<1>4. QED
  BY <1>2, <1>3

(* Without a change of key, registrations and unregistrations take turns:  *)
(* one is current, and the other one may be queued.  Before there is a     *)
(* distributor, one of them may be queued.                                 *)
Turns(c) ==
  IF c.iface = None
  THEN c.queue \in {<<>>, <<"Register">>, <<"Unregister">>}
  ELSE \/ At(c, "None", <<>>) \/ At(c, "Register", <<>>)
       \/ At(c, "Register", <<"Unregister">>) \/ At(c, "Unregister", <<>>)
       \/ At(c, "Unregister", <<"Register">>)

(* It is registered, or about to be, with nothing to follow; so for the    *)
(* opposite.                                                               *)
GetsRegistered(c) ==
  \/ At(c, "Register", <<>>) \/ At(c, "Unregister", <<"Register">>)
  \/ At(c, "None", <<>>) /\ c.token # NoToken
GetsUnregistered(c) ==
  IF c.iface = None THEN c.queue \in {<<>>, <<"Unregister">>}
  ELSE \/ At(c, "Unregister", <<>>) \/ At(c, "Register", <<"Unregister">>)
       \/ At(c, "None", <<>>) /\ c.token = NoToken

LEMMA SameTurns ==
  ASSUME NEW b, NEW c, NEW rest, Handles(b, c, rest)
  PROVE  /\ con'.iface = b.iface /\ c.iface = b.iface
         /\ con'.required = b.required
         /\ Turns(c) => Turns(con)'
         /\ GetsRegistered(c) => GetsRegistered(con)'
         /\ GetsUnregistered(c) => GetsUnregistered(con)'
<1>1. /\ b \in ConnectorState /\ c \in ConnectorState
      /\ Outcome(b, c) /\ con' = [c EXCEPT !.call = "None"]
  BY DEF Handles
<1>2. c.iface = b.iface /\ c.required = b.required
  BY <1>1 DEF Outcome, Issue, ConnectorState
<1>3. /\ con'.iface = c.iface /\ con'.required = c.required
      /\ con'.current = c.current /\ con'.queue = c.queue
      /\ con'.token = c.token
  BY <1>1 DEF ConnectorState
<1>4. \A current, q : At(c, current, q) => At(con, current, q)'
  BY <1>3 DEF At
<1>5. QED
  BY <1>2, <1>3, <1>4 DEF Turns, GetsRegistered, GetsUnregistered

(* The state of a connector without a command tells whether it has been    *)
(* registered.                                                             *)
TellsState(c) ==
  IF c.iface = None THEN c.current = "None"
  ELSE c.current = "None" =>
         c.state = IF c.token = NoToken THEN "Unregistered" ELSE "Registered"

LEMMA OrderTells ==
  ASSUME NEW c, NEW s, OnOrder(c, s)
  PROVE  TellsState(c)
BY DEF TellsState, OnOrder, Nowhere, Somewhere, Idle, Asked, Answered, Leaves, Left

LEMMA AddTurns ==
  ASSUME issued \in Nat, NEW c \in ConnectorState, Turns(c), TellsState(c),
         ~c.required, NEW cmd \in {"Register", "Unregister"}
  PROVE  LET p == AddCommand(c, cmd) IN
         /\ p.iface = c.iface => Turns(p)
         /\ cmd = "Register" /\ c.iface # None => GetsRegistered(p)
         /\ cmd = "Unregister" /\ p.iface = c.iface => GetsUnregistered(p)
<1> DEFINE p == AddCommand(c, cmd)
           q == [c EXCEPT !.queue = <<cmd>>]
           Goal == /\ p.iface = c.iface => Turns(p)
                   /\ cmd = "Register" /\ c.iface # None => GetsRegistered(p)
                   /\ cmd = "Unregister" /\ p.iface = c.iface =>
                        GetsUnregistered(p)
<1>1. ASSUME c.queue = <<>>, c.current = cmd PROVE Goal
  <2>1. p = c /\ At(c, cmd, <<>>) /\ c.iface # None
    BY <1>1 DEF AddCommand, TellsState, At
  <2>2. QED
    BY <2>1 DEF GetsRegistered, GetsUnregistered
<1>2. ASSUME c.queue = <<>>, c.current # cmd PROVE Goal
  <2>1. /\ p = ProcessNextCommand(q)
        /\ q \in ConnectorState /\ At(q, c.current, <<cmd>>)
        /\ q.iface = c.iface /\ q.token = c.token /\ q.state = c.state
        /\ q.required = c.required
    BY <1>2, AddFirst
  <2> HIDE DEF q
  <2>2. CASE c.iface = None \/ c.current # "None"
    <3>1. p = q
      BY <2>1, <2>2 DEF ProcessNextCommand, At
    <3> HIDE DEF p
    <3>2. c.iface # None => c.current \in {"Register", "Unregister"} \ {cmd}
      BY <1>2, <2>2 DEF Turns, At
    <3>3. At(p, c.current, <<cmd>>) /\ p.queue = <<cmd>>
      BY <2>1, <3>1 DEF At
    <3>4. QED
      BY <3>2, <3>3 DEF Turns, GetsRegistered, GetsUnregistered
  <2>3. CASE c.iface # None /\ c.current = "None"
    <3>1. /\ p.token = IF cmd = "Register" /\ ~Done(q, cmd) /\ q.token = NoToken
                       THEN issued + 1 ELSE q.token
          /\ IF Done(q, cmd) THEN At(p, "None", <<>>) ELSE At(p, cmd, <<>>)
      <4>1. cmd \in Commands /\ Ready(q, cmd) /\ At(q, "None", <<cmd>>)
        BY <2>1, <2>3 DEF Commands, Ready
      <4>2. QED
        BY <2>1, <2>3, <4>1, ProcessOne
    <3>2. Done(q, cmd) => (cmd = "Register" <=> c.token # NoToken)
      BY <2>1, <2>3 DEF Done, TellsState
    <3> HIDE DEF p
    <3>3. QED
      BY <2>1, <2>3, <3>1, <3>2 DEF Turns, GetsRegistered, GetsUnregistered
  <2>4. QED
    BY <2>2, <2>3
<1>3. ASSUME NEW last \in {"Register", "Unregister"}, c.queue = <<last>>
      PROVE  Goal
  <2>1. /\ p.current = c.current /\ p.token = c.token /\ p.iface = c.iface
        /\ p.queue = IF last = cmd THEN <<cmd>> ELSE <<>>
    BY <1>3, AddSecond
  <2>2. c.iface # None => c.current \in {"Register", "Unregister"} \ {last}
    BY <1>3 DEF Turns, At
  <2> HIDE DEF p
  <2>3. QED
    BY <2>1, <2>2 DEF Turns, GetsRegistered, GetsUnregistered, At
<1>4. c.queue = <<>> \/ \E last \in {"Register", "Unregister"} : c.queue = <<last>>
  BY DEF Turns, At
<1>5. QED
  BY <1>1, <1>2, <1>3, <1>4

(* The queue, and the last wish                                            *)
LEMMA TurnsTold ==
  ASSUME TypeOK, Turns(con), ~con.required, ~Spend("key"), ~Spend("required"),
         NEW b, NEW c, SameOrder(con, b), Tells(b, c), Handles(b, c, incoming)
  PROVE  /\ Turns(con)' /\ ~con'.required /\ con'.iface = con.iface
         /\ \/ con.iface # None => GetsRegistered(con)'
            \/ wish' = wish /\ (GetsRegistered(con) => GetsRegistered(con)')
            \/ wish' = "unregistered"
         /\ \/ GetsUnregistered(con)'
            \/ wish' = wish /\ (GetsUnregistered(con) => GetsUnregistered(con)')
            \/ wish' = "registered"
<1>0. /\ b \in ConnectorState /\ con \in ConnectorState /\ issued \in Nat
      /\ OnOrder(b, incoming) /\ con'.iface = b.iface /\ c.iface = b.iface
      /\ b.iface = con.iface
  BY SameTurns, ConSound DEF Handles, TypeOK, SameOrder
<1>1. ASSUME NEW cmd \in {"Register", "Unregister"}, b = con,
             c = AddCommand(con, cmd)
      PROVE  /\ Turns(con)' /\ ~con'.required
             /\ cmd = "Register" => (con.iface # None => GetsRegistered(con)')
             /\ cmd = "Unregister" => GetsUnregistered(con)'
  <2>1. TellsState(con)
    BY <1>0, <1>1, OrderTells
  <2>2. /\ Turns(c)
        /\ cmd = "Register" /\ con.iface # None => GetsRegistered(c)
        /\ cmd = "Unregister" => GetsUnregistered(c)
    BY <1>0, <1>1, <2>1, AddTurns
  <2>3. QED
    BY <1>1, <2>2, SameTurns
<1>2. ASSUME c = b, b = con \/ b = [con EXCEPT !.hasKeys = TRUE]
      PROVE  /\ Turns(con)' /\ ~con'.required
             /\ GetsRegistered(con) => GetsRegistered(con)'
             /\ GetsUnregistered(con) => GetsUnregistered(con)'
  <2>1. /\ b.iface = con.iface /\ b.current = con.current /\ b.queue = con.queue
        /\ b.token = con.token /\ b.required = con.required
    BY <1>0, <1>2 DEF ConnectorState
  <2>2. \A current, q : At(con, current, q) => At(b, current, q)
    BY <2>1 DEF At
  <2>3. /\ Turns(b) /\ (GetsRegistered(con) => GetsRegistered(b))
        /\ GetsUnregistered(con) => GetsUnregistered(b)
    BY <2>1, <2>2 DEF Turns, GetsRegistered, GetsUnregistered
  <2>4. QED
    BY <1>2, <2>1, <2>3, SameTurns
<1>3. \/ \E cmd \in {"Register", "Unregister"} :
           /\ b = con /\ c = AddCommand(con, cmd)
           /\ wish' = IF cmd = "Register" THEN "registered" ELSE "unregistered"
      \/ wish' = wish /\ c = b /\ (b = con \/ b = [con EXCEPT !.hasKeys = TRUE])
  BY Zenon DEF Tells
<1>4. QED
  BY <1>0, <1>1, <1>2, <1>3

LEMMA TurnsHeard ==
  ASSUME TypeOK, OnOrder(con, incoming), Turns(con), ~con.required,
         NEW b, NEW c, Hears(b, c), Handles(b, c, Tail(incoming))
  PROVE  /\ Turns(con)' /\ ~con'.required
         /\ con.iface = con'.iface \/ Head(incoming).event = "Here"
         /\ con.iface # None /\ GetsRegistered(con) => GetsRegistered(con)'
         /\ GetsUnregistered(con) => GetsUnregistered(con)'
<1> DEFINE Goal == /\ Turns(c) /\ ~b.required
                   /\ con.iface = b.iface \/ Head(incoming).event = "Here"
                   /\ con.iface # None /\ GetsRegistered(con) => GetsRegistered(c)
                   /\ GetsUnregistered(con) => GetsUnregistered(c)
<1> SUFFICES Goal
  BY SameTurns
<1>0. /\ b \in ConnectorState /\ c \in ConnectorState
      /\ con \in ConnectorState /\ c.iface = b.iface
  BY SameTurns DEF Handles, TypeOK
<1>1. ASSUME c = b, b.iface = con.iface, b.current = con.current,
             b.queue = con.queue, b.token = con.token, ~b.required
      PROVE  Goal
  <2>1. \A current, q : At(con, current, q) => At(c, current, q)
    BY <1>1 DEF At
  <2>2. QED
    BY <1>1, <2>1 DEF Turns, GetsRegistered, GetsUnregistered
<1>2. CASE HearsEndpoint(b, c)
  BY <1>0, <1>1, <1>2 DEF HearsEndpoint, ConnectorState
<1>3. CASE HearsOther(b, c)
  BY <1>1, <1>3 DEF HearsOther
<1>4. ASSUME b.iface # None, b.current = "None", c = ProcessNextCommand(b),
             ~b.required, b.queue = <<>>
      PROVE  At(c, "None", <<>>) /\ c.token = b.token
  <2>1. c = b
    BY <1>0, <1>4, ProcessEmpty
  <2>2. QED
    BY <1>4, <2>1 DEF At
<1>5. ASSUME b.iface # None, b.current = "None", c = ProcessNextCommand(b),
             ~b.required, NEW cmd \in {"Register", "Unregister"},
             b.queue = <<cmd>>,
             b.state \in {"Registered", "Unregistered"}
      PROVE  /\ cmd = "Unregister" => c.token = b.token
             /\ IF cmd = "Register" <=> b.state = "Registered"
                THEN At(c, "None", <<>>) ELSE At(c, cmd, <<>>)
  <2>1. cmd \in Commands /\ Ready(b, cmd) /\ At(b, "None", <<cmd>>)
    BY <1>5 DEF Commands, Ready, At
  <2>2. /\ cmd = "Unregister" => c.token = b.token
        /\ IF Done(b, cmd) THEN At(c, "None", <<>>) ELSE At(c, cmd, <<>>)
    BY <1>0, <1>5, <2>1, ProcessOne
  <2>3. Done(b, cmd) <=> (cmd = "Register" <=> b.state = "Registered")
    BY <1>5 DEF Done
  <2>4. QED
    BY <2>2, <2>3
<1>6. CASE HearsConfirmation(b, c)
  <2>1. /\ b.iface = con.iface /\ b.current = "None" /\ b.token = NoToken
        /\ b.state = "Unregistered" /\ b.queue = con.queue /\ ~b.required
        /\ con.current = "Unregister" /\ c = ProcessNextCommand(b)
    BY <1>0, <1>6 DEF HearsConfirmation, ConnectorState
  <2>2. con.iface # None
    BY <2>1 DEF OnOrder, Nowhere
  <2>3. CASE con.queue = <<>>
    <3>1. At(c, "None", <<>>) /\ c.token = NoToken
      BY <1>4, <2>1, <2>2, <2>3
    <3>2. ~GetsRegistered(con)
      BY <2>1, <2>3 DEF GetsRegistered, At
    <3>3. QED
      BY <1>0, <2>1, <2>2, <3>1, <3>2 DEF Turns, GetsUnregistered
  <2>4. CASE con.queue = <<"Register">>
    <3>1. At(c, "Register", <<>>)
      BY <1>5, <2>1, <2>2, <2>4
    <3>2. ~GetsUnregistered(con)
      BY <2>1, <2>2, <2>4 DEF GetsUnregistered, At
    <3>3. QED
      BY <1>0, <2>1, <2>2, <3>1, <3>2 DEF Turns, GetsRegistered
  <2>5. QED
    BY <2>1, <2>2, <2>3, <2>4 DEF Turns, At
<1>7. CASE HearsAnswer(b, c)
  <2>1. /\ b.iface = con.iface /\ b.current = "None" /\ b.token = con.token
        /\ b.state = "Registered" /\ b.queue = con.queue /\ ~b.required
        /\ con.current = "Register" /\ c = ProcessNextCommand(b)
    BY <1>0, <1>7 DEF HearsAnswer, ConnectorState
  <2>2. con.iface # None /\ con.token # NoToken
    BY <2>1 DEF OnOrder, Nowhere, Somewhere, Idle, Asked, Answered, Leaves,
       Left
  <2>3. CASE con.queue = <<>>
    <3>1. At(c, "None", <<>>) /\ c.token = con.token
      BY <1>4, <2>1, <2>2, <2>3
    <3>2. ~GetsUnregistered(con)
      BY <2>1, <2>2, <2>3 DEF GetsUnregistered, At
    <3>3. QED
      BY <1>0, <2>1, <2>2, <3>1, <3>2 DEF Turns, GetsRegistered
  <2>4. CASE con.queue = <<"Unregister">>
    <3>1. At(c, "Unregister", <<>>)
      BY <1>5, <2>1, <2>2, <2>4
    <3>2. ~GetsRegistered(con)
      BY <2>1, <2>4 DEF GetsRegistered, At
    <3>3. QED
      BY <1>0, <2>1, <2>2, <3>1, <3>2 DEF Turns, GetsUnregistered
  <2>5. QED
    BY <2>1, <2>2, <2>3, <2>4 DEF Turns, At
<1>8. CASE HearsDistributor(b, c)
  <2>1. /\ con.iface = None /\ Head(incoming).event = "Here"
        /\ c = ProcessNextCommand(b)
    BY <1>8, Zenon DEF HearsDistributor
  <2>2. /\ con.token = NoToken /\ con.current = "None"
        /\ con.queue \in {<<>>, <<"Register">>, <<"Unregister">>}
    BY <2>1 DEF OnOrder, Nowhere, Turns
  <2>3. ASSUME b = [con EXCEPT !.state = "NoDistributor"] PROVE Goal
    <3>1. b.iface = None /\ b.queue = con.queue /\ ~b.required
      BY <1>0, <2>1, <2>3 DEF ConnectorState
    <3>2. c = b
      BY <2>1, <3>1 DEF ProcessNextCommand
    <3>3. QED
      BY <2>1, <2>2, <3>1, <3>2 DEF Turns, GetsUnregistered
  <2>4. ASSUME NEW x \in services,
               b = [con EXCEPT !.iface = x, !.state = "Unregistered"]
        PROVE  Goal
    <3>1. /\ b.iface # None /\ b.queue = con.queue /\ ~b.required
          /\ b.current = "None" /\ b.token = NoToken /\ b.state = "Unregistered"
      BY <1>0, <2>2, <2>4, ConnectorAssumption DEF ConnectorState, TypeOK
    <3>2. CASE con.queue = <<>>
      <4>1. At(c, "None", <<>>) /\ c.token = NoToken
        BY <1>4, <2>1, <3>1, <3>2
      <4>2. QED
        BY <1>0, <2>1, <3>1, <4>1 DEF Turns, GetsUnregistered
    <3>3. CASE con.queue = <<"Register">>
      <4>1. At(c, "Register", <<>>)
        BY <1>5, <2>1, <3>1, <3>3
      <4>2. ~GetsUnregistered(con)
        BY <2>1, <3>3 DEF GetsUnregistered
      <4>3. QED
        BY <1>0, <2>1, <3>1, <4>1, <4>2 DEF Turns
    <3>4. CASE con.queue = <<"Unregister">>
      <4>1. At(c, "None", <<>>) /\ c.token = NoToken
        BY <1>5, <2>1, <3>1, <3>4
      <4>2. QED
        BY <1>0, <2>1, <3>1, <4>1 DEF Turns, GetsUnregistered
    <3>5. QED
      BY <2>2, <3>2, <3>3, <3>4
  <2>5. QED
    BY <1>8, <2>3, <2>4, Zenon DEF HearsDistributor
<1>9. QED
  BY <1>2, <1>3, <1>6, <1>7, <1>8 DEF Hears

KeyStays == \A l \in Limits : l["key"] = 0 /\ l["required"] = 0
TurnsInv ==
  /\ Turns(con) /\ ~con.required /\ budget["key"] = 0 /\ budget["required"] = 0
  /\ wish = "unregistered" => GetsUnregistered(con)

LEMMA TurnsNext ==
  ASSUME TypeOK, Orderly, TurnsInv, [Next]_vars
  PROVE  TurnsInv'
<1>0. /\ Turns(con) /\ ~con.required /\ OnOrder(con, incoming)
      /\ wish = "unregistered" => GetsUnregistered(con)
  BY DEF TurnsInv, Orderly
<1>1. /\ budget'["key"] = 0 /\ ~Spend("key")
      /\ budget'["required"] = 0 /\ ~Spend("required")
  BY StaysZero DEF TurnsInv, Kinds
<1>2. ASSUME NEW b, Starts(b) PROVE TurnsInv'
  <2>1. /\ Handles(b, b, <<>>) /\ At(b, "None", <<>>) /\ b.token = NoToken
        /\ ~b.required /\ b.queue = <<>>
    BY <1>2 DEF Starts, At
  <2>2. Turns(b) /\ GetsUnregistered(b)
    BY <2>1 DEF Turns, GetsUnregistered
  <2>3. QED
    BY <1>1, <2>1, <2>2, SameTurns DEF TurnsInv
<1>3. ASSUME NEW b, NEW c, SameOrder(con, b), Tells(b, c),
             Handles(b, c, incoming)
      PROVE  TurnsInv'
  <2>1. /\ Turns(con)' /\ ~con'.required
        /\ \/ GetsUnregistered(con)'
           \/ wish' = wish /\ (GetsUnregistered(con) => GetsUnregistered(con)')
           \/ wish' = "registered"
    BY <1>0, <1>1, <1>3, TurnsTold
  <2>2. QED
    BY <1>0, <1>1, <2>1 DEF TurnsInv
<1>4. ASSUME NEW b, NEW c, Hears(b, c), Handles(b, c, Tail(incoming)),
             wish' = wish
      PROVE  TurnsInv'
  <2>1. /\ Turns(con)' /\ ~con'.required
        /\ GetsUnregistered(con) => GetsUnregistered(con)'
    BY <1>0, <1>4, TurnsHeard
  <2>2. QED
    BY <1>0, <1>1, <1>4, <2>1 DEF TurnsInv
<1>5. ASSUME UNCHANGED <<con, wish>> PROVE TurnsInv'
  BY <1>0, <1>1, <1>5 DEF TurnsInv, Turns, GetsUnregistered, At
<1>6. ASSUME NEW d \in Distributors, Works(d) PROVE TurnsInv'
  BY <1>0, <1>5, <1>6, WorksHere DEF WorkedOff
<1>7. ASSUME NEW d \in Distributors, DistributorHere(d) PROVE TurnsInv'
  BY <1>5, <1>7 DEF DistributorHere
<1>8. ASSUME NEW d \in Distributors, NEW t \in Tokens, Move(d, t)
      PROVE  TurnsInv'
  BY <1>5, <1>8 DEF Move
<1>9. CASE UNCHANGED vars
  BY <1>5, <1>9 DEF vars
<1>10. QED
  BY <1>2, <1>3, <1>4, <1>6, <1>7, <1>8, <1>9, OrderlySteps

LEMMA TurnsAlways ==
  ASSUME Undisturbed, KeyStays PROVE Spec => []TurnsInv
<1>1. Init => TurnsInv
  <2>1. /\ Fresh.iface = None /\ Fresh.queue = <<>> /\ Fresh.required = FALSE
    BY DEF Fresh
  <2>2. QED
    BY <2>1 DEF Init, KeyStays, TurnsInv, Turns
<1>2. QED
  BY <1>1, TurnsNext, OrderlyAlways, ConnectorTypeCorrect, PTL DEF Spec

(* What a distributor announces of its work.                               *)
LEMMA Announced ==
  ASSUME TypeOK, OnOrder(con, incoming), NEW d \in Distributors, Works(d)
  PROVE  \E e \in Event, a \in Event :
           /\ e.event # "Here" /\ a.event = "Success"
           /\ e.event = "Unregistered" => Head(work[d]).op = "Unregister"
           /\ incoming' \in {Append(incoming, e), Append(Append(incoming, e), a)}
<1> DEFINE w == Head(work[d])
           a == Plain("Success")
<1>0. w.token \in Tokens /\ w.token \in Nat /\ a \in Event /\ a.event = "Success"
  <2>1. w.token \in Tokens
    BY WorksHere DEF WorkedOff, Jobs, Work
  <2>2. w.token \in Nat
    BY <2>1, ConnectorAssumption DEF Tokens
  <2>3. QED
    BY <2>1, <2>2, EventFields
<1> HIDE DEF a
<1>1. ASSUME NEW e \in Endpoints, HasRegistered(d, w, e)
      PROVE  incoming' \in {Append(incoming, NewEndpoint(w.token, e)),
                            Append(Append(incoming, NewEndpoint(w.token, e)), a)}
  BY <1>1 DEF HasRegistered, a
<1>2. ASSUME HasLeft(d, w)
      PROVE  \E e \in Event : /\ e.event = "Unregistered" /\ w.op = "Unregister"
                              /\ incoming' = Append(incoming, e)
  <2>1. PICK u \in {NoToken, w.token} :
          incoming' = Append(incoming, Unregistered(u)) /\ w.op = "Unregister"
    BY <1>2 DEF HasLeft
  <2>2. u \in Nat
    BY <1>0 DEF NoToken
  <2>3. Unregistered(u) \in Event /\ Unregistered(u).event = "Unregistered"
    BY <2>2, EventFields
  <2>4. QED
    BY <2>1, <2>3
<1>3. HasLeftSilently(d, w) =>
        incoming' = Append(incoming, NewEndpoint(w.token, None))
  BY DEF HasLeftSilently
<1>4. \A e \in Endpoints \cup {None} :
        /\ NewEndpoint(w.token, e) \in Event
        /\ NewEndpoint(w.token, e).event = "NewEndpoint"
  BY <1>0, EventFields
<1>5. ASSUME NEW e \in Endpoints \cup {None},
             incoming' \in {Append(incoming, NewEndpoint(w.token, e)),
                            Append(Append(incoming, NewEndpoint(w.token, e)), a)}
      PROVE  \E x \in Event, y \in Event :
               /\ x.event # "Here" /\ y.event = "Success"
               /\ x.event = "Unregistered" => w.op = "Unregister"
               /\ incoming' \in {Append(incoming, x),
                                 Append(Append(incoming, x), y)}
  BY <1>0, <1>4, <1>5
<1>6. QED
  BY <1>0, <1>1, <1>2, <1>3, <1>5, WorksHere

(* When the last wish was to be registered, it is about to be; with a      *)
(* distributor from the start, or none at all.                             *)
NobodyComes == \A l \in Limits : l["here"] = 0
Arrivals == {e \in Event : e.event = "Here"}
WishInv ==
  /\ budget["here"] = 0 /\ HasNone(incoming, Arrivals)
  /\ wish = "registered" =>
       running /\ (con.iface # None => GetsRegistered(con))

LEMMA WishNext ==
  ASSUME TypeOK, Orderly, TurnsInv, WishInv, [Next]_vars
  PROVE  WishInv'
<1>0. /\ Turns(con) /\ ~con.required /\ OnOrder(con, incoming)
      /\ HasNone(incoming, Arrivals) /\ incoming \in Seq(Event)
      /\ wish = "registered" =>
           running /\ (con.iface # None => GetsRegistered(con))
  BY DEF TurnsInv, Orderly, WishInv, TypeOK
<1>1. /\ budget'["here"] = 0 /\ ~Spend("here")
      /\ ~Spend("key") /\ ~Spend("required")
  BY StaysZero DEF TurnsInv, WishInv, Kinds
<1>2. ASSUME NEW b, NEW c, NEW rest, Handles(b, c, rest)
      PROVE  incoming' = rest /\ running' = TRUE
  BY <1>2, TypeNext DEF Handles, Keeps, Asks, TakesLeave, TypeOK
<1>3. ASSUME NEW b, Starts(b) PROVE WishInv'
  <2>1. Handles(b, b, <<>>) /\ wish # "registered" /\ wish' = wish
    BY <1>0, <1>3 DEF Starts
  <2>2. HasNone(incoming', Arrivals)
    BY <1>2, <2>1, EmptyEntries
  <2>3. QED
    BY <1>1, <2>1, <2>2 DEF WishInv, HasNone, Arrivals
<1>4. ASSUME NEW b, NEW c, SameOrder(con, b), Tells(b, c),
             Handles(b, c, incoming)
      PROVE  WishInv'
  <2>1. /\ con'.iface = con.iface
        /\ \/ con.iface # None => GetsRegistered(con)'
           \/ wish' = wish /\ (GetsRegistered(con) => GetsRegistered(con)')
           \/ wish' = "unregistered"
    BY <1>0, <1>1, <1>4, TurnsTold
  <2>2. incoming' = incoming /\ running'
    BY <1>2, <1>4
  <2>3. QED
    BY <1>0, <1>1, <2>1, <2>2 DEF WishInv, HasNone, Arrivals
<1>5. ASSUME NEW b, NEW c, Hears(b, c), Handles(b, c, Tail(incoming)),
             incoming # <<>>, wish' = wish
      PROVE  WishInv'
  <2>1. Head(incoming) \notin Arrivals /\ HasNone(Tail(incoming), Arrivals)
    BY <1>0, <1>5, TailEntries
  <2>2. Head(incoming) \in Event
    BY <1>0, <1>5
  <2>3. /\ con'.iface = con.iface
        /\ con.iface # None /\ GetsRegistered(con) => GetsRegistered(con)'
    BY <1>0, <1>5, <2>1, <2>2, TurnsHeard DEF Arrivals
  <2>4. incoming' = Tail(incoming) /\ running'
    BY <1>2, <1>5
  <2>5. QED
    BY <1>0, <1>1, <1>5, <2>1, <2>3, <2>4 DEF WishInv, HasNone, Arrivals
<1>6. ASSUME UNCHANGED <<con, wish, running>>, HasNone(incoming', Arrivals)
      PROVE  WishInv'
  BY <1>0, <1>1, <1>6 DEF WishInv, GetsRegistered, At, HasNone, Arrivals
<1>7. ASSUME NEW d \in Distributors, Works(d) PROVE WishInv'
  <2>1. PICK e \in Event, a \in Event :
          /\ e.event # "Here" /\ a.event = "Success"
          /\ incoming' \in {Append(incoming, e), Append(Append(incoming, e), a)}
    BY <1>0, <1>7, Announced
  <2>2. e \notin Arrivals /\ a \notin Arrivals
    BY <2>1 DEF Arrivals
  <2>3. HasNone(Append(incoming, e), Arrivals)
    BY <1>0, <2>2, AppendEntries
  <2>4. HasNone(Append(Append(incoming, e), a), Arrivals)
    <3>1. Append(incoming, e) \in Seq(Event)
      BY <1>0
    <3>2. QED
      BY <2>2, <2>3, <3>1, AppendEntries
  <2>5. HasNone(incoming', Arrivals)
    BY <2>1, <2>3, <2>4
  <2>6. QED
    BY <1>0, <1>6, <1>7, <2>5, WorksHere DEF WorkedOff
<1>8. ASSUME NEW d \in Distributors PROVE ~DistributorHere(d)
  BY <1>1 DEF DistributorHere
<1>9. ASSUME NEW d \in Distributors, NEW t \in Tokens, Move(d, t)
      PROVE  WishInv'
  BY <1>0, <1>6, <1>9 DEF Move
<1>10. CASE UNCHANGED vars
  BY <1>0, <1>6, <1>10 DEF vars
<1>11. QED
  BY <1>3, <1>4, <1>5, <1>7, <1>8, <1>9, <1>10, OrderlySteps

(* After registerClient() the application of an undisturbed connector is   *)
(* registered, through any number of changes of mind, faster than the      *)
(* distributor answers, and moves.  It does not change its key, or whether *)
(* it requires one, and its distributor is on the bus from the start:      *)
(* while there is none, and with the no-op of a new key between them,      *)
(* calls cancel others than the one they follow.                           *)
THEOREM RegistersInTheEnd ==
  ASSUME Undisturbed, KeyStays, NobodyComes PROVE Spec => []EndsRegistered
<1>1. Init => WishInv
  BY EmptyEntries DEF Init, NobodyComes, WishInv
<1>2. TypeOK /\ Orderly /\ TurnsInv /\ WishInv => EndsRegistered
  <2> SUFFICES ASSUME TypeOK, Orderly, WishInv, Quiet, con.iface # None,
                      wish = "registered"
               PROVE  con.state = "Registered" /\ Known(con.iface, con.token)
    BY DEF EndsRegistered
  <2>1. con.iface \in Distributors
    BY DEF TypeOK, ConnectorState
  <2>2. Idle(con, incoming)
    BY <2>1, QuietIdle
  <2>3. con.token # NoToken
    BY <2>2 DEF WishInv, GetsRegistered, At, Idle
  <2>4. QED
    BY <2>2, <2>3 DEF Idle
<1>3. QED
  BY <1>1, <1>2, WishNext, TurnsAlways, OrderlyAlways, ConnectorTypeCorrect,
     PTL DEF Spec

(* Only its own calls, a registration that waits for its reply or an       *)
(* unregistration, keep a connector's distributor busy, and it knows no    *)
(* other client; none at all when its confirmation is on its way.          *)
NeverMoved == \A l \in Limits : l["move"] = 0
Moving == {w \in Work : w.op # "Unregister" /\ ~w.waits}
Clean(c, s) ==
  c.iface # None =>
    /\ HasNone(work[c.iface], Moving)
    /\ \A t \in Tokens : Known(c.iface, t) =>
         t = c.token /\ HasNone(s, Confirmations)

LEMMA CleanHandled ==
  ASSUME TypeOK, NEW b, NEW c, NEW rest, Handles(b, c, rest), Clean(b, rest)
  PROVE  Clean(con, incoming)'
<1> DEFINE d == b.iface
<1>0. /\ \A x, t : Known(x, t)' <=> Known(x, t)
      /\ b \in ConnectorState /\ OnOrder(b, rest)
  BY DEF Handles, Known
<1>1. CASE Keeps(b, rest)
  <2>1. /\ con'.iface = d /\ con'.token = b.token /\ work' = work
        /\ incoming' = rest
    BY <1>1 DEF Keeps, SameOrder
  <2>2. QED
    BY <1>0, <2>1 DEF Clean, HasNone, Moving, Confirmations
<1>2. ASSUME NEW w \in Work, w \notin Moving, d # None, con'.iface = d,
             work' = [work EXCEPT ![d] = Append(@, w)], incoming' = rest,
             \A t \in Tokens : Known(d, t) => con'.token = t
      PROVE  Clean(con, incoming)'
  <2>1. work[d] \in Seq(Work) /\ work'[d] = Append(work[d], w)
    BY <1>0, <1>2 DEF TypeOK, ConnectorState
  <2>2. HasNone(work[d], Moving)
        /\ \A t \in Tokens : Known(d, t) => HasNone(rest, Confirmations)
    BY <1>2 DEF Clean
  <2>3. HasNone(work'[d], Moving)
    <3>1. w \in Work /\ w \notin Moving
      BY <1>2
    <3> HIDE DEF d
    <3>2. HasNone(Append(work[d], w), Moving)
      BY <2>1, <2>2, <3>1, AppendEntries
    <3>3. QED
      BY <2>1, <3>2
  <2>4. HasNone(work[con.iface], Moving)'
    BY <1>2, <2>3 DEF HasNone, Moving
  <2>5. \A t \in Tokens : Known(con.iface, t)' =>
          t = con'.token /\ HasNone(incoming, Confirmations)'
    BY <1>0, <1>2, <2>2 DEF HasNone, Confirmations, Known
  <2>6. QED
    BY <2>4, <2>5 DEF Clean
<1>3. CASE Asks(b, rest)
  <2> DEFINE k == IF VersionOf[d] = "v2" THEN b.key ELSE None
             w == AskJob(issued + 1, k)
  <2>1. w \in Work /\ w \notin Moving
    BY <1>0, <1>3 DEF Asks, AskJob, Work, ConnectorState, Moving
  <2>2. /\ d # None /\ con'.iface = d /\ incoming' = rest
        /\ work' = [work EXCEPT ![d] = Append(@, w)]
    BY <1>3 DEF Asks
  <2>3. \A t \in Tokens : ~Known(d, t)
    <3>1. \A t \in Tokens : t # NoToken
      BY EventFields DEF Tokens, NoToken
    <3>2. QED
      BY <1>3, <2>2, <3>1 DEF Asks, Clean
  <2> HIDE DEF w
  <2>4. QED
    BY <1>2, <2>1, <2>2, <2>3
<1>4. CASE TakesLeave(b, rest)
  <2> DEFINE w == LeaveJob(b.token)
  <2>1. b.token \in Tokens
    BY <1>4 DEF TakesLeave, Idle, Known
  <2>2. w \in Work /\ w \notin Moving
    BY <2>1 DEF LeaveJob, Work, Moving
  <2>3. /\ d # None /\ con'.iface = d /\ con'.token = b.token
        /\ work' = [work EXCEPT ![d] = Append(@, w)] /\ incoming' = rest
    BY <1>4 DEF TakesLeave
  <2> HIDE DEF w
  <2>4. \A t \in Tokens : Known(d, t) => con'.token = t
    BY <2>3 DEF Clean
  <2>5. QED
    BY <1>2, <2>2, <2>3, <2>4
<1>5. QED
  BY <1>1, <1>3, <1>4 DEF Handles

LEMMA CleanHeard ==
  ASSUME TypeOK, OnOrder(con, incoming), incoming # <<>>, NEW b, NEW c,
         Hears(b, c), b \in ConnectorState, Clean(con, incoming)
  PROVE  Clean(b, Tail(incoming))
<1>0. con \in ConnectorState /\ incoming \in Seq(Event)
  BY DEF TypeOK
<1>1. HasNone(incoming, Confirmations) =>
        /\ HasNone(Tail(incoming), Confirmations)
        /\ Head(incoming) \notin Confirmations
  BY <1>0, TailEntries
<1>2. ASSUME b.iface = con.iface, b.token = con.token
      PROVE  Clean(b, Tail(incoming))
  BY <1>1, <1>2 DEF Clean
<1>3. CASE HearsEndpoint(b, c)
  BY <1>0, <1>2, <1>3 DEF HearsEndpoint, ConnectorState
<1>4. CASE HearsOther(b, c)
  BY <1>2, <1>4 DEF HearsOther
<1>5. CASE HearsAnswer(b, c)
  BY <1>0, <1>2, <1>5 DEF HearsAnswer, ConnectorState
<1>6. CASE HearsConfirmation(b, c)
  <2>1. b.iface = con.iface
    BY <1>0, <1>6 DEF HearsConfirmation, ConnectorState
  <2>2. Head(incoming) \in Confirmations
    BY <1>0, <1>6 DEF HearsConfirmation, Confirmations
  <2>3. QED
    BY <1>1, <2>1, <2>2 DEF Clean
<1>7. CASE HearsDistributor(b, c)
  <2>1. con.iface = None
    BY <1>7, Zenon DEF HearsDistributor
  <2>2. \A x \in Distributors : work[x] = <<>> /\ \A t \in Tokens : ~Known(x, t)
    BY <2>1, ConnectorAssumption DEF OnOrder
  <2>3. b.iface # None => b.iface \in Distributors
    BY DEF ConnectorState
  <2>4. QED
    BY <2>2, <2>3, EmptyEntries DEF Clean
<1>8. QED
  BY <1>3, <1>4, <1>5, <1>6, <1>7 DEF Hears

LEMMA CleanWorks ==
  ASSUME TypeOK, OnOrder(con, incoming), NEW d \in Distributors, Works(d),
         Clean(con, incoming)
  PROVE  Clean(con, incoming)'
<1> DEFINE w == Head(work[d])
           t == con.token
<1>0. /\ WorkedOff(d) /\ d = con.iface /\ w \in Work /\ w.token \in Tokens
      /\ w \in Jobs(issued) /\ work[d] \in Seq(Work) /\ work[d] # <<>>
      /\ work'[d] = Tail(work[d]) /\ con' = con /\ incoming \in Seq(Event)
      /\ con.iface # None /\ Somewhere(con, incoming)
  BY WorksHere DEF WorkedOff, Jobs, Work, TypeOK
<1>1. w \notin Moving /\ HasNone(Tail(work[d]), Moving)
  BY <1>0, TailEntries DEF Clean
<1>2. \A u \in Tokens : Known(d, u) => u = t /\ HasNone(incoming, Confirmations)
  BY <1>0 DEF Clean
<1>3. ASSUME \A u \in Tokens : clients'[d][u] # None =>
               u = t /\ HasNone(incoming', Confirmations)
      PROVE  Clean(con, incoming)'
  <2>1. HasNone(work[con.iface], Moving)'
    BY <1>0, <1>1 DEF HasNone, Moving
  <2>2. \A u \in Tokens : Known(con.iface, u)' =>
          u = con'.token /\ HasNone(incoming, Confirmations)'
    BY <1>0, <1>3 DEF Known, HasNone, Confirmations
  <2>3. QED
    BY <2>1, <2>2 DEF Clean
<1>4. PICK e \in Event, a \in Event :
        /\ a.event = "Success"
        /\ e.event = "Unregistered" => w.op = "Unregister"
        /\ incoming' \in {Append(incoming, e), Append(Append(incoming, e), a)}
  BY Announced
<1>5. ASSUME HasNone(incoming, Confirmations), w.op # "Unregister"
      PROVE  HasNone(incoming', Confirmations)
  <2>1. e \notin Confirmations /\ a \notin Confirmations
    BY <1>4, <1>5 DEF Confirmations
  <2>2. HasNone(Append(incoming, e), Confirmations)
        /\ Append(incoming, e) \in Seq(Event)
    BY <1>0, <1>5, <2>1, AppendEntries
  <2>3. HasNone(Append(Append(incoming, e), a), Confirmations)
    BY <2>1, <2>2, AppendEntries
  <2>4. QED
    BY <1>4, <2>2, <2>3
<1>6. ASSUME NEW x \in Endpoints, HasRegistered(d, w, x)
      PROVE  Clean(con, incoming)'
  <2>1. w \in Asking /\ w.op # "Unregister"
    BY <1>0, <1>1, <1>6 DEF HasRegistered, Moving, Asking
  <2>2. Asked(con, incoming)
    BY <1>0, <2>1, TailEntries
    DEF Somewhere, Idle, Answered, Leaves, Left
  <2>3. w.token = t /\ HasNone(incoming, Confirmations)
    <3>1. HasOne(work[d], Asking, Of(t))
      BY <1>0, <2>2 DEF Asked
    <3>2. w \in Of(t)
      BY <1>0, <2>1, <3>1, TailEntries
    <3>3. QED
      BY <2>2, <3>2 DEF Of, Asked
  <2>4. \A u \in Tokens : clients'[d][u] # None => u = t
    <3>1. \A u \in Tokens : u # w.token => clients'[d][u] = clients[d][u]
      BY <1>0, <1>6 DEF HasRegistered, TypeOK
    <3>2. QED
      BY <1>2, <2>3, <3>1 DEF Known
  <2>5. QED
    BY <1>3, <1>5, <2>1, <2>3, <2>4
<1>7. ASSUME HasLeft(d, w) PROVE Clean(con, incoming)'
  <2>1. w \in Leaving
    BY <1>0, <1>7 DEF HasLeft, Leaving
  <2>2. HasOne(work[d], Leaving, Of(t))
    <3>1. ~HasNone(work[d], Leaving)
      BY <1>0, <2>1, TailEntries
    <3>2. QED
      BY <1>0, <3>1 DEF Somewhere, Idle, Asked, Answered, Leaves, Left
  <2>3. w \in Of(t)
    BY <1>0, <2>1, <2>2, TailEntries
  <2>4. \A u \in Tokens : clients'[d][u] = IF u = t THEN None ELSE clients[d][u]
    BY <1>0, <1>7, <2>3 DEF HasLeft, TypeOK, Of
  <2>5. QED
    BY <1>2, <1>3, <2>4 DEF Known
<1>8. ~HasLeftSilently(d, w)
  BY <1>0, <1>1 DEF HasLeftSilently, Jobs, Moving
<1>9. QED
  BY <1>6, <1>7, <1>8, WorksHere

CleanInv == Clean(con, incoming) /\ budget["move"] = 0

LEMMA CleanNext ==
  ASSUME TypeOK, Orderly, CleanInv, [Next]_vars
  PROVE  CleanInv'
<1>0. /\ OnOrder(con, incoming) /\ Clean(con, incoming)
      /\ incoming \in Seq(Event)
  BY DEF Orderly, CleanInv, TypeOK
<1>1. budget'["move"] = 0 /\ ~Spend("move")
  BY StaysZero DEF CleanInv, Kinds
<1>2. ASSUME NEW b, Starts(b) PROVE CleanInv'
  <2>1. /\ Handles(b, b, <<>>) /\ (b.iface # None => b.iface \in Distributors)
        /\ \A x \in Distributors :
             work[x] = <<>> /\ \A t \in Tokens : ~Known(x, t)
    BY <1>2 DEF Starts, Handles, ConnectorState
  <2>2. Clean(b, <<>>)
    BY <2>1, EmptyEntries DEF Clean
  <2>3. QED
    BY <1>1, <2>1, <2>2, CleanHandled DEF CleanInv
<1>3. ASSUME NEW b, NEW c, SameOrder(con, b), Handles(b, c, incoming)
      PROVE  CleanInv'
  <2>1. Clean(b, incoming)
    BY <1>0, <1>3 DEF Clean, SameOrder
  <2>2. QED
    BY <1>1, <1>3, <2>1, CleanHandled DEF CleanInv
<1>4. ASSUME NEW b, NEW c, Hears(b, c), Handles(b, c, Tail(incoming)),
             incoming # <<>>
      PROVE  CleanInv'
  <2>1. Clean(b, Tail(incoming))
    BY <1>0, <1>4, CleanHeard DEF Handles
  <2>2. QED
    BY <1>1, <1>4, <2>1, CleanHandled DEF CleanInv
<1>5. ASSUME NEW d \in Distributors, Works(d) PROVE CleanInv'
  BY <1>0, <1>1, <1>5, CleanWorks DEF CleanInv
<1>6. ASSUME UNCHANGED <<con, work, clients>>,
             HasNone(incoming, Confirmations) => HasNone(incoming', Confirmations)
      PROVE  CleanInv'
  <2>1. Clean(con, incoming')
    BY <1>0, <1>6 DEF Clean
  <2>2. Clean(con, incoming)'
    BY <1>6, <2>1 DEF Clean, Known, HasNone, Moving, Confirmations
  <2>3. QED
    BY <1>1, <2>2 DEF CleanInv
<1>7. ASSUME NEW d \in Distributors, DistributorHere(d) PROVE CleanInv'
  <2> DEFINE e == Service("Here", d)
  <2>1. e \in Event /\ e \notin Confirmations
    BY EventFields DEF Confirmations
  <2>2. /\ incoming' = incoming \o Signal("Here", d)
        /\ UNCHANGED <<con, work, clients>>
    BY <1>0, <1>7, HereKeepsClients DEF DistributorHere
  <2>3. incoming' \in {incoming, Append(incoming, e)}
    BY <1>0, <2>1, <2>2 DEF Signal
  <2> HIDE DEF e
  <2>4. HasNone(incoming, Confirmations) => HasNone(incoming', Confirmations)
    BY <1>0, <2>1, <2>3, AppendEntries
  <2>5. QED
    BY <1>6, <2>2, <2>4
<1>8. ASSUME NEW d \in Distributors, NEW t \in Tokens PROVE ~Move(d, t)
  BY <1>1 DEF Move
<1>9. CASE UNCHANGED vars
  BY <1>6, <1>9 DEF vars, distributors
<1>10. QED
  BY <1>2, <1>3, <1>4, <1>5, <1>7, <1>8, <1>9, OrderlySteps

(* After unregisterClient() no distributor has the client of an            *)
(* undisturbed connector any more, through any number of changes of mind   *)
(* and also when its distributor appears later.  It does not change its    *)
(* key, or whether it requires one, and is not moved to another push       *)
(* provider: a move that is queued behind the unregistration would         *)
(* register it again.                                                      *)
THEOREM UnregistersInTheEnd ==
  ASSUME Undisturbed, KeyStays, NeverMoved PROVE Spec => []EndsUnregistered
<1>1. Init => CleanInv
  <2>1. Fresh.iface = None
    BY DEF Fresh
  <2>2. QED
    BY <2>1 DEF Init, NeverMoved, CleanInv, Clean
<1>2. TypeOK /\ Orderly /\ TurnsInv /\ CleanInv => EndsUnregistered
  <2> SUFFICES ASSUME TypeOK, Orderly, TurnsInv, CleanInv, Quiet,
                      con.iface # None, wish = "unregistered"
               PROVE  /\ con.state = "Unregistered"
                      /\ \A d \in services, t \in Tokens : ~Known(d, t)
    BY DEF EndsUnregistered
  <2>1. con.iface \in Distributors
    BY DEF TypeOK, ConnectorState
  <2>2. Idle(con, incoming)
    BY <2>1, QuietIdle
  <2>3. con.token = NoToken /\ con.state = "Unregistered"
    BY <2>2 DEF TurnsInv, GetsUnregistered, At, Idle
  <2>4. \A t \in Tokens : t # NoToken
    BY DEF Tokens, NoToken
  <2>5. \A t \in Tokens : ~Known(con.iface, t)
    BY <2>3, <2>4 DEF CleanInv, Clean
  <2>6. \A d \in services : d # con.iface => \A t \in Tokens : ~Known(d, t)
    BY DEF Orderly, OnOrder, TypeOK
  <2>7. QED
    BY <2>3, <2>5, <2>6
<1>3. QED
  BY <1>1, <1>2, CleanNext, TurnsAlways, OrderlyAlways, ConnectorTypeCorrect,
     PTL DEF Spec

=============================================================================
