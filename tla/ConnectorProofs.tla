-------------------------- MODULE ConnectorProofs --------------------------
(***************************************************************************)
(* Proofs about module Connector: its types; a current Register command    *)
(* has a reply on its way (ReplyOnItsWay); the connector does not hold on  *)
(* to a distributor that is gone (DistributorAlive); its state file has    *)
(* the registration (Persisted).  For any distributors and any behaviour   *)
(* of the surroundings.                                                    *)
(*                                                                         *)
(* The argument: whatever the application calls and the bus delivers, what *)
(* the handler makes of the connector Follows from it, so a command is     *)
(* current only if it was before or is called for now (Sound); IInv says   *)
(* that the queue of the bus has what ends it.                             *)
(***************************************************************************)
EXTENDS ConnectorProperties, WellFoundedInduction, SequenceTheorems, TLAPS

-----------------------------------------------------------------------------
(* Data *)

(* A set of numbers has a least one. *)
LEMMA LeastNumber ==
  ASSUME NEW T \in SUBSET Nat, T # {}
  PROVE  \E n \in T : \A m \in T : n <= m
<1>1. PICK n \in T : \A m \in T : ~(<<m, n>> \in OpToRel(<, Nat))
  BY NatLessThanWellFounded, WFMin
<1>2. \A m \in T : ~(m < n)
  BY <1>1 DEF OpToRel
<1>3. QED
  BY <1>2

LEMMA MinIsLeast ==
  ASSUME NEW T \in SUBSET Nat, T # {}
  PROVE  Min(T) \in T
<1>1. \E n \in T : \A m \in T : n <= m
  BY LeastNumber
<1>2. QED
  BY <1>1 DEF Min

(* The elements of sequences. *)
LEMMA ElementsAppend ==
  ASSUME NEW S, NEW s \in Seq(S), NEW e
  PROVE  ToSet(Append(s, e)) = ToSet(s) \cup {e}
<1>1. /\ DOMAIN Append(s, e) = DOMAIN s \cup {Len(s) + 1}
      /\ Len(s) + 1 \notin DOMAIN s
      /\ Append(s, e)[Len(s) + 1] = e
      /\ \A i \in DOMAIN s : Append(s, e)[i] = s[i]
  BY AppendProperties
<1>2. QED
  BY <1>1 DEF ToSet

LEMMA ElementsConcat ==
  ASSUME NEW S, NEW s \in Seq(S), NEW t \in Seq(S)
  PROVE  ToSet(s) \subseteq ToSet(s \o t) /\ ToSet(t) \subseteq ToSet(s \o t)
<1>1. ToSet(s) \subseteq ToSet(s \o t)
  BY DEF ToSet
<1>2. \A j \in DOMAIN t : /\ Len(s) + j \in DOMAIN (s \o t)
                          /\ (s \o t)[Len(s) + j] = t[j]
  OBVIOUS
<1>3. QED
  BY <1>1, <1>2 DEF ToSet

LEMMA ElementsTail ==
  ASSUME NEW S, NEW s \in Seq(S), s # <<>>
  PROVE  ToSet(s) \subseteq {Head(s)} \cup ToSet(Tail(s))
<1>1. ASSUME NEW i \in DOMAIN s, i # 1
      PROVE  i - 1 \in DOMAIN Tail(s) /\ Tail(s)[i - 1] = s[i]
  BY <1>1, HeadTailProperties
<1>2. s[1] = Head(s)
  BY HeadTailProperties
<1>3. ASSUME NEW x \in ToSet(s)
      PROVE  x \in {Head(s)} \cup ToSet(Tail(s))
  <2>1. PICK i \in DOMAIN s : x = s[i]
    BY DEF ToSet
  <2>2. QED
    BY <1>1, <1>2, <2>1 DEF ToSet
<1>4. QED
  BY <1>3

-----------------------------------------------------------------------------
(* What the connector's methods make of it *)

(* A call is made by the command that has just become current, of a        *)
(* connector that has a distributor; registrations have a token.           *)
Sound(c) ==
  /\ c \in ConnectorState
  /\ c.call # "None" => c.call = c.current /\ c.iface # None
  /\ c.call = "Register" => c.token # NoToken

(* c comes of b: it has the same distributor, and a current command that   *)
(* it has not just called for was current before.                          *)
Follows(b, c) ==
  /\ Sound(c) /\ c.iface = b.iface
  /\ b.call # "None" => c.call = b.call
  /\ c.current # "None" /\ c.call = "None" => c.current = b.current

LEMMA FollowsTransitive ==
  ASSUME NEW a, NEW b, NEW c, Follows(a, b), Follows(b, c)
  PROVE  Follows(a, c)
BY DEF Follows

LEMMA IssueSound ==
  ASSUME issued \in Nat, NEW c \in ConnectorState, NEW cmd \in Commands,
         cmd # "None", c.call = "None", c.iface # None
  PROVE  Sound(Issue(c, cmd)) /\ Issue(c, cmd).iface = c.iface
             /\ Issue(c, cmd).call = cmd
<1>1. CASE cmd = "Register"
  <2> DEFINE t == IF c.token = NoToken THEN issued + 1 ELSE c.token
  <2>1. t \in Nat /\ t # NoToken
    BY DEF ConnectorState, NoToken
  <2>2. Issue(c, cmd) = [c EXCEPT !.current = cmd, !.call = cmd,
                                  !.state = "Registering", !.token = t]
    BY <1>1 DEF Issue, ConnectorState
  <2> HIDE DEF t
  <2>3. QED
    BY <1>1, <2>1, <2>2 DEF Sound, ConnectorState, Commands, States
<1>2. CASE cmd = "Unregister"
  <2>1. Issue(c, cmd) = [c EXCEPT !.current = cmd, !.call = cmd]
    BY <1>2 DEF Issue
  <2>2. QED
    BY <1>2, <2>1 DEF Sound, ConnectorState, Commands
<1>3. QED
  BY <1>1, <1>2 DEF Commands

LEMMA ProcessFollows ==
  ASSUME issued \in Nat, NEW b, Sound(b)
  PROVE  Follows(b, ProcessNextCommand(b))
<1> DEFINE stops == {i \in DOMAIN b.queue :
                       ~Ready(b, b.queue[i]) \/ ~Done(b, b.queue[i])}
           rest == IF stops = {} THEN <<>>
                   ELSE SubSeq(b.queue, Min(stops), Len(b.queue))
           asIs == b.current # "None" \/ b.iface = None
           idle == rest = <<>> \/ ~Ready(b, Head(rest))
<1>0. b.queue \in Seq(Commands)
  BY DEF Sound, ConnectorState
<1>1. stops \in SUBSET Nat /\ stops \subseteq DOMAIN b.queue
  BY <1>0
<1>2. stops # {} => Min(stops) \in stops
  BY <1>1, MinIsLeast
<1>3. stops # {} =>
        /\ SubSeq(b.queue, Min(stops), Len(b.queue)) \in Seq(Commands)
        /\ Head(SubSeq(b.queue, Min(stops), Len(b.queue)))
             = b.queue[Min(stops)]
  <2>1. SUFFICES ASSUME NEW m \in DOMAIN b.queue
                 PROVE  LET r == SubSeq(b.queue, m, Len(b.queue))
                        IN r \in Seq(Commands) /\ Head(r) = b.queue[m]
    BY <1>1, <1>2
  <2>2. QED
    BY <1>0, SubSeqProperties
<1>4. /\ rest \in Seq(Commands)
      /\ rest # <<>> => ~Ready(b, Head(rest)) \/ ~Done(b, Head(rest))
  BY <1>2, <1>3
<1>5. ProcessNextCommand(b) =
        IF asIs THEN b
        ELSE IF idle THEN [b EXCEPT !.queue = rest]
        ELSE Issue([b EXCEPT !.queue = Tail(rest)], Head(rest))
  BY DEF ProcessNextCommand
<1> HIDE DEF stops, rest
<1>6. CASE asIs
  BY <1>5, <1>6 DEF Follows
<1>7. CASE ~asIs /\ idle
  BY <1>4, <1>5, <1>7 DEF Follows, Sound, ConnectorState
<1>8. CASE ~asIs /\ ~idle
  <2> DEFINE q == [b EXCEPT !.queue = Tail(rest)]
  <2>1. Head(rest) \in Commands /\ Tail(rest) \in Seq(Commands)
    BY <1>4, <1>8
  <2>2. Head(rest) # "None"
    BY <1>4, <1>8 DEF Done
  <2>3. b.call = "None"
    BY <1>8 DEF Sound
  <2>4. q \in ConnectorState /\ q.call = "None" /\ q.iface = b.iface
    BY <2>1, <2>3 DEF Sound, ConnectorState
  <2> HIDE DEF q
  <2>5. /\ Sound(Issue(q, Head(rest))) /\ Issue(q, Head(rest)).iface = q.iface
        /\ Issue(q, Head(rest)).call = Head(rest)
    BY <1>8, <2>1, <2>2, <2>4, IssueSound
  <2>6. ProcessNextCommand(b) = Issue(q, Head(rest))
    BY <1>5, <1>8 DEF q
  <2>7. QED
    BY <2>2, <2>3, <2>4, <2>5, <2>6 DEF Follows
<1>9. QED
  BY <1>6, <1>7, <1>8

(* Changes of members the calls do not depend on. *)
LEMMA QueueFollows ==
  ASSUME NEW b, Sound(b), NEW q \in Seq(Commands)
  PROVE  Follows(b, [b EXCEPT !.queue = q])
BY DEF Follows, Sound, ConnectorState

LEMMA AddFollows ==
  ASSUME issued \in Nat, NEW b, Sound(b), NEW cmd \in Commands
  PROVE  Follows(b, AddCommand(b, cmd))
<1>0. b.queue \in Seq(Commands)
  BY DEF Sound, ConnectorState
<1>1. CASE b.queue # <<>> /\ Last(b.queue) # cmd /\ Cancel(Last(b.queue), cmd)
  <2>1. Front(b.queue) \in Seq(Commands)
    BY <1>0, <1>1 DEF Front
  <2>2. QED
    BY <1>1, <2>1, QueueFollows DEF AddCommand
<1>2. CASE AddCommand(b, cmd) =
             ProcessNextCommand([b EXCEPT !.queue = Append(@, cmd)])
  <2> DEFINE q == [b EXCEPT !.queue = Append(b.queue, cmd)]
  <2>1. Append(b.queue, cmd) \in Seq(Commands)
    BY <1>0
  <2>2. Follows(b, q)
    BY <2>1, QueueFollows
  <2> HIDE DEF q
  <2>3. Follows(q, ProcessNextCommand(q))
    BY <2>2, ProcessFollows DEF Follows
  <2>4. AddCommand(b, cmd) = ProcessNextCommand(q)
    BY <1>2 DEF q
  <2>5. QED
    BY <2>2, <2>3, <2>4, FollowsTransitive
<1>3. CASE AddCommand(b, cmd) = b
  BY <1>3 DEF Follows
<1>4. QED
  BY <1>1, <1>2, <1>3 DEF AddCommand

LEMMA ReregisterFollows ==
  ASSUME issued \in Nat, NEW b, Sound(b)
  PROVE  Follows(b, Reregister(b))
<1> DEFINE c1 == AddCommand(b, "Unregister")
           c2 == AddCommand(c1, "None")
<1>1. Follows(b, c1)
  BY AddFollows DEF Commands
<1>2. Follows(c1, c2)
  BY <1>1, AddFollows DEF Follows, Commands
<1>3. Follows(c2, AddCommand(c2, "Register"))
  BY <1>2, AddFollows DEF Follows, Commands
<1> HIDE DEF c1, c2
<1>4. QED
  BY <1>1, <1>2, <1>3, FollowsTransitive DEF Reregister, c1, c2

(* The chosen distributor is on the bus. *)
LEMMA SelectsService ==
  ASSUME services \subseteq Distributors
  PROVE  SelectDistributor \in services \cup {None}
<1>1. ASSUME services # {} PROVE SelectPreferred \in services
  <2> DEFINE ranks == {Rank[d] : d \in services}
  <2>1. ranks \in SUBSET Nat /\ ranks # {}
    BY <1>1, ConnectorAssumption
  <2> HIDE DEF ranks
  <2>2. PICK n \in ranks : \A m \in ranks : n <= m
    BY <2>1, LeastNumber
  <2>3. \E d \in services : \A e \in services : Rank[d] <= Rank[e]
    BY <2>2 DEF ranks
  <2>4. QED
    BY <1>1, <2>3 DEF SelectPreferred
<1>2. QED
  BY <1>1 DEF SelectDistributor, SelectPreferred

(* What remains of a connector that has lost its distributor d. *)
LEMMA WithoutSound ==
  ASSUME NEW b, Sound(b), b.call = "None", NEW d
  PROVE  Sound(WithoutDistributor(b, d))
<1> DEFINE c == [b EXCEPT !.iface = None, !.current = "None",
                          !.state = "NoDistributor"]
<1>1. c \in ConnectorState /\ c.call = "None"
  BY DEF Sound, ConnectorState, Commands, States
<1>2. WithoutDistributor(b, d) \in {b, c}
  BY DEF WithoutDistributor
<1> HIDE DEF c
<1>3. QED
  BY <1>1, <1>2 DEF Sound

(* What setDistributor() makes of a connector without one: a registration  *)
(* that is current has been called for, or was before.                     *)
LEMMA SetDistributorFollows ==
  ASSUME issued \in Nat, NEW b \in ConnectorState, b.call = "None",
         b.iface = None, NEW d \in Distributors \cup {None}
  PROVE  /\ Sound(SetDistributor(b, d))
         /\ SetDistributor(b, d).iface = d
         /\ LET c == SetDistributor(b, d) IN
              c.current # "None" /\ c.call = "None" => c.current = b.current
<1>1. CASE d = None
  BY <1>1 DEF SetDistributor, Sound, ConnectorState, States
<1>2. CASE d # None
  <2> DEFINE chosen == [b EXCEPT !.iface = d, !.state = "Unregistered"]
  <2>1. /\ Sound(chosen) /\ chosen.iface = d /\ chosen.current = b.current
        /\ chosen.call = "None"
    BY DEF Sound, ConnectorState, States
  <2> HIDE DEF chosen
  <2>2. Follows(chosen, AddCommand(chosen, "Register"))
    BY <2>1, AddFollows DEF Commands
  <2>3. SetDistributor(b, d) \in {chosen, AddCommand(chosen, "Register")}
    BY <1>2 DEF SetDistributor, chosen
  <2>4. QED
    BY <2>1, <2>2, <2>3 DEF Follows
<1>3. QED
  BY <1>1, <1>2

-----------------------------------------------------------------------------
(* The bus *)

LEMMA EventTypes ==
  /\ \A e \in {"NewEndpoint", "Unregistered", "Success", "Failure", "Error",
               "Gone", "Here"} : Plain(e) \in Event /\ Plain(e).event = e
  /\ \A t \in Nat, e \in Endpoints \cup {None} : NewEndpoint(t, e) \in Event
  /\ \A t \in Nat : Unregistered(t) \in Event
  /\ \A e \in {"Gone", "Here"}, d \in Distributors :
       /\ Service(e, d) \in Event
       /\ Service(e, d).event = e /\ Service(e, d).service = d
<1>1. \A e \in {"NewEndpoint", "Unregistered", "Success", "Failure", "Error",
               "Gone", "Here"} : Plain(e) \in Event /\ Plain(e).event = e
  BY DEF Plain, Event, NoToken
<1>2. QED
  BY <1>1 DEF NewEndpoint, Unregistered, Service, Event, Plain

(* The endpoint a distributor has for a client. *)
LEMMA KnownEndpoint ==
  ASSUME TypeOK, NEW d \in Distributors, NEW t \in Nat, Known(d, t)
  PROVE  t \in Tokens /\ clients[d][t].endpoint \in Endpoints \cup {None}
             /\ clients[d][t].key \in VapidKeys \cup {None}
BY DEF TypeOK, Known, Registration

LEMMA CallRegisterTyped ==
  ASSUME TypeOK, NEW c, Sound(c), c.call = "Register", c.token <= MaxToken,
         NEW rest \in Seq(Event), CallRegister(c, rest)
  PROVE  /\ incoming' \in Seq(Event)
         /\ pending' \in Distributors \cup {None}
         /\ work' \in [Distributors -> Seq(Work)]
<1> DEFINE d == c.iface
           t == c.token
           key == IF VersionOf[d] = "v2" THEN c.key ELSE None
           w == [op |-> "Register", token |-> t, key |-> key, waits |-> TRUE]
<1>1. d \in Distributors /\ t \in Nat /\ t \in Tokens
      /\ key \in VapidKeys \cup {None}
  BY ConnectorAssumption DEF Sound, ConnectorState, Tokens, NoToken
<1>2. w \in Work
  BY <1>1 DEF Work
<1>3. CASE d \notin services
  <2>1. incoming' = Append(rest, Plain("Error")) /\ UNCHANGED <<work, pending>>
    BY <1>3 DEF CallRegister
  <2>2. QED
    BY <2>1, EventTypes DEF TypeOK
<1>4. CASE d \in services /\ Known(d, t)
  <2> DEFINE replies == <<NewEndpoint(t, clients[d][t].endpoint),
                          Plain("Success")>>
  <2>1. clients[d][t].endpoint \in Endpoints \cup {None}
    BY <1>1, <1>4, KnownEndpoint
  <2>2. replies \in Seq(Event)
    BY <1>1, <2>1, EventTypes
  <2>3. incoming' = rest \o replies
    BY <1>4 DEF CallRegister
  <2> HIDE DEF replies
  <2>4. incoming' \in Seq(Event)
    BY <2>2, <2>3
  <2>5. QED
    BY <1>4, <2>4 DEF CallRegister, TypeOK
<1>5. CASE d \in services /\ ~Known(d, t)
  <2>1. /\ incoming' = rest /\ pending' = d
        /\ work' = [work EXCEPT ![d] = Append(@, w)]
    BY <1>5 DEF CallRegister
  <2>2. QED
    BY <1>1, <1>2, <2>1 DEF TypeOK
<1>6. QED
  BY <1>3, <1>4, <1>5

LEMMA CallUnregisterTyped ==
  ASSUME TypeOK, NEW c, Sound(c), c.call = "Unregister",
         NEW rest \in Seq(Event), CallUnregister(c, rest)
  PROVE  /\ incoming' = rest /\ pending' = pending
         /\ work' \in [Distributors -> Seq(Work)]
<1> DEFINE d == c.iface
           t == c.token
           unregister == [op |-> "Unregister", token |-> t, key |-> None,
                          waits |-> FALSE]
           Queued(executing) ==
             {i \in DOMAIN work[d] : /\ work[d][i].op = "Register"
                                     /\ work[d][i].token = t
                                     /\ executing => i # 1}
           Withdrawn(executing) ==
             IF Queued(executing) = {} THEN work[d]
             ELSE RemoveAt(work[d], Min(Queued(executing)))
<1>1. d \in Distributors /\ t \in Nat /\ work[d] \in Seq(Work)
  BY DEF Sound, ConnectorState, TypeOK
<1>2. incoming' = rest /\ pending' = pending
  BY DEF CallUnregister
<1>3. CASE d \notin services
  <2>1. work' = work
    BY <1>3 DEF CallUnregister
  <2>2. QED
    BY <1>2, <2>1 DEF TypeOK
<1>4. CASE d \in services /\ Known(d, t)
  <2>1. work' = [work EXCEPT ![d] = Append(@, unregister)]
    BY <1>4 DEF CallUnregister
  <2>2. unregister \in Work
    BY <1>4 DEF Work, Known
  <2>3. QED
    BY <1>1, <1>2, <2>1, <2>2 DEF TypeOK
<1>5. CASE d \in services /\ ~Known(d, t)
  <2>1. PICK executing \in BOOLEAN :
          work' = [work EXCEPT ![d] = Withdrawn(executing)]
    BY <1>5 DEF CallUnregister
  <2>2. Withdrawn(executing) \in Seq(Work)
    <3>1. CASE Queued(executing) = {}
      BY <1>1, <3>1
    <3>2. CASE Queued(executing) # {}
      <4>1. Min(Queued(executing)) \in DOMAIN work[d]
        <5>1. /\ Queued(executing) \in SUBSET Nat
              /\ Queued(executing) \subseteq DOMAIN work[d]
          BY <1>1
        <5> HIDE DEF Queued, d
        <5>2. QED
          BY <3>2, <5>1, MinIsLeast
      <4>2. RemoveAt(work[d], Min(Queued(executing))) \in Seq(Work)
        <5> SUFFICES ASSUME NEW i \in DOMAIN work[d]
                     PROVE  RemoveAt(work[d], i) \in Seq(Work)
          BY <4>1
        <5> HIDE DEF d
        <5>1. /\ SubSeq(work[d], 1, i - 1) \in Seq(Work)
              /\ SubSeq(work[d], i + 1, Len(work[d])) \in Seq(Work)
          BY <1>1
        <5>2. QED
          BY <5>1, ConcatProperties DEF RemoveAt
      <4>3. QED
        BY <3>2, <4>2
    <3>3. QED
      BY <3>1, <3>2
  <2> HIDE DEF Withdrawn, d
  <2>3. QED
    BY <1>1, <1>2, <2>1, <2>2 DEF TypeOK
<1>6. QED
  BY <1>3, <1>4, <1>5

(* The handlers' common end. *)
LEMMA HandledTyped ==
  ASSUME TypeOK, NEW c, Sound(c), NEW rest \in Seq(Event), Handled(c, rest)
  PROVE  /\ con' \in ConnectorState /\ con'.call = "None"
         /\ con'.token \in 0..MaxToken
         /\ issued' \in 0..MaxToken
         /\ incoming' \in Seq(Event)
         /\ pending' \in Distributors \cup {None}
         /\ work' \in [Distributors -> Seq(Work)]
         /\ con'.iface = c.iface /\ con'.current = c.current
<1>1. c.token \in Nat /\ c.token <= MaxToken /\ c.call \in Commands
  BY DEF Handled, Sound, ConnectorState
<1>2. /\ con' \in ConnectorState /\ con'.call = "None"
      /\ con'.token = c.token
      /\ con'.iface = c.iface /\ con'.current = c.current
  BY DEF Handled, Sound, ConnectorState, Commands
<1>3. issued' \in 0..MaxToken
  BY <1>1 DEF Handled, TypeOK
<1>4. /\ incoming' \in Seq(Event)
      /\ pending' \in Distributors \cup {None}
      /\ work' \in [Distributors -> Seq(Work)]
  <2>1. CASE c.call = "Register"
    <3>1. CallRegister(c, rest)
      BY <2>1 DEF Handled
    <3>2. QED
      BY <1>1, <2>1, <3>1, CallRegisterTyped
  <2>2. CASE c.call = "Unregister"
    <3>1. CallUnregister(c, rest)
      BY <2>2 DEF Handled
    <3>2. QED
      BY <2>2, <3>1, CallUnregisterTyped DEF TypeOK
  <2>3. CASE c.call = "None"
    <3>1. incoming' = rest /\ UNCHANGED <<work, pending>>
      BY <2>3 DEF Handled
    <3>2. QED
      BY <3>1 DEF TypeOK
  <2>4. QED
    BY <1>1, <2>1, <2>2, <2>3 DEF Commands
<1>5. QED
  BY <1>1, <1>2, <1>3, <1>4, ConnectorAssumption

-----------------------------------------------------------------------------
(* Types *)

LEMMA TypeInit == Init => TypeOK
<1> SUFFICES ASSUME Init PROVE TypeOK
  OBVIOUS
<1>1. Fresh \in ConnectorState /\ Fresh.call = "None" /\ Fresh.token = 0
  BY DEF Fresh, ConnectorState, States, Commands, NoToken
<1>2. clients \in [Distributors -> [Tokens -> Registration \cup {None}]]
  BY DEF Init
<1>3. work \in [Distributors -> Seq(Work)] /\ incoming \in Seq(Event)
  BY DEF Init
<1>4. budget \in [Kinds -> Nat]
  BY ConnectorAssumption DEF Init
<1>5. con \in ConnectorState /\ con.call = "None" /\ con.token \in 0..MaxToken
      /\ issued \in 0..MaxToken
  BY <1>1, ConnectorAssumption DEF Init
<1>6. QED
  BY <1>2, <1>3, <1>4, <1>5 DEF Init, TypeOK

LEMMA FreshSound ==
  /\ Fresh \in ConnectorState /\ Fresh.call = "None" /\ Fresh.iface = None
  /\ Fresh.token = 0 /\ Fresh.current = "None"
BY DEF Fresh, ConnectorState, States, Commands, NoToken

LEMMA LoadedSound ==
  ASSUME TypeOK
  PROVE  /\ Loaded \in ConnectorState /\ Loaded.call = "None"
         /\ Loaded.iface = None /\ Loaded.current = "None"
BY FreshSound DEF Loaded, TypeOK, StateFile, ConnectorState

LEMMA StoredTyped ==
  ASSUME TypeOK, NEW c \in ConnectorState
  PROVE  Stored(c) \in StateFile
BY DEF Stored, TypeOK, StateFile, ConnectorState

LEMMA SpendTyped ==
  ASSUME TypeOK, NEW kind \in Kinds, Spend(kind)
  PROVE  budget' \in [Kinds -> Nat]
BY DEF TypeOK, Spend

LEMMA ConSound ==
  ASSUME TypeOK
  PROVE  issued \in Nat /\ Sound(con)
BY ConnectorAssumption DEF TypeOK, Sound

LEMMA HeadOfWork ==
  ASSUME TypeOK, NEW d \in Distributors, work[d] # <<>>
  PROVE  /\ Head(work[d]) \in Work /\ Tail(work[d]) \in Seq(Work)
         /\ [work EXCEPT ![d] = Tail(@)] \in [Distributors -> Seq(Work)]
BY DEF TypeOK

LEMMA WaitsNoMore ==
  ASSUME NEW s \in Seq(Work)
  PROVE  [i \in DOMAIN s |-> [s[i] EXCEPT !.waits = FALSE]] \in Seq(Work)
<1>1. \A i \in DOMAIN s : [s[i] EXCEPT !.waits = FALSE] \in Work
  <2>1. \A w \in Work : [w EXCEPT !.waits = FALSE] \in Work
    BY DEF Work
  <2>2. \A i \in DOMAIN s : s[i] \in Work
    OBVIOUS
  <2>3. QED
    BY <2>1, <2>2
<1>2. Len(s) \in Nat /\ DOMAIN s = 1..Len(s)
  OBVIOUS
<1> DEFINE f == [i \in DOMAIN s |-> [s[i] EXCEPT !.waits = FALSE]]
<1>3. f \in [1..Len(s) -> Work]
  BY <1>1, <1>2
<1> HIDE DEF f
<1>4. f \in Seq(Work)
  <2>1. f \in UNION {[1..n -> Work] : n \in Nat}
    BY <1>2, <1>3
  <2>2. QED
    BY <2>1, SeqDef, Zenon
<1>5. QED
  BY <1>4 DEF f

LEMMA StopTyped ==
  ASSUME TypeOK, Stop
  PROVE  /\ running' = FALSE /\ con' = Fresh /\ incoming' = <<>>
         /\ incoming' \in Seq(Event)
         /\ pending' = None /\ work' \in [Distributors -> Seq(Work)]
         /\ UNCHANGED <<file, issued, services, clients, wish>>
<1>1. work' \in [Distributors -> Seq(Work)]
  BY WaitsNoMore DEF TypeOK, Stop
<1>2. QED
  BY <1>1 DEF Stop

LEMMA StopKeepsTypes ==
  ASSUME TypeOK, Stop, budget' \in [Kinds -> Nat]
  PROVE  TypeOK'
<1>1. con' \in ConnectorState /\ con'.call = "None" /\ con'.token \in 0..MaxToken
  BY StopTyped, FreshSound, ConnectorAssumption
<1>2. /\ running' \in BOOLEAN /\ incoming' \in Seq(Event)
      /\ pending' \in Distributors \cup {None}
      /\ work' \in [Distributors -> Seq(Work)]
  BY StopTyped
<1>3. UNCHANGED <<file, issued, services, clients, wish>>
  BY StopTyped
<1>4. QED
  BY <1>1, <1>2, <1>3 DEF TypeOK

(* Each handler keeps the types; what it makes of the connector is Sound. *)
LEMMA HandlerTyped ==
  ASSUME TypeOK, NEW c, Sound(c), NEW rest \in Seq(Event), Handled(c, rest),
         running' \in BOOLEAN, file' \in StateFile \cup {None},
         UNCHANGED <<services, clients>>,
         wish' \in {"nothing", "registered", "unregistered"},
         budget' \in [Kinds -> Nat]
  PROVE  TypeOK'
<1>1. /\ con' \in ConnectorState /\ con'.call = "None"
      /\ con'.token \in 0..MaxToken
      /\ issued' \in 0..MaxToken
      /\ incoming' \in Seq(Event)
      /\ pending' \in Distributors \cup {None}
      /\ work' \in [Distributors -> Seq(Work)]
  BY HandledTyped
<1>2. QED
  BY <1>1 DEF TypeOK

LEMMA ApplicationTyped == TypeOK /\ (Start \/ Application) => TypeOK'
<1> SUFFICES ASSUME TypeOK, Start \/ Application PROVE TypeOK'
  OBVIOUS
<1>0. issued \in Nat /\ Sound(con) /\ incoming \in Seq(Event)
  BY ConSound DEF TypeOK
<1>1. CASE Start
  <2> DEFINE c == SetDistributor(Loaded, SelectDistributor)
  <2>1. SelectDistributor \in Distributors \cup {None}
    BY SelectsService DEF TypeOK
  <2>2. Sound(c)
    BY <1>0, <2>1, LoadedSound, SetDistributorFollows
  <2>3. Handled(c, incoming)
    BY <1>1 DEF Start
  <2> HIDE DEF c
  <2>4. QED
    BY <1>0, <1>1, <2>2, <2>3, HandlerTyped DEF Start, TypeOK
<1>2. CASE RegisterClient
  <2>1. Sound(AddCommand(con, "Register"))
    BY <1>0, AddFollows DEF Follows, Commands
  <2>2. budget' \in [Kinds -> Nat]
    BY <1>2, SpendTyped DEF RegisterClient, Kinds
  <2>3. QED
    BY <1>0, <1>2, <2>1, <2>2, HandlerTyped DEF RegisterClient, TypeOK
<1>3. CASE UnregisterClient
  <2>1. Sound(AddCommand(con, "Unregister"))
    BY <1>0, AddFollows DEF Follows, Commands
  <2>2. budget' \in [Kinds -> Nat]
    BY <1>3, SpendTyped DEF UnregisterClient, Kinds
  <2>3. QED
    BY <1>0, <1>3, <2>1, <2>2, HandlerTyped DEF UnregisterClient, TypeOK
<1>4. ASSUME NEW k \in VapidKeys, SetVapidPublicKey(k) PROVE TypeOK'
  <2> DEFINE b == [con EXCEPT !.key = k]
             c == IF b.token = NoToken THEN ProcessNextCommand(b)
                                       ELSE Reregister(b)
  <2>1. Sound(b)
    BY <1>0 DEF Sound, ConnectorState
  <2>2. Handled(c, incoming)
    BY <1>4 DEF SetVapidPublicKey
  <2>3. budget' \in [Kinds -> Nat]
    BY <1>4, SpendTyped DEF SetVapidPublicKey, Kinds
  <2> HIDE DEF b
  <2>4. Sound(c)
    BY <1>0, <2>1, ProcessFollows, ReregisterFollows DEF Follows
  <2> HIDE DEF c
  <2>5. QED
    BY <1>0, <1>4, <2>2, <2>3, <2>4, HandlerTyped DEF SetVapidPublicKey, TypeOK
<1>5. CASE SetVapidPublicKeyRequired
  <2> DEFINE b == [con EXCEPT !.required = ~@]
  <2>1. Sound(b)
    BY <1>0 DEF Sound, ConnectorState
  <2>2. Handled(ProcessNextCommand(b), incoming)
    BY <1>5 DEF SetVapidPublicKeyRequired
  <2>3. budget' \in [Kinds -> Nat]
    BY <1>5, SpendTyped DEF SetVapidPublicKeyRequired, Kinds
  <2> HIDE DEF b
  <2>4. Sound(ProcessNextCommand(b))
    BY <1>0, <2>1, ProcessFollows DEF Follows
  <2>5. QED
    BY <1>0, <1>5, <2>2, <2>3, <2>4, HandlerTyped
       DEF SetVapidPublicKeyRequired, TypeOK
<1>6. CASE EnsureKeys
  <2>1. con' \in ConnectorState /\ con'.call = "None" /\ con'.token = con.token
    BY <1>6 DEF EnsureKeys, TypeOK, ConnectorState
  <2>2. file' \in StateFile
    BY <1>6, <2>1, StoredTyped DEF EnsureKeys
  <2>3. budget' \in [Kinds -> Nat]
    BY <1>6, SpendTyped DEF EnsureKeys, Kinds
  <2>4. QED
    BY <1>6, <2>1, <2>2, <2>3 DEF EnsureKeys, TypeOK, distributors
<1>7. CASE RemoveState
  <2>1. budget' \in [Kinds -> Nat]
    BY <1>7, SpendTyped DEF RemoveState, Kinds
  <2>2. QED
    BY <1>7, <2>1 DEF RemoveState, TypeOK, distributors
<1>8. CASE Quit
  <2>1. budget' \in [Kinds -> Nat]
    BY <1>8, SpendTyped DEF Quit, Kinds
  <2>2. Stop
    BY <1>8 DEF Quit
  <2>3. QED
    BY <2>1, <2>2, StopKeepsTypes
<1>9. QED
  BY <1>1, <1>2, <1>3, <1>4, <1>5, <1>6, <1>7, <1>8 DEF Application

LEMMA DeliveryTyped == TypeOK /\ Delivery => TypeOK'
<1> SUFFICES ASSUME TypeOK, Delivery PROVE TypeOK'
  OBVIOUS
<1> DEFINE head == Head(incoming)
           rest == Tail(incoming)
<1>0. issued \in Nat /\ Sound(con)
  BY ConSound
<1>1. ASSUME incoming # <<>>
      PROVE  head \in Event /\ rest \in Seq(Event)
  BY <1>1 DEF TypeOK
<1>2. CASE NewEndpointArrives
  <2> DEFINE c == [con EXCEPT !.endpoint = head.endpoint, !.state = "Registered"]
  <2>1. head \in Event /\ rest \in Seq(Event)
    BY <1>1, <1>2 DEF NewEndpointArrives, Receives
  <2>2. Sound(c)
    BY <1>0, <2>1 DEF Sound, ConnectorState, Event, States
  <2>3. Stored(c) \in StateFile
    BY <2>2, StoredTyped DEF Sound
  <2>4. \/ Handled(c, rest) /\ file' = Stored(c)
        \/ Handled(con, rest) /\ file' = file
    BY <1>2 DEF NewEndpointArrives
  <2>5. UNCHANGED <<running, services, clients, wish, budget>>
    BY <1>2 DEF NewEndpointArrives
  <2> HIDE DEF c, rest, head
  <2>6. CASE Handled(c, rest) /\ file' = Stored(c)
    BY <2>1, <2>2, <2>3, <2>5, <2>6, HandlerTyped DEF TypeOK
  <2>7. CASE Handled(con, rest) /\ file' = file
    BY <1>0, <2>1, <2>5, <2>7, HandlerTyped DEF TypeOK
  <2>8. QED
    BY <2>4, <2>6, <2>7
<1>3. CASE UnregisteredArrives
  <2> DEFINE gone == [con EXCEPT !.endpoint = None, !.state = "Unregistered"]
             confirmed == head.token = NoToken \/ con.current = "Unregister"
             c == IF confirmed THEN [gone EXCEPT !.token = NoToken] ELSE gone
             next == IF con.current = "Unregister"
                     THEN [c EXCEPT !.current = "None"] ELSE c
  <2>1. head \in Event /\ rest \in Seq(Event)
    BY <1>1, <1>3 DEF UnregisteredArrives, Receives
  <2>2. gone \in ConnectorState /\ gone.call = "None"
    BY DEF TypeOK, ConnectorState, States
  <2>3. Sound(next)
    BY <2>2 DEF Sound, ConnectorState, NoToken, Commands
  <2>4. Sound(ProcessNextCommand(next))
    BY <1>0, <2>3, ProcessFollows DEF Follows
  <2>5. Stored(gone) \in StateFile
    BY <2>2, StoredTyped
  <2>6. \/ /\ Handled(ProcessNextCommand(next), rest)
           /\ file' \in {None, Stored(gone)} /\ wish' \in {wish, "nothing"}
        \/ Handled(con, rest) /\ UNCHANGED <<file, wish>>
    BY <1>3 DEF UnregisteredArrives
  <2>7. UNCHANGED <<running, services, clients, budget>>
    BY <1>3 DEF UnregisteredArrives
  <2> HIDE DEF gone, next, rest, head
  <2>8. CASE /\ Handled(ProcessNextCommand(next), rest)
             /\ file' \in {None, Stored(gone)} /\ wish' \in {wish, "nothing"}
    BY <2>1, <2>4, <2>5, <2>7, <2>8, HandlerTyped DEF TypeOK
  <2>9. CASE Handled(con, rest) /\ UNCHANGED <<file, wish>>
    BY <1>0, <2>1, <2>7, <2>9, HandlerTyped DEF TypeOK
  <2>10. QED
    BY <2>6, <2>8, <2>9
<1>4. CASE ReplyArrives
  <2> DEFINE state == CASE head.event # "Success" -> "Error"
                        [] con.endpoint = None -> "Registering"
                        [] OTHER -> "Registered"
             c == CommandEnds([con EXCEPT !.state = state])
  <2>1. rest \in Seq(Event)
    BY <1>1, <1>4 DEF ReplyArrives, Receives
  <2>2. state \in States
    BY DEF States
  <2>3. Handled(ProcessNextCommand(c), rest)
    BY <1>4 DEF ReplyArrives
  <2> HIDE DEF state
  <2>4. Sound(c)
    BY <2>2 DEF CommandEnds, TypeOK, Sound, ConnectorState, Commands
  <2>5. UNCHANGED <<running, file, services, clients, wish, budget>>
    BY <1>4 DEF ReplyArrives
  <2> HIDE DEF c, rest, head
  <2>6. Sound(ProcessNextCommand(c))
    BY <1>0, <2>4, ProcessFollows DEF Follows
  <2>7. QED
    BY <2>1, <2>3, <2>5, <2>6, HandlerTyped DEF TypeOK
<1>5. CASE ServiceRegistered
  <2> DEFINE b == SetDistributor(con, SelectDistributor)
             c == IF con.iface = None THEN ProcessNextCommand(b) ELSE con
  <2>1. rest \in Seq(Event)
    BY <1>1, <1>5 DEF ServiceRegistered, Receives
  <2>2. Handled(c, rest)
    BY <1>5 DEF ServiceRegistered
  <2>3. SelectDistributor \in Distributors \cup {None}
    BY SelectsService DEF TypeOK
  <2>4. con.iface = None => Sound(b)
    BY <1>0, <2>3, SetDistributorFollows DEF TypeOK
  <2> HIDE DEF b
  <2>5. Sound(c)
    BY <1>0, <2>4, ProcessFollows DEF Follows
  <2>6. UNCHANGED <<running, file, services, clients, wish, budget>>
    BY <1>5 DEF ServiceRegistered
  <2> HIDE DEF c, rest
  <2>7. QED
    BY <2>1, <2>2, <2>5, <2>6, HandlerTyped DEF TypeOK
<1>6. CASE ServiceUnregistered
  <2> DEFINE c == WithoutDistributor(con, head.service)
  <2>1. rest \in Seq(Event)
    BY <1>1, <1>6 DEF ServiceUnregistered, Receives
  <2>2. Handled(c, rest)
    BY <1>6 DEF ServiceUnregistered
  <2>3. Sound(c)
    BY <1>0, WithoutSound DEF TypeOK
  <2>4. UNCHANGED <<running, file, services, clients, wish, budget>>
    BY <1>6 DEF ServiceUnregistered
  <2> HIDE DEF c, rest
  <2>5. QED
    BY <2>1, <2>2, <2>3, <2>4, HandlerTyped DEF TypeOK
<1>7. CASE ServiceUnregisteredCrash
  <2>1. Stop /\ budget' \in [Kinds -> Nat]
    BY <1>7 DEF ServiceUnregisteredCrash, TypeOK
  <2>2. QED
    BY <2>1, StopKeepsTypes
<1>8. QED
  BY <1>2, <1>3, <1>4, <1>5, <1>6, <1>7 DEF Delivery

LEMMA RepliedTyped ==
  ASSUME NEW w \in Work, NEW event \in {"Success", "Failure"}
  PROVE  Replied(w, event) \in Seq(Event)
BY EventTypes DEF Replied

LEMMA WorksTyped ==
  ASSUME TypeOK, NEW d \in Distributors, Works(d) \/ Rejects(d)
  PROVE  TypeOK'
<1> DEFINE w == Head(work[d])
           moved == [work EXCEPT ![d] = Tail(@)]
<1>0. ASSUME work[d] # <<>>
      PROVE  /\ w \in Work /\ w.token \in Tokens /\ w.token \in Nat
             /\ moved \in [Distributors -> Seq(Work)]
  <2>1. /\ w \in Work
        /\ [work EXCEPT ![d] = Tail(work[d])] \in [Distributors -> Seq(Work)]
    BY <1>0, HeadOfWork
  <2> HIDE DEF w
  <2>2. w.token \in Tokens /\ w.token \in Nat
    BY <2>1, ConnectorAssumption DEF Work, Tokens
  <2>3. QED
    BY <2>1, <2>2
<1>1. CASE Registers(d)
  <2>1. w \in Work /\ w.token \in Tokens /\ w.token \in Nat
        /\ work' = moved /\ work' \in [Distributors -> Seq(Work)]
    BY <1>0, <1>1 DEF Registers, Working
  <2>2. PICK e \in Endpoints :
          /\ clients' = [clients EXCEPT ![d][w.token] =
                           [endpoint |-> e, stored |-> e, key |-> w.key]]
          /\ incoming' = incoming \o <<NewEndpoint(w.token, e)>>
                         \o Replied(w, "Success")
    BY <1>1 DEF Registers
  <2>3. pending' \in Distributors \cup {None}
        /\ UNCHANGED <<running, con, file, issued, services, wish, budget>>
    BY <1>1 DEF Registers, TypeOK
  <2> HIDE DEF w, moved
  <2>4. [endpoint |-> e, stored |-> e, key |-> w.key] \in Registration
    BY <2>1 DEF Registration, Work
  <2>5. clients' \in [Distributors -> [Tokens -> Registration \cup {None}]]
    BY <2>1, <2>2, <2>4 DEF TypeOK
  <2>6. incoming' \in Seq(Event)
    BY <2>1, <2>2, EventTypes, RepliedTyped DEF TypeOK
  <2>7. QED
    BY <2>1, <2>3, <2>5, <2>6 DEF TypeOK
<1>2. CASE RejectsRegistration(d)
  <2>1. w \in Work /\ work' \in [Distributors -> Seq(Work)]
    BY <1>0, <1>2 DEF RejectsRegistration, Working
  <2>2. incoming' \in Seq(Event)
    BY <1>2, <2>1, RepliedTyped DEF RejectsRegistration, TypeOK
  <2>3. budget' \in [Kinds -> Nat]
    BY <1>2, SpendTyped DEF RejectsRegistration, Kinds
  <2>4. QED
    BY <1>2, <2>1, <2>2, <2>3 DEF RejectsRegistration, TypeOK
<1>3. ASSUME NEW op \in {"Unregister", "ForceUnregister"}, Unregisters(d, op)
      PROVE  TypeOK'
  <2>1. w.token \in Tokens /\ w.token \in Nat
        /\ work' \in [Distributors -> Seq(Work)]
    BY <1>0, <1>3 DEF Unregisters, Working
  <2>2. /\ clients' = [clients EXCEPT ![d][w.token] = None]
        /\ \E t \in {NoToken, w.token} :
             incoming' = Append(incoming, Unregistered(t))
        /\ UNCHANGED <<running, con, file, issued, pending, services, wish, budget>>
    BY <1>3 DEF Unregisters
  <2> HIDE DEF w, moved
  <2>3. incoming' \in Seq(Event)
    BY <2>1, <2>2, EventTypes DEF TypeOK, NoToken
  <2>4. clients' \in [Distributors -> [Tokens -> Registration \cup {None}]]
    BY <2>1, <2>2 DEF TypeOK
  <2>5. QED
    BY <2>1, <2>2, <2>3, <2>4 DEF TypeOK
<1>4. ASSUME NEW op \in {"Unregister", "ForceUnregister"},
             RejectsUnregistration(d, op)
      PROVE  TypeOK'
  <2>1. w.token \in Tokens /\ work' \in [Distributors -> Seq(Work)]
    BY <1>0, <1>4 DEF RejectsUnregistration, Working
  <2>2. /\ clients' = [clients EXCEPT ![d][w.token] = None]
        /\ wish' \in {"nothing", wish}
        /\ UNCHANGED <<running, con, file, issued, incoming, pending, services>>
    BY <1>4 DEF RejectsUnregistration
  <2>3. budget' \in [Kinds -> Nat]
    BY <1>4, SpendTyped DEF RejectsUnregistration, Kinds
  <2> HIDE DEF w, moved
  <2>4. clients' \in [Distributors -> [Tokens -> Registration \cup {None}]]
    BY <2>1, <2>2 DEF TypeOK
  <2>5. QED
    BY <2>1, <2>2, <2>3, <2>4 DEF TypeOK
<1>5. CASE SilentlyUnregisters(d)
  <2>1. w.token \in Nat /\ w.token \in Tokens
        /\ work' \in [Distributors -> Seq(Work)]
    BY <1>0, <1>5 DEF SilentlyUnregisters, Working
  <2>2. incoming' \in Seq(Event)
    BY <1>5, <2>1, EventTypes DEF SilentlyUnregisters, TypeOK
  <2>3. \/ UNCHANGED clients
        \/ /\ clients[d][w.token] # None
           /\ clients' = [clients EXCEPT ![d][w.token].stored = None]
    BY <1>5 DEF SilentlyUnregisters, Known
  <2> HIDE DEF w, moved
  <2>4. clients' \in [Distributors -> [Tokens -> Registration \cup {None}]]
    <3>1. CASE clients[d][w.token] = None
      BY <2>3, <3>1 DEF TypeOK
    <3>2. CASE clients[d][w.token] # None
      <4> DEFINE c == [clients[d][w.token] EXCEPT !.stored = None]
      <4>1. clients[d][w.token] \in Registration
        BY <2>1, <3>2 DEF TypeOK
      <4>2. c \in Registration
        BY <4>1 DEF Registration
      <4>3. UNCHANGED clients \/ clients' = [clients EXCEPT ![d][w.token] = c]
        BY <2>3
      <4> HIDE DEF c
      <4>4. clients \in [Distributors -> [Tokens -> Registration \cup {None}]]
        BY DEF TypeOK
      <4>5. [clients EXCEPT ![d][w.token] = c]
              \in [Distributors -> [Tokens -> Registration \cup {None}]]
        BY <2>1, <4>2, <4>4
      <4>6. QED
        BY <4>3, <4>4, <4>5
    <3>3. QED
      BY <3>1, <3>2
  <2>5. QED
    BY <1>5, <2>1, <2>2, <2>4 DEF SilentlyUnregisters, TypeOK
<1>6. QED
  BY <1>1, <1>2, <1>3, <1>4, <1>5 DEF Works, Rejects

LEMMA SurroundingsTyped ==
  ASSUME TypeOK
  PROVE  /\ Timeout => TypeOK'
         /\ \A d \in Distributors :
              /\ DistributorGone(d) \/ DistributorHere(d) => TypeOK'
              /\ \A t \in Tokens : Move(d, t) \/ ForceUnregister(d, t) => TypeOK'
<1>1. ASSUME Timeout PROVE TypeOK'
  <2>1. pending \in Distributors
    BY <1>1 DEF Timeout, TypeOK
  <2>2. work' \in [Distributors -> Seq(Work)]
    BY <1>1, <2>1, WaitsNoMore DEF Timeout, TypeOK
  <2>3. incoming' \in Seq(Event)
    BY <1>1, EventTypes DEF Timeout, TypeOK
  <2>4. budget' \in [Kinds -> Nat]
    BY <1>1, SpendTyped DEF Timeout, Kinds
  <2>5. QED
    BY <1>1, <2>2, <2>3, <2>4 DEF Timeout, TypeOK
<1>2. ASSUME NEW d \in Distributors, DistributorGone(d) PROVE TypeOK'
  <2>1. Signal("Gone", d) \in Seq(Event) /\ <<Plain("Error")>> \in Seq(Event)
    BY EventTypes DEF Signal
  <2>2. incoming' \in Seq(Event)
    BY <1>2, <2>1 DEF DistributorGone, TypeOK
  <2>3. budget' \in [Kinds -> Nat]
    BY <1>2, SpendTyped DEF DistributorGone, Kinds
  <2>4. QED
    BY <1>2, <2>2, <2>3 DEF DistributorGone, TypeOK
<1>3. ASSUME NEW d \in Distributors, DistributorHere(d) PROVE TypeOK'
  <2>1. Signal("Here", d) \in Seq(Event)
    BY EventTypes DEF Signal
  <2>2. incoming' \in Seq(Event)
    BY <1>3, <2>1 DEF DistributorHere, TypeOK
  <2>3. budget' \in [Kinds -> Nat]
    BY <1>3, SpendTyped DEF DistributorHere, Kinds
  <2>4. clients' \in [Distributors -> [Tokens -> Registration \cup {None}]]
    <3>1. \A c \in Registration \cup {None} :
            FromSettings(c) \in Registration \cup {None}
      BY DEF FromSettings, Registration
    <3>2. clients' = [clients EXCEPT ![d] =
                        [t \in Tokens |-> FromSettings(clients[d][t])]]
      BY <1>3 DEF DistributorHere
    <3>3. QED
      BY <3>1, <3>2 DEF TypeOK
  <2>5. QED
    BY <1>3, <2>2, <2>3, <2>4 DEF DistributorHere, TypeOK
<1>4. ASSUME NEW d \in Distributors, NEW t \in Tokens,
             Move(d, t) \/ ForceUnregister(d, t)
      PROVE  TypeOK'
  <2>1. t \in Nat /\ Known(d, t)
    BY <1>4, ConnectorAssumption DEF Tokens, Move, ForceUnregister
  <2>2. \A op \in {"Register", "ForceUnregister", "SilentUnregister"} :
          Todo(d, t, op) \in Work
    BY <2>1, KnownEndpoint DEF Todo, Work
  <2>3. \E s \in Seq(Work) : work' = [work EXCEPT ![d] = s]
    <3>1. CASE Move(d, t)
      <4>1. <<Todo(d, t, "SilentUnregister"), Todo(d, t, "Register")>>
              \in Seq(Work)
        BY <2>2
      <4> DEFINE s == work[d] \o <<Todo(d, t, "SilentUnregister"),
                                    Todo(d, t, "Register")>>
      <4>2. s \in Seq(Work)
        BY <4>1 DEF TypeOK
      <4>3. work' = [work EXCEPT ![d] = s]
        BY <3>1 DEF Move
      <4> HIDE DEF s
      <4>4. QED
        BY <4>2, <4>3
    <3>2. CASE ForceUnregister(d, t)
      <4> DEFINE s == Append(work[d], Todo(d, t, "ForceUnregister"))
      <4>1. s \in Seq(Work)
        BY <2>2 DEF TypeOK
      <4>2. work' = [work EXCEPT ![d] = s]
        BY <3>2 DEF ForceUnregister
      <4> HIDE DEF s
      <4>3. QED
        BY <4>1, <4>2
    <3>3. QED
      BY <1>4, <3>1, <3>2
  <2>4. budget' \in [Kinds -> Nat]
    BY <1>4, SpendTyped DEF Move, ForceUnregister, Kinds
  <2>5. UNCHANGED <<running, con, file, issued, incoming, pending, services,
                    clients, wish>>
    BY <1>4 DEF Move, ForceUnregister
  <2>6. QED
    BY <2>3, <2>4, <2>5 DEF TypeOK
<1>5. QED
  BY <1>1, <1>2, <1>3, <1>4

LEMMA TypeNext == TypeOK /\ [Next]_vars => TypeOK'
<1>1. TypeOK /\ UNCHANGED vars => TypeOK'
  BY DEF TypeOK, vars, distributors
<1>2. QED
  BY <1>1, ApplicationTyped, DeliveryTyped, WorksTyped, SurroundingsTyped
     DEF Next

(* Every variable keeps its type, for any distributors, keys and budgets:  *)
(* tokens stay within those generated, each member and event is complete.  *)
THEOREM ConnectorTypeCorrect == Spec => []TypeOK
BY TypeInit, TypeNext, PTL DEF Spec

-----------------------------------------------------------------------------
(* Replies and signals *)

Replies == {"Success", "Failure", "Error"}
ReplyIn(s) == \E e \in ToSet(s) : e.event \in Replies
GoneIn(s, d) == \E e \in ToSet(s) : e.event = "Gone" /\ e.service = d

(* An application that is not running has no distributor.  A Register      *)
(* command that is current is waited for by a pending call, or its reply   *)
(* is on the way: the loss of the service is not counted on.  The          *)
(* connector's distributor is on the bus, or its end has been signalled.   *)
IInv ==
  /\ TypeOK
  /\ ~running => con = Fresh
  /\ con.current = "Register" => pending # None \/ ReplyIn(incoming)
  /\ con.iface # None => con.iface \in services \/ GoneIn(incoming, con.iface)

(* A call keeps what is delivered after this event, and a Register is      *)
(* answered or pending.                                                    *)
LEMMA HandledKeeps ==
  ASSUME TypeOK, NEW c, Sound(c), NEW rest \in Seq(Event), Handled(c, rest)
  PROVE  /\ ToSet(rest) \subseteq ToSet(incoming')
         /\ c.call = "Register" => pending' # None \/ ReplyIn(incoming')
         /\ c.call # "Register" => pending' = pending
<1>1. c.call \in Commands /\ c.token \in Nat
  BY DEF Sound, ConnectorState
<1>2. CASE c.call = "Register"
  <2> DEFINE d == c.iface
             t == c.token
  <2>1. CallRegister(c, rest) /\ d \in Distributors
    BY <1>2 DEF Handled, Sound, ConnectorState
  <2>2. Plain("Error").event \in Replies /\ Plain("Success").event \in Replies
    BY EventTypes DEF Replies
  <2>3. CASE d \notin services
    <3>1. incoming' = Append(rest, Plain("Error"))
      BY <2>1, <2>3 DEF CallRegister
    <3>2. ToSet(incoming') = ToSet(rest) \cup {Plain("Error")}
      BY <3>1, ElementsAppend
    <3>3. QED
      BY <1>2, <2>2, <3>2 DEF ReplyIn
  <2>4. CASE d \in services /\ Known(d, t)
    <3> DEFINE replies == <<NewEndpoint(t, clients[d][t].endpoint),
                            Plain("Success")>>
    <3>1. incoming' = rest \o replies
      BY <2>1, <2>4 DEF CallRegister
    <3>2. clients[d][t].endpoint \in Endpoints \cup {None}
      BY <1>1, <2>1, <2>4, KnownEndpoint
    <3>3. replies \in Seq(Event)
      BY <1>1, <3>2, EventTypes
    <3>4. Plain("Success") \in ToSet(replies)
      BY DEF ToSet
    <3> HIDE DEF replies
    <3>5. ToSet(rest) \subseteq ToSet(incoming')
          /\ ToSet(replies) \subseteq ToSet(incoming')
      BY <3>1, <3>3, ElementsConcat
    <3>6. QED
      BY <1>2, <2>2, <3>4, <3>5 DEF ReplyIn
  <2>5. CASE d \in services /\ ~Known(d, t)
    <3>1. incoming' = rest /\ pending' = d
      BY <2>1, <2>5 DEF CallRegister
    <3>2. QED
      BY <1>2, <2>1, <3>1, ConnectorAssumption
  <2>6. QED
    BY <2>3, <2>4, <2>5
<1>3. CASE c.call = "Unregister"
  <2>1. CallUnregister(c, rest)
    BY <1>3 DEF Handled
  <2>2. QED
    BY <1>3, <2>1 DEF CallUnregister
<1>4. CASE c.call = "None"
  BY <1>4 DEF Handled
<1>5. QED
  BY <1>1, <1>2, <1>3, <1>4 DEF Commands

(* A handler keeps the invariant, if a command that was current before is  *)
(* still answered after the event, and a distributor that was not chosen   *)
(* now is on the bus or its end is still to be signalled.                  *)
LEMMA HandlerStep ==
  ASSUME IInv, TypeOK', NEW c, Sound(c), NEW rest \in Seq(Event),
         Handled(c, rest), running', services' = services,
         c.current = "Register" /\ c.call = "None" =>
           pending # None \/ ReplyIn(rest),
         c.iface # None => c.iface \in services \/ GoneIn(rest, c.iface)
  PROVE  IInv'
<1>1. con'.iface = c.iface /\ con'.current = c.current
  BY HandledTyped DEF IInv
<1>2. /\ ToSet(rest) \subseteq ToSet(incoming')
      /\ c.call = "Register" => pending' # None \/ ReplyIn(incoming')
      /\ c.call # "Register" => pending' = pending
  BY HandledKeeps DEF IInv
<1>3. con'.current = "Register" => pending' # None \/ ReplyIn(incoming')
  <2>1. c.current = "Register" => c.call \in {"Register", "None"}
    BY DEF Sound
  <2>2. ReplyIn(rest) => ReplyIn(incoming')
    BY <1>2 DEF ReplyIn
  <2>3. QED
    BY <1>1, <1>2, <2>1, <2>2
<1>4. con'.iface # None =>
        con'.iface \in services' \/ GoneIn(incoming', con'.iface)
  BY <1>1, <1>2 DEF GoneIn
<1>5. QED
  BY <1>3, <1>4 DEF IInv, ReplyIn, GoneIn

LEMMA HeadPasses ==
  ASSUME TypeOK, incoming # <<>>
  PROVE  /\ Head(incoming).event \notin Replies /\ ReplyIn(incoming) =>
              ReplyIn(Tail(incoming))
         /\ \A d : /\ GoneIn(incoming, d)
                   /\ Head(incoming).event = "Gone" =>
                        Head(incoming).service # d
                   => GoneIn(Tail(incoming), d)
<1>1. ToSet(incoming) \subseteq {Head(incoming)} \cup ToSet(Tail(incoming))
  BY ElementsTail DEF TypeOK
<1>2. QED
  BY <1>1 DEF ReplyIn, GoneIn

(* Calls of the application: nothing is delivered. *)
LEMMA CallStep ==
  ASSUME IInv, TypeOK', running, NEW b, Sound(b), b.call = "None",
         b.iface = con.iface, b.current = con.current,
         NEW c, Follows(b, c), Handled(c, incoming), running',
         services' = services
  PROVE  IInv'
<1>1. incoming \in Seq(Event)
  BY DEF IInv, TypeOK
<1>2. c.current = "Register" /\ c.call = "None" =>
        pending # None \/ ReplyIn(incoming)
  BY DEF IInv, Follows
<1>3. c.iface # None => c.iface \in services \/ GoneIn(incoming, c.iface)
  BY DEF IInv, Follows
<1>4. QED
  BY <1>1, <1>2, <1>3, HandlerStep DEF Follows

LEMMA StopStep ==
  ASSUME IInv, TypeOK', Stop
  PROVE  IInv'
BY StopTyped, FreshSound DEF IInv

LEMMA ApplicationStep ==
  ASSUME IInv, TypeOK', Start \/ Application
  PROVE  IInv'
<1>0. TypeOK /\ issued \in Nat /\ Sound(con) /\ con.call = "None"
      /\ incoming \in Seq(Event)
  BY ConSound DEF IInv, TypeOK
<1>1. CASE Start
  <2> DEFINE c == SetDistributor(Loaded, SelectDistributor)
  <2>1. SelectDistributor \in services \cup {None}
        /\ SelectDistributor \in Distributors \cup {None}
    BY <1>0, SelectsService DEF TypeOK
  <2>2. /\ Sound(c) /\ c.iface = SelectDistributor
        /\ c.current # "None" /\ c.call = "None" => c.current = "None"
    BY <1>0, <2>1, LoadedSound, SetDistributorFollows
  <2>3. Handled(c, incoming) /\ running' /\ services' = services
    BY <1>1 DEF Start
  <2> HIDE DEF c
  <2>4. QED
    BY <1>0, <2>1, <2>2, <2>3, HandlerStep
<1>2. CASE RegisterClient
  <2>1. Follows(con, AddCommand(con, "Register"))
    BY <1>0, AddFollows DEF Commands
  <2>2. QED
    BY <1>0, <1>2, <2>1, CallStep DEF RegisterClient
<1>3. CASE UnregisterClient
  <2>1. Follows(con, AddCommand(con, "Unregister"))
    BY <1>0, AddFollows DEF Commands
  <2>2. QED
    BY <1>0, <1>3, <2>1, CallStep DEF UnregisterClient
<1>4. ASSUME NEW k \in VapidKeys, SetVapidPublicKey(k) PROVE IInv'
  <2> DEFINE b == [con EXCEPT !.key = k]
             c == IF b.token = NoToken THEN ProcessNextCommand(b)
                                       ELSE Reregister(b)
  <2>1. /\ Sound(b) /\ b.call = "None"
        /\ b.iface = con.iface /\ b.current = con.current
    BY <1>0 DEF Sound, ConnectorState
  <2>2. Handled(c, incoming) /\ running /\ running' /\ services' = services
    BY <1>4 DEF SetVapidPublicKey
  <2> HIDE DEF b
  <2>3. Follows(b, c)
    BY <1>0, <2>1, ProcessFollows, ReregisterFollows
  <2> HIDE DEF c
  <2>4. QED
    BY <2>1, <2>2, <2>3, CallStep
<1>5. CASE SetVapidPublicKeyRequired
  <2> DEFINE b == [con EXCEPT !.required = ~@]
  <2>1. /\ Sound(b) /\ b.call = "None"
        /\ b.iface = con.iface /\ b.current = con.current
    BY <1>0 DEF Sound, ConnectorState
  <2>2. /\ Handled(ProcessNextCommand(b), incoming)
        /\ running /\ running' /\ services' = services
    BY <1>5 DEF SetVapidPublicKeyRequired
  <2> HIDE DEF b
  <2>3. Follows(b, ProcessNextCommand(b))
    BY <1>0, <2>1, ProcessFollows
  <2>4. QED
    BY <2>1, <2>2, <2>3, CallStep
<1>6. CASE EnsureKeys
  <2>1. con'.current = con.current /\ con'.iface = con.iface
    BY <1>0, <1>6 DEF EnsureKeys, Sound, ConnectorState
  <2>2. running' /\ UNCHANGED <<incoming, pending, services>>
    BY <1>6 DEF EnsureKeys, distributors
  <2>3. QED
    BY <2>1, <2>2 DEF IInv
<1>7. CASE RemoveState
  BY <1>7 DEF RemoveState, IInv, distributors
<1>8. CASE Quit
  BY <1>8, StopStep DEF Quit
<1>9. QED
  BY <1>1, <1>2, <1>3, <1>4, <1>5, <1>6, <1>7, <1>8 DEF Application

LEMMA DeliveryStep ==
  ASSUME IInv, TypeOK', Delivery
  PROVE  IInv'
<1> DEFINE head == Head(incoming)
           rest == Tail(incoming)
<1>0. TypeOK /\ issued \in Nat /\ Sound(con) /\ con.call = "None"
  BY ConSound DEF IInv, TypeOK
(* An event other than a reply: what the connector had before remains. *)
<1>1. ASSUME NEW b, Sound(b), b.call = "None",
             b.iface = con.iface, b.current \in {con.current, "None"},
             NEW c, Follows(b, c), Handled(c, rest),
             running', services' = services, incoming # <<>>,
             head.event # "Gone",
             head.event \notin Replies \/ b.current = "None"
      PROVE  IInv'
  <2>1. rest \in Seq(Event)
    BY <1>0, <1>1 DEF TypeOK
  <2>2. c.current = "Register" /\ c.call = "None" =>
          pending # None \/ ReplyIn(rest)
    BY <1>0, <1>1, HeadPasses DEF IInv, Follows
  <2>3. c.iface # None => c.iface \in services \/ GoneIn(rest, c.iface)
    BY <1>0, <1>1, HeadPasses DEF IInv, Follows
  <2>4. Sound(c)
    BY <1>1 DEF Follows
  <2> HIDE DEF rest
  <2>5. QED
    BY <1>0, <1>1, <2>1, <2>2, <2>3, <2>4, HandlerStep
<1>2. CASE NewEndpointArrives
  <2> DEFINE c == [con EXCEPT !.endpoint = head.endpoint, !.state = "Registered"]
  <2>1. /\ incoming # <<>> /\ head.event = "NewEndpoint"
        /\ running' /\ services' = services
    BY <1>2 DEF NewEndpointArrives, Receives
  <2>2. head \in Event
    BY <1>0, <2>1 DEF TypeOK
  <2>3. /\ Sound(c) /\ c.call = "None"
        /\ c.iface = con.iface /\ c.current = con.current
    BY <1>0, <2>2 DEF Sound, ConnectorState, Event, States
  <2>4. Handled(c, rest) \/ Handled(con, rest)
    BY <1>2 DEF NewEndpointArrives
  <2> HIDE DEF c
  <2>5. Follows(c, c) /\ Follows(con, con)
    BY <1>0, <2>3 DEF Follows
  <2>6. head.event \notin Replies /\ head.event # "Gone"
    BY <2>1 DEF Replies
  <2> HIDE DEF head, rest
  <2>7. CASE Handled(c, rest)
    BY <1>1, <2>1, <2>3, <2>5, <2>6, <2>7
  <2>8. CASE Handled(con, rest)
    BY <1>0, <1>1, <2>1, <2>5, <2>6, <2>8
  <2>9. QED
    BY <2>4, <2>7, <2>8
<1>3. CASE UnregisteredArrives
  <2> DEFINE gone == [con EXCEPT !.endpoint = None, !.state = "Unregistered"]
             confirmed == head.token = NoToken \/ con.current = "Unregister"
             c == IF confirmed THEN [gone EXCEPT !.token = NoToken] ELSE gone
             next == IF con.current = "Unregister"
                     THEN [c EXCEPT !.current = "None"] ELSE c
  <2>1. /\ incoming # <<>> /\ head.event = "Unregistered"
        /\ running' /\ services' = services
    BY <1>3 DEF UnregisteredArrives, Receives
  <2>2. /\ gone \in ConnectorState /\ gone.call = "None"
        /\ gone.iface = con.iface /\ gone.current = con.current
    BY <1>0 DEF TypeOK, ConnectorState, States
  <2>3. Handled(ProcessNextCommand(next), rest) \/ Handled(con, rest)
    BY <1>3 DEF UnregisteredArrives
  <2> HIDE DEF gone
  <2>4. /\ Sound(next) /\ next.call = "None" /\ next.iface = con.iface
        /\ next.current \in {con.current, "None"}
    BY <2>2 DEF Sound, ConnectorState, NoToken, Commands
  <2> HIDE DEF next
  <2>5. Follows(next, ProcessNextCommand(next)) /\ Follows(con, con)
    BY <1>0, <2>4, ProcessFollows DEF Follows
  <2>6. head.event \notin Replies /\ head.event # "Gone"
    BY <2>1 DEF Replies
  <2> HIDE DEF head, rest
  <2>7. CASE Handled(ProcessNextCommand(next), rest)
    BY <1>1, <2>1, <2>4, <2>5, <2>6, <2>7
  <2>8. CASE Handled(con, rest)
    BY <1>0, <1>1, <2>1, <2>5, <2>6, <2>8
  <2>9. QED
    BY <2>3, <2>7, <2>8
<1>4. CASE ReplyArrives
  <2> DEFINE state == CASE head.event # "Success" -> "Error"
                        [] con.endpoint = None -> "Registering"
                        [] OTHER -> "Registered"
             c == CommandEnds([con EXCEPT !.state = state])
  <2>1. /\ incoming # <<>> /\ head.event # "Gone"
        /\ running' /\ services' = services
    BY <1>4 DEF ReplyArrives, Receives
  <2>2. state \in States
    BY DEF States
  <2>3. Handled(ProcessNextCommand(c), rest)
    BY <1>4 DEF ReplyArrives
  <2> HIDE DEF state
  <2>4. /\ Sound(c) /\ c.call = "None" /\ c.iface = con.iface
        /\ c.current = "None"
    BY <1>0, <2>2 DEF CommandEnds, TypeOK, Sound, ConnectorState, Commands
  <2> HIDE DEF c
  <2>5. Follows(c, ProcessNextCommand(c))
    BY <1>0, <2>4, ProcessFollows
  <2> HIDE DEF head, rest
  <2>6. QED
    BY <1>1, <2>1, <2>3, <2>4, <2>5
<1>5. CASE ServiceRegistered
  <2>1. /\ incoming # <<>> /\ head.event = "Here"
        /\ running' /\ services' = services
    BY <1>5 DEF ServiceRegistered, Receives
  <2>2. head.event \notin Replies /\ head.event # "Gone"
    BY <2>1 DEF Replies
  <2>3. CASE con.iface # None
    <3>1. Handled(con, rest)
      BY <1>5, <2>3 DEF ServiceRegistered
    <3>2. Follows(con, con)
      BY <1>0 DEF Follows
    <3> HIDE DEF head, rest
    <3>3. QED
      BY <1>0, <1>1, <2>1, <2>2, <3>1, <3>2
  <2>4. CASE con.iface = None
    <3> DEFINE b == SetDistributor(con, SelectDistributor)
               c == ProcessNextCommand(b)
    <3>1. SelectDistributor \in services \cup {None}
          /\ SelectDistributor \in Distributors \cup {None}
      BY <1>0, SelectsService DEF TypeOK
    <3>2. /\ Sound(b) /\ b.iface = SelectDistributor
          /\ b.current # "None" /\ b.call = "None" => b.current = con.current
      BY <1>0, <2>4, <3>1, SetDistributorFollows DEF Sound
    <3>3. Handled(c, rest) /\ rest \in Seq(Event)
      BY <1>0, <1>5, <2>1, <2>4 DEF ServiceRegistered, TypeOK
    <3> HIDE DEF b
    <3>4. Follows(b, c)
      BY <1>0, <3>2, ProcessFollows
    <3>5. /\ Sound(c) /\ c.iface = SelectDistributor
          /\ c.current # "None" /\ c.call = "None" => c.current = con.current
      BY <3>2, <3>4 DEF Follows, Sound
    <3>6. c.current = "Register" /\ c.call = "None" =>
            pending # None \/ ReplyIn(rest)
      BY <1>0, <2>1, <2>2, <3>5, HeadPasses DEF IInv
    <3> HIDE DEF c, rest, head
    <3>7. QED
      BY <1>0, <2>1, <3>1, <3>3, <3>5, <3>6, HandlerStep
  <2>5. QED
    BY <2>3, <2>4
<1>6. CASE ServiceUnregistered
  <2> DEFINE c == WithoutDistributor(con, head.service)
  <2>1. /\ incoming # <<>> /\ head.event = "Gone"
        /\ running' /\ services' = services
    BY <1>6 DEF ServiceUnregistered, Receives
  <2>2. Handled(c, rest) /\ rest \in Seq(Event)
    BY <1>0, <1>6, <2>1 DEF ServiceUnregistered, TypeOK
  <2>3. /\ Sound(c) /\ c.call = "None"
        /\ \/ c.iface = None /\ c.current = "None"
           \/ c = con /\ con.iface # head.service
    <3>1. CASE con.iface = head.service
      <4> DEFINE gone == [con EXCEPT !.iface = None, !.current = "None",
                                     !.state = "NoDistributor"]
      <4>1. /\ Sound(gone) /\ gone.call = "None"
            /\ gone.iface = None /\ gone.current = "None"
        BY <1>0 DEF TypeOK, Sound, ConnectorState, Commands, States
      <4>2. c = gone
        BY <3>1 DEF WithoutDistributor
      <4> HIDE DEF c, gone
      <4>3. QED
        BY <4>1, <4>2
    <3>2. CASE con.iface # head.service
      <4>1. c = con
        BY <3>2 DEF WithoutDistributor
      <4> HIDE DEF c
      <4>2. QED
        BY <1>0, <3>2, <4>1
    <3>3. QED
      BY <3>1, <3>2
  <2>4. head.event \notin Replies
    BY <2>1 DEF Replies
  <2>5. c.current = "Register" /\ c.call = "None" =>
          pending # None \/ ReplyIn(rest)
    BY <1>0, <2>1, <2>3, <2>4, HeadPasses DEF IInv
  <2>6. c.iface # None => c.iface \in services \/ GoneIn(rest, c.iface)
    BY <1>0, <2>1, <2>3, HeadPasses DEF IInv
  <2> HIDE DEF c, rest, head
  <2>7. QED
    BY <1>0, <2>1, <2>2, <2>3, <2>5, <2>6, HandlerStep
<1>7. CASE ServiceUnregisteredCrash
  BY <1>7, StopStep DEF ServiceUnregisteredCrash
<1>8. QED
  BY <1>2, <1>3, <1>4, <1>5, <1>6, <1>7 DEF Delivery

(* Distributors and the surroundings: they take no event from the queue,   *)
(* end a pending call with a reply only, and signal that they leave.       *)
LEMMA OutsideStep ==
  ASSUME IInv, TypeOK', UNCHANGED <<running, con>>,
         ToSet(incoming) \subseteq ToSet(incoming'),
         con.current = "Register" /\ pending # None =>
           pending' # None \/ ReplyIn(incoming'),
         \A d \in services \ services' : running => GoneIn(incoming', d)
  PROVE  IInv'
<1>1. ReplyIn(incoming) => ReplyIn(incoming')
  BY DEF ReplyIn
<1>2. \A d : GoneIn(incoming, d) => GoneIn(incoming', d)
  BY DEF GoneIn
<1>3. con.iface # None => running
  BY FreshSound DEF IInv
<1>4. QED
  BY <1>1, <1>2, <1>3 DEF IInv, ReplyIn, GoneIn

LEMMA WorksStep ==
  ASSUME IInv, TypeOK', NEW d \in Distributors, Works(d) \/ Rejects(d)
  PROVE  IInv'
<1>0. TypeOK /\ incoming \in Seq(Event)
  BY DEF IInv, TypeOK
<1> DEFINE w == Head(work[d])
<1>1. ASSUME NEW event \in {"Success", "Failure"}, w \in Work, w.waits
      PROVE  \E e \in ToSet(Replied(w, event)) : e.event \in Replies
  <2>1. Replied(w, event) = <<Plain(event)>>
    BY <1>1 DEF Replied
  <2>2. Plain(event) \in ToSet(Replied(w, event))
    BY <2>1 DEF ToSet
  <2>3. QED
    BY <2>2, EventTypes DEF Replies
<1>2. CASE Registers(d)
  <2>1. /\ w \in Work /\ w.token \in Nat
        /\ UNCHANGED <<running, con, services>>
        /\ pending' = IF w.waits THEN None ELSE pending
    BY <1>0, <1>2, HeadOfWork, ConnectorAssumption
       DEF Registers, Working, Work, Tokens
  <2>2. PICK e \in Endpoints :
          incoming' = incoming \o <<NewEndpoint(w.token, e)>>
                      \o Replied(w, "Success")
    BY <1>2 DEF Registers
  <2> HIDE DEF w
  <2>3. /\ <<NewEndpoint(w.token, e)>> \in Seq(Event)
        /\ Replied(w, "Success") \in Seq(Event)
    BY <2>1, EventTypes, RepliedTyped
  <2> DEFINE endpoint == <<NewEndpoint(w.token, e)>>
             told == incoming \o endpoint
  <2> HIDE DEF endpoint
  <2>4. told \in Seq(Event) /\ ToSet(incoming) \subseteq ToSet(told)
    <3>1. endpoint \in Seq(Event)
      BY <2>3 DEF endpoint
    <3>2. QED
      BY <1>0, <3>1, ElementsConcat
  <2>5. incoming' = told \o Replied(w, "Success")
    BY <2>2 DEF endpoint
  <2> HIDE DEF told
  <2>6. /\ ToSet(told) \subseteq ToSet(incoming')
        /\ ToSet(Replied(w, "Success")) \subseteq ToSet(incoming')
    BY <2>3, <2>4, <2>5, ElementsConcat
  <2>7. pending # None => pending' # None \/ ReplyIn(incoming')
    BY <1>1, <2>1, <2>6 DEF ReplyIn
  <2>8. QED
    BY <2>1, <2>4, <2>6, <2>7, OutsideStep
<1>3. CASE RejectsRegistration(d)
  <2>1. /\ w \in Work /\ UNCHANGED <<running, con, services>>
        /\ incoming' = incoming \o Replied(w, "Failure")
        /\ pending' = IF w.waits THEN None ELSE pending
    BY <1>0, <1>3, HeadOfWork DEF RejectsRegistration, Working
  <2> HIDE DEF w
  <2>2. /\ ToSet(incoming) \subseteq ToSet(incoming')
        /\ ToSet(Replied(w, "Failure")) \subseteq ToSet(incoming')
    BY <1>0, <2>1, RepliedTyped, ElementsConcat
  <2>3. pending # None => pending' # None \/ ReplyIn(incoming')
    BY <1>1, <2>1, <2>2 DEF ReplyIn
  <2>4. QED
    BY <2>1, <2>2, <2>3, OutsideStep
<1>4. ASSUME NEW e, incoming' = Append(incoming, e),
             UNCHANGED <<running, con, pending, services>>
      PROVE  IInv'
  <2>1. ToSet(incoming) \subseteq ToSet(incoming')
    BY <1>0, <1>4, ElementsAppend
  <2>2. QED
    BY <1>4, <2>1, OutsideStep
<1>5. ASSUME NEW op, Unregisters(d, op) PROVE IInv'
  BY <1>4, <1>5 DEF Unregisters
<1>6. ASSUME NEW op, RejectsUnregistration(d, op) PROVE IInv'
  BY <1>6, OutsideStep DEF RejectsUnregistration
<1>7. CASE SilentlyUnregisters(d)
  BY <1>4, <1>7 DEF SilentlyUnregisters
<1>8. QED
  BY <1>2, <1>3, <1>5, <1>6, <1>7 DEF Works, Rejects

LEMMA SurroundingsStep ==
  ASSUME IInv, TypeOK'
  PROVE  /\ Timeout => IInv'
         /\ \A d \in Distributors :
              /\ DistributorGone(d) \/ DistributorHere(d) => IInv'
              /\ \A t \in Tokens : Move(d, t) \/ ForceUnregister(d, t) => IInv'
<1>0. TypeOK /\ incoming \in Seq(Event)
  BY DEF IInv, TypeOK
<1>1. ASSUME Timeout PROVE IInv'
  <2>1. /\ incoming' = Append(incoming, Plain("Error"))
        /\ UNCHANGED <<running, con, services>>
    BY <1>1 DEF Timeout
  <2>2. ToSet(incoming') = ToSet(incoming) \cup {Plain("Error")}
    BY <1>0, <2>1, ElementsAppend
  <2>3. ReplyIn(incoming')
    BY <2>2, EventTypes DEF ReplyIn, Replies
  <2>4. QED
    BY <2>1, <2>2, <2>3, OutsideStep
<1>2. ASSUME NEW d \in Distributors, DistributorGone(d) PROVE IInv'
  <2> DEFINE signal == Signal("Gone", d)
             error == IF pending = d THEN <<Plain("Error")>> ELSE <<>>
  <2>1. /\ incoming' = incoming \o signal \o error
        /\ pending' = IF pending = d THEN None ELSE pending
        /\ services' = services \ {d} /\ UNCHANGED <<running, con>>
    BY <1>2 DEF DistributorGone
  <2>2. signal \in Seq(Event) /\ error \in Seq(Event)
    BY EventTypes DEF Signal
  <2>3. running => Service("Gone", d) \in ToSet(signal)
    BY DEF Signal, ToSet
  <2>4. pending = d => Plain("Error") \in ToSet(error)
    BY DEF ToSet
  <2> DEFINE told == incoming \o signal
  <2> HIDE DEF signal, error
  <2>5. /\ told \in Seq(Event) /\ ToSet(incoming) \subseteq ToSet(told)
        /\ ToSet(signal) \subseteq ToSet(told)
    BY <1>0, <2>2, ElementsConcat
  <2>6. incoming' = told \o error
    BY <2>1
  <2> HIDE DEF told
  <2>7. /\ ToSet(told) \subseteq ToSet(incoming')
        /\ ToSet(error) \subseteq ToSet(incoming')
    BY <2>2, <2>5, <2>6, ElementsConcat
  <2>8. pending # None => pending' # None \/ ReplyIn(incoming')
    BY <2>1, <2>4, <2>7, EventTypes DEF ReplyIn, Replies
  <2>9. running => GoneIn(incoming', d)
    BY <2>3, <2>5, <2>7, EventTypes DEF GoneIn
  <2>10. QED
    BY <2>1, <2>5, <2>7, <2>8, <2>9, OutsideStep
<1>3. ASSUME NEW d \in Distributors, DistributorHere(d) PROVE IInv'
  <2>1. /\ incoming' = incoming \o Signal("Here", d)
        /\ services' = services \cup {d} /\ UNCHANGED <<running, con, pending>>
    BY <1>3 DEF DistributorHere
  <2>2. Signal("Here", d) \in Seq(Event)
    BY EventTypes DEF Signal
  <2>3. ToSet(incoming) \subseteq ToSet(incoming')
    BY <1>0, <2>1, <2>2, ElementsConcat
  <2>4. QED
    BY <2>1, <2>3, OutsideStep
<1>4. ASSUME NEW d \in Distributors, NEW t \in Tokens,
             Move(d, t) \/ ForceUnregister(d, t)
      PROVE  IInv'
  BY <1>4, OutsideStep DEF Move, ForceUnregister
<1>5. QED
  BY <1>1, <1>2, <1>3, <1>4

LEMMA IInvNext == IInv /\ [Next]_vars => IInv'
<1>1. IInv /\ [Next]_vars => TypeOK'
  BY TypeNext DEF IInv
<1>2. IInv /\ UNCHANGED vars => IInv'
  BY DEF IInv, TypeOK, vars, distributors, ReplyIn, GoneIn
<1>3. QED
  BY <1>1, <1>2, ApplicationStep, DeliveryStep, WorksStep, SurroundingsStep
     DEF Next

LEMMA IInvAlways == Spec => []IInv
<1>1. Init => IInv
  BY TypeInit, FreshSound DEF Init, IInv
<1>2. QED
  BY <1>1, IInvNext, PTL DEF Spec

(* A Register command occupies the connector only while its reply can      *)
(* still come, whoever leaves, times out or rejects.                       *)
THEOREM RepliesCome == Spec => []ReplyOnItsWay
<1>1. IInv => ReplyOnItsWay
  BY DEF IInv, TypeOK, ReplyOnItsWay, ReplyIn, Replies, ToSet
<1>2. QED
  BY <1>1, IInvAlways, PTL

(* A connector that has handled all signals does not hold on to a          *)
(* distributor that is gone.                                               *)
THEOREM LetsGoOfTheGone == Spec => []DistributorAlive
<1>1. IInv => DistributorAlive
  BY DEF IInv, DistributorAlive, Quiet, GoneIn, ToSet
<1>2. QED
  BY <1>1, IInvAlways, PTL

-----------------------------------------------------------------------------
(* The state file *)

(* An endpoint that is known, or a registration, is in the state file f,   *)
(* and belongs to a token.                                                 *)
Agrees(c, f) ==
  /\ c.token = NoToken => c.endpoint = None /\ c.state # "Registered"
  /\ c.endpoint # None \/ c.state = "Registered" =>
       f # None /\ f.token = c.token /\ f.endpoint = c.endpoint

(* Endpoints are told to clients that have a token. *)
Addressed == {e \in Event : e.event = "NewEndpoint" => e.token # NoToken}

FileKept ==
  /\ running => Agrees(con, file)
  /\ ~running => con = Fresh
  /\ file # None => (file.token = NoToken => file.endpoint = None)
  /\ incoming \in Seq(Addressed)
  /\ budget["remove"] = 0

(* Running commands changes neither endpoint nor token, and registers      *)
(* nothing.                                                                *)
SameRegistration(b, c) ==
  /\ c.endpoint = b.endpoint
  /\ b.token # NoToken => c.token = b.token
  /\ c.state = "Registered" => b.state = "Registered"

LEMMA SameAgrees ==
  ASSUME NEW b, NEW c, NEW f, SameRegistration(b, c), Agrees(b, f)
  PROVE  Agrees(c, f)
BY DEF SameRegistration, Agrees

LEMMA ProcessSame ==
  ASSUME NEW b \in ConnectorState
  PROVE  SameRegistration(b, ProcessNextCommand(b))
<1>1. ASSUME NEW q, NEW cmd
      PROVE  SameRegistration(b, Issue([b EXCEPT !.queue = q], cmd))
  BY DEF Issue, SameRegistration, ConnectorState
<1>2. ASSUME NEW q
      PROVE  SameRegistration(b, [b EXCEPT !.queue = q])
  BY DEF SameRegistration, ConnectorState
<1>3. SameRegistration(b, b)
  BY DEF SameRegistration
<1>4. \/ ProcessNextCommand(b) = b
      \/ \E q : ProcessNextCommand(b) = [b EXCEPT !.queue = q]
      \/ \E q, cmd : ProcessNextCommand(b) = Issue([b EXCEPT !.queue = q], cmd)
  BY DEF ProcessNextCommand
<1>5. QED
  BY <1>1, <1>2, <1>3, <1>4

LEMMA AddSame ==
  ASSUME NEW b, Sound(b), NEW cmd \in Commands
  PROVE  SameRegistration(b, AddCommand(b, cmd))
<1>0. b \in ConnectorState /\ b.queue \in Seq(Commands)
  BY DEF Sound, ConnectorState
<1>1. CASE \E q : AddCommand(b, cmd) = [b EXCEPT !.queue = q]
  BY <1>0, <1>1 DEF SameRegistration, ConnectorState
<1>2. CASE AddCommand(b, cmd) =
             ProcessNextCommand([b EXCEPT !.queue = Append(b.queue, cmd)])
  <2> DEFINE c == [b EXCEPT !.queue = Append(b.queue, cmd)]
  <2>1. c \in ConnectorState /\ SameRegistration(b, c)
    <3>1. Append(b.queue, cmd) \in Seq(Commands)
      BY <1>0
    <3>2. QED
      BY <1>0, <3>1 DEF ConnectorState, SameRegistration
  <2>2. AddCommand(b, cmd) = ProcessNextCommand(c)
    BY <1>2
  <2> HIDE DEF c
  <2>3. SameRegistration(c, ProcessNextCommand(c))
    BY <2>1, ProcessSame
  <2>4. QED
    BY <2>1, <2>2, <2>3 DEF SameRegistration
<1>3. CASE AddCommand(b, cmd) = b
  BY <1>3 DEF SameRegistration
<1>4. QED
  BY <1>1, <1>2, <1>3 DEF AddCommand

LEMMA ReregisterSame ==
  ASSUME issued \in Nat, NEW b, Sound(b)
  PROVE  SameRegistration(b, Reregister(b))
<1> DEFINE c1 == AddCommand(b, "Unregister")
           c2 == AddCommand(c1, "None")
           c3 == AddCommand(c2, "Register")
<1>1. Sound(c1) /\ SameRegistration(b, c1)
  BY AddSame, AddFollows DEF Follows, Commands
<1>2. Sound(c2) /\ SameRegistration(c1, c2)
  BY <1>1, AddSame, AddFollows DEF Follows, Commands
<1>3. SameRegistration(c2, c3)
  BY <1>2, AddSame DEF Commands
<1>4. Reregister(b) = c3
  BY DEF Reregister
<1> HIDE DEF c1, c2, c3
<1>5. QED
  BY <1>1, <1>2, <1>3, <1>4 DEF SameRegistration

LEMMA SetDistributorSame ==
  ASSUME NEW b \in ConnectorState, b.call = "None", b.iface = None,
         NEW d \in Distributors \cup {None}
  PROVE  SameRegistration(b, SetDistributor(b, d))
<1>1. CASE d = None
  BY <1>1 DEF SetDistributor, SameRegistration, ConnectorState
<1>2. CASE d # None
  <2> DEFINE chosen == [b EXCEPT !.iface = d, !.state = "Unregistered"]
  <2>1. Sound(chosen) /\ SameRegistration(b, chosen)
    BY DEF Sound, ConnectorState, States, SameRegistration
  <2>2. SetDistributor(b, d) \in {chosen, AddCommand(chosen, "Register")}
    BY <1>2 DEF SetDistributor
  <2> HIDE DEF chosen
  <2>3. SameRegistration(chosen, AddCommand(chosen, "Register"))
    BY <2>1, AddSame DEF Commands
  <2>4. QED
    BY <2>1, <2>2, <2>3 DEF SameRegistration
<1>3. QED
  BY <1>1, <1>2

(* A call is answered with an endpoint for its token. *)
LEMMA HandledAddressed ==
  ASSUME TypeOK, NEW c, Sound(c), NEW rest \in Seq(Addressed), Handled(c, rest)
  PROVE  incoming' \in Seq(Addressed)
<1>1. c.call \in Commands /\ c.token \in Nat
  BY DEF Sound, ConnectorState
<1>2. CASE c.call = "Register"
  <2> DEFINE d == c.iface
             t == c.token
             endpoint == NewEndpoint(t, clients[d][t].endpoint)
  <2>1. CallRegister(c, rest) /\ d \in Distributors
    BY <1>2 DEF Handled, Sound, ConnectorState
  <2>2. /\ Plain("Error") \in Addressed /\ Plain("Success") \in Addressed
    BY EventTypes DEF Addressed
  <2>3. CASE d \in services /\ Known(d, t)
    <3>1. endpoint \in Addressed
      <4>1. clients[d][t].endpoint \in Endpoints \cup {None}
        BY <1>1, <2>1, <2>3, KnownEndpoint
      <4>2. t # NoToken
        BY <1>2 DEF Sound
      <4>3. endpoint \in Event
        BY <1>1, <4>1, EventTypes
      <4>4. endpoint.token = t
        BY DEF NewEndpoint, Plain
      <4>5. QED
        BY <4>2, <4>3, <4>4 DEF Addressed
    <3>2. incoming' = rest \o <<endpoint, Plain("Success")>>
      BY <2>1, <2>3 DEF CallRegister
    <3> HIDE DEF endpoint
    <3>3. QED
      BY <2>2, <3>1, <3>2
  <2>4. CASE ~(d \in services /\ Known(d, t))
    <3>1. incoming' \in {rest, Append(rest, Plain("Error"))}
      BY <2>1, <2>4 DEF CallRegister
    <3>2. QED
      BY <2>2, <3>1
  <2>5. QED
    BY <2>3, <2>4
<1>3. CASE c.call = "Unregister"
  BY <1>3 DEF Handled, CallUnregister
<1>4. CASE c.call = "None"
  BY <1>4 DEF Handled
<1>5. QED
  BY <1>1, <1>2, <1>3, <1>4 DEF Commands

(* What a handler has to see to. *)
LEMMA HandlerKeepsFile ==
  ASSUME TypeOK, FileKept, NEW c, Sound(c), NEW rest \in Seq(Addressed),
         Handled(c, rest), running', Agrees(c, file'),
         file' # None => (file'.token = NoToken => file'.endpoint = None),
         budget'["remove"] = 0
  PROVE  FileKept'
<1>1. incoming' \in Seq(Addressed)
  BY HandledAddressed
<1>2. con' = [c EXCEPT !.call = "None"]
  BY DEF Handled
<1>3. Agrees(con', file')
  BY <1>2 DEF Agrees, Sound, ConnectorState
<1>4. QED
  BY <1>1, <1>3 DEF FileKept, Agrees

LEMMA SpendRemovesNothing ==
  ASSUME TypeOK, budget["remove"] = 0, NEW kind \in Kinds, Spend(kind)
  PROVE  kind # "remove" /\ budget'["remove"] = 0
BY DEF Spend, TypeOK, Kinds

LEMMA StopKeepsFile ==
  ASSUME TypeOK, FileKept, Stop, budget'["remove"] = 0
  PROVE  FileKept'
BY StopTyped DEF FileKept

(* What the application asks for leaves the registration as it is. *)
LEMMA CallKeepsFile ==
  ASSUME TypeOK, FileKept, running, NEW c, Sound(c), SameRegistration(con, c),
         Handled(c, incoming), UNCHANGED <<running, file>>,
         NEW kind \in Kinds, Spend(kind)
  PROVE  FileKept'
<1>1. Agrees(c, file')
  BY SameAgrees DEF FileKept
<1>2. budget'["remove"] = 0
  BY SpendRemovesNothing DEF FileKept
<1>3. QED
  BY <1>1, <1>2, HandlerKeepsFile DEF FileKept

LEMMA ApplicationKeepsFile ==
  ASSUME TypeOK, FileKept, Start \/ Application
  PROVE  FileKept'
<1>0. issued \in Nat /\ Sound(con) /\ con \in ConnectorState
  BY ConSound DEF TypeOK
<1>1. CASE Start
  <2> DEFINE c == SetDistributor(Loaded, SelectDistributor)
  <2>1. SelectDistributor \in Distributors \cup {None}
    BY SelectsService DEF TypeOK
  <2>2. Sound(c) /\ SameRegistration(Loaded, c)
    BY <1>0, <2>1, LoadedSound, SetDistributorFollows, SetDistributorSame
  <2>3. Agrees(Loaded, file)
    BY DEF Loaded, Fresh, Agrees, FileKept, TypeOK, StateFile, NoToken
  <2>4. Handled(c, incoming) /\ running' /\ UNCHANGED <<file, budget>>
    BY <1>1 DEF Start
  <2> HIDE DEF c
  <2>5. Agrees(c, file')
    BY <2>2, <2>3, <2>4, SameAgrees
  <2>6. QED
    BY <2>2, <2>4, <2>5, HandlerKeepsFile DEF FileKept
<1>2. CASE RegisterClient
  <2>1. /\ Sound(AddCommand(con, "Register"))
        /\ SameRegistration(con, AddCommand(con, "Register"))
    BY <1>0, AddFollows, AddSame DEF Follows, Commands
  <2>2. QED
    BY <1>2, <2>1, CallKeepsFile DEF RegisterClient, Kinds
<1>3. CASE UnregisterClient
  <2>1. /\ Sound(AddCommand(con, "Unregister"))
        /\ SameRegistration(con, AddCommand(con, "Unregister"))
    BY <1>0, AddFollows, AddSame DEF Follows, Commands
  <2>2. QED
    BY <1>3, <2>1, CallKeepsFile DEF UnregisterClient, Kinds
<1>4. ASSUME NEW k \in VapidKeys, SetVapidPublicKey(k) PROVE FileKept'
  <2> DEFINE b == [con EXCEPT !.key = k]
             c == IF b.token = NoToken THEN ProcessNextCommand(b)
                                       ELSE Reregister(b)
  <2>1. Sound(b) /\ b \in ConnectorState /\ SameRegistration(con, b)
    BY <1>0 DEF Sound, ConnectorState, SameRegistration
  <2>2. /\ Handled(c, incoming) /\ running /\ UNCHANGED <<running, file>>
        /\ Spend("key")
    BY <1>4 DEF SetVapidPublicKey
  <2> HIDE DEF b
  <2>3. Sound(c) /\ SameRegistration(b, c)
    BY <1>0, <2>1, ProcessFollows, ReregisterFollows, ProcessSame,
       ReregisterSame DEF Follows
  <2> HIDE DEF c
  <2>4. SameRegistration(con, c)
    BY <2>1, <2>3 DEF SameRegistration
  <2>5. QED
    BY <2>2, <2>3, <2>4, CallKeepsFile DEF Kinds
<1>5. CASE SetVapidPublicKeyRequired
  <2> DEFINE b == [con EXCEPT !.required = ~@]
             c == ProcessNextCommand(b)
  <2>1. Sound(b) /\ b \in ConnectorState /\ SameRegistration(con, b)
    BY <1>0 DEF Sound, ConnectorState, SameRegistration
  <2>2. /\ Handled(c, incoming) /\ running /\ UNCHANGED <<running, file>>
        /\ Spend("required")
    BY <1>5 DEF SetVapidPublicKeyRequired
  <2> HIDE DEF b
  <2>3. Sound(c) /\ SameRegistration(b, c)
    BY <1>0, <2>1, ProcessFollows, ProcessSame DEF Follows
  <2> HIDE DEF c
  <2>4. SameRegistration(con, c)
    BY <2>1, <2>3 DEF SameRegistration
  <2>5. QED
    BY <2>2, <2>3, <2>4, CallKeepsFile DEF Kinds
<1>6. CASE EnsureKeys
  <2>1. /\ con' = [con EXCEPT !.hasKeys = TRUE] /\ file' = Stored(con')
        /\ running /\ UNCHANGED <<running, incoming>> /\ Spend("keys")
    BY <1>6 DEF EnsureKeys
  <2>2. /\ con'.token = con.token /\ con'.endpoint = con.endpoint
        /\ con'.state = con.state
        /\ file'.token = con.token /\ file'.endpoint = con.endpoint
    BY <1>0, <2>1 DEF ConnectorState, Stored
  <2>3. con' \in ConnectorState
    BY <1>0, <2>1 DEF ConnectorState
  <2>4. file' # None
    BY <2>1, <2>3, StoredTyped, NoneAssumption
  <2>5. budget'["remove"] = 0
    BY <2>1, SpendRemovesNothing DEF FileKept, Kinds
  <2>6. QED
    BY <2>1, <2>2, <2>4, <2>5 DEF FileKept, Agrees
<1>7. CASE RemoveState
  BY <1>7, SpendRemovesNothing DEF RemoveState, FileKept, Kinds
<1>8. CASE Quit
  <2>1. budget'["remove"] = 0
    BY <1>8, SpendRemovesNothing DEF Quit, FileKept, Kinds
  <2>2. QED
    BY <1>8, <2>1, StopKeepsFile DEF Quit
<1>9. QED
  BY <1>1, <1>2, <1>3, <1>4, <1>5, <1>6, <1>7, <1>8 DEF Application

(* What is delivered: the file is written with each endpoint that comes,   *)
(* and removed with each registration that goes.                           *)
LEMMA DeliveryKeepsFile ==
  ASSUME TypeOK, FileKept, Delivery
  PROVE  FileKept'
<1> DEFINE head == Head(incoming)
           rest == Tail(incoming)
<1>0. /\ issued \in Nat /\ Sound(con) /\ con \in ConnectorState
      /\ con.call = "None"
  BY ConSound DEF TypeOK
<1>1. ASSUME incoming # <<>>
      PROVE  head \in Addressed /\ head \in Event /\ rest \in Seq(Addressed)
  BY <1>1 DEF FileKept, Addressed
<1>2. CASE NewEndpointArrives
  <2> DEFINE c == [con EXCEPT !.endpoint = head.endpoint, !.state = "Registered"]
  <2>1. /\ head \in Addressed /\ head \in Event /\ rest \in Seq(Addressed)
        /\ head.event = "NewEndpoint"
        /\ running /\ UNCHANGED <<running, budget>>
    BY <1>1, <1>2 DEF NewEndpointArrives, Receives
  <2>2. \/ IsMine(head.token) /\ Handled(c, rest) /\ file' = Stored(c)
        \/ Handled(con, rest) /\ UNCHANGED file
    BY <1>2 DEF NewEndpointArrives
  <2>3. CASE IsMine(head.token) /\ Handled(c, rest) /\ file' = Stored(c)
    <3>1. con.token # NoToken
      BY <2>1, <2>3 DEF IsMine, Addressed
    <3>2. Sound(c) /\ c \in ConnectorState /\ c.token = con.token
      BY <1>0, <2>1 DEF Sound, ConnectorState, Event, States
    <3>3. file' # None
      BY <2>3, <3>2, StoredTyped, NoneAssumption
    <3>4. file'.token = c.token /\ file'.endpoint = c.endpoint
      BY <2>3 DEF Stored
    <3> HIDE DEF c, rest, head
    <3>5. Agrees(c, file')
      BY <3>1, <3>2, <3>3, <3>4 DEF Agrees
    <3>6. QED
      BY <2>1, <2>3, <3>1, <3>2, <3>4, <3>5, HandlerKeepsFile DEF FileKept
  <2>4. CASE Handled(con, rest) /\ UNCHANGED file
    <3> HIDE DEF rest, head
    <3>1. QED
      BY <1>0, <2>1, <2>4, HandlerKeepsFile DEF FileKept
  <2>5. QED
    BY <2>2, <2>3, <2>4
<1>3. CASE UnregisteredArrives
  <2> DEFINE gone == [con EXCEPT !.endpoint = None, !.state = "Unregistered"]
             confirmed == head.token = NoToken \/ con.current = "Unregister"
             c == IF confirmed THEN [gone EXCEPT !.token = NoToken] ELSE gone
             next == IF con.current = "Unregister"
                     THEN [c EXCEPT !.current = "None"] ELSE c
  <2>1. /\ rest \in Seq(Addressed)
        /\ running /\ UNCHANGED <<running, budget>>
    BY <1>1, <1>3 DEF UnregisteredArrives, Receives
  <2>2. \/ /\ Handled(ProcessNextCommand(next), rest)
           /\ file' \in {None, Stored(gone)}
        \/ Handled(con, rest) /\ UNCHANGED file
    BY <1>3 DEF UnregisteredArrives
  <2>3. /\ gone \in ConnectorState /\ gone.call = "None"
        /\ gone.endpoint = None /\ gone.state = "Unregistered"
    BY <1>0 DEF ConnectorState, States
  <2>4. Stored(gone) # None /\ Stored(gone).endpoint = None
    <3>1. Stored(gone).endpoint = None
      BY <2>3 DEF Stored
    <3> HIDE DEF gone
    <3>2. QED
      BY <2>3, <3>1, StoredTyped, NoneAssumption
  <2> HIDE DEF gone
  <2>5. /\ Sound(next) /\ next \in ConnectorState
        /\ next.endpoint = None /\ next.state = "Unregistered"
    BY <2>3 DEF Sound, ConnectorState, NoToken, Commands
  <2> HIDE DEF next, rest, head
  <2>6. CASE /\ Handled(ProcessNextCommand(next), rest)
             /\ file' \in {None, Stored(gone)}
    <3>1. Sound(ProcessNextCommand(next))
      BY <1>0, <2>5, ProcessFollows DEF Follows
    <3>2. Agrees(next, file')
      BY <2>5 DEF Agrees
    <3>3. Agrees(ProcessNextCommand(next), file')
      BY <2>5, <3>2, ProcessSame, SameAgrees
    <3>4. file' # None => file'.endpoint = None
      BY <2>4, <2>6
    <3>5. QED
      BY <2>1, <2>6, <3>1, <3>3, <3>4, HandlerKeepsFile DEF FileKept
  <2>7. CASE Handled(con, rest) /\ UNCHANGED file
    BY <1>0, <2>1, <2>7, HandlerKeepsFile DEF FileKept
  <2>8. QED
    BY <2>2, <2>6, <2>7
<1>4. CASE ReplyArrives
  <2> DEFINE state == CASE head.event # "Success" -> "Error"
                        [] con.endpoint = None -> "Registering"
                        [] OTHER -> "Registered"
             c == CommandEnds([con EXCEPT !.state = state])
  <2>1. /\ rest \in Seq(Addressed)
        /\ running /\ UNCHANGED <<running, file, budget>>
    BY <1>1, <1>4 DEF ReplyArrives, Receives
  <2>2. state \in States /\ (state = "Registered" => con.endpoint # None)
    BY DEF States
  <2>3. Handled(ProcessNextCommand(c), rest)
    BY <1>4 DEF ReplyArrives
  <2> HIDE DEF state
  <2>4. /\ Sound(c) /\ c \in ConnectorState
        /\ c.token = con.token /\ c.endpoint = con.endpoint
        /\ c.state = state
    BY <1>0, <2>2 DEF CommandEnds, Sound, ConnectorState, Commands
  <2> HIDE DEF c, rest, head
  <2>5. Agrees(c, file')
    BY <2>1, <2>2, <2>4 DEF FileKept, Agrees
  <2>6. /\ Sound(ProcessNextCommand(c))
        /\ Agrees(ProcessNextCommand(c), file')
    BY <1>0, <2>4, <2>5, ProcessFollows, ProcessSame, SameAgrees DEF Follows
  <2>7. QED
    BY <2>1, <2>3, <2>6, HandlerKeepsFile DEF FileKept
<1>5. CASE ServiceRegistered
  <2> DEFINE b == SetDistributor(con, SelectDistributor)
             c == IF con.iface = None THEN ProcessNextCommand(b) ELSE con
  <2>1. /\ rest \in Seq(Addressed)
        /\ running /\ UNCHANGED <<running, file, budget>>
    BY <1>1, <1>5 DEF ServiceRegistered, Receives
  <2>2. Handled(c, rest)
    BY <1>5 DEF ServiceRegistered
  <2>3. SelectDistributor \in Distributors \cup {None}
    BY SelectsService DEF TypeOK
  <2>4. con.iface = None => /\ Sound(b) /\ b \in ConnectorState
                            /\ SameRegistration(con, b)
    BY <1>0, <2>3, SetDistributorFollows, SetDistributorSame DEF Sound
  <2> HIDE DEF b
  <2>5. Sound(c) /\ SameRegistration(con, c)
    <3>1. SameRegistration(con, con)
      BY DEF SameRegistration
    <3>2. con.iface = None => /\ Sound(ProcessNextCommand(b))
                              /\ SameRegistration(b, ProcessNextCommand(b))
      BY <1>0, <2>4, ProcessFollows, ProcessSame DEF Follows
    <3>3. QED
      BY <1>0, <2>4, <3>1, <3>2 DEF SameRegistration
  <2> HIDE DEF c, rest
  <2>6. QED
    BY <2>1, <2>2, <2>5, SameAgrees, HandlerKeepsFile DEF FileKept
<1>6. CASE ServiceUnregistered
  <2> DEFINE c == WithoutDistributor(con, head.service)
  <2>1. /\ rest \in Seq(Addressed)
        /\ running /\ UNCHANGED <<running, file, budget>>
    BY <1>1, <1>6 DEF ServiceUnregistered, Receives
  <2>2. Handled(c, rest)
    BY <1>6 DEF ServiceUnregistered
  <2>3. Sound(c) /\ SameRegistration(con, c)
    <3>1. Sound(c)
      BY <1>0, WithoutSound DEF TypeOK
    <3>2. SameRegistration(con, c)
      BY <1>0 DEF WithoutDistributor, SameRegistration, TypeOK, ConnectorState
    <3>3. QED
      BY <3>1, <3>2
  <2>4. QED
    BY <2>1, <2>2, <2>3, SameAgrees, HandlerKeepsFile DEF FileKept
<1>7. CASE ServiceUnregisteredCrash
  BY <1>7, StopKeepsFile DEF ServiceUnregisteredCrash, FileKept
<1>8. QED
  BY <1>2, <1>3, <1>4, <1>5, <1>6, <1>7 DEF Delivery

(* Distributors and the surroundings leave the connector and its file.     *)
LEMMA OutsideKeepsFile ==
  ASSUME FileKept, UNCHANGED <<running, con, file>>,
         incoming' \in Seq(Addressed), budget'["remove"] = 0
  PROVE  FileKept'
BY DEF FileKept

LEMMA WorksKeepFile ==
  ASSUME TypeOK, FileKept, NEW d \in Distributors, Works(d) \/ Rejects(d)
  PROVE  FileKept'
<1> DEFINE w == Head(work[d])
<1>1. incoming \in Seq(Addressed)
  BY DEF FileKept
<1>2. ASSUME work[d] # <<>>
      PROVE  /\ w \in Work
             /\ \A e \in Endpoints \cup {None} :
                  NewEndpoint(w.token, e) \in Addressed
  <2>1. w \in Work
    BY <1>2, HeadOfWork
  <2> HIDE DEF w
  <2>2. w.token \in Nat /\ w.token # NoToken
    BY <2>1, ConnectorAssumption DEF Work, Tokens, NoToken
  <2>3. \A e : NewEndpoint(w.token, e).token = w.token
    BY DEF NewEndpoint, Plain
  <2>4. QED
    BY <2>1, <2>2, <2>3, EventTypes DEF Addressed
<1>3. \A event \in {"Success", "Failure"} : Replied(w, event) \in Seq(Addressed)
  <2>1. \A event \in {"Success", "Failure"} : Plain(event) \in Addressed
    BY EventTypes DEF Addressed
  <2>2. QED
    BY <2>1 DEF Replied
<1>4. CASE Registers(d)
  <2>1. PICK e \in Endpoints :
          incoming' = incoming \o <<NewEndpoint(w.token, e)>>
                      \o Replied(w, "Success")
    BY <1>4 DEF Registers
  <2>2. NewEndpoint(w.token, e) \in Addressed
    BY <1>2, <1>4 DEF Registers, Working
  <2>3. incoming' \in Seq(Addressed)
    BY <1>1, <1>3, <2>1, <2>2
  <2>4. QED
    BY <1>4, <2>3, OutsideKeepsFile DEF Registers, FileKept
<1>5. CASE RejectsRegistration(d)
  <2>1. incoming' \in Seq(Addressed)
    BY <1>1, <1>3, <1>5 DEF RejectsRegistration
  <2>2. budget'["remove"] = 0
    BY <1>5, SpendRemovesNothing DEF RejectsRegistration, FileKept, Kinds
  <2>3. QED
    BY <1>5, <2>1, <2>2, OutsideKeepsFile DEF RejectsRegistration
<1>6. ASSUME NEW op, Unregisters(d, op) PROVE FileKept'
  <2>1. w \in Work
    BY <1>2, <1>6 DEF Unregisters, Working
  <2>2. w.token \in Nat /\ NoToken \in Nat
    BY <2>1, ConnectorAssumption DEF Work, Tokens, NoToken
  <2>3. \E t \in Nat : incoming' = Append(incoming, Unregistered(t))
    BY <1>6, <2>2 DEF Unregisters
  <2>4. \A t \in Nat : Unregistered(t) \in Addressed
    <3>1. \A t : Unregistered(t).event = "Unregistered"
      BY DEF Unregistered, Plain
    <3>2. QED
      BY <3>1, EventTypes DEF Addressed
  <2>5. incoming' \in Seq(Addressed)
    BY <1>1, <2>3, <2>4
  <2>6. QED
    BY <1>6, <2>5, OutsideKeepsFile DEF Unregisters, FileKept
<1>7. ASSUME NEW op, RejectsUnregistration(d, op) PROVE FileKept'
  <2>1. budget'["remove"] = 0
    BY <1>7, SpendRemovesNothing DEF RejectsUnregistration, FileKept, Kinds
  <2>2. QED
    BY <1>1, <1>7, <2>1, OutsideKeepsFile DEF RejectsUnregistration
<1>8. CASE SilentlyUnregisters(d)
  <2>1. NewEndpoint(w.token, None) \in Addressed
    BY <1>2, <1>8 DEF SilentlyUnregisters, Working
  <2>2. incoming' \in Seq(Addressed)
    BY <1>1, <1>8, <2>1 DEF SilentlyUnregisters
  <2>3. QED
    BY <1>8, <2>2, OutsideKeepsFile DEF SilentlyUnregisters, FileKept
<1>9. QED
  BY <1>4, <1>5, <1>6, <1>7, <1>8 DEF Works, Rejects

LEMMA SurroundingsKeepFile ==
  ASSUME TypeOK, FileKept
  PROVE  /\ Timeout => FileKept'
         /\ \A d \in Distributors :
              /\ DistributorGone(d) \/ DistributorHere(d) => FileKept'
              /\ \A t \in Tokens :
                   Move(d, t) \/ ForceUnregister(d, t) => FileKept'
<1>1. incoming \in Seq(Addressed) /\ Plain("Error") \in Addressed
  BY EventTypes DEF FileKept, Addressed
<1>2. \A event \in {"Gone", "Here"}, d \in Distributors :
        Signal(event, d) \in Seq(Addressed)
  <2>1. \A event \in {"Gone", "Here"}, d \in Distributors :
          Service(event, d) \in Addressed
    BY EventTypes DEF Addressed
  <2>2. QED
    BY <2>1 DEF Signal
<1>3. ASSUME Timeout PROVE FileKept'
  <2>1. budget'["remove"] = 0
    BY <1>3, SpendRemovesNothing DEF Timeout, FileKept, Kinds
  <2>2. QED
    BY <1>1, <1>3, <2>1, OutsideKeepsFile DEF Timeout
<1>4. ASSUME NEW d \in Distributors, DistributorGone(d) PROVE FileKept'
  <2>1. budget'["remove"] = 0
    BY <1>4, SpendRemovesNothing DEF DistributorGone, FileKept, Kinds
  <2>2. incoming' \in Seq(Addressed)
    BY <1>1, <1>2, <1>4 DEF DistributorGone
  <2>3. QED
    BY <1>4, <2>1, <2>2, OutsideKeepsFile DEF DistributorGone
<1>5. ASSUME NEW d \in Distributors, DistributorHere(d) PROVE FileKept'
  <2>1. budget'["remove"] = 0
    BY <1>5, SpendRemovesNothing DEF DistributorHere, FileKept, Kinds
  <2>2. incoming' \in Seq(Addressed)
    BY <1>1, <1>2, <1>5 DEF DistributorHere
  <2>3. QED
    BY <1>5, <2>1, <2>2, OutsideKeepsFile DEF DistributorHere
<1>6. ASSUME NEW d \in Distributors, NEW t \in Tokens,
             Move(d, t) \/ ForceUnregister(d, t)
      PROVE  FileKept'
  <2>1. budget'["remove"] = 0
    BY <1>6, SpendRemovesNothing DEF Move, ForceUnregister, FileKept, Kinds
  <2>2. QED
    BY <1>1, <1>6, <2>1, OutsideKeepsFile DEF Move, ForceUnregister
<1>7. QED
  BY <1>3, <1>4, <1>5, <1>6

(* The application does not remove the state file itself. *)
StateFileStays == \A l \in Limits : l["remove"] = 0

(* A registered application that is restarted finds itself registered, in  *)
(* every order of endpoints, unregistrations, moves and lost distributors, *)
(* as long as it does not remove the file itself.                          *)
THEOREM RegistrationIsStored == ASSUME StateFileStays PROVE Spec => []Persisted
<1>1. Init => FileKept
  BY DEF Init, FileKept, StateFileStays
<1>2. TypeOK /\ FileKept /\ [Next]_vars => FileKept'
  <2>1. FileKept /\ UNCHANGED vars => FileKept'
    BY DEF FileKept, vars
  <2>2. QED
    BY <2>1, ApplicationKeepsFile, DeliveryKeepsFile, WorksKeepFile,
       SurroundingsKeepFile DEF Next
<1>3. FileKept => Persisted
  BY DEF FileKept, Agrees, Persisted
<1>4. QED
  BY <1>1, <1>2, <1>3, ConnectorTypeCorrect, PTL DEF Spec

=============================================================================
