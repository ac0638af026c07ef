----------------------------- MODULE Connector -----------------------------
(***************************************************************************)
(* The client library: one KUnifiedPush::Connector of an application, its  *)
(* command queue and state file, on a session bus with distributors that   *)
(* come and go.                                                            *)
(*                                                                         *)
(* The bus delivers to the application in one order what it has accepted   *)
(* from others: signals about services, calls of distributors, replies.    *)
(* One action is one handler of the application, one command of a          *)
(* distributor, or one change of the surroundings.                         *)
(*                                                                         *)
(* Operators no action refers to (MisplacedEndpoint, NoBarrier, ...) are   *)
(* slips of the definition that follows them, for the README's mutants.    *)
(***************************************************************************)
EXTENDS Integers, Sequences, FiniteSets, SequencesExt, FiniteSetsExt

CONSTANTS
  Distributors,  \* the service names a distributor can have
  Rank,          \* their order of preference, smallest first
  Requested,     \* the one UNIFIEDPUSH_DISTRIBUTOR asks for, or None
  VersionOf,     \* "v1" or "v2": the D-Bus protocol each of them speaks
  MaxToken,      \* bound: tokens an application generates
  Endpoints,     \* endpoint URLs a push provider hands out
  VapidKeys,     \* VAPID public keys
  None,          \* no endpoint, key, distributor, client or file
  Limits         \* bounds: how often the surroundings do each of Kinds, a
                 \* set of alternatives

Kinds == {"register", "unregister", "key", "required", "keys", "remove",
          "move", "force", "fail", "reject", "timeout", "gone", "here", "quit"}

Tokens == 1..MaxToken
NoToken == 0

States == {"Unregistered", "Registering", "Registered", "NoDistributor", "Error"}
Commands == {"None", "Register", "Unregister"}

ASSUME ConnectorAssumption ==
  /\ IsFiniteSet(Distributors)
  /\ Rank \in [Distributors -> Nat]
  /\ \A d, e \in Distributors : Rank[d] = Rank[e] => d = e
  /\ Requested \in Distributors \cup {None}
  /\ VersionOf \in [Distributors -> {"v1", "v2"}]
  /\ MaxToken \in Nat
  /\ None \notin Distributors \cup Endpoints \cup VapidKeys
  /\ Limits \subseteq [Kinds -> Nat]

VARIABLES
  running,   \* the application runs, and has its Connector
  con,       \* the connector's members
  file,      \* the state file, or None
  issued,    \* the tokens generated so far are 1..issued
  incoming,  \* what the bus will deliver to the application
  pending,   \* the distributor whose reply to Register is awaited, or None
  services,  \* distributors on the bus
  work,      \* the commands each of them has queued
  clients,   \* the clients each of them has registered, with the endpoint
             \* it has in memory and the one in its settings
  wish,      \* what the application asked for last; nothing, once it has
             \* been told that it was unregistered, or was without notice
  budget     \* what is left of the limits

distributors == <<services, work, clients>>
vars == <<running, con, file, issued, incoming, pending, distributors, wish,
          budget>>

-----------------------------------------------------------------------------
(* Types *)

ConnectorState ==
  [iface : Distributors \cup {None},     \* m_distributor
   state : States, token : Nat, endpoint : Endpoints \cup {None},
   key : VapidKeys \cup {None},          \* m_vapidPublicKey
   required : BOOLEAN,                   \* m_vapidRequired
   hasKeys : BOOLEAN,                    \* m_contentEnc.hasKeys()
   current : Commands, queue : Seq(Commands),
   call : Commands]                      \* the call this handler makes
StateFile ==
  [token : Nat, endpoint : Endpoints \cup {None}, key : VapidKeys \cup {None},
   required : BOOLEAN, hasKeys : BOOLEAN]
Event ==
  [event : {"NewEndpoint", "Unregistered", "Success", "Failure", "Error",
            "Gone", "Here"},
   token : Nat, endpoint : Endpoints \cup {None},
   service : Distributors \cup {None}]
Work ==
  [op : {"Register", "Unregister", "ForceUnregister", "SilentUnregister"},
   token : Tokens, key : VapidKeys \cup {None}, waits : BOOLEAN]
Registration ==
  [endpoint : Endpoints \cup {None}, stored : Endpoints \cup {None},
   key : VapidKeys \cup {None}]

ASSUME NoneAssumption == None \notin StateFile \cup Registration

TypeOK ==
  /\ running \in BOOLEAN
  /\ con \in ConnectorState /\ con.call = "None"
  /\ con.token \in 0..MaxToken
  /\ file \in StateFile \cup {None}
  /\ issued \in 0..MaxToken
  /\ incoming \in Seq(Event)
  /\ pending \in Distributors \cup {None}
  /\ services \subseteq Distributors
  /\ work \in [Distributors -> Seq(Work)]
  /\ clients \in [Distributors -> [Tokens -> Registration \cup {None}]]
  /\ wish \in {"nothing", "registered", "unregistered"}
  /\ budget \in [Kinds -> Nat]

-----------------------------------------------------------------------------
(* Helpers *)

Fresh ==
  [iface |-> None, state |-> "Unregistered", token |-> NoToken,
   endpoint |-> None, key |-> None, required |-> FALSE, hasKeys |-> FALSE,
   current |-> "None", queue |-> <<>>, call |-> "None"]

Plain(event) == [event |-> event, token |-> NoToken, endpoint |-> None,
                 service |-> None]
MisplacedEndpoint(t, e) ==
  [Plain("NewEndpoint") EXCEPT !.token = t, !.service = e]
NewEndpoint(t, e) ==
  [Plain("NewEndpoint") EXCEPT !.token = t, !.endpoint = e]
Unregistered(t) == [Plain("Unregistered") EXCEPT !.token = t]
Service(event, d) == [Plain(event) EXCEPT !.service = d]

Known(d, t) == t \in Tokens /\ clients[d][t] # None

Spend(kind) == /\ budget[kind] > 0
               /\ budget' = [budget EXCEPT ![kind] = @ - 1]

(* ConnectorUtils::selectDistributor() *)
SelectPreferred ==
  IF services = {} THEN None
  ELSE CHOOSE d \in services : \A e \in services : Rank[d] <= Rank[e]
SelectDistributor ==
  IF Requested # None
  THEN IF Requested \in services THEN Requested ELSE None
  ELSE SelectPreferred

(* loadState(), storeState() *)
Loaded ==
  IF file = None THEN Fresh
  ELSE [Fresh EXCEPT !.token = file.token, !.endpoint = file.endpoint,
                     !.key = file.key, !.required = file.required,
                     !.hasKeys = file.hasKeys]
StoredWithoutEndpoint(c) ==
  [token |-> c.token, endpoint |-> None, key |-> c.key,
   required |-> c.required, hasKeys |-> c.hasKeys]
Stored(c) ==
  [token |-> c.token, endpoint |-> c.endpoint, key |-> c.key,
   required |-> c.required,
   hasKeys |-> c.hasKeys \/ (file # None /\ file.hasKeys)]

-----------------------------------------------------------------------------
(* The command queue: operators from the connector c to the connector      *)
(* after a call of the method.                                             *)

(* isNextCommandReady() *)
Ready(c, cmd) == cmd = "Register" => ~c.required \/ c.key # None

(* Commands that processNextCommand() drops, there is nothing to do.       *)
Done(c, cmd) ==
  \/ cmd = "None"
  \/ cmd = "Register" /\ c.state = "Registered"
  \/ cmd = "Unregister" /\ c.state = "Unregistered"

IssueForgetful(c, cmd) ==
  IF cmd = "Register"
  THEN [c EXCEPT !.current = cmd, !.call = cmd, !.state = "Registering",
                 !.token = IF @ = NoToken THEN issued + 1 ELSE @]
  ELSE [c EXCEPT !.current = cmd, !.call = cmd, !.token = NoToken]
Issue(c, cmd) ==
  IF cmd = "Register"
  THEN [c EXCEPT !.current = cmd, !.call = cmd, !.state = "Registering",
                 !.token = IF @ = NoToken THEN issued + 1 ELSE @]
  ELSE [c EXCEPT !.current = cmd, !.call = cmd]

ProcessNextCommand(c) ==
  LET stops == {i \in DOMAIN c.queue :
                  ~Ready(c, c.queue[i]) \/ ~Done(c, c.queue[i])}
      rest == IF stops = {} THEN <<>>
              ELSE SubSeq(c.queue, Min(stops), Len(c.queue))
  IN IF c.current # "None" \/ c.iface = None THEN c
     ELSE IF rest = <<>> \/ ~Ready(c, Head(rest))
     THEN [c EXCEPT !.queue = rest]
     ELSE Issue([c EXCEPT !.queue = Tail(rest)], Head(rest))

(* addCommand(): a command that is queued last already is ignored, one     *)
(* that undoes the last one removes it.                                    *)
Cancel(last, cmd) == {last, cmd} = {"Register", "Unregister"}
AddUnlessCurrent(c, cmd) ==
  IF c.current = cmd \/ (c.queue # <<>> /\ Last(c.queue) = cmd) THEN c
  ELSE IF c.queue # <<>> /\ Cancel(Last(c.queue), cmd)
  THEN [c EXCEPT !.queue = Front(@)]
  ELSE ProcessNextCommand([c EXCEPT !.queue = Append(@, cmd)])
AddCommand(c, cmd) ==
  IF c.queue # <<>> /\ Last(c.queue) = cmd THEN c
  ELSE IF c.queue # <<>> /\ Cancel(Last(c.queue), cmd)
  THEN [c EXCEPT !.queue = Front(@)]
  ELSE IF c.queue = <<>> /\ c.current = cmd THEN c
  ELSE ProcessNextCommand([c EXCEPT !.queue = Append(@, cmd)])

(* setDistributor(): a connector that has a token registers again.         *)
TrustsStateFile(c, d) ==
  IF d = None THEN [c EXCEPT !.state = "NoDistributor"]
  ELSE [c EXCEPT !.iface = d, !.state = IF c.endpoint = None THEN "Unregistered"
                                                             ELSE "Registered"]
SetDistributor(c, d) ==
  IF d = None THEN [c EXCEPT !.state = "NoDistributor"]
  ELSE LET chosen == [c EXCEPT !.iface = d, !.state = "Unregistered"]
       IN IF c.token = NoToken THEN chosen ELSE AddCommand(chosen, "Register")

-----------------------------------------------------------------------------
(* The bus *)

(* A Register call: a distributor answers for a known client at once, for  *)
(* a new one when it has registered it.                                    *)
CallRegister(c, rest) ==
  LET d == c.iface
      t == c.token
      key == IF VersionOf[d] = "v2" THEN c.key ELSE None
  IN CASE d \notin services ->
            /\ incoming' = Append(rest, Plain("Error"))
            /\ UNCHANGED <<work, pending>>
       [] d \in services /\ Known(d, t) ->
            /\ incoming' = rest \o <<NewEndpoint(t, clients[d][t].endpoint),
                                     Plain("Success")>>
            /\ UNCHANGED <<work, pending>>
       [] OTHER ->
            /\ incoming' = rest
            /\ work' = [work EXCEPT ![d] = Append(@,
                 [op |-> "Register", token |-> t, key |-> key, waits |-> TRUE])]
            /\ pending' = d

(* An Unregister call, which nobody awaits the reply of: a distributor     *)
(* queues it for a known client, else it withdraws a queued Register.  The *)
(* command it is executing already is no longer in its queue.              *)
CallUnregister(c, rest) ==
  LET d == c.iface
      t == c.token
      unregister == [op |-> "Unregister", token |-> t, key |-> None,
                     waits |-> FALSE]
      Queued(executing) ==
        {i \in DOMAIN work[d] : /\ work[d][i].op = "Register"
                                /\ work[d][i].token = t
                                /\ executing => i # 1}
      Withdrawn(executing) ==
        IF Queued(executing) = {} THEN work[d]
        ELSE RemoveAt(work[d], Min(Queued(executing)))
  IN /\ incoming' = rest
     /\ UNCHANGED pending
     /\ CASE d \notin services -> UNCHANGED work
          [] d \in services /\ Known(d, t) ->
               work' = [work EXCEPT ![d] = Append(@, unregister)]
          [] OTHER -> \E executing \in BOOLEAN :
               work' = [work EXCEPT ![d] = Withdrawn(executing)]

(* A handler leaves the connector as c, and its call with the bus.         *)
Handled(c, rest) ==
  /\ c.token <= MaxToken
  /\ con' = [c EXCEPT !.call = "None"]
  /\ issued' = IF c.token > issued THEN c.token ELSE issued
  /\ CASE c.call = "Register" -> CallRegister(c, rest)
       [] c.call = "Unregister" -> CallUnregister(c, rest)
       [] OTHER -> incoming' = rest /\ UNCHANGED <<work, pending>>

-----------------------------------------------------------------------------
Init ==
  /\ running = FALSE /\ con = Fresh /\ file = None /\ issued = 0
  /\ incoming = <<>> /\ pending = None
  /\ services \in SUBSET Distributors
  /\ work = [d \in Distributors |-> <<>>]
  /\ clients = [d \in Distributors |-> [t \in Tokens |-> None]]
  /\ wish = "nothing" /\ budget \in Limits

(* The application starts: the constructor.                                *)
Start ==
  /\ ~running /\ running' = TRUE
  /\ Handled(SetDistributor(Loaded, SelectDistributor), incoming)
  /\ UNCHANGED <<file, services, clients, wish, budget>>

(* The process ends, what was on its way to it is lost. *)
Stop ==
  /\ running' = FALSE /\ con' = Fresh
  /\ incoming' = <<>> /\ pending' = None
  /\ work' = [d \in Distributors |->
       [i \in DOMAIN work[d] |-> [work[d][i] EXCEPT !.waits = FALSE]]]
  /\ UNCHANGED <<file, issued, services, clients, wish>>
Quit == running /\ Spend("quit") /\ Stop

-----------------------------------------------------------------------------
(* Calls of the application *)

RegisterClient ==
  /\ running /\ Spend("register")
  /\ Handled(AddCommand(con, "Register"), incoming)
  /\ wish' = "registered"
  /\ UNCHANGED <<running, file, services, clients>>

UnregisterClient ==
  /\ running /\ Spend("unregister")
  /\ Handled(AddCommand(con, "Unregister"), incoming)
  /\ wish' = "unregistered"
  /\ UNCHANGED <<running, file, services, clients>>

(* A new key means a new registration: unregister, register, and between   *)
(* them a no-op that keeps them from cancelling each other.                *)
NoBarrier(c) == AddCommand(AddCommand(c, "Unregister"), "Register")
Reregister(c) ==
  AddCommand(AddCommand(AddCommand(c, "Unregister"), "None"), "Register")
SetVapidPublicKey(k) ==
  LET c == [con EXCEPT !.key = k] IN
  /\ running /\ k # con.key /\ Spend("key")
  /\ Handled(IF c.token = NoToken THEN ProcessNextCommand(c)
                                  ELSE Reregister(c), incoming)
  /\ UNCHANGED <<running, file, services, clients, wish>>

SetVapidPublicKeyRequired ==
  /\ running /\ Spend("required")
  /\ Handled(ProcessNextCommand([con EXCEPT !.required = ~@]), incoming)
  /\ UNCHANGED <<running, file, services, clients, wish>>

(* ensureKeys() *)
EnsureKeys ==
  /\ running /\ ~con.hasKeys /\ Spend("keys")
  /\ con' = [con EXCEPT !.hasKeys = TRUE]
  /\ file' = Stored(con')
  /\ UNCHANGED <<running, issued, incoming, pending, distributors, wish>>

RemoveState ==
  /\ running /\ Spend("remove")
  /\ file' = None
  /\ UNCHANGED <<running, con, issued, incoming, pending, distributors, wish>>

-----------------------------------------------------------------------------
(* What the bus delivers *)

Receives(event) ==
  running /\ incoming # <<>> /\ Head(incoming).event = event

(* newEndpointImpl() *)
IsMine(t) == t = con.token
NewEndpointArrives ==
  LET e == Head(incoming)
      c == [con EXCEPT !.endpoint = e.endpoint, !.state = "Registered"]
  IN
  /\ Receives("NewEndpoint")
  /\ IF IsMine(e.token)
     THEN Handled(c, Tail(incoming)) /\ file' = Stored(c)
     ELSE Handled(con, Tail(incoming)) /\ UNCHANGED file
  /\ UNCHANGED <<running, services, clients, wish, budget>>

(* unregisteredImpl(): the confirmation of our own request, or the         *)
(* distributor has unregistered us; an empty token is meant for everyone.  *)
UnregisteredArrives ==
  LET t == Head(incoming).token
      mine == t = NoToken \/ t = con.token
      confirmed == t = NoToken \/ con.current = "Unregister"
      gone == [con EXCEPT !.endpoint = None, !.state = "Unregistered"]
      c == IF confirmed THEN [gone EXCEPT !.token = NoToken] ELSE gone
      next == IF con.current = "Unregister" THEN [c EXCEPT !.current = "None"]
                                            ELSE c
  IN
  /\ Receives("Unregistered")
  /\ IF mine
     THEN /\ Handled(ProcessNextCommand(next), Tail(incoming))
          /\ file' = IF confirmed THEN None ELSE Stored(gone)
          /\ wish' = IF confirmed THEN wish ELSE "nothing"
     ELSE Handled(con, Tail(incoming)) /\ UNCHANGED <<file, wish>>
  /\ UNCHANGED <<running, services, clients, budget>>

(* handleRegisterResponse() *)
StaysCurrent(c) == c
CommandEnds(c) == [c EXCEPT !.current = "None"]
ReplyArrives ==
  LET event == Head(incoming).event
      state == CASE event # "Success" -> "Error"
                 [] con.endpoint = None -> "Registering"
                 [] OTHER -> "Registered"
  IN
  /\ Receives("Success") \/ Receives("Failure") \/ Receives("Error")
  /\ Handled(ProcessNextCommand(CommandEnds([con EXCEPT !.state = state])),
             Tail(incoming))
  /\ UNCHANGED <<running, file, services, clients, wish, budget>>

(* serviceRegistered() *)
ServiceRegistered ==
  /\ Receives("Here")
  /\ Handled(IF con.iface = None
             THEN ProcessNextCommand(SetDistributor(con, SelectDistributor))
             ELSE con, Tail(incoming))
  /\ UNCHANGED <<running, file, services, clients, wish, budget>>

(* serviceUnregistered(); without a distributor it dereferences a null     *)
(* pointer.                                                                *)
KeepsInterface(c, d) == IF c.iface = d
                        THEN [c EXCEPT !.state = "NoDistributor"] ELSE c
WithoutDistributor(c, d) ==
  IF c.iface = d
  THEN [c EXCEPT !.iface = None, !.current = "None", !.state = "NoDistributor"]
  ELSE c
ServiceUnregistered ==
  /\ Receives("Gone") /\ con.iface # None
  /\ Handled(WithoutDistributor(con, Head(incoming).service), Tail(incoming))
  /\ UNCHANGED <<running, file, services, clients, wish, budget>>

ServiceUnregisteredCrash ==
  /\ Receives("Gone") /\ con.iface = None
  /\ Stop
  /\ UNCHANGED budget

-----------------------------------------------------------------------------
(* Distributors *)

Working(d, op) == d \in services /\ work[d] # <<>> /\ Head(work[d]).op = op
Replied(w, event) == IF w.waits THEN <<Plain(event)>> ELSE <<>>

(* The push provider has registered the client of the command w.           *)
Registers(d) ==
  LET w == Head(work[d]) IN
  /\ Working(d, "Register")
  /\ work' = [work EXCEPT ![d] = Tail(@)]
  /\ \E e \in Endpoints :
       /\ clients' = [clients EXCEPT ![d][w.token] =
                        [endpoint |-> e, stored |-> e, key |-> w.key]]
       /\ incoming' = incoming \o <<NewEndpoint(w.token, e)>>
                      \o Replied(w, "Success")
  /\ pending' = IF w.waits THEN None ELSE pending
  /\ UNCHANGED <<running, con, file, issued, services, wish, budget>>

RejectsRegistration(d) ==
  LET w == Head(work[d]) IN
  /\ Working(d, "Register") /\ Spend("fail")
  /\ work' = [work EXCEPT ![d] = Tail(@)]
  /\ incoming' = incoming \o Replied(w, "Failure")
  /\ pending' = IF w.waits THEN None ELSE pending
  /\ UNCHANGED <<running, con, file, issued, services, clients, wish>>

(* Client::unregistered(): version 1 confirms without a token. *)
Unregisters(d, op) ==
  LET t == Head(work[d]).token IN
  /\ Working(d, op) /\ op \in {"Unregister", "ForceUnregister"}
  /\ work' = [work EXCEPT ![d] = Tail(@)]
  /\ clients' = [clients EXCEPT ![d][t] = None]
  /\ incoming' = Append(incoming, Unregistered(
       IF op = "Unregister" /\ VersionOf[d] = "v1" THEN NoToken ELSE t))
  /\ UNCHANGED <<running, con, file, issued, pending, services, wish, budget>>

(* The push provider rejects it: the client is removed without notice,     *)
(* which undoes what the application has asked for.                        *)
RejectsUnregistration(d, op) ==
  LET t == Head(work[d]).token IN
  /\ Working(d, op) /\ op \in {"Unregister", "ForceUnregister"}
  /\ Spend("reject")
  /\ work' = [work EXCEPT ![d] = Tail(@)]
  /\ clients' = [clients EXCEPT ![d][t] = None]
  /\ wish' = IF t = con.token THEN "nothing" ELSE wish
  /\ UNCHANGED <<running, con, file, issued, incoming, pending, services>>

(* The first half of a move: the endpoint is gone from the settings only.  *)
SilentlyUnregisters(d) ==
  LET t == Head(work[d]).token IN
  /\ Working(d, "SilentUnregister")
  /\ incoming' = Append(incoming, NewEndpoint(t, None))
  /\ work' = [work EXCEPT ![d] = Tail(@)]
  /\ clients' = IF Known(d, t) THEN [clients EXCEPT ![d][t].stored = None]
                               ELSE clients
  /\ UNCHANGED <<running, con, file, issued, pending, services, wish, budget>>

(* The user changes the push provider (the client is registered again), or *)
(* removes the client.                                                     *)
Todo(d, t, op) ==
  [op |-> op, token |-> t, key |-> clients[d][t].key, waits |-> FALSE]
Move(d, t) ==
  /\ d \in services /\ Known(d, t) /\ Spend("move")
  /\ work' = [work EXCEPT ![d] =
       @ \o <<Todo(d, t, "SilentUnregister"), Todo(d, t, "Register")>>]
  /\ UNCHANGED <<running, con, file, issued, incoming, pending, services,
                 clients, wish>>
ForceUnregister(d, t) ==
  /\ d \in services /\ Known(d, t) /\ Spend("force")
  /\ work' = [work EXCEPT ![d] = Append(@, Todo(d, t, "ForceUnregister"))]
  /\ UNCHANGED <<running, con, file, issued, incoming, pending, services,
                 clients, wish>>

(* The reply to Register takes longer than the bus waits; it is ignored    *)
(* when it comes.                                                          *)
Timeout ==
  /\ pending # None /\ Spend("timeout")
  /\ work' = [work EXCEPT ![pending] =
       [i \in DOMAIN @ |-> [@[i] EXCEPT !.waits = FALSE]]]
  /\ incoming' = Append(incoming, Plain("Error"))
  /\ pending' = None
  /\ UNCHANGED <<running, con, file, issued, services, clients, wish>>

(* A distributor leaves the bus or appears on it.  Its clients are kept in *)
(* its settings, its queue is not.                                         *)
Signal(event, d) == IF running THEN <<Service(event, d)>> ELSE <<>>
DistributorGone(d) ==
  /\ d \in services /\ Spend("gone")
  /\ services' = services \ {d}
  /\ work' = [work EXCEPT ![d] = <<>>]
  /\ incoming' = incoming \o Signal("Gone", d)
                 \o (IF pending = d THEN <<Plain("Error")>> ELSE <<>>)
  /\ pending' = IF pending = d THEN None ELSE pending
  /\ UNCHANGED <<running, con, file, issued, clients, wish>>
FromSettings(c) == IF c = None THEN None ELSE [c EXCEPT !.endpoint = c.stored]
DistributorHere(d) ==
  /\ d \notin services /\ Spend("here")
  /\ services' = services \cup {d}
  /\ clients' = [clients EXCEPT ![d] = [t \in Tokens |-> FromSettings(@[t])]]
  /\ incoming' = incoming \o Signal("Here", d)
  /\ UNCHANGED <<running, con, file, issued, pending, work, wish>>

-----------------------------------------------------------------------------
Application ==
  \/ RegisterClient \/ UnregisterClient \/ SetVapidPublicKeyRequired
  \/ \E k \in VapidKeys : SetVapidPublicKey(k)
  \/ EnsureKeys \/ RemoveState \/ Quit

Delivery ==
  \/ NewEndpointArrives \/ UnregisteredArrives \/ ReplyArrives
  \/ ServiceRegistered \/ ServiceUnregistered \/ ServiceUnregisteredCrash

Works(d) ==
  \/ Registers(d) \/ SilentlyUnregisters(d)
  \/ \E op \in {"Unregister", "ForceUnregister"} : Unregisters(d, op)
Rejects(d) ==
  \/ RejectsRegistration(d)
  \/ \E op \in {"Unregister", "ForceUnregister"} : RejectsUnregistration(d, op)

Next ==
  \/ Start \/ Application \/ Delivery \/ Timeout
  \/ \E d \in Distributors :
       \/ Works(d) \/ Rejects(d) \/ DistributorGone(d) \/ DistributorHere(d)
       \/ \E t \in Tokens : Move(d, t) \/ ForceUnregister(d, t)

Spec == Init /\ [][Next]_vars

=============================================================================
