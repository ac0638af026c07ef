------------------------------ MODULE SelfTest ------------------------------
(***************************************************************************)
(* The self test of the settings module, composed with the client library: *)
(* it registers a Connector of its own, sends a message to the endpoint it *)
(* gets, and waits for it to come back.  What ends the test also destroys  *)
(* the Connector, in the handler of one of the Connector's signals for     *)
(* some of them.                                                           *)
(*                                                                         *)
(* The Connector exists while "running".  Kind "register" of the limits is *)
(* a click on the Test button, "unregister" one on Apply, "remove" leaving *)
(* the settings module, "quit" the end of the session.                     *)
(*                                                                         *)
(* DestroyQuietly, StartsNoTimer, AnyUrl and AnyContent are slips of the   *)
(* code next to them.                                                      *)
(***************************************************************************)
EXTENDS Connector

CONSTANTS
  TestKey,     \* VAPID_PUBLIC_KEY
  MaxMessages  \* bound: messages sent

ASSUME SelfTestAssumption == TestKey \in VapidKeys /\ MaxMessages \in Nat

VARIABLES
  testState,  \* m_state, or "Crashed"
  timer,      \* m_timer is running
  msg,        \* m_msg: messages are numbered, 0 if empty
  submitting, \* m_notifier waits for the reply to its request
  sent,       \* messages on their way to the push server, or lost
  mail,       \* messages the push server has
  ended       \* history: <<token, distributor>> of tests that ended with
              \* their connector registered and no call to the distributor
              \* under way, since which the distributor has neither been
              \* restarted nor moved the client

testVars == <<testState, timer, msg, submitting, ended>>
allVars == <<vars, testVars, sent, mail>>

Waiting == {"WaitingForEndpoint", "Submitting", "WaitingForMessage"}
Mail == [id : 1..MaxMessages, token : Tokens, endpoint : Endpoints]

TestTypeOK ==
  /\ testState \in Waiting \cup {"Idle", "Success", "Error", "Crashed"}
  /\ timer \in BOOLEAN /\ submitting \in BOOLEAN
  /\ msg \in 0..MaxMessages
  /\ sent \subseteq Mail /\ mail \subseteq Mail
  /\ ended \subseteq Tokens \X Distributors

-----------------------------------------------------------------------------
(* The end of a test *)

(* What the bus still delivers to a process without a connector: it has    *)
(* the calls, replies and signals went to objects that are gone.           *)
Calls(events) ==
  SelectSeq(events, LAMBDA e : e.event \in {"NewEndpoint", "Unregistered", "Message"})
Unawaited ==
  [d \in Distributors |->
     [i \in DOMAIN work[d] |-> [work[d][i] EXCEPT !.waits = FALSE]]]

Ended(c) == {e \in Tokens \X services :
               /\ e = <<c.token, c.iface>>
               /\ c.state = "Registered" /\ c.current = "None"}

(* unregisterClient() of the connector c, which is destroyed before it     *)
(* gets to a command that has to wait.                                     *)
DestroyQuietly(c, rest) ==
  /\ running' = FALSE /\ con' = Fresh
  /\ incoming' = Calls(rest) /\ work' = Unawaited /\ pending' = None
  /\ ended' = ended \cup Ended(c)
  /\ UNCHANGED <<issued, services, clients, wish>>
Destroy(c, rest) ==
  LET unregistering == AddCommand(c, "Unregister") IN
  /\ running' = FALSE /\ con' = Fresh
  /\ IF unregistering.call = "Unregister"
     THEN CallUnregister(unregistering, Calls(rest))
     ELSE incoming' = Calls(rest) /\ work' = Unawaited /\ pending' = None
  /\ ended' = ended \cup Ended(c)
  /\ UNCHANGED <<issued, services, clients, wish>>

(* setState(s) for Success, Error and Idle, while the connector is c. *)
Finish(c, s, rest) ==
  /\ Destroy(c, rest) /\ file' = None
  /\ testState' = s /\ msg' = 0 /\ submitting' = FALSE

(* setState(Error) while the connector handles NewEndpoint or Unregistered *)
(* and goes on after it has been deleted: that may crash, or store the     *)
(* state of the connector once more, or not.                               *)
FinishInside(c, rest) ==
  \/ Finish(c, "Error", rest)
  \/ /\ Destroy(c, rest) /\ file' = Stored(c)
     /\ testState' = "Error" /\ msg' = 0 /\ submitting' = FALSE
  \/ Finish(c, "Crashed", rest)

-----------------------------------------------------------------------------
TestInit ==
  /\ Init
  /\ testState = "Idle" /\ timer = FALSE /\ msg = 0 /\ submitting = FALSE
  /\ sent = {} /\ mail = {} /\ ended = {}

(* start() and the constructor of Connector: it finds a state file only if *)
(* one with its bus name has been left behind.                             *)
StartsNoTimer == UNCHANGED timer
StartsTimer == timer' = TRUE
StartTest ==
  LET created == SetDistributor(Loaded, SelectDistributor)
      required == ProcessNextCommand([created EXCEPT !.required = TRUE])
      keyed == IF required.key = TestKey THEN required
               ELSE ProcessNextCommand([required EXCEPT !.key = TestKey])
  IN
  /\ testState \in {"Idle", "Success", "Error"} /\ Spend("register")
  /\ running' = TRUE
  /\ Handled(AddCommand(keyed, "Register"), incoming)
  /\ testState' = "WaitingForEndpoint" /\ StartsTimer
  /\ ended' = {e \in ended : e[1] # con'.token}
  /\ UNCHANGED <<file, services, clients, wish, msg, submitting, sent, mail>>

(* reset(), when the settings are saved. *)
Reset ==
  /\ testState \notin {"Idle", "Crashed"} /\ Spend("unregister")
  /\ IF running THEN Finish(con, "Idle", incoming)
     ELSE /\ testState' = "Idle"
          /\ UNCHANGED <<running, con, file, issued, incoming, pending,
                         distributors, wish, msg, submitting, ended>>
  /\ UNCHANGED <<timer, sent, mail>>

(* ~SelfTest(): the module is left, within a process that goes on or with  *)
(* its process.  The state file stays; within the same process the next    *)
(* test finds it, the next process has another bus name.                   *)
Close ==
  /\ testState # "Crashed" /\ Spend("remove")
  /\ testState' = "Idle" /\ timer' = FALSE /\ msg' = 0 /\ submitting' = FALSE
  /\ \/ running /\ Destroy(con, incoming) /\ UNCHANGED file
     \/ running /\ Destroy(con, <<>>) /\ file' = None
     \/ /\ ~running
        /\ UNCHANGED <<running, con, file, issued, incoming, pending,
                       distributors, wish, ended>>
  /\ UNCHANGED <<sent, mail>>

(* The session ends: all processes are killed, the distributors keep what  *)
(* is in their settings.  In the next one the process may get the same bus *)
(* name.                                                                   *)
SessionEnds ==
  /\ Spend("quit")
  /\ running' = FALSE /\ con' = Fresh /\ file' \in {file, None}
  /\ incoming' = <<>> /\ pending' = None
  /\ work' = [d \in Distributors |-> <<>>]
  /\ clients' = [d \in Distributors |->
                   [t \in Tokens |-> FromSettings(clients[d][t])]]
  /\ testState' = "Idle" /\ timer' = FALSE /\ msg' = 0 /\ submitting' = FALSE
  /\ ended' = {}
  /\ UNCHANGED <<issued, services, wish, sent, mail>>

TimerFires ==
  /\ timer /\ timer' = FALSE
  /\ IF testState \in Waiting THEN Finish(con, "Error", incoming)
     ELSE UNCHANGED <<running, con, file, issued, incoming, pending,
                      distributors, wish, testState, msg, submitting, ended>>
  /\ UNCHANGED <<budget, sent, mail>>

-----------------------------------------------------------------------------
(* The connector's signals *)

ForUs(event) == Receives(event) /\ Head(incoming).token = con.token

(* endpointChanged() in newEndpointImpl(): the notifier, and a request it  *)
(* may have sent, is replaced.                                             *)
SubmitsTo(e) ==
  /\ \E id \in 1..MaxMessages :
       /\ \A m \in sent \cup mail : m.id < id
       /\ \A m \in ToSet(incoming) : m.event = "Message" => m.id < id
       /\ msg < id
       /\ msg' = id
       /\ sent' = sent \cup {[id |-> id, token |-> con.token, endpoint |-> e]}
AnyUrl(e) == TRUE
IsValid(e) == e # None
EndpointChanged ==
  LET e == Head(incoming).endpoint
      c == [con EXCEPT !.endpoint = e, !.state = "Registered", !.hasKeys = TRUE]
  IN
  /\ ForUs("NewEndpoint") /\ e # con.endpoint /\ IsValid(e)
  /\ Handled(c, Tail(incoming)) /\ file' = Stored(c)
  /\ testState' = "Submitting" /\ timer' = TRUE
  /\ submitting' = TRUE /\ SubmitsTo(e)
  /\ UNCHANGED <<running, services, clients, wish, budget, ended, mail>>

EndpointRemoved ==
  LET e == Head(incoming).endpoint
      c == [con EXCEPT !.endpoint = e]
  IN
  /\ ForUs("NewEndpoint") /\ e # con.endpoint /\ ~IsValid(e)
  /\ FinishInside(c, Tail(incoming))
  /\ UNCHANGED <<timer, budget, sent, mail>>

EndpointUnchanged ==
  /\ Receives("NewEndpoint")
  /\ Head(incoming).token = con.token => Head(incoming).endpoint = con.endpoint
  /\ NewEndpointArrives
  /\ UNCHANGED <<testVars, sent, mail>>

(* endpointChanged() in unregisteredImpl(), for an empty token too. *)
UnregisteredMeanwhile ==
  LET t == Head(incoming).token
      confirmed == t = NoToken \/ con.current = "Unregister"
      gone == [con EXCEPT !.endpoint = None]
      c == IF confirmed THEN [gone EXCEPT !.token = NoToken] ELSE gone
  IN
  /\ Receives("Unregistered") /\ t \in {NoToken, con.token}
  /\ FinishInside(c, Tail(incoming))
  /\ UNCHANGED <<timer, budget, sent, mail>>

UnregisteredOther ==
  /\ Receives("Unregistered") /\ Head(incoming).token \notin {NoToken, con.token}
  /\ UnregisteredArrives
  /\ UNCHANGED <<testVars, sent, mail>>

(* messageReceived(): the message has to be the one sent last. *)
AnyContent(id) == TRUE
Expected(id) == id = msg
MessageArrives ==
  /\ ForUs("Message") /\ timer' = FALSE
  /\ Finish(con, IF Expected(Head(incoming).id) THEN "Success" ELSE "Error",
            Tail(incoming))
  /\ UNCHANGED <<budget, sent, mail>>

MessageDropped ==
  /\ Receives("Message") /\ Head(incoming).token # con.token
  /\ incoming' = Tail(incoming)
  /\ UNCHANGED <<running, con, file, issued, pending, distributors, wish,
                 budget, testVars, sent, mail>>

(* Signals the test is not connected to. *)
ConnectorEvent ==
  /\ ReplyArrives \/ ServiceRegistered \/ ServiceUnregistered
  /\ UNCHANGED <<testVars, sent, mail>>
ConnectorCrash ==
  /\ ServiceUnregisteredCrash
  /\ testState' = "Crashed" /\ timer' = FALSE /\ msg' = 0
  /\ submitting' = FALSE
  /\ UNCHANGED <<ended, sent, mail>>

(* Calls for a connector that does not exist any more. *)
Discarded ==
  /\ ~running /\ incoming # <<>>
  /\ incoming' = Tail(incoming)
  /\ UNCHANGED <<running, con, file, issued, pending, distributors, wish,
                 budget, testVars, sent, mail>>

-----------------------------------------------------------------------------
(* The request of the notifier, and the push server *)

(* submissionFinished() *)
SubmissionFinished ==
  /\ submitting /\ \A m \in sent : m.id # msg
  /\ submitting' = FALSE
  /\ testState' = "WaitingForMessage" /\ timer' = TRUE
  /\ UNCHANGED <<vars, msg, ended, sent, mail>>
SubmissionFails ==
  /\ submitting
  /\ Finish(con, "Error", incoming)
  /\ UNCHANGED <<timer, budget, sent, mail>>

ServerAccepts(m) ==
  /\ m \in sent
  /\ sent' = sent \ {m} /\ mail' = mail \cup {m}
  /\ UNCHANGED <<vars, testVars>>

(* The distributor passes a message on to the client it is for. *)
Forwards(d, m) ==
  /\ d \in services /\ m \in mail /\ Known(d, m.token)
  /\ clients[d][m.token].endpoint = m.endpoint
  /\ mail' = mail \ {m}
  /\ incoming' = Append(incoming, [event |-> "Message", token |-> m.token,
                                   endpoint |-> m.endpoint, id |-> m.id])
  /\ UNCHANGED <<running, con, file, issued, pending, distributors, wish,
                 budget, testVars, sent>>

-----------------------------------------------------------------------------
User == StartTest \/ Reset \/ Close \/ SessionEnds
Signals ==
  \/ EndpointChanged \/ EndpointRemoved \/ EndpointUnchanged
  \/ UnregisteredMeanwhile \/ UnregisteredOther
  \/ MessageArrives \/ MessageDropped
  \/ ConnectorEvent \/ ConnectorCrash \/ Discarded
Network ==
  \/ SubmissionFinished \/ SubmissionFails
  \/ \E m \in sent : ServerAccepts(m)
  \/ \E d \in Distributors, m \in mail : Forwards(d, m)
Surroundings ==
  \/ /\ \/ Timeout
        \/ \E d \in Distributors :
             \/ Works(d) \/ Rejects(d) \/ DistributorHere(d)
             \/ \E t \in Tokens : ForceUnregister(d, t)
     /\ UNCHANGED <<testVars, sent, mail>>
  \/ \E d \in Distributors :
       /\ \/ DistributorGone(d) /\ ended' = {e \in ended : e[2] # d}
          \/ \E t \in Tokens : Move(d, t) /\ ended' = ended \ {<<t, d>>}
       /\ UNCHANGED <<testState, timer, msg, submitting, sent, mail>>

TestNext == User \/ Signals \/ Network \/ Surroundings \/ TimerFires
TestSpec == TestInit /\ [][TestNext]_allVars

-----------------------------------------------------------------------------
(* Every test ends, whatever happens to its connector, the distributors    *)
(* and the push server: the timer always runs while it waits.              *)
TestFairSpec == TestSpec /\ WF_allVars(TimerFires)
TestEnds == testState \in Waiting ~> testState \notin Waiting

(* A test says that push notifications work only if a message came through *)
(* the endpoint that is in use: a late one that was sent to an endpoint    *)
(* the connector had before does not count.                                *)
SuccessTruthful ==
  [][testState' = "Success" /\ testState # "Success"
       => Head(incoming).endpoint = con.endpoint]_allVars

(* A test leaves no client registered, however it ended: with a result, by *)
(* a click on Apply, by leaving the module or its process; once the        *)
(* distributor has done what it was asked to, and if the connector was     *)
(* registered with no call to the distributor under way.                   *)
CleansUp ==
  \A e \in ended :
    LET t == e[1] d == e[2] IN
    d \in services /\ work[d] = <<>> /\ ~(running /\ con.token = t)
      => clients[d][t] = None

(* The settings module survives its tests. *)
NeverCrashes == testState # "Crashed"

(* No test leaves a client registered. *)
NothingLeft ==
  \A d \in services, t \in Tokens :
    ~running /\ work[d] = <<>> => clients[d][t] = None

=============================================================================
