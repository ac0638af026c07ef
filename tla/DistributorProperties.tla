----------------------- MODULE DistributorProperties -----------------------
(***************************************************************************)
(* What the distributor promises: safety, action and liveness properties   *)
(* of module Distributor.                                                  *)
(***************************************************************************)
EXTENDS Distributor

-----------------------------------------------------------------------------
(* Safety *)

InFlight(op) ==
  \E s \in Slots : /\ requests[s] # None /\ requests[s].op = op
                   /\ requests[s].client = currentCommand.client
                   /\ requests[s].value = currentCommand.value

(* A command occupies m_currentCommand, and blocks the whole queue, only   *)
(* while something that will end it is under way: its request, the opening *)
(* of the link (or the end of one whose hello was refused), its closing,   *)
(* or the retry timer.  Not so with a URL a WebSocket backend cannot open. *)
Opening == \/ conn \in {"connecting", "ignored"}
           \/ \E i \in DOMAIN events : events[i] = "start"
WaitsForSomething ==
  HasSetup =>
    /\ currentCommand.type = "Register" => InFlight("register")
    /\ currentCommand.type \in UnregisterTypes => InFlight("unregister")
    /\ currentCommand.type = "MessageAck" => InFlight("ack")
    /\ currentCommand.type \in {"Connect", "ChangeUrgency"} =>
         Opening
    /\ currentCommand.type = "Disconnect" => conn = "closing"
    /\ currentCommand.type = "Wait" => retryTimer
    /\ currentCommand.type # "ChangePushProvider"
NeverWaitsForNothing == account \notin OddUrls => WaitsForSomething

(* The queue does not stall: with the network up, no command running and   *)
(* more than an urgency change to do, an invocation of                     *)
(* doProcessNextCommand() is pending.                                      *)
NoLostWakeup ==
  /\ alive /\ HasSetup /\ network
  /\ currentCommand = NoCommand
  /\ \E i \in DOMAIN commandQueue : commandQueue[i].type # "ChangeUrgency"
  => posted > 0

(* The Register replies of t that queued and current commands hold.        *)
Holds(c, t) == c.reply /\ c.client.token = t
Held(t) ==
  Cardinality({i \in DOMAIN commandQueue : Holds(commandQueue[i], t)})
  + (IF Holds(currentCommand, t) THEN 1 ELSE 0)

(* No Register call is answered twice: each reply that is still held       *)
(* belongs to a call that still waits.                                     *)
OneReplyEach == \A t \in Tokens : Held(t) <= open[t]

(* A Register call is not forgotten on the way, through retries, lost      *)
(* links and changes of provider: its reply is let go only when it is sent *)
(* or the application withdraws the registration.                          *)
RepliesKept ==
  [][alive' => \A t \in Tokens :
       Held(t)' < Held(t) => open'[t] < open[t] \/ Withdraw(t)]_vars

(* What is connected is shown so in the settings module, and what it shows *)
(* as connected is, or is being connected again, through reconnects,       *)
(* provider changes and overwritten sockets.  The second holds for sockets *)
(* only: a stream may have ended when connected() is handled.              *)
StatusTruthful ==
  /\ conn = "on" => status = "Connected"
  /\ status = "Connected" /\ LinkIs("socket") =>
       conn \notin {"off", "unopened"}

(* A restart would find exactly the clients the daemon has now...          *)
StoreComplete ==
  alive /\ HasSetup =>
    /\ storedTokens = Registered
    /\ \A t \in Registered : storedClients[t] # None

(* ...registered with the same account: also between the two halves of a   *)
(* move to another provider.                                               *)
StoreAgrees ==
  alive /\ HasSetup =>
    \A t \in Registered :
      storedClients[t] # None => storedClients[t].remote = clients[t].remote

(* The provider runs with the configuration that is stored as the user's   *)
(* choice, unless a change is still queued.                                *)
ConfigInUse ==
  alive /\ HasSetup /\ ~Queued("ChangePushProvider") =>
    provider = storedProvider /\ account = storedConfig[provider]

(* An application loses its registration only by an unregistration of its  *)
(* own or by the user, which is current or still queued: never through a   *)
(* change of provider, a retry or a late answer.                           *)
Unregistering(c, t) ==
  c.type \in {"Unregister", "ForceUnregister"} /\ c.client.token = t
RemovedOnRequest ==
  [][\A t \in Tokens :
       alive /\ alive' /\ clients[t] # None /\ clients'[t] = None =>
         \/ Unregistering(currentCommand, t)
         \/ \E i \in DOMAIN commandQueue :
              Unregistering(commandQueue[i], t)]_vars

(* Once all work is done every client is registered with the account in    *)
(* use and has been told the endpoint there.                               *)
Settled == /\ alive /\ HasSetup
           /\ currentCommand = NoCommand /\ commandQueue = <<>>
           /\ \A s \in Slots : requests[s] = None
AllMoved == Settled => \A t \in Registered : /\ clients[t].remote = account
                                             /\ told[t] = account

(* A success reply to a Register call is true: the caller is a client then *)
(* and has been told its endpoint.                                         *)
SuccessMeansRegistered ==
  [][\A s \in Slots, t \in Tokens :
       ClientRegistered(s) /\ open'[t] < open[t] =>
         clients'[t] # None /\ told'[t] = account]_vars

(* A registration that was persisted stays persisted until its application *)
(* or the user unregisters it.                                             *)
RegistrationPersisted ==
  [][\A t \in storedTokens \ storedTokens' :
       Unregistering(currentCommand, t)]_vars

-----------------------------------------------------------------------------
(* Liveness *)

(* The event loop runs what is posted and expired, servers answer, links   *)
(* open or close eventually, and systemd restarts a crashed daemon.        *)
Fairness ==
  /\ WF_vars(DoProcessNextCommand) /\ WF_vars(RetryTimeout)
  /\ WF_vars(Answer) /\ WF_vars(StreamStarts)
  /\ WF_vars(Connected) /\ WF_vars(MessageForNobody)
  /\ WF_vars(LinkClosed \/ LinkClosedCrash)
  /\ WF_vars(\E gone \in SUBSET Tokens : Start(gone))

FairSpec == Spec /\ Fairness

(* The push server can be reached and does not leave a refused hello open. *)
Reachable == network /\ account \notin OddUrls /\ conn # "ignored"

(* With a server that stays reachable, every Register call is answered or  *)
(* withdrawn.                                                              *)
CallsAnswered ==
  <>[]Reachable => \A t \in Tokens : Held(t) > 0 ~> Held(t) = 0

(* With a network that stays, a daemon that has clients does not remain    *)
(* disconnected: it gets back after every lost link and every crash.       *)
Reconnects ==
  <>[]network => []<>(alive /\ HasSetup /\ Registered # {} =>
                        status = "Connected")

(* Each change of provider the user asks for is carried out, if the server *)
(* stays reachable.                                                        *)
ChangesHappen ==
  <>[]Reachable => (Queued("ChangePushProvider") ~> ~Queued("ChangePushProvider"))

-----------------------------------------------------------------------------
(* Statements of comments and documents that the code does not keep; the   *)
(* README says how to see it.                                              *)

(* The assertion in doProcessNextCommand(): no empty command is queued.    *)
OnlyCommandsQueued == ~Queued("NoCommand")

(* Registering the first client waits for the connection, which may do the *)
(* device registration that has to come first.                             *)
RegistersConnected == Processing({"Register"}) /\ HasSetup => conn = "on"

(* A client that has been unregistered does not come back but by a new     *)
(* Register call.                                                          *)
StaysUnregistered ==
  [][\A t \in Tokens :
       alive /\ alive' /\ clients[t] = None /\ clients'[t] # None =>
         Holds(currentCommand, t)]_vars

(* Register calls are answered as long as there is a network.              *)
CallsEnd == <>[]network => \A t \in Tokens : Held(t) > 0 ~> Held(t) = 0

(* Connected means that there is a link, or one being opened.              *)
LinkShown == status = "Connected" => conn # "off"

(* A new urgency level reaches the provider.                               *)
UrgencyApplied ==
  <>[]network => (urgency # providerUrgency /\ status = "Connected" ~>
                    urgency = providerUrgency \/ status # "Connected")

=============================================================================
