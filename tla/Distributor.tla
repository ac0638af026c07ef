---------------------------- MODULE Distributor ----------------------------
(***************************************************************************)
(* The KUnifiedPush distributor daemon: the command queue of class         *)
(* Distributor, the applications that call it over D-Bus, the settings it  *)
(* persists, and the push provider backend it drives.                      *)
(*                                                                         *)
(* One action is one handler run by the Qt event loop: a D-Bus call, a     *)
(* posted doProcessNextCommand(), a provider signal, the retry timer, a    *)
(* change of network or power state.  Handlers are atomic, what happens    *)
(* between them is arbitrary.                                              *)
(*                                                                         *)
(* Operators no action refers to (TokensBefore, SettleQuietly, ...) are    *)
(* slips of the definition that follows them, for the README's mutants.    *)
(***************************************************************************)
EXTENDS Integers, Sequences, FiniteSets, PushProviders

CONSTANTS
  Tokens,       \* application registrations, one token each
  V2Tokens,     \* those that use version 2 of the D-Bus protocol
  Accounts,     \* push provider configurations a user can enter
  ProviderIds,  \* provider names, known or not
  ProviderOf,   \* the provider an account belongs to
  Usable,       \* the accounts loadSettings() accepts
  OddUrls,      \* those among them for which a WebSocket backend has no URL
                \* to open: neither http nor https
  Profile,      \* what the known providers are like (module PushProviders)
  MessageIds,   \* identifiers of push messages
  Urgencies,    \* urgency levels
  AllUrgencies, \* the level a new provider object starts with
  None,         \* no client, account, provider or value
  Slots,        \* bound: HTTP requests in flight
  MaxPosted,    \* bound: doProcessNextCommand() calls in the event queue
  Scenarios     \* what the daemon is first started with: the account, the
                \* clients registered with it; and the bounds, how often the
                \* environment does each of Kinds from then on

(* What the environment does a bounded number of times. *)
Kinds == {"register", "unregister", "change", "network", "urgency",
          "message", "drop", "fail", "crash"}

(* A Client: the account its remoteId was issued by, and the account its   *)
(* endpoint URL leads to.                                                  *)
Client == [token : Tokens, remote : Accounts \cup {None},
           endpoint : Accounts \cup {None}]

UnregisterTypes == {"Unregister", "ForceUnregister", "SilentUnregister"}
PlainTypes == {"NoCommand", "Connect", "Disconnect", "ChangeUrgency", "Wait"}
CommandTypes ==
  UnregisterTypes \cup PlainTypes \cup
    {"Register", "ChangePushProvider", "MessageAck"}

(* A Command; reply says that it holds the D-Bus reply of a caller.        *)
Command ==
  [type : {"Register"}, client : Client, reply : BOOLEAN, value : {None}]
  \cup [type : UnregisterTypes, client : Client, reply : {FALSE},
        value : {None}]
  \cup [type : {"MessageAck"}, client : Client, reply : {FALSE},
        value : MessageIds]
  \cup [type : {"ChangePushProvider"}, client : {None}, reply : {FALSE},
        value : ProviderIds]
  \cup [type : PlainTypes, client : {None}, reply : {FALSE}, value : {None}]

(* What a provider has been asked to do and has not answered yet.          *)
Request == [op : {"register", "unregister", "ack"}, client : Client,
            value : MessageIds \cup {None}]

Statuses == {"Unknown", "Connected", "NoNetwork", "Idle", "NoSetup"}

ASSUME DistributorAssumption ==
  /\ IsFiniteSet(Tokens) /\ V2Tokens \subseteq Tokens
  /\ ProviderOf \in [Accounts -> ProviderIds]
  /\ OddUrls \subseteq Usable /\ Usable \subseteq Accounts
  /\ DOMAIN Profile \subseteq ProviderIds
  /\ Profile \in [DOMAIN Profile -> Profiles]
  /\ AllUrgencies \in Urgencies
  /\ None \notin Accounts \cup ProviderIds \cup MessageIds \cup Client
                 \cup Request
  /\ Slots \subseteq Nat
  /\ MaxPosted \in Nat \ {0}
  /\ Scenarios \subseteq
       [account : Accounts \cup {None}, clients : SUBSET Tokens,
        limits : [Kinds -> Nat]]
  /\ \A s \in Scenarios : s.account = None => s.clients = {}

VARIABLES
  alive,           \* the daemon runs
  storedProvider,  \* QSettings PushProvider/Type
  storedConfig,    \* QSettings, a group per provider: the account entered
  storedTokens,    \* QSettings Clients/Tokens
  storedClients,   \* QSettings, a group per token
  provider,        \* m_pushProvider: the provider object's id
  account,         \* the account that object was loaded with
  conn,            \* its link: "off", "connecting", "on" or "closing";
                   \* "unopened": a socket that has been given no URL,
                   \* "ignored": one whose hello the server has refused,
                   \* "started": a stream that connected() has yet to report
  strays,          \* sockets still open that m_socket no longer points to
  requests,        \* its operations in flight
  events,          \* what its event stream has brought and the event loop
                   \* has not handled yet
  providerUrgency, \* its urgency()
  clients,         \* m_clients
  status,          \* m_status
  urgency,         \* m_urgency
  currentCommand,  \* m_currentCommand
  commandQueue,    \* m_commandQueue
  posted,          \* queued invocations of doProcessNextCommand()
  retryTimer,      \* m_retryTimer is active
  network,         \* isNetworkAvailable()
  told,            \* the endpoint each application was told last
  open,            \* Register calls of each token that await their reply
  deliveries,      \* version 2 Message calls that await their reply
  budget           \* what is left of the scenario's limits

storeVars == <<storedProvider, storedConfig, storedTokens, storedClients>>
registry == <<storeVars, clients>>
objectVars == <<provider, account, conn, strays, events, providerUrgency>>
linkVars == <<objectVars, requests>>
queueVars == <<currentCommand, commandQueue, posted, retryTimer>>
appVars == <<told, open, deliveries>>
surroundings == <<alive, network, urgency>>
vars == <<surroundings, registry, linkVars, status, queueVars, appVars, budget>>

-----------------------------------------------------------------------------
(* Helpers *)

Cmd(type) ==
  [type |-> type, client |-> None, reply |-> FALSE, value |-> None]
NoCommand == Cmd("NoCommand")
ClientCmd(type, c) == [Cmd(type) EXCEPT !.client = c]
AckRemote(c, id) == [Cmd("MessageAck") EXCEPT !.client = c, !.value = c.remote]
AckCmd(c, id) == [Cmd("MessageAck") EXCEPT !.client = c, !.value = id]

(* clientTokens() *)
TokensBefore(cs) == {t \in Tokens : clients[t] # None}
TokensOf(cs) == {t \in Tokens : cs[t] # None}
Registered == TokensOf(clients)
NewClient(t) == [token |-> t, remote |-> None, endpoint |-> None]
Queued(type) == \E i \in DOMAIN commandQueue : commandQueue[i].type = type

HasSetup == status # "NoSetup"
OpsOnLink == Profile[provider].ops = "socket"
LinkIs(kind) == Profile[provider].link = kind

(* The k-th smallest element of a set of positions, and the subsequence    *)
(* of q at such a set.                                                     *)
Kth(S, k) == CHOOSE i \in S : Cardinality({j \in S : j <= i}) = k
Pick(q, S) == [k \in 1..Cardinality(S) |-> q[Kth(S, k)]]

(* The clients of S, in some order.                                        *)
Orders(S) == {f \in [1..Cardinality(S) -> S] :
                \A i, j \in DOMAIN f : f[i] = f[j] => i = j}
CommandsForTokens(type, f) ==
  [i \in DOMAIN f |-> ClientCmd(type, NewClient(f[i]))]
CommandsFor(type, f) == [i \in DOMAIN f |-> ClientCmd(type, clients[f[i]])]

Spend(kind) == /\ budget[kind] > 0
               /\ budget' = [budget EXCEPT ![kind] = @ - 1]

(* n calls of processNextCommand(), of which MaxPosted are kept.           *)
Post(n) == posted' = IF posted + n < MaxPosted THEN posted + n ELSE MaxPosted

(* The current command is done: m_currentCommand = {}; processNextCommand() *)
SettleHalfway(q) == commandQueue' = q /\ UNCHANGED currentCommand /\ Post(1)
SettleQuietly(q) ==
  currentCommand' = NoCommand /\ commandQueue' = q /\ UNCHANGED posted
Settle(q) == /\ currentCommand' = NoCommand
             /\ commandQueue' = q
             /\ Post(1)

(* The reply of the current command, if it holds one, is sent.             *)
ReplySent ==
  IF currentCommand.reply
  THEN [open EXCEPT ![currentCommand.client.token] = @ - 1] ELSE open

(* The process ends: what is not in the settings is lost, callers get an   *)
(* error from the bus.                                                     *)
Die ==
  /\ alive' = FALSE
  /\ provider' = None /\ account' = None /\ conn' = "off" /\ strays' = 0 /\ events' = <<>>
  /\ requests' = [s \in Slots |-> None] /\ providerUrgency' = AllUrgencies
  /\ clients' = [t \in Tokens |-> None] /\ status' = "Unknown"
  /\ currentCommand' = NoCommand /\ commandQueue' = <<>> /\ posted' = 0
  /\ retryTimer' = FALSE
  /\ open' = [t \in Tokens |-> 0] /\ deliveries' = {}
  /\ UNCHANGED <<storeVars, told, network, urgency>>

-----------------------------------------------------------------------------
(* setupPushProvider() for the provider id, with its stored configuration. *)

SetupWorks(id, config) == id \in DOMAIN Profile /\ config \in Usable

SetupOnce(id) ==
  /\ provider' = IF id \in DOMAIN Profile THEN id ELSE None
  /\ account' = IF id = provider THEN account ELSE storedConfig[id]
  /\ conn' = "off" /\ strays' = 0 /\ events' = <<>>
  /\ requests' = [s \in Slots |-> None] /\ providerUrgency' = AllUrgencies
SetupPushProvider(id) ==
  /\ provider' = IF id \in DOMAIN Profile THEN id ELSE None
  /\ account' = IF id \in DOMAIN Profile THEN storedConfig[id] ELSE None
  /\ conn' = "off" /\ strays' = 0 /\ events' = <<>>
  /\ requests' = [s \in Slots |-> None] /\ providerUrgency' = AllUrgencies
-----------------------------------------------------------------------------
(* Start and end of the process *)

Init ==
  /\ alive = FALSE
  /\ \E s \in Scenarios :
       /\ storedProvider = IF s.account = None THEN None
                                              ELSE ProviderOf[s.account]
       /\ storedConfig = [id \in ProviderIds |->
                            IF id = storedProvider THEN s.account ELSE None]
       /\ storedTokens = s.clients
       /\ storedClients = [t \in Tokens |->
            IF t \in s.clients
            THEN [token |-> t, remote |-> s.account, endpoint |-> s.account]
            ELSE None]
       /\ told = [t \in Tokens |-> IF t \in s.clients THEN s.account ELSE None]
       /\ budget = s.limits
  /\ provider = None /\ account = None /\ conn = "off" /\ strays = 0 /\ events = <<>>
  /\ requests = [s \in Slots |-> None] /\ providerUrgency = AllUrgencies
  /\ clients = [t \in Tokens |-> None] /\ status = "Unknown"
  /\ urgency = AllUrgencies
  /\ currentCommand = NoCommand /\ commandQueue = <<>> /\ posted = 0
  /\ retryTimer = FALSE /\ network = TRUE
  /\ open = [t \in Tokens |-> 0] /\ deliveries = {}

(* The constructor.  Clients are loaded only if the provider can be set up;*)
(* those whose application is gone are unregistered.                       *)
LoadedClients == [t \in Tokens |-> IF t \in storedTokens THEN storedClients[t]
                                                         ELSE None]
Start(gone) ==
  /\ ~alive /\ alive' = TRUE
  /\ SetupPushProvider(storedProvider)
  /\ IF SetupWorks(storedProvider, storedConfig[storedProvider])
     THEN /\ clients' = LoadedClients
          /\ gone \subseteq {t \in Tokens : LoadedClients[t] # None}
          /\ IF \A t \in Tokens : LoadedClients[t] = None
             THEN status' = "Idle" /\ commandQueue' = <<>>
             ELSE /\ status' = "NoNetwork"
                  /\ \E f \in Orders(gone) :
                       commandQueue' = <<Cmd("Connect")>> \o
                         [i \in DOMAIN f |->
                            ClientCmd("Unregister", LoadedClients[f[i]])]
          /\ Post(1 + Cardinality(gone))
     ELSE /\ gone = {} /\ status' = "NoSetup"
          /\ UNCHANGED <<clients, commandQueue, posted>>
  /\ UNCHANGED <<storeVars, urgency, currentCommand, retryTimer, network,
                 appVars, budget>>

Crash == alive /\ Spend("crash") /\ Die

-----------------------------------------------------------------------------
(* D-Bus calls of applications *)

ConnectOnDemand == IF Registered = {} THEN <<Cmd("Connect")>> ELSE <<>>

RegisterNew(t) ==
  /\ alive /\ clients[t] = None
  /\ Spend("register")
  /\ commandQueue' = commandQueue \o ConnectOnDemand \o
       <<[ClientCmd("Register", NewClient(t)) EXCEPT !.reply = TRUE]>>
  /\ open' = [open EXCEPT ![t] = @ + 1]
  /\ Post(1)
  /\ UNCHANGED <<surroundings, registry, linkVars, status, currentCommand,
                 retryTimer, told, deliveries>>

(* A known client is told its endpoint again, and answered at once.        *)
RegisterKnown(t) ==
  /\ alive /\ clients[t] # None
  /\ Spend("register")
  /\ told' = [told EXCEPT ![t] = clients[t].endpoint]
  /\ UNCHANGED <<surroundings, registry, linkVars, status, queueVars, open,
                 deliveries>>

(* Unregister of a client, and forceUnregisterClient from the settings     *)
(* module: the command holds a copy of the client.                         *)
UnregisterClient(t, type) ==
  /\ alive /\ clients[t] # None
  /\ Spend("unregister")
  /\ commandQueue' = Append(commandQueue, ClientCmd(type, clients[t]))
  /\ Post(1)
  /\ UNCHANGED <<surroundings, registry, linkVars, status, currentCommand,
                 retryTimer, appVars>>

(* Unregister of a token that is not a client yet withdraws its first      *)
(* queued Register, whose caller gets no reply.                            *)
Withdraw(t) ==
  /\ alive /\ clients[t] = None
  /\ Spend("unregister")
  /\ \E i \in DOMAIN commandQueue :
       LET IsRegister(j) == /\ commandQueue[j].type = "Register"
                            /\ commandQueue[j].client.token = t
       IN /\ IsRegister(i)
          /\ \A j \in DOMAIN commandQueue : IsRegister(j) => i <= j
          /\ commandQueue' = Pick(commandQueue, DOMAIN commandQueue \ {i})
  /\ UNCHANGED <<surroundings, registry, linkVars, status, currentCommand,
                 posted, retryTimer, appVars>>

-----------------------------------------------------------------------------
(* setPushProvider from the settings module *)

(* The queue when a working provider is replaced: the pending Register     *)
(* commands move behind the change, f orders the clients.                  *)
RegisterBeforeChange(id, f) ==
  commandQueue \o CommandsFor("SilentUnregister", f)
  \o CommandsFor("Register", f)
  \o <<[Cmd("ChangePushProvider") EXCEPT !.value = id], Cmd("Connect")>>
MoveQueue(id, f) ==
  LET q == commandQueue \o CommandsFor("SilentUnregister", f)
      pending == {i \in DOMAIN q : q[i].type = "Register"}
  IN Pick(q, DOMAIN q \ pending)
     \o (IF status = "Connected" THEN <<Cmd("Disconnect")>> ELSE <<>>)
     \o <<[Cmd("ChangePushProvider") EXCEPT !.value = id]>>
     \o (IF Registered # {} \/ pending # {} THEN <<Cmd("Connect")>> ELSE <<>>)
     \o CommandsFor("Register", f)
     \o Pick(q, pending)

(* The queue when the previous provider could not be set up.               *)
RecoverQueue(id) ==
  <<[Cmd("ChangePushProvider") EXCEPT !.value = id]>>
  \o (IF commandQueue # <<>> THEN <<Cmd("Connect")>> ELSE <<>>)
  \o commandQueue

SetPushProvider(a) ==
  LET id == ProviderOf[a] IN
  /\ alive
  /\ storedConfig[id] # a \/ id # storedProvider
  /\ Spend("change")
  /\ storedConfig' = [storedConfig EXCEPT ![id] = a]
  /\ IF currentCommand.type = "Wait"
     THEN currentCommand' = NoCommand /\ retryTimer' = FALSE
     ELSE UNCHANGED <<currentCommand, retryTimer>>
  /\ IF HasSetup
     THEN \E f \in Orders(Registered) : commandQueue' = MoveQueue(id, f)
     ELSE commandQueue' = RecoverQueue(id)
  /\ Post(1)
  /\ UNCHANGED <<surroundings, storedProvider, storedTokens, storedClients,
                 linkVars, clients, status, appVars>>

-----------------------------------------------------------------------------
(* Network and power *)

(* reachabilityChanged(): the network goes, comes back, or is another one.  *)
NetworkChange ==
  /\ Spend("network")
  /\ network' \in BOOLEAN /\ (network \/ network')
  /\ IF alive
     THEN /\ commandQueue' = commandQueue \o
               (IF network' /\ Registered # {} /\ status # "Connected"
                THEN <<Cmd("Connect")>> ELSE <<>>) \o
               (IF ~network' /\ status = "Connected"
                THEN <<Cmd("Disconnect")>> ELSE <<>>)
          /\ Post(1)
     ELSE UNCHANGED <<commandQueue, posted>>
  /\ UNCHANGED <<alive, registry, linkVars, status, urgency, currentCommand,
                 retryTimer, appVars>>

(* setUrgency(determineUrgency()); it does not call processNextCommand().  *)
SetUrgency(u) ==
  /\ alive /\ u # urgency
  /\ Spend("urgency")
  /\ urgency' = u
  /\ commandQueue' = IF Queued("ChangeUrgency") THEN commandQueue
                     ELSE Append(commandQueue, Cmd("ChangeUrgency"))
  /\ UNCHANGED <<alive, registry, linkVars, status, currentCommand, posted,
                 retryTimer, network, appVars>>

-----------------------------------------------------------------------------
(* doProcessNextCommand() *)

Front == Head(commandQueue)
CanProcess == /\ currentCommand = NoCommand
              /\ commandQueue # <<>>
              /\ network \/ Front.type = "Disconnect"
Processing(types) ==
  alive /\ posted > 0 /\ CanProcess /\ Front.type \in types

(* The front command becomes the current one, until a signal ends it...    *)
Begin == /\ currentCommand' = Front
         /\ commandQueue' = Tail(commandQueue)
         /\ posted' = posted - 1
(* ...or it ends at once, with another processNextCommand().               *)
Finish == /\ commandQueue' = Tail(commandQueue)
          /\ UNCHANGED <<currentCommand, posted>>

(* The provider cannot take the command: there is no provider object, or   *)
(* it uses a socket it does not have.                                      *)
NullPointer(type) ==
  \/ provider = None /\ type \in UnregisterTypes \cup
                          {"Disconnect", "MessageAck", "ChangeUrgency"}
  \/ /\ provider # None /\ conn = "off"
     /\ \/ OpsOnLink /\ type \in UnregisterTypes \cup {"MessageAck"}
        \/ OpsOnLink /\ type = "Register" /\ HasSetup
        \/ LinkIs("socket") /\ type = "Disconnect"

(* The provider takes it, but no signal of its is connected.               *)
Unheard(type) ==
  /\ ~HasSetup /\ provider # None /\ ~NullPointer(type)
  /\ type \in UnregisterTypes \cup {"Disconnect", "MessageAck", "ChangeUrgency"}

(* It starts a request that is answered later.                             *)
StartRequest(op) ==
  \E s \in Slots :
    /\ requests[s] = None
    /\ \A r \in Slots : requests[r] = None => s <= r
    /\ requests' = [requests EXCEPT ![s] =
         [op |-> op, client |-> Front.client, value |-> Front.value]]

ProcessNothing ==
  /\ alive /\ posted > 0 /\ ~CanProcess
  /\ posted' = posted - 1
  /\ UNCHANGED <<surroundings, registry, linkVars, status, currentCommand,
                 commandQueue, retryTimer, appVars, budget>>

ProcessCrash ==
  /\ Processing(CommandTypes) /\ NullPointer(Front.type)
  /\ Die
  /\ UNCHANGED budget

ProcessUnheard ==
  /\ Processing(CommandTypes) /\ Unheard(Front.type)
  /\ Begin
  /\ UNCHANGED <<surroundings, registry, linkVars, status, retryTimer, appVars,
                 budget>>

(* Q_ASSERT(false), which a release build skips.                           *)
ProcessNoCommand ==
  /\ Processing({"NoCommand"})
  /\ Finish
  /\ UNCHANGED <<surroundings, registry, linkVars, status, retryTimer, appVars,
                 budget>>

(* Without a push server the registration is aborted: ActionRequired.      *)
ProcessRegisterNoSetup ==
  /\ Processing({"Register"}) /\ ~HasSetup
  /\ Finish
  /\ open' = IF Front.reply THEN [open EXCEPT ![Front.client.token] = @ - 1]
                            ELSE open
  /\ UNCHANGED <<surroundings, registry, linkVars, status, retryTimer, told,
                 deliveries, budget>>

ProcessRequest ==
  /\ Processing(UnregisterTypes \cup {"Register", "MessageAck"})
  /\ HasSetup /\ ~NullPointer(Front.type)
  /\ ~(OpsOnLink /\ conn = "unopened")
  /\ Front.type = "MessageAck" => ~OpsOnLink
  /\ Begin
  /\ StartRequest(CASE Front.type = "Register" -> "register"
                    [] Front.type = "MessageAck" -> "ack"
                    [] OTHER -> "unregister")
  /\ UNCHANGED <<surroundings, registry, objectVars, status, retryTimer,
                 appVars, budget>>

(* A socket that was never opened drops what is sent.                      *)
ProcessUnsent ==
  /\ Processing(UnregisterTypes \cup {"Register"}) /\ HasSetup
  /\ OpsOnLink /\ conn = "unopened"
  /\ Begin
  /\ UNCHANGED <<surroundings, registry, linkVars, status, retryTimer, appVars,
                 budget>>

(* On a socket the acknowledgement is sent and reported as done at once.   *)
ProcessAckOnLink ==
  /\ Processing({"MessageAck"}) /\ HasSetup /\ ~NullPointer("MessageAck")
  /\ OpsOnLink
  /\ Finish
  /\ UNCHANGED <<surroundings, registry, linkVars, status, retryTimer, appVars,
                 budget>>

ProcessConnectNoSetup ==
  /\ Processing({"Connect"}) /\ ~HasSetup
  /\ Finish
  /\ UNCHANGED <<surroundings, registry, linkVars, status, retryTimer, appVars,
                 budget>>

NothingToOpen == LinkIs("socket") /\ account \in OddUrls

(* connectToProvider(): a streaming request replaces the one before it, a  *)
(* socket that is still open is forgotten.                                 *)
ProcessConnect ==
  /\ Processing({"Connect"}) /\ HasSetup /\ ~NothingToOpen
  /\ Begin
  /\ conn' = "connecting"
  /\ IF LinkIs("sse")
     THEN providerUrgency' = urgency /\ UNCHANGED strays
     ELSE /\ strays' = IF conn = "off" THEN strays ELSE strays + 1
          /\ UNCHANGED providerUrgency
  /\ UNCHANGED <<surroundings, registry, provider, account, events, requests,
                 status, retryTimer, appVars, budget>>

(* Without a URL the new socket stays unopened, and disconnected() comes   *)
(* at once, as a rejection.                                                *)
ProcessConnectRejected ==
  /\ Processing({"Connect"}) /\ HasSetup /\ NothingToOpen
  /\ Finish
  /\ conn' = "unopened" /\ status' = "NoNetwork"
  /\ UNCHANGED <<surroundings, registry, provider, account, strays, events,
                 providerUrgency, requests, retryTimer, appVars, budget>>

(* The status after a disconnect that was asked for. *)
SameStatus == status
IdleStatus == IF Registered = {} THEN "Idle" ELSE "NoNetwork"

(* What was sent over the link is not answered any more. *)
RequestsKept == requests
RequestsLeft == IF OpsOnLink THEN [s \in Slots |-> None] ELSE requests

(* disconnectFromProvider(): a streaming request is aborted and            *)
(* disconnected() emitted at once; a socket closes at once, or later when  *)
(* it has data left to write.                                              *)
ProcessDisconnect ==
  /\ Processing({"Disconnect"}) /\ HasSetup /\ ~NullPointer("Disconnect")
  /\ conn # "unopened"
  /\ \/ /\ LinkIs("socket")
        /\ conn' = "closing" /\ Begin
        /\ UNCHANGED <<status, requests>>
     \/ /\ conn' = "off" /\ Finish
        /\ status' = IdleStatus
        /\ requests' = RequestsLeft
  /\ UNCHANGED <<surroundings, registry, provider, account, strays, events,
                 providerUrgency, retryTimer, appVars, budget>>

(* A socket that was never opened has nothing to report when it is closed. *)
ProcessDisconnectUnopened ==
  /\ Processing({"Disconnect"}) /\ HasSetup /\ conn = "unopened"
  /\ Begin
  /\ conn' = IF Profile[provider].forgets THEN "off" ELSE conn
  /\ UNCHANGED <<surroundings, registry, provider, account, strays, events,
                 providerUrgency, requests, status, retryTimer, appVars, budget>>

ProcessChangePushProvider ==
  LET id == Front.value
      works == SetupWorks(id, storedConfig[id])
  IN
  /\ Processing({"ChangePushProvider"})
  /\ storedProvider' = id
  /\ SetupPushProvider(id)
  /\ status' = IF works THEN "Idle" ELSE "NoSetup"
  /\ commandQueue' = Tail(commandQueue)
  /\ posted' = IF works THEN posted ELSE posted - 1
  /\ UNCHANGED <<surroundings, storedConfig, storedTokens, storedClients,
                 clients, currentCommand, retryTimer, appVars, budget>>

(* changeUrgency(): a streaming request is reissued and answers with       *)
(* "start" later, other providers take the new level at once.              *)
ProcessChangeUrgency ==
  /\ Processing({"ChangeUrgency"}) /\ HasSetup
  /\ providerUrgency' = urgency
  /\ IF providerUrgency # urgency /\ LinkIs("sse")
     THEN conn' = "connecting" /\ Begin
     ELSE UNCHANGED conn /\ Finish
  /\ UNCHANGED <<surroundings, registry, provider, account, strays, events,
                 requests, status, retryTimer, appVars, budget>>

ProcessWait ==
  /\ Processing({"Wait"})
  /\ Begin
  /\ retryTimer' = TRUE
  /\ UNCHANGED <<surroundings, registry, linkVars, status, appVars, budget>>

DoProcessNextCommand ==
  \/ ProcessNothing \/ ProcessCrash \/ ProcessUnheard \/ ProcessNoCommand
  \/ ProcessRegisterNoSetup \/ ProcessRequest \/ ProcessUnsent
  \/ ProcessAckOnLink \/ ProcessConnectNoSetup \/ ProcessConnect
  \/ ProcessConnectRejected \/ ProcessDisconnect
  \/ ProcessDisconnectUnopened
  \/ ProcessChangePushProvider \/ ProcessChangeUrgency \/ ProcessWait

(* retryTimeout() *)
RetryTimeout ==
  /\ alive /\ retryTimer
  /\ retryTimer' = FALSE
  /\ currentCommand' =
       IF currentCommand.type = "Wait" THEN NoCommand ELSE currentCommand
  /\ Post(1)
  /\ UNCHANGED <<surroundings, registry, linkVars, status, commandQueue,
                 appVars, budget>>

-----------------------------------------------------------------------------
(* Answers of the provider: clientRegistered(), clientUnregistered(),      *)
(* providerMessageAcknowledged().  They act on whatever command is current *)
(* when they arrive.                                                       *)

Answering(s, op) ==
  /\ alive /\ HasSetup
  /\ requests[s] # None /\ requests[s].op = op
  /\ requests' = [requests EXCEPT ![s] = None]

(* HTTP requests to a URL of another scheme fail as well.                  *)
FailsWith(err, errors) ==
  /\ err \in errors
  /\ \/ Spend("fail")
     \/ account \in OddUrls /\ UNCHANGED budget

ClientRegistered(s) ==
  LET t == requests[s].client.token
      c == [token |-> t, remote |-> account, endpoint |-> account]
  IN
  /\ Answering(s, "register")
  /\ clients' = [clients EXCEPT ![t] = c]
  /\ storedClients' = [storedClients EXCEPT ![t] = c]
  /\ storedTokens' = TokensOf(clients')
  /\ told' = [told EXCEPT ![t] = account]
  /\ open' = ReplySent
  /\ Settle(commandQueue)
  /\ UNCHANGED <<surroundings, storedProvider, storedConfig, objectVars,
                 status, retryTimer, deliveries, budget>>

(* A transient error repeats the current command after a while, any other  *)
(* is final.                                                               *)
RegisterFailed(s, err) ==
  /\ Answering(s, "register")
  /\ FailsWith(err, Profile[provider].registerErrors)
  /\ IF err = "TransientNetworkError"
     THEN /\ Settle(<<Cmd("Wait"), currentCommand>> \o commandQueue)
          /\ UNCHANGED open
     ELSE Settle(commandQueue) /\ open' = ReplySent
  /\ UNCHANGED <<surroundings, registry, objectVars, status, retryTimer, told,
                 deliveries>>

NeverSilently == FALSE
Silently == currentCommand.type = "SilentUnregister"

(* The client is gone, unless this is a move to another push provider: it  *)
(* is kept then, and only its stored endpoint is cleared.                  *)
RemoveClient(c) ==
  LET t == c.token IN
  IF Silently
  THEN /\ storedClients' =
            [storedClients EXCEPT ![t] = [c EXCEPT !.endpoint = None]]
       /\ Settle(commandQueue)
       /\ UNCHANGED <<clients, storedTokens>>
  ELSE /\ storedClients' = [storedClients EXCEPT ![t] = None]
       /\ clients' = [clients EXCEPT ![t] = None]
       /\ storedTokens' = TokensOf(clients')
       /\ Settle(IF Registered = {t} /\ commandQueue = <<>>
                 THEN <<Cmd("Disconnect")>> ELSE commandQueue)

ClientUnregistered(s) ==
  /\ Answering(s, "unregister")
  /\ RemoveClient(requests[s].client)
  /\ told' = [told EXCEPT ![requests[s].client.token] = None]
  /\ UNCHANGED <<surroundings, storedProvider, storedConfig, objectVars,
                 status, retryTimer, open, deliveries, budget>>

(* A transient error repeats the current command at once, a rejection      *)
(* removes the client without telling it so.                               *)
UnregisterFailed(s, err) ==
  LET t == requests[s].client.token IN
  /\ Answering(s, "unregister")
  /\ FailsWith(err, Profile[provider].unregisterErrors)
  /\ IF err = "TransientNetworkError"
     THEN /\ Settle(<<currentCommand>> \o commandQueue)
          /\ UNCHANGED <<clients, storedTokens, storedClients, told>>
     ELSE /\ RemoveClient(requests[s].client)
          /\ told' = IF Silently THEN [told EXCEPT ![t] = None] ELSE told
  /\ UNCHANGED <<surroundings, storedProvider, storedConfig, objectVars,
                 status, retryTimer, open, deliveries>>

MessageAcknowledged(s) ==
  /\ Answering(s, "ack")
  /\ currentCommand' = IF /\ currentCommand.type = "MessageAck"
                          /\ currentCommand.value = requests[s].value
                       THEN NoCommand ELSE currentCommand
  /\ Post(1)
  /\ UNCHANGED <<surroundings, registry, objectVars, status, commandQueue,
                 retryTimer, appVars, budget>>

-----------------------------------------------------------------------------
(* The link to the push provider *)

(* The stream begins, or brings a message.  The parser queues both, and    *)
(* they are handled although the stream has ended by then.                 *)
StreamStarts ==
  /\ alive /\ HasSetup /\ LinkIs("sse") /\ conn = "connecting"
  /\ conn' = "started"
  /\ events' = Append(events, "start")
  /\ UNCHANGED <<surroundings, registry, provider, account, strays,
                 providerUrgency, requests, status, queueVars, appVars, budget>>

StreamBrings ==
  /\ alive /\ HasSetup /\ LinkIs("sse") /\ conn \in {"started", "on"}
  /\ Spend("message")
  /\ events' = Append(events, "message")
  /\ UNCHANGED <<surroundings, registry, provider, account, conn, strays,
                 providerUrgency, requests, status, queueVars, appVars>>

Brought(kind) == /\ LinkIs("sse")
                 /\ events # <<>> /\ Head(events) = kind
                 /\ events' = Tail(events)

(* connected(): the socket is open and its hello answered; or the event    *)
(* "start" is handled, followed by urgencyChanged().                       *)
Connected ==
  /\ alive /\ HasSetup
  /\ \/ /\ LinkIs("socket") /\ conn = "connecting"
        /\ conn' = "on" /\ UNCHANGED events
     \/ /\ Brought("start")
        /\ conn' = IF /\ conn = "started"
                      /\ \A i \in DOMAIN events' : events'[i] # "start"
                   THEN "on" ELSE conn
  /\ status' = "Connected"
  /\ commandQueue' =
       IF /\ currentCommand.type = "Connect"
          /\ urgency # providerUrgency /\ ~Queued("ChangeUrgency")
       THEN Append(commandQueue, Cmd("ChangeUrgency")) ELSE commandQueue
  /\ currentCommand' =
       IF currentCommand.type \in
            {"Connect"} \cup (IF LinkIs("sse") THEN {"ChangeUrgency"} ELSE {})
       THEN NoCommand ELSE currentCommand
  /\ Post(IF LinkIs("sse") THEN 2 ELSE 1)
  /\ UNCHANGED <<surroundings, registry, provider, account, strays, requests,
                 providerUrgency, retryTimer, appVars, budget>>

(* The server answers the hello with another status than 200.              *)
HelloRefused ==
  /\ alive /\ HasSetup /\ Profile[provider].hello /\ conn = "connecting"
  /\ Spend("fail")
  /\ conn' = "ignored"
  /\ UNCHANGED <<surroundings, registry, provider, account, strays, events,
                 providerUrgency, requests, status, queueVars, appVars>>

(* providerDisconnected() *)
NothingDeferred == <<>>
Deferred == IF currentCommand.type \in {"NoCommand", "Connect"}
            THEN <<>> ELSE <<currentCommand>>
GiveUp(err) == <<>>
Reconnect(err) ==
  IF Registered # {} /\ err = "TransientNetworkError"
  THEN <<Cmd("Wait"), Cmd("Connect")>> ELSE <<>>

ProviderDisconnected(err) ==
  /\ IF currentCommand.type = "Disconnect"
     THEN /\ status' = IdleStatus
          /\ Settle(commandQueue)
     ELSE /\ status' = "NoNetwork"
          /\ Settle(Reconnect(err) \o Deferred \o commandQueue)
  /\ conn' = "off"
  /\ requests' = RequestsLeft
  /\ UNCHANGED <<surroundings, registry, provider, account, events,
                 providerUrgency, retryTimer, appVars>>

(* The link breaks, or cannot be opened. *)
LinkLost(err) ==
  /\ alive /\ HasSetup
  /\ \/ conn = "connecting" /\ err \in Profile[provider].connectErrors
     \/ /\ conn \in {"ignored", "started", "on"}
        /\ err \in Profile[provider].dropErrors
  /\ Spend("drop")
  /\ ProviderDisconnected(err)
  /\ UNCHANGED strays

(* The socket closes later, as asked.  A provider that has already         *)
(* forgotten it dereferences a null pointer in its state handler.          *)
LinkClosed ==
  /\ alive /\ HasSetup /\ conn = "closing"
  /\ ~Profile[provider].forgets
  /\ ProviderDisconnected("TransientNetworkError")
  /\ UNCHANGED <<strays, budget>>

LinkClosedCrash ==
  /\ alive /\ HasSetup /\ conn = "closing"
  /\ Profile[provider].forgets
  /\ Die
  /\ UNCHANGED budget

(* A forgotten socket closes: its handler reports the disconnect, but then *)
(* drops the socket that m_socket points to.                               *)
StrayLost ==
  /\ alive /\ HasSetup /\ strays > 0
  /\ conn # "off" /\ ~(conn = "closing" /\ Profile[provider].forgets)
  /\ Spend("drop")
  /\ ProviderDisconnected("TransientNetworkError")
  /\ strays' = strays - 1

StrayLostCrash ==
  /\ alive /\ HasSetup /\ strays > 0
  /\ conn = "off" \/ (conn = "closing" /\ Profile[provider].forgets)
  /\ Spend("drop")
  /\ Die

-----------------------------------------------------------------------------
(* Push messages *)

(* messageReceived() for a client of this account: a version 1 client      *)
(* counts as having got it, a version 2 client acknowledges in its reply.  *)
MessageReceived(t, id) ==
  /\ alive /\ HasSetup
  /\ \/ /\ LinkIs("socket") /\ (conn = "on" \/ strays > 0)
        /\ Spend("message") /\ UNCHANGED events
     \/ Brought("message") /\ UNCHANGED budget
  /\ Profile[provider].messageIds
  /\ clients[t] # None /\ clients[t].remote = account
  /\ IF t \in V2Tokens
     THEN /\ deliveries' = deliveries \cup {AckCmd(clients[t], id)}
          /\ UNCHANGED <<commandQueue, posted>>
     ELSE /\ commandQueue' = Append(commandQueue, AckCmd(clients[t], id))
          /\ Post(1)
          /\ UNCHANGED deliveries
  /\ UNCHANGED <<surroundings, registry, provider, account, conn, strays,
                 providerUrgency, requests, status, currentCommand, retryTimer,
                 told, open>>

(* There is no client any more that a message of the stream is for.        *)
MessageForNobody ==
  /\ alive /\ HasSetup
  /\ Brought("message")
  /\ UNCHANGED <<surroundings, registry, provider, account, conn, strays,
                 providerUrgency, requests, status, queueVars, appVars, budget>>

(* The reply to a version 2 Message call: it acknowledges, or it does not. *)
MessageReply(d) ==
  /\ alive /\ d \in deliveries
  /\ deliveries' = deliveries \ {d}
  /\ \/ commandQueue' = Append(commandQueue, d) /\ Post(1)
     \/ UNCHANGED <<commandQueue, posted>>
  /\ UNCHANGED <<surroundings, registry, linkVars, status, currentCommand,
                 retryTimer, told, open, budget>>

-----------------------------------------------------------------------------
Answer == \E s \in Slots :
  \/ ClientRegistered(s) \/ ClientUnregistered(s) \/ MessageAcknowledged(s)
  \/ \E err \in Errors : RegisterFailed(s, err) \/ UnregisterFailed(s, err)

Link ==
  \/ StreamStarts \/ StreamBrings \/ MessageForNobody
  \/ Connected \/ HelloRefused \/ LinkClosed \/ LinkClosedCrash
  \/ StrayLost \/ StrayLostCrash
  \/ \E err \in Errors : LinkLost(err)

Calls ==
  \/ \E t \in Tokens :
       \/ RegisterNew(t) \/ RegisterKnown(t) \/ Withdraw(t)
       \/ \E type \in {"Unregister", "ForceUnregister"} :
            UnregisterClient(t, type)
       \/ \E id \in MessageIds : MessageReceived(t, id)
  \/ \E a \in Accounts : SetPushProvider(a)
  \/ \E d \in deliveries : MessageReply(d)

Surroundings ==
  \/ \E gone \in SUBSET Tokens : Start(gone)
  \/ Crash \/ NetworkChange
  \/ \E u \in Urgencies : SetUrgency(u)

Next == DoProcessNextCommand \/ RetryTimeout \/ Answer \/ Link \/ Calls
        \/ Surroundings

Spec == Init /\ [][Next]_vars

-----------------------------------------------------------------------------
(* Every variable has its type. *)
TypeOK ==
  /\ alive \in BOOLEAN
  /\ storedProvider \in ProviderIds \cup {None}
  /\ storedConfig \in [ProviderIds -> Accounts \cup {None}]
  /\ storedTokens \subseteq Tokens
  /\ storedClients \in [Tokens -> Client \cup {None}]
  /\ provider \in DOMAIN Profile \cup {None}
  /\ account \in Accounts \cup {None}
  /\ conn \in {"off", "unopened", "connecting", "ignored", "started", "on",
               "closing"}
  /\ strays \in Nat
  /\ events \in Seq({"start", "message"})
  /\ requests \in [Slots -> Request \cup {None}]
  /\ providerUrgency \in Urgencies
  /\ clients \in [Tokens -> Client \cup {None}]
  /\ status \in Statuses
  /\ urgency \in Urgencies
  /\ currentCommand \in Command
  /\ commandQueue \in Seq(Command)
  /\ posted \in 0..MaxPosted
  /\ retryTimer \in BOOLEAN
  /\ network \in BOOLEAN
  /\ told \in [Tokens -> Accounts \cup {None}]
  /\ open \in [Tokens -> Int]
  /\ deliveries \subseteq Command
  /\ budget \in [Kinds -> Nat]

=============================================================================
