---------------------- MODULE DistributorAnswerProofs ----------------------
(***************************************************************************)
(* Where the operations of the providers are messages on the link (module  *)
(* PushProviders: Autopush), an answer of module Distributor is always the *)
(* answer to the current command.  What follows from that: no Register     *)
(* call is forgotten, success replies are true, and no client is removed   *)
(* unasked.  And with accounts that work, a restart finds the clients.     *)
(***************************************************************************)
EXTENDS DistributorQueueProofs

-----------------------------------------------------------------------------
(* What can be in the queue *)

(* A sequence is one over any set that has its elements. *)
LEMMA SeqOver ==
  ASSUME NEW X, NEW Y, NEW q \in Seq(Y), \A i \in DOMAIN q : q[i] \in X
  PROVE  q \in Seq(X)
<1>1. Len(q) \in Nat /\ q = [i \in 1..Len(q) |-> q[i]]
      /\ \A i \in 1..Len(q) : q[i] \in X
  OBVIOUS
<1>2. QED
  BY <1>1

(* The commands of an order are of its type. *)
LEMMA CommandsForIn ==
  ASSUME TypeOK, NEW f \in Orders(Registered), NEW X,
         NEW type \in UnregisterTypes \cup {"Register"},
         \A c \in Command : c.type = type => c \in X
  PROVE  CommandsFor(type, f) \in Seq(X)
<1>1. CommandsFor(type, f) \in Seq(Command)
  BY CommandsForTyped DEF TypeOK
<1>2. \A i \in DOMAIN CommandsFor(type, f) : CommandsFor(type, f)[i].type = type
  BY DEF CommandsFor, ClientCmd, Cmd
<1> DEFINE q == CommandsFor(type, f)
<1> HIDE DEF q
<1>3. \A i \in DOMAIN q : q[i] \in Command /\ q[i].type = type
  BY <1>1, <1>2 DEF q
<1>4. QED
  BY <1>1, <1>3, SeqOver DEF q

(* A set with all commands but some changes of provider that holds what is *)
(* current and queued goes on to do so, if it has the changes that are     *)
(* asked for.                                                              *)
LEMMA QueueStays ==
  ASSUME TypeOK, AcksDelivered, [Next]_vars, NEW X \in SUBSET Command,
         \A c \in Command : c.type # "ChangePushProvider" => c \in X,
         \A a \in Accounts : SetPushProvider(a) =>
           [Cmd("ChangePushProvider") EXCEPT !.value = ProviderOf[a]] \in X,
         commandQueue \in Seq(X), currentCommand \in X
  PROVE  commandQueue' \in Seq(X) /\ currentCommand' \in X
<1>1. /\ NoCommand \in X /\ Cmd("Wait") \in X /\ Cmd("Connect") \in X
      /\ Cmd("Disconnect") \in X /\ Cmd("ChangeUrgency") \in X
  BY NoCommandTyped, CommandTyped DEF PlainTypes, Cmd
<1>2. ASSUME NEW q \in Seq(X), Settle(q)
      PROVE  commandQueue' \in Seq(X) /\ currentCommand' \in X
  BY <1>1, <1>2 DEF Settle
<1>3. Die => commandQueue' \in Seq(X) /\ currentCommand' \in X
  BY <1>1 DEF Die
<1>4. CASE DoProcessNextCommand
  <2>1. \/ Die
        \/ UNCHANGED <<commandQueue, currentCommand>>
        \/ /\ commandQueue # <<>> /\ commandQueue' = Tail(commandQueue)
           /\ \/ UNCHANGED currentCommand
              \/ currentCommand' = Head(commandQueue)
    BY <1>4
    DEF DoProcessNextCommand, ProcessNothing, ProcessCrash, ProcessUnheard,
        ProcessNoCommand, ProcessRegisterNoSetup, ProcessRequest,
        ProcessUnsent, ProcessAckOnLink, ProcessConnectNoSetup, ProcessConnect,
        ProcessConnectRejected, ProcessDisconnect, ProcessDisconnectUnopened,
        ProcessChangePushProvider, ProcessChangeUrgency, ProcessWait,
        Processing, CanProcess, Begin, Finish, Front
  <2>2. QED
    BY <1>3, <2>1
<1>5. CASE RetryTimeout
  BY <1>1, <1>5 DEF RetryTimeout
<1>6. CASE Answer
  <2>1. PICK s \in Slots :
          \/ ClientRegistered(s) \/ ClientUnregistered(s)
          \/ MessageAcknowledged(s)
          \/ \E err \in Errors : RegisterFailed(s, err) \/ UnregisterFailed(s, err)
    BY <1>6 DEF Answer
  <2>2. /\ <<Cmd("Wait"), currentCommand>> \o commandQueue \in Seq(X)
        /\ <<currentCommand>> \o commandQueue \in Seq(X)
        /\ <<Cmd("Disconnect")>> \in Seq(X)
    BY <1>1
  <2>3. \/ \E q \in Seq(X) : Settle(q)
        \/ UNCHANGED commandQueue /\ currentCommand' \in {NoCommand, currentCommand}
    BY <2>1, <2>2
    DEF ClientRegistered, ClientUnregistered, MessageAcknowledged,
        RegisterFailed, UnregisterFailed, RemoveClient
  <2>4. QED
    BY <1>1, <1>2, <2>3
<1>7. CASE Link
  <2>1. CASE Connected
    <3>1. Append(commandQueue, Cmd("ChangeUrgency")) \in Seq(X)
      BY <1>1
    <3>2. QED
      BY <1>1, <2>1, <3>1 DEF Connected
  <2>2. ASSUME NEW err, ProviderDisconnected(err)
        PROVE  commandQueue' \in Seq(X) /\ currentCommand' \in X
    <3>1. Reconnect(err) \in Seq(X) /\ Deferred \in Seq(X)
      BY <1>1 DEF Reconnect, Deferred
    <3>2. Reconnect(err) \o Deferred \o commandQueue \in Seq(X)
      BY <3>1
    <3>3. \E q \in Seq(X) : Settle(q)
      BY <2>2, <3>2 DEF ProviderDisconnected
    <3>4. QED
      BY <1>2, <3>3
  <2>3. CASE StreamStarts \/ StreamBrings \/ MessageForNobody \/ HelloRefused
    BY <2>3
    DEF StreamStarts, StreamBrings, MessageForNobody, HelloRefused, queueVars
  <2>4. QED
    BY <1>3, <1>7, <2>1, <2>2, <2>3
    DEF Link, LinkClosed, LinkClosedCrash, StrayLost, StrayLostCrash, LinkLost
<1>8. CASE Calls
  <2>1. \A t \in Tokens : clients[t] # None => clients[t] \in Client
    BY DEF TypeOK
  <2>2. ASSUME NEW t \in Tokens, RegisterNew(t)
        PROVE  commandQueue' \in Seq(X) /\ currentCommand' \in X
    <3> DEFINE c == [ClientCmd("Register", NewClient(t)) EXCEPT !.reply = TRUE]
    <3>1. NewClient(t) \in Client
      BY DEF NewClient, Client
    <3>2. c \in Command /\ c.type = "Register"
      BY <3>1, CommandTyped DEF ClientCmd, Cmd
    <3> HIDE DEF c
    <3>3. c \in X /\ ConnectOnDemand \in Seq(X)
      BY <1>1, <3>2 DEF ConnectOnDemand
    <3>4. commandQueue \o ConnectOnDemand \o <<c>> \in Seq(X)
      BY <3>3
    <3>5. QED
      BY <2>2, <3>4 DEF RegisterNew, c
  <2>3. ASSUME NEW t \in Tokens, RegisterKnown(t)
        PROVE  commandQueue' \in Seq(X) /\ currentCommand' \in X
    BY <2>3 DEF RegisterKnown, queueVars
  <2>4. ASSUME NEW t \in Tokens, Withdraw(t)
        PROVE  commandQueue' \in Seq(X) /\ currentCommand' \in X
    <3>1. PICK i \in DOMAIN commandQueue :
            commandQueue' = Pick(commandQueue, DOMAIN commandQueue \ {i})
      BY <2>4 DEF Withdraw
    <3>2. DOMAIN commandQueue \ {i} \in SUBSET DOMAIN commandQueue
      OBVIOUS
    <3>3. Pick(commandQueue, DOMAIN commandQueue \ {i}) \in Seq(X)
      BY <3>2, PickType
    <3>4. QED
      BY <2>4, <3>1, <3>3 DEF Withdraw
  <2>5. ASSUME NEW t \in Tokens, NEW type \in {"Unregister", "ForceUnregister"},
               UnregisterClient(t, type)
        PROVE  commandQueue' \in Seq(X) /\ currentCommand' \in X
    <3>1. /\ ClientCmd(type, clients[t]) \in Command
          /\ ClientCmd(type, clients[t]).type = type
      BY <2>1, <2>5, CommandTyped
      DEF UnregisterClient, UnregisterTypes, ClientCmd, Cmd
    <3>2. Append(commandQueue, ClientCmd(type, clients[t])) \in Seq(X)
      BY <3>1
    <3>3. QED
      BY <2>5, <3>2 DEF UnregisterClient
  <2>6. ASSUME NEW t \in Tokens, NEW id \in MessageIds, MessageReceived(t, id)
        PROVE  commandQueue' \in Seq(X) /\ currentCommand' \in X
    <3>1. /\ AckCmd(clients[t], id) \in Command
          /\ AckCmd(clients[t], id).type = "MessageAck"
      BY <2>1, <2>6, CommandTyped DEF MessageReceived, AckCmd, Cmd
    <3>2. Append(commandQueue, AckCmd(clients[t], id)) \in Seq(X)
      BY <3>1
    <3>3. QED
      BY <2>6, <3>2 DEF MessageReceived
  <2>7. ASSUME NEW d \in deliveries, MessageReply(d)
        PROVE  commandQueue' \in Seq(X) /\ currentCommand' \in X
    <3>1. d \in X
      BY DEF TypeOK, AcksDelivered
    <3>2. QED
      BY <2>7, <3>1 DEF MessageReply
  <2>8. ASSUME NEW a \in Accounts, SetPushProvider(a)
        PROVE  commandQueue' \in Seq(X) /\ currentCommand' \in X
    <3> DEFINE change == [Cmd("ChangePushProvider") EXCEPT
                            !.value = ProviderOf[a]]
    <3>1. change \in X
      BY <2>8
    <3> HIDE DEF change
    <3>2. RecoverQueue(ProviderOf[a]) \in Seq(X)
      BY <1>1, <3>1 DEF RecoverQueue, change
    <3>3. ASSUME NEW f \in Orders(Registered)
          PROVE  MoveQueue(ProviderOf[a], f) \in Seq(X)
      <4> DEFINE silent == CommandsFor("SilentUnregister", f)
                 again == CommandsFor("Register", f)
                 q == commandQueue \o silent
                 pending == {i \in DOMAIN q : q[i].type = "Register"}
      <4>1. silent \in Seq(X) /\ again \in Seq(X)
        BY CommandsForIn DEF UnregisterTypes
      <4>2. q \in Seq(X)
        BY <4>1
      <4> HIDE DEF q, again
      <4>3. /\ Pick(q, DOMAIN q \ pending) \in Seq(X)
            /\ Pick(q, pending) \in Seq(X)
        BY <4>2, PickType
      <4> HIDE DEF pending
      <4>4. MoveQueue(ProviderOf[a], f) =
              Pick(q, DOMAIN q \ pending)
              \o (IF status = "Connected" THEN <<Cmd("Disconnect")>> ELSE <<>>)
              \o <<change>>
              \o (IF Registered # {} \/ pending # {} THEN <<Cmd("Connect")>>
                                                     ELSE <<>>)
              \o again \o Pick(q, pending)
        BY DEF MoveQueue, q, pending, again, change
      <4>5. QED
        BY <1>1, <3>1, <4>1, <4>3, <4>4
    <3>4. commandQueue' \in Seq(X)
      BY <2>8, <3>2, <3>3 DEF SetPushProvider
    <3>5. QED
      BY <1>1, <2>8, <3>4 DEF SetPushProvider
  <2>9. QED
    BY <1>8, <2>2, <2>3, <2>4, <2>5, <2>6, <2>7, <2>8 DEF Calls
<1>9. CASE Surroundings
  <2>1. ASSUME NEW gone \in SUBSET Tokens, Start(gone)
        PROVE  commandQueue' \in Seq(X) /\ currentCommand' \in X
    <3>1. UNCHANGED currentCommand
      BY <2>1 DEF Start
    <3>2. commandQueue' \in Seq(Command)
      BY <1>9, SurroundingsTyped DEF TypeOK
    <3>3. CASE \A i \in DOMAIN commandQueue' :
                 commandQueue'[i].type \in {"Connect", "Unregister"}
      <4>1. \A i \in DOMAIN commandQueue' : commandQueue'[i] \in X
        BY <3>2, <3>3
      <4>2. QED
        BY <3>1, <3>2, <4>1, SeqOver
    <3>4. CASE UNCHANGED commandQueue
      BY <3>1, <3>4
    <3>5. QED
      BY <2>1, <3>3, <3>4, StartQueue
  <2>2. CASE NetworkChange
    <3>1. <<Cmd("Connect")>> \in Seq(X) /\ <<Cmd("Disconnect")>> \in Seq(X)
          /\ <<>> \in Seq(X)
      BY <1>1
    <3>2. UNCHANGED currentCommand
      BY <2>2 DEF NetworkChange
    <3>3. CASE alive
      <4>1. PICK p, q \in {<<>>, <<Cmd("Connect")>>, <<Cmd("Disconnect")>>} :
              commandQueue' = commandQueue \o p \o q
        BY <2>2, <3>3, Zenon DEF NetworkChange
      <4>2. p \in Seq(X) /\ q \in Seq(X)
        BY <3>1, Zenon
      <4>3. QED
        BY <3>2, <4>1, <4>2
    <3>4. CASE ~alive
      BY <2>2, <3>2, <3>4 DEF NetworkChange
    <3>5. QED
      BY <3>3, <3>4
  <2>3. CASE \E u \in Urgencies : SetUrgency(u)
    <3>1. Append(commandQueue, Cmd("ChangeUrgency")) \in Seq(X)
      BY <1>1
    <3>2. QED
      BY <2>3, <3>1 DEF SetUrgency
  <2>4. QED
    BY <1>3, <1>9, <2>1, <2>2, <2>3 DEF Surroundings, Crash
<1>10. CASE UNCHANGED vars
  BY <1>10 DEF vars, queueVars
<1>11. QED
  BY <1>4, <1>5, <1>6, <1>7, <1>8, <1>9, <1>10 DEF Next

-----------------------------------------------------------------------------
(* Which providers run *)

(* The providers a user has an account with. *)
Entered == {ProviderOf[a] : a \in Accounts}

EnteredChanges ==
  {c \in Command : c.type = "ChangePushProvider" => c.value \in Entered}

(* Only providers the user has entered are stored, run or queued, and one  *)
(* that has been set up is there.                                          *)
ProvidersEntered ==
  /\ storedProvider \in Entered \cup {None}
  /\ provider \in Entered \cup {None}
  /\ alive /\ HasSetup => provider # None
  /\ commandQueue \in Seq(EnteredChanges) /\ currentCommand \in EnteredChanges

(* Apart from the start and the end of the process and a change of         *)
(* provider no step touches the provider, and none sets it up.             *)
LEMMA ProviderSteps ==
  ASSUME [Next]_vars
  PROVE  \/ Die
         \/ ProcessChangePushProvider
         \/ \E gone \in SUBSET Tokens : Start(gone)
         \/ /\ UNCHANGED <<alive, provider, storedProvider>>
            /\ HasSetup' => HasSetup
<1> USE DEF surroundings, registry, storeVars, linkVars, objectVars, HasSetup
<1>1. CASE DoProcessNextCommand
  BY <1>1
  DEF DoProcessNextCommand, ProcessNothing, ProcessCrash, ProcessUnheard,
      ProcessNoCommand, ProcessRegisterNoSetup, ProcessRequest, ProcessUnsent,
      ProcessAckOnLink, ProcessConnectNoSetup, ProcessConnect,
      ProcessConnectRejected, ProcessDisconnect, ProcessDisconnectUnopened,
      ProcessChangeUrgency, ProcessWait
<1>2. CASE RetryTimeout \/ UNCHANGED vars
  BY <1>2 DEF RetryTimeout, vars
<1>3. CASE Answer
  BY <1>3
  DEF Answer, ClientRegistered, ClientUnregistered, MessageAcknowledged,
      RegisterFailed, UnregisterFailed
<1>4. CASE Link
  BY <1>4
  DEF Link, StreamStarts, StreamBrings, MessageForNobody, HelloRefused,
      Connected, LinkClosed, LinkClosedCrash, StrayLost, StrayLostCrash,
      LinkLost, ProviderDisconnected
<1>5. CASE Calls
  BY <1>5
  DEF Calls, RegisterNew, RegisterKnown, Withdraw, UnregisterClient,
      MessageReceived, SetPushProvider, MessageReply
<1>6. CASE Surroundings
  BY <1>6 DEF Surroundings, Crash, NetworkChange, SetUrgency
<1>7. QED
  BY <1>1, <1>2, <1>3, <1>4, <1>5, <1>6 DEF Next

LEMMA OnlyEnteredProviders == Spec => []ProvidersEntered
<1>1. Init => ProvidersEntered
  <2> SUFFICES ASSUME Init PROVE ProvidersEntered
    OBVIOUS
  <2>1. PICK s \in Scenarios :
          storedProvider = IF s.account = None THEN None
                                               ELSE ProviderOf[s.account]
    BY DEF Init
  <2>2. s.account \in Accounts \cup {None}
    BY DistributorAssumption
  <2>3. storedProvider \in Entered \cup {None}
    BY <2>1, <2>2 DEF Entered
  <2>4. currentCommand \in EnteredChanges /\ commandQueue \in Seq(EnteredChanges)
    BY NoCommandTyped DEF Init, EnteredChanges
  <2>5. QED
    BY <2>3, <2>4 DEF Init, ProvidersEntered
<1>2. TypeOK /\ AcksDelivered /\ ProvidersEntered /\ [Next]_vars
        => ProvidersEntered'
  <2> SUFFICES ASSUME TypeOK, AcksDelivered, ProvidersEntered, [Next]_vars
               PROVE  ProvidersEntered'
    OBVIOUS
  <2>1. commandQueue' \in Seq(EnteredChanges) /\ currentCommand' \in EnteredChanges
    <3>1. /\ EnteredChanges \in SUBSET Command
          /\ \A c \in Command :
               c.type # "ChangePushProvider" => c \in EnteredChanges
      BY DEF EnteredChanges
    <3>2. \A a \in Accounts :
            [Cmd("ChangePushProvider") EXCEPT !.value = ProviderOf[a]]
              \in EnteredChanges
      <4> SUFFICES ASSUME NEW a \in Accounts
                   PROVE  [Cmd("ChangePushProvider") EXCEPT
                             !.value = ProviderOf[a]] \in EnteredChanges
        OBVIOUS
      <4>1. ProviderOf[a] \in ProviderIds /\ ProviderOf[a] \in Entered
        BY DistributorAssumption DEF Entered
      <4>2. QED
        BY <4>1, CommandTyped DEF EnteredChanges, Cmd
    <3>3. QED
      BY <3>1, <3>2, QueueStays DEF ProvidersEntered
  <2>2. CASE Die
    BY <2>1, <2>2 DEF Die, storeVars, ProvidersEntered
  <2>3. CASE ProcessChangePushProvider
    <3>1. Front \in EnteredChanges /\ Front.type = "ChangePushProvider"
      BY <2>3
      DEF ProcessChangePushProvider, Processing, CanProcess, Front,
          ProvidersEntered
    <3>2. Front.value \in Entered
      BY <3>1 DEF EnteredChanges
    <3>3. /\ storedProvider' = Front.value
          /\ provider' = IF Front.value \in DOMAIN Profile THEN Front.value
                                                           ELSE None
          /\ HasSetup' => Front.value \in DOMAIN Profile
      BY <2>3
      DEF ProcessChangePushProvider, SetupPushProvider, SetupWorks, HasSetup
    <3>4. Front.value # None
      BY <3>2, DistributorAssumption DEF Entered
    <3>5. QED
      BY <2>1, <3>2, <3>3, <3>4 DEF ProvidersEntered
  <2>4. CASE \E gone \in SUBSET Tokens : Start(gone)
    <3>1. /\ UNCHANGED storedProvider
          /\ provider' = IF storedProvider \in DOMAIN Profile
                         THEN storedProvider ELSE None
          /\ HasSetup' => storedProvider \in DOMAIN Profile
      BY <2>4 DEF Start, SetupPushProvider, SetupWorks, HasSetup, storeVars
    <3>2. None \notin DOMAIN Profile
      BY DistributorAssumption
    <3>3. QED
      BY <2>1, <3>1, <3>2 DEF ProvidersEntered
  <2>5. CASE UNCHANGED <<alive, provider, storedProvider>> /\ (HasSetup' => HasSetup)
    BY <2>1, <2>5 DEF ProvidersEntered
  <2>6. QED
    BY <2>2, <2>3, <2>4, <2>5, ProviderSteps
<1>3. QED
  BY <1>1, <1>2, TypeCorrect, AcksAreDelivered, PTL DEF Spec

-----------------------------------------------------------------------------
(* On a socket an answer is the answer to the current command *)

(* Every provider the user has an account with takes its operations over   *)
(* the link.                                                               *)
OpsOnSockets ==
  \A a \in Accounts : ProviderOf[a] \in DOMAIN Profile =>
    Profile[ProviderOf[a]].ops = "socket"

NoRequests == \A s \in Slots : requests[s] = None

(* There is one request at a time, that of the current command. *)
AnswersCurrent ==
  \A s \in Slots : requests[s] # None =>
    /\ requests[s].client = currentCommand.client
    /\ \/ requests[s].op = "register" /\ currentCommand.type = "Register"
       \/ /\ requests[s].op = "unregister"
          /\ currentCommand.type \in UnregisterTypes
    /\ \A r \in Slots : requests[r] # None => r = s

(* Commands of other types have no request. *)
LEMMA OthersRequestNothing ==
  ASSUME AnswersCurrent,
         currentCommand.type \notin UnregisterTypes \cup {"Register"}
  PROVE  NoRequests
BY DEF AnswersCurrent, NoRequests

(* The provider of a daemon that has been set up. *)
LEMMA SetUpOnLink ==
  ASSUME OpsOnSockets, TypeOK, ProvidersEntered, alive, HasSetup
  PROVE  OpsOnLink
<1>1. provider \in Entered /\ provider \in DOMAIN Profile
  BY DEF ProvidersEntered, TypeOK
<1>2. QED
  BY <1>1 DEF OpsOnSockets, Entered, OpsOnLink

(* A command has its request sent when it becomes the current one. *)
LEMMA ProcessAnswersCurrent ==
  ASSUME OpsOnSockets, TypeOK, ProvidersEntered, AnswersCurrent,
         DoProcessNextCommand
  PROVE  AnswersCurrent'
<1> USE DEF linkVars, objectVars
<1>1. CASE ProcessNothing
  BY <1>1 DEF ProcessNothing, AnswersCurrent
<1>2. ASSUME CanProcess PROVE NoRequests
  BY <1>2, OthersRequestNothing, NoCommandTyped DEF CanProcess, UnregisterTypes
<1>3. NoRequests' => AnswersCurrent'
  BY DEF NoRequests, AnswersCurrent
<1>4. CASE ProcessRequest
  <2>1. NoRequests /\ OpsOnLink
    BY <1>2, <1>4, SetUpOnLink DEF ProcessRequest, Processing
  <2>2. /\ Front.type \in UnregisterTypes \cup {"Register"}
        /\ currentCommand' = Front
        /\ StartRequest(IF Front.type = "Register" THEN "register"
                                                   ELSE "unregister")
    BY <1>4, <2>1 DEF ProcessRequest, Processing, Begin, UnregisterTypes
  <2>3. PICK s \in Slots :
          requests' = [requests EXCEPT ![s] =
            [op |-> IF Front.type = "Register" THEN "register"
                                               ELSE "unregister",
             client |-> Front.client, value |-> Front.value]]
    BY <2>2 DEF StartRequest
  <2>4. \A r \in Slots : requests'[r] # None => r = s
    BY <2>1, <2>3 DEF NoRequests, TypeOK
  <2>5. /\ requests'[s].client = Front.client
        /\ requests'[s].op = IF Front.type = "Register" THEN "register"
                                                        ELSE "unregister"
    BY <2>3 DEF TypeOK
  <2>6. QED
    BY <2>2, <2>4, <2>5 DEF AnswersCurrent, UnregisterTypes
<1>5. CASE \/ ProcessUnheard \/ ProcessNoCommand \/ ProcessRegisterNoSetup
           \/ ProcessUnsent \/ ProcessAckOnLink \/ ProcessConnectNoSetup
           \/ ProcessConnect \/ ProcessConnectRejected
           \/ ProcessDisconnectUnopened \/ ProcessChangeUrgency \/ ProcessWait
  <2>1. CanProcess /\ UNCHANGED requests
    BY <1>5
    DEF ProcessUnheard, ProcessNoCommand, ProcessRegisterNoSetup, ProcessUnsent,
        ProcessAckOnLink, ProcessConnectNoSetup, ProcessConnect,
        ProcessConnectRejected, ProcessDisconnectUnopened,
        ProcessChangeUrgency, ProcessWait, Processing
  <2>2. QED
    BY <1>2, <1>3, <2>1 DEF NoRequests
<1>6. CASE ProcessDisconnect
  <2>1. CanProcess /\ (requests' = requests \/ requests' = RequestsLeft)
    BY <1>6 DEF ProcessDisconnect, Processing
  <2>2. QED
    BY <1>2, <1>3, <2>1 DEF RequestsLeft, NoRequests
<1>7. CASE ProcessChangePushProvider \/ ProcessCrash
  BY <1>3, <1>7
  DEF ProcessChangePushProvider, SetupPushProvider, ProcessCrash, Die,
      NoRequests
<1>8. QED
  BY <1>1, <1>4, <1>5, <1>6, <1>7 DEF DoProcessNextCommand

(* The answer was the only one to come. *)
LEMMA AnswerAnswersCurrent ==
  ASSUME TypeOK, AnswersCurrent, NEW s \in Slots, NEW op, Answering(s, op)
  PROVE  NoRequests'
BY DEF Answering, AnswersCurrent, NoRequests, TypeOK

(* Requests go with the link they were sent on. *)
LEMMA LinkAnswersCurrent ==
  ASSUME OpsOnSockets, TypeOK, ProvidersEntered, AnswersCurrent, Link
  PROVE  AnswersCurrent'
<1>1. NoRequests' => AnswersCurrent'
  BY DEF NoRequests, AnswersCurrent
<1>2. CASE Connected
  <2>1. /\ UNCHANGED requests
        /\ \/ UNCHANGED currentCommand
           \/ currentCommand.type \in {"Connect", "ChangeUrgency"}
    BY <1>2 DEF Connected
  <2>2. CASE UNCHANGED currentCommand
    BY <2>1, <2>2 DEF AnswersCurrent
  <2>3. CASE currentCommand.type \in {"Connect", "ChangeUrgency"}
    <3>1. NoRequests
      BY <2>3, OthersRequestNothing DEF UnregisterTypes
    <3>2. QED
      BY <1>1, <2>1, <3>1 DEF NoRequests
  <2>4. QED
    BY <2>1, <2>2, <2>3
<1>3. CASE LinkClosed \/ StrayLost \/ \E err \in Errors : LinkLost(err)
  <2>1. OpsOnLink /\ requests' = RequestsLeft
    BY <1>3, SetUpOnLink
    DEF LinkClosed, StrayLost, LinkLost, ProviderDisconnected
  <2>2. QED
    BY <1>1, <2>1 DEF RequestsLeft, NoRequests
<1>4. CASE LinkClosedCrash \/ StrayLostCrash
  BY <1>1, <1>4 DEF LinkClosedCrash, StrayLostCrash, Die, NoRequests
<1>5. CASE StreamStarts \/ StreamBrings \/ MessageForNobody \/ HelloRefused
  BY <1>5
  DEF StreamStarts, StreamBrings, MessageForNobody, HelloRefused, queueVars,
      AnswersCurrent
<1>6. QED
  BY <1>2, <1>3, <1>4, <1>5 DEF Link

(* Every answer of a provider on a socket is the answer to the current     *)
(* command: no command is repeated while its request is in flight, and     *)
(* none outlives its link.                                                 *)
LEMMA AnswersAreCurrent == ASSUME OpsOnSockets PROVE Spec => []AnswersCurrent
<1>1. Init => AnswersCurrent
  BY DEF Init, AnswersCurrent
<1>2. TypeOK /\ ProvidersEntered /\ AnswersCurrent /\ [Next]_vars
        => AnswersCurrent'
  <2> SUFFICES ASSUME TypeOK, ProvidersEntered, AnswersCurrent, [Next]_vars
               PROVE  AnswersCurrent'
    OBVIOUS
  <2>0. NoRequests' => AnswersCurrent'
    BY DEF NoRequests, AnswersCurrent
  <2>1. CASE Answer
    <3>1. \E s \in Slots, op \in {"register", "unregister", "ack"} :
            Answering(s, op)
      BY <2>1
      DEF Answer, ClientRegistered, ClientUnregistered, MessageAcknowledged,
          RegisterFailed, UnregisterFailed
    <3>2. QED
      BY <2>0, <3>1, AnswerAnswersCurrent
  <2>2. ASSUME UNCHANGED requests,
               UNCHANGED currentCommand \/ currentCommand.type = "Wait"
        PROVE  AnswersCurrent'
    <3>1. CASE UNCHANGED currentCommand
      BY <2>2, <3>1 DEF AnswersCurrent
    <3>2. CASE currentCommand.type = "Wait"
      <4>1. NoRequests
        BY <3>2, OthersRequestNothing DEF UnregisterTypes
      <4>2. QED
        BY <2>0, <2>2, <4>1 DEF NoRequests
    <3>3. QED
      BY <2>2, <3>1, <3>2
  <2>3. CASE RetryTimeout
    BY <2>2, <2>3 DEF RetryTimeout, linkVars
  <2>4. CASE Calls
    <3>1. /\ UNCHANGED requests
          /\ UNCHANGED currentCommand \/ currentCommand.type = "Wait"
      BY <2>4
      DEF Calls, RegisterNew, RegisterKnown, Withdraw, UnregisterClient,
          MessageReceived, SetPushProvider, MessageReply, linkVars, queueVars
    <3>2. QED
      BY <2>2, <3>1
  <2>5. CASE Surroundings
    <3>1. CASE Crash \/ \E gone \in SUBSET Tokens : Start(gone)
      BY <2>0, <3>1 DEF Crash, Die, Start, SetupPushProvider, NoRequests
    <3>2. CASE NetworkChange \/ \E u \in Urgencies : SetUrgency(u)
      BY <2>2, <3>2 DEF NetworkChange, SetUrgency, linkVars
    <3>3. QED
      BY <2>5, <3>1, <3>2 DEF Surroundings
  <2>6. CASE UNCHANGED vars
    BY <2>2, <2>6 DEF vars, linkVars, queueVars
  <2>7. QED
    BY <2>1, <2>3, <2>4, <2>5, <2>6, ProcessAnswersCurrent, LinkAnswersCurrent
    DEF Next
<1>3. QED
  BY <1>1, <1>2, TypeCorrect, OnlyEnteredProviders, PTL DEF Spec

-----------------------------------------------------------------------------
(* What follows for the callers and the clients *)

(* A process that has ended has no commands. *)
NothingLeft == ~alive => commandQueue = <<>> /\ currentCommand = NoCommand

LEMMA NothingIsLeft == Spec => []NothingLeft
<1>1. Init => NothingLeft
  BY DEF Init, NothingLeft
<1>2. NothingLeft /\ [Next]_vars => NothingLeft'
  <2> SUFFICES ASSUME NothingLeft, [Next]_vars PROVE NothingLeft'
    OBVIOUS
  <2> USE DEF NothingLeft, surroundings
  <2>1. Die => NothingLeft'
    BY DEF Die
  <2>2. CASE DoProcessNextCommand
    <3>1. alive /\ (Die \/ UNCHANGED alive)
      BY <2>2
      DEF DoProcessNextCommand, ProcessNothing, ProcessCrash, ProcessUnheard,
          ProcessNoCommand, ProcessRegisterNoSetup, ProcessRequest,
          ProcessUnsent, ProcessAckOnLink, ProcessConnectNoSetup,
          ProcessConnect, ProcessConnectRejected, ProcessDisconnect,
          ProcessDisconnectUnopened, ProcessChangePushProvider,
          ProcessChangeUrgency, ProcessWait, Processing
    <3>2. QED
      BY <2>1, <3>1
  <2>3. CASE RetryTimeout \/ UNCHANGED vars
    BY <2>3 DEF RetryTimeout, vars, queueVars
  <2>4. CASE Answer
    BY <2>4
    DEF Answer, ClientRegistered, ClientUnregistered, MessageAcknowledged,
        RegisterFailed, UnregisterFailed, Answering
  <2>5. CASE Link
    BY <2>1, <2>5
    DEF Link, StreamStarts, StreamBrings, MessageForNobody, HelloRefused,
        Connected, LinkClosed, LinkClosedCrash, StrayLost, StrayLostCrash,
        LinkLost, ProviderDisconnected
  <2>6. CASE Calls
    <3>1. alive /\ UNCHANGED alive
      BY <2>6
      DEF Calls, RegisterNew, RegisterKnown, Withdraw, UnregisterClient,
          MessageReceived, SetPushProvider, MessageReply
    <3>2. QED
      BY <3>1
  <2>7. CASE Surroundings
    BY <2>1, <2>7 DEF Surroundings, Start, Crash, NetworkChange, SetUrgency
  <2>8. QED
    BY <2>2, <2>3, <2>4, <2>5, <2>6, <2>7 DEF Next
<1>3. QED
  BY <1>1, <1>2, PTL DEF Spec

(* Without a queue and a command no reply is held. *)
LEMMA NothingLeftHeld ==
  ASSUME NothingLeft, ~alive, NEW t
  PROVE  Held(t) = 0
<1>1. HeldIn(commandQueue, t) = 0
  BY NoneHeld DEF NothingLeft
<1>2. One(currentCommand, t) = 0
  BY NoCommandHolds DEF NothingLeft
<1>3. QED
  BY <1>1, <1>2, HeldSplit

(* No Register call is forgotten by a daemon whose operations go over the  *)
(* link: its reply is let go only when it is sent or when the application  *)
(* withdraws the registration.  A late answer to an unregistration, which  *)
(* would end a Register command unanswered, does not come there.           *)
THEOREM NoCallForgotten == ASSUME OpsOnSockets PROVE Spec => RepliesKept
<1>1. TypeOK /\ AcksDelivered /\ NothingLeft /\ AnswersCurrent /\ TypeOK'
        /\ [Next]_vars
        => [alive' => \A t \in Tokens :
              Held(t)' < Held(t) => open'[t] < open[t] \/ Withdraw(t)]_vars
  <2> SUFFICES ASSUME TypeOK, AcksDelivered, NothingLeft, AnswersCurrent,
                      TypeOK', [Next]_vars, alive', NEW t \in Tokens,
                      Held(t)' < Held(t)
               PROVE  open'[t] < open[t] \/ Withdraw(t)
    OBVIOUS
  <2>1. /\ Held(t) \in Nat /\ Held(t)' \in Nat
        /\ open[t] \in Int /\ open'[t] \in Int
    BY HeldType, HeldTypeNext DEF TypeOK
  <2>2. CASE Balanced(t)
    BY <2>1, <2>2 DEF Balanced
  <2>3. CASE Die
    BY <2>3 DEF Die
  <2>4. CASE ~alive
    BY <2>1, <2>4, NothingLeftHeld
  <2>5. CASE Holds(currentCommand, t) /\ \E s \in Slots : Answering(s, "unregister")
    <3>1. currentCommand.type \in UnregisterTypes
      BY <2>5 DEF Answering, AnswersCurrent
    <3>2. QED
      BY <2>5, <3>1, OnlyRegisterHolds DEF UnregisterTypes, TypeOK
  <2>6. QED
    BY <2>2, <2>3, <2>4, <2>5, NextHeld
<1>2. QED
  BY <1>1, TypeCorrect, AcksAreDelivered, NothingIsLeft, AnswersAreCurrent, PTL
  DEF Spec, RepliesKept

(* A success reply is true there: who gets one is a client then, and has   *)
(* been told the endpoint of its own registration.                         *)
THEOREM SuccessIsTrue == ASSUME OpsOnSockets PROVE Spec => SuccessMeansRegistered
<1>1. TypeOK /\ AnswersCurrent /\ [Next]_vars
        => [\A s \in Slots, t \in Tokens :
              ClientRegistered(s) /\ open'[t] < open[t] =>
                clients'[t] # None /\ told'[t] = account]_vars
  <2> SUFFICES ASSUME TypeOK, AnswersCurrent, NEW s \in Slots, NEW t \in Tokens,
                      ClientRegistered(s), open'[t] < open[t]
               PROVE  clients'[t] # None /\ told'[t] = account
    OBVIOUS
  <2>1. /\ requests[s] # None /\ requests[s].client = currentCommand.client
        /\ requests[s] \in Request
    BY DEF ClientRegistered, Answering, AnswersCurrent, TypeOK
  <2>2. currentCommand.client.token = t
    BY DEF ClientRegistered, ReplySent, TypeOK
  <2> DEFINE c == [token |-> t, remote |-> account, endpoint |-> account]
  <2>3. /\ clients' = [clients EXCEPT ![t] = c]
        /\ told' = [told EXCEPT ![t] = account]
    BY <2>1, <2>2 DEF ClientRegistered
  <2>4. c # None
    <3>1. c \in Client
      BY DEF Client, TypeOK
    <3>2. QED
      BY <3>1, DistributorAssumption
  <2> HIDE DEF c
  <2>5. QED
    BY <2>3, <2>4 DEF TypeOK
<1>2. QED
  BY <1>1, TypeCorrect, AnswersAreCurrent, PTL DEF Spec, SuccessMeansRegistered

(* And no client is removed unasked: who loses its registration has an     *)
(* unregistration of its own, or of the user, that is current; neither a   *)
(* change of provider nor an answer that comes late removes it.            *)
THEOREM OnlyRemovedOnRequest == ASSUME OpsOnSockets PROVE Spec => RemovedOnRequest
<1>1. TypeOK /\ AnswersCurrent /\ [Next]_vars
        => [\A t \in Tokens :
              alive /\ alive' /\ clients[t] # None /\ clients'[t] = None =>
                \/ Unregistering(currentCommand, t)
                \/ \E i \in DOMAIN commandQueue :
                     Unregistering(commandQueue[i], t)]_vars
  <2> SUFFICES ASSUME TypeOK, AnswersCurrent, [Next]_vars, NEW t \in Tokens,
                      alive, alive', clients[t] # None, clients'[t] = None
               PROVE  Unregistering(currentCommand, t)
    OBVIOUS
  <2> USE DEF registry
  <2>1. CASE DoProcessNextCommand
    BY <2>1
    DEF DoProcessNextCommand, ProcessNothing, ProcessCrash, ProcessUnheard,
        ProcessNoCommand, ProcessRegisterNoSetup, ProcessRequest,
        ProcessUnsent, ProcessAckOnLink, ProcessConnectNoSetup, ProcessConnect,
        ProcessConnectRejected, ProcessDisconnect, ProcessDisconnectUnopened,
        ProcessChangePushProvider, ProcessChangeUrgency, ProcessWait, Die
  <2>2. CASE RetryTimeout \/ UNCHANGED vars
    BY <2>2 DEF RetryTimeout, vars
  <2>3. CASE Answer
    <3>1. PICK s \in Slots :
            \/ ClientRegistered(s) \/ ClientUnregistered(s)
            \/ MessageAcknowledged(s)
            \/ \E err \in Errors :
                 RegisterFailed(s, err) \/ UnregisterFailed(s, err)
      BY <2>3 DEF Answer
    <3>2. CASE ClientRegistered(s)
      <4> DEFINE u == requests[s].client.token
                 c == [token |-> u, remote |-> account, endpoint |-> account]
      <4>1. clients' = [clients EXCEPT ![u] = c] /\ requests[s] \in Request
        BY <3>2 DEF ClientRegistered, Answering, TypeOK
      <4>2. c \in Client
        BY <4>1 DEF Request, Client, TypeOK
      <4>3. c # None
        BY <4>2, DistributorAssumption
      <4> HIDE DEF c
      <4>4. QED
        BY <4>1, <4>3 DEF TypeOK
    <3>3. CASE MessageAcknowledged(s) \/ \E err \in Errors : RegisterFailed(s, err)
      BY <3>3 DEF MessageAcknowledged, RegisterFailed
    <3>4. CASE \/ ClientUnregistered(s)
               \/ \E err \in Errors : UnregisterFailed(s, err)
      <4>1. /\ requests[s].client = currentCommand.client
            /\ currentCommand.type \in UnregisterTypes
        BY <3>4
        DEF ClientUnregistered, UnregisterFailed, Answering, AnswersCurrent
      <4>2. RemoveClient(requests[s].client)
        BY <3>4 DEF ClientUnregistered, UnregisterFailed
      <4>3. ~Silently /\ requests[s].client.token = t
        BY <4>2 DEF RemoveClient, TypeOK
      <4>4. QED
        BY <4>1, <4>3 DEF Silently, Unregistering, UnregisterTypes
    <3>5. QED
      BY <3>1, <3>2, <3>3, <3>4
  <2>4. CASE Link
    BY <2>4
    DEF Link, StreamStarts, StreamBrings, MessageForNobody, HelloRefused,
        Connected, LinkClosed, LinkClosedCrash, StrayLost, StrayLostCrash,
        LinkLost, ProviderDisconnected, Die
  <2>5. CASE Calls
    BY <2>5
    DEF Calls, RegisterNew, RegisterKnown, Withdraw, UnregisterClient,
        MessageReceived, SetPushProvider, MessageReply
  <2>6. CASE Surroundings
    BY <2>6 DEF Surroundings, Start, Crash, Die, NetworkChange, SetUrgency
  <2>7. QED
    BY <2>1, <2>2, <2>3, <2>4, <2>5, <2>6 DEF Next
<1>2. QED
  BY <1>1, TypeCorrect, AnswersAreCurrent, PTL DEF Spec, RemovedOnRequest

-----------------------------------------------------------------------------
(* What a restart finds *)

(* The changes of provider to one that has a configuration. *)
KnownChanges(config) ==
  {c \in EnteredChanges :
     c.type = "ChangePushProvider" => config[c.value] # None}

(* The chosen provider and those to change to have a configuration. *)
ConfigsKnown ==
  /\ storedProvider # None => storedConfig[storedProvider] # None
  /\ commandQueue \in Seq(KnownChanges(storedConfig))
  /\ currentCommand \in KnownChanges(storedConfig)

(* A configuration is replaced, but not removed. *)
LEMMA ConfigsStay ==
  ASSUME TypeOK, [Next]_vars, NEW id \in ProviderIds, storedConfig[id] # None
  PROVE  storedConfig'[id] # None
<1> USE DEF registry, storeVars
<1>1. CASE DoProcessNextCommand
  BY <1>1
  DEF DoProcessNextCommand, ProcessNothing, ProcessCrash, ProcessUnheard,
      ProcessNoCommand, ProcessRegisterNoSetup, ProcessRequest, ProcessUnsent,
      ProcessAckOnLink, ProcessConnectNoSetup, ProcessConnect,
      ProcessConnectRejected, ProcessDisconnect, ProcessDisconnectUnopened,
      ProcessChangePushProvider, ProcessChangeUrgency, ProcessWait, Die
<1>2. CASE RetryTimeout \/ UNCHANGED vars
  BY <1>2 DEF RetryTimeout, vars
<1>3. CASE Answer
  BY <1>3
  DEF Answer, ClientRegistered, ClientUnregistered, MessageAcknowledged,
      RegisterFailed, UnregisterFailed
<1>4. CASE Link
  BY <1>4
  DEF Link, StreamStarts, StreamBrings, MessageForNobody, HelloRefused,
      Connected, LinkClosed, LinkClosedCrash, StrayLost, StrayLostCrash,
      LinkLost, ProviderDisconnected, Die
<1>5. CASE Calls
  <2>1. CASE \E a \in Accounts : SetPushProvider(a)
    <3>1. PICK a \in Accounts :
            storedConfig' = [storedConfig EXCEPT ![ProviderOf[a]] = a]
      BY <2>1 DEF SetPushProvider
    <3>2. a # None
      BY DistributorAssumption
    <3>3. QED
      BY <3>1, <3>2 DEF TypeOK
  <2>2. CASE ~\E a \in Accounts : SetPushProvider(a)
    BY <1>5, <2>2
    DEF Calls, RegisterNew, RegisterKnown, Withdraw, UnregisterClient,
        MessageReceived, MessageReply
  <2>3. QED
    BY <2>1, <2>2
<1>6. CASE Surroundings
  BY <1>6 DEF Surroundings, Start, Crash, Die, NetworkChange, SetUrgency
<1>7. QED
  BY <1>1, <1>2, <1>3, <1>4, <1>5, <1>6 DEF Next

LEMMA ConfigsAreKnown == Spec => []ConfigsKnown
<1>1. Init => ConfigsKnown
  <2> SUFFICES ASSUME Init PROVE ConfigsKnown
    OBVIOUS
  <2>1. PICK s \in Scenarios :
          /\ storedProvider = IF s.account = None THEN None
                                                  ELSE ProviderOf[s.account]
          /\ storedConfig = [id \in ProviderIds |->
                               IF id = storedProvider THEN s.account ELSE None]
    BY DEF Init
  <2>2. s.account \in Accounts \cup {None}
    BY DistributorAssumption
  <2>3. storedProvider # None => storedConfig[storedProvider] # None
    BY <2>1, <2>2, DistributorAssumption
  <2>4. /\ currentCommand \in KnownChanges(storedConfig)
        /\ commandQueue \in Seq(KnownChanges(storedConfig))
    BY NoCommandTyped DEF Init, KnownChanges, EnteredChanges
  <2>5. QED
    BY <2>3, <2>4 DEF ConfigsKnown
<1>2. TypeOK /\ TypeOK' /\ AcksDelivered /\ ProvidersEntered /\ ConfigsKnown
        /\ [Next]_vars => ConfigsKnown'
  <2> SUFFICES ASSUME TypeOK, TypeOK', AcksDelivered, ProvidersEntered,
                      ConfigsKnown, [Next]_vars
               PROVE  ConfigsKnown'
    OBVIOUS
  <2> DEFINE X == KnownChanges(storedConfig')
  <2>1. /\ X \in SUBSET Command
        /\ \A c \in Command : c.type # "ChangePushProvider" => c \in X
    BY DEF KnownChanges, EnteredChanges
  <2>2. KnownChanges(storedConfig) \subseteq X
    <3>1. \A c \in Command : c.type = "ChangePushProvider" => c.value \in ProviderIds
      BY DEF Command, UnregisterTypes, PlainTypes
    <3>2. QED
      BY <3>1, ConfigsStay DEF KnownChanges, EnteredChanges
  <2>3. \A a \in Accounts : SetPushProvider(a) =>
          [Cmd("ChangePushProvider") EXCEPT !.value = ProviderOf[a]] \in X
    <3> SUFFICES ASSUME NEW a \in Accounts, SetPushProvider(a)
                 PROVE  [Cmd("ChangePushProvider") EXCEPT !.value = ProviderOf[a]]
                          \in X
      OBVIOUS
    <3>1. /\ ProviderOf[a] \in ProviderIds /\ ProviderOf[a] \in Entered
          /\ a # None
      BY DistributorAssumption DEF Entered
    <3>2. storedConfig'[ProviderOf[a]] # None
      BY <3>1 DEF SetPushProvider, TypeOK
    <3>3. QED
      BY <3>1, <3>2, CommandTyped DEF KnownChanges, EnteredChanges, Cmd
  <2>4. commandQueue' \in Seq(X) /\ currentCommand' \in X
    <3>1. commandQueue \in Seq(X) /\ currentCommand \in X
      BY <2>2, SeqOver DEF ConfigsKnown
    <3> HIDE DEF X
    <3>2. QED
      BY <2>1, <2>3, <3>1, QueueStays
  <2>5. storedProvider' # None => storedConfig'[storedProvider'] # None
    <3>1. CASE ProcessChangePushProvider
      <4>1. /\ Front \in KnownChanges(storedConfig)
            /\ Front.type = "ChangePushProvider"
        BY <3>1
        DEF ProcessChangePushProvider, Processing, CanProcess, Front,
            ConfigsKnown
      <4>2. /\ storedProvider' = Front.value /\ UNCHANGED storedConfig
        BY <3>1 DEF ProcessChangePushProvider
      <4>3. QED
        BY <4>1, <4>2 DEF KnownChanges
    <3>2. CASE UNCHANGED storedProvider
      BY <3>2, ConfigsStay DEF ConfigsKnown, TypeOK
    <3>3. Die \/ (\E gone \in SUBSET Tokens : Start(gone))
            => UNCHANGED storedProvider
      BY DEF Die, Start, storeVars
    <3>4. QED
      BY <3>1, <3>2, <3>3, ProviderSteps
  <2>6. QED
    BY <2>4, <2>5 DEF ConfigsKnown
<1>3. QED
  BY <1>1, <1>2, TypeCorrect, AcksAreDelivered, OnlyEnteredProviders, PTL
  DEF Spec

(* All accounts are with a provider the daemon knows, and complete. *)
AccountsWork ==
  \A a \in Accounts : a \in Usable /\ ProviderOf[a] \in DOMAIN Profile

(* Without a chosen provider there are no clients.  A daemon that runs has *)
(* those that are stored, and each of these is stored completely.          *)
StoreKept ==
  /\ storedProvider = None => storedTokens = {} /\ (alive => ~HasSetup)
  /\ IF alive THEN storedTokens = Registered ELSE Registered = {}
  /\ \A t \in storedTokens : storedClients[t] # None

(* A provider that has a configuration can be set up. *)
LEMMA KnownWorks ==
  ASSUME AccountsWork, TypeOK, NEW id \in Entered, storedConfig[id] # None
  PROVE  SetupWorks(id, storedConfig[id])
<1>1. PICK a \in Accounts : id = ProviderOf[a]
  BY DEF Entered
<1>2. storedConfig[id] \in Accounts
  BY <1>1, DistributorAssumption DEF TypeOK
<1>3. QED
  BY <1>1, <1>2 DEF AccountsWork, SetupWorks

LEMMA SameStoreKept ==
  ASSUME StoreKept, UNCHANGED <<alive, storedProvider, storedTokens,
                                storedClients, clients>>,
         HasSetup' => HasSetup
  PROVE  StoreKept'
BY DEF StoreKept, Registered, TokensOf

LEMMA DieStoreKept == ASSUME StoreKept, Die PROVE StoreKept'
BY DEF Die, storeVars, StoreKept, Registered, TokensOf

(* A client is removed from the daemon and from the store at once. *)
LEMMA RemoveStoreKept ==
  ASSUME TypeOK, StoreKept, alive, HasSetup, NEW c \in Client, RemoveClient(c),
         UNCHANGED <<alive, status, storedProvider>>
  PROVE  StoreKept'
<1>1. storedProvider # None
  BY DEF StoreKept
<1>2. storedTokens' = Registered'
  BY DEF RemoveClient, StoreKept, Registered, TokensOf
<1>3. ASSUME NEW t \in storedTokens' PROVE storedClients'[t] # None
  <2>1. t \in Tokens /\ c.token \in Tokens
    BY <1>2, <1>3 DEF Registered, TokensOf, Client
  <2>2. CASE Silently
    <3> DEFINE d == [c EXCEPT !.endpoint = None]
    <3>1. d \in Client
      BY DEF Client
    <3>2. d # None
      BY <3>1, DistributorAssumption
    <3> HIDE DEF d
    <3>3. /\ storedClients' = [storedClients EXCEPT ![c.token] = d]
          /\ UNCHANGED storedTokens
      BY <2>2 DEF RemoveClient, d
    <3>4. QED
      BY <1>3, <2>1, <3>2, <3>3 DEF StoreKept, TypeOK
  <2>3. CASE ~Silently
    <3>1. /\ storedClients' = [storedClients EXCEPT ![c.token] = None]
          /\ clients' = [clients EXCEPT ![c.token] = None]
      BY <2>3 DEF RemoveClient
    <3>2. clients'[t] # None
      BY <1>2, <1>3 DEF Registered, TokensOf
    <3>3. t # c.token /\ t \in storedTokens
      BY <2>1, <3>1, <3>2 DEF TypeOK, StoreKept, Registered, TokensOf
    <3>4. QED
      BY <2>1, <3>1, <3>3 DEF TypeOK, StoreKept
  <2>4. QED
    BY <2>2, <2>3
<1>4. QED
  BY <1>1, <1>2, <1>3 DEF StoreKept

(* An answer changes the clients and the store alike. *)
LEMMA AnswerStoreKept ==
  ASSUME TypeOK, StoreKept, Answer
  PROVE  StoreKept'
<1> USE DEF surroundings, registry, storeVars
<1>1. PICK s \in Slots :
        \/ ClientRegistered(s) \/ ClientUnregistered(s)
        \/ MessageAcknowledged(s)
        \/ \E err \in Errors : RegisterFailed(s, err) \/ UnregisterFailed(s, err)
  BY DEF Answer
<1>2. /\ alive /\ HasSetup
      /\ UNCHANGED <<alive, status, storedProvider>>
      /\ requests[s] \in Request
  BY <1>1
  DEF ClientRegistered, ClientUnregistered, MessageAcknowledged,
      RegisterFailed, UnregisterFailed, Answering, TypeOK
<1>3. CASE ClientRegistered(s)
  <2> DEFINE t == requests[s].client.token
             c == [token |-> t, remote |-> account, endpoint |-> account]
  <2>1. t \in Tokens /\ c # None
    <3>1. requests[s].client \in Client
      BY <1>2 DEF Request
    <3>2. c \in Client
      BY <3>1 DEF Client, TypeOK
    <3>3. QED
      BY <3>1, <3>2, DistributorAssumption DEF Client
  <2>2. /\ clients' = [clients EXCEPT ![t] = c]
        /\ storedClients' = [storedClients EXCEPT ![t] = c]
        /\ storedTokens' = TokensOf(clients')
    BY <1>3 DEF ClientRegistered
  <2> HIDE DEF t, c
  <2>3. storedTokens' = Registered'
    BY <2>2 DEF Registered, TokensOf
  <2>4. ASSUME NEW u \in storedTokens' PROVE storedClients'[u] # None
    <3>1. u \in Tokens /\ clients'[u] # None
      BY <2>2, <2>4 DEF TokensOf
    <3>2. u = t \/ u \in storedTokens
      BY <1>2, <2>2, <3>1 DEF TypeOK, StoreKept, Registered, TokensOf
    <3>3. QED
      BY <2>1, <2>2, <3>1, <3>2 DEF TypeOK, StoreKept
  <2>5. QED
    BY <1>2, <2>3, <2>4 DEF StoreKept, HasSetup
<1>4. CASE \/ ClientUnregistered(s)
           \/ \E err \in Errors : UnregisterFailed(s, err)
                                 /\ err # "TransientNetworkError"
  <2>1. RemoveClient(requests[s].client) /\ requests[s].client \in Client
    BY <1>2, <1>4 DEF ClientUnregistered, UnregisterFailed, Request
  <2>2. QED
    BY <1>2, <2>1, RemoveStoreKept
<1>5. CASE \/ MessageAcknowledged(s)
           \/ \E err \in Errors :
                \/ RegisterFailed(s, err)
                \/ UnregisterFailed(s, err) /\ err = "TransientNetworkError"
  <2>1. UNCHANGED <<storedTokens, storedClients, clients>>
    BY <1>5 DEF MessageAcknowledged, RegisterFailed, UnregisterFailed
  <2>2. QED
    BY <1>2, <2>1, SameStoreKept DEF HasSetup
<1>6. QED
  BY <1>1, <1>3, <1>4, <1>5

(* A daemon that starts loads what is stored. *)
LEMMA StartStoreKept ==
  ASSUME AccountsWork, TypeOK, ProvidersEntered, ConfigsKnown, StoreKept,
         NEW gone, Start(gone)
  PROVE  StoreKept'
<1> USE DEF storeVars
<1>1. ~alive /\ alive' /\ UNCHANGED storeVars /\ Registered = {}
  BY DEF Start, StoreKept
<1>2. CASE storedProvider = None
  <2>1. ~SetupWorks(storedProvider, storedConfig[storedProvider])
    BY <1>2, DistributorAssumption DEF SetupWorks
  <2>2. UNCHANGED clients /\ ~HasSetup'
    BY <2>1 DEF Start, HasSetup
  <2>3. QED
    BY <1>1, <1>2, <2>2 DEF StoreKept, Registered, TokensOf
<1>3. CASE storedProvider # None
  <2>1. SetupWorks(storedProvider, storedConfig[storedProvider])
    BY <1>3, KnownWorks DEF ProvidersEntered, ConfigsKnown
  <2>2. clients' = LoadedClients
    BY <2>1 DEF Start
  <2>3. storedTokens = Registered'
    BY <2>2 DEF Registered, TokensOf, LoadedClients, StoreKept, TypeOK
  <2>4. QED
    BY <1>1, <1>3, <2>3 DEF StoreKept
<1>4. QED
  BY <1>2, <1>3

(* A restart finds exactly the clients the daemon has, and each completely,*)
(* when all accounts work: no answer, change of provider or crash leaves a *)
(* client in only one of the two places.  (An account that does not work   *)
(* makes a restart come up without its clients, and the next registration  *)
(* overwrites the list of those that are stored.)                          *)
THEOREM RestartFindsClients ==
  ASSUME AccountsWork PROVE Spec => []StoreComplete
<1>1. Init => StoreKept
  <2> SUFFICES ASSUME Init PROVE StoreKept
    OBVIOUS
  <2>1. PICK s \in Scenarios :
          /\ storedProvider = IF s.account = None THEN None
                                                  ELSE ProviderOf[s.account]
          /\ storedTokens = s.clients
          /\ storedClients = [t \in Tokens |->
               IF t \in s.clients
               THEN [token |-> t, remote |-> s.account, endpoint |-> s.account]
               ELSE None]
    BY DEF Init
  <2>2. /\ s.account \in Accounts \cup {None} /\ s.clients \subseteq Tokens
        /\ s.account = None => s.clients = {}
    BY DistributorAssumption
  <2>3. storedProvider = None => storedTokens = {}
    BY <2>1, <2>2, DistributorAssumption
  <2>4. ASSUME NEW t \in storedTokens PROVE storedClients[t] # None
    <3> DEFINE c == [token |-> t, remote |-> s.account, endpoint |-> s.account]
    <3>1. c \in Client
      BY <2>1, <2>2, <2>4 DEF Client
    <3>2. c # None
      BY <3>1, DistributorAssumption
    <3>3. QED
      BY <2>1, <2>2, <2>4, <3>2
  <2>5. ~alive /\ Registered = {}
    BY DEF Init, Registered, TokensOf
  <2>6. QED
    BY <2>3, <2>4, <2>5 DEF StoreKept
<1>2. TypeOK /\ ProvidersEntered /\ ConfigsKnown /\ StoreKept /\ [Next]_vars
        => StoreKept'
  <2> SUFFICES ASSUME TypeOK, ProvidersEntered, ConfigsKnown, StoreKept,
                      [Next]_vars
               PROVE  StoreKept'
    OBVIOUS
  <2> USE DEF surroundings, registry, storeVars
  <2>1. CASE DoProcessNextCommand
    <3>1. CASE ProcessChangePushProvider
      <4>1. /\ Front \in KnownChanges(storedConfig)
            /\ Front.type = "ChangePushProvider" /\ alive
        BY <3>1
        DEF ProcessChangePushProvider, Processing, CanProcess, Front,
            ConfigsKnown
      <4>2. Front.value # None
        BY <4>1, DistributorAssumption DEF KnownChanges, EnteredChanges, Entered
      <4>3. /\ storedProvider' = Front.value
            /\ UNCHANGED <<alive, storedTokens, storedClients, clients>>
        BY <3>1 DEF ProcessChangePushProvider
      <4>4. QED
        BY <4>1, <4>2, <4>3 DEF StoreKept, Registered, TokensOf
    <3>2. CASE ~ProcessChangePushProvider
      <4>1. \/ Die
            \/ /\ UNCHANGED <<alive, storedProvider, storedTokens,
                              storedClients, clients>>
               /\ HasSetup' => HasSetup
        BY <2>1, <3>2
        DEF DoProcessNextCommand, ProcessNothing, ProcessCrash, ProcessUnheard,
            ProcessNoCommand, ProcessRegisterNoSetup, ProcessRequest,
            ProcessUnsent, ProcessAckOnLink, ProcessConnectNoSetup,
            ProcessConnect, ProcessConnectRejected, ProcessDisconnect,
            ProcessDisconnectUnopened, ProcessChangeUrgency, ProcessWait,
            HasSetup
      <4>2. QED
        BY <4>1, DieStoreKept, SameStoreKept
    <3>3. QED
      BY <3>1, <3>2
  <2>2. CASE RetryTimeout \/ UNCHANGED vars
    BY <2>2, SameStoreKept DEF RetryTimeout, vars, HasSetup
  <2>3. CASE Link
    <3>1. \/ Die
          \/ /\ UNCHANGED <<alive, storedProvider, storedTokens,
                            storedClients, clients>>
             /\ HasSetup' => HasSetup
      BY <2>3
      DEF Link, StreamStarts, StreamBrings, MessageForNobody, HelloRefused,
          Connected, LinkClosed, LinkClosedCrash, StrayLost, StrayLostCrash,
          LinkLost, ProviderDisconnected, HasSetup
    <3>2. QED
      BY <3>1, DieStoreKept, SameStoreKept
  <2>4. CASE Calls
    <3>1. UNCHANGED <<alive, storedProvider, storedTokens, storedClients,
                      clients, status>>
      BY <2>4
      DEF Calls, RegisterNew, RegisterKnown, Withdraw, UnregisterClient,
          MessageReceived, SetPushProvider, MessageReply
    <3>2. QED
      BY <3>1, SameStoreKept DEF HasSetup
  <2>5. CASE NetworkChange \/ \E u \in Urgencies : SetUrgency(u)
    BY <2>5, SameStoreKept DEF NetworkChange, SetUrgency, HasSetup
  <2>6. QED
    BY <2>1, <2>2, <2>3, <2>4, <2>5, AnswerStoreKept, StartStoreKept,
       DieStoreKept
    DEF Next, Surroundings, Crash
<1>3. StoreKept => StoreComplete
  BY DEF StoreKept, StoreComplete
<1>4. QED
  BY <1>1, <1>2, <1>3, TypeCorrect, OnlyEnteredProviders, ConfigsAreKnown, PTL
  DEF Spec

=============================================================================
