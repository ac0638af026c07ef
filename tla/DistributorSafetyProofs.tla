---------------------- MODULE DistributorSafetyProofs ----------------------
(***************************************************************************)
(* The safety invariants of module Distributor hold for every value of its *)
(* constants.                                                              *)
(***************************************************************************)
EXTENDS DistributorProofs

-----------------------------------------------------------------------------
(* The queue does not stall *)

(* Posting leaves at least one invocation pending. *)
LEMMA PostWakes ==
  ASSUME TypeOK, NEW n \in Nat \ {0}, Post(n)
  PROVE  posted' > 0
BY PostTyped DEF TypeOK

(* Every end of a command posts an invocation. *)
LEMMA SettleWakes ==
  ASSUME TypeOK, NEW q, Settle(q)
  PROVE  posted' > 0
BY PostWakes DEF Settle

(* After the end of the process there is nothing to wake up for. *)
LEMMA DieKeepsWakeup ==
  ASSUME Die
  PROVE  NoLostWakeup'
BY DEF Die, NoLostWakeup

(* doProcessNextCommand() either starts a command, or posts another        *)
(* invocation of itself, or finds nothing to do.                           *)
LEMMA ProcessKeepsWakeup ==
  ASSUME TypeOK, NoLostWakeup, DoProcessNextCommand
  PROVE  NoLostWakeup'
<1> USE DEF NoLostWakeup, HasSetup, surroundings
<1>1. CASE ProcessNothing
  <2>1. ~ CanProcess
    BY <1>1 DEF ProcessNothing
  <2>2. UNCHANGED <<surroundings, status, currentCommand, commandQueue>>
    BY <1>1 DEF ProcessNothing
  <2>3. CASE currentCommand # NoCommand
    BY <2>2, <2>3
  <2>4. CASE commandQueue = <<>>
    BY <2>2, <2>4
  <2>5. CASE ~ network
    BY <2>2, <2>5
  <2>6. QED
    BY <2>1, <2>3, <2>4, <2>5 DEF CanProcess
<1>2. CASE ProcessCrash
  BY <1>2, DieKeepsWakeup DEF ProcessCrash
<1>3. CASE ProcessUnheard
  BY <1>3 DEF ProcessUnheard, Unheard
<1>4. CASE \/ ProcessNoCommand \/ ProcessRegisterNoSetup \/ ProcessAckOnLink
           \/ ProcessConnectNoSetup \/ ProcessConnectRejected
  <2>1. posted' = posted /\ posted > 0
    BY <1>4
    DEF ProcessNoCommand, ProcessRegisterNoSetup, ProcessAckOnLink,
        ProcessConnectNoSetup, ProcessConnectRejected, Finish, Processing
  <2>2. QED
    BY <2>1
<1>5. CASE \/ ProcessRequest \/ ProcessUnsent \/ ProcessConnect
           \/ ProcessDisconnectUnopened \/ ProcessWait
  <2>1. currentCommand' = Front /\ Front.type # "NoCommand"
    BY <1>5
    DEF ProcessRequest, ProcessUnsent, ProcessConnect,
        ProcessDisconnectUnopened, ProcessWait, Begin, Processing,
        UnregisterTypes
  <2>2. QED
    BY <2>1, NoCommandTyped
<1>6. CASE ProcessDisconnect \/ ProcessChangeUrgency
  <2>1. \/ currentCommand' = Front /\ Front.type # "NoCommand"
        \/ posted' = posted /\ posted > 0
    BY <1>6
    DEF ProcessDisconnect, ProcessChangeUrgency, Begin, Finish, Processing
  <2>2. QED
    BY <2>1, NoCommandTyped
<1>7. CASE ProcessChangePushProvider
  <2>1. status' = "NoSetup" \/ (posted' = posted /\ posted > 0)
    BY <1>7 DEF ProcessChangePushProvider, Processing
  <2>2. QED
    BY <2>1
<1>8. QED
  BY <1>1, <1>2, <1>3, <1>4, <1>5, <1>6, <1>7 DEF DoProcessNextCommand

(* Answers always post an invocation, news of the link do or leave the     *)
(* queue as it is.                                                         *)
LEMMA ProviderKeepsWakeup ==
  ASSUME TypeOK, NoLostWakeup, Answer \/ Link
  PROVE  NoLostWakeup'
<1>1. CASE Answer
  <2>1. PICK s \in Slots :
          \/ ClientRegistered(s) \/ ClientUnregistered(s)
          \/ MessageAcknowledged(s)
          \/ \E err \in Errors : RegisterFailed(s, err) \/ UnregisterFailed(s, err)
    BY <1>1 DEF Answer
  <2>2. posted' > 0
    BY <2>1, SettleWakes, PostWakes
    DEF ClientRegistered, ClientUnregistered, MessageAcknowledged,
        RegisterFailed, UnregisterFailed, RemoveClient
  <2>3. QED
    BY <2>2 DEF NoLostWakeup
<1>2. CASE Link
  <2>1. CASE LinkClosedCrash \/ StrayLostCrash
    BY <2>1, DieKeepsWakeup DEF LinkClosedCrash, StrayLostCrash
  <2>2. ASSUME NEW err, ProviderDisconnected(err)
        PROVE  posted' > 0
    BY <2>2, SettleWakes DEF ProviderDisconnected
  <2>3. CASE LinkClosed \/ StrayLost \/ \E err \in Errors : LinkLost(err)
    BY <2>2, <2>3 DEF LinkClosed, StrayLost, LinkLost, NoLostWakeup
  <2>4. CASE Connected
    BY <2>4, PostWakes DEF Connected, NoLostWakeup
  <2>5. CASE StreamStarts \/ StreamBrings \/ MessageForNobody \/ HelloRefused
    BY <2>5
    DEF StreamStarts, StreamBrings, MessageForNobody, HelloRefused,
        NoLostWakeup, HasSetup, surroundings, queueVars
  <2>6. QED
    BY <1>2, <2>1, <2>3, <2>4, <2>5 DEF Link
<1>3. QED
  BY <1>1, <1>2

(* A call posts an invocation or adds nothing to the queue. *)
LEMMA CallsKeepWakeup ==
  ASSUME TypeOK, NoLostWakeup, Calls
  PROVE  NoLostWakeup'
<1> USE DEF HasSetup, surroundings, queueVars
<1>1. ASSUME NEW t \in Tokens, RegisterNew(t)
      PROVE  NoLostWakeup'
  BY <1>1, PostWakes DEF RegisterNew, NoLostWakeup
<1>2. ASSUME NEW t \in Tokens, RegisterKnown(t)
      PROVE  NoLostWakeup'
  BY <1>2 DEF RegisterKnown, NoLostWakeup
<1>3. ASSUME NEW t \in Tokens, Withdraw(t)
      PROVE  NoLostWakeup'
  <2>1. PICK i \in DOMAIN commandQueue :
          commandQueue' = Pick(commandQueue, DOMAIN commandQueue \ {i})
    BY <1>3 DEF Withdraw
  <2>2. \A k \in DOMAIN commandQueue' :
          \E j \in DOMAIN commandQueue : commandQueue'[k] = commandQueue[j]
    <3>1. DOMAIN commandQueue \ {i} \in SUBSET DOMAIN commandQueue
      OBVIOUS
    <3>2. commandQueue \in Seq(Command)
      BY DEF TypeOK
    <3>3. QED
      BY <2>1, <3>1, <3>2, PickType
  <2>3. QED
    BY <1>3, <2>2 DEF Withdraw, NoLostWakeup
<1>4. ASSUME NEW t \in Tokens, NEW type, UnregisterClient(t, type)
      PROVE  NoLostWakeup'
  BY <1>4, PostWakes DEF UnregisterClient, NoLostWakeup
<1>5. ASSUME NEW t \in Tokens, NEW id \in MessageIds, MessageReceived(t, id)
      PROVE  NoLostWakeup'
  BY <1>5, PostWakes DEF MessageReceived, NoLostWakeup
<1>6. ASSUME NEW a \in Accounts, SetPushProvider(a)
      PROVE  NoLostWakeup'
  BY <1>6, PostWakes DEF SetPushProvider, NoLostWakeup
<1>7. ASSUME NEW d \in deliveries, MessageReply(d)
      PROVE  NoLostWakeup'
  BY <1>7, PostWakes DEF MessageReply, NoLostWakeup
<1>8. QED
  BY <1>1, <1>2, <1>3, <1>4, <1>5, <1>6, <1>7 DEF Calls

(* setUrgency() alone queues a command and posts nothing: the command is   *)
(* the one NoLostWakeup does not count.                                    *)
LEMMA SurroundingsKeepWakeup ==
  ASSUME TypeOK, NoLostWakeup, Surroundings
  PROVE  NoLostWakeup'
<1> USE DEF HasSetup, surroundings
<1>1. ASSUME NEW gone \in SUBSET Tokens, Start(gone)
      PROVE  NoLostWakeup'
  <2>1. Cardinality(gone) \in Nat
    BY DistributorAssumption, FS_Subset, FS_CardinalityType
  <2>2. status' = "NoSetup" \/ Post(1 + Cardinality(gone))
    BY <1>1 DEF Start
  <2>3. QED
    BY <2>1, <2>2, PostWakes DEF NoLostWakeup
<1>2. CASE Crash
  BY <1>2, DieKeepsWakeup DEF Crash
<1>3. CASE NetworkChange
  BY <1>3, PostWakes DEF NetworkChange, NoLostWakeup
<1>4. ASSUME NEW u \in Urgencies, SetUrgency(u)
      PROVE  NoLostWakeup'
  <2>1. \/ commandQueue' = commandQueue
        \/ commandQueue' = Append(commandQueue, Cmd("ChangeUrgency"))
    BY <1>4 DEF SetUrgency
  <2>2. \A k \in DOMAIN commandQueue' :
          commandQueue'[k].type # "ChangeUrgency" =>
            k \in DOMAIN commandQueue /\ commandQueue'[k] = commandQueue[k]
    <3>1. CASE commandQueue' = commandQueue
      BY <3>1
    <3>2. CASE commandQueue' = Append(commandQueue, Cmd("ChangeUrgency"))
      <4>1. Cmd("ChangeUrgency").type = "ChangeUrgency"
        BY DEF Cmd
      <4>2. commandQueue \in Seq(Command)
        BY DEF TypeOK
      <4>3. \A k \in DOMAIN commandQueue' :
              \/ k \in DOMAIN commandQueue /\ commandQueue'[k] = commandQueue[k]
              \/ commandQueue'[k] = Cmd("ChangeUrgency")
        BY <3>2, <4>2
      <4>4. QED
        BY <4>1, <4>3, Zenon
    <3>3. QED
      BY <2>1, <3>1, <3>2
  <2>3. QED
    BY <1>4, <2>2 DEF SetUrgency, NoLostWakeup
<1>5. QED
  BY <1>1, <1>2, <1>3, <1>4 DEF Surroundings

(* With the network up, a daemon that is not busy and has more than an     *)
(* urgency change queued has an invocation of doProcessNextCommand()       *)
(* pending: the invariant is inductive as it stands, given the types.      *)
THEOREM NeverStalls == Spec => []NoLostWakeup
<1>1. Init => NoLostWakeup
  BY DEF Init, NoLostWakeup
<1>2. TypeOK /\ NoLostWakeup /\ [Next]_vars => NoLostWakeup'
  <2> SUFFICES ASSUME TypeOK, NoLostWakeup, [Next]_vars PROVE NoLostWakeup'
    OBVIOUS
  <2>1. CASE RetryTimeout
    BY <2>1, PostWakes DEF RetryTimeout, NoLostWakeup
  <2>2. CASE UNCHANGED vars
    BY <2>2 DEF NoLostWakeup, HasSetup, vars, surroundings, queueVars
  <2>3. QED
    BY <2>1, <2>2, ProcessKeepsWakeup, ProviderKeepsWakeup, CallsKeepWakeup,
       SurroundingsKeepWakeup DEF Next
<1>3. QED
  BY <1>1, <1>2, TypeCorrect, PTL DEF Spec

-----------------------------------------------------------------------------
(* No command waits for nothing *)

(* NeverWaitsForNothing is not inductive: a command could outlive the      *)
(* process, and a change of urgency wait on a link whose opening does not  *)
(* end it.                                                                 *)
WaitInv ==
  /\ NeverWaitsForNothing
  /\ ~alive => currentCommand.type = "NoCommand"
  /\ HasSetup /\ currentCommand.type = "ChangeUrgency" => LinkIs("sse")

(* Nor does it say that only an account without a URL to open leaves a     *)
(* socket unopened, and that connected() is queued for a stream that has   *)
(* begun.                                                                  *)
StartQueued == \E i \in DOMAIN events : events[i] = "start"
LinkTold == /\ conn = "unopened" => account \in OddUrls
            /\ conn = "started" => StartQueued

(* What the stream brings, and what is handled but the event "start",      *)
(* leaves that event in the queue.                                         *)
LEMMA StartStays ==
  ASSUME TypeOK,
         \/ UNCHANGED events
         \/ \E e : events' = Append(events, e)
         \/ Brought("message")
  PROVE  StartQueued => StartQueued'
<1>1. events \in Seq({"start", "message"})
  BY DEF TypeOK
<1>2. SUFFICES ASSUME StartQueued PROVE StartQueued'
  OBVIOUS
<1>3. PICK i \in DOMAIN events : events[i] = "start"
  BY <1>2 DEF StartQueued
<1>4. CASE UNCHANGED events
  BY <1>2, <1>4 DEF StartQueued
<1>5. CASE \E e : events' = Append(events, e)
  <2>1. i \in DOMAIN events' /\ events'[i] = "start"
    BY <1>1, <1>3, <1>5
  <2>2. QED
    BY <2>1 DEF StartQueued
<1>6. CASE Brought("message")
  <2>1. i # 1 /\ events # <<>> /\ events' = Tail(events)
    BY <1>1, <1>3, <1>6 DEF Brought
  <2>2. i - 1 \in DOMAIN events' /\ events'[i - 1] = "start"
    BY <1>1, <1>3, <2>1
  <2>3. QED
    BY <2>2 DEF StartQueued
<1>7. QED
  BY <1>4, <1>5, <1>6

(* The link is what the provider's configuration and its stream make it.   *)
LEMMA LinkToldKept == TypeOK /\ LinkTold /\ [Next]_vars => LinkTold'
<1> SUFFICES ASSUME TypeOK, LinkTold, [Next]_vars PROVE LinkTold'
  OBVIOUS
<1> USE DEF LinkTold, linkVars, objectVars
<1>0. UNCHANGED events => (StartQueued => StartQueued')
  BY StartStays
<1>1. CASE DoProcessNextCommand
  <2>1. CASE \/ ProcessNothing \/ ProcessUnheard \/ ProcessNoCommand
             \/ ProcessRegisterNoSetup \/ ProcessRequest \/ ProcessUnsent
             \/ ProcessAckOnLink \/ ProcessConnectNoSetup \/ ProcessWait
    BY <1>0, <2>1
    DEF ProcessNothing, ProcessUnheard, ProcessNoCommand,
        ProcessRegisterNoSetup, ProcessRequest, ProcessUnsent,
        ProcessAckOnLink, ProcessConnectNoSetup, ProcessWait
  <2>2. CASE \/ ProcessConnect \/ ProcessConnectRejected \/ ProcessDisconnect
             \/ ProcessDisconnectUnopened \/ ProcessChangeUrgency
    BY <1>0, <2>2
    DEF ProcessConnect, ProcessConnectRejected, ProcessDisconnect,
        ProcessDisconnectUnopened, ProcessChangeUrgency, NothingToOpen
  <2>3. CASE ProcessCrash \/ ProcessChangePushProvider
    BY <2>3 DEF ProcessCrash, Die, ProcessChangePushProvider, SetupPushProvider
  <2>4. QED
    BY <1>1, <2>1, <2>2, <2>3 DEF DoProcessNextCommand
<1>2. CASE Answer
  BY <1>0, <1>2
  DEF Answer, ClientRegistered, ClientUnregistered, MessageAcknowledged,
      RegisterFailed, UnregisterFailed
<1>3. CASE Link
  <2>1. CASE Connected
    BY <1>0, <2>1 DEF Connected, Brought, StartQueued
  <2>2. CASE \/ LinkClosed \/ StrayLost \/ LinkClosedCrash \/ StrayLostCrash
             \/ \E err \in Errors : LinkLost(err)
    BY <2>2
    DEF LinkClosed, StrayLost, LinkClosedCrash, StrayLostCrash, LinkLost,
        ProviderDisconnected, Die
  <2>3. CASE StreamStarts
    <3>1. Len(events) + 1 \in DOMAIN events'
          /\ events'[Len(events) + 1] = "start"
      BY <2>3 DEF StreamStarts, TypeOK
    <3>2. QED
      BY <2>3, <3>1 DEF StreamStarts, StartQueued
  <2>4. CASE StreamBrings \/ MessageForNobody
    BY <2>4, StartStays DEF StreamBrings, MessageForNobody
  <2>5. CASE HelloRefused
    BY <2>5 DEF HelloRefused
  <2>6. QED
    BY <1>3, <2>1, <2>2, <2>3, <2>4, <2>5 DEF Link
<1>4. CASE Calls
  <2>1. CASE \E t \in Tokens, id \in MessageIds : MessageReceived(t, id)
    BY <2>1, StartStays DEF MessageReceived
  <2>2. CASE \/ \E t \in Tokens :
                  \/ RegisterNew(t) \/ RegisterKnown(t) \/ Withdraw(t)
                  \/ \E type \in {"Unregister", "ForceUnregister"} :
                       UnregisterClient(t, type)
             \/ \E a \in Accounts : SetPushProvider(a)
             \/ \E d \in deliveries : MessageReply(d)
    BY <1>0, <2>2
    DEF RegisterNew, RegisterKnown, Withdraw, UnregisterClient,
        SetPushProvider, MessageReply
  <2>3. QED
    BY <1>4, <2>1, <2>2 DEF Calls
<1>5. CASE Surroundings
  BY <1>0, <1>5
  DEF Surroundings, Start, SetupPushProvider, Crash, Die, NetworkChange,
      SetUrgency
<1>6. CASE RetryTimeout
  BY <1>0, <1>6 DEF RetryTimeout
<1>7. CASE UNCHANGED vars
  BY <1>0, <1>7 DEF vars
<1>8. QED
  BY <1>1, <1>2, <1>3, <1>4, <1>5, <1>6, <1>7 DEF Next

(* Without a current command nothing is waited for. *)
LEMMA IdleWaits ==
  ASSUME (currentCommand.type = "NoCommand")'
  PROVE  WaitInv'
BY DEF WaitInv, NeverWaitsForNothing, WaitsForSomething, UnregisterTypes

(* The end of a command leaves none. *)
LEMMA SettleWaits ==
  ASSUME NEW q, Settle(q)
  PROVE  WaitInv'
BY IdleWaits, NoCommandTyped DEF Settle

(* The end of the process leaves no command. *)
LEMMA DieWaits ==
  ASSUME Die
  PROVE  WaitInv'
BY IdleWaits, NoCommandTyped DEF Die

(* A step that leaves the command, what it waits for, and the provider     *)
(* alone does not disturb the invariant.                                   *)
LEMMA UndisturbedWaits ==
  ASSUME WaitInv, StartQueued => StartQueued',
         UNCHANGED <<alive, status, provider, account, conn, requests,
                     currentCommand, retryTimer>>
  PROVE  WaitInv'
BY DEF WaitInv, NeverWaitsForNothing, WaitsForSomething, Opening, StartQueued,
       InFlight, HasSetup, LinkIs

(* A command that becomes the current one has started what will end it. *)
LEMMA ProcessWaits ==
  ASSUME TypeOK, LinkTold, WaitInv, DoProcessNextCommand
  PROVE  WaitInv'
<1> USE DEF surroundings, registry, storeVars, linkVars, objectVars, appVars
<1>1. CASE ProcessNothing \/ ProcessNoCommand \/ ProcessRegisterNoSetup
           \/ ProcessAckOnLink \/ ProcessConnectNoSetup
  BY <1>1, UndisturbedWaits, StartStays
  DEF ProcessNothing, ProcessNoCommand, ProcessRegisterNoSetup,
      ProcessAckOnLink, ProcessConnectNoSetup, Finish
<1>2. CASE ProcessCrash
  BY <1>2, DieWaits DEF ProcessCrash
<1>3. CASE ProcessUnheard
  <2>1. alive' /\ ~ HasSetup'
    BY <1>3 DEF ProcessUnheard, Unheard, HasSetup, Processing
  <2>2. QED
    BY <2>1 DEF WaitInv, NeverWaitsForNothing, WaitsForSomething
<1>4. CASE ProcessRequest
  <2>1. PICK op \in {"register", "unregister", "ack"} :
          /\ StartRequest(op)
          /\ Front.type = "Register" => op = "register"
          /\ Front.type = "MessageAck" => op = "ack"
          /\ Front.type \in UnregisterTypes => op = "unregister"
    BY <1>4 DEF ProcessRequest, UnregisterTypes
  <2>2. /\ Front.type \in UnregisterTypes \cup {"Register", "MessageAck"}
        /\ currentCommand' = Front /\ alive'
    BY <1>4 DEF ProcessRequest, Begin, Processing
  <2>3. InFlight(op)'
    <3> DEFINE r == [op |-> op, client |-> Front.client, value |-> Front.value]
    <3>1. r \in Request
      <4>1. Front \in Command
        BY <1>4, FrontTyped DEF ProcessRequest, Processing, CanProcess, TypeOK
      <4>2. QED
        BY <2>2, <4>1, CommandParts DEF Request
    <3>2. PICK s \in Slots : requests' = [requests EXCEPT ![s] = r]
      BY <2>1 DEF StartRequest
    <3>3. requests'[s] = r
      BY <3>2 DEF TypeOK
    <3>4. r # None
      BY <3>1, DistributorAssumption
    <3>5. QED
      BY <2>2, <3>3, <3>4 DEF InFlight
  <2>4. NeverWaitsForNothing'
    BY <2>1, <2>2, <2>3 DEF NeverWaitsForNothing, WaitsForSomething, UnregisterTypes
  <2>5. QED
    BY <2>2, <2>4 DEF WaitInv, UnregisterTypes
<1>5. CASE ProcessConnect
  <2>1. /\ currentCommand'.type = "Connect" /\ conn' = "connecting" /\ alive'
    BY <1>5 DEF ProcessConnect, Processing, Begin
  <2>2. QED
    BY <2>1
    DEF WaitInv, NeverWaitsForNothing, WaitsForSomething, Opening,
        UnregisterTypes
<1>6. CASE ProcessDisconnect
  <2>1. CASE Finish
    <3>1. currentCommand'.type = "NoCommand"
      BY <1>6, <2>1, NoCommandTyped
      DEF ProcessDisconnect, Processing, CanProcess, Finish
    <3>2. QED
      BY <3>1, IdleWaits
  <2>2. CASE Begin /\ conn' = "closing"
    <3>1. currentCommand'.type = "Disconnect" /\ alive'
      BY <1>6, <2>2 DEF ProcessDisconnect, Processing, Begin
    <3>2. QED
      BY <2>2, <3>1 DEF WaitInv, NeverWaitsForNothing, WaitsForSomething, UnregisterTypes
  <2>3. QED
    BY <1>6, <2>1, <2>2 DEF ProcessDisconnect
<1>7. CASE ProcessChangePushProvider
  <2>1. currentCommand'.type = "NoCommand"
    BY <1>7, NoCommandTyped
    DEF ProcessChangePushProvider, Processing, CanProcess
  <2>2. QED
    BY <2>1, IdleWaits
<1>8. CASE ProcessChangeUrgency
  <2>1. CASE Finish
    <3>1. currentCommand'.type = "NoCommand"
      BY <1>8, <2>1, NoCommandTyped
      DEF ProcessChangeUrgency, Processing, CanProcess, Finish
    <3>2. QED
      BY <3>1, IdleWaits
  <2>2. CASE Begin /\ conn' = "connecting" /\ LinkIs("sse")
    <3>1. currentCommand'.type = "ChangeUrgency" /\ alive' /\ LinkIs("sse")'
      BY <1>8, <2>2 DEF ProcessChangeUrgency, Processing, Begin, LinkIs
    <3>2. QED
      BY <2>2, <3>1
      DEF WaitInv, NeverWaitsForNothing, WaitsForSomething, Opening,
          UnregisterTypes
  <2>3. QED
    BY <1>8, <2>1, <2>2 DEF ProcessChangeUrgency
<1>9. CASE ProcessWait
  <2>1. currentCommand'.type = "Wait" /\ retryTimer' /\ alive'
    BY <1>9 DEF ProcessWait, Processing, Begin
  <2>2. QED
    BY <2>1 DEF WaitInv, NeverWaitsForNothing, WaitsForSomething, UnregisterTypes
<1>10. CASE ProcessUnsent \/ ProcessDisconnectUnopened
  <2>1. /\ account' \in OddUrls /\ alive'
        /\ currentCommand'.type # "ChangeUrgency"
    BY <1>10
    DEF ProcessUnsent, ProcessDisconnectUnopened, Begin, Processing, LinkTold,
        UnregisterTypes
  <2>2. QED
    BY <2>1 DEF WaitInv, NeverWaitsForNothing
<1>11. CASE ProcessConnectRejected
  BY <1>11, IdleWaits, NoCommandTyped
  DEF ProcessConnectRejected, Processing, CanProcess, Finish
<1>12. QED
  BY <1>1, <1>2, <1>3, <1>4, <1>5, <1>6, <1>7, <1>8, <1>9, <1>10, <1>11
  DEF DoProcessNextCommand

(* An answer ends the current command, whichever that is; only the         *)
(* acknowledgement of another message leaves it waiting.                   *)
LEMMA AnswerWaits ==
  ASSUME TypeOK, WaitInv, Answer
  PROVE  WaitInv'
<1>1. PICK s \in Slots :
        \/ ClientRegistered(s) \/ ClientUnregistered(s) \/ MessageAcknowledged(s)
        \/ \E err \in Errors : RegisterFailed(s, err) \/ UnregisterFailed(s, err)
  BY DEF Answer
<1>2. CASE \/ ClientRegistered(s) \/ ClientUnregistered(s)
           \/ \E err \in Errors :
                RegisterFailed(s, err) \/ UnregisterFailed(s, err)
  BY <1>2, SettleWaits
  DEF ClientRegistered, ClientUnregistered, RegisterFailed, UnregisterFailed,
      RemoveClient
<1>3. CASE MessageAcknowledged(s)
  <2>1. CASE /\ currentCommand.type = "MessageAck"
             /\ currentCommand.value = requests[s].value
    BY <1>3, <2>1, IdleWaits, NoCommandTyped DEF MessageAcknowledged
  <2>2. CASE ~ (/\ currentCommand.type = "MessageAck"
                /\ currentCommand.value = requests[s].value)
    <3>1. /\ UNCHANGED <<alive, status, provider, account, conn, events,
                         currentCommand, retryTimer>>
          /\ requests[s].op = "ack"
          /\ requests' = [requests EXCEPT ![s] = None]
      BY <1>3, <2>2
      DEF MessageAcknowledged, Answering, surroundings, objectVars
    <3>2. ASSUME NEW op, InFlight(op),
                 op = "ack" => currentCommand.type = "MessageAck"
          PROVE  InFlight(op)'
      <4>1. PICK r \in Slots :
              /\ requests[r] # None /\ requests[r].op = op
              /\ requests[r].client = currentCommand.client
              /\ requests[r].value = currentCommand.value
        BY <3>2 DEF InFlight
      <4>2. r # s
        BY <2>2, <3>1, <3>2, <4>1
      <4>3. requests'[r] = requests[r]
        BY <3>1, <4>2 DEF TypeOK
      <4>4. QED
        BY <3>1, <4>1, <4>3 DEF InFlight
    <3>3. QED
      BY <3>1, <3>2
      DEF WaitInv, NeverWaitsForNothing, WaitsForSomething, Opening, HasSetup,
          LinkIs
  <2>3. QED
    BY <2>1, <2>2
<1>4. QED
  BY <1>1, <1>2, <1>3

(* News of the link end what waits for the link. *)
LEMMA LinkWaits ==
  ASSUME TypeOK, WaitInv, Link, LinkTold'
  PROVE  WaitInv'
<1>1. CASE LinkClosedCrash \/ StrayLostCrash
  BY <1>1, DieWaits DEF LinkClosedCrash, StrayLostCrash
<1>2. CASE LinkClosed \/ StrayLost \/ \E err \in Errors : LinkLost(err)
  BY <1>2, SettleWaits
  DEF LinkClosed, StrayLost, LinkLost, ProviderDisconnected
<1>3. CASE Connected
  <2>1. /\ UNCHANGED <<alive, provider, account, requests, retryTimer>>
        /\ conn = "closing" => UNCHANGED conn
        /\ HasSetup
    BY <1>3 DEF Connected, surroundings
  <2>2. CASE currentCommand' = NoCommand
    BY <2>2, IdleWaits, NoCommandTyped
  <2>3. CASE UNCHANGED currentCommand
    <3>1. /\ currentCommand.type # "Connect"
          /\ currentCommand.type = "ChangeUrgency" => ~ LinkIs("sse")
      <4>1. CASE currentCommand = NoCommand
        BY <4>1, NoCommandTyped
      <4>2. CASE currentCommand # NoCommand
        BY <1>3, <2>3, <4>2 DEF Connected
      <4>3. QED
        BY <4>1, <4>2
    <3>2. currentCommand.type # "ChangeUrgency"
      BY <2>1, <3>1 DEF WaitInv
    <3>3. QED
      BY <2>1, <2>3, <3>1, <3>2
      DEF WaitInv, NeverWaitsForNothing, WaitsForSomething, InFlight
  <2>4. QED
    BY <1>3, <2>2, <2>3 DEF Connected
<1>4. CASE StreamStarts \/ HelloRefused
  <2>1. /\ UNCHANGED <<alive, status, provider, account, requests,
                       currentCommand, retryTimer>>
        /\ conn = "connecting" /\ conn' \in {"started", "ignored"}
    BY <1>4 DEF StreamStarts, HelloRefused, surroundings, queueVars
  <2>2. Opening'
    BY <2>1 DEF LinkTold, StartQueued, Opening
  <2>3. QED
    BY <2>1, <2>2
    DEF WaitInv, NeverWaitsForNothing, WaitsForSomething, InFlight, HasSetup,
        LinkIs
<1>5. CASE StreamBrings \/ MessageForNobody
  BY <1>5, UndisturbedWaits, StartStays
  DEF StreamBrings, MessageForNobody, surroundings, queueVars
<1>6. QED
  BY <1>1, <1>2, <1>3, <1>4, <1>5 DEF Link

(* No call touches the current command, except that a change of provider   *)
(* ends a wait together with its timer.                                    *)
LEMMA CallsWait ==
  ASSUME TypeOK, WaitInv, Calls
  PROVE  WaitInv'
<1>1. CASE \E a \in Accounts : SetPushProvider(a)
  <2>1. PICK a \in Accounts : SetPushProvider(a)
    BY <1>1
  <2>2. CASE currentCommand.type = "Wait"
    BY <2>1, <2>2, IdleWaits, NoCommandTyped DEF SetPushProvider
  <2>3. CASE currentCommand.type # "Wait"
    BY <2>1, <2>3, UndisturbedWaits, StartStays
    DEF SetPushProvider, surroundings, linkVars, objectVars
  <2>4. QED
    BY <2>2, <2>3
<1>2. CASE \/ \E t \in Tokens :
                \/ RegisterNew(t) \/ RegisterKnown(t) \/ Withdraw(t)
                \/ \E type \in {"Unregister", "ForceUnregister"} :
                     UnregisterClient(t, type)
                \/ \E id \in MessageIds : MessageReceived(t, id)
           \/ \E d \in deliveries : MessageReply(d)
  BY <1>2, UndisturbedWaits, StartStays
  DEF RegisterNew, RegisterKnown, Withdraw, UnregisterClient, MessageReceived,
      MessageReply, surroundings, linkVars, objectVars, queueVars
<1>3. QED
  BY <1>1, <1>2 DEF Calls

(* A new process starts without a command. *)
LEMMA SurroundingsWait ==
  ASSUME TypeOK, WaitInv, Surroundings
  PROVE  WaitInv'
<1>1. CASE \E gone \in SUBSET Tokens : Start(gone)
  BY <1>1, IdleWaits DEF Start, WaitInv
<1>2. CASE Crash
  BY <1>2, DieWaits DEF Crash
<1>3. CASE NetworkChange \/ \E u \in Urgencies : SetUrgency(u)
  BY <1>3, UndisturbedWaits, StartStays
  DEF NetworkChange, SetUrgency, linkVars, objectVars
<1>4. QED
  BY <1>1, <1>2, <1>3 DEF Surroundings

(* Whatever command is current, the request, link change or timer that     *)
(* will end it is under way: the queue never waits for nothing, unless the *)
(* account has no URL that a WebSocket can be opened with.                 *)
THEOREM NothingBlocksTheQueue == Spec => []NeverWaitsForNothing
<1>0. Init => LinkTold
  BY DEF Init, LinkTold
<1>1. Init => WaitInv
  BY NoCommandTyped
  DEF Init, WaitInv, NeverWaitsForNothing, WaitsForSomething, UnregisterTypes
<1>2. TypeOK /\ LinkTold /\ LinkTold' /\ WaitInv /\ [Next]_vars => WaitInv'
  <2> SUFFICES ASSUME TypeOK, LinkTold, LinkTold', WaitInv, [Next]_vars
               PROVE  WaitInv'
    OBVIOUS
  <2>1. CASE RetryTimeout
    <3>1. CASE currentCommand.type = "Wait"
      BY <2>1, <3>1, IdleWaits, NoCommandTyped DEF RetryTimeout
    <3>2. CASE currentCommand.type # "Wait"
      <4>1. UNCHANGED <<alive, status, provider, account, conn, events,
                        requests, currentCommand>>
        BY <2>1, <3>2
        DEF RetryTimeout, surroundings, linkVars, objectVars
      <4>2. QED
        BY <3>2, <4>1
        DEF WaitInv, NeverWaitsForNothing, WaitsForSomething, Opening,
            InFlight, HasSetup, LinkIs
    <3>3. QED
      BY <3>1, <3>2
  <2>2. CASE UNCHANGED vars
    BY <2>2, UndisturbedWaits, StartStays
    DEF vars, surroundings, linkVars, objectVars, queueVars
  <2>3. QED
    BY <2>1, <2>2, ProcessWaits, AnswerWaits, LinkWaits, CallsWait,
       SurroundingsWait DEF Next
<1>3. WaitInv => NeverWaitsForNothing
  BY DEF WaitInv
<1>4. QED
  BY <1>0, <1>1, <1>2, <1>3, LinkToldKept, TypeCorrect, PTL DEF Spec

-----------------------------------------------------------------------------
(* The status follows the link *)

(* Steps that leave both alone, and steps that put both down. *)
LEMMA SameLinkTruthful ==
  ASSUME StatusTruthful, UNCHANGED <<status, provider, conn>>
  PROVE  StatusTruthful'
BY DEF StatusTruthful, LinkIs

(* A link that is down with another status is truthful. *)
LEMMA DownTruthful ==
  ASSUME (conn = "off" /\ status # "Connected")'
  PROVE  StatusTruthful'
BY DEF StatusTruthful

(* Of the commands, connecting, closing, reissuing the stream and changing *)
(* the provider touch the link.                                            *)
LEMMA ProcessTruthful ==
  ASSUME StatusTruthful, DoProcessNextCommand
  PROVE  StatusTruthful'
<1> USE DEF linkVars, objectVars
<1>1. CASE \/ ProcessNothing \/ ProcessUnheard \/ ProcessNoCommand
           \/ ProcessRegisterNoSetup \/ ProcessRequest \/ ProcessUnsent
           \/ ProcessAckOnLink \/ ProcessConnectNoSetup \/ ProcessWait
  BY <1>1, SameLinkTruthful
  DEF ProcessNothing, ProcessUnheard, ProcessNoCommand, ProcessRegisterNoSetup,
      ProcessRequest, ProcessUnsent, ProcessAckOnLink, ProcessConnectNoSetup,
      ProcessWait
<1>2. CASE ProcessCrash
  BY <1>2, DownTruthful DEF ProcessCrash, Die
<1>3. CASE ProcessConnect \/ ProcessConnectRejected
  BY <1>3 DEF ProcessConnect, ProcessConnectRejected, StatusTruthful
<1>4. CASE ProcessDisconnect \/ ProcessDisconnectUnopened
  BY <1>4
  DEF ProcessDisconnect, ProcessDisconnectUnopened, IdleStatus, StatusTruthful,
      LinkIs
<1>5. CASE ProcessChangePushProvider
  BY <1>5, DownTruthful DEF ProcessChangePushProvider, SetupPushProvider
<1>6. CASE ProcessChangeUrgency
  BY <1>6 DEF ProcessChangeUrgency, StatusTruthful, LinkIs
<1>7. QED
  BY <1>1, <1>2, <1>3, <1>4, <1>5, <1>6 DEF DoProcessNextCommand

(* Answers touch neither the link nor the status. *)
LEMMA AnswerTruthful ==
  ASSUME StatusTruthful, Answer
  PROVE  StatusTruthful'
BY SameLinkTruthful
DEF Answer, ClientRegistered, ClientUnregistered, MessageAcknowledged,
    RegisterFailed, UnregisterFailed, objectVars

(* News of the link set both, or leave an open link open. *)
LEMMA LinkTruthful ==
  ASSUME StatusTruthful, Link
  PROVE  StatusTruthful'
<1>1. CASE Connected
  <2>1. status' = "Connected" /\ UNCHANGED provider
    BY <1>1 DEF Connected
  <2>2. LinkIs("socket") => conn' = "on"
    BY <1>1 DEF Connected, Brought, LinkIs
  <2>3. QED
    BY <2>1, <2>2 DEF StatusTruthful, LinkIs
<1>2. CASE LinkClosed \/ StrayLost \/ \E err \in Errors : LinkLost(err)
  BY <1>2, DownTruthful
  DEF LinkClosed, StrayLost, LinkLost, ProviderDisconnected, IdleStatus
<1>3. CASE LinkClosedCrash \/ StrayLostCrash
  BY <1>3, DownTruthful DEF LinkClosedCrash, StrayLostCrash, Die
<1>4. CASE StreamStarts \/ HelloRefused
  BY <1>4 DEF StreamStarts, HelloRefused, StatusTruthful
<1>5. CASE StreamBrings \/ MessageForNobody
  BY <1>5, SameLinkTruthful DEF StreamBrings, MessageForNobody
<1>6. QED
  BY <1>1, <1>2, <1>3, <1>4, <1>5 DEF Link

(* Calls touch neither the link nor the status. *)
LEMMA CallsTruthful ==
  ASSUME StatusTruthful, Calls
  PROVE  StatusTruthful'
BY SameLinkTruthful
DEF Calls, RegisterNew, RegisterKnown, Withdraw, UnregisterClient,
    MessageReceived, SetPushProvider, MessageReply, linkVars, objectVars

(* A new process starts with both down. *)
LEMMA SurroundingsTruthful ==
  ASSUME StatusTruthful, Surroundings
  PROVE  StatusTruthful'
<1>1. CASE \E gone \in SUBSET Tokens : Start(gone)
  BY <1>1, DownTruthful DEF Start, SetupPushProvider
<1>2. CASE Crash
  BY <1>2, DownTruthful DEF Crash, Die
<1>3. CASE NetworkChange \/ \E u \in Urgencies : SetUrgency(u)
  BY <1>3, SameLinkTruthful DEF NetworkChange, SetUrgency, linkVars, objectVars
<1>4. QED
  BY <1>1, <1>2, <1>3 DEF Surroundings

(* The status shown to the user never misses an open link, and with a      *)
(* provider on a WebSocket never claims one that there is not.             *)
THEOREM StatusFollowsLink == Spec => []StatusTruthful
<1>1. Init => StatusTruthful
  BY DEF Init, StatusTruthful
<1>2. StatusTruthful /\ [Next]_vars => StatusTruthful'
  <2> SUFFICES ASSUME StatusTruthful, [Next]_vars PROVE StatusTruthful'
    OBVIOUS
  <2>1. CASE RetryTimeout
    BY <2>1, SameLinkTruthful DEF RetryTimeout, linkVars, objectVars
  <2>2. CASE UNCHANGED vars
    BY <2>2, SameLinkTruthful DEF vars, linkVars, objectVars
  <2>3. QED
    BY <2>1, <2>2, ProcessTruthful, AnswerTruthful, LinkTruthful, CallsTruthful,
       SurroundingsTruthful DEF Next
<1>3. QED
  BY <1>1, <1>2, PTL DEF Spec

=============================================================================
