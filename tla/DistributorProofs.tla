------------------------- MODULE DistributorProofs -------------------------
(***************************************************************************)
(* Theorems about module Distributor, for every value of its constants.    *)
(***************************************************************************)
EXTENDS DistributorProperties, TLAPS, FiniteSetTheorems, WellFoundedInduction

-----------------------------------------------------------------------------
(* Selections from a sequence *)

(* A nonempty set of naturals has a least element. *)
LEMMA LeastNatural ==
  ASSUME NEW T \in SUBSET Nat, T # {}
  PROVE  \E m \in T : \A n \in T : m <= n
<1>1. PICK m \in T : \A n \in T : ~ (<<n, m>> \in OpToRel(<, Nat))
  BY NatLessThanWellFounded, WFMin
<1>2. \A n \in T : ~ (n < m)
  BY <1>1 DEF OpToRel
<1>3. QED
  BY <1>2

(* Kth picks the position that has k of them up to itself. *)
LEMMA KthType ==
  ASSUME NEW n \in Nat, NEW S \in SUBSET (1..n), NEW k \in 1..Cardinality(S)
  PROVE  /\ Kth(S, k) \in S
         /\ Cardinality({j \in S : j <= Kth(S, k)}) = k
<1> DEFINE Upto(i) == {j \in S : j <= i}
<1> DEFINE Count(i) == Cardinality(Upto(i))
<1> DEFINE T == {i \in Nat : Count(i) >= k}
<1>1. IsFiniteSet(S) /\ Cardinality(S) \in Nat
  <2>1. IsFiniteSet(1..n)
    BY FS_Interval
  <2>2. IsFiniteSet(S)
    BY <2>1, FS_Subset
  <2>3. QED
    BY <2>2, FS_CardinalityType
<1>0. \A j \in S : j \in Nat /\ 1 <= j /\ j <= n
  OBVIOUS
<1>2. \A i : IsFiniteSet(Upto(i)) /\ Count(i) \in Nat
  <2> SUFFICES ASSUME NEW i
               PROVE  IsFiniteSet(Upto(i)) /\ Count(i) \in Nat
    OBVIOUS
  <2>1. Upto(i) \in SUBSET S
    OBVIOUS
  <2> HIDE DEF Upto
  <2>2. IsFiniteSet(Upto(i))
    BY <1>1, <2>1, FS_Subset
  <2>3. QED
    BY <2>2, FS_CardinalityType
<1>3. Count(n) >= k /\ Count(0) = 0
  <2>1. \A j \in S : j <= n /\ ~ (j <= 0)
    BY <1>0
  <2>2. Upto(n) = S /\ Upto(0) = {}
    BY <2>1, Zenon
  <2> HIDE DEF Upto
  <2>3. QED
    BY <1>1, <2>2, FS_EmptySet
<1>4. \A m \in Nat \ {0} :
        Count(m) = IF m \in S THEN Count(m - 1) + 1 ELSE Count(m - 1)
  <2> SUFFICES ASSUME NEW m \in Nat \ {0}
               PROVE  Count(m) = IF m \in S THEN Count(m - 1) + 1
                                            ELSE Count(m - 1)
    OBVIOUS
  <2>1. CASE m \in S
    <3>1. \A j \in S : j <= m <=> (j <= m - 1 \/ j = m)
      BY <1>0
    <3>2. \A j : j \in Upto(m) <=> j \in Upto(m - 1) \cup {m}
      BY <2>1, <3>1
    <3>3. m \notin Upto(m - 1)
      OBVIOUS
    <3> HIDE DEF Upto
    <3>4. Upto(m) = Upto(m - 1) \cup {m}
      BY <3>2, Zenon
    <3>5. QED
      BY <1>2, <2>1, <3>3, <3>4, FS_AddElement
  <2>2. CASE m \notin S
    <3>1. \A j \in S : j <= m <=> j <= m - 1
      BY <1>0, <2>2
    <3>2. \A j : j \in Upto(m) <=> j \in Upto(m - 1)
      BY <3>1
    <3> HIDE DEF Upto
    <3>3. Upto(m) = Upto(m - 1)
      BY <3>2, Zenon
    <3>4. QED
      BY <2>2, <3>3
  <2>3. QED
    BY <2>1, <2>2
<1> HIDE DEF Upto, Count
<1>5. PICK m \in T : \A i \in T : m <= i
  <2>1. T \in SUBSET Nat /\ T # {}
    BY <1>3
  <2> HIDE DEF T
  <2>2. QED
    BY <2>1, LeastNatural
<1>6. m \in Nat \ {0} /\ Count(m) >= k /\ ~ (Count(m - 1) >= k)
  <2>1. m # 0
    BY <1>3
  <2>2. m - 1 \in Nat /\ m - 1 \notin T
    BY <1>5, <2>1
  <2>3. QED
    BY <2>1, <2>2
<1>7. m \in S /\ Count(m) = k
  <2>1. k \in Nat /\ Count(m) \in Nat /\ Count(m - 1) \in Nat
    BY <1>1, <1>2
  <2>2. Count(m) = IF m \in S THEN Count(m - 1) + 1 ELSE Count(m - 1)
    BY <1>4, <1>6
  <2>3. QED
    BY <1>6, <2>1, <2>2
<1>8. \E i \in S : Cardinality({j \in S : j <= i}) = k
  BY <1>7 DEF Upto, Count
<1>9. QED
  BY <1>8, Zenon DEF Kth

(* A selection consists of elements of the sequence. *)
LEMMA PickType ==
  ASSUME NEW X, NEW q \in Seq(X), NEW S \in SUBSET DOMAIN q
  PROVE  /\ Pick(q, S) \in Seq(X)
         /\ \A k \in DOMAIN Pick(q, S) :
              \E i \in DOMAIN q : Pick(q, S)[k] = q[i]
<1>1. DOMAIN q = 1..Len(q) /\ Len(q) \in Nat
  OBVIOUS
<1>2. Cardinality(S) \in Nat
  <2>1. IsFiniteSet(1..Len(q))
    BY <1>1, FS_Interval
  <2>2. IsFiniteSet(S)
    BY <1>1, <2>1, FS_Subset
  <2>3. QED
    BY <2>2, FS_CardinalityType
<1>3. \A k \in 1..Cardinality(S) : Kth(S, k) \in DOMAIN q
  <2>1. S \in SUBSET (1..Len(q))
    BY <1>1
  <2>2. \A k \in 1..Cardinality(S) : Kth(S, k) \in S
    BY <1>1, <2>1, KthType
  <2>3. QED
    BY <2>2
<1>4. \A k \in 1..Cardinality(S) : q[Kth(S, k)] \in X
  BY <1>3
<1>5. Pick(q, S) \in [1..Cardinality(S) -> X]
  BY <1>4 DEF Pick
<1>6. Pick(q, S) \in Seq(X)
  BY <1>2, <1>5
<1>7. \A k \in DOMAIN Pick(q, S) : Pick(q, S)[k] = q[Kth(S, k)]
  BY DEF Pick
<1>8. DOMAIN Pick(q, S) = 1..Cardinality(S)
  BY DEF Pick
<1>9. QED
  BY <1>3, <1>6, <1>7, <1>8

-----------------------------------------------------------------------------
(* Types of the helpers *)

(* What the fields of a command may be, by its type. *)
LEMMA CommandParts ==
  ASSUME NEW c \in Command
  PROVE  /\ c.type \in CommandTypes
         /\ c.type \in UnregisterTypes \cup {"Register", "MessageAck"} =>
              c.client \in Client /\ c.value \in MessageIds \cup {None}
         /\ c.type = "ChangePushProvider" => c.value \in ProviderIds
BY DEF Command, CommandTypes, PlainTypes, UnregisterTypes

(* The commands the handlers create are commands. *)
LEMMA CommandTyped ==
  /\ \A type \in PlainTypes : Cmd(type) \in Command
  /\ \A c \in Client :
       /\ \A type \in UnregisterTypes \cup {"Register"} :
            ClientCmd(type, c) \in Command
       /\ [ClientCmd("Register", c) EXCEPT !.reply = TRUE] \in Command
       /\ \A id \in MessageIds : AckCmd(c, id) \in Command
  /\ \A id \in ProviderIds :
       [Cmd("ChangePushProvider") EXCEPT !.value = id] \in Command
BY DEF Command, Cmd, ClientCmd, AckCmd

(* So is the empty command. *)
LEMMA NoCommandTyped == NoCommand \in Command /\ NoCommand.type = "NoCommand"
BY CommandTyped DEF NoCommand, PlainTypes, Cmd

(* Posting stays within the bound, and posts something. *)
LEMMA PostTyped ==
  ASSUME posted \in 0..MaxPosted, NEW n \in Nat, Post(n)
  PROVE  posted' \in 0..MaxPosted /\ (n > 0 => posted' > 0)
BY DistributorAssumption DEF Post

(* The end of a command leaves the queue variables typed. *)
LEMMA SettleTyped ==
  ASSUME posted \in 0..MaxPosted, NEW q \in Seq(Command), Settle(q)
  PROVE  /\ currentCommand' \in Command
         /\ commandQueue' \in Seq(Command)
         /\ posted' \in 0..MaxPosted /\ posted' > 0
BY PostTyped, NoCommandTyped DEF Settle

(* What is left of the bounds stays a natural number. *)
LEMMA SpendTyped ==
  ASSUME budget \in [Kinds -> Nat], NEW kind \in Kinds, Spend(kind)
  PROVE  budget' \in [Kinds -> Nat]
<1>1. budget[kind] - 1 \in Nat
  BY DEF Spend
<1>2. QED
  BY <1>1 DEF Spend

(* Counting calls that wait keeps the counts typed. *)
LEMMA OpenTyped ==
  ASSUME open \in [Tokens -> Int], NEW t
  PROVE  /\ [open EXCEPT ![t] = @ - 1] \in [Tokens -> Int]
         /\ [open EXCEPT ![t] = @ + 1] \in [Tokens -> Int]
<1>1. \A u \in Tokens : open[u] - 1 \in Int /\ open[u] + 1 \in Int
  OBVIOUS
<1>2. CASE t \in Tokens
  BY <1>1, <1>2
<1>3. CASE t \notin Tokens
  <2>1. /\ [open EXCEPT ![t] = @ - 1] = open
        /\ [open EXCEPT ![t] = @ + 1] = open
    BY <1>3
  <2>2. QED
    BY <2>1
<1>4. QED
  BY <1>2, <1>3

(* So does sending the reply of the current command. *)
LEMMA ReplySentTyped ==
  ASSUME open \in [Tokens -> Int]
  PROVE  ReplySent \in [Tokens -> Int]
BY OpenTyped DEF ReplySent

(* Registered clients are finitely many, and an order of some of them      *)
(* gives a sequence of commands.                                           *)
LEMMA OrdersTyped ==
  ASSUME NEW S \in SUBSET Tokens, NEW f \in Orders(S)
  PROVE  Cardinality(S) \in Nat /\ f \in [1..Cardinality(S) -> S]
<1>1. IsFiniteSet(S)
  BY DistributorAssumption, FS_Subset
<1>2. QED
  BY <1>1, FS_CardinalityType DEF Orders

(* The commands for an order of the registered clients. *)
LEMMA CommandsForTyped ==
  ASSUME clients \in [Tokens -> Client \cup {None}],
         NEW f \in Orders(Registered),
         NEW type \in UnregisterTypes \cup {"Register"}
  PROVE  CommandsFor(type, f) \in Seq(Command)
<1>1. Registered \in SUBSET Tokens /\ \A t \in Registered : clients[t] \in Client
  BY DEF Registered, TokensOf
<1>2. Cardinality(Registered) \in Nat
      /\ f \in [1..Cardinality(Registered) -> Registered]
  BY <1>1, OrdersTyped
<1>3. \A i \in DOMAIN f : ClientCmd(type, clients[f[i]]) \in Command
  BY <1>1, <1>2, CommandTyped
<1>4. QED
  BY <1>2, <1>3 DEF CommandsFor

-----------------------------------------------------------------------------
(* Type correctness *)

(* An event stream that has brought nothing has brought only events. *)
LEMMA NoEventsTyped == <<>> \in Seq({"start", "message"})
OBVIOUS

(* The end of the process leaves every variable typed. *)
LEMMA DieTyped ==
  ASSUME TypeOK, Die, budget' \in [Kinds -> Nat]
  PROVE  TypeOK'
<1>1. <<>> \in Seq(Command)
  OBVIOUS
<1>2. /\ requests' \in [Slots -> Request \cup {None}]
      /\ clients' \in [Tokens -> Client \cup {None}]
      /\ open' \in [Tokens -> Int]
  BY DEF Die
<1>3. posted' \in 0..MaxPosted /\ providerUrgency' \in Urgencies
  BY DistributorAssumption DEF Die
<1>4. /\ currentCommand' \in Command /\ commandQueue' \in Seq(Command)
      /\ status' \in Statuses
  BY <1>1, NoCommandTyped DEF Die, Statuses
<1>5. QED
  BY <1>2, <1>3, <1>4, NoEventsTyped DEF TypeOK, Die, storeVars

(* setupPushProvider() leaves a typed provider object without a link. *)
LEMMA SetupTyped ==
  ASSUME TypeOK, NEW id \in ProviderIds \cup {None}, SetupPushProvider(id)
  PROVE  /\ provider' \in DOMAIN Profile \cup {None}
         /\ account' \in Accounts \cup {None}
         /\ conn' = "off" /\ strays' = 0 /\ events' = <<>>
         /\ requests' \in [Slots -> Request \cup {None}]
         /\ providerUrgency' \in Urgencies
BY DistributorAssumption DEF TypeOK, SetupPushProvider

(* The command at the front of the queue. *)
LEMMA FrontTyped ==
  ASSUME commandQueue \in Seq(Command), commandQueue # <<>>
  PROVE  Front \in Command /\ Tail(commandQueue) \in Seq(Command)
BY DEF Front

(* A request taken from the front command is a request. *)
LEMMA StartRequestTyped ==
  ASSUME requests \in [Slots -> Request \cup {None}],
         Front \in Command,
         Front.type \in UnregisterTypes \cup {"Register", "MessageAck"},
         NEW op \in {"register", "unregister", "ack"}, StartRequest(op)
  PROVE  requests' \in [Slots -> Request \cup {None}]
<1> DEFINE r == [op |-> op, client |-> Front.client, value |-> Front.value]
<1>1. r \in Request
  BY CommandParts DEF Request
<1>2. PICK s \in Slots : requests' = [requests EXCEPT ![s] = r]
  BY DEF StartRequest
<1> HIDE DEF r
<1>3. QED
  BY <1>1, <1>2

(* doProcessNextCommand() keeps every variable typed. *)
LEMMA ProcessTyped ==
  ASSUME TypeOK, DoProcessNextCommand
  PROVE  TypeOK'
<1> USE DEF surroundings, registry, storeVars, linkVars, objectVars, appVars
<1>1. CASE ProcessNothing
  BY <1>1, DistributorAssumption DEF ProcessNothing, TypeOK
<1>2. CASE ProcessCrash
  BY <1>2, DieTyped DEF ProcessCrash, TypeOK
<1> DEFINE Starting == posted > 0 /\ commandQueue # <<>>
<1>0. Starting => /\ Front \in Command
                  /\ Tail(commandQueue) \in Seq(Command)
                  /\ posted - 1 \in 0..MaxPosted
  BY FrontTyped, DistributorAssumption DEF TypeOK
<1>3. CASE ProcessUnheard
  BY <1>3, <1>0 DEF ProcessUnheard, Processing, CanProcess, Begin, TypeOK
<1>4. CASE ProcessNoCommand
  BY <1>4, <1>0 DEF ProcessNoCommand, Processing, CanProcess, Finish, TypeOK
<1>5. CASE ProcessRegisterNoSetup
  BY <1>5, <1>0, OpenTyped
  DEF ProcessRegisterNoSetup, Processing, CanProcess, Finish, TypeOK
<1>6. CASE ProcessRequest
  <2>1. requests' \in [Slots -> Request \cup {None}]
    BY <1>6, <1>0, StartRequestTyped
    DEF ProcessRequest, Processing, CanProcess, TypeOK
  <2>2. QED
    BY <1>6, <1>0, <2>1
    DEF ProcessRequest, Processing, CanProcess, Begin, TypeOK
<1>7. CASE ProcessAckOnLink
  BY <1>7, <1>0 DEF ProcessAckOnLink, Processing, CanProcess, Finish, TypeOK
<1>8. CASE ProcessConnectNoSetup
  BY <1>8, <1>0
  DEF ProcessConnectNoSetup, Processing, CanProcess, Finish, TypeOK
<1>9. CASE ProcessConnect
  BY <1>9, <1>0 DEF ProcessConnect, Processing, CanProcess, Begin, TypeOK
<1>10. CASE ProcessDisconnect
  BY <1>10, <1>0
  DEF ProcessDisconnect, Processing, CanProcess, Begin, Finish, IdleStatus,
      RequestsLeft, Statuses, TypeOK
<1>11. CASE ProcessChangePushProvider
  <2>1. Front.value \in ProviderIds
    BY <1>11, <1>0, CommandParts
    DEF ProcessChangePushProvider, Processing, CanProcess
  <2>2. /\ provider' \in DOMAIN Profile \cup {None}
        /\ account' \in Accounts \cup {None}
        /\ conn' = "off" /\ strays' = 0 /\ events' = <<>>
        /\ requests' \in [Slots -> Request \cup {None}]
        /\ providerUrgency' \in Urgencies
    BY <1>11, <2>1, SetupTyped DEF ProcessChangePushProvider
  <2>3. QED
    BY <1>11, <1>0, <2>1, <2>2, NoEventsTyped
    DEF ProcessChangePushProvider, Processing, CanProcess, Statuses, TypeOK
<1>12. CASE ProcessChangeUrgency
  BY <1>12, <1>0
  DEF ProcessChangeUrgency, Processing, CanProcess, Begin, Finish, TypeOK
<1>13. CASE ProcessWait
  BY <1>13, <1>0 DEF ProcessWait, Processing, CanProcess, Begin, TypeOK
<1>14. CASE ProcessUnsent
  BY <1>14, <1>0 DEF ProcessUnsent, Processing, CanProcess, Begin, TypeOK
<1>15. CASE ProcessConnectRejected
  BY <1>15, <1>0
  DEF ProcessConnectRejected, Processing, CanProcess, Finish, Statuses, TypeOK
<1>16. CASE ProcessDisconnectUnopened
  BY <1>16, <1>0
  DEF ProcessDisconnectUnopened, Processing, CanProcess, Begin, TypeOK
<1>17. QED
  BY <1>1, <1>2, <1>3, <1>4, <1>5, <1>6, <1>7, <1>8, <1>9, <1>10, <1>11,
     <1>12, <1>13, <1>14, <1>15, <1>16 DEF DoProcessNextCommand

(* Answers of the provider do. *)
LEMMA AnswerTyped ==
  ASSUME TypeOK, Answer
  PROVE  TypeOK'
<1> USE DEF surroundings, registry, storeVars, linkVars, objectVars, appVars
<1>1. PICK s \in Slots :
        \/ ClientRegistered(s) \/ ClientUnregistered(s) \/ MessageAcknowledged(s)
        \/ \E err \in Errors : RegisterFailed(s, err) \/ UnregisterFailed(s, err)
  BY DEF Answer
<1>2. ASSUME NEW op, Answering(s, op)
      PROVE  /\ requests' \in [Slots -> Request \cup {None}]
             /\ requests[s].client \in Client
             /\ requests[s].client.token \in Tokens
  BY <1>2 DEF Answering, TypeOK, Request, Client
<1>3. CASE ClientRegistered(s)
  <2> DEFINE t == requests[s].client.token
             c == [token |-> t, remote |-> account, endpoint |-> account]
  <2>1. t \in Tokens /\ requests' \in [Slots -> Request \cup {None}]
    BY <1>2, <1>3 DEF ClientRegistered
  <2>2. c \in Client
    BY <2>1 DEF TypeOK, Client
  <2>3. /\ clients' = [clients EXCEPT ![t] = c]
        /\ storedClients' = [storedClients EXCEPT ![t] = c]
        /\ told' = [told EXCEPT ![t] = account]
    BY <1>3 DEF ClientRegistered
  <2> HIDE DEF c, t
  <2>4. /\ clients' \in [Tokens -> Client \cup {None}]
        /\ storedClients' \in [Tokens -> Client \cup {None}]
        /\ told' \in [Tokens -> Accounts \cup {None}]
    BY <2>2, <2>3 DEF TypeOK
  <2>5. QED
    BY <1>3, <2>1, <2>4, SettleTyped, ReplySentTyped
    DEF ClientRegistered, TypeOK, TokensOf
<1>4. ASSUME NEW c \in Client, RemoveClient(c)
      PROVE  /\ clients' \in [Tokens -> Client \cup {None}]
             /\ storedClients' \in [Tokens -> Client \cup {None}]
             /\ storedTokens' \subseteq Tokens
             /\ currentCommand' \in Command
             /\ commandQueue' \in Seq(Command)
             /\ posted' \in 0..MaxPosted
  <2>1. [c EXCEPT !.endpoint = None] \in Client /\ c.token \in Tokens
    BY DEF Client
  <2>2. <<Cmd("Disconnect")>> \in Seq(Command)
    BY CommandTyped DEF PlainTypes
  <2>3. CASE Silently
    BY <1>4, <2>1, <2>3, SettleTyped DEF RemoveClient, TypeOK
  <2>4. CASE ~Silently
    BY <1>4, <2>1, <2>2, <2>4, SettleTyped DEF RemoveClient, TypeOK, TokensOf
  <2>5. QED
    BY <2>3, <2>4
<1>5. CASE ClientUnregistered(s)
  BY <1>5, <1>2, <1>4 DEF ClientUnregistered, TypeOK
<1>6. CASE MessageAcknowledged(s)
  BY <1>6, <1>2, PostTyped, NoCommandTyped DEF MessageAcknowledged, TypeOK
<1>7. ASSUME NEW err \in Errors, RegisterFailed(s, err)
      PROVE  TypeOK'
  <2>1. <<Cmd("Wait"), currentCommand>> \o commandQueue \in Seq(Command)
    BY CommandTyped DEF PlainTypes, TypeOK
  <2>2. budget' \in [Kinds -> Nat]
    BY <1>7, SpendTyped DEF RegisterFailed, FailsWith, Kinds, TypeOK
  <2>3. QED
    BY <1>7, <1>2, <2>1, <2>2, SettleTyped, ReplySentTyped
    DEF RegisterFailed, TypeOK
<1>8. ASSUME NEW err \in Errors, UnregisterFailed(s, err)
      PROVE  TypeOK'
  <2>1. <<currentCommand>> \o commandQueue \in Seq(Command)
    BY DEF TypeOK
  <2>2. budget' \in [Kinds -> Nat]
    BY <1>8, SpendTyped DEF UnregisterFailed, FailsWith, Kinds, TypeOK
  <2>3. QED
    BY <1>8, <1>2, <1>4, <2>1, <2>2, SettleTyped DEF UnregisterFailed, TypeOK
<1>9. QED
  BY <1>1, <1>3, <1>5, <1>6, <1>7, <1>8

(* So does providerDisconnected(). *)
LEMMA DisconnectedTyped ==
  ASSUME TypeOK, NEW err, ProviderDisconnected(err), strays' \in Nat,
         budget' \in [Kinds -> Nat]
  PROVE  TypeOK'
<1>1. /\ commandQueue \in Seq(Command)
      /\ Reconnect(err) \o Deferred \o commandQueue \in Seq(Command)
  BY CommandTyped DEF TypeOK, Reconnect, Deferred, PlainTypes
<1>2. /\ currentCommand' \in Command /\ commandQueue' \in Seq(Command)
      /\ posted' \in 0..MaxPosted
  BY <1>1, SettleTyped DEF ProviderDisconnected, TypeOK
<1>3. status' \in Statuses /\ requests' \in [Slots -> Request \cup {None}]
  BY DEF ProviderDisconnected, IdleStatus, RequestsLeft, Statuses, TypeOK
<1>4. QED
  BY <1>2, <1>3
  DEF ProviderDisconnected, TypeOK, surroundings, registry, storeVars, appVars

(* News of the link keep every variable typed. *)
LEMMA LinkTyped ==
  ASSUME TypeOK, Link
  PROVE  TypeOK'
<1>1. ASSUME Spend("drop")
      PROVE  budget' \in [Kinds -> Nat]
  BY <1>1, SpendTyped DEF Kinds, TypeOK
<1> DEFINE Events == Seq({"start", "message"})
<1>0. /\ events \in Events
      /\ Append(events, "start") \in Events /\ Append(events, "message") \in Events
      /\ events # <<>> => Tail(events) \in Events
  BY DEF TypeOK
<1> USE DEF surroundings, registry, storeVars, queueVars, appVars
<1>2. CASE Connected
  <2>1. Append(commandQueue, Cmd("ChangeUrgency")) \in Seq(Command)
    BY CommandTyped DEF PlainTypes, TypeOK
  <2>2. posted' \in 0..MaxPosted
    BY <1>2, PostTyped DEF Connected, TypeOK
  <2>3. QED
    BY <1>0, <1>2, <2>1, <2>2, NoCommandTyped
    DEF Connected, Brought, TypeOK, Statuses
<1>3. CASE LinkClosed
  BY <1>3, DisconnectedTyped DEF LinkClosed, TypeOK
<1>4. CASE LinkClosedCrash
  BY <1>4, DieTyped DEF LinkClosedCrash, TypeOK
<1>5. CASE StrayLost
  BY <1>5, <1>1, DisconnectedTyped DEF StrayLost, TypeOK
<1>6. CASE StrayLostCrash
  BY <1>6, <1>1, DieTyped DEF StrayLostCrash
<1>7. CASE \E err \in Errors : LinkLost(err)
  BY <1>7, <1>1, DisconnectedTyped DEF LinkLost, TypeOK
<1>8. CASE StreamStarts
  BY <1>0, <1>8 DEF StreamStarts, TypeOK
<1>9. CASE StreamBrings
  <2>1. budget' \in [Kinds -> Nat]
    BY <1>9, SpendTyped DEF StreamBrings, Kinds, TypeOK
  <2>2. QED
    BY <1>0, <1>9, <2>1 DEF StreamBrings, TypeOK
<1>10. CASE MessageForNobody
  BY <1>0, <1>10 DEF MessageForNobody, Brought, TypeOK
<1>11. CASE HelloRefused
  <2>1. budget' \in [Kinds -> Nat]
    BY <1>11, SpendTyped DEF HelloRefused, Kinds, TypeOK
  <2>2. QED
    BY <1>11, <2>1 DEF HelloRefused, TypeOK
<1>12. QED
  BY <1>2, <1>3, <1>4, <1>5, <1>6, <1>7, <1>8, <1>9, <1>10, <1>11 DEF Link

(* The queues setPushProvider() leaves. *)
LEMMA MoveQueueTyped ==
  ASSUME TypeOK, NEW id \in ProviderIds, NEW f \in Orders(Registered)
  PROVE  MoveQueue(id, f) \in Seq(Command)
<1>1. /\ <<Cmd("Disconnect")>> \in Seq(Command)
      /\ <<Cmd("Connect")>> \in Seq(Command)
      /\ <<[Cmd("ChangePushProvider") EXCEPT !.value = id]>> \in Seq(Command)
      /\ <<>> \in Seq(Command)
  BY CommandTyped DEF PlainTypes
<1>2. commandQueue \in Seq(Command)
  BY DEF TypeOK
<1>3. /\ CommandsFor("SilentUnregister", f) \in Seq(Command)
      /\ CommandsFor("Register", f) \in Seq(Command)
  BY CommandsForTyped DEF TypeOK, UnregisterTypes
<1> DEFINE q == commandQueue \o CommandsFor("SilentUnregister", f)
           pending == {i \in DOMAIN q : q[i].type = "Register"}
<1>4. q \in Seq(Command)
  BY <1>2, <1>3
<1>5. pending \in SUBSET DOMAIN q /\ DOMAIN q \ pending \in SUBSET DOMAIN q
  OBVIOUS
<1> HIDE DEF q
<1>6. Pick(q, DOMAIN q \ pending) \in Seq(Command)
  BY <1>4, <1>5, PickType
<1>7. Pick(q, pending) \in Seq(Command)
  BY <1>4, <1>5, PickType
<1> HIDE DEF pending
<1>8. MoveQueue(id, f) =
        Pick(q, DOMAIN q \ pending)
        \o (IF status = "Connected" THEN <<Cmd("Disconnect")>> ELSE <<>>)
        \o <<[Cmd("ChangePushProvider") EXCEPT !.value = id]>>
        \o (IF Registered # {} \/ pending # {} THEN <<Cmd("Connect")>> ELSE <<>>)
        \o CommandsFor("Register", f)
        \o Pick(q, pending)
  BY DEF MoveQueue, q, pending
<1>9. QED
  BY <1>1, <1>3, <1>6, <1>7, <1>8

(* And the queue it leaves after a failed setup. *)
LEMMA RecoverQueueTyped ==
  ASSUME TypeOK, NEW id \in ProviderIds
  PROVE  RecoverQueue(id) \in Seq(Command)
<1>1. /\ Cmd("Connect") \in Command
      /\ [Cmd("ChangePushProvider") EXCEPT !.value = id] \in Command
  BY CommandTyped DEF PlainTypes
<1>2. QED
  BY <1>1 DEF RecoverQueue, TypeOK

(* D-Bus calls and pushed messages keep every variable typed. *)
LEMMA CallsTyped ==
  ASSUME TypeOK, Calls
  PROVE  TypeOK'
<1> USE DEF surroundings, registry, storeVars, linkVars, objectVars, queueVars,
            appVars
<1>1. \A kind \in Kinds : Spend(kind) => budget' \in [Kinds -> Nat]
  BY SpendTyped DEF TypeOK
<1>2. \A n \in Nat : Post(n) => posted' \in 0..MaxPosted
  BY PostTyped DEF TypeOK
<1>3. \A c \in Command : Append(commandQueue, c) \in Seq(Command)
  BY DEF TypeOK
<1>4. \A t \in Tokens : clients[t] # None => clients[t] \in Client
  BY DEF TypeOK
<1>5. ASSUME NEW t \in Tokens, RegisterNew(t)
      PROVE  TypeOK'
  <2>1. NewClient(t) \in Client
    BY DEF NewClient, Client
  <2>2. [ClientCmd("Register", NewClient(t)) EXCEPT !.reply = TRUE] \in Command
    BY <2>1, CommandTyped
  <2>3. ConnectOnDemand \in Seq(Command)
    BY CommandTyped DEF ConnectOnDemand, PlainTypes
  <2>4. commandQueue' \in Seq(Command)
    BY <1>5, <2>2, <2>3 DEF RegisterNew, TypeOK
  <2>5. open' \in [Tokens -> Int]
    BY <1>5, OpenTyped DEF RegisterNew, TypeOK
  <2>6. QED
    BY <1>1, <1>2, <1>5, <2>4, <2>5 DEF RegisterNew, TypeOK, Kinds
<1>6. ASSUME NEW t \in Tokens, RegisterKnown(t)
      PROVE  TypeOK'
  <2>1. clients[t].endpoint \in Accounts \cup {None}
    BY <1>4, <1>6 DEF RegisterKnown, Client
  <2>2. told' \in [Tokens -> Accounts \cup {None}]
    BY <1>6, <2>1 DEF RegisterKnown, TypeOK
  <2>3. QED
    BY <1>1, <1>6, <2>2 DEF RegisterKnown, TypeOK, Kinds
<1>7. ASSUME NEW t \in Tokens, Withdraw(t)
      PROVE  TypeOK'
  <2>1. PICK i \in DOMAIN commandQueue :
          commandQueue' = Pick(commandQueue, DOMAIN commandQueue \ {i})
    BY <1>7 DEF Withdraw
  <2>2. DOMAIN commandQueue \ {i} \in SUBSET DOMAIN commandQueue
    OBVIOUS
  <2>3. commandQueue' \in Seq(Command)
    BY <2>1, <2>2, PickType DEF TypeOK
  <2>4. QED
    BY <1>1, <1>7, <2>3 DEF Withdraw, TypeOK, Kinds
<1>8. ASSUME NEW t \in Tokens, NEW type \in {"Unregister", "ForceUnregister"},
             UnregisterClient(t, type)
      PROVE  TypeOK'
  <2>1. ClientCmd(type, clients[t]) \in Command
    BY <1>4, <1>8, CommandTyped DEF UnregisterClient, UnregisterTypes
  <2>2. QED
    BY <1>1, <1>2, <1>3, <1>8, <2>1 DEF UnregisterClient, TypeOK, Kinds
<1>9. ASSUME NEW t \in Tokens, NEW id \in MessageIds, MessageReceived(t, id)
      PROVE  TypeOK'
  <2>1. AckCmd(clients[t], id) \in Command
    BY <1>4, <1>9, CommandTyped DEF MessageReceived
  <2>2. budget' \in [Kinds -> Nat]
    BY <1>1, <1>9 DEF MessageReceived, TypeOK, Kinds
  <2>3. events' \in Seq({"start", "message"})
    <3>1. \/ events' = events
          \/ events # <<>> /\ events' = Tail(events)
      BY <1>9 DEF MessageReceived, Brought
    <3>2. events \in Seq({"start", "message"})
      BY DEF TypeOK
    <3>3. QED
      BY <3>1, <3>2
  <2>4. QED
    BY <1>2, <1>3, <1>9, <2>1, <2>2, <2>3 DEF MessageReceived, TypeOK
<1>10. ASSUME NEW a \in Accounts, SetPushProvider(a)
       PROVE  TypeOK'
  <2>1. ProviderOf[a] \in ProviderIds
    BY DistributorAssumption
  <2>2. commandQueue' \in Seq(Command)
    <3>1. \/ \E f \in Orders(Registered) :
               commandQueue' = MoveQueue(ProviderOf[a], f)
          \/ commandQueue' = RecoverQueue(ProviderOf[a])
      BY <1>10 DEF SetPushProvider
    <3>2. \A f \in Orders(Registered) :
            MoveQueue(ProviderOf[a], f) \in Seq(Command)
      BY <2>1, MoveQueueTyped
    <3>3. RecoverQueue(ProviderOf[a]) \in Seq(Command)
      BY <2>1, RecoverQueueTyped
    <3>4. QED
      BY <3>1, <3>2, <3>3
  <2>3. storedConfig' \in [ProviderIds -> Accounts \cup {None}]
    BY <1>10, <2>1 DEF SetPushProvider, TypeOK
  <2>4. currentCommand' \in Command /\ retryTimer' \in BOOLEAN
    BY <1>10, NoCommandTyped DEF SetPushProvider, TypeOK
  <2>5. QED
    BY <1>1, <1>2, <1>10, <2>2, <2>3, <2>4 DEF SetPushProvider, TypeOK, Kinds
<1>11. ASSUME NEW d \in deliveries, MessageReply(d)
       PROVE  TypeOK'
  BY <1>2, <1>3, <1>11 DEF MessageReply, TypeOK
<1>12. QED
  BY <1>5, <1>6, <1>7, <1>8, <1>9, <1>10, <1>11 DEF Calls

(* Start, crash, network and power keep every variable typed. *)
LEMMA SurroundingsTyped ==
  ASSUME TypeOK, Surroundings
  PROVE  TypeOK'
<1> USE DEF surroundings, registry, storeVars, linkVars, objectVars, queueVars,
            appVars
<1>1. \A kind \in Kinds : Spend(kind) => budget' \in [Kinds -> Nat]
  BY SpendTyped DEF TypeOK
<1>2. \A n \in Nat : Post(n) => posted' \in 0..MaxPosted
  BY PostTyped DEF TypeOK
<1>3. /\ <<>> \in Seq(Command)
      /\ \A type \in PlainTypes : <<Cmd(type)>> \in Seq(Command)
  BY CommandTyped
<1>4. ASSUME NEW gone \in SUBSET Tokens, Start(gone)
      PROVE  TypeOK'
  <2>1. LoadedClients \in [Tokens -> Client \cup {None}]
    BY DEF LoadedClients, TypeOK
  <2>2. Cardinality(gone) \in Nat
    BY DistributorAssumption, FS_Subset, FS_CardinalityType
  <2>3. /\ provider' \in DOMAIN Profile \cup {None}
        /\ account' \in Accounts \cup {None}
        /\ conn' = "off" /\ strays' = 0 /\ events' = <<>>
        /\ requests' \in [Slots -> Request \cup {None}]
        /\ providerUrgency' \in Urgencies
    BY <1>4, SetupTyped DEF Start, TypeOK
  <2>4. ASSUME NEW f \in Orders(gone), \A t \in gone : LoadedClients[t] # None
        PROVE  [i \in DOMAIN f |-> ClientCmd("Unregister", LoadedClients[f[i]])]
                 \in Seq(Command)
    <3>1. f \in [1..Cardinality(gone) -> gone]
      BY <2>4 DEF Orders
    <3>2. \A t \in gone : LoadedClients[t] \in Client
      BY <2>1, <2>4
    <3>3. \A i \in DOMAIN f :
            ClientCmd("Unregister", LoadedClients[f[i]]) \in Command
      BY <3>1, <3>2, CommandTyped DEF UnregisterTypes
    <3>4. QED
      BY <2>2, <3>1, <3>3
  <2>5. /\ clients' \in [Tokens -> Client \cup {None}]
        /\ commandQueue' \in Seq(Command)
        /\ posted' \in 0..MaxPosted
        /\ status' \in Statuses
    <3>1. CASE SetupWorks(storedProvider, storedConfig[storedProvider])
      <4>1. /\ clients' = LoadedClients
            /\ \A t \in gone : LoadedClients[t] # None
            /\ Post(1 + Cardinality(gone))
            /\ \/ status' = "Idle" /\ commandQueue' = <<>>
               \/ /\ status' = "NoNetwork"
                  /\ \E f \in Orders(gone) :
                       commandQueue' = <<Cmd("Connect")>> \o
                         [i \in DOMAIN f |->
                            ClientCmd("Unregister", LoadedClients[f[i]])]
        BY <1>4, <3>1 DEF Start
      <4>2. commandQueue' \in Seq(Command)
        <5>1. CASE commandQueue' = <<>>
          BY <1>3, <5>1
        <5>2. CASE \E f \in Orders(gone) :
                     commandQueue' = <<Cmd("Connect")>> \o
                       [i \in DOMAIN f |->
                          ClientCmd("Unregister", LoadedClients[f[i]])]
          <6>1. PICK f \in Orders(gone) :
                  commandQueue' = <<Cmd("Connect")>> \o
                    [i \in DOMAIN f |->
                       ClientCmd("Unregister", LoadedClients[f[i]])]
            BY <5>2
          <6> DEFINE q == [i \in DOMAIN f |->
                             ClientCmd("Unregister", LoadedClients[f[i]])]
          <6>2. q \in Seq(Command)
            BY <2>4, <4>1
          <6>3. <<Cmd("Connect")>> \in Seq(Command)
            BY <1>3 DEF PlainTypes
          <6> HIDE DEF q
          <6>4. QED
            BY <6>1, <6>2, <6>3 DEF q
        <5>3. QED
          BY <4>1, <5>1, <5>2
      <4>3. posted' \in 0..MaxPosted
        BY <1>2, <2>2, <4>1
      <4>4. QED
        BY <2>1, <4>1, <4>2, <4>3 DEF Statuses
    <3>2. CASE ~ SetupWorks(storedProvider, storedConfig[storedProvider])
      BY <1>4, <3>2 DEF Start, Statuses, TypeOK
    <3>3. QED
      BY <3>1, <3>2
  <2>6. QED
    BY <1>4, <2>3, <2>5, NoEventsTyped DEF Start, TypeOK
<1>5. CASE Crash
  BY <1>1, <1>5, DieTyped DEF Crash, Kinds
<1>6. CASE NetworkChange
  <2>1. /\ <<Cmd("Connect")>> \in Seq(Command)
        /\ <<Cmd("Disconnect")>> \in Seq(Command)
        /\ commandQueue \in Seq(Command)
    BY <1>3 DEF PlainTypes, TypeOK
  <2>2. commandQueue' \in Seq(Command)
    <3>1. CASE alive
      <4>1. PICK p, q \in {<<>>, <<Cmd("Connect")>>, <<Cmd("Disconnect")>>} :
              commandQueue' = commandQueue \o p \o q
        BY <1>6, <3>1, Zenon DEF NetworkChange
      <4>2. p \in Seq(Command) /\ q \in Seq(Command)
        BY <1>3, <2>1, Zenon
      <4>3. QED
        BY <2>1, <4>1, <4>2
    <3>2. CASE ~alive
      BY <1>6, <2>1, <3>2 DEF NetworkChange
    <3>3. QED
      BY <3>1, <3>2
  <2>3. posted' \in 0..MaxPosted
    BY <1>2, <1>6 DEF NetworkChange, TypeOK
  <2>4. network' \in BOOLEAN
    BY <1>6 DEF NetworkChange, TypeOK
  <2>5. QED
    BY <1>1, <1>6, <2>2, <2>3, <2>4 DEF NetworkChange, Kinds, TypeOK
<1>7. ASSUME NEW u \in Urgencies, SetUrgency(u)
      PROVE  TypeOK'
  <2>1. commandQueue' \in Seq(Command)
    BY <1>7, CommandTyped DEF SetUrgency, PlainTypes, TypeOK
  <2>2. QED
    BY <1>1, <1>7, <2>1 DEF SetUrgency, Kinds, TypeOK
<1>8. QED
  BY <1>4, <1>5, <1>6, <1>7 DEF Surroundings

(* The initial states are typed. *)
LEMMA InitTyped == Init => TypeOK
<1> SUFFICES ASSUME Init PROVE TypeOK
  OBVIOUS
<1> DEFINE Starts(s) ==
      /\ storedProvider = IF s.account = None THEN None
                                             ELSE ProviderOf[s.account]
      /\ storedConfig = [id \in ProviderIds |->
                           IF id = storedProvider THEN s.account ELSE None]
      /\ storedTokens = s.clients
      /\ storedClients = [t \in Tokens |->
           IF t \in s.clients
           THEN [token |-> t, remote |-> s.account, endpoint |-> s.account]
           ELSE None]
      /\ told = [t \in Tokens |-> IF t \in s.clients THEN s.account ELSE None]
      /\ budget = s.limits
<1>1. PICK s \in Scenarios : Starts(s)
  BY DEF Init
<1>2. /\ s.account \in Accounts \cup {None} /\ s.clients \subseteq Tokens
      /\ s.limits \in [Kinds -> Nat]
  BY DistributorAssumption
<1>3. /\ storedProvider \in ProviderIds \cup {None}
      /\ storedConfig \in [ProviderIds -> Accounts \cup {None}]
      /\ told \in [Tokens -> Accounts \cup {None}]
      /\ storedTokens \subseteq Tokens /\ budget \in [Kinds -> Nat]
  BY <1>1, <1>2, DistributorAssumption
<1>4. storedClients \in [Tokens -> Client \cup {None}]
  <2>1. \A t \in Tokens :
          [token |-> t, remote |-> s.account, endpoint |-> s.account] \in Client
    BY <1>2 DEF Client
  <2>2. QED
    BY <1>1, <2>1
<1>5. <<>> \in Seq(Command) /\ currentCommand \in Command
  BY NoCommandTyped DEF Init
<1>6. /\ requests \in [Slots -> Request \cup {None}]
      /\ clients \in [Tokens -> Client \cup {None}]
      /\ open \in [Tokens -> Int]
      /\ posted \in 0..MaxPosted
  BY DistributorAssumption DEF Init
<1>7. QED
  BY <1>3, <1>4, <1>5, <1>6, NoEventsTyped, DistributorAssumption DEF Init, TypeOK, Statuses

(* Every step keeps every variable typed. *)
LEMMA NextTyped == TypeOK /\ [Next]_vars => TypeOK'
<1> SUFFICES ASSUME TypeOK, [Next]_vars PROVE TypeOK'
  OBVIOUS
<1>1. CASE RetryTimeout
  BY <1>1, PostTyped, NoCommandTyped
  DEF RetryTimeout, TypeOK, surroundings, registry, storeVars, linkVars,
      objectVars, appVars
<1>2. CASE UNCHANGED vars
  BY <1>2 DEF TypeOK, vars, surroundings, registry, storeVars, linkVars,
              objectVars, queueVars, appVars
<1>3. QED
  BY <1>1, <1>2, ProcessTyped, AnswerTyped, LinkTyped, CallsTyped,
     SurroundingsTyped DEF Next

(* Every variable keeps its type: in particular no handler dequeues a      *)
(* command without the client, message or provider it needs.               *)
THEOREM TypeCorrect == Spec => []TypeOK
BY InitTyped, NextTyped, PTL DEF Spec

=============================================================================
