---------------------- MODULE DistributorQueueProofs ----------------------
(***************************************************************************)
(* What the handlers of module Distributor do to the entries of the        *)
(* command queue: the replies it holds are never more than the callers     *)
(* that wait, and a change of provider stays in it until it is carried     *)
(* out.                                                                    *)
(***************************************************************************)
EXTENDS DistributorProofs, FunctionTheorems

-----------------------------------------------------------------------------
(* Entries of a queue *)

(* What can be paired off has the same size. *)
LEMMA SameSize ==
  ASSUME NEW S, NEW T, IsFiniteSet(S), NEW f \in [S -> T],
         \A a, b \in S : f[a] = f[b] => a = b,
         \A y \in T : \E x \in S : f[x] = y
  PROVE  IsFiniteSet(T) /\ Cardinality(T) = Cardinality(S)
<1>1. f \in Bijection(S, T)
  BY Fun_IsBij
<1>2. ExistsBijection(S, T)
  BY <1>1, Fun_ExistsBij
<1>3. QED
  BY <1>2, FS_Bijection

(* Each position of a selection is the k-th for one k, and for no other. *)
LEMMA KthPairsOff ==
  ASSUME NEW n \in Nat, NEW S \in SUBSET (1..n)
  PROVE  /\ Cardinality(S) \in Nat
         /\ \A i \in S : \E k \in 1..Cardinality(S) : Kth(S, k) = i
         /\ \A k, l \in 1..Cardinality(S) : Kth(S, k) = Kth(S, l) => k = l
<1> DEFINE Upto(i) == {j \in S : j <= i}
<1>1. IsFiniteSet(S) /\ Cardinality(S) \in Nat
  <2>1. IsFiniteSet(1..n)
    BY FS_Interval
  <2>2. IsFiniteSet(S)
    BY <2>1, FS_Subset
  <2>3. QED
    BY <2>2, FS_CardinalityType
<1>2. \A k \in 1..Cardinality(S) :
        Kth(S, k) \in S /\ Cardinality(Upto(Kth(S, k))) = k
  BY KthType
<1>3. \A i \in S : /\ IsFiniteSet(Upto(i)) /\ i \in Upto(i)
                   /\ Upto(i) \in SUBSET S
                   /\ Cardinality(Upto(i)) \in 1..Cardinality(S)
  <2> SUFFICES ASSUME NEW i \in S
               PROVE  /\ IsFiniteSet(Upto(i)) /\ i \in Upto(i)
                      /\ Upto(i) \in SUBSET S
                      /\ Cardinality(Upto(i)) \in 1..Cardinality(S)
    OBVIOUS
  <2>1. i \in Upto(i) /\ Upto(i) \in SUBSET S
    OBVIOUS
  <2> HIDE DEF Upto
  <2>2. IsFiniteSet(Upto(i)) /\ Cardinality(Upto(i)) <= Cardinality(S)
    BY <1>1, <2>1, FS_Subset
  <2>3. Cardinality(Upto(i)) \in Nat /\ Cardinality(Upto(i)) # 0
    BY <2>1, <2>2, FS_CardinalityType, FS_EmptySet
  <2>4. QED
    BY <1>1, <2>1, <2>2, <2>3
<1>4. ASSUME NEW i \in S, NEW j \in S, i < j
      PROVE  Cardinality(Upto(i)) # Cardinality(Upto(j))
  <2>1. Upto(i) \in SUBSET Upto(j) /\ j \notin Upto(i)
    <3>1. \A k \in S : k \in Nat
      OBVIOUS
    <3>2. \A k \in S : k <= i => k <= j
      BY <1>4, <3>1
    <3>3. ~ (j <= i)
      BY <1>4, <3>1
    <3>4. QED
      BY <3>2, <3>3
  <2> HIDE DEF Upto
  <2>2. Upto(i) # Upto(j)
    BY <1>3, <2>1
  <2>3. QED
    BY <1>3, <2>1, <2>2, FS_Subset
<1> HIDE DEF Upto
<1>5. ASSUME NEW i \in S
      PROVE  \E k \in 1..Cardinality(S) : Kth(S, k) = i
  <2> DEFINE k == Cardinality(Upto(i))
  <2>1. k \in 1..Cardinality(S)
    BY <1>3, <1>5
  <2>2. Kth(S, k) \in S /\ Cardinality(Upto(Kth(S, k))) = k
    BY <1>2, <2>1
  <2> DEFINE j == Kth(S, k)
  <2>3. j \in S /\ Cardinality(Upto(j)) = Cardinality(Upto(i))
    BY <2>2
  <2> HIDE DEF j
  <2>4. i \in Nat /\ j \in Nat
    BY <2>3
  <2>5. ~ (i < j) /\ ~ (j < i)
    BY <1>4, <2>3
  <2>6. j = i
    BY <2>4, <2>5
  <2>7. QED
    BY <2>1, <2>6 DEF j
<1>6. ASSUME NEW k \in 1..Cardinality(S), NEW l \in 1..Cardinality(S),
             Kth(S, k) = Kth(S, l)
      PROVE  k = l
  BY <1>2, <1>6
<1>7. QED
  BY <1>1, <1>5, <1>6

(* The replies of t that a queue holds. *)
HeldIn(q, t) == Cardinality({i \in DOMAIN q : Holds(q[i], t)})

(* Positions of a queue are finitely many, and so are those with a reply.  *)
LEMMA HeldInType ==
  ASSUME NEW q \in Seq(Command), NEW t
  PROVE  /\ IsFiniteSet({i \in DOMAIN q : Holds(q[i], t)})
         /\ HeldIn(q, t) \in Nat
<1>1. IsFiniteSet(DOMAIN q)
  <2>1. DOMAIN q = 1..Len(q) /\ Len(q) \in Nat
    OBVIOUS
  <2>2. QED
    BY <2>1, FS_Interval
<1>2. {i \in DOMAIN q : Holds(q[i], t)} \in SUBSET DOMAIN q
  OBVIOUS
<1>3. IsFiniteSet({i \in DOMAIN q : Holds(q[i], t)})
  BY <1>1, <1>2, FS_Subset
<1>4. QED
  BY <1>3, FS_CardinalityType DEF HeldIn

(* A queue none of whose commands holds a reply holds none. *)
LEMMA NoneHeld ==
  ASSUME NEW q, NEW t, \A i \in DOMAIN q : ~ Holds(q[i], t)
  PROVE  HeldIn(q, t) = 0
<1>1. {i \in DOMAIN q : Holds(q[i], t)} = {}
  OBVIOUS
<1>2. QED
  BY <1>1, FS_EmptySet DEF HeldIn

(* Two queues in a row hold what each of them holds. *)
LEMMA HeldInBoth ==
  ASSUME NEW p \in Seq(Command), NEW q \in Seq(Command), NEW t
  PROVE  HeldIn(p \o q, t) = HeldIn(p, t) + HeldIn(q, t)
<1> DEFINE P == {i \in DOMAIN p : Holds(p[i], t)}
           Q == {i \in DOMAIN q : Holds(q[i], t)}
           R == {i \in DOMAIN (p \o q) : Holds((p \o q)[i], t)}
           Shifted == {i \in R : i > Len(p)}
           f == [i \in Q |-> i + Len(p)]
<1>1. /\ Len(p) \in Nat /\ Len(q) \in Nat
      /\ DOMAIN p = 1..Len(p) /\ DOMAIN q = 1..Len(q)
      /\ DOMAIN (p \o q) = 1..(Len(p) + Len(q))
      /\ \A i \in 1..Len(p) : (p \o q)[i] = p[i]
      /\ \A i \in 1..Len(q) : (p \o q)[i + Len(p)] = q[i]
  OBVIOUS
<1>2. IsFiniteSet(P) /\ IsFiniteSet(Q)
  BY HeldInType
<1>3. f \in [Q -> Shifted]
  BY <1>1
<1>4. \A a, b \in Q : f[a] = f[b] => a = b
  BY <1>1
<1>5. \A y \in Shifted : \E x \in Q : f[x] = y
  <2> SUFFICES ASSUME NEW y \in Shifted PROVE \E x \in Q : f[x] = y
    OBVIOUS
  <2>1. /\ y \in 1..(Len(p) + Len(q)) /\ y > Len(p) /\ Holds((p \o q)[y], t)
    BY <1>1
  <2>2. y - Len(p) \in 1..Len(q) /\ (y - Len(p)) + Len(p) = y
    BY <1>1, <2>1
  <2>3. (p \o q)[y] = q[y - Len(p)]
    BY <1>1, <2>2
  <2>4. y - Len(p) \in Q
    BY <1>1, <2>1, <2>2, <2>3
  <2>5. QED
    BY <2>2, <2>4
<1>6. R = P \cup Shifted /\ P \cap Shifted = {}
  <2>1. \A i \in P : i \in R /\ i <= Len(p)
    BY <1>1
  <2>2. \A i \in R : i \in P \/ i \in Shifted
    BY <1>1
  <2>3. QED
    BY <1>1, <2>1, <2>2
<1> HIDE DEF P, Q, R, Shifted, f
<1>7. IsFiniteSet(Shifted) /\ Cardinality(Shifted) = Cardinality(Q)
  BY <1>2, <1>3, <1>4, <1>5, SameSize
<1>8. Cardinality(R) = Cardinality(P) + Cardinality(Shifted)
  <2>1. Cardinality(P) \in Nat /\ Cardinality(Shifted) \in Nat
    BY <1>2, <1>7, FS_CardinalityType
  <2>2. Cardinality(P \cap Shifted) = 0
    BY <1>6, FS_EmptySet
  <2>3. Cardinality(P \cup Shifted) =
          Cardinality(P) + Cardinality(Shifted) - Cardinality(P \cap Shifted)
    BY <1>2, <1>7, FS_Union
  <2>4. QED
    BY <1>6, <2>1, <2>2, <2>3
<1>9. QED
  BY <1>7, <1>8 DEF HeldIn, P, Q, R

(* One command more... *)
LEMMA HeldInOne ==
  ASSUME NEW c \in Command, NEW t
  PROVE  HeldIn(<<c>>, t) = IF Holds(c, t) THEN 1 ELSE 0
<1>1. CASE Holds(c, t)
  <2>1. {i \in DOMAIN <<c>> : Holds(<<c>>[i], t)} = {1}
    BY <1>1
  <2>2. QED
    BY <1>1, <2>1, FS_Singleton DEF HeldIn
<1>2. CASE ~ Holds(c, t)
  BY <1>2, NoneHeld
<1>3. QED
  BY <1>1, <1>2

(* ... and one less. *)
LEMMA HeldInTail ==
  ASSUME NEW q \in Seq(Command), q # <<>>, NEW t
  PROVE  HeldIn(q, t) = HeldIn(Tail(q), t)
                        + (IF Holds(Head(q), t) THEN 1 ELSE 0)
<1>1. q = <<Head(q)>> \o Tail(q)
  OBVIOUS
<1>2. Head(q) \in Command /\ <<Head(q)>> \in Seq(Command)
      /\ Tail(q) \in Seq(Command)
  OBVIOUS
<1>3. HeldIn(<<Head(q)>> \o Tail(q), t)
        = HeldIn(<<Head(q)>>, t) + HeldIn(Tail(q), t)
  BY <1>2, HeldInBoth
<1>4. HeldIn(Tail(q), t) \in Nat
  BY <1>2, HeldInType
<1>5. HeldIn(<<Head(q)>>, t) = IF Holds(Head(q), t) THEN 1 ELSE 0
  BY <1>2, HeldInOne
<1>6. HeldIn(q, t) = HeldIn(<<Head(q)>>, t) + HeldIn(Tail(q), t)
  BY <1>1, <1>3, Zenon
<1>7. QED
  BY <1>4, <1>5, <1>6

(* A selection holds the replies at the positions selected. *)
LEMMA HeldInPick ==
  ASSUME NEW q \in Seq(Command), NEW S \in SUBSET DOMAIN q, NEW t
  PROVE  HeldIn(Pick(q, S), t) = Cardinality({i \in S : Holds(q[i], t)})
<1> DEFINE K == 1..Cardinality(S)
           P == {k \in K : Holds(q[Kth(S, k)], t)}
           T == {i \in S : Holds(q[i], t)}
           f == [k \in P |-> Kth(S, k)]
<1>1. DOMAIN q = 1..Len(q) /\ Len(q) \in Nat
  OBVIOUS
<1>2. /\ Cardinality(S) \in Nat
      /\ \A i \in S : \E k \in K : Kth(S, k) = i
      /\ \A k, l \in K : Kth(S, k) = Kth(S, l) => k = l
  BY <1>1, KthPairsOff
<1>3. \A k \in K : Kth(S, k) \in S
  BY <1>1, KthType
<1>4. IsFiniteSet(P)
  <2>1. IsFiniteSet(K)
    BY <1>2, FS_Interval
  <2>2. P \in SUBSET K
    OBVIOUS
  <2>3. QED
    BY <2>1, <2>2, FS_Subset
<1>5. f \in [P -> T]
  BY <1>3
<1>6. \A a, b \in P : f[a] = f[b] => a = b
  BY <1>2
<1>7. \A y \in T : \E x \in P : f[x] = y
  BY <1>2
<1>8. {k \in DOMAIN Pick(q, S) : Holds(Pick(q, S)[k], t)} = P
  BY DEF Pick
<1> HIDE DEF P, T, f
<1>9. Cardinality(T) = Cardinality(P)
  BY <1>4, <1>5, <1>6, <1>7, SameSize
<1>10. QED
  BY <1>8, <1>9 DEF HeldIn, T

-----------------------------------------------------------------------------
(* Replies that are held, and callers that wait *)

One(c, t) == IF Holds(c, t) THEN 1 ELSE 0

(* What the queue and the current command hold. *)
LEMMA HeldSplit ==
  ASSUME NEW t
  PROVE  /\ Held(t) = HeldIn(commandQueue, t) + One(currentCommand, t)
         /\ Held(t)' = HeldIn(commandQueue', t) + One(currentCommand', t)
BY DEF Held, HeldIn, One

(* Only Register commands hold a reply. *)
LEMMA OnlyRegisterHolds ==
  ASSUME NEW c \in Command, NEW t, c.type # "Register"
  PROVE  ~ Holds(c, t) /\ One(c, t) = 0
BY DEF Command, PlainTypes, UnregisterTypes, Holds, One

(* The empty command holds none. *)
LEMMA NoCommandHolds ==
  ASSUME NEW t
  PROVE  ~ Holds(NoCommand, t) /\ One(NoCommand, t) = 0
BY NoCommandTyped, OnlyRegisterHolds

(* The commands of an order hold none. *)
LEMMA CommandsForHold ==
  ASSUME NEW type, NEW f, NEW t
  PROVE  HeldIn(CommandsFor(type, f), t) = 0
<1>1. \A i \in DOMAIN CommandsFor(type, f) :
        CommandsFor(type, f)[i].reply = FALSE
  BY DEF CommandsFor, ClientCmd, Cmd
<1>2. QED
  BY <1>1, NoneHeld DEF Holds

(* What is held stays natural. *)
LEMMA HeldType ==
  ASSUME TypeOK, NEW t
  PROVE  HeldIn(commandQueue, t) \in Nat /\ Held(t) \in Nat
<1>1. HeldIn(commandQueue, t) \in Nat
  BY HeldInType DEF TypeOK
<1>2. One(currentCommand, t) \in Nat
  BY DEF One
<1>3. QED
  BY <1>1, <1>2, HeldSplit

(* In the next state as well. *)
LEMMA HeldTypeNext ==
  ASSUME TypeOK', NEW t
  PROVE  HeldIn(commandQueue', t) \in Nat /\ Held(t)' \in Nat
<1>1. HeldIn(commandQueue', t) \in Nat
  BY HeldInType DEF TypeOK
<1>2. One(currentCommand', t) \in Nat
  BY DEF One
<1>3. QED
  BY <1>1, <1>2, HeldSplit

(* A reply more is held for a caller more, a reply less when it is sent.   *)
Balanced(t) == Held(t)' + open[t] = Held(t) + open'[t]

(* Steps that leave the replies alone. *)
LEMMA SameHeld ==
  ASSUME TypeOK, NEW t \in Tokens, UNCHANGED <<currentCommand, open>>,
         HeldIn(commandQueue', t) = HeldIn(commandQueue, t)
  PROVE  Balanced(t)
BY HeldSplit DEF Balanced

(* The front command becomes the current one. *)
LEMMA BeginHeld ==
  ASSUME TypeOK, NEW t \in Tokens, CanProcess, Begin, UNCHANGED open
  PROVE  Balanced(t)
<1>1. HeldIn(commandQueue, t) = HeldIn(Tail(commandQueue), t) + One(Front, t)
  BY HeldInTail DEF CanProcess, TypeOK, One, Front
<1>2. One(currentCommand, t) = 0
  BY NoCommandHolds DEF CanProcess
<1>3. HeldIn(Tail(commandQueue), t) \in Nat
  BY FrontTyped, HeldInType DEF CanProcess, TypeOK
<1>4. commandQueue' = Tail(commandQueue) /\ currentCommand' = Front
  BY DEF Begin
<1>5. QED
  BY <1>1, <1>2, <1>3, <1>4, HeldSplit DEF Balanced, One

(* The front command ends at once. *)
LEMMA FinishHeld ==
  ASSUME TypeOK, NEW t \in Tokens, CanProcess,
         commandQueue' = Tail(commandQueue), UNCHANGED currentCommand,
         open'[t] = open[t] - One(Front, t)
  PROVE  Balanced(t)
<1>1. HeldIn(commandQueue, t) = HeldIn(Tail(commandQueue), t) + One(Front, t)
  BY HeldInTail DEF CanProcess, TypeOK, One, Front
<1>2. /\ HeldIn(Tail(commandQueue), t) \in Nat /\ open[t] \in Int
      /\ One(Front, t) \in Nat /\ One(currentCommand, t) \in Nat
  BY FrontTyped, HeldInType DEF CanProcess, TypeOK, One
<1>3. QED
  BY <1>1, <1>2, HeldSplit DEF Balanced

(* A command ends, and leaves the queue q. *)
LEMMA SettleHeld ==
  ASSUME NEW t, NEW q \in Seq(Command), Settle(q)
  PROVE  Held(t)' = HeldIn(q, t)
<1>1. HeldIn(q, t) \in Nat
  BY HeldInType
<1>2. commandQueue' = q /\ One(currentCommand', t) = 0
  BY NoCommandHolds DEF Settle
<1>3. QED
  BY <1>1, <1>2, HeldSplit

(* Commands that hold no reply. *)
Padding(p) ==
  p \in Seq(Command) /\ \A i \in DOMAIN p : p[i].type # "Register"

LEMMA PaddingOne ==
  ASSUME NEW c \in Command, c.type # "Register"
  PROVE  Padding(<<c>>) /\ Padding(<<>>)
BY DEF Padding

(* They may be in front of the queue, or behind it. *)
LEMMA PaddingInFront ==
  ASSUME NEW p, Padding(p), NEW q \in Seq(Command), NEW t
  PROVE  p \o q \in Seq(Command) /\ HeldIn(p \o q, t) = HeldIn(q, t)
<1>1. p \in Seq(Command)
  BY DEF Padding
<1>2. \A i \in DOMAIN p : ~ Holds(p[i], t)
  BY OnlyRegisterHolds DEF Padding
<1>3. HeldIn(p, t) = 0
  BY <1>1, <1>2, NoneHeld
<1>4. HeldIn(q, t) \in Nat
  BY HeldInType
<1>5. HeldIn(p \o q, t) = HeldIn(p, t) + HeldIn(q, t)
  BY <1>1, HeldInBoth
<1>6. QED
  BY <1>1, <1>3, <1>4, <1>5

LEMMA PaddingBehind ==
  ASSUME NEW p, Padding(p), NEW q \in Seq(Command), NEW t
  PROVE  q \o p \in Seq(Command) /\ HeldIn(q \o p, t) = HeldIn(q, t)
<1>1. p \in Seq(Command)
  BY DEF Padding
<1>2. \A i \in DOMAIN p : ~ Holds(p[i], t)
  BY OnlyRegisterHolds DEF Padding
<1>3. HeldIn(p, t) = 0
  BY <1>1, <1>2, NoneHeld
<1>4. HeldIn(q, t) \in Nat
  BY HeldInType
<1>5. HeldIn(q \o p, t) = HeldIn(q, t) + HeldIn(p, t)
  BY <1>1, HeldInBoth
<1>6. QED
  BY <1>1, <1>3, <1>4, <1>5

(* After the end of the process no reply is held, and no caller waits. *)
LEMMA DieHeld ==
  ASSUME Die, NEW t \in Tokens
  PROVE  Held(t)' = 0 /\ open'[t] = 0
<1>1. HeldIn(<<>>, t) = 0
  BY NoneHeld
<1>2. QED
  BY <1>1, HeldSplit, NoCommandHolds DEF Die

(* doProcessNextCommand() sends the reply of a Register command it gives   *)
(* up, and of no other.                                                    *)
LEMMA ProcessHeld ==
  ASSUME TypeOK, DoProcessNextCommand, ~ ProcessCrash, NEW t \in Tokens
  PROVE  Balanced(t)
<1> USE DEF appVars
<1>1. CASE ProcessNothing
  BY <1>1, SameHeld DEF ProcessNothing
<1>2. CASE \/ ProcessUnheard \/ ProcessRequest \/ ProcessUnsent
           \/ ProcessConnect \/ ProcessDisconnectUnopened \/ ProcessWait
  BY <1>2, BeginHeld
  DEF ProcessUnheard, ProcessRequest, ProcessUnsent, ProcessConnect,
      ProcessDisconnectUnopened, ProcessWait, Processing
<1>3. ASSUME CanProcess, Front.type # "Register", UNCHANGED open,
             commandQueue' = Tail(commandQueue), UNCHANGED currentCommand
      PROVE  Balanced(t)
  <2>1. One(Front, t) = 0
    BY <1>3, FrontTyped, OnlyRegisterHolds DEF CanProcess, TypeOK
  <2>2. open'[t] = open[t] - One(Front, t)
    BY <1>3, <2>1 DEF TypeOK
  <2>3. QED
    BY <1>3, <2>2, FinishHeld
<1>4. CASE \/ ProcessNoCommand \/ ProcessAckOnLink \/ ProcessConnectNoSetup
           \/ ProcessConnectRejected \/ ProcessChangePushProvider
  BY <1>3, <1>4
  DEF ProcessNoCommand, ProcessAckOnLink, ProcessConnectNoSetup,
      ProcessConnectRejected, ProcessChangePushProvider, Processing, Finish
<1>5. CASE ProcessRegisterNoSetup
  <2>1. open'[t] = open[t] - One(Front, t)
    BY <1>5 DEF ProcessRegisterNoSetup, TypeOK, One, Holds
  <2>2. QED
    BY <1>5, <2>1, FinishHeld DEF ProcessRegisterNoSetup, Processing, Finish
<1>6. CASE ProcessDisconnect \/ ProcessChangeUrgency
  <2>1. /\ CanProcess /\ Front.type # "Register" /\ UNCHANGED open
        /\ Begin \/ Finish
    BY <1>6 DEF ProcessDisconnect, ProcessChangeUrgency, Processing
  <2>2. QED
    BY <1>3, <2>1, BeginHeld DEF Finish
<1>7. QED
  BY <1>1, <1>2, <1>4, <1>5, <1>6 DEF DoProcessNextCommand

(* The reply of the current command is sent. *)
LEMMA ReplySentHeld ==
  ASSUME TypeOK, NEW t \in Tokens, open' = ReplySent, Settle(commandQueue)
  PROVE  Balanced(t)
<1>1. open'[t] = open[t] - One(currentCommand, t)
  BY DEF ReplySent, TypeOK, One, Holds
<1>2. Held(t)' = HeldIn(commandQueue, t)
  BY SettleHeld DEF TypeOK
<1>3. HeldIn(commandQueue, t) \in Nat /\ open[t] \in Int
      /\ One(currentCommand, t) \in Nat
  BY HeldType DEF TypeOK, One
<1>4. QED
  BY <1>1, <1>2, <1>3, HeldSplit DEF Balanced

(* A registration that has been made or has failed: the reply of the       *)
(* current command is sent, or kept for the retry.                         *)
LEMMA RegisterAnswerHeld ==
  ASSUME TypeOK, NEW t \in Tokens, NEW s \in Slots,
         \/ ClientRegistered(s) \/ \E err \in Errors : RegisterFailed(s, err)
  PROVE  Balanced(t)
<1>1. CASE ClientRegistered(s)
  BY <1>1, ReplySentHeld DEF ClientRegistered
<1>2. CASE \E err \in Errors : RegisterFailed(s, err)
  <2> DEFINE q == <<Cmd("Wait")>> \o (<<currentCommand>> \o commandQueue)
  <2>1. \/ open' = ReplySent /\ Settle(commandQueue)
        \/ /\ Settle(<<Cmd("Wait"), currentCommand>> \o commandQueue)
           /\ UNCHANGED open
    BY <1>2 DEF RegisterFailed
  <2>2. /\ commandQueue \in Seq(Command) /\ currentCommand \in Command
        /\ Cmd("Wait") \in Command /\ Cmd("Wait").type = "Wait"
    BY CommandTyped DEF TypeOK, PlainTypes, Cmd
  <2>3. <<Cmd("Wait"), currentCommand>> \o commandQueue = q
        /\ <<currentCommand>> \o commandQueue \in Seq(Command)
        /\ <<Cmd("Wait")>> \in Seq(Command) /\ <<currentCommand>> \in Seq(Command)
    BY <2>2
  <2>4. q \in Seq(Command)
        /\ HeldIn(q, t) = HeldIn(<<currentCommand>> \o commandQueue, t)
    <3>1. Padding(<<Cmd("Wait")>>)
      BY <2>2, PaddingOne
    <3>2. QED
      BY <2>3, <3>1, PaddingInFront
  <2>5. HeldIn(<<currentCommand>> \o commandQueue, t)
          = HeldIn(<<currentCommand>>, t) + HeldIn(commandQueue, t)
    BY <2>2, <2>3, HeldInBoth
  <2>6. HeldIn(<<currentCommand>>, t) = One(currentCommand, t)
    BY <2>2, HeldInOne DEF One
  <2> HIDE DEF q
  <2>7. CASE Settle(q) /\ UNCHANGED open
    <3>1. Held(t)' = HeldIn(q, t)
      BY <2>4, <2>7, SettleHeld
    <3>2. HeldIn(commandQueue, t) \in Nat /\ One(currentCommand, t) \in Nat
      BY HeldType DEF One
    <3>3. QED
      BY <2>4, <2>5, <2>6, <2>7, <3>1, <3>2, HeldSplit DEF Balanced
  <2>8. QED
    BY <2>1, <2>3, <2>7, ReplySentHeld
<1>3. QED
  BY <1>1, <1>2

(* An unregistration that has been made or has failed ends the current     *)
(* command without a reply: should that be a Register command its caller   *)
(* waits for nothing from then on.                                         *)
LEMMA UnregisterAnswerHeld ==
  ASSUME TypeOK, NEW t \in Tokens, NEW s \in Slots,
         \/ ClientUnregistered(s) \/ \E err \in Errors : UnregisterFailed(s, err)
  PROVE  /\ UNCHANGED open /\ Held(t)' <= Held(t)
         /\ ~ Holds(currentCommand, t) => Balanced(t)
<1>1. UNCHANGED open
  BY DEF ClientUnregistered, UnregisterFailed
<1>2. \/ Settle(commandQueue)
      \/ commandQueue = <<>> /\ Settle(<<Cmd("Disconnect")>>)
      \/ Settle(<<currentCommand>> \o commandQueue)
  BY DEF ClientUnregistered, UnregisterFailed, RemoveClient
<1>3. /\ commandQueue \in Seq(Command) /\ currentCommand \in Command
      /\ <<currentCommand>> \in Seq(Command)
      /\ <<currentCommand>> \o commandQueue \in Seq(Command)
      /\ open[t] \in Int /\ HeldIn(commandQueue, t) \in Nat
      /\ One(currentCommand, t) \in Nat
      /\ ~ Holds(currentCommand, t) => One(currentCommand, t) = 0
  BY HeldType DEF TypeOK, One
<1>4. CASE Settle(commandQueue)
  <2>1. Held(t)' = HeldIn(commandQueue, t)
    BY <1>3, <1>4, SettleHeld
  <2>2. QED
    BY <1>1, <1>3, <2>1, HeldSplit DEF Balanced
<1>5. CASE commandQueue = <<>> /\ Settle(<<Cmd("Disconnect")>>)
  <2>1. Cmd("Disconnect") \in Command /\ Cmd("Disconnect").type = "Disconnect"
    BY CommandTyped DEF PlainTypes, Cmd
  <2>2. HeldIn(<<Cmd("Disconnect")>>, t) = 0
    BY <2>1, HeldInOne, OnlyRegisterHolds
  <2>3. <<Cmd("Disconnect")>> \in Seq(Command)
    BY <2>1
  <2>4. Held(t)' = 0
    BY <1>5, <2>2, <2>3, SettleHeld
  <2>5. HeldIn(commandQueue, t) = 0
    BY <1>5, NoneHeld
  <2>6. QED
    BY <1>1, <1>3, <2>4, <2>5, HeldSplit DEF Balanced
<1>6. CASE Settle(<<currentCommand>> \o commandQueue)
  <2>1. Held(t)' = HeldIn(<<currentCommand>> \o commandQueue, t)
    BY <1>3, <1>6, SettleHeld
  <2>2. HeldIn(<<currentCommand>> \o commandQueue, t)
          = HeldIn(<<currentCommand>>, t) + HeldIn(commandQueue, t)
    BY <1>3, HeldInBoth
  <2>3. HeldIn(<<currentCommand>>, t) = One(currentCommand, t)
    BY <1>3, HeldInOne DEF One
  <2>4. QED
    BY <1>1, <1>3, <2>1, <2>2, <2>3, HeldSplit DEF Balanced
<1>7. QED
  BY <1>1, <1>2, <1>4, <1>5, <1>6

(* The end of a command that holds no reply, with the queue's replies as   *)
(* before.                                                                 *)
LEMMA EndedHeld ==
  ASSUME TypeOK, NEW t \in Tokens, UNCHANGED open,
         HeldIn(commandQueue', t) = HeldIn(commandQueue, t),
         \/ UNCHANGED currentCommand
         \/ currentCommand.type # "Register" /\ currentCommand' = NoCommand
  PROVE  Balanced(t)
<1>1. One(currentCommand', t) = One(currentCommand, t)
  BY OnlyRegisterHolds, NoCommandHolds DEF TypeOK
<1>2. QED
  BY <1>1, HeldSplit DEF Balanced

(* One command without a reply more. *)
LEMMA AppendHeld ==
  ASSUME NEW q \in Seq(Command), NEW c \in Command, c.type # "Register", NEW t
  PROVE  HeldIn(Append(q, c), t) = HeldIn(q, t)
<1>1. Append(q, c) = q \o <<c>> /\ <<c>> \in Seq(Command)
  OBVIOUS
<1>2. Padding(<<c>>)
  BY PaddingOne
<1>3. HeldIn(q \o <<c>>, t) = HeldIn(q, t)
  BY <1>1, <1>2, PaddingBehind
<1>4. QED
  BY <1>1, <1>3, Zenon

(* An answer sends the reply of a Register command that ends, unless it is *)
(* the answer to an unregistration.                                        *)
LEMMA AnswerHeld ==
  ASSUME TypeOK, Answer, NEW t \in Tokens
  PROVE  \/ Balanced(t)
         \/ /\ Held(t)' <= Held(t) /\ UNCHANGED open
            /\ Holds(currentCommand, t)
            /\ \E s \in Slots : Answering(s, "unregister")
<1>1. PICK s \in Slots :
        \/ ClientRegistered(s) \/ ClientUnregistered(s) \/ MessageAcknowledged(s)
        \/ \E err \in Errors : RegisterFailed(s, err) \/ UnregisterFailed(s, err)
  BY DEF Answer
<1>2. CASE \/ ClientRegistered(s) \/ \E err \in Errors : RegisterFailed(s, err)
  BY <1>2, RegisterAnswerHeld
<1>3. CASE MessageAcknowledged(s)
  <2>1. /\ UNCHANGED <<open, commandQueue>>
        /\ \/ UNCHANGED currentCommand
           \/ currentCommand.type = "MessageAck" /\ currentCommand' = NoCommand
    BY <1>3 DEF MessageAcknowledged, appVars
  <2>2. QED
    BY <2>1, EndedHeld
<1>4. CASE \/ ClientUnregistered(s)
           \/ \E err \in Errors : UnregisterFailed(s, err)
  <2>1. Answering(s, "unregister")
    BY <1>4 DEF ClientUnregistered, UnregisterFailed
  <2>2. QED
    BY <1>4, <2>1, UnregisterAnswerHeld
<1>5. QED
  BY <1>1, <1>2, <1>3, <1>4

(* News of the link leave the replies where they are, behind a reconnect   *)
(* and the command that is deferred.                                       *)
LEMMA LinkHeld ==
  ASSUME TypeOK, Link, NEW t \in Tokens
  PROVE  Balanced(t) \/ Die
<1>1. commandQueue \in Seq(Command) /\ currentCommand \in Command
  BY DEF TypeOK
<1>2. CASE Connected
  <2>1. /\ UNCHANGED open
        /\ \/ UNCHANGED commandQueue
           \/ commandQueue' = Append(commandQueue, Cmd("ChangeUrgency"))
        /\ \/ UNCHANGED currentCommand
           \/ /\ currentCommand.type \in {"Connect", "ChangeUrgency"}
              /\ currentCommand' = NoCommand
    BY <1>2 DEF Connected, appVars
  <2>2. /\ Cmd("ChangeUrgency") \in Command
        /\ Cmd("ChangeUrgency").type # "Register"
    BY CommandTyped DEF PlainTypes, Cmd
  <2>3. HeldIn(commandQueue', t) = HeldIn(commandQueue, t)
    BY <1>1, <2>1, <2>2, AppendHeld
  <2>4. QED
    BY <2>1, <2>3, EndedHeld
<1>3. ASSUME NEW err, ProviderDisconnected(err)
      PROVE  Balanced(t)
  <2>0. UNCHANGED open
    BY <1>3 DEF ProviderDisconnected, appVars
  <2>1. CASE currentCommand.type = "Disconnect"
    <3>1. Settle(commandQueue)
      BY <1>3, <2>1 DEF ProviderDisconnected
    <3>2. QED
      BY <2>0, <2>1, <3>1, EndedHeld DEF Settle
  <2>2. CASE currentCommand.type # "Disconnect"
    <3> DEFINE r == Reconnect(err)
               q == Deferred \o commandQueue
    <3>1. Settle(r \o Deferred \o commandQueue)
      BY <1>3, <2>2 DEF ProviderDisconnected
    <3>2. r \in Seq(Command) /\ Padding(r)
      <4>1. /\ Cmd("Wait") \in Command /\ Cmd("Wait").type # "Register"
            /\ Cmd("Connect") \in Command /\ Cmd("Connect").type # "Register"
        BY CommandTyped DEF PlainTypes, Cmd
      <4>2. QED
        BY <4>1 DEF Reconnect, Padding
    <3>3. /\ Deferred \in Seq(Command) /\ q \in Seq(Command)
          /\ HeldIn(q, t) = One(currentCommand, t) + HeldIn(commandQueue, t)
      <4>1. CASE currentCommand.type \in {"NoCommand", "Connect"}
        <5>1. Deferred = <<>> /\ q = commandQueue
          BY <1>1, <4>1 DEF Deferred
        <5>2. One(currentCommand, t) = 0 /\ HeldIn(commandQueue, t) \in Nat
          BY <1>1, <4>1, OnlyRegisterHolds, HeldInType
        <5>3. QED
          BY <1>1, <5>1, <5>2
      <4>2. CASE currentCommand.type \notin {"NoCommand", "Connect"}
        <5>1. Deferred = <<currentCommand>> /\ Deferred \in Seq(Command)
          BY <1>1, <4>2 DEF Deferred
        <5>2. HeldIn(<<currentCommand>>, t) = One(currentCommand, t)
          BY <1>1, HeldInOne DEF One
        <5>3. HeldIn(q, t) = HeldIn(Deferred, t) + HeldIn(commandQueue, t)
          BY <1>1, <5>1, HeldInBoth
        <5>4. q \in Seq(Command)
          BY <1>1, <5>1
        <5>5. QED
          BY <5>1, <5>2, <5>3, <5>4
      <4>3. QED
        BY <4>1, <4>2
    <3>4. r \o q = r \o Deferred \o commandQueue
      BY <1>1, <3>2, <3>3
    <3> HIDE DEF r, q
    <3>5. r \o q \in Seq(Command) /\ HeldIn(r \o q, t) = HeldIn(q, t)
      BY <3>2, <3>3, PaddingInFront
    <3>6. Held(t)' = HeldIn(r \o q, t)
      BY <3>1, <3>4, <3>5, SettleHeld
    <3>7. One(currentCommand, t) \in Nat /\ HeldIn(commandQueue, t) \in Nat
      BY <1>1, HeldInType DEF One
    <3>8. QED
      BY <2>0, <3>3, <3>5, <3>6, <3>7, HeldSplit DEF Balanced
  <2>3. QED
    BY <2>1, <2>2
<1>4. CASE StreamStarts \/ StreamBrings \/ MessageForNobody \/ HelloRefused
  BY <1>4, SameHeld
  DEF StreamStarts, StreamBrings, MessageForNobody, HelloRefused, queueVars,
      appVars
<1>5. QED
  BY <1>2, <1>3, <1>4
  DEF Link, LinkClosed, LinkClosedCrash, StrayLost, StrayLostCrash, LinkLost

(* The commands a change of provider adds hold no reply, and those it      *)
(* moves are the ones that do.                                             *)
LEMMA MoveQueueHeld ==
  ASSUME TypeOK, NEW id \in ProviderIds, NEW f \in Orders(Registered), NEW t
  PROVE  HeldIn(MoveQueue(id, f), t) = HeldIn(commandQueue, t)
<1> DEFINE change == [Cmd("ChangePushProvider") EXCEPT !.value = id]
           silent == CommandsFor("SilentUnregister", f)
           again == CommandsFor("Register", f)
           q == commandQueue \o silent
           pending == {i \in DOMAIN q : q[i].type = "Register"}
           A == Pick(q, DOMAIN q \ pending)
           B == IF status = "Connected" THEN <<Cmd("Disconnect")>> ELSE <<>>
           D == IF Registered # {} \/ pending # {} THEN <<Cmd("Connect")>>
                                                   ELSE <<>>
           F == Pick(q, pending)
<1>1. commandQueue \in Seq(Command) /\ silent \in Seq(Command)
      /\ again \in Seq(Command)
  BY CommandsForTyped DEF TypeOK, UnregisterTypes
<1>2. q \in Seq(Command) /\ HeldIn(q, t) = HeldIn(commandQueue, t)
  <2>1. HeldIn(silent, t) = 0
    BY CommandsForHold
  <2> HIDE DEF silent
  <2>2. HeldIn(q, t) = HeldIn(commandQueue, t) + HeldIn(silent, t)
    BY <1>1, HeldInBoth
  <2>3. HeldIn(commandQueue, t) \in Nat
    BY <1>1, HeldInType
  <2>4. QED
    BY <1>1, <2>1, <2>2, <2>3
<1> HIDE DEF q
<1>3. A \in Seq(Command) /\ F \in Seq(Command)
  BY <1>2, PickType
<1>4. HeldIn(A, t) = 0
  <2>1. HeldIn(A, t) = Cardinality({i \in DOMAIN q \ pending : Holds(q[i], t)})
    BY <1>2, HeldInPick
  <2>2. \A i \in DOMAIN q \ pending : ~ Holds(q[i], t)
    BY <1>2, OnlyRegisterHolds
  <2>3. {i \in DOMAIN q \ pending : Holds(q[i], t)} = {}
    BY <2>2
  <2>4. QED
    BY <2>1, <2>3, FS_EmptySet
<1>5. HeldIn(F, t) = HeldIn(q, t)
  <2>1. HeldIn(F, t) = Cardinality({i \in pending : Holds(q[i], t)})
    BY <1>2, HeldInPick
  <2>2. \A i \in DOMAIN q : Holds(q[i], t) => q[i].type = "Register"
    BY <1>2, OnlyRegisterHolds
  <2>3. {i \in pending : Holds(q[i], t)} = {i \in DOMAIN q : Holds(q[i], t)}
    BY <2>2
  <2>4. QED
    BY <2>1, <2>3 DEF HeldIn
<1>6. HeldIn(again, t) = 0
  BY CommandsForHold
<1>7. /\ Cmd("Connect") \in Command /\ Cmd("Connect").type # "Register"
      /\ Cmd("Disconnect") \in Command /\ Cmd("Disconnect").type # "Register"
      /\ change \in Command /\ change.type # "Register"
  BY CommandTyped DEF PlainTypes, Cmd
<1> HIDE DEF change
<1>8. MoveQueue(id, f) = A \o B \o <<change>> \o D \o again \o F
  BY DEF MoveQueue, q, change
<1>9. Padding(B) /\ Padding(D) /\ Padding(<<change>>)
  BY <1>7, PaddingOne
<1> HIDE DEF A, B, D, F, again, pending
<1>10. A \o B \in Seq(Command) /\ HeldIn(A \o B, t) = 0
  BY <1>3, <1>4, <1>9, PaddingBehind
<1> DEFINE AC == A \o B \o <<change>>
<1>11. AC \in Seq(Command) /\ HeldIn(AC, t) = 0
  BY <1>9, <1>10, PaddingBehind
<1> HIDE DEF AC
<1> DEFINE AD == AC \o D
<1>12. AD \in Seq(Command) /\ HeldIn(AD, t) = 0
  BY <1>9, <1>11, PaddingBehind
<1> HIDE DEF AD
<1> DEFINE AE == AD \o again
<1>13. AE \in Seq(Command) /\ HeldIn(AE, t) = 0
  BY <1>1, <1>6, <1>12, HeldInBoth
<1> HIDE DEF AE
<1>14. HeldIn(AE \o F, t) = HeldIn(F, t)
  <2>1. HeldIn(AE \o F, t) = HeldIn(AE, t) + HeldIn(F, t)
    BY <1>3, <1>13, HeldInBoth
  <2>2. HeldIn(F, t) \in Nat
    BY <1>3, HeldInType
  <2>3. QED
    BY <1>13, <2>1, <2>2
<1>15. MoveQueue(id, f) = AE \o F
  BY <1>8 DEF AE, AD, AC
<1>16. QED
  BY <1>2, <1>5, <1>14, <1>15

(* Those it puts in front after a failed setup hold none either. *)
LEMMA RecoverQueueHeld ==
  ASSUME TypeOK, NEW id \in ProviderIds, NEW t
  PROVE  HeldIn(RecoverQueue(id), t) = HeldIn(commandQueue, t)
<1> DEFINE change == [Cmd("ChangePushProvider") EXCEPT !.value = id]
           p == <<change>> \o (IF commandQueue # <<>> THEN <<Cmd("Connect")>>
                                                     ELSE <<>>)
<1>1. /\ Cmd("Connect") \in Command /\ Cmd("Connect").type # "Register"
      /\ change \in Command /\ change.type # "Register"
  BY CommandTyped DEF PlainTypes, Cmd
<1>2. commandQueue \in Seq(Command)
  BY DEF TypeOK
<1>3. RecoverQueue(id) = p \o commandQueue
  BY DEF RecoverQueue
<1> HIDE DEF change
<1>4. Padding(p)
  BY <1>1 DEF Padding
<1> HIDE DEF p
<1>5. HeldIn(p \o commandQueue, t) = HeldIn(commandQueue, t)
  BY <1>2, <1>4, PaddingInFront
<1>6. QED
  BY <1>3, <1>5

(* A delivery is acknowledged by a MessageAck command. *)
AcksDelivered == \A d \in deliveries : d.type = "MessageAck"

(* A withdrawal takes a Register command of that token from the queue.     *)
LEMMA WithdrawHeld ==
  ASSUME TypeOK, NEW u \in Tokens, Withdraw(u), NEW t \in Tokens
  PROVE  /\ UNCHANGED open /\ Held(t)' <= Held(t)
         /\ u # t => Balanced(t)
<1>1. PICK i \in DOMAIN commandQueue :
        /\ commandQueue[i].client.token = u
        /\ commandQueue' = Pick(commandQueue, DOMAIN commandQueue \ {i})
  BY DEF Withdraw
<1>2. UNCHANGED <<open, currentCommand>> /\ commandQueue \in Seq(Command)
  BY DEF Withdraw, TypeOK, appVars
<1> DEFINE H == {j \in DOMAIN commandQueue : Holds(commandQueue[j], t)}
           L == {j \in DOMAIN commandQueue \ {i} : Holds(commandQueue[j], t)}
<1>3. HeldIn(commandQueue', t) = Cardinality(L)
  BY <1>1, <1>2, HeldInPick
<1>4. IsFiniteSet(H) /\ HeldIn(commandQueue, t) = Cardinality(H)
  BY <1>2, HeldInType DEF HeldIn
<1>5. L \in SUBSET H /\ (u # t => L = H)
  BY <1>1 DEF Holds
<1> HIDE DEF L, H
<1>6. Cardinality(L) <= Cardinality(H) /\ Cardinality(L) \in Nat
      /\ Cardinality(H) \in Nat
  BY <1>4, <1>5, FS_Subset, FS_CardinalityType
<1>7. One(currentCommand', t) = One(currentCommand, t)
      /\ One(currentCommand, t) \in Nat
  BY <1>2 DEF One
<1>8. Held(t)' <= Held(t)
  BY <1>3, <1>4, <1>6, <1>7, HeldSplit
<1>9. u # t => Balanced(t)
  BY <1>2, <1>3, <1>4, <1>5, SameHeld
<1>10. QED
  BY <1>2, <1>8, <1>9

(* A call that is new brings its reply into the queue; the others leave    *)
(* the replies there, but for the one that is withdrawn.                   *)
LEMMA CallsHeld ==
  ASSUME TypeOK, AcksDelivered, Calls, NEW t \in Tokens
  PROVE  Balanced(t) \/ (Withdraw(t) /\ UNCHANGED open /\ Held(t)' <= Held(t))
<1>1. commandQueue \in Seq(Command)
  BY DEF TypeOK
<1>2. ASSUME NEW u \in Tokens, RegisterNew(u)
      PROVE  Balanced(t)
  <2> DEFINE c == [ClientCmd("Register", NewClient(u)) EXCEPT !.reply = TRUE]
  <2>1. /\ c \in Command /\ c.reply = TRUE /\ c.client.token = u
        /\ Padding(ConnectOnDemand)
    <3>1. NewClient(u) \in Client /\ NewClient(u).token = u
      BY DEF NewClient, Client
    <3>2. Cmd("Connect") \in Command /\ Cmd("Connect").type # "Register"
      BY CommandTyped DEF PlainTypes, Cmd
    <3>3. c \in Command
      BY <3>1, CommandTyped
    <3>4. c.reply = TRUE /\ c.client = NewClient(u)
      BY DEF ClientCmd, Cmd
    <3>5. QED
      BY <3>1, <3>2, <3>3, <3>4, PaddingOne DEF ConnectOnDemand
  <2>2. /\ commandQueue' = commandQueue \o ConnectOnDemand \o <<c>>
        /\ open' = [open EXCEPT ![u] = @ + 1]
        /\ UNCHANGED currentCommand
    BY <1>2 DEF RegisterNew
  <2> HIDE DEF c
  <2> DEFINE q == commandQueue \o ConnectOnDemand
  <2>3. q \in Seq(Command) /\ HeldIn(q, t) = HeldIn(commandQueue, t)
    BY <1>1, <2>1, PaddingBehind
  <2>4. commandQueue' = q \o <<c>> /\ <<c>> \in Seq(Command)
    BY <2>1, <2>2
  <2> HIDE DEF q
  <2>5. HeldIn(commandQueue', t) = HeldIn(q, t) + HeldIn(<<c>>, t)
    BY <2>3, <2>4, HeldInBoth
  <2>6. HeldIn(<<c>>, t) = IF u = t THEN 1 ELSE 0
    BY <2>1, HeldInOne DEF Holds
  <2>7. open'[t] = IF u = t THEN open[t] + 1 ELSE open[t]
    BY <2>2 DEF TypeOK
  <2>8. /\ HeldIn(commandQueue, t) \in Nat /\ open[t] \in Int
        /\ One(currentCommand, t) \in Nat
    BY <1>1, HeldInType DEF TypeOK, One
  <2>9. HeldIn(commandQueue', t) + open[t] = HeldIn(commandQueue, t) + open'[t]
    BY <2>3, <2>5, <2>6, <2>7, <2>8
  <2>10. One(currentCommand', t) = One(currentCommand, t)
    BY <2>2 DEF One
  <2>11. /\ HeldIn(commandQueue', t) \in Nat /\ open'[t] \in Int
    BY <2>3, <2>5, <2>6, <2>7, <2>8
  <2> HIDE DEF Balanced
  <2>12. QED
    BY <2>8, <2>9, <2>10, <2>11, HeldSplit DEF Balanced
<1>3. ASSUME NEW u \in Tokens, RegisterKnown(u)
      PROVE  Balanced(t)
  BY <1>3, SameHeld DEF RegisterKnown, queueVars
<1>4. ASSUME NEW u \in Tokens, Withdraw(u)
      PROVE  Balanced(t)
             \/ (Withdraw(t) /\ UNCHANGED open /\ Held(t)' <= Held(t))
  BY <1>4, WithdrawHeld
<1>5. ASSUME NEW c \in Command, c.type # "Register",
             commandQueue' = Append(commandQueue, c) \/ UNCHANGED commandQueue,
             UNCHANGED <<currentCommand, open>>
      PROVE  Balanced(t)
  BY <1>1, <1>5, AppendHeld, SameHeld
<1>6. ASSUME NEW u \in Tokens, clients[u] # None
      PROVE  clients[u] \in Client
  BY <1>6 DEF TypeOK
<1>7. ASSUME NEW u \in Tokens, NEW type \in {"Unregister", "ForceUnregister"},
             UnregisterClient(u, type)
      PROVE  Balanced(t)
  <2>1. /\ clients[u] # None /\ UNCHANGED <<currentCommand, open>>
        /\ commandQueue' = Append(commandQueue, ClientCmd(type, clients[u]))
    BY <1>7 DEF UnregisterClient, appVars
  <2>2. /\ ClientCmd(type, clients[u]) \in Command
        /\ ClientCmd(type, clients[u]).type # "Register"
    BY <1>6, <2>1, CommandTyped DEF UnregisterTypes, ClientCmd, Cmd
  <2>3. QED
    BY <1>5, <2>1, <2>2
<1>8. ASSUME NEW u \in Tokens, NEW id \in MessageIds, MessageReceived(u, id)
      PROVE  Balanced(t)
  <2>1. /\ clients[u] # None /\ UNCHANGED <<currentCommand, open>>
        /\ \/ commandQueue' = Append(commandQueue, AckCmd(clients[u], id))
           \/ UNCHANGED commandQueue
    BY <1>8 DEF MessageReceived
  <2>2. /\ AckCmd(clients[u], id) \in Command
        /\ AckCmd(clients[u], id).type # "Register"
    BY <1>6, <2>1, CommandTyped DEF AckCmd, Cmd
  <2>3. QED
    BY <1>5, <2>1, <2>2
<1>9. ASSUME NEW a \in Accounts, SetPushProvider(a)
      PROVE  Balanced(t)
  <2>1. ProviderOf[a] \in ProviderIds
    BY DistributorAssumption
  <2>2. /\ \/ \E f \in Orders(Registered) :
                commandQueue' = MoveQueue(ProviderOf[a], f)
           \/ commandQueue' = RecoverQueue(ProviderOf[a])
        /\ \/ UNCHANGED currentCommand
           \/ currentCommand.type = "Wait" /\ currentCommand' = NoCommand
        /\ UNCHANGED open
    BY <1>9 DEF SetPushProvider, appVars
  <2>3. HeldIn(commandQueue', t) = HeldIn(commandQueue, t)
    BY <2>1, <2>2, MoveQueueHeld, RecoverQueueHeld
  <2>4. QED
    BY <2>2, <2>3, EndedHeld
<1>10. ASSUME NEW d \in deliveries, MessageReply(d)
       PROVE  Balanced(t)
  <2>1. d \in Command /\ d.type # "Register"
    BY DEF TypeOK, AcksDelivered
  <2>2. /\ UNCHANGED <<currentCommand, open>>
        /\ commandQueue' = Append(commandQueue, d) \/ UNCHANGED commandQueue
    BY <1>10 DEF MessageReply
  <2>3. QED
    BY <1>5, <2>1, <2>2
<1>11. QED
  BY <1>2, <1>3, <1>4, <1>7, <1>8, <1>9, <1>10 DEF Calls

(* A new process connects, and unregisters what is gone. *)
LEMMA StartQueue ==
  ASSUME NEW gone \in SUBSET Tokens, Start(gone)
  PROVE  \/ UNCHANGED commandQueue
         \/ \A i \in DOMAIN commandQueue' :
              /\ commandQueue'[i].reply = FALSE
              /\ commandQueue'[i].type \in {"Connect", "Unregister"}
<1>1. ASSUME NEW f \in Orders(gone),
             commandQueue' = <<Cmd("Connect")>> \o
               [i \in DOMAIN f |->
                  ClientCmd("Unregister", LoadedClients[f[i]])]
      PROVE  \A i \in DOMAIN commandQueue' :
               /\ commandQueue'[i].reply = FALSE
               /\ commandQueue'[i].type \in {"Connect", "Unregister"}
  <2> DEFINE c == Cmd("Connect")
             g == [i \in DOMAIN f |->
                     ClientCmd("Unregister", LoadedClients[f[i]])]
             n == Cardinality(gone)
             X == {c} \cup {g[i] : i \in 1..n}
             Fits(x) == x.reply = FALSE /\ x.type \in {"Connect", "Unregister"}
  <2>1. n \in Nat
    BY DistributorAssumption, FS_Subset, FS_CardinalityType
  <2>2. DOMAIN f = 1..n
    BY DEF Orders
  <2>3. \A i \in 1..n : Fits(g[i])
    BY <2>2 DEF ClientCmd, Cmd
  <2>4. Fits(c) /\ commandQueue' = <<c>> \o g
    BY <1>1 DEF Cmd
  <2>5. g = [i \in 1..n |-> g[i]]
    BY <2>2
  <2> HIDE DEF c, g, n
  <2>6. c \in X /\ (\A i \in 1..n : g[i] \in X) /\ \A x \in X : Fits(x)
    BY <2>3, <2>4
  <2> HIDE DEF X
  <2>7. g \in Seq(X)
    BY <2>1, <2>5, <2>6
  <2>8. <<c>> \o g \in Seq(X)
    BY <2>6, <2>7
  <2>9. QED
    BY <2>4, <2>6, <2>8
<1>2. \/ UNCHANGED commandQueue
      \/ commandQueue' = <<>>
      \/ \E f \in Orders(gone) :
           commandQueue' = <<Cmd("Connect")>> \o
             [i \in DOMAIN f |-> ClientCmd("Unregister", LoadedClients[f[i]])]
  BY DEF Start
<1>3. CASE commandQueue' = <<>>
  BY <1>3
<1>4. QED
  BY <1>1, <1>2, <1>3

(* A new process starts without replies, network and power touch none.     *)
LEMMA SurroundingsHeld ==
  ASSUME TypeOK, Surroundings, NEW t \in Tokens
  PROVE  \/ Balanced(t)
         \/ Die
         \/ ~alive /\ Held(t)' <= Held(t) /\ UNCHANGED open
<1>1. /\ commandQueue \in Seq(Command)
      /\ Cmd("Connect") \in Command /\ Cmd("Connect").type # "Register"
      /\ Cmd("Disconnect") \in Command /\ Cmd("Disconnect").type # "Register"
      /\ Cmd("ChangeUrgency") \in Command
      /\ Cmd("ChangeUrgency").type # "Register"
  BY CommandTyped DEF TypeOK, PlainTypes, Cmd
<1>2. ASSUME NEW gone \in SUBSET Tokens, Start(gone)
      PROVE  ~alive /\ Held(t)' <= Held(t) /\ UNCHANGED open
  <2>1. ~alive /\ UNCHANGED <<open, currentCommand>>
    BY <1>2 DEF Start, appVars
  <2>2. HeldIn(commandQueue, t) \in Nat
    BY HeldType
  <2>3. HeldIn(commandQueue', t) <= HeldIn(commandQueue, t)
    <3>1. CASE UNCHANGED commandQueue
      <4>1. HeldIn(commandQueue', t) = HeldIn(commandQueue, t)
        BY <3>1
      <4>2. QED
        BY <2>2, <4>1
    <3>2. CASE \A i \in DOMAIN commandQueue' : commandQueue'[i].reply = FALSE
      <4>1. HeldIn(commandQueue', t) = 0
        BY <3>2, NoneHeld DEF Holds
      <4>2. QED
        BY <2>2, <4>1
    <3>3. QED
      BY <1>2, <3>1, <3>2, StartQueue
  <2>4. /\ One(currentCommand, t) \in Nat
        /\ One(currentCommand', t) = One(currentCommand, t)
    BY <2>1 DEF One
  <2>5. HeldIn(commandQueue', t) \in Nat
    BY SurroundingsTyped, HeldTypeNext
  <2>6. QED
    BY <2>1, <2>2, <2>3, <2>4, <2>5, HeldSplit
<1>3. CASE Crash
  BY <1>3 DEF Crash
<1>4. CASE NetworkChange
  <2>1. UNCHANGED <<currentCommand, open>>
    BY <1>4 DEF NetworkChange, appVars
  <2>2. HeldIn(commandQueue', t) = HeldIn(commandQueue, t)
    <3>1. CASE alive
      <4>1. PICK p, q \in {<<>>, <<Cmd("Connect")>>, <<Cmd("Disconnect")>>} :
              commandQueue' = commandQueue \o p \o q
        BY <1>4, <3>1, Zenon DEF NetworkChange
      <4>2. \A r \in {<<>>, <<Cmd("Connect")>>, <<Cmd("Disconnect")>>} : Padding(r)
        BY <1>1, PaddingOne
      <4>3. Padding(p) /\ Padding(q)
        BY <4>2
      <4>4. /\ commandQueue \o p \in Seq(Command)
            /\ HeldIn(commandQueue \o p, t) = HeldIn(commandQueue, t)
        BY <1>1, <4>3, PaddingBehind
      <4>5. HeldIn((commandQueue \o p) \o q, t) = HeldIn(commandQueue \o p, t)
        BY <4>3, <4>4, PaddingBehind
      <4>6. QED
        BY <4>1, <4>4, <4>5, Zenon
    <3>2. CASE ~alive
      <4>1. UNCHANGED commandQueue
        BY <1>4, <3>2 DEF NetworkChange
      <4>2. QED
        BY <4>1, Zenon
    <3>3. QED
      BY <3>1, <3>2
  <2>3. QED
    BY <2>1, <2>2, SameHeld
<1>5. ASSUME NEW u \in Urgencies, SetUrgency(u)
      PROVE  Balanced(t)
  <2>1. /\ UNCHANGED <<currentCommand, open>>
        /\ \/ UNCHANGED commandQueue
           \/ commandQueue' = Append(commandQueue, Cmd("ChangeUrgency"))
    BY <1>5 DEF SetUrgency, appVars
  <2>2. HeldIn(Append(commandQueue, Cmd("ChangeUrgency")), t)
          = HeldIn(commandQueue, t)
    BY <1>1, AppendHeld, Zenon
  <2>3. HeldIn(commandQueue', t) = HeldIn(commandQueue, t)
    BY <2>1, <2>2, Zenon
  <2>4. QED
    BY <2>1, <2>3, SameHeld
<1>6. QED
  BY <1>2, <1>3, <1>4, <1>5 DEF Surroundings

(* Deliveries are answered or lost; only a message that is received makes  *)
(* one.                                                                    *)
LEMMA AcksAreDelivered == Spec => []AcksDelivered
<1>1. Init => AcksDelivered
  BY DEF Init, AcksDelivered
<1>2. AcksDelivered /\ [Next]_vars => AcksDelivered'
  <2> SUFFICES ASSUME AcksDelivered, [Next]_vars PROVE AcksDelivered'
    OBVIOUS
  <2> USE DEF AcksDelivered, appVars
  <2>1. Die => AcksDelivered'
    BY DEF Die
  <2>2. CASE DoProcessNextCommand
    BY <2>1, <2>2
    DEF DoProcessNextCommand, ProcessNothing, ProcessCrash, ProcessUnheard,
        ProcessNoCommand, ProcessRegisterNoSetup, ProcessRequest,
        ProcessUnsent, ProcessAckOnLink, ProcessConnectNoSetup, ProcessConnect,
        ProcessConnectRejected, ProcessDisconnect, ProcessDisconnectUnopened,
        ProcessChangePushProvider, ProcessChangeUrgency, ProcessWait
  <2>3. CASE RetryTimeout
    BY <2>3 DEF RetryTimeout
  <2>4. CASE Answer
    BY <2>4
    DEF Answer, ClientRegistered, ClientUnregistered, MessageAcknowledged,
        RegisterFailed, UnregisterFailed
  <2>5. CASE Link
    BY <2>1, <2>5
    DEF Link, StreamStarts, StreamBrings, MessageForNobody, HelloRefused,
        Connected, LinkClosed, LinkClosedCrash, StrayLost, StrayLostCrash,
        LinkLost, ProviderDisconnected
  <2>6. CASE Calls
    <3>1. ASSUME NEW t \in Tokens, NEW id \in MessageIds, MessageReceived(t, id)
          PROVE  AcksDelivered'
      BY <3>1 DEF MessageReceived, AckCmd, Cmd
    <3>2. QED
      BY <2>6, <3>1
      DEF Calls, RegisterNew, RegisterKnown, Withdraw, UnregisterClient,
          SetPushProvider, MessageReply
  <2>7. CASE Surroundings
    BY <2>1, <2>7 DEF Surroundings, Start, Crash, NetworkChange, SetUrgency
  <2>8. CASE UNCHANGED vars
    BY <2>8 DEF vars
  <2>9. QED
    BY <2>2, <2>3, <2>4, <2>5, <2>6, <2>7, <2>8 DEF Next
<1>3. QED
  BY <1>1, <1>2, PTL DEF Spec

(* The end of a wait. *)
LEMMA RetryHeld ==
  ASSUME TypeOK, RetryTimeout, NEW t \in Tokens
  PROVE  Balanced(t)
<1>1. /\ UNCHANGED <<commandQueue, open>>
      /\ \/ UNCHANGED currentCommand
         \/ currentCommand.type = "Wait" /\ currentCommand' = NoCommand
  BY DEF RetryTimeout, appVars
<1>2. QED
  BY <1>1, EndedHeld

(* In every step a reply more is held for a caller more, and a reply less  *)
(* with each that is sent.  Otherwise the replies are lost with the        *)
(* process, with an Unregister call, or with an answer to an               *)
(* unregistration that ends a Register command.                            *)
LEMMA NextHeld ==
  ASSUME TypeOK, AcksDelivered, [Next]_vars, NEW t \in Tokens
  PROVE  \/ Balanced(t)
         \/ Die
         \/ /\ Held(t)' <= Held(t) /\ UNCHANGED open
            /\ \/ Withdraw(t)
               \/ ~alive
               \/ /\ Holds(currentCommand, t)
                  /\ \E s \in Slots : Answering(s, "unregister")
<1>1. CASE DoProcessNextCommand
  BY <1>1, ProcessHeld DEF ProcessCrash
<1>2. CASE RetryTimeout
  BY <1>2, RetryHeld
<1>3. CASE Answer
  BY <1>3, AnswerHeld
<1>4. CASE Link
  BY <1>4, LinkHeld
<1>5. CASE Calls
  BY <1>5, CallsHeld
<1>6. CASE Surroundings
  BY <1>6, SurroundingsHeld
<1>7. CASE UNCHANGED vars
  BY <1>7, SameHeld DEF vars, queueVars, appVars
<1>8. QED
  BY <1>1, <1>2, <1>3, <1>4, <1>5, <1>6, <1>7 DEF Next

(* Whatever is retried, deferred, moved or withdrawn: each Register reply  *)
(* that is held belongs to a call that waits, so that no call is answered  *)
(* twice.                                                                  *)
THEOREM NoCallAnsweredTwice == Spec => []OneReplyEach
<1>1. Init => OneReplyEach
  <2> SUFFICES ASSUME Init, NEW t \in Tokens PROVE Held(t) <= open[t]
    BY DEF OneReplyEach
  <2>1. commandQueue = <<>> /\ currentCommand = NoCommand /\ open[t] = 0
    BY DEF Init
  <2>2. HeldIn(commandQueue, t) = 0 /\ One(currentCommand, t) = 0
    BY <2>1, NoneHeld, NoCommandHolds
  <2>3. QED
    BY <2>1, <2>2, HeldSplit
<1>2. TypeOK /\ AcksDelivered /\ OneReplyEach /\ [Next]_vars => OneReplyEach'
  <2> SUFFICES ASSUME TypeOK, AcksDelivered, OneReplyEach, [Next]_vars,
                      NEW t \in Tokens
               PROVE  Held(t)' <= open'[t]
    BY DEF OneReplyEach
  <2>1. TypeOK'
    BY NextTyped
  <2>2. /\ Held(t) \in Nat /\ Held(t)' \in Nat
        /\ open[t] \in Int /\ open'[t] \in Int /\ Held(t) <= open[t]
    BY <2>1, HeldType, HeldTypeNext DEF TypeOK, OneReplyEach
  <2>3. CASE Balanced(t)
    BY <2>2, <2>3 DEF Balanced
  <2>4. CASE Die
    BY <2>4, DieHeld
  <2>5. CASE Held(t)' <= Held(t) /\ UNCHANGED open
    BY <2>2, <2>5
  <2>6. QED
    BY <2>3, <2>4, <2>5, NextHeld
<1>3. QED
  BY <1>1, <1>2, TypeCorrect, AcksAreDelivered, PTL DEF Spec

-----------------------------------------------------------------------------
(* A change of provider stays queued until it is carried out *)

ChangeIn(q) == \E i \in DOMAIN q : q[i].type = "ChangePushProvider"

(* Two queues in a row have it if one of them has. *)
LEMMA ChangeInBoth ==
  ASSUME NEW p \in Seq(Command), NEW q \in Seq(Command)
  PROVE  ChangeIn(p \o q) <=> ChangeIn(p) \/ ChangeIn(q)
<1>1. /\ Len(p) \in Nat /\ Len(q) \in Nat
      /\ DOMAIN p = 1..Len(p) /\ DOMAIN q = 1..Len(q)
      /\ DOMAIN (p \o q) = 1..(Len(p) + Len(q))
      /\ \A i \in 1..Len(p) : (p \o q)[i] = p[i]
      /\ \A i \in 1..Len(q) : (p \o q)[i + Len(p)] = q[i]
  OBVIOUS
<1>2. ASSUME NEW i \in DOMAIN p, p[i].type = "ChangePushProvider"
      PROVE  ChangeIn(p \o q)
  BY <1>1, <1>2 DEF ChangeIn
<1>3. ASSUME NEW i \in DOMAIN q, q[i].type = "ChangePushProvider"
      PROVE  ChangeIn(p \o q)
  <2>1. i + Len(p) \in DOMAIN (p \o q) /\ (p \o q)[i + Len(p)] = q[i]
    BY <1>1
  <2>2. QED
    BY <1>3, <2>1 DEF ChangeIn
<1>4. ASSUME NEW i \in DOMAIN (p \o q),
             (p \o q)[i].type = "ChangePushProvider"
      PROVE  ChangeIn(p) \/ ChangeIn(q)
  <2>1. CASE i \in 1..Len(p)
    BY <1>1, <1>4, <2>1 DEF ChangeIn
  <2>2. CASE i \notin 1..Len(p)
    <3>1. i - Len(p) \in 1..Len(q) /\ (i - Len(p)) + Len(p) = i
      BY <1>1, <2>2
    <3>2. (p \o q)[i] = q[i - Len(p)]
      BY <1>1, <3>1
    <3>3. QED
      BY <1>1, <1>4, <3>1, <3>2 DEF ChangeIn
  <2>3. QED
    BY <2>1, <2>2
<1>5. QED
  BY <1>2, <1>3, <1>4 DEF ChangeIn

(* The end of another command leaves it. *)
LEMMA ChangeInTail ==
  ASSUME NEW q \in Seq(Command), q # <<>>, ChangeIn(q),
         Head(q).type # "ChangePushProvider"
  PROVE  ChangeIn(Tail(q))
<1>1. q = <<Head(q)>> \o Tail(q) /\ Head(q) \in Command
      /\ <<Head(q)>> \in Seq(Command) /\ Tail(q) \in Seq(Command)
  OBVIOUS
<1>2. ~ ChangeIn(<<Head(q)>>)
  BY DEF ChangeIn
<1>3. ChangeIn(<<Head(q)>> \o Tail(q))
  BY <1>1, Zenon
<1>4. ChangeIn(<<Head(q)>>) \/ ChangeIn(Tail(q))
  BY <1>1, <1>3, ChangeInBoth
<1>5. QED
  BY <1>2, <1>4

(* A selection that leaves it out does not exist for a Register command.   *)
LEMMA ChangeInPick ==
  ASSUME NEW q \in Seq(Command), ChangeIn(q), NEW S \in SUBSET DOMAIN q,
         \A i \in DOMAIN q \ S : q[i].type # "ChangePushProvider"
  PROVE  ChangeIn(Pick(q, S))
<1>1. PICK i \in DOMAIN q : q[i].type = "ChangePushProvider"
  BY DEF ChangeIn
<1>2. i \in S /\ DOMAIN q = 1..Len(q) /\ Len(q) \in Nat
  BY <1>1
<1>3. PICK k \in 1..Cardinality(S) : Kth(S, k) = i
  BY <1>2, KthPairsOff
<1>4. k \in DOMAIN Pick(q, S) /\ Pick(q, S)[k] = q[i]
  BY <1>3 DEF Pick
<1>5. QED
  BY <1>1, <1>4 DEF ChangeIn

(* With the provider, its account and the stored choice as before, it is   *)
(* enough that a change stays queued.                                      *)
LEMMA SameConfigInUse ==
  ASSUME ConfigInUse,
         UNCHANGED <<alive, provider, account, storedProvider, storedConfig>>,
         HasSetup' => HasSetup,
         ChangeIn(commandQueue) => ChangeIn(commandQueue')
  PROVE  ConfigInUse'
BY DEF ConfigInUse, ChangeIn, Queued

(* A process that has ended uses no configuration. *)
LEMMA DieConfigInUse ==
  ASSUME Die
  PROVE  ConfigInUse'
BY DEF Die, ConfigInUse

(* doProcessNextCommand() takes the change from the queue when it carries  *)
(* it out, and loads the configuration that is stored by then.             *)
LEMMA ProcessConfigInUse ==
  ASSUME TypeOK, ConfigInUse, DoProcessNextCommand
  PROVE  ConfigInUse'
<1> USE DEF surroundings, registry, storeVars, linkVars, objectVars, HasSetup
<1>1. CASE ProcessCrash
  BY <1>1, DieConfigInUse DEF ProcessCrash
<1>2. CASE ProcessNothing
  BY <1>2, SameConfigInUse DEF ProcessNothing
<1>3. ASSUME CanProcess, Front.type # "ChangePushProvider",
             commandQueue' = Tail(commandQueue), HasSetup' => HasSetup,
             UNCHANGED <<alive, provider, account, storedProvider, storedConfig>>
      PROVE  ConfigInUse'
  <2>1. ChangeIn(commandQueue) => ChangeIn(commandQueue')
    BY <1>3, ChangeInTail DEF CanProcess, TypeOK, Front
  <2>2. QED
    BY <1>3, <2>1, SameConfigInUse
<1>4. CASE \/ ProcessUnheard \/ ProcessNoCommand \/ ProcessRegisterNoSetup
           \/ ProcessRequest \/ ProcessUnsent \/ ProcessAckOnLink
           \/ ProcessConnectNoSetup \/ ProcessConnect
           \/ ProcessDisconnectUnopened \/ ProcessChangeUrgency \/ ProcessWait
  <2>1. /\ CanProcess /\ Front.type # "ChangePushProvider"
        /\ commandQueue' = Tail(commandQueue) /\ UNCHANGED status
        /\ UNCHANGED <<alive, provider, account, storedProvider, storedConfig>>
    BY <1>4
    DEF ProcessUnheard, ProcessNoCommand, ProcessRegisterNoSetup,
        ProcessRequest, ProcessUnsent, ProcessAckOnLink,
        ProcessConnectNoSetup, ProcessConnect, ProcessDisconnectUnopened,
        ProcessChangeUrgency, ProcessWait, Processing, Begin, Finish, Unheard,
        UnregisterTypes
  <2>2. QED
    BY <1>3, <2>1
<1>5. CASE ProcessDisconnect \/ ProcessConnectRejected
  <2>1. /\ CanProcess /\ Front.type # "ChangePushProvider" /\ HasSetup
        /\ commandQueue' = Tail(commandQueue)
        /\ UNCHANGED <<alive, provider, account, storedProvider, storedConfig>>
    BY <1>5
    DEF ProcessDisconnect, ProcessConnectRejected, Processing, Begin, Finish
  <2>2. QED
    BY <1>3, <2>1
<1>6. CASE ProcessChangePushProvider
  <2>1. CASE SetupWorks(Front.value, storedConfig[Front.value])
    <3>1. /\ provider' = Front.value /\ storedProvider' = Front.value
          /\ account' = storedConfig[Front.value] /\ UNCHANGED storedConfig
      BY <1>6, <2>1
      DEF ProcessChangePushProvider, SetupPushProvider, SetupWorks
    <3>2. QED
      BY <3>1 DEF ConfigInUse
  <2>2. CASE ~ SetupWorks(Front.value, storedConfig[Front.value])
    BY <1>6, <2>2 DEF ProcessChangePushProvider, ConfigInUse
  <2>3. QED
    BY <2>1, <2>2
<1>7. QED
  BY <1>1, <1>2, <1>4, <1>5, <1>6 DEF DoProcessNextCommand

(* Answers, and news of the link, put commands in front of the queue or    *)
(* leave it alone.                                                         *)
LEMMA ProviderConfigInUse ==
  ASSUME TypeOK, ConfigInUse, Answer \/ Link
  PROVE  ConfigInUse'
<1> USE DEF surroundings, registry, storeVars, linkVars, objectVars, HasSetup
<1>1. /\ commandQueue \in Seq(Command) /\ currentCommand \in Command
      /\ <<currentCommand>> \in Seq(Command)
      /\ Cmd("Wait") \in Command /\ Cmd("Connect") \in Command
      /\ Cmd("ChangeUrgency") \in Command
  BY CommandTyped DEF TypeOK, PlainTypes
<1>2. ASSUME NEW p \in Seq(Command), commandQueue' = p \o commandQueue
      PROVE  ChangeIn(commandQueue) => ChangeIn(commandQueue')
  BY <1>1, <1>2, ChangeInBoth
<1>3. CASE Answer
  <2>1. PICK s \in Slots :
          \/ ClientRegistered(s) \/ ClientUnregistered(s)
          \/ MessageAcknowledged(s)
          \/ \E err \in Errors : RegisterFailed(s, err) \/ UnregisterFailed(s, err)
    BY <1>3 DEF Answer
  <2>2. /\ UNCHANGED <<alive, status, provider, account, storedProvider,
                       storedConfig>>
        /\ \/ UNCHANGED commandQueue
           \/ commandQueue = <<>>
           \/ commandQueue' = <<currentCommand>> \o commandQueue
           \/ commandQueue' = <<Cmd("Wait"), currentCommand>> \o commandQueue
    BY <2>1
    DEF ClientRegistered, ClientUnregistered, MessageAcknowledged,
        RegisterFailed, UnregisterFailed, RemoveClient, Settle
  <2>3. <<Cmd("Wait"), currentCommand>> \in Seq(Command)
    BY <1>1
  <2>4. commandQueue = <<>> => ~ ChangeIn(commandQueue)
    BY DEF ChangeIn
  <2>5. ChangeIn(commandQueue) => ChangeIn(commandQueue')
    BY <1>1, <1>2, <2>2, <2>3, <2>4
  <2>6. QED
    BY <2>2, <2>5, SameConfigInUse
<1>4. CASE Connected
  <2>1. /\ UNCHANGED <<alive, provider, account, storedProvider, storedConfig>>
        /\ HasSetup
        /\ \/ UNCHANGED commandQueue
           \/ commandQueue' = Append(commandQueue, Cmd("ChangeUrgency"))
    BY <1>4 DEF Connected
  <2>2. Append(commandQueue, Cmd("ChangeUrgency"))
          = commandQueue \o <<Cmd("ChangeUrgency")>>
        /\ <<Cmd("ChangeUrgency")>> \in Seq(Command)
    BY <1>1
  <2>3. ChangeIn(commandQueue) =>
          ChangeIn(commandQueue \o <<Cmd("ChangeUrgency")>>)
    BY <1>1, <2>2, ChangeInBoth
  <2>4. ChangeIn(commandQueue) => ChangeIn(commandQueue')
    BY <2>1, <2>2, <2>3, Zenon
  <2>5. QED
    BY <2>1, <2>4, SameConfigInUse
<1>5. ASSUME NEW err, ProviderDisconnected(err), alive, HasSetup, UNCHANGED alive
      PROVE  ConfigInUse'
  <2>1. /\ UNCHANGED <<alive, provider, account, storedProvider, storedConfig>>
        /\ \/ UNCHANGED commandQueue
           \/ commandQueue' = Reconnect(err) \o Deferred \o commandQueue
    BY <1>5 DEF ProviderDisconnected, Settle
  <2> DEFINE p == Reconnect(err) \o Deferred
  <2>2. p \in Seq(Command)
    BY <1>1 DEF Reconnect, Deferred
  <2>3. UNCHANGED commandQueue \/ commandQueue' = p \o commandQueue
    BY <2>1
  <2> HIDE DEF p
  <2>4. CASE commandQueue' = p \o commandQueue
    BY <1>2, <1>5, <2>1, <2>2, <2>4, SameConfigInUse
  <2>5. CASE UNCHANGED commandQueue
    BY <1>5, <2>1, <2>5, SameConfigInUse
  <2>6. QED
    BY <2>3, <2>4, <2>5
<1>6. CASE LinkClosed \/ StrayLost \/ \E err \in Errors : LinkLost(err)
  BY <1>5, <1>6 DEF LinkClosed, StrayLost, LinkLost, ProviderDisconnected
<1>7. CASE LinkClosedCrash \/ StrayLostCrash
  BY <1>7, DieConfigInUse DEF LinkClosedCrash, StrayLostCrash
<1>8. CASE StreamStarts \/ StreamBrings \/ MessageForNobody \/ HelloRefused
  BY <1>8, SameConfigInUse
  DEF StreamStarts, StreamBrings, MessageForNobody, HelloRefused, queueVars
<1>9. QED
  BY <1>3, <1>4, <1>6, <1>7, <1>8 DEF Link

(* The queue setPushProvider() leaves has the change. *)
LEMMA MovedQueueHasChange ==
  ASSUME TypeOK, NEW id \in ProviderIds, NEW f \in Orders(Registered)
  PROVE  ChangeIn(MoveQueue(id, f))
<1> DEFINE change == [Cmd("ChangePushProvider") EXCEPT !.value = id]
           again == CommandsFor("Register", f)
           q == commandQueue \o CommandsFor("SilentUnregister", f)
           pending == {i \in DOMAIN q : q[i].type = "Register"}
           A == Pick(q, DOMAIN q \ pending)
           B == IF status = "Connected" THEN <<Cmd("Disconnect")>> ELSE <<>>
           D == IF Registered # {} \/ pending # {} THEN <<Cmd("Connect")>>
                                                   ELSE <<>>
           F == Pick(q, pending)
<1>1. /\ commandQueue \in Seq(Command)
      /\ CommandsFor("SilentUnregister", f) \in Seq(Command)
      /\ again \in Seq(Command)
      /\ Cmd("Connect") \in Command /\ Cmd("Disconnect") \in Command
      /\ change \in Command /\ change.type = "ChangePushProvider"
  BY CommandsForTyped, CommandTyped DEF TypeOK, UnregisterTypes, PlainTypes, Cmd
<1>2. q \in Seq(Command)
  BY <1>1
<1>3. MoveQueue(id, f) = A \o B \o <<change>> \o D \o again \o F
  BY DEF MoveQueue
<1> HIDE DEF q, change, again
<1>4. A \in Seq(Command) /\ F \in Seq(Command)
  BY <1>2, PickType
<1>5. B \in Seq(Command) /\ D \in Seq(Command)
  BY <1>1
<1> HIDE DEF pending, A, B, D, F
<1>6. <<change>> \in Seq(Command) /\ ChangeIn(<<change>>)
  BY <1>1 DEF ChangeIn
<1>7. /\ A \o B \in Seq(Command) /\ A \o B \o <<change>> \in Seq(Command)
      /\ A \o B \o <<change>> \o D \in Seq(Command)
      /\ A \o B \o <<change>> \o D \o again \in Seq(Command)
  BY <1>1, <1>4, <1>5, <1>6
<1>8. ChangeIn(A \o B \o <<change>>)
  BY <1>6, <1>7, ChangeInBoth
<1>9. ChangeIn(A \o B \o <<change>> \o D)
  BY <1>5, <1>7, <1>8, ChangeInBoth
<1>10. ChangeIn(A \o B \o <<change>> \o D \o again)
  BY <1>1, <1>7, <1>9, ChangeInBoth
<1>11. ChangeIn(A \o B \o <<change>> \o D \o again \o F)
  BY <1>4, <1>7, <1>10, ChangeInBoth
<1>12. QED
  BY <1>3, <1>11, Zenon

(* So has the queue it leaves after a failed setup. *)
LEMMA RecoverQueueHasChange ==
  ASSUME TypeOK, NEW id \in ProviderIds
  PROVE  ChangeIn(RecoverQueue(id))
<1> DEFINE change == [Cmd("ChangePushProvider") EXCEPT !.value = id]
           r == (IF commandQueue # <<>> THEN <<Cmd("Connect")>> ELSE <<>>)
<1>1. /\ commandQueue \in Seq(Command) /\ Cmd("Connect") \in Command
      /\ change \in Command /\ change.type = "ChangePushProvider"
  BY CommandTyped DEF TypeOK, PlainTypes, Cmd
<1>2. RecoverQueue(id) = <<change>> \o r \o commandQueue
  BY DEF RecoverQueue
<1> HIDE DEF change
<1>3. <<change>> \in Seq(Command) /\ r \in Seq(Command)
      /\ <<change>> \o r \in Seq(Command) /\ ChangeIn(<<change>>)
  BY <1>1 DEF ChangeIn
<1> HIDE DEF r
<1>4. ChangeIn(<<change>> \o r)
  BY <1>3, ChangeInBoth
<1>5. ChangeIn((<<change>> \o r) \o commandQueue)
  BY <1>1, <1>3, <1>4, ChangeInBoth
<1>6. QED
  BY <1>2, <1>5

(* A call that changes the stored configuration queues the change; the     *)
(* others keep what is queued, but for a Register command.                 *)
LEMMA CallsConfigInUse ==
  ASSUME TypeOK, ConfigInUse, Calls
  PROVE  ConfigInUse'
<1> USE DEF surroundings, registry, storeVars, linkVars, objectVars, HasSetup
<1>1. commandQueue \in Seq(Command)
  BY DEF TypeOK
<1>2. ASSUME NEW t \in Tokens, RegisterNew(t)
      PROVE  ConfigInUse'
  <2> DEFINE c == [ClientCmd("Register", NewClient(t)) EXCEPT !.reply = TRUE]
  <2>1. NewClient(t) \in Client
    BY DEF NewClient, Client
  <2>2. c \in Command /\ ConnectOnDemand \in Seq(Command)
    BY <2>1, CommandTyped DEF ConnectOnDemand, PlainTypes
  <2>3. /\ commandQueue' = commandQueue \o ConnectOnDemand \o <<c>>
        /\ UNCHANGED <<alive, status, provider, account, storedProvider,
                       storedConfig>>
    BY <1>2 DEF RegisterNew
  <2> HIDE DEF c
  <2>4. /\ commandQueue \o ConnectOnDemand \in Seq(Command)
        /\ <<c>> \in Seq(Command)
    BY <1>1, <2>2
  <2>5. ChangeIn(commandQueue) => ChangeIn(commandQueue \o ConnectOnDemand)
    BY <1>1, <2>2, ChangeInBoth
  <2>6. ChangeIn(commandQueue \o ConnectOnDemand) => ChangeIn(commandQueue')
    BY <2>3, <2>4, ChangeInBoth
  <2>7. QED
    BY <2>3, <2>5, <2>6, SameConfigInUse
<1>3. ASSUME NEW c \in Command,
             commandQueue' = Append(commandQueue, c) \/ UNCHANGED commandQueue,
             UNCHANGED <<alive, status, provider, account, storedProvider,
                         storedConfig>>
      PROVE  ConfigInUse'
  <2>1. Append(commandQueue, c) = commandQueue \o <<c>>
        /\ <<c>> \in Seq(Command)
    BY <1>1
  <2>2. ChangeIn(commandQueue) => ChangeIn(commandQueue \o <<c>>)
    BY <1>1, <2>1, ChangeInBoth
  <2>3. ChangeIn(commandQueue) => ChangeIn(commandQueue')
    BY <1>3, <2>1, <2>2, Zenon
  <2>4. QED
    BY <1>3, <2>3, SameConfigInUse
<1>4. \A t \in Tokens : clients[t] # None => clients[t] \in Client
  BY DEF TypeOK
<1>5. ASSUME NEW t \in Tokens, RegisterKnown(t)
      PROVE  ConfigInUse'
  BY <1>5, SameConfigInUse DEF RegisterKnown, queueVars
<1>6. ASSUME NEW t \in Tokens, NEW type \in {"Unregister", "ForceUnregister"},
             UnregisterClient(t, type)
      PROVE  ConfigInUse'
  <2>1. ClientCmd(type, clients[t]) \in Command
    BY <1>4, <1>6, CommandTyped DEF UnregisterClient, UnregisterTypes
  <2>2. QED
    BY <1>3, <1>6, <2>1 DEF UnregisterClient
<1>7. ASSUME NEW t \in Tokens, NEW id \in MessageIds, MessageReceived(t, id)
      PROVE  ConfigInUse'
  <2>1. AckCmd(clients[t], id) \in Command
    BY <1>4, <1>7, CommandTyped DEF MessageReceived
  <2>2. QED
    BY <1>3, <1>7, <2>1 DEF MessageReceived
<1>8. ASSUME NEW d \in deliveries, MessageReply(d)
      PROVE  ConfigInUse'
  BY <1>3, <1>8 DEF MessageReply, TypeOK
<1>9. ASSUME NEW t \in Tokens, Withdraw(t)
      PROVE  ConfigInUse'
  <2>1. PICK i \in DOMAIN commandQueue :
          /\ commandQueue[i].type = "Register"
          /\ commandQueue' = Pick(commandQueue, DOMAIN commandQueue \ {i})
    BY <1>9 DEF Withdraw
  <2>2. ChangeIn(commandQueue) => ChangeIn(commandQueue')
    BY <1>1, <2>1, ChangeInPick
  <2>3. QED
    BY <1>9, <2>2, SameConfigInUse DEF Withdraw
<1>10. ASSUME NEW a \in Accounts, SetPushProvider(a)
       PROVE  ConfigInUse'
  <2>1. ProviderOf[a] \in ProviderIds
    BY DistributorAssumption
  <2>2. \/ \E f \in Orders(Registered) :
             commandQueue' = MoveQueue(ProviderOf[a], f)
        \/ commandQueue' = RecoverQueue(ProviderOf[a])
    BY <1>10 DEF SetPushProvider
  <2>3. ChangeIn(commandQueue')
    <3>1. CASE \E f \in Orders(Registered) :
                 commandQueue' = MoveQueue(ProviderOf[a], f)
      BY <2>1, <3>1, MovedQueueHasChange
    <3>2. CASE commandQueue' = RecoverQueue(ProviderOf[a])
      BY <2>1, <3>2, RecoverQueueHasChange
    <3>3. QED
      BY <2>2, <3>1, <3>2
  <2>4. QED
    BY <2>3 DEF ConfigInUse, ChangeIn, Queued
<1>11. QED
  BY <1>2, <1>5, <1>6, <1>7, <1>8, <1>9, <1>10 DEF Calls

(* A new process loads the configuration that is stored. *)
LEMMA SurroundingsConfigInUse ==
  ASSUME TypeOK, ConfigInUse, Surroundings
  PROVE  ConfigInUse'
<1> USE DEF registry, storeVars, linkVars, objectVars, HasSetup
<1>1. commandQueue \in Seq(Command)
  BY DEF TypeOK
<1>2. ASSUME NEW gone \in SUBSET Tokens, Start(gone)
      PROVE  ConfigInUse'
  <2>1. CASE SetupWorks(storedProvider, storedConfig[storedProvider])
    <3>1. /\ provider' = storedProvider /\ UNCHANGED <<storedProvider, storedConfig>>
          /\ account' = storedConfig[storedProvider]
      BY <1>2, <2>1 DEF Start, SetupPushProvider, SetupWorks
    <3>2. QED
      BY <3>1 DEF ConfigInUse
  <2>2. CASE ~ SetupWorks(storedProvider, storedConfig[storedProvider])
    BY <1>2, <2>2 DEF Start, ConfigInUse
  <2>3. QED
    BY <2>1, <2>2
<1>3. CASE Crash
  BY <1>3, DieConfigInUse DEF Crash
<1>4. CASE NetworkChange
  <2>1. UNCHANGED <<alive, status, provider, account, storedProvider,
                    storedConfig>>
    BY <1>4 DEF NetworkChange
  <2>2. CASE alive
    <3> DEFINE p == IF network' /\ Registered # {} /\ status # "Connected"
                    THEN <<Cmd("Connect")>> ELSE <<>>
               q == IF ~network' /\ status = "Connected"
                    THEN <<Cmd("Disconnect")>> ELSE <<>>
    <3>1. commandQueue' = commandQueue \o p \o q
      BY <1>4, <2>2 DEF NetworkChange
    <3>2. p \in Seq(Command) /\ q \in Seq(Command)
      BY CommandTyped DEF PlainTypes
    <3> HIDE DEF p, q
    <3>3. commandQueue \o p \in Seq(Command)
      BY <1>1, <3>2
    <3>4. ChangeIn(commandQueue) => ChangeIn(commandQueue \o p)
      BY <1>1, <3>2, ChangeInBoth
    <3>5. ChangeIn(commandQueue \o p) => ChangeIn((commandQueue \o p) \o q)
      BY <3>2, <3>3, ChangeInBoth
    <3>6. ChangeIn(commandQueue) => ChangeIn(commandQueue')
      BY <3>1, <3>4, <3>5, Zenon
    <3>7. QED
      BY <2>1, <3>6, SameConfigInUse
  <2>3. CASE ~alive
    BY <2>1, <2>3 DEF ConfigInUse
  <2>4. QED
    BY <2>2, <2>3
<1>5. ASSUME NEW u \in Urgencies, SetUrgency(u)
      PROVE  ConfigInUse'
  <2> DEFINE p == <<Cmd("ChangeUrgency")>>
  <2>1. /\ UNCHANGED <<alive, status, provider, account, storedProvider,
                       storedConfig>>
        /\ \/ UNCHANGED commandQueue
           \/ commandQueue' = Append(commandQueue, Cmd("ChangeUrgency"))
    BY <1>5 DEF SetUrgency
  <2>2. /\ p \in Seq(Command)
        /\ Append(commandQueue, Cmd("ChangeUrgency")) = commandQueue \o p
    BY <1>1, CommandTyped DEF PlainTypes
  <2> HIDE DEF p
  <2>3. ChangeIn(commandQueue) => ChangeIn(commandQueue \o p)
    BY <1>1, <2>2, ChangeInBoth
  <2>4. ChangeIn(commandQueue) => ChangeIn(commandQueue')
    BY <2>1, <2>2, <2>3, Zenon
  <2>5. QED
    BY <2>1, <2>4, SameConfigInUse
<1>6. QED
  BY <1>2, <1>3, <1>4, <1>5 DEF Surroundings

(* The provider that runs is the one stored as the user's choice, with the *)
(* account stored for it, or the change to that is still queued: no        *)
(* withdrawal, retry, lost link or failed setup makes them part.           *)
THEOREM ChosenConfigInUse == Spec => []ConfigInUse
<1>1. Init => ConfigInUse
  BY DEF Init, ConfigInUse
<1>2. TypeOK /\ ConfigInUse /\ [Next]_vars => ConfigInUse'
  <2> SUFFICES ASSUME TypeOK, ConfigInUse, [Next]_vars PROVE ConfigInUse'
    OBVIOUS
  <2>1. CASE RetryTimeout \/ UNCHANGED vars
    BY <2>1, SameConfigInUse
    DEF RetryTimeout, HasSetup, vars, surroundings, registry, storeVars,
        linkVars, objectVars, queueVars
  <2>2. QED
    BY <2>1, ProcessConfigInUse, ProviderConfigInUse, CallsConfigInUse,
       SurroundingsConfigInUse DEF Next
<1>3. QED
  BY <1>1, <1>2, TypeCorrect, PTL DEF Spec

=============================================================================
