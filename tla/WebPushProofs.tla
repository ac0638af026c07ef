--------------------------- MODULE WebPushProofs ----------------------------
(***************************************************************************)
(* Proofs about WebPush, for any payloads, padding, number of keys and of  *)
(* messages.                                                               *)
(***************************************************************************)
EXTENDS WebPush, SequenceTheorems, TLAPS

-----------------------------------------------------------------------------
(* Encryption and decryption *)

Zeros(n) == [i \in 1..n |-> 0]

(* Text, delimiter and padding, byte by byte. *)
LEMMA PaddedText ==
  ASSUME NEW msg \in Seq(0..255), NEW n \in Nat
  PROVE  LET text == Append(msg, CE_MESSAGE_PADDING) \o Zeros(n)
         IN  /\ text \in Seq(0..255)
             /\ Len(text) = Len(msg) + 1 + n
             /\ \A i \in 1..Len(msg) : text[i] = msg[i]
             /\ text[Len(msg) + 1] = CE_MESSAGE_PADDING
             /\ \A i \in (Len(msg) + 2)..Len(text) : text[i] = 0
<1> DEFINE delimited == Append(msg, CE_MESSAGE_PADDING)
<1>1. /\ delimited \in Seq(0..255) /\ Len(delimited) = Len(msg) + 1
      /\ \A i \in 1..Len(msg) : delimited[i] = msg[i]
      /\ delimited[Len(msg) + 1] = CE_MESSAGE_PADDING
  BY DEF CE_MESSAGE_PADDING
<1>2. Zeros(n) \in Seq(0..255) /\ Len(Zeros(n)) = n /\ \A i \in 1..n : Zeros(n)[i] = 0
  BY DEF Zeros
<1> HIDE DEF delimited
<1>3. (delimited \o Zeros(n)) \in Seq(0..255)
  BY <1>1, <1>2
<1>4. Len(delimited \o Zeros(n)) = Len(msg) + 1 + n
  <2> DEFINE zeros == Zeros(n)
  <2> HIDE DEF zeros
  <2>1. Len(delimited \o zeros) = Len(delimited) + Len(zeros)
    <3>1. delimited \in Seq(0..255) /\ zeros \in Seq(0..255)
      BY <1>1, <1>2 DEF zeros
    <3>2. QED
      BY <3>1, ConcatProperties
  <2>2. QED
    BY <1>1, <1>2, <2>1 DEF zeros
<1>5. \A i \in 1..(Len(msg) + 1) : (delimited \o Zeros(n))[i] = delimited[i]
  BY <1>1, <1>2
<1>6. \A i \in (Len(msg) + 2)..(Len(msg) + 1 + n) : (delimited \o Zeros(n))[i] = 0
  BY <1>1, <1>2
<1> QED
  BY <1>1, <1>3, <1>4, <1>5, <1>6 DEF delimited

(* decrypt() undoes an encryption with any padding, whatever bytes the     *)
(* message has, the delimiter among them.                                  *)
LEMMA PaddingRemoved ==
  ASSUME NEW msg \in Seq(0..255), NEW n \in Nat
  PROVE  LET text == Append(msg, CE_MESSAGE_PADDING) \o Zeros(n)
         IN  SubSeq(text, 1, PaddingStart(text)) = msg
<1> DEFINE text == Append(msg, CE_MESSAGE_PADDING) \o Zeros(n)
           at   == {0} \cup {i \in 1..(Len(text) - 1) : text[i + 1] = CE_MESSAGE_PADDING}
<1>1. /\ text \in Seq(0..255) /\ Len(text) = Len(msg) + 1 + n
      /\ \A i \in 1..Len(msg) : text[i] = msg[i]
      /\ text[Len(msg) + 1] = CE_MESSAGE_PADDING
      /\ \A i \in (Len(msg) + 2)..Len(text) : text[i] = 0
  BY PaddedText
<1> HIDE DEF text
<1>2. Len(msg) \in at
  <2>1. CASE Len(msg) = 0
    BY <2>1
  <2>2. CASE Len(msg) # 0
    <3>1. Len(msg) \in 1..(Len(text) - 1)
      BY <1>1, <2>2
    <3> QED
      BY <1>1, <3>1
  <2> QED
    BY <2>1, <2>2
<1>3. \A i \in at : Len(msg) >= i
  <2> SUFFICES ASSUME NEW i \in 1..(Len(text) - 1), text[i + 1] = CE_MESSAGE_PADDING,
                      ~(Len(msg) >= i)
               PROVE  FALSE
    OBVIOUS
  <2>1. i + 1 \in (Len(msg) + 2)..Len(text)
    BY <1>1
  <2> QED
    BY <1>1, <2>1 DEF CE_MESSAGE_PADDING
<1>4. at \subseteq Int
  BY <1>1
<1>5. PaddingStart(text) = Len(msg)
  <2>1. PaddingStart(text) = Max(at)
    BY DEF PaddingStart
  <2>2. \A x \in at : (\A y \in at : x >= y) => x = Len(msg)
    BY <1>2, <1>3, <1>4
  <2> QED
    BY <1>2, <1>3, <2>1, <2>2 DEF Max
<1>6. /\ SubSeq(text, 1, Len(msg)) \in Seq(0..255)
      /\ Len(SubSeq(text, 1, Len(msg))) = Len(msg)
      /\ \A i \in 1..Len(msg) : SubSeq(text, 1, Len(msg))[i] = text[i]
  <2>1. Len(msg) \in Nat /\ Len(msg) =< Len(text)
    BY <1>1
  <2>2. \A i \in 1..Len(msg) : text[i] \in 0..255
    BY <1>1, <2>1, ElementOfSeq
  <2> QED
    BY <1>1, <2>1, <2>2, SubSeqProperties
<1>7. SubSeq(text, 1, Len(msg)) = msg
  BY <1>1, <1>6
<1> QED
  BY <1>5, <1>7 DEF text

-----------------------------------------------------------------------------
(* The keys *)

(* Without keys there are none in the state file.  Unless the file has     *)
(* been removed, it has the keys in memory, and those are the server's.    *)
KeysAgree ==
  /\ keys \in Nat /\ stored \in Nat /\ known \in Nat /\ created \in Nat
  /\ forgot \in BOOLEAN
  /\ keys = 0 => stored = 0
  /\ ~forgot => stored = keys
  /\ KeysOutlive

LEMMA KeysAgreeInv == Spec => []KeysAgree
<1>1. Init => KeysAgree
  <2>1. 0 \in Nat
    OBVIOUS
  <2> QED
    BY <2>1, Zenon DEF Init, KeysAgree, KeysOutlive
<1>2. KeysAgree /\ [Next]_vars => KeysAgree'
  <2> SUFFICES ASSUME KeysAgree, [Next]_vars PROVE KeysAgree'
    OBVIOUS
  <2> USE DEF KeysAgree, KeysOutlive
  <2>1. CASE GiveKeys
    BY <2>1 DEF GiveKeys, GenerateKeys, EnsureStored, Stored
  <2>2. CASE RemoveState
    BY <2>2 DEF RemoveState
  <2>3. CASE StoreState
    BY <2>3 DEF StoreState, Stored
  <2>4. CASE Restart
    BY <2>4 DEF Restart
  <2>5. ASSUME NEW m, Send(m) PROVE KeysAgree'
    BY <2>5 DEF Send
  <2>6. ASSUME NEW m, MessageImpl(m) PROVE KeysAgree'
    BY <2>6 DEF MessageImpl
  <2>7. ASSUME NEW msg, Submit(msg) \/ SubmitPadded(msg) PROVE KeysAgree'
    BY <2>5, <2>7 DEF Submit, SubmitPadded
  <2>8. CASE UNCHANGED vars
    BY <2>8 DEF vars
  <2> QED
    BY <2>1, <2>2, <2>3, <2>4, <2>6, <2>7, <2>8 DEF Next
<1> QED
  BY <1>1, <1>2, PTL DEF Spec

(* The keys a server has been given stay the application's across any      *)
(* restarts, until the state file is removed.                              *)
THEOREM KeysKept == Spec => []KeysOutlive
<1>1. KeysAgree => KeysOutlive
  BY DEF KeysAgree
<1> QED
  BY <1>1, KeysAgreeInv, PTL

-----------------------------------------------------------------------------
(* The messages *)

(* What is on its way: encrypted with padding or without a delimiter, or   *)
(* not encrypted.                                                          *)
IsBody(m) ==
  \/ \E to \in Nat, msg \in Payloads, n \in 0..MaxPadding : m = Padded(to, msg, n)
  \/ \E to \in Nat, msg \in Payloads : m = Undelimited(to, msg)
  \/ m.to = 0

Answer(m, with) ==
  [body |-> m, keys |-> with, runaway |-> RunsAway(with, m),
   text |-> IF Decrypt(with, m) # <<>> THEN Decrypt(with, m) ELSE Raw]

Sane ==
  /\ keys \in Nat /\ known \in Nat
  /\ \A m \in flight : IsBody(m.body)
  /\ \A g \in got : AsSent(g) /\ ~g.runaway

(* What encrypt() makes is a message without padding. *)
LEMMA EncryptPads ==
  ASSUME NEW to \in Nat, NEW msg \in Seq(0..255)
  PROVE  Encrypt(to, msg) = Padded(to, msg, 0)
<1>1. Append(msg, CE_MESSAGE_PADDING) \in Seq(0..255)
  BY DEF CE_MESSAGE_PADDING
<1>2. [i \in 1..0 |-> 0] = <<>>
  OBVIOUS
<1>3. Append(msg, CE_MESSAGE_PADDING) \o <<>> = Append(msg, CE_MESSAGE_PADDING)
  BY <1>1
<1> QED
  BY <1>2, <1>3 DEF Encrypt, Padded

(* A text that passes the test of the size has a byte. *)
LEMMA TextNotEmpty ==
  ASSUME NEW to \in Nat, NEW input \in Seq(0..255), NEW msg, NEW with \in Nat
  PROVE  /\ ~RunsAway(with, Encoded(to, input, msg))
         /\ input = <<>> => TooShort(Encoded(to, input, msg))
BY DEF RunsAway, TooShort, Encoded, CE_SALT_SIZE, CE_AEAD_TAG_SIZE, PublicKeySize

(* What a message on its way results in. *)
LEMMA AnswerAsSent ==
  ASSUME NEW m, NEW with \in Nat, IsBody(m)
  PROVE  AsSent(Answer(m, with)) /\ ~Answer(m, with).runaway
<1>1. CASE m.to = 0 \/ m.to # with
  <2>1. Decrypt(with, m) = <<>> /\ ~RunsAway(with, m)
    BY <1>1 DEF Decrypt, RunsAway, Authentic
  <2> QED
    BY <1>1, <2>1 DEF AsSent, Answer
<1>2. ASSUME NEW to \in Nat, NEW msg \in Payloads, NEW n \in 0..MaxPadding,
             m = Padded(to, msg, n), m.to # 0, m.to = with
      PROVE  AsSent(Answer(m, with)) /\ ~Answer(m, with).runaway
  <2> DEFINE text == Append(msg, CE_MESSAGE_PADDING) \o Zeros(n)
  <2>1. msg \in Seq(0..255) /\ n \in Nat
    BY <1>2, WebPushAssumption
  <2>2. text \in Seq(0..255) /\ Len(text) = Len(msg) + 1 + n
    BY <2>1, PaddedText
  <2>3. SubSeq(text, 1, PaddingStart(text)) = msg
    BY <2>1, PaddingRemoved
  <2>4. m = Encoded(to, text, msg)
    BY <1>2 DEF Padded, Zeros
  <2> HIDE DEF text
  <2>5. ~TooShort(m) /\ m.rs = CE_RECORD_SIZE /\ m.input = text /\ m.payload = msg
        /\ m.to = to
    BY <2>1, <2>2, <2>4
    DEF TooShort, Encoded, CE_SALT_SIZE, CE_AEAD_TAG_SIZE, PublicKeySize
  <2>6. Decrypt(with, m) = msg
    BY <1>2, <2>3, <2>5 DEF Decrypt, Authentic
  <2>7. ~RunsAway(with, m)
    BY <2>2, <2>4, TextNotEmpty
  <2> QED
    BY <1>2, <2>5, <2>6, <2>7 DEF AsSent, Answer
<1>3. ASSUME NEW to \in Nat, NEW msg \in Payloads, m = Undelimited(to, msg),
             m.to # 0, m.to = with
      PROVE  AsSent(Answer(m, with)) /\ ~Answer(m, with).runaway
  <2>1. msg \in Seq(0..255)
    BY WebPushAssumption
  <2>2. ~RunsAway(with, m) /\ (msg = <<>> => TooShort(m))
    BY <1>3, <2>1, TextNotEmpty DEF Undelimited
  <2>3. m.payload = msg /\ m.input = msg /\ m.to = to
    BY <1>3 DEF Undelimited, Encoded
  <2>4. msg = <<>> => Decrypt(with, m) = <<>>
    BY <2>2 DEF Decrypt
  <2>5. ~Delimited(m)
    <3> SUFFICES ASSUME NEW n \in 0..MaxPadding, m = Padded(m.to, m.payload, n)
                 PROVE  FALSE
      BY DEF Delimited
    <3> DEFINE text == Append(msg, CE_MESSAGE_PADDING) \o Zeros(n)
    <3>1. n \in Nat
      BY WebPushAssumption
    <3>2. Len(text) = Len(msg) + 1 + n
      BY <2>1, <3>1, PaddedText
    <3>3. m.input = text
      BY <2>3 DEF Padded, Encoded, Zeros
    <3> HIDE DEF text
    <3> QED
      BY <2>1, <2>3, <3>1, <3>2, <3>3
  <2> QED
    BY <1>3, <2>2, <2>3, <2>4, <2>5 DEF AsSent, Answer
<1> QED
  BY <1>1, <1>2, <1>3 DEF IsBody

LEMMA SaneInv == Spec => []Sane
<1>1. Init => Sane
  BY DEF Init, Sane
<1>2. Sane /\ KeysAgree /\ KeysAgree' /\ [Next]_vars => Sane'
  <2> SUFFICES ASSUME Sane, KeysAgree, KeysAgree', [Next]_vars
               PROVE  Sane'
    OBVIOUS
  <2>1. keys' \in Nat /\ known' \in Nat
    BY DEF KeysAgree
  <2>2. CASE UNCHANGED <<flight, got>>
    BY <2>1, <2>2 DEF Sane
  <2>3. ASSUME NEW m, IsBody(m), Send(m) PROVE Sane'
    BY <2>1, <2>3 DEF Sane, Send
  <2>4. ASSUME NEW msg \in Payloads, Submit(msg) PROVE Sane'
    <3>1. known \in Nat /\ msg \in Seq(0..255) /\ 0 \in 0..MaxPadding
      BY WebPushAssumption DEF Sane
    <3>2. IsBody(Encrypt(known, msg))
      BY <3>1, EncryptPads DEF IsBody
    <3>3. \A size, rs, idlen : IsBody(Plain(msg, size, rs, idlen))
      BY DEF IsBody, Plain
    <3>4. IsBody(Nothing)
      BY DEF IsBody, Plain, Nothing
    <3> QED
      BY <2>3, <2>4, <3>2, <3>3, <3>4 DEF Submit
  <2>5. ASSUME NEW msg \in Payloads, SubmitPadded(msg) PROVE Sane'
    <3>1. known \in Nat /\ \A n \in 1..MaxPadding : n \in 0..MaxPadding
      BY WebPushAssumption DEF Sane
    <3>2. IsBody(Undelimited(known, msg))
      BY <3>1 DEF IsBody
    <3>3. \A n \in 1..MaxPadding : IsBody(Padded(known, msg, n))
      BY <3>1 DEF IsBody
    <3> QED
      BY <2>3, <2>5, <3>2, <3>3 DEF SubmitPadded
  <2>6. ASSUME NEW m \in flight, MessageImpl(m) PROVE Sane'
    <3>1. got' = got \cup {Answer(m.body, keys)}
      BY <2>6 DEF MessageImpl, Answer
    <3>2. IsBody(m.body) /\ keys \in Nat
      BY DEF Sane
    <3>3. AsSent(Answer(m.body, keys)) /\ ~Answer(m.body, keys).runaway
      BY <3>2, AnswerAsSent
    <3>4. \A g \in got' : AsSent(g) /\ ~g.runaway
      BY <3>1, <3>3 DEF Sane
    <3>5. \A f \in flight' : IsBody(f.body)
      BY <2>6 DEF Sane, MessageImpl
    <3> QED
      BY <2>1, <3>4, <3>5 DEF Sane
  <2>7. GiveKeys \/ RemoveState \/ StoreState \/ Restart => UNCHANGED <<flight, got>>
    BY DEF GiveKeys, RemoveState, StoreState, Restart
  <2> QED
    BY <2>2, <2>4, <2>5, <2>6, <2>7 DEF Next, vars
<1>3. Spec => []KeysAgree
  BY KeysAgreeInv
<1> QED
  BY <1>1, <1>2, <1>3, PTL DEF Spec

(* Whatever bytes a server sends, and however it pads them, the            *)
(* application gets those bytes; of what it cannot read it gets what came. *)
THEOREM RoundTrip == Spec => []DeliveredAsSent
<1>1. Sane => DeliveredAsSent
  BY DEF Sane, AsSent, DeliveredAsSent
<1> QED
  BY <1>1, SaneInv, PTL

(* The loop that removes the padding never starts in front of the text. *)
THEOREM PaddingEnds == Spec => []PaddingLoopEnds
<1>1. Sane => PaddingLoopEnds
  BY DEF Sane, PaddingLoopEnds
<1> QED
  BY <1>1, SaneInv, PTL

=============================================================================
