------------------------------ MODULE WebPush -------------------------------
(***************************************************************************)
(* The encryption of messages from an application's server (Notifier and   *)
(* ContentEncryptor, or a server of another make) to the application's     *)
(* Connector (messageImpl() and ContentEncryption), and the life of the    *)
(* keys it uses.                                                           *)
(*                                                                         *)
(* Cryptography is symbolic: key pairs are numbered, what is encrypted for *)
(* a pair can be decrypted with that pair only, and not if changed.  Bytes *)
(* are numbers.  Sizes are those of the format.                            *)
(* EnsureOnce, TooShortByOne, PaddingFromFront are slips of the code next  *)
(* to them.                                                                *)
(***************************************************************************)
EXTENDS Integers, SequencesExt

CONSTANTS
  Payloads,    \* what servers send
  MaxPadding,  \* bound: bytes of padding another encryptor adds
  MaxKeys,     \* bound: key pairs created
  MaxMessages  \* bound: messages sent

ASSUME WebPushAssumption ==
  /\ Payloads \subseteq Seq(0..255)
  /\ MaxPadding \in Nat /\ MaxKeys \in Nat /\ MaxMessages \in Nat

VARIABLES
  keys,    \* m_contentEnc, 0 without keys
  stored,  \* the keys in the state file, 0 if there is none
  created, \* key pairs created so far
  known,   \* the keys the application has last given to its server, or 0
  forgot,  \* history: the state file has been removed since, and has not
           \* been written with those keys again
  flight,  \* messages on their way
  sends,   \* messages sent so far
  got      \* history: messages emitted, and the keys there were

vars == <<keys, stored, created, known, forgot, flight, sends, got>>

CE_SALT_SIZE == 16
CE_RECORD_SIZE == 4096
CE_AEAD_TAG_SIZE == 16
CE_MESSAGE_PADDING == 2
PublicKeySize == 65
Raw == <<-1>>  \* the bytes of a message as they came

-----------------------------------------------------------------------------
(* Encryption.  A message has the size and the header fields decrypt()     *)
(* reads, the pair "to" it is encrypted for (0: none), what was encrypted, *)
(* and what the server had been asked to send.                             *)

Encoded(to, input, payload) ==
  [size |-> CE_SALT_SIZE + 4 + 1 + PublicKeySize + Len(input) + CE_AEAD_TAG_SIZE,
   rs |-> CE_RECORD_SIZE, idlen |-> PublicKeySize, to |-> to,
   input |-> input, payload |-> payload]

Encrypt(to, msg) == Encoded(to, Append(msg, CE_MESSAGE_PADDING), msg)

(* An encryptor that pads, as the format allows, and one that does not     *)
(* even write the delimiter.                                               *)
Padded(to, msg, padding) ==
  Encoded(to, Append(msg, CE_MESSAGE_PADDING) \o [i \in 1..padding |-> 0], msg)
Undelimited(to, msg) == Encoded(to, msg, msg)

(* What is not encrypted: its header fields are whatever bytes are there.  *)
Plain(msg, size, rs, idlen) ==
  [size |-> size, rs |-> rs, idlen |-> idlen, to |-> 0, input |-> <<>>,
   payload |-> msg]
Nothing == Plain(<<>>, 0, 0, 0)

-----------------------------------------------------------------------------
(* Decryption *)

TooShortByOne(m) == m.size < 21 \/ m.size < 21 + m.idlen + CE_AEAD_TAG_SIZE
TooShort(m) == m.size < 22 \/ m.size < 22 + m.idlen + CE_AEAD_TAG_SIZE

PaddingFromFront(text) ==
  LET at == {i \in 1..(Len(text) - 1) : text[i + 1] = CE_MESSAGE_PADDING}
  IN  IF at = {} THEN 0 ELSE Min(at)
(* Where the loop that removes the padding stops, for a text that is not   *)
(* empty: at the last delimiter, or at 0, whatever is there.               *)
PaddingStart(text) ==
  Max({0} \cup {i \in 1..(Len(text) - 1) : text[i + 1] = CE_MESSAGE_PADDING})

(* The tag is right *)
Authentic(with, m) == m.to = with

(* decrypt(): what was encrypted, or nothing *)
Decrypt(with, m) ==
  IF with = 0 \/ TooShort(m) \/ m.rs # CE_RECORD_SIZE \/ ~Authentic(with, m)
  THEN <<>>
  ELSE SubSeq(m.input, 1, PaddingStart(m.input))

(* The loop would start in front of an empty text, and not end there. *)
RunsAway(with, m) ==
  /\ with # 0 /\ ~TooShort(m) /\ m.rs = CE_RECORD_SIZE /\ Authentic(with, m)
  /\ m.size - 21 - m.idlen - CE_AEAD_TAG_SIZE - 1 < 0

-----------------------------------------------------------------------------
(* The life of the keys *)

Init ==
  /\ keys = 0 /\ stored = 0 /\ created = 0 /\ known = 0 /\ forgot = FALSE
  /\ flight = {} /\ sends = 0 /\ got = {}

(* What storeState() leaves in the state file. *)
Stored(file, k) == IF k # 0 THEN k ELSE file

(* generateKeys() *)
GenerateKeys == created + 1

EnsureOnce(file, k) == file
EnsureStored(file, k) == Stored(file, k)

(* The application passes its keys on to its server, which                 *)
(* contentEncryptionPublicKey() and contentEncryptionAuthSecret() create   *)
(* when there are none: ensureKeys().                                      *)
GiveKeys ==
  /\ IF keys # 0 THEN UNCHANGED <<keys, stored, created>>
     ELSE /\ created < MaxKeys
          /\ keys' = GenerateKeys /\ created' = keys'
          /\ stored' = EnsureStored(stored, keys')
  /\ known' = keys'
  /\ forgot' = (forgot /\ keys # 0)
  /\ UNCHANGED <<flight, sends, got>>

(* The distributor confirms an unregistration, or removeState() is called: *)
(* the file goes, the keys in memory stay.                                 *)
RemoveState ==
  /\ stored' = 0 /\ forgot' = TRUE
  /\ UNCHANGED <<keys, created, known, flight, sends, got>>

(* Any of the calls and signals after which the state is stored *)
StoreState ==
  /\ stored' = Stored(stored, keys)
  /\ forgot' = (forgot /\ keys # known)
  /\ UNCHANGED <<keys, created, known, flight, sends, got>>

(* The application ends, and is started again: loadState() *)
Restart ==
  /\ keys' = stored
  /\ UNCHANGED <<stored, created, known, forgot, flight, sends, got>>

-----------------------------------------------------------------------------
(* The messages *)

Send(m) ==
  /\ sends < MaxMessages
  /\ sends' = sends + 1
  /\ flight' = flight \cup {[no |-> sends', body |-> m]}
  /\ UNCHANGED <<keys, stored, created, known, forgot, got>>

(* Notifier::submit(): encrypted once it knows keys to use.  When that     *)
(* fails it is an empty request that is sent.                              *)
Submit(msg) ==
  \/ known # 0 /\ (Send(Encrypt(known, msg)) \/ Send(Nothing))
  \/ known = 0 /\ \E rs \in {0, CE_RECORD_SIZE}, idlen \in {0, PublicKeySize} :
                    Send(Plain(msg, 22 + 2 * Len(msg), rs, idlen))

(* Servers of another make *)
SubmitPadded(msg) ==
  /\ known # 0
  /\ \/ \E n \in 1..MaxPadding : Send(Padded(known, msg, n))
     \/ Send(Undelimited(known, msg))

(* messageImpl(), for a message of the right token *)
MessageImpl(m) ==
  /\ flight' = flight \ {m}
  /\ LET text == Decrypt(keys, m.body)
     IN  got' = got \cup {[body |-> m.body, keys |-> keys,
                           runaway |-> RunsAway(keys, m.body),
                           text |-> IF text # <<>> THEN text ELSE Raw]}
  /\ UNCHANGED <<keys, stored, created, known, forgot, sends>>

Next ==
  \/ GiveKeys \/ RemoveState \/ StoreState \/ Restart
  \/ \E msg \in Payloads : Submit(msg) \/ SubmitPadded(msg)
  \/ \E m \in flight : MessageImpl(m)

Spec == Init /\ [][Next]_vars

-----------------------------------------------------------------------------
(* Properties *)

(* A server that encrypts as the format wants it. *)
Delimited(m) == \E n \in 0..MaxPadding : m = Padded(m.to, m.payload, n)

AsSent(g) ==
  LET readable == g.body.to # 0 /\ g.body.to = g.keys /\ g.body.payload # <<>>
  IN  /\ Delimited(g.body) /\ readable => g.text = g.body.payload
      /\ ~readable => g.text = Raw

(* The application gets what was sent, without the padding and nothing     *)
(* less, if it was encrypted for the keys there are.  Of an empty message, *)
(* of one for other keys and of one that is not encrypted it gets the      *)
(* bytes that came: messageImpl() falls back to those.                     *)
DeliveredAsSent == \A g \in got : AsSent(g)

(* The loop that removes the padding has a byte to start with, whatever a  *)
(* server encrypts: decrypt() tests the size in front of it.               *)
PaddingLoopEnds == \A g \in got : ~g.runaway

(* The keys a server has been given are those the application uses, across *)
(* restarts, until the state file is removed: ensureKeys() stores them     *)
(* before anybody sees them.                                               *)
KeysOutlive == known # 0 /\ ~forgot => keys = known

=============================================================================
