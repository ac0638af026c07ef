# KUnifiedPush in TLA+

KUnifiedPush brings UnifiedPush to the Linux desktop. Applications link a client
library (class `Connector`); a daemon per user session (the *distributor*) keeps one
connection to a push provider (Autopush, NextPush, Gotify, Ntfy), registers the
applications there and forwards messages to them over D-Bus. Both sides run on a Qt
event loop: nothing is parallel inside a process, but almost every operation is a
request whose answer arrives as a later event, after the network, the link, the user's
settings, the other process or the process itself has changed.

This directory models the two programs, the Ntfy backend, the parser and the encryption
messages pass through, and the self test of the settings module; checks the models with TLC
and proves their central properties with TLAPS.

## Inventory

| Component | State | Operations | Interacts with | Modelled |
|---|---|---|---|---|
| Distributor daemon (`distributor/distributor.cpp`, `command.h`, `client.cpp`, `main.cpp`) | clients, command queue, current command, status, urgency, retry timer, network; settings file | `Register`, `Unregister`, `setPushProvider`, `forceUnregisterClient`, `messageAcknowledged`, urgency and reachability changes, `doProcessNextCommand`, provider signals, start | applications (D-Bus, delayed replies), provider object (calls, signals), settings | `Distributor` |
| Push provider backends (`autopush…`, `nextpush…`, `gotifypushprovider.cpp`) | link, device, channels, timers | register, unregister, connect, disconnect, change urgency, acknowledge | distributor, a server | as profiles, `PushProviders`; their own state is planned |
| Ntfy backend (`ntfypushprovider.cpp`) | topics, identifier of the last message, stream; settings | the same; a new stream for each change; messages with and without attachment | distributor, a server | `Ntfy` |
| Server-sent events parser (`serversenteventsstream.cpp`) | buffer | data arrives | NextPush, Ntfy | `SseStream` |
| Mock backend | | a test double | | no |
| Client library (`client/connector.cpp`, `connector_dbus.cpp`, `shared/connectorutils.cpp`) | state, token, endpoint, VAPID key, command queue, current command, distributor in use; state file | `registerClient`, `unregisterClient`, `setVapidPublicKey(Required)`, `ensureKeys`, `removeState`, `NewEndpoint`, `Unregistered`, replies, services on the bus | application (signals), distributors | `Connector` |
| Client library on Android | the same queue over JNI | | Java code | no |
| Content encryption (`contentencryption.cpp`, `contentencryptor.cpp`, `contentencryptionutils.cpp`, `eckey.cpp`, `vapid.cpp`) | the keys, in memory and in the state file | generate, encrypt, decrypt, sign | connector, notifier | `WebPush`, without VAPID |
| Notifier library, tools | none | one HTTP request | a server | `submit()`, in `WebPush` and `SelfTest` |
| Settings module (`kcm/`) | a view of D-Bus properties | | distributor | with the self test only |
| Self test (`kcm/selftest.cpp`) | progress of one push round trip, timer | start, reset; endpoint, reply, message, time-out | connector, notifier | `SelfTest` |
| Nextcloud log-in (`kcm/nextcloudauthenticator.cpp`) | a poll timer | | a server | planned |

What is hard, and what makes each part correct:

* **Command queue of the distributor.** One command is current; an answer, a time-out or
  the loss of the link ends it. If none of these can come, everything behind it waits for
  ever (`NeverWaitsForNothing`, `NoLostWakeup`). Answers of HTTP backends outlive the
  command they belong to (`RemovedOnRequest`, `OneReplyEach`). D-Bus callers wait
  for a reply that travels with the command through deferrals and moves
  (`RepliesKept`, `SuccessMeansRegistered`, `CallsAnswered`).
* **Change of provider.** Clients are unregistered at the old provider, the object is
  replaced, clients are registered at the new one: a long-running operation kept as
  queued commands, in memory, over a settings file written first (`AllMoved`,
  `StoreComplete`, `StoreAgrees`, `ConfigInUse`, `ChangesHappen`).
* **Links.** Connecting, closing and lost links, sockets that are overwritten while open,
  network changes (`StatusTruthful`, `Reconnects`).
* **Command queue of the connector.** Commands are merged with the ones queued; whether
  they are dropped depends on a state that services appearing and leaving change
  (`EndsRegistered`, `EndsUnregistered`, `KeyInUse`, `NeverStuck`, `Settles`).
* **State file of the connector.** Written at some points of a registration only
  (`Persisted`, `EndpointAgrees`, `NoOrphans`, `KeyPersisted`).
* **Losing the distributor.** Pending calls end with an error, replies come late, another
  distributor may be there (`ReplyOnItsWay`, `DistributorAlive`, `DistributorShown`,
  `Survives`).

* **Streams of the Ntfy backend.** One stream for all topics is aborted and opened anew for
  each change, while what the old one has brought is still queued and attachments are still
  being fetched. What the next one starts after decides which messages are lost
  (`PlainNeverSkipped`, `KeepsMailboxes`, `MailboxesEmpty`, `ConnectedListens`).
* **Chunks.** The network cuts a stream anywhere (`MessagesAsSent`).
* **Encryption keys.** Created on demand, given to a server, kept in a file that others
  rewrite and remove (`KeysOutlive`); sizes and padding under another program's control
  (`DeliveredAsSent`, `PaddingLoopEnds`).
* **Self test.** Three asynchronous phases, of which each can end with the connector destroyed
  while it is busy (`TestEnds`, `SuccessTruthful`, `CleansUp`).

* **URLs, refused hellos, late streams.** A WebSocket backend with a URL it cannot open reports a
  rejection and keeps an unopened socket; Autopush ignores a refused hello; what a stream begins with
  and brings is handled later than it arrives, also when the stream has ended (`NeverWaitsForNothing`,
  `StatusTruthful`; what fails there is in the table of disagreements).

The list of hazards with their lines is in `PROJECT.json`.

## Modules

| Module | Contents |
|---|---|
| `PushProviders` | What the distributor can observe of each backend: over what requests travel, which errors they report, how links end. |
| `Distributor` | The daemon with its applications, settings and provider object. |
| `DistributorProperties` | Its safety, action and liveness properties, its fairness. |
| `MCDistributor` | Instances for TLC. |
| `DistributorProofs` | Proof of type correctness, and lemmas about the operators. |
| `DistributorSafetyProofs` | Proofs of three invariants: wake-ups, blocking commands, status. |
| `DistributorQueueProofs` | What handlers do to the entries of the queue; proofs of two invariants about replies and changes of provider. |
| `DistributorAnswerProofs` | Whose answers arrive; proofs of three action properties and of an invariant about the settings. |
| `Connector` | One connector, its state file, and the distributors on its bus. |
| `ConnectorProperties` | Its properties and fairness. |
| `MCConnector` | Instances for TLC. |
| `ConnectorProofs` | Proofs of type correctness and of three invariants. |
| `ConnectorOrderProofs` | What the methods do to the queue of commands, in which order a distributor's messages arrive; proofs of five invariants about what the two agree on in the end. |
| `Mailboxes` | What a push provider promises about messages: the abstract specification. |
| `Ntfy` | The Ntfy backend, its stream and server, and the commands that drive it. |
| `NtfyProperties` | Its properties, the refinement mapping, its fairness. |
| `MCNtfy` | Instances for TLC. |
| `NtfyProofs` | Proofs of type correctness, of two invariants and of the refinement. |
| `SelfTest` | The self test on top of `Connector`, and its properties. |
| `MCSelfTest` | An instance for TLC. |
| `SseStream` | The parser of server-sent events, and what it should emit. |
| `MCSseStream` | An instance for TLC. |
| `WebPush` | Encryption and decryption of messages and the life of the keys, with their properties. |
| `MCWebPush` | An instance for TLC. |
| `WebPushProofs` | Proofs of its three properties. |

### Distributor

One action is one handler run by the event loop; handlers are atomic. Variables carry the
names of the members (`clients`, `commandQueue`, `currentCommand`, `status`,
`retryTimer`), `stored…` is what is in `QSettings`. `posted` counts the queued
invocations of `doProcessNextCommand()`: `processNextCommand()` posts one, so a wake-up
may come late, twice, or after the queue has changed. A client is its token with the
account its `remoteId` was issued by and the one its endpoint leads to, which is what the
properties distinguish; descriptions, service names and keys are left out.

`DoProcessNextCommand` is the union of one action for each case of the `switch`,
including the ones that dereference a null provider or socket (`ProcessCrash`).
Requests to the provider live in `requests`: on a socket backend they vanish with the
link, on an HTTP backend they are answered at any later time, also when the provider
object has a new command (`ClientRegistered(s)`, `ClientUnregistered(s)` for any slot
`s`). `providerDisconnected()` decides between deferring, reconnecting and going idle.
`strays` are sockets that are still open though `m_socket` points to another one.
`conn` is the link that `m_socket` or `m_sseReply` points to: `off`, `connecting`, `on`, `closing`;
`unopened`, a socket for an account in `OddUrls` (a URL with a scheme other than http and https, which
`loadSettings()` accepts): `connectToProvider()` reports `ProviderRejected` at once and leaves the
socket, into which later commands are sent in vain (`ProcessConnectRejected`, `ProcessUnsent`,
`ProcessDisconnectUnopened`); `ignored`, an Autopush link whose hello the server answered with another
status than 200; `started`, a stream whose event "start" is in the event queue. `events` is that
queue: the parser emits through it, so `connected()` and messages are handled when the stream they came
on may have ended (`Connected` and `MessageReceived` do not ask for a link then). The relative order of
these events and posted `doProcessNextCommand()` calls is not kept, more orders are
explored than the event loop produces. HTTP requests to a URL in `OddUrls` may fail
without a budget, or succeed: QNetworkAccessManager knows other schemes than http.
`NetworkChange` is any change of reachability, also from one network to another.
`Start` reads the settings; which stored clients it drops because their application is no
longer installed is a choice.

### Connector

`con` is the record of the connector's members. Methods that call each other are operators
from a connector to a connector (`AddCommand`, `ProcessNextCommand`, `SetDistributor`), and
`Handled` ends every handler: it sends the call the handler made. `incoming` is the one
stream of messages the bus delivers to the application. The distributors are the
environment: each has its clients and a queue of commands, calls for known clients are
answered at once, others when the command has been executed. Restarting it empties the
queue and keeps the clients as they are in its settings: a client has its endpoint in memory and the
`stored` one, which the first half of a move clears, so that a restart between the two halves leaves
a client without endpoint (`FromSettings`). Slots of the application that call the connector
from its signals, in the middle of a handler, are not modelled: the application acts between
handlers. `wish` is a history variable, the application's last call.
When a service leaves, its `NameOwnerChanged` comes before the error replies of the calls
that were pending, the order dbus-daemon sends them in.

### Ntfy and Mailboxes

`Ntfy` holds the members of `NtfyPushProvider` (`m_topics`, `m_lastMessageId`), what is in
`QSettings`, and `stream`, the reply it reads. `events` are the queued invocations of
`messageReceived()`: the parser emits through the event queue, so they arrive when the stream
they came on may be gone. `fetches` are the attachments on their way. Identifiers of messages are
their positions in the server's log, a topic is the number of its registration.
`DoConnectToProvider` takes the place of the stream, or reports success if there is nothing
to listen to. The commands of the distributor are reduced to those that reach this backend;
every one may run at any time it is first in the queue, which covers late and early posted
`doProcessNextCommand()`; calls for known clients and failures of registration do not occur
with this backend, `registerClient()` always succeeds at once. `MaxTopics` bounds
registrations by holding back the last ones in the queue.

`Mailboxes` says what this is for: a message put into the mailbox of a registered client
leaves it by being delivered, or with the client. The mapping takes as mailbox what the server
has for registered topics after `lastMessageId`: what would be asked for if the daemon
connected now. Messages with attachments are outside of it: a later message passes
over one that is still being fetched, see `NothingLost` among the disagreements.

### SelfTest

`SelfTest` EXTENDS `Connector` and has an action for each slot of the test that does to the connector
what the slot makes it do: the composition is the real one, down to the distributor's queue. `running`
means that the test's connector exists. `Destroy` is `unregisterClient()` and the end of the object;
what the bus delivers afterwards is `Discarded`. `Finish` adds what `setState()` does, `removeState()`
above all. `Close` is `~SelfTest()`, which does not remove the state: when the module is opened again in
the same process, the next test finds it, with the unregistration perhaps still under way; a new process
has another bus name. `SessionEnds` kills everything without a destructor, the distributors lose their
queues. Of the state files left behind only that of the last process is followed. Where `setState()`
deletes the connector inside of one of its own signals (`FinishInside`), what follows is undefined: a
crash, the state file written once more, or nothing. `ended` is a history variable for `CleansUp`. The
notifier's request and the push server are `sent` and `mail`, which keeps messages as long as it likes.

### SseStream

A stream is a sequence of symbols: a name, a colon, a space, other bytes, CR, LF. The parser is
translated function by function (iterators are positions); the reference, `Sent`, is computed
from the lines themselves and never looks at the symbols. A message that says nothing
is left out of the comparison: a server may send blank lines, and a CRLF cut in two looks like
one. Emission through the event queue is order-preserving and not separated here, it is in `Ntfy` and
`Distributor`. The reference joins the data lines of a message as the code does, without a line break
between them, and has no lines without a colon: it is about where messages begin and end, and says nothing
about conformance to the format.

### WebPush

Cryptography is symbolic: a message made for the key pair `to` can be read with that pair
only and not if changed, which is what ECDH, HMAC and AES-GCM are there for. Sizes, record
size and key length are the real ones, because `decrypt()` decides with them; so is the loop that
removes the padding. `known` are the keys the application's server has been given, which the
getters create and store when there are none. `StoreState` is any handler of the connector that
stores its state, `RemoveState` any that removes the file: when they happen is the business of
`Connector`, here they may at any time.

## Runs

Each run is a set of questions to one configuration. `Scenarios` (daemon) and `Limits`
(others) are sets: the initial state chooses what the daemon is started with and a
budget, how often the environment does each kind of thing (`Kinds`: a call, a lost link, a
crash, ...). Every other action is free. `CHECK_DEADLOCK` is off in all runs: once the
environment has used its budget and all work is done, the system really stops.

The scenarios are in the MC modules. They allow two overlapping instances
of what they are about (two clients, two accounts, two lost links, up to three calls each
way), which is where the code's decisions differ: each depends on the current command, the
last one queued or the emptiness of the client list. The other bounds: `Slots`, HTTP requests
in flight (three, a fourth would need one command to be deferred three times); `MaxPosted`,
pending `doProcessNextCommand()` calls (two: one more does not enable anything new,
surplus ones do nothing or the same); `MaxToken`, tokens an application generates (more than
the calls of the run can use up, or as many as are of interest where one change of token is
what matters); `MaxTopics` and `MaxMessages` of `Ntfy` (two topics, so that one joins or leaves a
stream with another in it; three messages, so that one can be handled, one queued and one not
sent yet); `MaxLines` (four: two messages, or one with two fields and a blank line too many);
`MaxPadding`, `MaxKeys`, `MaxMessages` of `WebPush` (two: none, the first and one more). The
proofs need none of the bounds of `Ntfy` and `WebPush`.

| Run | Shows |
|---|---|
| `daemon` (`TypeOK`, `NeverWaitsForNothing`, `NoLostWakeup`, `ConfigInUse`, `StatusTruthful`, `RepliesKept`, `SuccessMeansRegistered`, `CallsAnswered`, `ChangesHappen`) | Applications of both protocol versions register and unregister at a daemon on Autopush while the user changes the account (also from one whose URL it cannot open), links break, the network changes, the server rejects registrations or refuses its hello, and the daemon crashes: the queue neither blocks nor stalls while the account has a URL to open, every Register call is answered truthfully, and in the end if the server stays reachable, the change is carried out, status and configuration are what they say. |
| `moves` (`AllMoved`, `StoreComplete`, `StoreAgrees`, `RemovedOnRequest`, `Reconnects`) | A daemon with two registered clients is moved to another Autopush account while links break and a client unregisters, or crashes and loses link and network: all clients end up on the account in use, settings and memory agree, nobody loses a registration without having asked, and the daemon gets connected again. |
| `backends` (`NeverWaitsForNothing`, `OneReplyEach`, `AllMoved`) | On NextPush and Gotify, whose HTTP requests outlive the link and are answered after their command was deferred, and whose streams have events queued that are handled after they have ended, clients register and are moved, also to unknown providers, incomplete accounts and one whose URL it cannot open: late answers and late events do not block the queue, answer a call twice or leave a client behind. |
| `connector` (`TypeOK`, `EndsRegistered`, `EndsUnregistered`, `KeyInUse`, `Settles`) | An application registers and unregisters in any order up to six times, faster than the distributor answers, over either protocol version; or changes its VAPID key, required or not, during registrations and a move to another push provider; or is removed by the user, which the provider may reject: the last call wins and comes about, and the key is the one the distributor has. |
| `restarts` (`ReplyOnItsWay`, `NeverStuck`, `EndpointAgrees`, `Persisted`, `DistributorAlive`) | Application and distributor restart, calls time out or fail, the user removes the client or moves it to another push provider, while a second distributor of the other protocol version comes and goes: no command is current without a reply to come, a distributor that is gone is not held on to, and the endpoint in use and the one in the state file stay the distributor's, also when it restarts in the middle of a move and has none itself. |
| `ntfy` (`TypeOK`, `PlainNeverSkipped`, `KeepsMailboxes`) | Topics of the Ntfy backend come and go, each time with a new stream, while messages are published, queued in the event loop or fetched, links break, the network flaps, the server rejects and the daemon restarts: no message without attachment is skipped, and `Mailboxes` is implemented. |
| `ntfy_live` (`ConnectedListens`, `MailboxesEmpty`) | With links that break and restarts, but a network that stays: an idle daemon that shows Connected has a stream for all its topics, and every message without attachment leaves its mailbox in the end. |
| `selftest` (`TestTypeOK`, `CleansUp`, `TestEnds`, `SuccessTruthful`) | The self test of the settings module runs once or twice on top of a real connector and up to two distributors, and is ended by its message, its timer, failures, the user, a removal or move of its client, a distributor that leaves, the module being left (and opened again), or the end of the session: each test ends, success means that the message came through the endpoint in use, and a test that ended registered and with no call under way, however it ended within the session, leaves no client behind. |
| `sse` (`MessagesAsSent`) | All streams of up to four lines out of seven kinds, with each of the three line breaks, cut in every way, and broken connections: what is emitted is what was sent, as soon as it is complete. |
| `webpush` (`DeliveredAsSent`, `PaddingLoopEnds`, `KeysOutlive`) | Messages encrypted by this library, padded or malformed by another one, or not encrypted, reach a connector that restarts, loses its state file and creates new keys: it emits what was sent or the bytes as they came, its padding loop ends, the keys its server was given are kept. |

The passing runs keep clear of the disagreements below by their budgets (for example no
removal by the user in a scenario about moves of the client), not by guards in the model.
`UNIFIEDPUSH_DISTRIBUTOR` (`Requested`) is unset in `connector` and `selftest`; in `restarts` it
names KDE's distributor, so that the connector does not change over to the other one (the
last row about `Connector` says what happens if it does).

### Mutants

`PROJECT.json` lists for every property of a passing run a slip in the code that the
property catches: an operator such as `SettleQuietly` (the current command is finished
without waking up the queue) that takes the place of the one defined after it.

### Disagreements between the code and what it promises

These runs check a statement of a comment or of the API documentation and end with a
counterexample; `findings` in `PROJECT.json` quote the statement.

| Run | What happens |
|---|---|
| `keys_destroyed` (`EncryptionKeysKept`) | An application with encryption keys unregisters, which removes the state file they are in, and has none after its next start; `connector.h:64` promises that unregistering does not destroy them. |
| `null_distributor` (`Survives`) | When a second distributor leaves the bus, the connector dereferences its interface to the first one, which is null. |

More of them were seen with TLC while writing the models. To see one, give `Scenarios` or
`Limits` the one budget of the table and check the one property.

| Module, start | Budget | Property | What happens |
|---|---|---|---|
| Distributor, NextPush, one client, accounts `nextpush1`, `nextpush?` | change 2, crash 1, register 1 | `RegistrationPersisted` | A restart while no provider is set up loads no clients (the TODO at `distributor.cpp:81`); the next registration overwrites the list of tokens and drops all earlier ones. |
| Distributor, NextPush, one client | register 1, unregister 1, drop 1 | `RepliesKept` | The late answer to an Unregister that was deferred and repeated ends the Register that is current by then, and drops its reply: the caller is never answered. |
| Distributor, Autopush, one client, two accounts | change 2 | `StoreAgrees` | A second change queues a copy of the client that the first one's Register, in flight, is about to replace; unregistering the copy puts it into memory, the settings have the new one. |
| Distributor, Autopush, one client | register 1, change 1 | `AllMoved` | A registration that is in flight when the provider is changed is completed at the old provider and never moved. |
| Distributor, NextPush, one client, `FairSpec` | drop 1 | `Reconnects` | A NextPush stream that the server closes regularly is reported as NoError (`nextpushprovider.cpp:209`), after which the daemon stays disconnected although it has clients. |
| Distributor, NextPush, no client | register 1, drop 1, fail 1 | `OnlyCommandsQueued` | A transient failure that arrives after its command was deferred puts an empty command on the queue, which runs into the assertion of `doProcessNextCommand()`. |
| Distributor, Autopush, no client | register 1, drop 1 | `RegistersConnected` | When the connection attempt for the first client fails, no Connect is queued again and Register is sent to a provider that is not connected. |
| Distributor, Autopush, no client | register 1, change 1, drop 1 | `Reconnects` | The change of provider finds no client, queues no Connect, and the registration in flight makes one. |
| Distributor, Autopush, one client | change 1, crash 1 | `AllMoved` | A crash between storing the new configuration and carrying out the change leaves clients registered at the old account. |
| Distributor, NextPush, one client, accounts `nextpush1`, `nextpush?` | change 2 | `AllMoved` | Recovering from a provider that could not be set up does not register the existing clients at the new one. |
| Distributor, NextPush, two accounts | change 1, drop 1 | `RemovedOnRequest` | A late answer to a silent unregistration, arriving while another command is current, removes a client that is only being moved. |
| Distributor, Autopush, one client | change 1, unregister 1 | `StaysUnregistered` | A client that unregisters while a change of provider is queued is registered again by the change. |
| Distributor, Autopush, one client, `FairSpec` | urgency 1 | `UrgencyApplied` | A new urgency level is queued without waking up the queue: an idle daemon does not tell the provider. |
| Distributor, Autopush, one client, `FairSpec` | network 2, or fail 1 | `Reconnects` | The network goes and comes back while the Disconnect is still queued: no Connect is queued, and the Disconnect is carried out. The server refuses the hello, and leaves the link open. |
| Distributor, Autopush, no client, account `autopush:` | register 1 | `WaitsForSomething` | The URL is neither http nor https: Connect is rejected at once, Register goes into a socket that was never opened, and no lost link defers it. |
| Distributor, Gotify, no client, account `gotify:` | register 1, unregister 1 | `WaitsForSomething` | Likewise; the Disconnect for the last client waits for a socket that was never opened to close. |
| Distributor, Gotify, no client, accounts `gotify1`, `gotify:` | register 1, unregister 1, change 1, network 2 | `WaitsForSomething` | The same after a change of account to one with such a URL. |
| Distributor, Autopush, no client, account `autopush:`, `FairSpec` | register 1 | `CallsEnd` | The caller of that Register is never answered. |
| Distributor, Autopush, no client, `FairSpec` | register 1, fail 1 | `CallsEnd` | The server answers the hello with another status than 200, which is ignored: Connect stays current as long as the server keeps the link open. |
| Distributor, NextPush, one client | drop 1 | `LinkShown` | The event "start" is handled after its stream has ended: the status is Connected, without a stream, until the retry. |
| Connector, one distributor | register 2, required 1, key 1 | `KeyInUse` | The unregistration for a new key cancels a registration that waits for the key, the registration that follows finds the client registered: the new key is never used. |
| Connector, one distributor | register 1, move 1, gone 1, here 1 | `RegisteringEnds` | A distributor that restarts between the two halves of a move answers Register with an empty endpoint: the application shows Registering ("is registering with the push provider", `connector.h:72`) for good, and nobody is. |
| Connector | register 2, unregister 1, key 1 | `EndsUnregistered` | A new VAPID key while an unregistration is queued brings the registration back. |
| Connector | register 2, unregister 1, required 1 | `EndsUnregistered` | `unregisterClient()` only cancels a registration that waits for a VAPID key, although the client is registered already. |
| Connector | register 1, unregister 1, gone 1, here 1 | `EndsUnregistered` | An unregistration asked for while the distributor restarts is cancelled by the automatic registration. |
| Connector, nobody on the bus at first | register 1, unregister 1, here 1 | `EndsRegistered` | Before there is a distributor, `unregisterClient()` and the `registerClient()` that follows it cancel each other: the application stays unregistered when one appears. |
| Connector | register 2, unregister 2, key 1 | `EndsRegistered` | Behind the no-op that a new key queues, a second `unregisterClient()` is not recognised as a duplicate of the first. The next `registerClient()` cancels the second only, and the first is carried out. |
| Connector | register 1, unregister 1, move 1 | `EndsUnregistered` | A move that is queued at the distributor behind the unregistration registers the client again. |
| Connector | register 1, key 1, gone 1, here 1 | `KeyInUse` | A distributor restart loses the unregistration for a new key, the distributor goes on with the old key. |
| Connector | register 2, unregister 1, fail 1 | `NeverStuck` | An unregistration after a failed registration is never confirmed, and blocks all later commands. |
| Connector | register 1, gone 1, here 1 | `DistributorShown` | The error reply for a Register call that was under way when the distributor left replaces the state `NoDistributor`. |
| Connector | register 1, move 1 | `RegisteredOperational` | The empty endpoint a distributor sends during a move puts the connector into state Registered. |
| Connector | register 1, key 1 | `KeyPersisted` | A VAPID key is not stored when it is set, only with the next endpoint. |
| Connector | register 2, quit 1 | `NoOrphans` | The token of a registration is stored with its endpoint only: an application that quits before that leaves a registration it does not know of. |
| Connector, two distributors | register 1, gone 1, here 2 | `EndpointAgrees` | The connector has changed over to another distributor; the endpoint the earlier one sends late is taken for its own, the sender is not compared. |
| Connector, two distributors | register 1, key 1, force 1 | `EndsRegistered` | The user's removal is taken for the confirmation of the unregistration for a new key; the real one, without token in version 1, then makes the connector forget its new token. |
| Connector | register 1, force 1, reject 1 | `EndpointAgrees` | When the push provider rejects a removal, the distributor forgets the client without telling it. |
| Ntfy | register 1, network 1 | `ConnectedListens` | The event "open" is handled after the network has gone and the stream is closed: the status stays Connected, and no Connect is queued when the network comes back. |
| Ntfy | register 2, reject 1 | `ConnectedListens` | The same after the server has rejected the stream: it opened, the second registration aborted it and the next one is rejected before "open" is handled. |
| Ntfy | register 1, publish 1, attach 1, fail 1 (or crash 1) | `NothingLost` | A message without attachment that is handled while an earlier one's attachment is being fetched passes over it; when the fetch fails, or the daemon restarts, the server is not asked for it again. |
| SelfTest | register 1, move 1 | `NeverCrashes` | The empty endpoint of a move makes the test destroy the connector while it emits the signal. |
| SelfTest | register 1 | `NothingLeft` | The timer ends a test while its registration is current: the unregistration is queued, and is lost with the connector. |

## Fairness

`DistributorProperties!Fairness`: the event loop runs what was posted and timers that
expired, servers answer requests, links open or fail and close, and a crashed daemon is
started again (`Restart=on-failure` in its service file). Nothing is assumed of applications,
users, links that break or servers that fail. `StreamStarts` is fair, which with `Connected` is a server
that accepts a stream; `MessageForNobody` is the event loop again. `Reconnects` is conditional on a network
that stays (`<>[]network`), the other two on a server that stays reachable (`<>[]Reachable`): in addition, the
account in use has a URL that can be opened, and the server does not keep a link open for ever whose hello it
has refused. Without that they fail, see `CallsEnd`.

`ConnectorProperties!Fairness`: the application handles what arrives, distributors work,
pending calls that are never answered time out (QtDBus does so after 25 seconds).

`NtfyProperties!Fairness`: the event loop runs handlers and commands, fetches end, the server
accepts a stream and sends what it has. `FetchFinished` is fair although a fetch may fail
(`FetchFails` counts as ended, too, within its budget): QNetworkAccessManager ends every request.

`SelfTest!TestFairSpec`: the test's timer fires if it runs, and nothing else. That a test ends
must not depend on anybody else.

## Proofs

### Distributor

The theorems hold for every set of applications, accounts, providers and every budget,
from `DistributorAssumption` alone: tokens are finite, profiles are given for
known providers, `None` is none of the values, scenarios are of the right type.

* `TypeCorrect`: `TypeOK` is inductive. The work is in the queue: commands of every type
  are records of different shapes, `MoveQueue` filters, reorders and appends to it (`Pick`,
  `Orders`). `KthType` and `PickType` show that choosing the k-th element of a finite set of
  positions is well defined.
* `NeverStalls`: `NoLostWakeup`. Each handler either posts a wake-up, leaves a current
  command, or leaves a queue that has nothing to do; one lemma per group of actions.
* `NothingBlocksTheQueue`: `NeverWaitsForNothing`, which is about accounts with a URL that can be opened (for
  others it is false, see `WaitsForSomething` in the table). It is not inductive. `WaitInv` adds that a
  daemon that is down has no current command (else a restart would have one with no request),
  and that an urgency change is current only on stream backends, where it reopens the
  connection: without that, closing the link of a socket backend would leave it waiting. `LinkTold` adds
  that only accounts in `OddUrls` leave a socket unopened, and that a stream that has begun has its event
  "start" in the queue, which is what Connect waits for.
* `StatusFollowsLink`: `StatusTruthful`, for every order of lost, closed and overwritten
  links and late events: an open link is shown as connected on every provider; that connected means
  a link is claimed for WebSockets only, on streams it is false (`LinkShown`).
* `NoCallAnsweredTwice`: `OneReplyEach`, inductive with `TypeOK`. The work is in counting:
  what `Held` counts is a set of positions of a queue that is appended to, taken from, filtered and
  reordered. `SameSize` and the lemmas after it say what each of these does to the number of
  entries with some property; a command that is deferred goes back with its reply, and a reply
  that is sent closes a call that waits.
* `ChosenConfigInUse`: `ConfigInUse`, inductive with `TypeOK`: a change of provider that is queued stays
  queued through `MoveQueue` and `Defer` until it is carried out.

The following hold only where the operations of the provider are messages on the link, which
is the hypothesis `OpsOnSockets`: each known provider an account is for has `ops = "socket"`
(Autopush; so it is in the runs `daemon` and `moves`). On the HTTP backends they are false, see
`RepliesKept` and `RemovedOnRequest` in the table above. What makes the difference is `AnswersCurrent`,
an invariant the proofs share: there is at most one request, it is the one of the current
command, and it is for its client. It needs `ProvidersEntered` (a provider in use, stored or
queued is that of an entered account), and fails with HTTP, where requests outlive their command.

* `NoCallForgotten`: `RepliesKept`. With the counting lemmas: an action that lets a
  reply go sends it, or is the withdrawal. `NothingLeft` (a daemon that is down holds nothing)
  covers restarts, `AcksDelivered` that nothing else than acknowledgements is delivered late.
* `SuccessIsTrue`: `SuccessMeansRegistered`, `OnlyRemovedOnRequest`: `RemovedOnRequest`. An
  answer is judged by the current command's type and client, which are the request's.
* `RestartFindsClients`: `StoreComplete`, for any providers, under `AccountsWork`: every account is
  complete and of a known provider. Without it a restart loads no clients (`RegistrationPersisted`
  above). `StoreKept` adds that a daemon that is down has its clients in the settings, all with their
  data, and that there are none before there is a provider; `ConfigsKnown`, that a provider is
  never stored or queued before its configuration.

### Ntfy

From `NtfyAssumption` alone (the bounds are numbers), for any number of topics and messages.

* `NtfyTypeCorrect`: `TypeOK` is inductive.
* `NtfyNeverSkips`: `PlainNeverSkipped` is not inductive, since what a handler makes of
  `lastMessageId` depends on the event it takes from the queue, or on the attachment that has been
  fetched. `IInv` adds: the settings agree with the members (`Consistent`); topics and
  messages mentioned anywhere exist (`Bounded`); a stream is for the topics there are
  (`StreamTopics`); with a stream, a message that is waited for is still to be sent or in the
  event queue (`NoneMissed`), where it comes before all later ones (`InOrder`); and it is later than
  every attachment being fetched (`NoneFetched`). An aborted stream's events are covered
  because the new one starts after what has been handled, not after what has arrived.
* `NtfyImplementsMailboxes`: with `IInv`, every step is a step of `Mailboxes` or changes nothing
  there. Handling a message empties its mailbox, and one that has been handled before, or
  is for a topic that is gone, changes nothing: this is where messages that a new
  stream repeats end.
* `NtfyListens`: `ConnectedListens`, under `StreamsWelcome`: the network stays and the server rejects no
  stream, as in the run `ntfy_live`; otherwise it is false, see the table above. Both can take the
  stream away while its event "open" is queued, with nothing queued that reconnects. `Listens` adds
  that a daemon with topics and no stream has a Connect queued, and that a Disconnect is queued
  only first, when the last topic has gone.

### WebPush

From `WebPushAssumption` (payloads are bytes), for any payloads, padding, and number of keys.

* `KeysKept`: `KeysOutlive`, with the invariant that known keys are in the file or forgotten.
* `RoundTrip`: `DeliveredAsSent`. `PaddedText` describes text, delimiter and padding byte by
  byte, `PaddingRemoved` shows that the last delimiter is the one that was added, whatever
  the payload contains.
* `PaddingEnds`: `PaddingLoopEnds`, from the sizes `decrypt()` tests.

### Connector

From `ConnectorAssumption` alone (the order of preference is a numbering of finitely many
distributors, `None` is none of the values), for any keys, endpoints and budgets.

* `ConnectorTypeCorrect`: `TypeOK` is inductive. `Sound` says what the connector's
  methods leave behind at any time (a call is made by the command that has just become current,
  to a distributor in use, registrations with a token), `Follows` what they change; both are
  shown for `processNextCommand()`, `addCommand()`, `Reregister` and `setDistributor()` once and
  used by every handler. `LeastNumber` shows that the first command to be run and
  the preferred distributor exist.
* `RepliesCome`: `ReplyOnItsWay`, and `LetsGoOfTheGone`: `DistributorAlive`, from `IInv`: an
  application that does not run has a fresh connector; a current Register has a pending call
  or a reply (or error) in the queue of the bus; the distributor in use is on the bus, or the signal that
  it has left is in that queue. The loss of a distributor is not needed for the first: the bus
  answers for it. `DistributorAlive` alone is not inductive, it says nothing while signals are on
  their way.
* `RegistrationIsStored`: `Persisted`, under `StateFileStays`: the application does not call
  `removeState()`, as in the run `restarts`; one that does while it is registered has no state file.
  `FileKept` also covers endpoints without a registration (after a loss of the distributor the
  endpoint is kept), and that nobody announces an endpoint without a token, which a connector that
  has none would take for its own.

`ConnectorOrderProofs` is about what connector and distributor agree on when nothing is under way,
through calls that come faster than they are answered. With failures, losses and removals they do not agree,
see the disagreements above, so most of its theorems assume `Undisturbed`: no call fails or
times out, no registration is rejected, no distributor leaves, the user removes nothing and the
application keeps running. The limits of these are zero; how often the application calls, the user
changes the push provider and distributors appear is free, and so is the order in which calls, jobs
and messages are handled. All limits of the run `connector` but one are of this kind.

* `NotStuckRegistering`: `NeverStuck` under `StaysRegistered`, with all disturbances: an application
  that neither unregisters nor changes its key has only Register commands, and each has its reply
  (`RepliesCome`). `Runs` says that a handler leaves no command in the queue that it could
  have run.
* `NotStuckUndisturbed`: `NeverStuck` under `Undisturbed`. `ReplyOnItsWay` says nothing about Unregister
  commands, whose end is the signal `Unregistered`. `Orderly` follows each command
  through its phases: none under way (`Idle`), the call pending or the job queued at the distributor
  (`Asked`), the endpoint or its reply on the bus (`Answered`), the unregistration queued
  (`Leaves`), its confirmation on the bus (`Left`); exactly one of them holds, and what may be in
  the queue of the bus and in the distributor's follows from it.
* `EndpointKnown`: `EndpointAgrees` under `Undisturbed`, for connectors that are registered or
  registering. `EndpointComing` adds that, while the endpoint in use is not the distributor's, the last
  endpoint on the bus is, or a job that will send it is queued.
* `NewKeyArrives`: `KeyInUse` under `Undisturbed` and `NeverRequired` (`setVapidPublicKeyRequired()`
  is not called). A new key queues an unregistration, a no-op and a registration. `Shaped`
  describes the queues this and the cancellation in `addCommand()` can produce, `KeyKept` says that a
  distributor that has, or is going to have, an earlier key also has an unregistration to
  come that no later call cancels: the no-op stands between them. With a required key the table above has
  a counterexample.
* `RegistersInTheEnd`: `EndsRegistered` under `Undisturbed`, `KeyStays` (neither the key nor whether it is
  required is changed) and `NobodyComes` (the distributors on the bus are there from the start).
  Without no-ops a queue has at most two commands, which take turns (`Turns`); the command that
  will be the last to be carried out is the last wish (`GetsRegistered`, `GetsUnregistered`).
  Cancelling keeps that, except while there is no distributor: the unregistration would have changed
  nothing then, but takes the registration with it.
* `UnregistersInTheEnd`: `EndsUnregistered` under `Undisturbed`, `KeyStays` and `NeverMoved`, also with
  distributors that appear later. `Clean` adds that the distributor in use knows no other token
  than the connector's, none once its confirmation is on the bus, and that only the
  connector's own jobs are queued there.

The three rows of the table above about a distributor that appears late, a second
`unregisterClient()` and a queued move are why the last two have these hypotheses.

Only model-checked: liveness (out of the prover's reach); `AllMoved` and `StoreAgrees`, which
hold only under the budgets of their runs, see the disagreements above; `SelfTest`; `SseStream`
(the parser is recursive over its data).

## Plan

1. Done: `PushProviders`, `Distributor`, `Connector`, `Ntfy`, `SelfTest`, `SseStream`,
   `WebPush`, and the proofs above.
2. The other backends with their own state: `AutopushProvider` (hello, uaid, channel
   registration, ping timer), `NextPushProvider` (device registration, keep-alive); each shown
   to implement the profile `Distributor` assumes, and `Mailboxes`.
3. `Push`, an abstract specification (an application is registered or not, messages reach the
   registered), implemented by the composition of `Connector` and `Distributor`: the
   distributors of `Connector` as an abstraction of `Distributor`.
4. Several connectors in one process: one D-Bus object, tokenless confirmations.
5. `Urgency` (the level for each state of battery and network) and `Backoff` (the retry
   interval and its overflow).
6. `NextcloudAuthenticator`.
7. Proofs: `SelfTest`, on top of those about `Connector`; budgets under which `AllMoved` and
   `StoreAgrees` hold, as hypotheses of theorems; `EndpointAgrees` with restarts and removals.

## Not modelled

JSON and HTTP details; how keys are derived, and VAPID signatures, which nothing in the
repository verifies; the D-Bus introspection in
`doSetDistributor()` (the version is a constant); time-outs as
durations; the Android port; the mock backend; the command line tools; the user interface.

## Running

    tlc -config daemon.cfg MCDistributor.tla
    tlc -config connector.cfg MCConnector.tla
    tlc -config ntfy.cfg MCNtfy.tla
    tlc -config selftest.cfg MCSelfTest.tla
    tlc -config sse.cfg MCSseStream.tla
    tlc -config webpush.cfg MCWebPush.tla
    tlapm DistributorProofs.tla
    tlapm DistributorSafetyProofs.tla
    tlapm DistributorQueueProofs.tla
    tlapm DistributorAnswerProofs.tla
    tlapm ConnectorProofs.tla
    tlapm ConnectorOrderProofs.tla
    tlapm NtfyProofs.tla
    tlapm WebPushProofs.tla
