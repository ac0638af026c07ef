------------------------ MODULE ConnectorProperties ------------------------
(***************************************************************************)
(* What an application can expect of its connector: properties of module   *)
(* Connector.                                                              *)
(***************************************************************************)
EXTENDS Connector

(* Nothing is under way: all calls, replies and signals have been handled. *)
Quiet == /\ running /\ incoming = <<>> /\ pending = None
         /\ \A d \in Distributors : work[d] = <<>>

-----------------------------------------------------------------------------
(* Safety *)

(* A Register command occupies the connector only while its reply is under *)
(* way: whatever happens to the distributor, it replies or will, or the    *)
(* bus reports an error in its stead.                                      *)
ReplyOnItsWay ==
  con.current = "Register" =>
    \/ pending # None
    \/ \E i \in DOMAIN incoming :
         incoming[i].event \in {"Success", "Failure", "Error"}

(* The connector never gets stuck: when nothing is under way, no command   *)
(* is current, and none is queued that could be run.                       *)
NeverStuck ==
  Quiet /\ con.iface # None =>
    con.current = "None" /\ (con.queue = <<>> \/ ~Ready(con, Head(con.queue)))

(* The last of the application's wishes wins, through duplicates, commands *)
(* that cancel each other, and a change of the key in between.  After      *)
(* registerClient() it is registered, once it has the key it requires ...  *)
EndsRegistered ==
  Quiet /\ con.iface # None /\ wish = "registered" /\ Ready(con, "Register") =>
    con.state = "Registered" /\ Known(con.iface, con.token)

(* ... and after unregisterClient() no distributor still has it.           *)
EndsUnregistered ==
  Quiet /\ con.iface # None /\ wish = "unregistered" =>
    /\ con.state = "Unregistered"
    /\ \A d \in services, t \in Tokens : ~Known(d, t)

(* The endpoint the application gives to its server is the one it is       *)
(* registered with, through moves, restarts and losses of the distributor; *)
(* if one of these leaves the client without an endpoint, the application  *)
(* has none either and its state is Registering.                           *)
EndpointAgrees ==
  Quiet /\ con.iface # None /\ con.state \in {"Registered", "Registering"} =>
    /\ Known(con.iface, con.token)
    /\ con.endpoint = clients[con.iface][con.token].endpoint

(* A new VAPID key reaches the push provider. *)
KeyInUse ==
  /\ Quiet /\ con.iface # None /\ con.state = "Registered"
  /\ Known(con.iface, con.token) /\ VersionOf[con.iface] = "v2"
  => clients[con.iface][con.token].key = con.key

(* After a restart a registered application finds itself registered: the   *)
(* state file has its token and endpoint.                                  *)
Persisted ==
  running /\ con.state = "Registered" =>
    file # None /\ file.token = con.token /\ file.endpoint = con.endpoint

(* The connector does not hold on to a distributor that is gone. *)
DistributorAlive == Quiet /\ con.iface # None => con.iface \in services

(* Only the application ends itself: a connector whose distributors come   *)
(* and go survives that.                                                   *)
Survives == [][running /\ ~running' => budget'.quit < budget.quit]_vars

-----------------------------------------------------------------------------
(* Liveness *)

(* Applications handle what the bus delivers, distributors work, and a     *)
(* reply that does not come times out.                                     *)
Fairness ==
  /\ WF_vars(Delivery) /\ WF_vars(Timeout) /\ WF_vars(Start)
  /\ \A d \in Distributors : WF_vars(Works(d))
FairSpec == Spec /\ Fairness

(* As long as its distributor stays, what the application asks for comes   *)
(* about, unless it changes its mind or does not provide the key.          *)
Settles ==
  /\ running /\ con.iface # None /\ wish = "registered" ~>
       \/ con.state = "Registered" \/ wish # "registered"
       \/ ~Ready(con, "Register")
  /\ running /\ con.iface # None /\ wish = "unregistered" ~>
       con.state = "Unregistered" \/ wish # "unregistered"

-----------------------------------------------------------------------------
(* Statements of documents that the code does not keep; the README says    *)
(* how to see it.                                                          *)

(* A distributor has no clients the application has lost track of. *)
NoOrphans ==
  Quiet => \A d \in services, t \in Tokens : Known(d, t) => t = con.token

(* The state tells whether there is a distributor. *)
DistributorShown ==
  Quiet => (con.state = "NoDistributor" <=> SelectDistributor = None)

(* A registered connector is operational: it has an endpoint. *)
RegisteredOperational == con.state = "Registered" => con.endpoint # None

(* Registering means that a registration is under way. *)
RegisteringEnds == Quiet => con.state # "Registering"

(* Encryption keys outlive an unregistration and the process: until the    *)
(* application removes the state, one that has had keys has them whenever  *)
(* it runs.                                                                *)
EncryptionKeysKept == [](con.hasKeys => [](running => con.hasKeys))

(* The VAPID key need not be stored by the application. *)
KeyPersisted == Quiet /\ con.key # None => file # None /\ file.key = con.key

=============================================================================
