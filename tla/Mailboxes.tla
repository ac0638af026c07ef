------------------------------ MODULE Mailboxes ------------------------------
(***************************************************************************)
(* What a push provider promises about messages: each client has a mailbox *)
(* from its registration to its unregistration.  A message published to it *)
(* stays there until it has been delivered, whatever happens to the link   *)
(* or to the daemon.  It may be delivered more than once, which changes    *)
(* nothing here.                                                           *)
(***************************************************************************)

CONSTANTS
  Clients, \* what can be registered
  Ids      \* message identifiers

VARIABLES
  registered, \* the clients that have a mailbox
  pending,    \* the messages in the mailboxes, <<client, identifier>>
  delivered   \* the identifiers of the messages that were delivered

mailboxVars == <<registered, pending, delivered>>

MailboxInit == registered = {} /\ pending = {} /\ delivered = {}

Register(c) ==
  /\ registered' = registered \cup {c}
  /\ UNCHANGED <<pending, delivered>>

Unregister(c) ==
  /\ registered' = registered \ {c}
  /\ pending' = {m \in pending : m[1] # c}
  /\ UNCHANGED delivered

Publish(c, id) ==
  /\ c \in registered
  /\ id \notin delivered /\ \A m \in pending : m[2] # id
  /\ pending' = pending \cup {<<c, id>>}
  /\ UNCHANGED <<registered, delivered>>

Deliver(c, id) ==
  /\ <<c, id>> \in pending
  /\ pending' = pending \ {<<c, id>>}
  /\ delivered' = delivered \cup {id}
  /\ UNCHANGED registered

MailboxNext ==
  \E c \in Clients :
    Register(c) \/ Unregister(c) \/ \E id \in Ids : Publish(c, id) \/ Deliver(c, id)

MailboxSpec == MailboxInit /\ [][MailboxNext]_mailboxVars

(* No message stays in a mailbox for ever. *)
AllLeave == \A m \in Clients \X Ids : m \in pending ~> m \notin pending

=============================================================================
