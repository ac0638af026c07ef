--------------------------- MODULE NtfyProperties ---------------------------
(***************************************************************************)
(* What the Ntfy backend does with messages: properties of module Ntfy.    *)
(***************************************************************************)
EXTENDS Ntfy

(* The messages clients have been sent and not got. *)
Waiting == {m \in DOMAIN log : log[m].topic \in topics /\ m \notin delivered}
Plain == {m \in DOMAIN log : ~log[m].attachment}

-----------------------------------------------------------------------------
(* Safety *)

(* The server is never told to skip a message that has not been handled:   *)
(* the identifier the next stream starts after, in memory and in the       *)
(* settings, passes no message without attachment.                         *)
PlainNeverSkipped ==
  \A m \in Waiting \cap Plain : m > lastMessageId /\ m > storedId

(* A daemon that says it is connected, and is not about to change that,    *)
(* has a stream for all topics it has clients for.                         *)
ConnectedListens ==
  status = "Connected" /\ current = "NoCommand" /\ queue = <<>> /\ topics # {}
    => stream.state # "off" /\ stream.topics = topics

(* The backend is an implementation of the mailboxes, as long as messages  *)
(* come without attachments: what is in them is what the server will be    *)
(* asked for.                                                              *)
InMailboxes ==
  {<<log[m].topic, m>> : m \in {w \in Waiting \cap Plain : w > lastMessageId}}
Mailbox == INSTANCE Mailboxes WITH
  Clients <- Topics,
  Ids <- MessageIds,
  registered <- topics,
  pending <- InMailboxes,
  delivered <- delivered \cap Plain
KeepsMailboxes == Mailbox!MailboxSpec

-----------------------------------------------------------------------------
(* Liveness *)

(* The event loop runs; the server answers, and sends what it has; an      *)
(* attachment is fetched or fails.                                         *)
Fairness ==
  /\ WF_vars(Daemon) /\ WF_vars(Handle) /\ WF_vars(Fetched)
  /\ WF_vars(StreamOpens) /\ WF_vars(ServerSends)
FairSpec == Spec /\ Fairness

(* Every message without attachment gets out of its mailbox, through       *)
(* streams that break or are opened anew and restarts of the daemon.       *)
MailboxesEmpty == Mailbox!AllLeave

-----------------------------------------------------------------------------
(* What the code does not keep to; the README says how to see it.          *)

(* A message, with an attachment or without, is still being fetched or     *)
(* will be asked for.                                                      *)
NothingLost ==
  \A m \in Waiting :
    m > lastMessageId \/ \E i \in DOMAIN fetches : fetches[i] = m

=============================================================================
