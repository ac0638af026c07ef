--------------------------- MODULE PushProviders ---------------------------
(***************************************************************************)
(* What the distributor can observe of the push provider backends behind   *)
(* AbstractPushProvider: over what they send their operations, which       *)
(* errors they report, and how they open and close the link on which       *)
(* messages arrive.  A backend is described by a profile; the provider     *)
(* actions of module Distributor are parameterised by it.                  *)
(***************************************************************************)
EXTENDS Naturals

(* AbstractPushProvider::Error *)
Errors == {"NoError", "TransientNetworkError", "ProviderRejected"}

(* ops      "socket": register, unregister and acknowledge are messages on *)
(*          the link, their answers are lost with it; "rest": HTTP         *)
(*          requests of their own, answered whatever happens to the link.  *)
(* link     "socket": a QWebSocket; "sse": a streaming HTTP GET.           *)
(* registerErrors, unregisterErrors: the errors those operations report    *)
(*          besides NoError.                                               *)
(* connectErrors, dropErrors: what disconnected() reports while the link   *)
(*          is being opened, and once it is open.                          *)
(* hello    a link that is open counts as connected once the server has    *)
(*          answered a hello with success; any other answer is ignored.    *)
(* messageIds: messages carry an identifier to acknowledge.                *)
(* forgets  disconnectFromProvider() clears the pointer that the link's    *)
(*          state handler goes on to use.                                  *)
Profiles ==
  [ops : {"socket", "rest"}, link : {"socket", "sse"},
   registerErrors : SUBSET Errors, unregisterErrors : SUBSET Errors,
   connectErrors : SUBSET Errors, dropErrors : SUBSET Errors,
   hello : BOOLEAN, messageIds : BOOLEAN, forgets : BOOLEAN]

Autopush ==
  [ops |-> "socket", link |-> "socket",
   registerErrors |-> {"ProviderRejected"},
   unregisterErrors |-> {"ProviderRejected"},
   connectErrors |-> {"TransientNetworkError"},
   dropErrors |-> {"TransientNetworkError"},
   hello |-> TRUE, messageIds |-> TRUE, forgets |-> FALSE]

NextPush ==
  [ops |-> "rest", link |-> "sse",
   registerErrors |-> {"TransientNetworkError", "ProviderRejected"},
   unregisterErrors |-> {"TransientNetworkError"},
   connectErrors |-> {"TransientNetworkError", "NoError", "ProviderRejected"},
   dropErrors |-> {"TransientNetworkError", "NoError"},
   hello |-> FALSE, messageIds |-> TRUE, forgets |-> FALSE]

Gotify ==
  [ops |-> "rest", link |-> "socket",
   registerErrors |-> {"TransientNetworkError"},
   unregisterErrors |-> {"TransientNetworkError"},
   connectErrors |-> {"TransientNetworkError"},
   dropErrors |-> {"TransientNetworkError"},
   hello |-> FALSE, messageIds |-> FALSE, forgets |-> TRUE]

=============================================================================
