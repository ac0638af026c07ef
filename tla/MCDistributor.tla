--------------------------- MODULE MCDistributor ---------------------------
(***************************************************************************)
(* Instances of Distributor for TLC.                                       *)
(***************************************************************************)
EXTENDS DistributorProperties, TLC

(* Accounts are named after their provider; "...?" is one whose settings   *)
(* are incomplete, "...:" one whose URL is neither http nor https.         *)
MCProviderOf ==
  [a \in Accounts |->
     CASE a \in {"autopush1", "autopush2", "autopush:"} -> "Autopush"
       [] a \in {"nextpush1", "nextpush2", "nextpush?"} -> "NextPush"
       [] a \in {"gotify1", "gotify:"} -> "Gotify"
       [] OTHER -> "Other"]
MCUsable == Accounts \ {"nextpush?", "other"}
MCOddUrls == Accounts \cap {"autopush:", "gotify:"}
MCProfile ==
  [id \in ProviderIds \ {"Other"} |->
     CASE id = "Autopush" -> Autopush
       [] id = "NextPush" -> NextPush
       [] id = "Gotify" -> Gotify]

Budget(b) == [k \in Kinds |-> IF k \in DOMAIN b THEN b[k] ELSE 0]
Scenario(a, cs, b) == [account |-> a, clients |-> cs, limits |-> Budget(b)]

(* How the daemon starts, and how often the environment acts, per          *)
(* configuration.                                                          *)
Daemon ==
  {Scenario("autopush1", {},
     [register |-> 2, unregister |-> 1, change |-> 1, drop |-> 1]),
   Scenario("autopush1", {},
     [register |-> 2, fail |-> 1, drop |-> 1, network |-> 1]),
   Scenario("autopush:", {}, [register |-> 1, change |-> 1]),
   Scenario("autopush1", {"t1", "t2"},
     [crash |-> 1, network |-> 2, drop |-> 1, urgency |-> 1, message |-> 1])}
Moves ==
  {Scenario("autopush1", {"t1", "t2"},
     [unregister |-> 1, change |-> 1, drop |-> 2]),
   Scenario("autopush1", {"t1", "t2"},
     [drop |-> 2, crash |-> 1, network |-> 1])}
Backends ==
  {Scenario("nextpush1", {"t1", "t2"},
     [unregister |-> 1, change |-> 1, drop |-> 1]),
   Scenario("nextpush1", {"t1", "t2"}, [change |-> 1, drop |-> 2]),
   Scenario("nextpush1", {"t1"},
     [unregister |-> 1, change |-> 1, drop |-> 2]),
   Scenario("nextpush1", {"t1"},
     [unregister |-> 1, urgency |-> 1, message |-> 1, drop |-> 2]),
   Scenario("nextpush1", {},
     [register |-> 1, unregister |-> 1, urgency |-> 1, message |-> 1,
      drop |-> 1]),
   Scenario("gotify1", {},
     [register |-> 2, unregister |-> 1, message |-> 1, fail |-> 1,
      drop |-> 1]),
   Scenario("gotify1", {},
     [change |-> 2, urgency |-> 1]),
   Scenario("gotify:", {}, [register |-> 1, unregister |-> 1]),
   Scenario(None, {},
     [register |-> 1, unregister |-> 1, change |-> 1, message |-> 1,
      urgency |-> 1, fail |-> 1])}
=============================================================================
