----------------------------- MODULE MCSelfTest -----------------------------
(***************************************************************************)
(* Instances of SelfTest for TLC.                                          *)
(***************************************************************************)
EXTENDS SelfTest

MCRank == [d \in Distributors |-> IF d = "kde" THEN 0 ELSE 1]
MCVersionOf == [d \in Distributors |-> IF d = "kde" THEN "v2" ELSE "v1"]

(* How often the user and the surroundings act, per configuration. *)
Budget(b) == [k \in Kinds |-> IF k \in DOMAIN b THEN b[k] ELSE 0]
SelfTestLimits ==
  {Budget([register |-> 2, unregister |-> 1, fail |-> 1, timeout |-> 1]),
   Budget([register |-> 2, quit |-> 1, reject |-> 1]),
   Budget([register |-> 2, remove |-> 1, unregister |-> 1]),
   Budget([register |-> 2, remove |-> 1, quit |-> 1]),
   Budget([register |-> 1, remove |-> 1, move |-> 1]),
   Budget([register |-> 1, gone |-> 2, here |-> 2]),
   Budget([register |-> 1, move |-> 1]),
   Budget([register |-> 2, force |-> 1])}
=============================================================================
