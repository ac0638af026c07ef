---------------------------- MODULE MCConnector ----------------------------
(***************************************************************************)
(* Instances of Connector for TLC.                                         *)
(***************************************************************************)
EXTENDS ConnectorProperties, TLC

(* KDE's own distributor is preferred, others follow by name. *)
MCRank == [d \in Distributors |-> IF d = "kde" THEN 0 ELSE 1]
MCVersionOf == [d \in Distributors |-> IF d = "kde" THEN "v2" ELSE "v1"]

(* How often the surroundings act, per configuration. *)
Budget(b) == [k \in Kinds |-> IF k \in DOMAIN b THEN b[k] ELSE 0]
ConnectorLimits ==
  {Budget([register |-> 3, unregister |-> 3, keys |-> 1, remove |-> 1]),
   Budget([register |-> 2, key |-> 2, move |-> 1]),
   Budget([register |-> 1, force |-> 1, reject |-> 1]),
   Budget([register |-> 1, key |-> 2, required |-> 2, move |-> 1])}
RestartsLimits ==
  {Budget([register |-> 1, move |-> 2, gone |-> 2, here |-> 2,
           quit |-> 1, timeout |-> 1]),
   Budget([register |-> 2, force |-> 1, fail |-> 1, timeout |-> 1,
           gone |-> 1, here |-> 1, quit |-> 1]),
   Budget([register |-> 2, unregister |-> 1, gone |-> 1, here |-> 1,
           quit |-> 1])}
KeysDestroyedLimits ==
  {Budget([register |-> 1, unregister |-> 1, keys |-> 1, quit |-> 1])}
NullDistributorLimits ==
  {Budget([gone |-> 2])}
=============================================================================
