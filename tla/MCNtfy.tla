------------------------------- MODULE MCNtfy -------------------------------
(***************************************************************************)
(* Instances of Ntfy for TLC.                                              *)
(***************************************************************************)
EXTENDS NtfyProperties

Budget(b) == [k \in Kinds |-> IF k \in DOMAIN b THEN b[k] ELSE 0]
LiveLimits ==
  {Budget([register |-> 2, unregister |-> 1, publish |-> 2, drop |-> 1]),
   Budget([register |-> 2, publish |-> 2, drop |-> 1, crash |-> 1]),
   Budget([register |-> 1, publish |-> 1, attach |-> 2, drop |-> 1,
           crash |-> 1, fail |-> 1])}
(* ... with networks that go and come, and a server that rejects. *)
NtfyLimits ==
  LiveLimits \cup
  {Budget([register |-> 2, unregister |-> 1, publish |-> 2, network |-> 2,
           reject |-> 1]),
   Budget([register |-> 1, unregister |-> 1, publish |-> 1, attach |-> 1,
           network |-> 1, reject |-> 1, crash |-> 1])}
=============================================================================
