----------------------------- MODULE MCWebPush ------------------------------
(***************************************************************************)
(* An instance of WebPush for TLC: payloads that are empty, end with the   *)
(* byte that delimits the padding, or have it or padding inside.           *)
(***************************************************************************)
EXTENDS WebPush

SomePayloads == {<<>>, <<7>>, <<7, 2>>, <<2>>, <<2, 0, 7>>}
=============================================================================
