---------------------------- MODULE MCSseStream -----------------------------
(***************************************************************************)
(* An instance of SseStream for TLC: data with and without a space, with   *)
(* a colon in it, events that replace one another, one without a value,    *)
(* another field and a comment.                                            *)
(***************************************************************************)
EXTENDS SseStream

Field(name, space, value) == [name |-> name, space |-> space, value |-> value]
SomeFields ==
  {Blank,
   Field("data", TRUE, <<"x">>), Field("data", FALSE, <<"y", ":">>),
   Field("event", TRUE, <<"x">>), Field("event", FALSE, <<>>),
   Field("id", TRUE, <<" ", "y">>), Field("", FALSE, <<"x">>)}
=============================================================================
