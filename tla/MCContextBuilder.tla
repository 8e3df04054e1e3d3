--------------------------- MODULE MCContextBuilder ---------------------------
(* Contents of 1, 2 and 5 tokens against a limit of 6: the spec and the    *)
(* plan may leave room for one large entry, for small ones, or for none.   *)
EXTENDS ContextBuilder

MCLengths == {0, 8, 20}
=============================================================================
