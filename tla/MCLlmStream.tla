---------------------------- MODULE MCLlmStream ----------------------------
(* The three providers, with a channel of one so that a slow caller blocks *)
(* the reader within a response of a few chunks.                           *)
EXTENDS LlmStream
=============================================================================
