---------------------------- MODULE MCStreaming ----------------------------
(* One host: the poll loop and a request beside it, two Spotify apps. *)
EXTENDS Streaming
=============================================================================
