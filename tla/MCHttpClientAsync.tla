------------------------- MODULE MCHttpClientAsync -------------------------
(* Instances of HttpClientAsync for TLC.                                   *)
EXTENDS HttpClientAsync
=============================================================================
