--------------------------- MODULE MCHttpService ---------------------------
(* Model values for the runs of HttpService. *)
EXTENDS HttpService

CONSTANTS h1, h2
=============================================================================
