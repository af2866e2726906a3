------------------------------- MODULE MCServer -------------------------------
(* Clients for model-checking Server. *)
EXTENDS Server

CONSTANTS c1, c2
==============================================================================
