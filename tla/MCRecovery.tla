----------------------------- MODULE MCRecovery -----------------------------
(* Three failures, mistakes or disturbances in any order, two calls of the API at a time. *)
EXTENDS Recovery
=============================================================================
