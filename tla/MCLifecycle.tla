---------------------------- MODULE MCLifecycle ----------------------------
(***************************************************************************)
(* An instance of Lifecycle: two requests, two signals, every environment. *)
(***************************************************************************)
EXTENDS Lifecycle
CONSTANTS r1, r2
=============================================================================
