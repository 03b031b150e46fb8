-------------------------- MODULE MCActionPipeline --------------------------
(* ActionPipeline on an action, an upload, a takeover and a close. *)
EXTENDS ActionPipeline
=============================================================================
