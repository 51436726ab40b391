------------------------------ MODULE MCWorkflow ------------------------------
(* Two cameras: gate is behind a plug and turns, yard has zone masks. *)
EXTENDS Workflow
CONSTANTS gate, yard
=============================================================================
