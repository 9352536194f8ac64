------------------------------ MODULE MCAiRun ------------------------------
(* Two runs that want the same terminal. *)
EXTENDS AiRun
=============================================================================
