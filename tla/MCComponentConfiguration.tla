--------------------- MODULE MCComponentConfiguration ---------------------
(* Model checking of ComponentConfiguration. *)
EXTENDS ComponentConfiguration

=============================================================================
