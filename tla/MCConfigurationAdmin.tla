----------------------- MODULE MCConfigurationAdmin -----------------------
(* Model checking of ConfigurationAdmin. *)
EXTENDS ConfigurationAdmin, TLC

\* Threads and workers are interchangeable, and no property checked with this symmetry is a liveness property.
Symmetry == Permutations(Threads) \cup Permutations(Workers)

=============================================================================
