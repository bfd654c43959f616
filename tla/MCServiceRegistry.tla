---- MODULE MCServiceRegistry ----
(* Instances of ServiceRegistry for TLC. *)
EXTENDS ServiceRegistry, TLC
CONSTANTS t1, t2
ThreadSymmetry == Permutations({t1, t2})
====
