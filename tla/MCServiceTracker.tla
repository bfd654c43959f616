---- MODULE MCServiceTracker ----
(* Instances of ServiceTracker for TLC: two threads that each make any of the calls. *)
EXTENDS ServiceTracker, TLC
CONSTANTS t1, t2
Symmetric == Permutations(Threads)
====
