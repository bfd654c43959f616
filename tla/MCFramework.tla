---- MODULE MCFramework ----
(* Instances of Framework for TLC: three clients, one or two of which wait. *)
EXTENDS Framework
CONSTANTS c1, c2, c3
====
