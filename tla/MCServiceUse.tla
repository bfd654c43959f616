---- MODULE MCServiceUse ----
(* Instances of ServiceUse for TLC: two threads, one of which may call back into the
   framework from the factory or from a listener. *)
EXTENDS ServiceUse
CONSTANTS b1, t1, t2
TwoThreadsOneNested == {<<t1, 1>>, <<t1, 2>>, <<t2, 1>>}
====
