------------------------- MODULE CustomizerContract -------------------------
(***************************************************************************)
(* What a ServiceTracker promises to the customizer that makes its objects *)
(* (ServiceTrackerCustomizer.h): an object AddingService returned is       *)
(* tracked, or withdrawn at once; a withdrawn object is reported to        *)
(* RemovedService, once; a service has at most one tracked object.         *)
(* ServiceTracker implements this specification.                           *)
(***************************************************************************)
CONSTANTS Objects,
          Keys,    \* a key is one service in one life of the tracker
          NoKey

VARIABLES life, key

Init == /\ life = [o \in Objects |-> "unborn"]
        /\ key  = [o \in Objects |-> NoKey]

\* AddingService returns a new object for the service.
Adding(o, k) == /\ life[o] = "unborn"
                /\ life' = [life EXCEPT ![o] = "offered"]
                /\ key' = [key EXCEPT ![o] = k]

Accept(o) == /\ life[o] = "offered"
             /\ \A p \in Objects : life[p] = "tracked" => key[p] # key[o]
             /\ life' = [life EXCEPT ![o] = "tracked"]
             /\ UNCHANGED key

Withdraw(o) == /\ life[o] \in {"offered", "tracked"}
               /\ life' = [life EXCEPT ![o] = "withdrawn"]
               /\ UNCHANGED key

\* RemovedService is called with the object.
Removed(o) == /\ life[o] = "withdrawn"
              /\ life' = [life EXCEPT ![o] = "removed"]
              /\ UNCHANGED key

Next == \E o \in Objects :
            (\E k \in Keys : Adding(o, k)) \/ Accept(o) \/ Withdraw(o) \/ Removed(o)

Spec == Init /\ [][Next]_<<life, key>>
=============================================================================
