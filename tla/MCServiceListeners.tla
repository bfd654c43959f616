---- MODULE MCServiceListeners ----
(* Instances of ServiceListeners for TLC: two listeners of two bundles, filters of every kind. *)
EXTENDS ServiceListeners
CONSTANTS l1, l2, c1, c2, A, B, t1, t2

TwoContexts == (l1 :> c1) @@ (l2 :> c2)

IsA == Simple("EQ", OBJECTCLASS, A)
IsB == Simple("EQ", OBJECTCLASS, B)
Id  == Simple("EQ", SERVICE_ID, 1)
HasClass == Simple("EQ", OBJECTCLASS, WILDCARD)
P1  == Simple("GE", Attr, 1)

Atoms == {IsA, IsB, Id, HasClass, P1}
Ands  == {Complex("AND", <<IsA, P1>>), Complex("AND", <<P1, IsA>>)}
Ors   == {Complex("OR", <<IsA, Id>>), Complex("OR", <<IsA, P1>>)}
Nots  == {Complex("NOT", <<IsA>>)}
TwoClasses == Complex("OR", <<IsA, IsB>>)
BothClasses == Complex("AND", <<IsA, IsB>>)
Nested == {Complex("AND", <<TwoClasses, P1>>), Complex("OR", <<Complex("AND", <<IsA, P1>>), IsB>>)}

SomeExprs == Atoms \cup Ands \cup Ors \cup Nots \cup {TwoClasses} \cup Nested
WithBoth  == SomeExprs \cup {BothClasses}

\* Filters of listeners: none of them accepts two values of a key.
SomeFilters == {NoFilter, Complex("OR", <<IsA, Id>>), Complex("AND", <<IsA, P1>>)}
WithTwo     == {NoFilter, TwoClasses}

Symmetric == Permutations(Threads)
====
