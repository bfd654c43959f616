------------------------------ MODULE LDAPExpr ------------------------------
(***************************************************************************)
(* Service filters (LDAPExpr.cpp): what a filter means (Evaluate), and the *)
(* two shortcuts the framework takes to avoid evaluating it: the index of  *)
(* service listeners (IsSimple) and the narrowing of a lookup to the       *)
(* services of some classes (GetMatchedObjectClasses, used by              *)
(* ServiceRegistry::Get_unlocked).                                         *)
(*                                                                         *)
(* A filter is a tree. A node has an operator, and either an attribute and *)
(* a value or arguments. Parsing is left out, and so are the letter case   *)
(* of attribute names, APPROX, and patterns other than "*" alone.          *)
(***************************************************************************)
EXTENDS Integers, Sequences, SequencesExt

CONSTANTS Exprs,      \* filters, with every argument of a filter in the set
          NoFilter,   \* the filter of a listener that has none
          WILDCARD    \* the value "*", which every value matches

OBJECTCLASS == "objectclass"
SERVICE_ID  == "service.id"

Simple(op, attr, val) == [op |-> op, attr |-> attr, val |-> val, args |-> <<>>]
Complex(op, args)     == [op |-> op, attr |-> "", val |-> WILDCARD, args |-> args]

ASSUME ExprAssumption ==
    /\ NoFilter \notin Exprs
    /\ \A e \in Exprs : /\ e.op \in {"EQ", "LE", "GE", "AND", "OR", "NOT"}
                        /\ Range(e.args) \subseteq Exprs
                        /\ (e.op \in {"AND", "OR"} => e.args # <<>>) /\ (e.op = "NOT" => Len(e.args) = 1)

-----------------------------------------------------------------------------
(* What a filter means for a service: its properties are given as the set of values of every
   attribute, which has several elements for a list and none when the attribute is absent. *)

Compare(values, op, val) ==
    \/ op = "EQ" /\ val = WILDCARD /\ values # {}
    \/ op = "EQ" /\ val \in values
    \/ op = "LE" /\ \E v \in values : v <= val
    \/ op = "GE" /\ \E v \in values : v >= val

Evaluate(filter, props) ==
    LET Holds[e \in Exprs] ==
            CASE e.op = "AND" -> \A n \in DOMAIN e.args : Holds[e.args[n]]
              [] e.op = "OR"  -> \E n \in DOMAIN e.args : Holds[e.args[n]]
              [] e.op = "NOT" -> ~ Holds[e.args[1]]
              [] OTHER        -> Compare(props[e.attr], e.op, e.val)
    IN  filter = NoFilter \/ Holds[filter]

-----------------------------------------------------------------------------
(* The classes a service must have one of to match a filter, where the filter says so. *)

\* Mutant of Both: an operand that says nothing of classes forgets those of the others.
BothForgets(sofar, r) ==
    [ok |-> sofar.ok \/ r.ok, set |-> IF sofar.ok /\ r.ok THEN sofar.set \cap r.set ELSE r.set]

\* The intersection of AND. An empty set stands for "no class seen yet".
Both(sofar, r) ==
    IF ~ r.ok THEN sofar
    ELSE [ok |-> TRUE, set |-> IF sofar.set = {} THEN r.set ELSE sofar.set \cap r.set]

NoClass == [ok |-> FALSE, set |-> {}]

GetMatchedObjectClasses(filter) ==
    LET classesOf[e \in Exprs] ==
            LET R(n) == classesOf[e.args[n]]
            IN  CASE e.op = "EQ" ->
                        IF e.attr = OBJECTCLASS /\ e.val # WILDCARD THEN [ok |-> TRUE, set |-> {e.val}] ELSE NoClass
                  [] e.op = "AND" -> FoldLeft(Both, NoClass, [n \in DOMAIN e.args |-> R(n)])
                  [] e.op = "OR"  ->
                        IF \A n \in DOMAIN e.args : R(n).ok
                        THEN [ok |-> TRUE, set |-> UNION {R(n).set : n \in DOMAIN e.args}] ELSE NoClass
                  [] OTHER -> NoClass
    IN  classesOf[filter]

\* The lookup of the registry without a class: the services of the classes, or all, that match.
\* props: the properties of every registered service.
Get_unlocked(filter, props) ==
    LET matched    == GetMatchedObjectClasses(filter)
        candidates == IF filter # NoFilter /\ matched.ok
                      THEN {s \in DOMAIN props : props[s][OBJECTCLASS] \cap matched.set # {}}
                      ELSE DOMAIN props
    IN  {s \in candidates : Evaluate(filter, props[s])}

-----------------------------------------------------------------------------
(* The values under which a listener with a simple filter is put into the index. *)

\* cache[ix] = StringList(1, value): a value replaces what an earlier operand left for the key.
Overwrite(c, d) == [k \in DOMAIN c |-> IF d[k] # {} THEN d[k] ELSE c[k]]

IsSimple(filter, keywords) ==
    LET Nothing == [k \in keywords |-> {}]
        Is[e \in Exprs] ==
            \/ e.op = "EQ" /\ e.attr \in keywords /\ e.val # WILDCARD
            \/ e.op = "OR" /\ \A n \in DOMAIN e.args : Is[e.args[n]]
        Cache[e \in Exprs] ==
            IF e.op = "EQ" THEN [Nothing EXCEPT ![e.attr] = {e.val}]
            ELSE FoldLeft(Overwrite, Nothing, [n \in DOMAIN e.args |-> Cache[e.args[n]]])
    IN  [ok |-> Is[filter], cache |-> IF Is[filter] THEN Cache[filter] ELSE Nothing]
=============================================================================
