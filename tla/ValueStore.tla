----------------------------- MODULE ValueStore -----------------------------
(***************************************************************************)
(* What the variables of a program promise, with values instead of         *)
(* storage: every variable has a value of its own, an assignment replaces  *)
(* the value of one variable, and a sliced assignment, once its index is   *)
(* known, replaces elements of the value the variable has at that moment   *)
(* by elements of the value assigned, or fails and changes nothing.        *)
(***************************************************************************)
EXTENDS Naturals, Sequences

CONSTANTS Vars, Tasks, Elems, MaxLen

Arrays == UNION {[1..n -> Elems] : n \in 1..MaxLen}

Unset == <<>>

VARIABLES
    value,      \* [Vars -> Arrays \cup {Unset}]
    updating    \* [Tasks -> sequence of sliced assignments in progress]

vars == <<value, updating>>

Init ==
    /\ value = [x \in Vars |-> Unset]
    /\ updating = [t \in Tasks |-> <<>>]

Assign(x) ==
    /\ \E a \in Arrays : value' = [value EXCEPT ![x] = a]
    /\ UNCHANGED updating

Begin(t, x) ==
    /\ value[x] # Unset
    /\ \E es \in SUBSET Elems :
        updating' = [updating EXCEPT ![t] =
            Append(@, [var |-> x, elements |-> es])]
    /\ UNCHANGED value

Commit(t) ==
    /\ updating[t] # <<>>
    /\ LET u == updating[t][Len(updating[t])]
           old == value[u.var]
       IN  \E new \in [DOMAIN old -> Elems] :
            /\ \A k \in DOMAIN old : new[k] = old[k] \/ new[k] \in u.elements
            /\ value' = [value EXCEPT ![u.var] = new]
    /\ updating' = [updating EXCEPT ![t] = SubSeq(@, 1, Len(@) - 1)]

Abort(t) ==
    /\ updating' = [updating EXCEPT ![t] = <<>>]
    /\ UNCHANGED value

Next ==
    \/ \E x \in Vars : Assign(x)
    \/ \E t \in Tasks :
        \/ Commit(t)
        \/ Abort(t)
        \/ \E x \in Vars : Begin(t, x)

Spec == Init /\ [][Next]_vars
=============================================================================
