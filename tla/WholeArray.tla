------------------------------ MODULE WholeArray ------------------------------
(***************************************************************************)
(* What the operations on a distributed array promise to a program that    *)
(* takes it for one array: a partial function from indices to values.      *)
(***************************************************************************)
EXTENDS Integers, Sequences, FiniteSets

CONSTANTS
    NumSites,
    Junk            \* the value of an element nobody has ever written

VARIABLES
    whole,          \* the array
    request,        \* the last operation asked for
    verdict         \* what became of it

WholeInit == whole = << >> /\ verdict = "fine"

(* A new array has no elements without a value.                             *)
Create(old, new, r) ==
    /\ r.op = "create"
    /\ old = << >>
    /\ \A g \in DOMAIN new : new[g] # Junk

(* Elements keep their values under whatever tiles; one that no site held   *)
(* any longer has no value.                                                 *)
Kept(old, new) ==
    \A g \in DOMAIN new :
        new[g] = IF g \in DOMAIN old THEN old[g] ELSE Junk

(* Tiles the system chooses lose nothing, unless they are more than sites.  *)
Retile(old, new, r) ==
    /\ r.op = "retile"
    /\ Kept(old, new)
    /\ r.n <= NumSites => DOMAIN old \subseteq DOMAIN new

Dimension(named, d) ==
    LET order == CASE Len(named) = 1 -> <<named[1].name>>
                   [] Len(named) = 2 -> <<"rows", "columns">>
                   [] Len(named) = 3 -> <<"pages", "rows", "columns">>
    IN  CHOOSE i \in DOMAIN named : named[i].name = order[d]

(* Tiles the user lists are the ones the user gets, in whatever order their *)
(* spans are named.                                                         *)
Listed(named, g) ==
    \A d \in DOMAIN named :
        LET span == named[Dimension(named, d)]
        IN  span.start <= g[d] /\ g[d] < span.stop

RetileUser(old, new, r) ==
    /\ r.op = "user"
    /\ Kept(old, new)
    /\ \A g \in DOMAIN new : \E named \in r.tiles : Listed(named, g)
    /\ \A g \in DOMAIN old :
        (\E named \in r.tiles : Listed(named, g)) => g \in DOMAIN new

Transpose(old, new, r) ==
    /\ r.op = "transpose"
    /\ \A g \in DOMAIN old :
        LET h == [i \in DOMAIN g |-> g[r.axes[i]]]
        IN  h \in DOMAIN new /\ new[h] = old[g]
    /\ Cardinality(DOMAIN new) = Cardinality(DOMAIN old)

(* numpy.diag: the vector on the k-th diagonal, zero elsewhere.             *)
Diag(old, new, r) ==
    LET below == IF r.k < 0 THEN -r.k ELSE 0
        above == IF r.k > 0 THEN r.k ELSE 0
    IN  /\ r.op = "diag"
        /\ \A g \in DOMAIN new :
            new[g] = IF g[2] - g[1] # r.k THEN 0
                     ELSE IF <<g[1] - below>> \in DOMAIN old
                          THEN old[<<g[1] - below>>]
                     ELSE Junk
        /\ r.n <= NumSites =>
            \A g \in DOMAIN old : <<g[1] + below, g[1] + above>> \in DOMAIN new

Does(old, new, r) ==
    \/ Create(old, new, r)
    \/ Retile(old, new, r)
    \/ RetileUser(old, new, r)
    \/ Transpose(old, new, r)
    \/ Diag(old, new, r)

(* An operation that is refused changes nothing.                            *)
WholeNext ==
    \/ verdict' = "fine" /\ Does(whole, whole', request')
    \/ verdict' # "fine" /\ UNCHANGED whole

WholeSpec == WholeInit /\ [][WholeNext]_<<whole, request, verdict>>
=============================================================================
