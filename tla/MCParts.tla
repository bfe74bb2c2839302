------------------------------- MODULE MCParts -------------------------------
(* Small instances of the components that keep their state to themselves:   *)
(* a behaviour is one of the part it begins in.                              *)
EXTENDS EvalContext, DirectExecution, TiledAnswers, FunctionCalls, Lists

VARIABLE part

Bits == {0, 1}

Named(name, start, stop) == [name |-> name, start |-> start, stop |-> stop]

MCShapes == {<<4>>, <<3, 3>>, <<2, 2, 2>>}
MCElements == <<0, 4, 1, 5, 2, 6, 3, 0, 4>>
MCUserTiles ==
    {<<Named("columns", 0, 2)>>, <<Named("columns", 1, 4)>>,
     <<Named("rows", 0, 2), Named("columns", 0, 3)>>,
     <<Named("columns", 1, 3), Named("rows", 1, 3)>>,
     <<Named("columns", 0, 2), Named("rows", 1, 2), Named("pages", 0, 2)>>,
     <<Named("rows", 0, 2), Named("columns", 1, 2), Named("pages", 0, 1)>>}
MCOverlaps ==
    {<<0>>, <<1>>, <<0, 0>>, <<1, 1>>, <<0, 2>>, <<0, 2, 1>>}
MCDiagonals == {-1, 2}

(* define(f, x, __arg(y, 0), block(                                         *)
(*     define(g, a, block(define(h, b, ...), ... h)),                       *)
(*     ... fmap(lambda(p, lambda(q, ...)), ...), apply(g, ...), g))         *)
(* define(k, c, ...), define(apply, fn, __arg(z, 0), ... fn(...) ...)       *)
(* define(alias, k), apply(k, ...), ...                                     *)
MCFunctions == {"f", "g", "h", "k", "apply", "lambda", "inner"}
MCParent ==
    [f |-> "program", g |-> "f", h |-> "g", lambda |-> "f",
     inner |-> "lambda", k |-> "program", apply |-> "program"]
MCOwn ==
    [f |-> 2, g |-> 1, h |-> 1, lambda |-> 1, inner |-> 1, k |-> 1, apply |-> 2]
MCOptional ==
    [f |-> 1, g |-> 0, h |-> 0, lambda |-> 0, inner |-> 0, k |-> 0, apply |-> 1]
MCReturned ==
    {<<"f", "g">>, <<"g", "h">>, <<"f", "lambda">>, <<"lambda", "inner">>}
MCPassed == {<<"program", "k">>, <<"f", "g">>}
MCAssigned == {<<"program", "k">>}
MCMapped == {<<"f", "lambda">>}

MCLiterals == {<< >>, <<7>>, <<7, 8, 9>>}
MCRanges ==
    {<<0, 3, 1>>, <<-1, 4, 2>>, <<1, 6, 3>>, <<2, 2, 1>>, <<2, -1, -1>>,
     <<3, -1, -2>>, <<4, -1, -2>>, <<0, -2, 1>>}
MCSlicings ==
    {<< >>, <<None>>, <<1>>, <<-1>>,
     <<1, 3>>, <<-2, None>>, <<None, -1>>, <<2, 1>>, <<1, 2, None>>,
     <<None, None, 2>>, <<1, None, 2>>, <<3, None, 2>>, <<0, 2, 0>>,
     <<None, None, -1>>, <<None, None, -2>>, <<-1, 0, -1>>, <<2, None, -1>>}
MCRangeSlicings == {<<0, 2, 1>>, <<0, 4, 3>>, <<2, -1, -1>>}

PartsInit ==
    /\ part \in {"contexts", "direct execution", "tiled arrays", "calls", "lists"}
    /\ Init
    /\ DirectInit
    /\ TiledInit
    /\ CallsInit
    /\ ListsInit

ContextStep ==
    /\ part = "contexts"
    /\ Next
    /\ UNCHANGED <<part, directVars, tiledVars, callVars, listVars>>

DirectStep ==
    /\ part = "direct execution"
    /\ DirectNext
    /\ UNCHANGED <<part, vars, tiledVars, callVars, listVars>>

TiledStep ==
    /\ part = "tiled arrays"
    /\ TiledNext
    /\ UNCHANGED <<part, vars, directVars, callVars, listVars>>

CallStep ==
    /\ part = "calls"
    /\ CallsNext
    /\ UNCHANGED <<part, vars, directVars, tiledVars, listVars>>

ListStep ==
    /\ part = "lists"
    /\ ListsNext
    /\ UNCHANGED <<part, vars, directVars, tiledVars, callVars>>

PartsNext == ContextStep \/ DirectStep \/ TiledStep \/ CallStep \/ ListStep

PartsSpec ==
    /\ PartsInit
    /\ [][PartsNext]_<<part, vars, directVars, tiledVars, callVars, listVars>>
=============================================================================
