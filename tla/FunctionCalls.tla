---------------------------- MODULE FunctionCalls ----------------------------
(***************************************************************************)
(* How arguments reach the parameters of nested functions                  *)
(* (execution_tree/compiler/compiler.cpp; lambda.cpp, function.cpp,        *)
(* variable_factory.cpp, call_function.cpp, target_reference.cpp,          *)
(* access_function.cpp and access_argument.cpp in primitives).             *)
(*                                                                         *)
(* The compiler numbers the parameters of a function after those of the    *)
(* functions around it.  A function that is made while another one runs    *)
(* keeps the arguments of that one and puts them in front of its own when  *)
(* it is called.  Whether making, naming or calling a function keeps       *)
(* arguments, or calls it, depends on the mode it is evaluated in.         *)
(*                                                                         *)
(* The text of the program is a constant; which of the calls it contains   *)
(* are executed, and in which order, is left open.  Names of functions are *)
(* different from each other, and a function with functions in it has a    *)
(* parameter, so that these are found (EvalContext is about finding them). *)
(***************************************************************************)
EXTENDS Integers, Sequences

CONSTANTS
    Functions,  \* the functions of the program,
    Lambdas,    \* of these, the lambda expressions
    Program,    \* the code around all functions
    Parent,     \* the function, or Program, each function is written in
    Own,        \* number of its parameters
    Optional,   \* number of them that have a default value, the last ones
    Applied,    \* functions that call their first argument
    Returned,   \* <<c, g>>: code c returns function g,
    Passed,     \* passes it to a function in Applied,
    Assigned,   \* defines a variable by its name, or
    Mapped,     \* passes it to a primitive that calls it
    MaxCalls   \* bound on the calls

ASSUME FunctionCallsAssumption ==
    /\ Lambdas \subseteq Functions /\ Applied \subseteq Functions
    /\ Program \notin Functions
    /\ Parent \in [Functions -> Functions \cup {Program}]
    /\ Own \in [Functions -> Nat] /\ Optional \in [Functions -> Nat]
    /\ \A g \in Functions : Optional[g] <= Own[g]
    /\ \A g \in Applied : Own[g] > Optional[g]
    /\ \A g \in Functions :
        Parent[g] # Program => Own[Parent[g]] > Optional[Parent[g]]
    \* Functions are written inside each other: there is an outermost one.
    /\ \A fs \in SUBSET Functions : fs # {} => \E g \in fs : Parent[g] \notin fs
    /\ \A mentions \in {Returned, Passed, Assigned, Mapped} :
        mentions \subseteq (Functions \cup {Program}) \X Functions
    \* A lambda expression has no name: it is passed where it is written.
    /\ \A m \in Passed : m[2] \in Lambdas => Parent[m[2]] = m[1]
    /\ Mapped \subseteq (Functions \cup {Program}) \X Lambdas
    /\ (Functions \cup {Program}) \X Lambdas \cap Assigned = {}
    /\ MaxCalls \in Nat \ {0}

VARIABLES
    calls,     \* all calls so far; the first is that of the program
    running     \* those that have not returned, innermost last

callVars == <<calls, running>>

(* The flags of eval_mode that matter; none is eval_default.                *)
DontWrap == "dont_wrap_functions"
DontEvaluateLambdas == "dont_evaluate_lambdas"

(* Values: the i-th argument of call n, the default of a parameter, and a   *)
(* function.  bound: the arguments it keeps; direct: it refers to the body, *)
(* not to the function; home: the call it was made in.                      *)
Datum(n, i) == [kind |-> "datum", call |-> n, at |-> i]
Default(g, i) == [kind |-> "default", of |-> g, at |-> i]
Function(g, bound, direct, home) ==
    [kind |-> "function", code |-> g, bound |-> bound, direct |-> direct,
     home |-> home]

(* f with the value v for x.                                                *)
Including(f, x, v) == [y \in DOMAIN f \cup {x} |-> IF y = x THEN v ELSE f[y]]

Cur == running[Len(running)]
Code == calls[Cur].code
Params == calls[Cur].params
Mode == calls[Cur].mode

-----------------------------------------------------------------------------
(* environment::base_arg_num, and compile_body: "i + base_arg_num"          *)
BaseArgNum[c \in Functions \cup {Program}] ==
    IF c = Program \/ Parent[c] = Program
    THEN 0
    ELSE BaseArgNum[Parent[c]] + Own[Parent[c]]

(* Mutant: parameters are numbered in every function from the start.        *)
ArgNumOfOwn(g, i) == i

ArgNum(g, i) == BaseArgNum[g] + i

(* access_argument::eval: {} stands for "argument count out of bounds"      *)
Read(params, g, i) ==
    IF ArgNum(g, i) <= Len(params) THEN {params[ArgNum(g, i)]}
    ELSE IF i > Own[g] - Optional[g] THEN {Default(g, i)}
    ELSE {}

-----------------------------------------------------------------------------
(* Functions by name: the call of the enclosing function that defined it.   *)
Home(g) == calls[Cur].scope[Parent[g]]

InScope(g) ==
    /\ Parent[g] \in DOMAIN calls[Cur].scope
    /\ g \in DOMAIN calls[Home(g)].functions

Known(g) == calls[Home(g)].functions[g]

(* A function that runs: add_frame.  meant and called (history): what the   *)
(* text says its parameters are, and whether something called it.           *)
Invoke(g, home, params, mode, args, called) ==
    /\ Len(calls) < MaxCalls
    /\ calls' = Append(calls,
            [code |-> g,
             scope |-> Including(calls[home].scope, g, Len(calls) + 1),
             params |-> params, mode |-> mode,
             meant |-> [i \in 1..Own[g] |->
                            IF i <= Len(args) THEN args[i] ELSE Default(g, i)],
             called |-> called,
             functions |-> <<>>, held |-> {}])
    /\ running' = Append(running, Len(calls) + 1)

(* Mutant: the body is evaluated in the mode of functions without bound     *)
(* arguments.                                                               *)
EvaluateBodyOnly(g, home, params, args, called) ==
    Invoke(g, home, params, {DontWrap}, args, called)

(* lambda::eval when it does not return a function                          *)
EvaluateBody(g, home, params, args, called) ==
    Invoke(g, home, params, {DontWrap, DontEvaluateLambdas}, args, called)

(* target_reference::eval and function::eval, in eval_default               *)
EvaluateFunction(f, args, called) ==
    IF f.direct
    THEN Invoke(f.code, f.home, f.bound \o args,
                  IF f.bound = <<>> THEN {DontWrap} ELSE {}, args, called)
    ELSE EvaluateBody(f.code, f.home, f.bound \o args, args, called)

(* lambda::eval when it returns a target_reference                          *)
Lambda(g) == Function(g, Params, TRUE, Cur)

(* Mutant: a function that is mentioned keeps the arguments at hand.        *)
AccessFunctionBound(g, mode) == [Known(g) EXCEPT !.bound = @ \o Params]

(* access_function::eval                                                    *)
AccessFunction(g, mode) ==
    IF DontWrap \in mode \/ Params = <<>>
    THEN Known(g)
    ELSE [Known(g) EXCEPT !.bound = @ \o Params]

(* variable_factory::eval, when it creates a function                       *)
VariableFactory(g, mode) ==
    Function(g, IF DontWrap \in mode THEN <<>> ELSE Params, FALSE, Cur)

-----------------------------------------------------------------------------
(* define_variable::eval "ctx.remove_mode(eval_dont_wrap_functions)"        *)
DefineMode == Mode \ {DontWrap}

Define(g) ==
    /\ g \notin Lambdas
    /\ Parent[g] = Code
    /\ g \notin DOMAIN calls[Cur].functions
    /\ calls' = [calls EXCEPT ![Cur].functions =
                    Including(@, g, VariableFactory(g, DefineMode))]
    /\ UNCHANGED running

(* A variable whose value is a function known by its name: variable::bind   *)
Assign(g) ==
    /\ <<Code, g>> \in Assigned
    /\ InScope(g)
    /\ calls' = [calls EXCEPT ![Cur].held =
                    @ \cup {AccessFunction(g, DefineMode)}]
    /\ UNCHANGED running

(* call_function::eval; arguments with a default may be left out.           *)
Arguments(g) ==
    {[i \in 1..n |-> Datum(Len(calls) + 1, i)] :
        n \in (Own[g] - Optional[g])..Own[g]}

CallNamed(g) ==
    /\ InScope(g)
    /\ g \notin Applied
    /\ \E args \in Arguments(g) : EvaluateFunction(Known(g), args, TRUE)

CallHeld(f) ==
    /\ f \in calls[Cur].held
    /\ f.code \notin Applied
    /\ \E args \in Arguments(f.code) : EvaluateFunction(f, args, TRUE)

(* A function passed as an argument is evaluated in the mode at hand,       *)
Pass(g, f) ==
    /\ g \in Applied
    /\ InScope(g)
    /\ <<Code, f>> \in Passed
    /\ IF f \in Lambdas
       THEN IF DontEvaluateLambdas \in Mode
            THEN \E args \in Arguments(g) :
                    EvaluateFunction(
                        Known(g), [args EXCEPT ![1] = Lambda(f)], TRUE)
            ELSE EvaluateBody(f, Cur, Params, <<>>, FALSE)
       ELSE /\ InScope(f)
            /\ \E args \in Arguments(g) :
                EvaluateFunction(Known(g),
                         [args EXCEPT ![1] = AccessFunction(f, Mode)], TRUE)

(* and access_argument::eval evaluates it once more before it is called:    *)
(* only a function that keeps no arguments is still one then.               *)
CallArgument(g) ==
    /\ g \in Applied \cap DOMAIN calls[Cur].scope
    /\ \E f \in Read(Params, g, 1) :
        /\ f.kind = "function"
        /\ IF f.direct \/ f.bound # <<>>
           THEN EvaluateFunction(f, <<>>, FALSE)
           ELSE \E args \in Arguments(f.code) :
                    EvaluateFunction([f EXCEPT !.direct = TRUE], args, TRUE)

(* fmap, fold_left, ...: "eval_dont_evaluate_lambdas"                       *)
Map(g) ==
    /\ <<Code, g>> \in Mapped
    /\ Parent[g] = Code
    /\ \E args \in Arguments(g) : EvaluateFunction(Lambda(g), args, TRUE)

-----------------------------------------------------------------------------
(* The value of a function goes to a variable of the caller.                *)
ReturnFrom(values) ==
    /\ Len(running) > 1
    /\ calls' = [calls EXCEPT ![running[Len(running) - 1]].held =
                    @ \cup values]
    /\ running' = SubSeq(running, 1, Len(running) - 1)

ReturnFunction(g) ==
    /\ <<Code, g>> \in Returned
    /\ IF g \in Lambdas
       THEN /\ Parent[g] = Code
            /\ IF DontEvaluateLambdas \in Mode
               THEN ReturnFrom({Lambda(g)})
               ELSE EvaluateBody(g, Cur, Params, <<>>, FALSE)
       ELSE InScope(g) /\ ReturnFrom({AccessFunction(g, Mode)})

-----------------------------------------------------------------------------
CallsInit ==
    /\ calls = << [code |-> Program, scope |-> [c \in {Program} |-> 1],
                    params |-> <<>>, mode |-> {}, meant |-> <<>>, called |-> TRUE,
                    functions |-> <<>>, held |-> {}] >>
    /\ running = <<1>>

CallsNext ==
    \/ \E g \in Functions :
        \/ Define(g) \/ Assign(g) \/ CallNamed(g) \/ CallArgument(g) \/ Map(g)
        \/ ReturnFunction(g)
        \/ \E f \in Functions : Pass(g, f)
    \/ \E f \in calls[Cur].held : CallHeld(f)
    \/ ReturnFrom({})

CallsSpec == CallsInit /\ [][CallsNext]_callVars

-----------------------------------------------------------------------------
(* Every call has, after the arguments it keeps, its own, and keeps none    *)
(* twice: there are never more of them than the compiler has numbered.      *)
CallsTypeOK ==
    /\ Len(calls) <= MaxCalls
    /\ \A n \in DOMAIN calls :
        /\ calls[n].code \in Functions \cup {Program}
        /\ calls[n].mode \subseteq {DontWrap, DontEvaluateLambdas}
        /\ calls[n].code # Program =>
            Len(calls[n].params) <= ArgNum(calls[n].code, Own[calls[n].code])
    /\ running[1] = 1
    /\ \A k \in 2..Len(running) : running[k - 1] < running[k]

(* The calls whose parameters call n can name: its own, and those of the    *)
(* functions around it.                                                     *)
Around(n) == {calls[n].scope[g] : g \in DOMAIN calls[n].scope \ {Program}}

(* Call n was made by a call of the function, with all its arguments.       *)
FullyCalled(n) ==
    /\ calls[n].called
    /\ \A i \in DOMAIN calls[n].meant : calls[n].meant[i].kind # "default"

(* Every parameter a call can name reads the argument that call was given,  *)
(* or its default: compile_body numbers the parameters, and the calls put   *)
(* the arguments there.  It holds where the functions around it have got    *)
(* all their arguments: those after one that was left out move up.          *)
ParametersReadArguments ==
    \A n \in DOMAIN calls :
        calls[n].called /\ (\A m \in Around(n) \ {n} : FullyCalled(m)) =>
            \A m \in Around(n) : \A i \in DOMAIN calls[m].meant :
                Read(calls[n].params, calls[m].code, i) = {calls[m].meant[i]}

(* "A function object with the arguments and body specified" (lambda.cpp):  *)
(* a function runs because it is called, not because it is mentioned.  The  *)
(* exceptions are functions that keep arguments: when they are passed to    *)
(* another one; and a lambda expression in a lambda expression.             *)
OnlyCallsEvaluate ==
    \A n \in DOMAIN calls :
        \/ calls[n].called
        \/ /\ Parent[calls[n].code] # Program
           /\ \/ \E c \in Functions : <<c, calls[n].code>> \in Passed
              \/ {calls[n].code, Parent[calls[n].code]} \subseteq Lambdas
=============================================================================
