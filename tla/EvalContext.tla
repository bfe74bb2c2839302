----------------------------- MODULE EvalContext -----------------------------
(***************************************************************************)
(* Frames of variables and the contexts functions are evaluated in         *)
(* (execution_tree/primitives/primitive_argument_type.hpp, lambda.cpp,     *)
(* target_reference.cpp, define_variable.cpp, variable_factory.cpp).       *)
(*                                                                         *)
(* A name is compiled against the nested environments of the program text  *)
(* and looked up, when it is evaluated, in a chain of frames: a function   *)
(* runs in a new frame in front of those of its caller, or of those it     *)
(* has captured.  A primitive on another locality is sent its context.     *)
(*                                                                         *)
(* Frames are numbered as they are made, so that the nearest frame of a    *)
(* chain is the one with the largest number.  They are never freed here.   *)
(***************************************************************************)
EXTENDS Integers, Sequences

CONSTANTS
    Globals,    \* names defined globally, or at the top level
    Locals,     \* names defined in functions
    Values,     \* values of variables
    Nil,        \* the value of a new variable
    MaxFrames,  \* bound on the frames
    MaxVars,    \* bound on the instances of variables
    MaxDepth    \* bound on the stack

Names == Globals \cup Locals

ASSUME EvalContextAssumption ==
    /\ MaxFrames \in Nat \ {0}
    /\ MaxVars \in Nat
    /\ MaxDepth \in Nat
    /\ Names # {}
    /\ Nil \in Values

VARIABLES
    frames,     \* the frames of all contexts; 1 is the outermost one
    value,      \* the value of every instance of a variable
    stack,      \* what is being evaluated, innermost last
    declared    \* history: names a global definition of which has ended

vars == <<frames, value, stack, declared>>

(* A variable_frame.  chain: itself and what it reaches over nextframe_;    *)
(* outermost: the last of these; variables: the instances, 0 if none.       *)
(* scope is the chain of the environments the code was compiled in, as      *)
(* frames of the enclosing functions.  loose (history): the code runs on    *)
(* another locality, or in a function that lost the context it was defined  *)
(* in.                                                                      *)
Frame ==
    [chain : SUBSET (1..MaxFrames), outermost : 1..MaxFrames,
     scope : SUBSET (1..MaxFrames),
     variables : [Names -> 0..MaxVars], loose : BOOLEAN]

(* A function, or a definition (var # 0) whose expression is evaluated.     *)
Entry ==
    [frame : 1..MaxFrames, name : Names, var : 0..MaxVars, global : BOOLEAN]

Top == stack[Len(stack)]
Ctx == Top.frame

Push(e) ==
    /\ Len(stack) < MaxDepth
    /\ stack' = Append(stack, e)

Pop == stack' = SubSeq(stack, 1, Len(stack) - 1)

AnyName == CHOOSE x \in Names : TRUE

Enter(f) == Push([frame |-> f, name |-> AnyName, var |-> 0, global |-> FALSE])

-----------------------------------------------------------------------------
(* Mutant: the search begins at the outermost frame.                        *)
Farthest(c, x) ==
    LET holders == {g \in c : frames[g].variables[x] # 0}
    IN  {g \in holders : \A h \in holders : g <= h}

(* The frame of a chain a search for a name ends at, if any.                *)
Nearest(c, x) ==
    LET holders == {g \in c : frames[g].variables[x] # 0}
    IN  {g \in holders : \A h \in holders : h <= g}

(* variable_frame::get_var: the instance, if there is one.                  *)
GetVar(f, x) ==
    {frames[g].variables[x] : g \in Nearest(frames[f].chain, x)}

(* environment::find: the compiler has accepted name x in the code of f.    *)
Find(f, x) == Nearest(frames[f].scope, x)

Bind(f, x, var) ==
    LET variables == [frames[f].variables EXCEPT ![x] = var]
    IN  frames' = [frames EXCEPT ![f].variables = variables]

(* Mutant: a global variable is defined in the frame at hand.               *)
SetHere(f, x, var, global) == Bind(f, x, var)

(* variable_frame::set_var                                                  *)
SetVar(f, x, var, global) ==
    Bind(IF global THEN frames[f].outermost ELSE f, x, var)

-----------------------------------------------------------------------------
(* define_variable::eval creates the variable, evaluates the expression     *)
(* bound to it, which may be anything, and enters it into the frame.  The   *)
(* factory is on this locality (target_ is set).                            *)

Defining(x, var, global) ==
    Push([frame |-> Ctx, name |-> x, var |-> var, global |-> global])

Create(x, global) ==
    /\ Len(value) < MaxVars
    /\ value' = Append(value, Nil)
    /\ Defining(x, Len(value) + 1, global)

TopLevel(f) == frames[f].scope = {f}

DefineBegin(x) ==
    /\ x \in IF TopLevel(Ctx) THEN Globals ELSE Locals
    /\ Create(x, FALSE)
    /\ UNCHANGED <<frames, declared>>

(* "access variable from execution context if it already exists"            *)
DefineGlobalFound(x) ==
    /\ x \in Globals
    /\ \E var \in GetVar(Ctx, x) : Defining(x, var, TRUE)
    /\ UNCHANGED <<frames, value, declared>>

DefineGlobalNew(x) ==
    /\ x \in Globals
    /\ GetVar(Ctx, x) = {}
    /\ Create(x, TRUE)
    /\ UNCHANGED <<frames, declared>>

DefineEnd(v) ==
    /\ Top.var # 0
    /\ value' = [value EXCEPT ![Top.var] = v]
    /\ SetVar(Ctx, Top.name, Top.var, Top.global)
    /\ declared' = IF Top.global THEN declared \cup {Top.name} ELSE declared
    /\ Pop

(* access_variable::store                                                   *)
Store(x, v) ==
    /\ Find(Ctx, x) # {}
    /\ \E var \in GetVar(Ctx, x) : value' = [value EXCEPT ![var] = v]
    /\ UNCHANGED <<frames, stack, declared>>

(* "the variable is unbound in the current execution environment"           *)
Unbound(x) ==
    /\ Find(Ctx, x) # {}
    /\ GetVar(Ctx, x) = {}
    /\ stack' = SubSeq(stack, 1, 1)
    /\ UNCHANGED <<frames, value, declared>>

-----------------------------------------------------------------------------
(* A new frame in front of those of f, for code in the scope of h.          *)
AddFrame(f, h, loose) ==
    LET n == Len(frames) + 1
    IN  /\ n <= MaxFrames
        /\ frames' = Append(frames,
                [chain |-> frames[f].chain \cup {n},
                 outermost |-> frames[f].outermost,
                 scope |-> frames[h].scope \cup {n},
                 variables |-> [x \in Names |-> 0],
                 loose |-> loose])
        /\ Enter(n)
        /\ UNCHANGED <<value, declared>>

(* lambda::eval: a function made in frame h that has captured nothing.  A   *)
(* function at the top level needs nothing but the outermost frame.         *)
CallFunction(h) ==
    AddFrame(Ctx, h, ~(h = 1 /\ frames[Ctx].outermost = 1))

(* Mutant: the stored context is not used.                                  *)
CallInCaller(h) ==
    AddFrame(Ctx, h, frames[h].loose)

(* target_reference::eval: the function has captured the context it was     *)
(* made in (frame h).  The frames it adds before that of the lambda stay    *)
(* empty.                                                                   *)
CallReference(h) ==
    AddFrame(h, h, frames[h].loose)

(* The context of an action on another locality: variable_frame::serialize  *)
(* takes the variables along, but not nextframe_.                           *)
EvalRemote ==
    LET n == Len(frames) + 1
    IN  /\ n <= MaxFrames
        /\ frames' = Append(frames,
                [chain |-> {n}, outermost |-> n,
                 scope |-> (frames[Ctx].scope \ {Ctx}) \cup {n},
                 variables |-> frames[Ctx].variables,
                 loose |-> TRUE])
        /\ Enter(n)
        /\ UNCHANGED <<value, declared>>

(* Mutant: the outermost evaluation is left as well.                        *)
ReturnAlways ==
    /\ Top.var = 0
    /\ Pop
    /\ UNCHANGED <<frames, value, declared>>

Return ==
    /\ Top.var = 0
    /\ Len(stack) > 1
    /\ Pop
    /\ UNCHANGED <<frames, value, declared>>

-----------------------------------------------------------------------------
Init ==
    /\ frames = << [chain |-> {1}, outermost |-> 1, scope |-> {1},
                    variables |-> [x \in Names |-> 0], loose |-> FALSE] >>
    /\ value = <<>>
    /\ stack = << [frame |-> 1, name |-> AnyName, var |-> 0,
                   global |-> FALSE] >>
    /\ declared = {}

Next ==
    \/ \E x \in Names :
        \/ DefineBegin(x) \/ DefineGlobalFound(x) \/ DefineGlobalNew(x)
        \/ Unbound(x)
    \/ \E v \in Values :
        \/ DefineEnd(v)
        \/ \E x \in Names : Store(x, v)
    \/ \E h \in DOMAIN frames : CallFunction(h) \/ CallReference(h)
    \/ EvalRemote
    \/ Return

Spec == Init /\ [][Next]_vars

-----------------------------------------------------------------------------
(* Every component of the state is of its type.                             *)
TypeOK ==
    /\ frames \in Seq(Frame) /\ Len(frames) \in 1..MaxFrames
    /\ value \in Seq(Values) /\ Len(value) \in 0..MaxVars
    /\ stack \in Seq(Entry) /\ Len(stack) > 0
    /\ declared \subseteq Globals

(* What "access-variable ... refers to": the search through the frames      *)
(* ends at the definition the compiler found, in every function that has    *)
(* its context, if no name is both local and global.                        *)
LookupIsLexical ==
    \A f \in DOMAIN frames, x \in Names :
        ~frames[f].loose /\ Find(f, x) # {}
            => Nearest(frames[f].chain, x) = Find(f, x)

(* A global variable is the same in all functions that have their context,  *)
(* whoever defined it and wherever the function came from.                  *)
GlobalsVisible ==
    \A f \in DOMAIN frames, x \in Globals :
        ~frames[f].loose => GetVar(f, x) = GetVar(1, x)

(* A local variable changes by code of its function, or of one nested in    *)
(* it, only: neither callees nor another call of the same function reach    *)
(* it ("test_local_variable_repeated_call").                                *)
LocalsPrivate ==
    [][\A f \in DOMAIN frames, x \in Locals :
        LET var == frames[f].variables[x]
        IN  /\ ~frames[f].loose /\ ~frames[Ctx].loose
            /\ var # 0 /\ value'[var] # value[var]
            => f \in frames[Ctx].scope]_vars

(* "global variables are defined in the outermost frame"                    *)
GlobalsInOutermost ==
    \A x \in declared : frames[1].variables[x] # 0
=============================================================================
