---------------------------- MODULE FunctionProofs ----------------------------
(***************************************************************************)
(* Proofs about functions: what they find when they run.                   *)
(*                                                                         *)
(* EvalContext: the invariant has three parts: the type, the shape of the  *)
(* frames (which no definition changes), and what the frames bind.  The    *)
(* shape says how the chain of a frame lies against the scope its code was *)
(* compiled in.                                                            *)
(*                                                                         *)
(* FunctionCalls: for which programs parameters read the arguments they    *)
(* were given, and functions run only because they are called, however     *)
(* deep functions are nested and however often they are made, returned,    *)
(* passed on and called.                                                   *)
(***************************************************************************)
EXTENDS EvalContext, FunctionCalls, SequenceTheorems, TLAPS

-----------------------------------------------------------------------------
(* Frames and contexts.                                                     *)

(* The frames something is being evaluated in exist.                        *)
Live == \A i \in 1..Len(stack) : stack[i].frame \in 1..Len(frames)

Base == TypeOK /\ Live

(* A chain runs back from its frame to the outermost one, which all frames  *)
(* on it share.                                                             *)
Chains ==
    \A f \in 1..Len(frames) :
        /\ f \in frames[f].chain /\ frames[f].chain \subseteq 1..f
        /\ f \in frames[f].scope /\ frames[f].scope \subseteq 1..f
        /\ frames[f].outermost \in frames[f].chain
        /\ \A g \in frames[f].chain :
            frames[g].outermost = frames[f].outermost

First ==
    /\ frames[1].chain = {1} /\ frames[1].scope = {1}
    /\ ~frames[1].loose

(* The only code at the top level that can reach the first frame is the one *)
(* that runs in it.                                                         *)
TopIsFirst ==
    \A f \in 1..Len(frames) :
        TopLevel(f) /\ frames[f].outermost = 1 => f = 1

(* The frames of a chain that the code does not know lie between the first  *)
(* and those it does.                                                       *)
Ordered ==
    \A f \in 1..Len(frames) :
        ~frames[f].loose =>
            /\ frames[f].outermost = 1
            /\ 1 \in frames[f].scope
            /\ frames[f].scope \subseteq frames[f].chain
            /\ \A d \in frames[f].chain \ frames[f].scope :
                \A e \in frames[f].scope \ {1} : d < e

Shape == Chains /\ First /\ TopIsFirst /\ Ordered

(* Code at the top level, and global definitions, name global variables.    *)
Allowed(e) ==
    e.var # 0 =>
        e.name \in IF e.global \/ TopLevel(e.frame) THEN Globals ELSE Locals

Named == \A i \in 1..Len(stack) : Allowed(stack[i])

(* The first entry is the program itself, which defines nothing.            *)
Bottom == stack[1].var = 0

IInv == Base /\ Shape /\ Named /\ Bottom

(* Of the frames an evaluation of the program uses, the outermost one holds *)
(* the global variables, and the others hold the local ones.                *)
Bindings ==
    \A f \in 1..Len(frames), x \in Names :
        frames[f].outermost = 1 /\ frames[f].variables[x] # 0 =>
            /\ x \in Globals => f = 1
            /\ x \in Locals => f # 1

-----------------------------------------------------------------------------
LEMMA Lengths ==
    ASSUME TypeOK
    PROVE  /\ Len(frames) \in Nat /\ 1 <= Len(frames)
           /\ DOMAIN frames = 1..Len(frames)
           /\ \A f \in 1..Len(frames) : frames[f] \in Frame
           /\ Len(stack) \in Nat /\ 1 <= Len(stack)
           /\ \A i \in 1..Len(stack) : stack[i] \in Entry
           /\ Len(value) \in Nat /\ Len(value) <= MaxVars
<1>1. /\ frames \in Seq(Frame) /\ stack \in Seq(Entry)
      /\ value \in Seq(Values)
    BY DEF TypeOK
<1>2. /\ DOMAIN frames = 1..Len(frames)
      /\ \A f \in 1..Len(frames) : frames[f] \in Frame
      /\ Len(stack) \in Nat /\ Len(value) \in Nat
      /\ \A i \in 1..Len(stack) : stack[i] \in Entry
    BY <1>1, LenProperties, ElementOfSeq
<1>3. QED
    BY <1>2, EvalContextAssumption DEF TypeOK

LEMMA TopType ==
    ASSUME Base
    PROVE  /\ Top \in Entry /\ Ctx \in 1..Len(frames)
           /\ Top.name \in Names /\ Top.var \in 0..MaxVars
           /\ Top.global \in BOOLEAN
<1>1. TypeOK /\ Len(stack) \in 1..Len(stack)
    BY Lengths DEF Base
<1>2. Top \in Entry
    BY <1>1, Lengths DEF Top
<1>3. Ctx \in 1..Len(frames)
    BY <1>1 DEF Base, Live, Ctx, Top
<1>4. QED
    BY <1>2, <1>3 DEF Entry

LEMMA NameExists == AnyName \in Names
BY EvalContextAssumption DEF AnyName

(* The effect of the operations on the stack.                               *)
LEMMA PushType ==
    ASSUME Base, NEW e \in Entry, Push(e)
    PROVE  /\ stack' \in Seq(Entry) /\ Len(stack') = Len(stack) + 1
           /\ \A i \in 1..Len(stack) : stack'[i] = stack[i]
           /\ stack'[Len(stack) + 1] = e
<1>1. stack \in Seq(Entry) /\ stack' = Append(stack, e)
    BY DEF Base, TypeOK, Push
<1>2. QED
    BY <1>1, AppendProperties

LEMMA PopType ==
    ASSUME Base, NEW n \in 1..Len(stack), stack' = SubSeq(stack, 1, n)
    PROVE  /\ stack' \in Seq(Entry) /\ Len(stack') = n
           /\ \A i \in 1..Len(stack') :
                i \in 1..Len(stack) /\ stack'[i] = stack[i]
<1>1. Len(stack) \in Nat /\ \A i \in 1..n : stack[i] \in Entry
    BY Lengths DEF Base
<1>2. /\ SubSeq(stack, 1, n) \in Seq(Entry)
      /\ Len(SubSeq(stack, 1, n)) = IF 1 <= n THEN n - 1 + 1 ELSE 0
      /\ \A i \in 1..n - 1 + 1 : SubSeq(stack, 1, n)[i] = stack[1 + i - 1]
    BY <1>1, SubSeqProperties
<1>3. QED
    BY <1>1, <1>2

(* The effect of binding a name: nothing else about any frame changes.      *)
LEMMA BindFrames ==
    ASSUME TypeOK, NEW g \in 1..Len(frames), NEW x \in Names,
           NEW var \in 0..MaxVars, Bind(g, x, var)
    PROVE  /\ frames' \in Seq(Frame) /\ Len(frames') = Len(frames)
           /\ \A f \in 1..Len(frames) :
                /\ frames'[f].chain = frames[f].chain
                /\ frames'[f].outermost = frames[f].outermost
                /\ frames'[f].scope = frames[f].scope
                /\ frames'[f].loose = frames[f].loose
                /\ \A y \in Names : f # g \/ y # x =>
                    frames'[f].variables[y] = frames[f].variables[y]
           /\ frames'[g].variables[x] = var
<1> DEFINE variables == [frames[g].variables EXCEPT ![x] = var]
           r == [frames[g] EXCEPT !.variables = variables]
<1>1. frames \in Seq(Frame) /\ frames[g] \in Frame
    BY Lengths DEF TypeOK
<1>2. frames[g].variables \in [Names -> 0..MaxVars]
    BY <1>1 DEF Frame
<1>3. /\ variables \in [Names -> 0..MaxVars] /\ variables[x] = var
      /\ \A y \in Names : y # x => variables[y] = frames[g].variables[y]
    BY <1>2
<1>4. /\ r \in Frame
      /\ r.chain = frames[g].chain /\ r.outermost = frames[g].outermost
      /\ r.scope = frames[g].scope /\ r.loose = frames[g].loose
      /\ r.variables = variables
    <2> HIDE DEF variables
    <2>1. QED
        BY <1>1, <1>3 DEF Frame
<1>5. frames' = [frames EXCEPT ![g] = r]
    BY DEF Bind
<1>6. /\ frames' \in Seq(Frame) /\ Len(frames') = Len(frames)
      /\ \A f \in 1..Len(frames) :
            frames'[f] = IF f = g THEN r ELSE frames[f]
    <2> HIDE DEF r
    <2>1. QED
        BY <1>1, <1>4, <1>5, ExceptSeq
<1>7. QED
    <2> HIDE DEF r, variables
    <2>1. QED
        BY <1>3, <1>4, <1>6

-----------------------------------------------------------------------------
(* What all steps do to the frames there are.                               *)
Keeps ==
    /\ frames' \in Seq(Frame)
    /\ Len(frames') \in Len(frames)..MaxFrames
    /\ \A f \in 1..Len(frames) :
        /\ frames'[f].chain = frames[f].chain
        /\ frames'[f].outermost = frames[f].outermost
        /\ frames'[f].scope = frames[f].scope
        /\ frames'[f].loose = frames[f].loose

LEMMA Unchanged ==
    ASSUME Base, UNCHANGED frames
    PROVE  Keeps /\ Len(frames') = Len(frames)
BY Lengths DEF Base, TypeOK, Keeps

(* A step that keeps the frames and adds none preserves their shape.        *)
LEMMA ShapeKept ==
    ASSUME Base, Shape, Keeps, Len(frames') = Len(frames)
    PROVE  Shape'
<1>1. Chains'
    <2> SUFFICES ASSUME NEW f \in 1..Len(frames)
                 PROVE  /\ f \in frames[f].chain /\ frames[f].chain \subseteq 1..f
                        /\ f \in frames[f].scope /\ frames[f].scope \subseteq 1..f
                        /\ frames[f].outermost \in frames[f].chain
                        /\ \A g \in frames[f].chain :
                            frames'[g].outermost = frames[f].outermost
        BY DEF Chains, Keeps
    <2>1. \A g \in frames[f].chain : g \in 1..Len(frames)
        BY Lengths DEF Shape, Chains, Base
    <2>2. QED
        BY <2>1 DEF Shape, Chains, Keeps
<1>2. First'
    BY Lengths DEF Shape, First, Keeps, Base
<1>3. TopIsFirst'
    BY DEF Shape, TopIsFirst, TopLevel, Keeps
<1>4. Ordered'
    BY DEF Shape, Ordered, Keeps
<1>5. QED
    BY <1>1, <1>2, <1>3, <1>4 DEF Shape

(* A new frame that continues a chain properly preserves the shape.         *)
Continues(r) ==
    LET n == Len(frames) + 1
    IN  /\ n \in r.chain /\ r.chain \subseteq 1..n
        /\ n \in r.scope /\ r.scope \subseteq 1..n
        /\ r.outermost \in r.chain
        /\ \A g \in r.chain \ {n} : frames[g].outermost = r.outermost
        /\ r.scope = {n} => r.outermost # 1
        /\ ~r.loose =>
            /\ r.outermost = 1 /\ 1 \in r.scope /\ r.scope \subseteq r.chain
            /\ \A d \in r.chain \ r.scope : \A e \in r.scope \ {1} : d < e

LEMMA Grown ==
    ASSUME Base, Len(frames) + 1 <= MaxFrames
    PROVE  \A r \in Frame : frames' = Append(frames, r) =>
                /\ Keeps /\ Len(frames') = Len(frames) + 1
                /\ frames'[Len(frames) + 1] = r
                /\ \A f \in 1..Len(frames) : frames'[f] = frames[f]
<1>1. frames \in Seq(Frame) /\ Len(frames) \in Nat
    BY Lengths DEF Base, TypeOK
<1>2. TAKE r \in Frame
<1>3. HAVE frames' = Append(frames, r)
<1>4. /\ frames' \in Seq(Frame) /\ Len(frames') = Len(frames) + 1
      /\ \A f \in 1..Len(frames) : frames'[f] = frames[f]
      /\ frames'[Len(frames) + 1] = r
    BY <1>1, <1>3, AppendProperties
<1>5. QED
    BY <1>1, <1>4, EvalContextAssumption DEF Keeps

LEMMA ShapeGrows ==
    ASSUME Base, Shape, Len(frames) + 1 <= MaxFrames
    PROVE  \A r \in Frame :
                frames' = Append(frames, r) /\ Continues(r) => Shape'
<1>1. TAKE r \in Frame
<1>2. HAVE frames' = Append(frames, r) /\ Continues(r)
<1> DEFINE n == Len(frames) + 1
<1>3. /\ Len(frames) \in Nat /\ Len(frames) >= 1 /\ Len(frames') = n
      /\ frames'[n] = r /\ n \notin 1..Len(frames)
      /\ \A f \in 1..Len(frames) : frames'[f] = frames[f]
      /\ 1..n = (1..Len(frames)) \cup {n}
    BY <1>2, Grown, Lengths DEF Base
<1>4. Chains'
    <2>1. \A f \in 1..Len(frames) : \A g \in frames[f].chain :
            g \in 1..Len(frames)
        BY <1>3 DEF Shape, Chains
    <2>2. \A g \in r.chain \ {n} : g \in 1..Len(frames)
        BY <1>2, <1>3 DEF Continues
    <2>3. QED
        BY <1>2, <1>3, <2>1, <2>2 DEF Shape, Chains, Continues
<1>5. First'
    BY <1>3 DEF Shape, First
<1>6. TopIsFirst'
    BY <1>2, <1>3 DEF Shape, TopIsFirst, TopLevel, Continues
<1>7. Ordered'
    BY <1>2, <1>3 DEF Shape, Ordered, Continues
<1>8. QED
    BY <1>4, <1>5, <1>6, <1>7 DEF Shape

-----------------------------------------------------------------------------
(* What a step leaves on the stack is in the invariant.                     *)
StackInv ==
    /\ stack' \in Seq(Entry) /\ Len(stack') > 0
    /\ Live'
    /\ Named'
    /\ Bottom'

LEMMA OldEntries ==
    ASSUME IInv, Keeps, NEW i \in 1..Len(stack), NEW j, stack'[j] = stack[i]
    PROVE  stack'[j].frame \in 1..Len(frames') /\ Allowed(stack[j])'
<1>1. stack[i].frame \in 1..Len(frames)
    BY DEF IInv, Base, Live
<1>2. Len(frames) \in Nat /\ Len(frames') >= Len(frames) /\ Len(frames') \in Nat
    BY Lengths, EvalContextAssumption DEF IInv, Base, Keeps
<1>3. Allowed(stack[i])
    BY DEF IInv, Named
<1>4. QED
    BY <1>1, <1>2, <1>3 DEF Keeps, Allowed, TopLevel

LEMMA Pushed ==
    ASSUME IInv, Keeps
    PROVE  \A e \in Entry :
                /\ Push(e)
                /\ e.frame \in 1..Len(frames')
                /\ e.var # 0 =>
                    e.name \in IF e.global \/ frames'[e.frame].scope = {e.frame}
                               THEN Globals ELSE Locals
                => StackInv
<1>1. TAKE e \in Entry
<1>2. HAVE /\ Push(e)
           /\ e.frame \in 1..Len(frames')
           /\ e.var # 0 =>
                e.name \in IF e.global \/ frames'[e.frame].scope = {e.frame}
                           THEN Globals ELSE Locals
<1>3. /\ stack \in Seq(Entry) /\ Len(stack) \in Nat
      /\ stack' = Append(stack, e)
    BY <1>2, Lengths DEF IInv, Base, TypeOK, Push
<1>4. /\ stack' \in Seq(Entry) /\ Len(stack') = Len(stack) + 1
      /\ \A i \in 1..Len(stack) : stack'[i] = stack[i]
      /\ stack'[Len(stack) + 1] = e
    BY <1>3, AppendProperties
<1>5. \A i \in 1..Len(stack') :
        stack'[i].frame \in 1..Len(frames') /\ Allowed(stack[i])'
    <2>1. TAKE i \in 1..Len(stack')
    <2>2. CASE i \in 1..Len(stack)
        BY <1>4, <2>2, OldEntries
    <2>3. CASE i = Len(stack) + 1
        BY <1>2, <1>4, <2>3 DEF Allowed, TopLevel
    <2>4. QED
        BY <1>3, <1>4, <2>1, <2>2, <2>3
<1>6. Bottom'
    BY <1>4, Lengths DEF IInv, Base, Bottom
<1>7. QED
    BY <1>3, <1>4, <1>5, <1>6 DEF StackInv, Live, Named

LEMMA Popped ==
    ASSUME IInv, Keeps
    PROVE  \A n \in 1..Len(stack) : stack' = SubSeq(stack, 1, n) => StackInv
<1>1. TAKE n \in 1..Len(stack)
<1>2. HAVE stack' = SubSeq(stack, 1, n)
<1>3. /\ stack' \in Seq(Entry) /\ Len(stack') = n
      /\ \A i \in 1..Len(stack') :
            i \in 1..Len(stack) /\ stack'[i] = stack[i]
    BY <1>1, <1>2, PopType DEF IInv
<1>4. \A i \in 1..Len(stack') :
        stack'[i].frame \in 1..Len(frames') /\ Allowed(stack[i])'
    BY <1>3, OldEntries
<1>5. Len(stack') \in Nat /\ Len(stack') >= 1
    BY <1>3, Lengths DEF IInv, Base
<1>6. Bottom'
    BY <1>3, <1>5 DEF IInv, Bottom
<1>7. QED
    BY <1>3, <1>4, <1>5, <1>6 DEF StackInv, Live, Named

LEMMA StackSame ==
    ASSUME IInv, Keeps, UNCHANGED stack
    PROVE  StackInv
<1>1. \A i \in 1..Len(stack') :
        stack'[i].frame \in 1..Len(frames') /\ Allowed(stack[i])'
    BY OldEntries
<1>2. QED
    BY <1>1 DEF StackInv, Live, Named, Bottom, IInv, Base, TypeOK

(* The parts of a step put together.                                        *)
ValueInv ==
    /\ value' \in Seq(Values) /\ Len(value') \in 0..MaxVars
    /\ declared' \subseteq Globals

LEMMA Step ==
    ASSUME IInv, Keeps, Shape', StackInv, ValueInv
    PROVE  IInv'
<1>1. Len(frames') \in 1..MaxFrames
    BY Lengths, EvalContextAssumption DEF IInv, Base, Keeps
<1>2. QED
    BY <1>1 DEF IInv, Base, TypeOK, Keeps, StackInv, ValueInv

-----------------------------------------------------------------------------
(* The operations.                                                          *)
LEMMA ValueSame ==
    ASSUME IInv, UNCHANGED <<value, declared>>
    PROVE  ValueInv
BY DEF IInv, Base, TypeOK, ValueInv

LEMMA ValueSet ==
    ASSUME IInv
    PROVE  \A v \in Values, i \in Nat : value' = [value EXCEPT ![i] = v] =>
                /\ value' \in Seq(Values) /\ Len(value') \in 0..MaxVars
                /\ Len(value') = Len(value)
<1>1. value \in Seq(Values) /\ Len(value) \in 0..MaxVars
    BY DEF IInv, Base, TypeOK
<1>2. TAKE v \in Values, i \in Nat
<1>3. HAVE value' = [value EXCEPT ![i] = v]
<1>4. CASE i \in 1..Len(value)
    BY <1>1, <1>3, <1>4, ExceptSeq
<1>5. CASE i \notin 1..Len(value)
    <2>1. value' = value
        BY <1>1, <1>3, <1>5, LenProperties
    <2>2. QED
        BY <1>1, <2>1
<1>6. QED
    BY <1>4, <1>5

(* An instance that a search finds is one of the instances.                 *)
LEMMA Found ==
    ASSUME IInv, NEW f \in 1..Len(frames), NEW x \in Names,
           NEW var \in GetVar(f, x)
    PROVE  var \in 1..MaxVars
<1>1. PICK g \in Nearest(frames[f].chain, x) : var = frames[g].variables[x]
    BY DEF GetVar
<1>2. frames[f].chain \subseteq 1..Len(frames)
    BY Lengths DEF IInv, Base, Shape, Chains
<1>3. g \in 1..Len(frames) /\ frames[g].variables[x] # 0
    BY <1>1, <1>2 DEF Nearest
<1>4. frames[g].variables[x] \in 0..MaxVars
    BY <1>3, Lengths DEF IInv, Base, Frame
<1>5. QED
    BY <1>1, <1>3, <1>4

LEMMA DefiningStep ==
    ASSUME IInv, UNCHANGED frames, NEW x \in Names, NEW var \in 0..MaxVars,
           NEW global \in BOOLEAN, Defining(x, var, global),
           x \in IF global \/ TopLevel(Ctx) THEN Globals ELSE Locals
    PROVE  StackInv
<1> DEFINE e == [frame |-> Ctx, name |-> x, var |-> var, global |-> global]
<1>1. Keeps /\ Len(frames') = Len(frames) /\ Ctx \in 1..Len(frames)
    BY Unchanged, TopType DEF IInv
<1>2. e \in Entry
    BY <1>1, Lengths, EvalContextAssumption DEF IInv, Base, TypeOK, Entry
<1>3. Push(e) /\ e.frame = Ctx /\ e.name = x /\ e.global = global
    BY DEF Defining
<1>4. e.frame \in 1..Len(frames')
    BY <1>1, <1>3
<1>5. e.name \in IF e.global \/ frames'[e.frame].scope = {e.frame}
                 THEN Globals ELSE Locals
    BY <1>3 DEF TopLevel
<1>6. QED
    <2> HIDE DEF e
    <2>1. QED
        BY <1>1, <1>2, <1>3, <1>4, <1>5, Pushed

LEMMA CreateStep ==
    ASSUME IInv, UNCHANGED <<frames, declared>>, NEW x \in Names,
           NEW global \in BOOLEAN, Create(x, global),
           x \in IF global \/ TopLevel(Ctx) THEN Globals ELSE Locals
    PROVE  StackInv /\ ValueInv
<1>1. /\ value \in Seq(Values) /\ Len(value) \in Nat /\ Nil \in Values
      /\ Len(value) < MaxVars /\ value' = Append(value, Nil)
    BY Lengths, EvalContextAssumption DEF IInv, Base, TypeOK, Create
<1>2. value' \in Seq(Values) /\ Len(value') = Len(value) + 1
    BY <1>1, AppendProperties
<1>3. ValueInv
    BY <1>1, <1>2, EvalContextAssumption DEF ValueInv, IInv, Base, TypeOK
<1>4. Len(value) + 1 \in 0..MaxVars
    BY <1>1, EvalContextAssumption
<1>5. \A var \in 0..MaxVars : Defining(x, var, global) => StackInv
    BY DefiningStep
<1>6. QED
    BY <1>3, <1>4, <1>5 DEF Create

LEMMA SetVarStep ==
    ASSUME IInv, NEW v \in Values, DefineEnd(v)
    PROVE  IInv'
<1> DEFINE g == IF Top.global THEN frames[Ctx].outermost ELSE Ctx
<1>1. /\ Ctx \in 1..Len(frames) /\ Top.name \in Names
      /\ Top.var \in 0..MaxVars /\ Top.global \in BOOLEAN
    BY TopType DEF IInv
<1>2. g \in 1..Len(frames)
    BY <1>1, Lengths DEF IInv, Base, Shape, Chains
<1>3. Bind(g, Top.name, Top.var)
    BY DEF DefineEnd, SetVar
<1>4. Keeps /\ Len(frames') = Len(frames)
    <2>1. \A h \in 1..Len(frames), x \in Names, var \in 0..MaxVars :
            Bind(h, x, var) => Keeps /\ Len(frames') = Len(frames)
        <3>1. TAKE h \in 1..Len(frames), x \in Names, var \in 0..MaxVars
        <3>2. HAVE Bind(h, x, var)
        <3>3. TypeOK /\ Len(frames) \in Nat /\ Len(frames) <= MaxFrames
            BY Lengths, EvalContextAssumption DEF IInv, Base, TypeOK
        <3>4. QED
            BY <3>2, <3>3, BindFrames, EvalContextAssumption DEF Keeps
    <2> HIDE DEF g
    <2>2. QED
        BY <1>1, <1>2, <1>3, <2>1
<1>5. Shape'
    BY <1>4, ShapeKept DEF IInv
<1>6. StackInv
    <2>1. Len(stack) \in Nat /\ Len(stack) >= 1
        BY Lengths DEF IInv, Base
    <2>2. Len(stack) # 1
        BY DEF IInv, Bottom, DefineEnd, Top
    <2>3. Len(stack) - 1 \in 1..Len(stack)
        <3>1. \A n \in Nat : n >= 1 /\ n # 1 => n - 1 \in 1..n
            OBVIOUS
        <3>2. QED
            BY <2>1, <2>2, <3>1
    <2>4. stack' = SubSeq(stack, 1, Len(stack) - 1)
        BY DEF DefineEnd, Pop
    <2>5. QED
        BY <1>4, <2>3, <2>4, Popped
<1>7. ValueInv
    <2>1. Top.global => Top.name \in Globals
        <3>1. Allowed(Top)
            BY Lengths DEF IInv, Base, Named, Top
        <3>2. QED
            BY <3>1 DEF Allowed, DefineEnd
    <2>2. Top.var \in Nat /\ value' = [value EXCEPT ![Top.var] = v]
        BY <1>1, EvalContextAssumption DEF DefineEnd
    <2>3. value' \in Seq(Values) /\ Len(value') \in 0..MaxVars
        BY <2>2, ValueSet
    <2>4. QED
        BY <2>1, <2>3 DEF ValueInv, DefineEnd, IInv, Base, TypeOK
<1>8. QED
    BY <1>4, <1>5, <1>6, <1>7, Step

LEMMA EnterStep ==
    ASSUME IInv, Keeps, Len(frames') = Len(frames) + 1,
           Enter(Len(frames) + 1)
    PROVE  StackInv
<1> DEFINE n == Len(frames) + 1
           e == [frame |-> n, name |-> AnyName, var |-> 0, global |-> FALSE]
<1>1. Len(frames) \in Nat /\ n \in 1..MaxFrames
    BY Lengths, EvalContextAssumption DEF IInv, Base, Keeps
<1>2. e \in Entry
    BY <1>1, NameExists, EvalContextAssumption DEF Entry
<1>3. Push(e) /\ e.frame = n /\ e.var = 0
    BY DEF Enter
<1>4. e.frame \in 1..Len(frames')
    BY <1>1, <1>3
<1> HIDE DEF e
<1>5. QED
    BY <1>2, <1>3, <1>4, Pushed

LEMMA FrameType ==
    ASSUME IInv, NEW f \in 1..Len(frames), NEW h \in 1..Len(frames),
           NEW loose \in BOOLEAN, AddFrame(f, h, loose)
    PROVE  [chain |-> frames[f].chain \cup {Len(frames) + 1},
            outermost |-> frames[f].outermost,
            scope |-> frames[h].scope \cup {Len(frames) + 1},
            variables |-> [x \in Names |-> 0],
            loose |-> loose] \in Frame
<1> DEFINE n == Len(frames) + 1
<1>1. n \in 1..MaxFrames
    BY Lengths, EvalContextAssumption DEF IInv, Base, AddFrame
<1>2. /\ frames[f].chain \in SUBSET (1..MaxFrames)
      /\ frames[h].scope \in SUBSET (1..MaxFrames)
      /\ frames[f].outermost \in 1..MaxFrames
    BY Lengths DEF IInv, Base, Frame
<1>3. /\ frames[f].chain \cup {n} \in SUBSET (1..MaxFrames)
      /\ frames[h].scope \cup {n} \in SUBSET (1..MaxFrames)
    BY <1>1, <1>2
<1>4. [x \in Names |-> 0] \in [Names -> 0..MaxVars]
    BY EvalContextAssumption
<1>5. QED
    BY <1>2, <1>3, <1>4 DEF Frame

(* The code of a new frame is not at the top level, as it has the scope of  *)
(* the frame it was made in.                                                *)
LEMMA AddFrameStep ==
    ASSUME IInv, NEW f \in 1..Len(frames), NEW h \in 1..Len(frames),
           NEW loose \in BOOLEAN, AddFrame(f, h, loose),
           ~loose => /\ frames[f].outermost = 1
                     /\ \/ h = 1
                        \/ f = h /\ ~frames[h].loose
    PROVE  IInv'
<1> DEFINE n == Len(frames) + 1
           r == [chain |-> frames[f].chain \cup {n},
                 outermost |-> frames[f].outermost,
                 scope |-> frames[h].scope \cup {n},
                 variables |-> [x \in Names |-> 0],
                 loose |-> loose]
<1>1. /\ Len(frames) \in Nat /\ Len(frames) >= 1 /\ n <= MaxFrames
      /\ frames' = Append(frames, r) /\ Enter(n)
      /\ UNCHANGED <<value, declared>>
    BY Lengths DEF IInv, Base, AddFrame
<1>2. /\ f \in frames[f].chain /\ frames[f].chain \subseteq 1..Len(frames)
      /\ h \in frames[h].scope /\ frames[h].scope \subseteq 1..Len(frames)
      /\ frames[f].outermost \in frames[f].chain
      /\ \A g \in frames[f].chain :
            frames[g].outermost = frames[f].outermost
    BY <1>1 DEF IInv, Shape, Chains
<1>3. r \in Frame
    BY FrameType
<1>4. ~loose =>
        /\ r.outermost = 1 /\ 1 \in r.scope /\ r.scope \subseteq r.chain
        /\ \A d \in r.chain \ r.scope : \A e \in r.scope \ {1} : d < e
    <2> SUFFICES ASSUME ~loose
                 PROVE  /\ r.outermost = 1 /\ 1 \in r.scope
                        /\ r.scope \subseteq r.chain
                        /\ \A d \in r.chain \ r.scope :
                            \A e \in r.scope \ {1} : d < e
        OBVIOUS
    <2>1. CASE h = 1
        BY <1>1, <1>2, <2>1 DEF IInv, Shape, First
    <2>2. CASE f = h /\ ~frames[h].loose
        BY <1>1, <1>2, <2>2 DEF IInv, Shape, Ordered
    <2>3. QED
        BY <2>1, <2>2
<1>5. Continues(r)
    BY <1>1, <1>2, <1>4 DEF Continues
<1>6. /\ Shape' /\ Keeps /\ Len(frames') = n /\ frames'[n] = r
    <2> HIDE DEF r
    <2>1. QED
        BY <1>1, <1>3, <1>5, ShapeGrows, Grown DEF IInv
<1>7. StackInv
    BY <1>1, <1>6, EnterStep
<1>8. QED
    BY <1>1, <1>6, <1>7, ValueSame, Step


LEMMA RemoteStep ==
    ASSUME IInv, EvalRemote
    PROVE  IInv'
<1> DEFINE n == Len(frames) + 1
           r == [chain |-> {n}, outermost |-> n,
                 scope |-> (frames[Ctx].scope \ {Ctx}) \cup {n},
                 variables |-> frames[Ctx].variables,
                 loose |-> TRUE]
<1>1. /\ Len(frames) \in Nat /\ Len(frames) >= 1 /\ n <= MaxFrames
      /\ frames' = Append(frames, r) /\ Enter(n)
      /\ UNCHANGED <<value, declared>>
    BY Lengths DEF IInv, Base, EvalRemote
<1>2. Ctx \in 1..Len(frames) /\ frames[Ctx] \in Frame
    BY TopType, Lengths DEF IInv, Base
<1>3. frames[Ctx].scope \subseteq 1..Len(frames)
    BY <1>1, <1>2 DEF IInv, Shape, Chains
<1>4. r \in Frame
    BY <1>1, <1>2, <1>3, EvalContextAssumption DEF Frame
<1>5. Continues(r)
    BY <1>1, <1>3 DEF Continues
<1>6. /\ Shape' /\ Keeps /\ Len(frames') = n
    <2> HIDE DEF r
    <2>1. QED
        BY <1>1, <1>4, <1>5, ShapeGrows, Grown DEF IInv
<1>7. StackInv
    BY <1>1, <1>6, EnterStep
<1>8. QED
    BY <1>1, <1>6, <1>7, ValueSame, Step

THEOREM StepInvariant == IInv /\ [Next]_vars => IInv'
<1> SUFFICES ASSUME IInv, [Next]_vars PROVE IInv'
    OBVIOUS
<1>1. Base /\ Shape
    BY DEF IInv
<1>2. Ctx \in 1..Len(frames) /\ Len(stack) \in Nat /\ Len(stack) >= 1
    BY <1>1, TopType, Lengths DEF Base
<1>3. UNCHANGED frames => Keeps /\ Shape'
    BY <1>1, Unchanged, ShapeKept
<1>4. ASSUME NEW x \in Names, DefineBegin(x)
      PROVE  IInv'
    BY <1>3, <1>4, CreateStep, Step DEF DefineBegin
<1>5. ASSUME NEW x \in Names, DefineGlobalFound(x)
      PROVE  IInv'
    <2>1. PICK var \in GetVar(Ctx, x) : Defining(x, var, TRUE)
        BY <1>5 DEF DefineGlobalFound
    <2>2. var \in 0..MaxVars
        <3>1. \A f \in 1..Len(frames) : GetVar(f, x) \subseteq 1..MaxVars
            BY Found
        <3>2. QED
            BY <1>2, <2>1, <3>1
    <2>3. StackInv /\ ValueInv
        BY <1>5, <2>1, <2>2, DefiningStep, ValueSame DEF DefineGlobalFound
    <2>4. QED
        BY <1>3, <1>5, <2>3, Step DEF DefineGlobalFound
<1>6. ASSUME NEW x \in Names, DefineGlobalNew(x)
      PROVE  IInv'
    BY <1>3, <1>6, CreateStep, Step DEF DefineGlobalNew
<1>7. ASSUME NEW x \in Names, Unbound(x)
      PROVE  IInv'
    <2>1. StackInv
        BY <1>2, <1>3, <1>7, Popped DEF Unbound
    <2>2. QED
        BY <1>3, <1>7, <2>1, ValueSame, Step DEF Unbound
<1>8. ASSUME NEW v \in Values, DefineEnd(v)
      PROVE  IInv'
    BY <1>8, SetVarStep
<1>9. ASSUME NEW x \in Names, NEW v \in Values, Store(x, v)
      PROVE  IInv'
    <2>1. PICK var \in GetVar(Ctx, x) : value' = [value EXCEPT ![var] = v]
        BY <1>9 DEF Store
    <2>2. var \in Nat
        <3>1. \A f \in 1..Len(frames) : GetVar(f, x) \subseteq 1..MaxVars
            BY Found
        <3>2. QED
            BY <1>2, <2>1, <3>1, EvalContextAssumption
    <2>3. ValueInv
        BY <1>9, <2>1, <2>2, ValueSet
           DEF Store, ValueInv, IInv, Base, TypeOK
    <2>4. QED
        BY <1>3, <1>9, <2>3, StackSame, Step DEF Store
<1>10. ASSUME NEW h \in DOMAIN frames, CallFunction(h)
       PROVE  IInv'
    <2>1. h \in 1..Len(frames)
        BY <1>1, Lengths DEF Base
    <2>2. QED
        BY <1>2, <1>10, <2>1, AddFrameStep DEF CallFunction
<1>11. ASSUME NEW h \in DOMAIN frames, CallReference(h)
       PROVE  IInv'
    <2>1. h \in 1..Len(frames) /\ frames[h].loose \in BOOLEAN
        BY <1>1, Lengths DEF Base, Frame
    <2>2. ~frames[h].loose => frames[h].outermost = 1
        BY <1>1, <2>1 DEF Shape, Ordered
    <2>3. QED
        BY <1>11, <2>1, <2>2, AddFrameStep DEF CallReference
<1>12. CASE EvalRemote
    BY <1>12, RemoteStep
<1>13. CASE Return
    <2>1. StackInv
        <3>1. Len(stack) - 1 \in 1..Len(stack)
            BY <1>2, <1>13 DEF Return
        <3>2. stack' = SubSeq(stack, 1, Len(stack) - 1)
            BY <1>13 DEF Return, Pop
        <3>3. Keeps
            BY <1>3, <1>13 DEF Return
        <3>4. QED
            BY <3>1, <3>2, <3>3, Popped
    <2>2. QED
        BY <1>3, <1>13, <2>1, ValueSame, Step DEF Return
<1>14. CASE UNCHANGED vars
    BY <1>3, <1>14, StackSame, ValueSame, Step DEF vars
<1>15. QED
    BY <1>4, <1>5, <1>6, <1>7, <1>8, <1>9, <1>10, <1>11, <1>12, <1>13, <1>14
       DEF Next

-----------------------------------------------------------------------------
LEMMA InitInvariant == Init => IInv
<1> SUFFICES ASSUME Init PROVE IInv
    OBVIOUS
<1> DEFINE r == [chain |-> {1}, outermost |-> 1, scope |-> {1},
                 variables |-> [x \in Names |-> 0], loose |-> FALSE]
           e == [frame |-> 1, name |-> AnyName, var |-> 0, global |-> FALSE]
<1>1. r \in Frame /\ e \in Entry
    BY NameExists, EvalContextAssumption DEF Frame, Entry
<1>2. /\ frames = <<r>> /\ stack = <<e>> /\ value = <<>> /\ declared = {}
      /\ e.frame = 1 /\ e.var = 0
      /\ r.chain = {1} /\ r.outermost = 1 /\ r.scope = {1} /\ ~r.loose
    BY DEF Init
<1> HIDE DEF r, e
<1>3. /\ Len(frames) = 1 /\ frames[1] = r /\ frames \in Seq(Frame)
      /\ Len(stack) = 1 /\ stack[1] = e /\ stack \in Seq(Entry)
      /\ Len(value) = 0 /\ value \in Seq(Values)
    BY <1>1, <1>2
<1>4. Base
    BY <1>2, <1>3, EvalContextAssumption DEF Base, TypeOK, Live
<1>5. Shape
    BY <1>2, <1>3 DEF Shape, Chains, First, TopIsFirst, Ordered
<1>6. Named /\ Bottom
    BY <1>2, <1>3 DEF Named, Allowed, Bottom
<1>7. QED
    BY <1>4, <1>5, <1>6 DEF IInv

THEOREM Invariant == Spec => []IInv
BY InitInvariant, StepInvariant, PTL DEF Spec

(* Every component of the state is of its type, in every instance.          *)
THEOREM TypeCorrect == Spec => []TypeOK
<1>1. IInv => TypeOK
    BY DEF IInv, Base
<1>2. QED
    BY <1>1, Invariant, PTL

-----------------------------------------------------------------------------
(* Definitions respect the division of the frames.                          *)
LEMMA BindingsInit ==
    ASSUME Init
    PROVE  Bindings
BY DEF Init, Bindings

LEMMA BindingsGrow ==
    ASSUME IInv, Bindings, Len(frames) + 1 <= MaxFrames
    PROVE  \A r \in Frame :
                /\ frames' = Append(frames, r)
                /\ r.outermost # 1 \/ r.variables = [x \in Names |-> 0]
                => Bindings'
<1>1. TAKE r \in Frame
<1>2. HAVE /\ frames' = Append(frames, r)
           /\ r.outermost # 1 \/ r.variables = [x \in Names |-> 0]
<1>3. /\ Len(frames) \in Nat /\ Len(frames') = Len(frames) + 1
      /\ frames'[Len(frames) + 1] = r
      /\ \A f \in 1..Len(frames) : frames'[f] = frames[f]
    BY <1>2, Grown, Lengths DEF IInv, Base
<1>4. QED
    BY <1>2, <1>3 DEF Bindings

LEMMA BindingsKept ==
    ASSUME IInv, Bindings, UNCHANGED frames
    PROVE  Bindings'
BY DEF Bindings

LEMMA BindingsSet ==
    ASSUME Globals \cap Locals = {}, IInv, Bindings,
           NEW v \in Values, DefineEnd(v)
    PROVE  Bindings'
<1> DEFINE g == IF Top.global THEN frames[Ctx].outermost ELSE Ctx
<1>1. /\ Ctx \in 1..Len(frames) /\ Top.name \in Names
      /\ Top.var \in 0..MaxVars /\ TypeOK /\ Len(stack) \in 1..Len(stack)
    BY TopType, Lengths DEF IInv, Base
<1>2. Chains /\ First /\ TopIsFirst /\ Len(frames) \in Nat /\ Len(frames) >= 1
    BY Lengths DEF IInv, Base, Shape
<1>3. g \in 1..Len(frames)
    BY <1>1, <1>2 DEF Chains
<1>4. Top.name \in IF Top.global \/ TopLevel(Ctx) THEN Globals ELSE Locals
    BY <1>1 DEF IInv, Named, Allowed, DefineEnd, Top, Ctx
<1>5. frames[g].outermost = 1 =>
        /\ Top.name \in Globals => g = 1
        /\ Top.name \in Locals => g # 1
    <2>1. CASE Top.global
        BY <1>1, <1>2, <1>4, <2>1 DEF Chains
    <2>2. CASE ~Top.global /\ TopLevel(Ctx)
        BY <1>1, <1>2, <1>4, <2>2 DEF TopIsFirst
    <2>3. CASE ~Top.global /\ ~TopLevel(Ctx)
        BY <1>1, <1>2, <1>4, <2>3 DEF First, TopLevel
    <2>4. QED
        BY <2>1, <2>2, <2>3
<1>6. \A h \in 1..Len(frames), y \in Names, var \in 0..MaxVars :
        Bind(h, y, var) =>
            /\ Len(frames') = Len(frames)
            /\ \A f \in 1..Len(frames) :
                /\ frames'[f].outermost = frames[f].outermost
                /\ \A x \in Names : f # h \/ x # y =>
                    frames'[f].variables[x] = frames[f].variables[x]
    BY <1>1, BindFrames
<1>7. Bind(g, Top.name, Top.var)
    BY DEF DefineEnd, SetVar
<1> HIDE DEF g
<1>8. /\ Len(frames') = Len(frames)
      /\ \A f \in 1..Len(frames) :
            /\ frames'[f].outermost = frames[f].outermost
            /\ \A x \in Names : f # g \/ x # Top.name =>
                frames'[f].variables[x] = frames[f].variables[x]
    BY <1>1, <1>3, <1>6, <1>7
<1>9. QED
    BY <1>3, <1>5, <1>8 DEF Bindings

LEMMA BindingsStep ==
    ASSUME Globals \cap Locals = {}, IInv, Bindings, [Next]_vars
    PROVE  Bindings'
<1>1. Ctx \in 1..Len(frames) /\ frames[Ctx] \in Frame /\ Len(frames) \in Nat
    BY TopType, Lengths DEF IInv, Base
<1>2. ASSUME NEW f \in 1..Len(frames), NEW h \in 1..Len(frames),
             NEW loose \in BOOLEAN, AddFrame(f, h, loose)
      PROVE  Bindings'
    <2> DEFINE n == Len(frames) + 1
               r == [chain |-> frames[f].chain \cup {n},
                     outermost |-> frames[f].outermost,
                     scope |-> frames[h].scope \cup {n},
                     variables |-> [x \in Names |-> 0],
                     loose |-> loose]
    <2>1. n <= MaxFrames /\ frames' = Append(frames, r)
        BY <1>2 DEF AddFrame
    <2>2. r \in Frame
        BY <1>2, FrameType
    <2>3. r.variables = [x \in Names |-> 0]
        OBVIOUS
    <2> HIDE DEF r
    <2>4. QED
        BY <2>1, <2>2, <2>3, BindingsGrow
<1>3. ASSUME EvalRemote PROVE Bindings'
    <2> DEFINE n == Len(frames) + 1
               r == [chain |-> {n}, outermost |-> n,
                     scope |-> (frames[Ctx].scope \ {Ctx}) \cup {n},
                     variables |-> frames[Ctx].variables,
                     loose |-> TRUE]
    <2>1. n <= MaxFrames /\ frames' = Append(frames, r)
        BY <1>3 DEF EvalRemote
    <2>2. r \in Frame /\ r.outermost # 1
        BY <1>1, <2>1, EvalContextAssumption DEF Frame
    <2> HIDE DEF r
    <2>3. QED
        BY <2>1, <2>2, BindingsGrow
<1>4. ASSUME NEW v \in Values, DefineEnd(v) PROVE Bindings'
    BY <1>4, BindingsSet
<1>5. ASSUME NEW h \in DOMAIN frames, CallFunction(h) \/ CallReference(h)
      PROVE  Bindings'
    <2>1. h \in 1..Len(frames) /\ frames[h].loose \in BOOLEAN
        BY Lengths DEF IInv, Base, Frame
    <2>2. QED
        BY <1>1, <1>2, <1>5, <2>1 DEF CallFunction, CallReference
<1>6. QED
    BY <1>3, <1>4, <1>5, BindingsKept
       DEF Next, vars, DefineBegin, DefineGlobalFound, DefineGlobalNew,
           Unbound, Store, Return

-----------------------------------------------------------------------------
(* What the shape and the bindings say together.                            *)
LEMMA GlobalsInFirst ==
    ASSUME IInv, Bindings, NEW f \in 1..Len(frames), ~frames[f].loose,
           NEW g \in frames[f].chain, NEW x \in Names,
           frames[g].variables[x] # 0
    PROVE  /\ g \in 1..Len(frames) /\ 1 \in frames[f].scope
           /\ x \in Globals => g = 1
           /\ x \in Locals => g # 1
<1>1. /\ g \in 1..Len(frames) /\ frames[g].outermost = 1
      /\ 1 \in frames[f].scope
    BY Lengths DEF IInv, Base, Shape, Chains, Ordered
<1>2. QED
    BY <1>1 DEF Bindings

(* IInv and Bindings imply both properties of the search for a name.        *)
LEMMA LookupLemma ==
    ASSUME IInv, Bindings
    PROVE  LookupIsLexical
<1> SUFFICES ASSUME NEW f \in DOMAIN frames, NEW x \in Names,
                    ~frames[f].loose, Find(f, x) # {}
             PROVE  Nearest(frames[f].chain, x) = Nearest(frames[f].scope, x)
    BY DEF LookupIsLexical, Find
<1>1. /\ f \in 1..Len(frames) /\ Len(frames) \in Nat
      /\ frames[f].scope \subseteq frames[f].chain
      /\ frames[f].chain \subseteq 1..f
      /\ \A d \in frames[f].chain \ frames[f].scope :
            \A e \in frames[f].scope \ {1} : d < e
    BY Lengths DEF IInv, Base, Shape, Ordered, Chains
<1>2. \A g \in frames[f].chain : g \in Int
    BY <1>1
<1>3. PICK e \in frames[f].scope :
        /\ frames[e].variables[x] # 0
        /\ \A h \in frames[f].scope : frames[h].variables[x] # 0 => h <= e
    BY DEF Find, Nearest
<1>4. \A g \in frames[f].chain \ frames[f].scope :
        frames[g].variables[x] # 0 => g < e
    <2>1. TAKE g \in frames[f].chain \ frames[f].scope
    <2>2. HAVE frames[g].variables[x] # 0
    <2>3. 1 \in frames[f].scope /\ (x \in Globals => g = 1)
          /\ (x \in Locals => e # 1)
        BY <1>1, <1>3, <2>2, GlobalsInFirst
    <2>4. QED
        BY <1>1, <1>3, <2>3 DEF Names
<1>5. QED
    BY <1>1, <1>2, <1>3, <1>4 DEF Nearest

LEMMA GlobalsLemma ==
    ASSUME IInv, Bindings
    PROVE  GlobalsVisible
<1> SUFFICES ASSUME NEW f \in DOMAIN frames, NEW x \in Globals,
                    ~frames[f].loose
             PROVE  GetVar(f, x) = GetVar(1, x)
    BY DEF GlobalsVisible
<1>1. /\ f \in 1..Len(frames) /\ 1 \in frames[f].chain
      /\ frames[1].chain = {1} /\ x \in Names
    BY Lengths DEF IInv, Base, Shape, Ordered, Chains, First, Names
<1>2. \A g \in frames[f].chain : frames[g].variables[x] # 0 => g = 1
    BY <1>1, GlobalsInFirst
<1>3. Nearest(frames[f].chain, x) = Nearest({1}, x)
    BY <1>1, <1>2 DEF Nearest
<1>4. QED
    BY <1>1, <1>3 DEF GetVar

(* If no name is both local and global, a search through the frames ends at *)
(* the definition the compiler found, in every program.                     *)
THEOREM LexicalLookup ==
    ASSUME Globals \cap Locals = {}
    PROVE  Spec => []LookupIsLexical
<1>1. Init => IInv /\ Bindings
    BY InitInvariant, BindingsInit
<1>2. IInv /\ Bindings /\ [Next]_vars => (IInv /\ Bindings)'
    BY StepInvariant, BindingsStep
<1>3. IInv /\ Bindings => LookupIsLexical
    BY LookupLemma
<1>4. QED
    BY <1>1, <1>2, <1>3, PTL DEF Spec

(* Nor do two functions disagree about a global variable.                   *)
THEOREM GlobalsSeen ==
    ASSUME Globals \cap Locals = {}
    PROVE  Spec => []GlobalsVisible
<1>1. Init => IInv /\ Bindings
    BY InitInvariant, BindingsInit
<1>2. IInv /\ Bindings /\ [Next]_vars => (IInv /\ Bindings)'
    BY StepInvariant, BindingsStep
<1>3. IInv /\ Bindings => GlobalsVisible
    BY GlobalsLemma
<1>4. QED
    BY <1>1, <1>2, <1>3, PTL DEF Spec

-----------------------------------------------------------------------------
(* Who holds an instance.  v is bound to x in a frame, or going to be.      *)
Holds(v, x) ==
    \/ \E f \in 1..Len(frames) : frames[f].variables[x] = v
    \/ \E i \in 1..Len(stack) : stack[i].var = v /\ stack[i].name = x

(* An instance exists when it is held, and has one name.                    *)
OneName ==
    /\ \A v \in 1..MaxVars, x \in Names : Holds(v, x) => v <= Len(value)
    /\ \A v \in 1..MaxVars, x \in Names, y \in Names :
        Holds(v, x) /\ Holds(v, y) => x = y

(* A definition of a local variable has not given its instance away yet.    *)
Pending(i) ==
    stack[i].var # 0 /\ stack[i].name \in Locals =>
        /\ \A f \in 1..Len(frames) :
            frames[f].variables[stack[i].name] # stack[i].var
        /\ \A j \in 1..Len(stack) : j # i => stack[j].var # stack[i].var

(* Two frames of the program's evaluation share no local variable.          *)
Unshared ==
    /\ \A f \in 1..Len(frames), g \in 1..Len(frames), x \in Locals :
        /\ frames[f].outermost = 1 /\ frames[g].outermost = 1
        /\ frames[f].variables[x] # 0
        /\ frames[f].variables[x] = frames[g].variables[x]
        => f = g
    /\ \A i \in 1..Len(stack) : Pending(i)

LInv == IInv /\ Bindings /\ OneName /\ Unshared

LEMMA LInvInit ==
    ASSUME Init
    PROVE  LInv
<1>1. IInv /\ Bindings
    BY InitInvariant, BindingsInit
<1>2. /\ \A f \in 1..Len(frames), x \in Names : frames[f].variables[x] = 0
      /\ \A i \in 1..Len(stack) : stack[i].var = 0
    BY DEF Init
<1>3. \A v \in 1..MaxVars, x \in Names : ~Holds(v, x)
    BY <1>2, EvalContextAssumption DEF Holds
<1>4. QED
    BY <1>1, <1>2, <1>3 DEF LInv, OneName, Unshared, Pending, Names

(* A step that lets nobody hold an instance under another name.             *)
LEMMA OneNameStep ==
    ASSUME LInv, Len(value') \in Nat, Len(value') >= Len(value),
           \A v \in 1..MaxVars, x \in Names : Holds(v, x)' => Holds(v, x)
    PROVE  OneName'
BY Lengths, EvalContextAssumption DEF LInv, IInv, Base, OneName

LEMMA PrivatePush ==
    ASSUME LInv, UNCHANGED <<frames, value>>
    PROVE  \A e \in Entry :
                Push(e) /\ (e.var = 0 \/ (Holds(e.var, e.name) /\ e.name \notin Locals))
                    => OneName' /\ Unshared'
<1>1. TAKE e \in Entry
<1>2. HAVE Push(e) /\ (e.var = 0 \/ (Holds(e.var, e.name) /\ e.name \notin Locals))
<1>3. /\ Len(stack) \in Nat /\ Len(stack') = Len(stack) + 1
      /\ \A i \in 1..Len(stack) : stack'[i] = stack[i]
      /\ stack'[Len(stack) + 1] = e
      /\ Len(value) \in Nat
    BY <1>2, PushType, Lengths DEF LInv, IInv, Base
<1>4. \A v \in 1..MaxVars, x \in Names : Holds(v, x)' => Holds(v, x)
    BY <1>2, <1>3, EvalContextAssumption DEF Holds
<1>5. OneName'
    BY <1>3, <1>4, OneNameStep
<1>6. ASSUME NEW i \in 1..Len(stack') PROVE Pending(i)'
    <2>1. CASE i = Len(stack) + 1
        BY <1>2, <1>3, <2>1 DEF Pending
    <2>2. CASE i \in 1..Len(stack)
        <3>1. Pending(i) /\ stack[i] \in Entry /\ stack'[i] = stack[i]
            BY <1>3, <2>2, Lengths DEF LInv, Unshared, IInv, Base
        <3>2. ASSUME stack[i].var # 0, stack[i].name \in Locals
              PROVE  e.var # stack[i].var
            <4>1. stack[i].var \in 1..MaxVars /\ stack[i].name \in Names
                BY <3>1, <3>2, EvalContextAssumption DEF Entry
            <4>2. Holds(stack[i].var, stack[i].name)
                BY <2>2 DEF Holds
            <4>3. e.name \in Names
                BY DEF Entry
            <4>4. QED
                BY <1>2, <3>2, <4>1, <4>2, <4>3 DEF LInv, OneName
        <3>3. QED
            BY <1>2, <1>3, <3>1, <3>2 DEF Pending
    <2>3. QED
        BY <1>3, <2>1, <2>2
<1>7. Unshared'
    BY <1>2, <1>6 DEF LInv, Unshared
<1>8. QED
    BY <1>5, <1>7

LEMMA PrivatePop ==
    ASSUME LInv, UNCHANGED frames, Len(value') = Len(value)
    PROVE  /\ \A n \in 1..Len(stack) : stack' = SubSeq(stack, 1, n)
                => OneName' /\ Unshared'
           /\ UNCHANGED stack => OneName' /\ Unshared'
<1>1. Len(stack) \in Nat /\ Len(value) \in Nat
    BY Lengths DEF LInv, IInv, Base
<1>2. ASSUME Len(stack') \in Nat, Len(stack') <= Len(stack),
             \A i \in 1..Len(stack') : stack'[i] = stack[i]
      PROVE  OneName' /\ Unshared'
    <2>1. \A v \in 1..MaxVars, x \in Names : Holds(v, x)' => Holds(v, x)
        BY <1>1, <1>2 DEF Holds
    <2>2. OneName'
        BY <1>1, <2>1, OneNameStep
    <2>3. ASSUME NEW i \in 1..Len(stack')
          PROVE  Pending(i)'
        <3>1. \A j \in 1..Len(stack') : j \in 1..Len(stack) /\ stack'[j] = stack[j]
            BY <1>1, <1>2
        <3>2. Pending(i)
            BY <3>1 DEF LInv, Unshared
        <3>3. frames' = frames
            OBVIOUS
        <3>4. QED
            BY <3>1, <3>2, <3>3, Zenon DEF Pending
    <2>4. QED
        BY <2>2, <2>3 DEF LInv, Unshared
<1>3. ASSUME NEW n \in 1..Len(stack), stack' = SubSeq(stack, 1, n)
      PROVE  OneName' /\ Unshared'
    <2>1. /\ Len(stack') = n
          /\ \A i \in 1..Len(stack') : stack'[i] = stack[i]
        BY <1>3, PopType DEF LInv, IInv
    <2>2. QED
        BY <1>1, <1>2, <2>1
<1>4. UNCHANGED stack => OneName' /\ Unshared'
    BY <1>1, <1>2
<1>5. QED
    BY <1>3, <1>4

(* A new frame holds nothing, or what the context of a remote evaluation    *)
(* holds, outside the chains of the program's own.                          *)
LEMMA PrivateGrow ==
    ASSUME LInv, Len(frames) + 1 <= MaxFrames, Enter(Len(frames) + 1),
           UNCHANGED value
    PROVE  \A r \in Frame :
                /\ frames' = Append(frames, r)
                /\ \/ r.variables = [x \in Names |-> 0]
                   \/ r.outermost # 1 /\ r.variables = frames[Ctx].variables
                => OneName' /\ Unshared'
<1> DEFINE n == Len(frames) + 1
           e == [frame |-> n, name |-> AnyName, var |-> 0, global |-> FALSE]
<1>1. TAKE r \in Frame
<1>2. HAVE /\ frames' = Append(frames, r)
           /\ \/ r.variables = [x \in Names |-> 0]
              \/ r.outermost # 1 /\ r.variables = frames[Ctx].variables
<1>3. /\ Len(frames) \in Nat /\ Len(frames') = n /\ frames'[n] = r
      /\ \A f \in 1..Len(frames) : frames'[f] = frames[f]
      /\ Ctx \in 1..Len(frames) /\ Len(value) \in Nat
    BY <1>2, Grown, TopType, Lengths DEF LInv, IInv, Base
<1>4. /\ Len(stack) \in Nat /\ Len(stack') = Len(stack) + 1
      /\ \A i \in 1..Len(stack) : stack'[i] = stack[i]
      /\ stack'[Len(stack) + 1] = e /\ e.var = 0
    <2>1. e \in Entry /\ Push(e) /\ e.var = 0
        BY <1>3, NameExists, EvalContextAssumption DEF Entry, Enter
    <2> HIDE DEF e
    <2>2. QED
        BY <2>1, PushType, Lengths DEF LInv, IInv, Base
<1> HIDE DEF e
<1>5. \A x \in Names :
        r.variables[x] = 0 \/ r.variables[x] = frames[Ctx].variables[x]
    BY <1>2
<1>6. \A v \in 1..MaxVars, x \in Names : Holds(v, x)' => Holds(v, x)
    <2> SUFFICES ASSUME NEW v \in 1..MaxVars, NEW x \in Names, Holds(v, x)'
                 PROVE  Holds(v, x)
        OBVIOUS
    <2>1. v # 0
        BY EvalContextAssumption
    <2>2. ASSUME NEW f \in 1..Len(frames'), frames'[f].variables[x] = v
          PROVE  Holds(v, x)
        <3>1. CASE f \in 1..Len(frames)
            BY <1>3, <2>2, <3>1 DEF Holds
        <3>2. CASE f = n
            BY <1>3, <1>5, <2>1, <2>2, <3>2 DEF Holds
        <3>3. QED
            BY <1>3, <2>2, <3>1, <3>2
    <2>3. ASSUME NEW i \in 1..Len(stack'), stack'[i].var = v, stack'[i].name = x
          PROVE  Holds(v, x)
        <3>1. i # Len(stack) + 1
            BY <1>4, <2>1, <2>3
        <3>2. i \in 1..Len(stack)
            BY <1>4, <3>1
        <3>3. QED
            BY <1>4, <2>3, <3>2 DEF Holds
    <2>4. QED
        BY <2>2, <2>3 DEF Holds
<1>7. OneName'
    BY <1>3, <1>6, OneNameStep
<1>8. ASSUME NEW i \in 1..Len(stack') PROVE Pending(i)'
    <2>1. CASE i = Len(stack) + 1
        BY <1>4, <2>1 DEF Pending
    <2>2. CASE i \in 1..Len(stack)
        <3>1. /\ Pending(i) /\ stack[i] \in Entry /\ stack'[i] = stack[i]
              /\ stack[i].name \in Names
            BY <1>4, <2>2, Lengths DEF LInv, Unshared, IInv, Base, Entry
        <3>2. \A f \in 1..Len(frames) : frames'[f].variables = frames[f].variables
            BY <1>3
        <3>3. ASSUME stack[i].var # 0, stack[i].name \in Locals,
                     NEW f \in 1..Len(frames')
              PROVE  frames'[f].variables[stack[i].name] # stack[i].var
            <4>1. CASE f \in 1..Len(frames)
                BY <3>1, <3>2, <3>3, <4>1 DEF Pending
            <4>2. CASE f = n
                BY <1>3, <1>5, <3>1, <3>3, <4>2 DEF Pending
            <4>3. QED
                BY <1>3, <4>1, <4>2
        <3>4. ASSUME stack[i].var # 0, stack[i].name \in Locals,
                     NEW j \in 1..Len(stack'), j # i
              PROVE  stack'[j].var # stack[i].var
            <4>1. CASE j \in 1..Len(stack)
                BY <1>4, <3>1, <3>4, <4>1 DEF Pending
            <4>2. CASE j = Len(stack) + 1
                BY <1>4, <3>4, <4>2
            <4>3. QED
                BY <1>4, <4>1, <4>2
        <3>5. QED
            BY <3>1, <3>3, <3>4 DEF Pending
    <2>3. QED
        BY <1>4, <2>1, <2>2
<1>9. Unshared'
    <2> SUFFICES ASSUME NEW f \in 1..Len(frames'), NEW g \in 1..Len(frames'),
                        NEW x \in Locals,
                        frames'[f].outermost = 1, frames'[g].outermost = 1,
                        frames'[f].variables[x] # 0,
                        frames'[f].variables[x] = frames'[g].variables[x]
                 PROVE  f = g
        BY <1>8 DEF Unshared
    <2>1. x \in Names
        BY DEF Names
    <2>2. f # n /\ g # n
        BY <1>2, <1>3, <2>1
    <2>3. f \in 1..Len(frames) /\ g \in 1..Len(frames)
        BY <1>3, <2>2
    <2>4. QED
        BY <1>3, <2>3 DEF LInv, Unshared
<1>10. QED
    BY <1>7, <1>9

(* A new variable is held by its definition alone.                          *)
LEMMA PrivateCreate ==
    ASSUME LInv, NEW x \in Names, NEW global \in BOOLEAN, Create(x, global),
           UNCHANGED frames
    PROVE  OneName' /\ Unshared'
<1> DEFINE w == Len(value) + 1
           e == [frame |-> Ctx, name |-> x, var |-> w, global |-> global]
<1>1. /\ value \in Seq(Values) /\ Nil \in Values /\ Len(value) \in Nat
      /\ Len(value) < MaxVars /\ value' = Append(value, Nil)
    BY Lengths, EvalContextAssumption DEF LInv, IInv, Base, TypeOK, Create
<1>2. Len(value') = w /\ w \in 1..MaxVars /\ w > Len(value)
    BY <1>1, AppendProperties, EvalContextAssumption
<1>3. e \in Entry /\ Push(e) /\ e.var = w /\ e.name = x
    <2>1. Ctx \in 1..MaxFrames
        BY TopType, Lengths, EvalContextAssumption DEF LInv, IInv, Base, TypeOK
    <2>2. QED
        BY <1>2, <2>1 DEF Entry, Create, Defining
<1>4. /\ Len(stack) \in Nat /\ Len(stack') = Len(stack) + 1
      /\ \A i \in 1..Len(stack) : stack'[i] = stack[i]
      /\ stack'[Len(stack) + 1] = e
    <2> HIDE DEF e
    <2>1. QED
        BY <1>3, PushType, Lengths DEF LInv, IInv, Base
<1> HIDE DEF e
<1>5. \A y \in Names : ~Holds(w, y)
    BY <1>1, <1>2 DEF LInv, OneName
<1>6. \A v \in 1..MaxVars, y \in Names :
        Holds(v, y)' => Holds(v, y) \/ (v = w /\ y = x)
    BY <1>3, <1>4 DEF Holds
<1>7. OneName'
    BY <1>1, <1>2, <1>5, <1>6 DEF LInv, OneName
<1>8. ASSUME NEW i \in 1..Len(stack') PROVE Pending(i)'
    <2>1. CASE i = Len(stack) + 1
        <3>1. \A f \in 1..Len(frames) : frames[f].variables[x] # w
            BY <1>5 DEF Holds
        <3>2. \A j \in 1..Len(stack) : stack[j].var # w
            <4>1. \A j \in 1..Len(stack) : stack[j].name \in Names
                BY Lengths DEF LInv, IInv, Base, Entry
            <4>2. QED
                BY <1>5, <4>1 DEF Holds
        <3>3. QED
            BY <1>3, <1>4, <2>1, <3>1, <3>2 DEF Pending
    <2>2. CASE i \in 1..Len(stack)
        <3>1. Pending(i) /\ stack'[i] = stack[i]
            BY <1>4, <2>2 DEF LInv, Unshared
        <3>2. stack[i].var # w
            <4>1. stack[i].name \in Names
                BY <2>2, Lengths DEF LInv, IInv, Base, Entry
            <4>2. QED
                BY <1>5, <2>2, <4>1 DEF Holds
        <3>3. QED
            BY <1>3, <1>4, <3>1, <3>2 DEF Pending
    <2>3. QED
        BY <1>4, <2>1, <2>2
<1>9. QED
    BY <1>7, <1>8 DEF LInv, Unshared

(* The end of a definition hands the instance over to a frame.              *)
LEMMA PrivateSet ==
    ASSUME Globals \cap Locals = {}, LInv, NEW v \in Values, DefineEnd(v)
    PROVE  OneName' /\ Unshared'
<1> DEFINE g == IF Top.global THEN frames[Ctx].outermost ELSE Ctx
           n == Len(stack)
<1>1. /\ Ctx \in 1..Len(frames) /\ Top.name \in Names /\ Top.var \in 0..MaxVars
      /\ Top.var # 0 /\ TypeOK /\ n \in Nat /\ n >= 1 /\ Top = stack[n]
      /\ Len(value) \in Nat
    BY TopType, Lengths DEF LInv, IInv, Base, DefineEnd, Top
<1>2. g \in 1..Len(frames)
    BY <1>1, Lengths DEF LInv, IInv, Base, Shape, Chains
<1>3. /\ Len(frames') = Len(frames)
      /\ frames'[g].variables[Top.name] = Top.var
      /\ \A f \in 1..Len(frames) :
            /\ frames'[f].outermost = frames[f].outermost
            /\ \A x \in Names : f # g \/ x # Top.name =>
                frames'[f].variables[x] = frames[f].variables[x]
    <2>1. \A h \in 1..Len(frames), y \in Names, var \in 0..MaxVars :
            Bind(h, y, var) =>
                /\ Len(frames') = Len(frames)
                /\ frames'[h].variables[y] = var
                /\ \A f \in 1..Len(frames) :
                    /\ frames'[f].outermost = frames[f].outermost
                    /\ \A x \in Names : f # h \/ x # y =>
                        frames'[f].variables[x] = frames[f].variables[x]
        BY <1>1, BindFrames
    <2>2. Bind(g, Top.name, Top.var)
        BY DEF DefineEnd, SetVar
    <2> HIDE DEF g
    <2>3. QED
        BY <1>1, <1>2, <2>1, <2>2
<1>4. n # 1
    BY <1>1 DEF LInv, IInv, Bottom
<1>5. /\ Len(stack') = n - 1
      /\ \A i \in 1..Len(stack') : stack'[i] = stack[i]
    <2>1. \A k \in Nat : k >= 1 /\ k # 1 => k - 1 \in 1..k
        OBVIOUS
    <2>2. n - 1 \in 1..n
        BY <1>1, <1>4, <2>1
    <2>3. stack' = SubSeq(stack, 1, n - 1)
        BY DEF DefineEnd, Pop
    <2>4. QED
        BY <2>2, <2>3, PopType DEF LInv, IInv
<1>6. Len(value') = Len(value)
    <2>1. Top.var \in Nat /\ value' = [value EXCEPT ![Top.var] = v]
        BY <1>1, EvalContextAssumption DEF DefineEnd
    <2>2. QED
        BY <2>1, ValueSet DEF LInv
<1> HIDE DEF g
<1>7. Holds(Top.var, Top.name)
    BY <1>1 DEF Holds
<1>8. \A w \in 1..MaxVars, x \in Names : Holds(w, x)' => Holds(w, x)
    <2> SUFFICES ASSUME NEW w \in 1..MaxVars, NEW x \in Names, Holds(w, x)'
                 PROVE  Holds(w, x)
        OBVIOUS
    <2>1. ASSUME NEW f \in 1..Len(frames), frames'[f].variables[x] = w
          PROVE  Holds(w, x)
        <3>1. CASE f = g /\ x = Top.name
            BY <1>3, <1>7, <2>1, <3>1
        <3>2. CASE f # g \/ x # Top.name
            BY <1>3, <2>1, <3>2 DEF Holds
        <3>3. QED
            BY <3>1, <3>2
    <2>2. ASSUME NEW i \in 1..Len(stack'), stack'[i].var = w, stack'[i].name = x
          PROVE  Holds(w, x)
        BY <1>1, <1>5, <2>2 DEF Holds
    <2>3. QED
        BY <1>3, <2>1, <2>2 DEF Holds
<1>9. OneName'
    BY <1>1, <1>6, <1>8, OneNameStep
<1>10. Top.name \in Locals =>
        /\ g = Ctx /\ Pending(n)
        /\ \A f \in 1..Len(frames) : frames[f].variables[Top.name] # Top.var
        /\ \A j \in 1..Len(stack) : j # n => stack[j].var # Top.var
    <2>1. Allowed(stack[n]) /\ Pending(n)
        BY <1>1 DEF LInv, IInv, Named, Unshared
    <2>2. QED
        BY <1>1, <2>1 DEF g, Allowed, Pending
<1>11. ASSUME NEW i \in 1..Len(stack') PROVE Pending(i)'
    <2>1. /\ i \in 1..n /\ i # n /\ Pending(i) /\ stack'[i] = stack[i]
          /\ stack[i].name \in Names
        BY <1>1, <1>5, Lengths DEF LInv, IInv, Base, Entry, Unshared
    <2>2. ASSUME stack[i].var # 0, stack[i].name \in Locals,
                 NEW f \in 1..Len(frames)
          PROVE  frames'[f].variables[stack[i].name] # stack[i].var
        <3>1. CASE f = g /\ stack[i].name = Top.name
            BY <1>1, <1>3, <1>10, <2>1, <2>2, <3>1
        <3>2. CASE f # g \/ stack[i].name # Top.name
            BY <1>3, <2>1, <2>2, <3>2 DEF Pending
        <3>3. QED
            BY <3>1, <3>2
    <2>3. ASSUME stack[i].var # 0, stack[i].name \in Locals,
                 NEW j \in 1..Len(stack'), j # i
          PROVE  stack'[j].var # stack[i].var
        <3>1. j \in 1..Len(stack) /\ stack'[j] = stack[j]
            BY <1>1, <1>5, <2>3, Lengths
        <3>2. Pending(i)
            BY <2>1
        <3>3. stack[j].var # stack[i].var
            BY <2>3, <3>1, <3>2, Zenon DEF Pending
        <3>4. QED
            BY <3>1, <3>3
    <2>4. QED
        BY <1>3, <2>1, <2>2, <2>3 DEF Pending
<1>12. Unshared'
    <2> SUFFICES ASSUME NEW f \in 1..Len(frames), NEW h \in 1..Len(frames),
                        NEW x \in Locals,
                        frames[f].outermost = 1, frames[h].outermost = 1,
                        frames'[f].variables[x] # 0,
                        frames'[f].variables[x] = frames'[h].variables[x]
                 PROVE  f = h
        BY <1>3, <1>11 DEF Unshared
    <2>1. x \in Names
        BY DEF Names
    <2>2. CASE x # Top.name \/ (f # g /\ h # g)
        BY <1>3, <2>1, <2>2 DEF LInv, Unshared
    <2>3. CASE x = Top.name /\ (f = g \/ h = g)
        BY <1>3, <1>10, <2>1, <2>3
    <2>4. QED
        BY <2>2, <2>3
<1>13. QED
    BY <1>9, <1>12

LEMMA PrivateStep ==
    ASSUME Globals \cap Locals = {}, LInv, [Next]_vars
    PROVE  LInv'
<1>1. IInv' /\ Bindings'
    BY StepInvariant, BindingsStep DEF LInv
<1>2. /\ Ctx \in 1..Len(frames) /\ frames[Ctx] \in Frame /\ Len(frames) \in Nat
      /\ Len(stack) \in Nat /\ Len(stack) >= 1 /\ TypeOK
    BY TopType, Lengths DEF LInv, IInv, Base
<1>3. ASSUME NEW f \in 1..Len(frames), NEW h \in 1..Len(frames),
             NEW loose \in BOOLEAN, AddFrame(f, h, loose)
      PROVE  OneName' /\ Unshared'
    <2> DEFINE n == Len(frames) + 1
               r == [chain |-> frames[f].chain \cup {n},
                     outermost |-> frames[f].outermost,
                     scope |-> frames[h].scope \cup {n},
                     variables |-> [x \in Names |-> 0],
                     loose |-> loose]
    <2>1. n <= MaxFrames /\ frames' = Append(frames, r) /\ Enter(n)
          /\ UNCHANGED value
        BY <1>3 DEF AddFrame
    <2>2. r \in Frame
        BY <1>3, FrameType DEF LInv
    <2>3. r.variables = [x \in Names |-> 0]
        OBVIOUS
    <2> HIDE DEF r
    <2>4. QED
        BY <2>1, <2>2, <2>3, PrivateGrow
<1>4. ASSUME EvalRemote PROVE OneName' /\ Unshared'
    <2> DEFINE n == Len(frames) + 1
               r == [chain |-> {n}, outermost |-> n,
                     scope |-> (frames[Ctx].scope \ {Ctx}) \cup {n},
                     variables |-> frames[Ctx].variables,
                     loose |-> TRUE]
    <2>1. n <= MaxFrames /\ frames' = Append(frames, r) /\ Enter(n)
          /\ UNCHANGED value
        BY <1>4 DEF EvalRemote
    <2>2. r \in Frame
        BY <1>2, <2>1, EvalContextAssumption DEF Frame
    <2>3. r.outermost # 1 /\ r.variables = frames[Ctx].variables
        BY <1>2, EvalContextAssumption
    <2> HIDE DEF r
    <2>4. QED
        BY <2>1, <2>2, <2>3, PrivateGrow
<1>5. ASSUME NEW x \in Names, DefineBegin(x) \/ DefineGlobalNew(x)
      PROVE  OneName' /\ Unshared'
    BY <1>5, PrivateCreate DEF DefineBegin, DefineGlobalNew
<1>6. ASSUME NEW x \in Names, DefineGlobalFound(x)
      PROVE  OneName' /\ Unshared'
    <2>1. PICK var \in GetVar(Ctx, x) : Defining(x, var, TRUE)
        BY <1>6 DEF DefineGlobalFound
    <2>2. PICK h \in Nearest(frames[Ctx].chain, x) :
            var = frames[h].variables[x]
        BY <2>1 DEF GetVar
    <2>3. h \in frames[Ctx].chain
        BY <2>2 DEF Nearest
    <2>4. h \in 1..Len(frames)
        BY <1>2, <2>3 DEF LInv, IInv, Shape, Chains
    <2>5. Holds(var, x) /\ x \notin Locals /\ var \in 0..MaxVars
        <3>1. frames[h] \in Frame
            BY <1>2, <2>4, Lengths
        <3>2. frames[h].variables[x] \in 0..MaxVars
            BY <3>1 DEF Frame
        <3>3. QED
            BY <1>6, <2>2, <2>4, <3>2 DEF Holds, DefineGlobalFound
    <2> DEFINE e == [frame |-> Ctx, name |-> x, var |-> var, global |-> TRUE]
    <2>6. e \in Entry /\ e.var = var /\ e.name = x /\ Push(e)
        BY <1>2, <2>1, <2>5, EvalContextAssumption DEF Entry, Defining, TypeOK
    <2> HIDE DEF e
    <2>7. UNCHANGED <<frames, value>>
        BY <1>6 DEF DefineGlobalFound
    <2>8. QED
        BY <2>5, <2>6, <2>7, PrivatePush
<1>7. ASSUME NEW v \in Values, DefineEnd(v)
      PROVE  OneName' /\ Unshared'
    BY <1>7, PrivateSet
<1>8. ASSUME NEW x \in Names, NEW v \in Values, Store(x, v)
      PROVE  OneName' /\ Unshared'
    <2>1. PICK var \in GetVar(Ctx, x) : value' = [value EXCEPT ![var] = v]
        BY <1>8 DEF Store
    <2>2. var \in Nat
        <3>1. \A f \in 1..Len(frames) : GetVar(f, x) \subseteq 1..MaxVars
            BY Found DEF LInv
        <3>2. QED
            BY <1>2, <2>1, <3>1, EvalContextAssumption
    <2>3. Len(value') = Len(value)
        BY <2>1, <2>2, ValueSet DEF LInv
    <2>4. QED
        BY <1>8, <2>3, PrivatePop DEF Store
<1>9. ASSUME NEW h \in DOMAIN frames, CallFunction(h) \/ CallReference(h)
      PROVE  OneName' /\ Unshared'
    <2>1. h \in 1..Len(frames) /\ frames[h].loose \in BOOLEAN
        BY <1>2, Lengths DEF Frame
    <2>2. QED
        BY <1>2, <1>3, <1>9, <2>1 DEF CallFunction, CallReference
<1>10. ASSUME NEW x \in Names, Unbound(x)
       PROVE  OneName' /\ Unshared'
    BY <1>2, <1>10, PrivatePop DEF Unbound
<1>11. ASSUME Return PROVE OneName' /\ Unshared'
    <2>1. Len(stack) - 1 \in 1..Len(stack)
        BY <1>2, <1>11 DEF Return
    <2>2. stack' = SubSeq(stack, 1, Len(stack) - 1) /\ UNCHANGED <<frames, value>>
        BY <1>11 DEF Return, Pop
    <2>3. QED
        BY <2>1, <2>2, PrivatePop
<1>12. ASSUME UNCHANGED vars PROVE OneName' /\ Unshared'
    BY <1>12, PrivatePop DEF vars
<1>13. OneName' /\ Unshared'
    BY <1>4, <1>5, <1>6, <1>7, <1>8, <1>9, <1>10, <1>11, <1>12 DEF Next
<1>14. QED
    BY <1>1, <1>13 DEF LInv

(* A write to a local variable of the program's evaluation comes from the   *)
(* frames its function is nested in.                                        *)
LEMMA PrivateWrite ==
    ASSUME Globals \cap Locals = {}, LInv, [Next]_vars,
           NEW f \in 1..Len(frames), NEW x \in Locals,
           ~frames[f].loose, ~frames[Ctx].loose,
           frames[f].variables[x] # 0,
           value'[frames[f].variables[x]] # value[frames[f].variables[x]]
    PROVE  f \in frames[Ctx].scope
<1> DEFINE w == frames[f].variables[x]
<1>1. /\ Ctx \in 1..Len(frames) /\ Len(stack) \in 1..Len(stack)
      /\ Top \in Entry /\ Len(value) \in Nat /\ value \in Seq(Values)
      /\ Len(frames) \in Nat
    BY TopType, Lengths DEF LInv, IInv, Base, TypeOK
<1>2. x \in Names /\ Holds(w, x)
    BY DEF Holds, Names
<1>3. w \in 1..MaxVars
    <2>1. frames[f] \in Frame
        BY Lengths DEF LInv, IInv, Base
    <2>2. w \in 0..MaxVars
        BY <1>2, <2>1 DEF Frame
    <2>3. QED
        BY <2>2, EvalContextAssumption
<1>4. w \in 1..Len(value)
    BY <1>1, <1>2, <1>3, EvalContextAssumption DEF LInv, OneName
<1> HIDE DEF w
<1>5. value'[w] # value[w]
    BY DEF w
<1>6. ASSUME NEW y \in Names, NEW v \in Values, Store(y, v)
      PROVE  f \in frames[Ctx].scope
    <2>1. PICK var \in GetVar(Ctx, y) : value' = [value EXCEPT ![var] = v]
        BY <1>6 DEF Store
    <2>2. var = w
        BY <1>4, <1>5, <2>1
    <2>3. PICK g \in Nearest(frames[Ctx].chain, y) :
            var = frames[g].variables[y]
        BY <2>1 DEF GetVar
    <2>4. g \in frames[Ctx].chain
        BY <2>3 DEF Nearest
    <2>5. /\ g \in 1..Len(frames)
          /\ frames[g].outermost = 1 /\ frames[f].outermost = 1
        BY <1>1, <2>4 DEF LInv, IInv, Shape, Chains, Ordered
    <2>6. y = x
        BY <1>2, <1>3, <2>2, <2>3, <2>5 DEF LInv, OneName, Holds
    <2>7. g = f
        <3>1. frames[f].variables[x] # 0
            OBVIOUS
        <3>2. frames[f].variables[x] = frames[g].variables[x]
            BY <2>2, <2>3, <2>6 DEF w
        <3>3. QED
            BY <2>5, <3>1, <3>2 DEF LInv, Unshared
    <2>8. Nearest(frames[Ctx].chain, y) = Find(Ctx, y)
        <3>1. LookupIsLexical
            BY LookupLemma DEF LInv
        <3>2. DOMAIN frames = 1..Len(frames)
            BY Lengths DEF LInv, IInv, Base
        <3>3. QED
            BY <1>1, <1>6, <3>1, <3>2 DEF LookupIsLexical, Store
    <2>9. QED
        BY <2>3, <2>7, <2>8 DEF Find, Nearest
<1>7. ASSUME NEW v \in Values, DefineEnd(v)
      PROVE  FALSE
    <2>1. Top.var = w
        BY <1>4, <1>5, <1>7 DEF DefineEnd
    <2>2. Holds(w, Top.name) /\ Top.name \in Names
        BY <1>1, <2>1 DEF Holds, Top, Entry
    <2>3. Top.name = x
        BY <1>2, <1>3, <2>2 DEF LInv, OneName
    <2>4. Pending(Len(stack))
        BY <1>1 DEF LInv, Unshared
    <2>5. frames[f].variables[x] # w
        BY <1>7, <2>1, <2>3, <2>4 DEF Pending, Top, DefineEnd
    <2>6. QED
        BY <2>5 DEF w
<1>8. ASSUME NEW y \in Names, NEW global \in BOOLEAN, Create(y, global)
      PROVE  FALSE
    <2>1. Nil \in Values /\ value' = Append(value, Nil)
        BY <1>8, EvalContextAssumption DEF Create
    <2>2. value'[w] = value[w]
        BY <1>1, <1>4, <2>1, AppendProperties
    <2>3. QED
        BY <1>5, <2>2
<1>9. value' # value
    BY <1>5
<1>10. QED
    BY <1>6, <1>7, <1>8, <1>9
       DEF Next, vars, DefineBegin, DefineGlobalNew, DefineGlobalFound, Unbound,
           CallFunction, CallReference, AddFrame, EvalRemote, Return

(* Local variables are out of reach of callees, of other functions and of   *)
(* other calls of the same function, in every program.                      *)
THEOREM LocalsStayPrivate ==
    ASSUME Globals \cap Locals = {}
    PROVE  Spec => LocalsPrivate
<1> DEFINE Keep ==
        \A f \in DOMAIN frames, x \in Locals :
            LET var == frames[f].variables[x]
            IN  /\ ~frames[f].loose /\ ~frames[Ctx].loose
                /\ var # 0 /\ value'[var] # value[var]
                => f \in frames[Ctx].scope
<1>1. Init => LInv
    BY LInvInit
<1>2. LInv /\ [Next]_vars => LInv'
    BY PrivateStep
<1>3. LInv /\ [Next]_vars => [Keep]_vars
    <2>1. LInv => DOMAIN frames = 1..Len(frames)
        BY Lengths DEF LInv, IInv, Base
    <2>2. LInv /\ [Next]_vars => Keep
        BY <2>1, PrivateWrite
    <2>3. QED
        BY <2>2
<1>4. QED
    BY <1>1, <1>2, <1>3, PTL DEF Spec, LocalsPrivate

-----------------------------------------------------------------------------
(* Calls and arguments.                                                     *)

Codes == Functions \cup {Program}

(* What follows from the text for the types of its parts.                   *)
LEMMA Text ==
    /\ Lambdas \subseteq Functions /\ Applied \subseteq Functions
    /\ Program \notin Functions
    /\ \A g \in Functions :
        /\ Parent[g] \in Codes
        /\ Own[g] \in Nat /\ Optional[g] \in Nat /\ Optional[g] <= Own[g]
        /\ g \in Applied => Own[g] > Optional[g]
        /\ Parent[g] # Program => Own[Parent[g]] > Optional[Parent[g]]
    /\ Mapped \subseteq Codes \X Lambdas
    /\ MaxCalls \in Nat \ {0}
BY FunctionCallsAssumption DEF Codes

(* Any functions of the text have one that is not in another of them.       *)
LEMMA Outermost ==
    \A fs \in SUBSET Functions : fs # {} => \E g \in fs : Parent[g] \notin fs
BY FunctionCallsAssumption

-----------------------------------------------------------------------------
(* The numbers the compiler gives are well defined: the functions around a  *)
(* function are numbered before it.                                         *)

Numbered(D, f) ==
    /\ D \subseteq Codes
    /\ \A c \in D : c # Program /\ Parent[c] # Program => Parent[c] \in D
    /\ \A c \in D : f[c] = IF c = Program \/ Parent[c] = Program THEN 0
                           ELSE f[Parent[c]] + Own[Parent[c]]

(* Every function can be numbered,                                          *)
LEMMA NumberExists ==
    \A c \in Codes : \E D, f : c \in D /\ Numbered(D, f)
<1> DEFINE bad == {c \in Functions : ~ \E D, f : c \in D /\ Numbered(D, f)}
<1>1. \E D, f : Program \in D /\ Numbered(D, f)
  <2>1. Numbered({Program}, [c \in {Program} |-> 0])
    BY DEF Numbered, Codes
  <2>2. QED
    BY <2>1
<1>2. ASSUME bad # {} PROVE FALSE
  <2>1. PICK g \in bad : Parent[g] \notin bad
    BY <1>2, Outermost
  <2>2. g \in Functions /\ Parent[g] \in Codes
    BY <2>1, Text
  <2>3. PICK D, f : Parent[g] \in D /\ Numbered(D, f)
    BY <1>1, <2>1, <2>2 DEF Codes
  <2>4. g \notin D
    BY <2>1, <2>3
  <2> DEFINE n == IF Parent[g] = Program THEN 0 ELSE f[Parent[g]] + Own[Parent[g]]
             h == [c \in D \cup {g} |-> IF c = g THEN n ELSE f[c]]
  <2>5. Numbered(D \cup {g}, h)
    <3>1. g # Program /\ g # Parent[g]
      BY <2>2, <2>3, <2>4, Text
    <3>2. ASSUME NEW c \in D \cup {g}
          PROVE  /\ c # Program /\ Parent[c] # Program => Parent[c] \in D
                 /\ h[c] = IF c = Program \/ Parent[c] = Program THEN 0
                           ELSE h[Parent[c]] + Own[Parent[c]]
      <4>1. CASE c = g
        BY <2>3, <2>4, <3>1, <4>1
      <4>2. CASE c # g
        <5>1. c \in D
          BY <4>2
        <5>2. c # Program /\ Parent[c] # Program => Parent[c] \in D
          BY <2>3, <5>1 DEF Numbered
        <5>3. f[c] = IF c = Program \/ Parent[c] = Program THEN 0
                     ELSE f[Parent[c]] + Own[Parent[c]]
          BY <2>3, <5>1 DEF Numbered
        <5>4. h[c] = f[c]
          BY <4>2
        <5>5. c # Program /\ Parent[c] # Program => h[Parent[c]] = f[Parent[c]]
          BY <2>4, <5>2
        <5>6. QED
          BY <5>2, <5>3, <5>4, <5>5
      <4>3. QED
        BY <4>1, <4>2
    <3>3. D \cup {g} \subseteq Codes
      BY <2>2, <2>3 DEF Numbered, Codes
    <3> HIDE DEF h
    <3>4. QED
      BY <3>2, <3>3 DEF Numbered
  <2>6. QED
    BY <2>1, <2>5
<1>3. QED
  BY <1>1, <1>2 DEF Codes

(* and in one way.                                                          *)
LEMMA NumberUnique ==
    \A c \in Codes : \A D, f, E, h :
        c \in D /\ Numbered(D, f) /\ c \in E /\ Numbered(E, h) => f[c] = h[c]
<1> DEFINE Two(c) == \E D, f, E, h :
        /\ c \in D /\ Numbered(D, f) /\ c \in E /\ Numbered(E, h)
        /\ f[c] # h[c]
    bad == {c \in Functions : Two(c)}
<1>1. ~Two(Program)
  BY DEF Numbered
<1>2. ASSUME bad # {} PROVE FALSE
  <2>1. PICK g \in bad : Parent[g] \notin bad
    BY <1>2, Outermost
  <2>2. g \in Functions /\ Parent[g] \in Codes /\ g # Program
    BY <2>1, Text
  <2>3. PICK D, f, E, h :
        /\ g \in D /\ Numbered(D, f) /\ g \in E /\ Numbered(E, h)
        /\ f[g] # h[g]
    BY <2>1
  <2>4. Parent[g] # Program
    BY <2>3 DEF Numbered
  <2>5. Parent[g] \in D /\ Parent[g] \in E
    BY <2>2, <2>3, <2>4 DEF Numbered
  <2>6. f[Parent[g]] = h[Parent[g]]
    <3>1. Parent[g] \in Functions
      BY <2>2, <2>4 DEF Codes
    <3>2. QED
      BY <2>1, <2>3, <2>5, <3>1
  <2>7. /\ f[g] = f[Parent[g]] + Own[Parent[g]]
        /\ h[g] = h[Parent[g]] + Own[Parent[g]]
    BY <2>2, <2>3, <2>4 DEF Numbered
  <2>8. QED
    BY <2>3, <2>6, <2>7
<1>3. QED
  <2> HIDE DEF Two
  <2>1. \A c \in Codes : ~Two(c)
    BY <1>1, <1>2 DEF Codes
  <2>2. QED
    BY <2>1 DEF Two

(* base_arg_num is what environment::base_arg_num computes.                 *)
LEMMA BaseArgNumDef ==
    \A c \in Codes :
        BaseArgNum[c] = IF c = Program \/ Parent[c] = Program THEN 0
                        ELSE BaseArgNum[Parent[c]] + Own[Parent[c]]
<1> DEFINE Value(c) == CHOOSE v : \E D, f :
                            c \in D /\ Numbered(D, f) /\ v = f[c]
           F == [c \in Codes |-> Value(c)]
<1>1. ASSUME NEW c \in Codes, NEW D, NEW f, c \in D, Numbered(D, f)
      PROVE  F[c] = f[c]
  <2>1. \E v : \E E, h : c \in E /\ Numbered(E, h) /\ v = h[c]
    BY <1>1
  <2>2. \E E, h : c \in E /\ Numbered(E, h) /\ Value(c) = h[c]
    BY <2>1
  <2>3. QED
    <3> HIDE DEF Value
    <3>1. QED
      BY <1>1, <2>2, NumberUnique
<1>2. ASSUME NEW c \in Codes
      PROVE  F[c] = IF c = Program \/ Parent[c] = Program THEN 0
                    ELSE F[Parent[c]] + Own[Parent[c]]
  <2>1. PICK D, f : c \in D /\ Numbered(D, f)
    BY NumberExists
  <2>2. F[c] = f[c]
    BY <1>1, <2>1
  <2>3. f[c] = IF c = Program \/ Parent[c] = Program THEN 0
               ELSE f[Parent[c]] + Own[Parent[c]]
    BY <2>1 DEF Numbered
  <2>4. ASSUME c # Program, Parent[c] # Program
        PROVE  F[Parent[c]] = f[Parent[c]]
    <3>1. Parent[c] \in D /\ Parent[c] \in Codes
      BY <2>1, <2>4 DEF Numbered
    <3>2. QED
      BY <1>1, <2>1, <3>1
  <2> HIDE DEF F
  <2>5. QED
    BY <2>2, <2>3, <2>4
<1> HIDE DEF Value
<1>3. F = [c \in Codes |-> IF c = Program \/ Parent[c] = Program THEN 0
                           ELSE F[Parent[c]] + Own[Parent[c]]]
  <2> DEFINE G == [c \in Codes |-> IF c = Program \/ Parent[c] = Program THEN 0
                           ELSE F[Parent[c]] + Own[Parent[c]]]
  <2>1. \A c \in Codes : F[c] = G[c]
    BY <1>2
  <2>2. QED
    BY <2>1
<1>4. BaseArgNum =
        [c \in Codes |-> IF c = Program \/ Parent[c] = Program THEN 0
                         ELSE BaseArgNum[Parent[c]] + Own[Parent[c]]]
  <2> HIDE DEF F
  <2>1. QED
    BY <1>3 DEF BaseArgNum, Codes
<1>5. QED
  BY <1>4

(* They are numbers.                                                        *)
LEMMA BaseArgNumType == \A c \in Codes : BaseArgNum[c] \in Nat
<1> DEFINE bad == {c \in Functions : BaseArgNum[c] \notin Nat}
<1>1. BaseArgNum[Program] = 0
  BY BaseArgNumDef DEF Codes
<1>2. ASSUME bad # {} PROVE FALSE
  <2>1. PICK g \in bad : Parent[g] \notin bad
    BY <1>2, Outermost
  <2>2. g \in Functions /\ Parent[g] \in Codes /\ g \in Codes /\ g # Program
    BY <2>1, Text DEF Codes
  <2>3. BaseArgNum[g] = IF Parent[g] = Program THEN 0
                        ELSE BaseArgNum[Parent[g]] + Own[Parent[g]]
    BY <2>2, BaseArgNumDef
  <2>4. CASE Parent[g] = Program
    BY <2>1, <2>3, <2>4
  <2>5. CASE Parent[g] # Program
    <3>1. Parent[g] \in Functions
      BY <2>2, <2>5 DEF Codes
    <3>2. BaseArgNum[Parent[g]] \in Nat /\ Own[Parent[g]] \in Nat
      BY <2>1, <3>1, Text
    <3>3. QED
      BY <2>1, <2>3, <2>5, <3>2
  <2>6. QED
    BY <2>4, <2>5
<1>3. QED
  BY <1>1, <1>2 DEF Codes

-----------------------------------------------------------------------------
(* Sequences of values of any kind.                                         *)

IsSeq(s) == Len(s) \in Nat /\ s = [i \in 1..Len(s) |-> s[i]]

(* Sequences in the sense of the library, and the other way round.          *)
LEMMA SeqIsSeq == \A S : \A s \in Seq(S) : IsSeq(s)
BY DEF IsSeq

LEMMA IsSeqSeq ==
    \A s, S : IsSeq(s) /\ (\A i \in 1..Len(s) : s[i] \in S) => s \in Seq(S)
<1> SUFFICES ASSUME NEW s, NEW S, IsSeq(s), \A i \in 1..Len(s) : s[i] \in S
    PROVE  s \in Seq(S)
  OBVIOUS
<1> DEFINE n == Len(s)
<1>1. n \in Nat /\ s = [i \in 1..n |-> s[i]] /\ \A i \in 1..n : s[i] \in S
  BY DEF IsSeq
<1> HIDE DEF n
<1>2. s \in [1..n -> S]
  BY <1>1
<1>3. QED
  BY <1>1, <1>2

(* Adding an element.                                                       *)
LEMMA AppendIsSeq ==
    \A s, e : IsSeq(s) =>
        /\ IsSeq(Append(s, e)) /\ Len(Append(s, e)) = Len(s) + 1
        /\ DOMAIN s = 1..Len(s) /\ DOMAIN Append(s, e) = 1..(Len(s) + 1)
        /\ \A i \in 1..Len(s) : Append(s, e)[i] = s[i]
        /\ Append(s, e)[Len(s) + 1] = e
<1> SUFFICES ASSUME NEW s, NEW e, IsSeq(s)
    PROVE  /\ IsSeq(Append(s, e)) /\ Len(Append(s, e)) = Len(s) + 1
           /\ DOMAIN s = 1..Len(s) /\ DOMAIN Append(s, e) = 1..(Len(s) + 1)
           /\ \A i \in 1..Len(s) : Append(s, e)[i] = s[i]
           /\ Append(s, e)[Len(s) + 1] = e
  OBVIOUS
<1> DEFINE S == {s[i] : i \in 1..Len(s)} \cup {e}
<1>1. e \in S /\ \A i \in 1..Len(s) : s[i] \in S
  OBVIOUS
<1> HIDE DEF S
<1>2. s \in Seq(S)
  BY <1>1, IsSeqSeq
<1>3. Append(s, e) \in Seq(S)
  BY <1>1, <1>2
<1>4. IsSeq(Append(s, e))
  BY <1>3, SeqIsSeq
<1>5. QED
  BY <1>1, <1>2, <1>3, <1>4

(* Joining two.                                                             *)
LEMMA ConcatIsSeq ==
    \A s, t : IsSeq(s) /\ IsSeq(t) =>
        /\ IsSeq(s \o t) /\ Len(s \o t) = Len(s) + Len(t)
        /\ \A i \in 1..Len(s) : (s \o t)[i] = s[i]
        /\ \A i \in 1..Len(t) : (s \o t)[Len(s) + i] = t[i]
<1> SUFFICES ASSUME NEW s, NEW t, IsSeq(s), IsSeq(t)
    PROVE  /\ IsSeq(s \o t) /\ Len(s \o t) = Len(s) + Len(t)
           /\ \A i \in 1..Len(s) : (s \o t)[i] = s[i]
           /\ \A i \in 1..Len(t) : (s \o t)[Len(s) + i] = t[i]
  OBVIOUS
<1> DEFINE S == {s[i] : i \in 1..Len(s)} \cup {t[i] : i \in 1..Len(t)}
<1>1. /\ \A i \in 1..Len(s) : s[i] \in S
      /\ \A i \in 1..Len(t) : t[i] \in S
  OBVIOUS
<1> HIDE DEF S
<1>2. s \in Seq(S) /\ t \in Seq(S)
  BY <1>1, IsSeqSeq
<1>3. /\ s \o t \in Seq(S) /\ Len(s \o t) = Len(s) + Len(t)
      /\ \A i \in 1..(Len(s) + Len(t)) :
            (s \o t)[i] = IF i <= Len(s) THEN s[i] ELSE t[i - Len(s)]
  BY <1>2, ConcatProperties
<1>4. Len(s) \in Nat /\ Len(t) \in Nat
  BY DEF IsSeq
<1>5. ASSUME NEW i \in 1..Len(s) PROVE (s \o t)[i] = s[i]
  BY <1>3, <1>4
<1>6. ASSUME NEW i \in 1..Len(t) PROVE (s \o t)[Len(s) + i] = t[i]
  <2> DEFINE k == Len(s) + i
  <2>1. k \in 1..(Len(s) + Len(t)) /\ ~(k <= Len(s)) /\ k - Len(s) = i
    BY <1>4
  <2> HIDE DEF k
  <2>2. (s \o t)[k] = t[k - Len(s)]
    BY <1>3, <2>1
  <2>3. QED
    BY <2>1, <2>2 DEF k
<1>7. IsSeq(s \o t)
  BY <1>3, SeqIsSeq
<1>8. QED
  BY <1>3, <1>5, <1>6, <1>7

(* Changing one.                                                            *)
LEMMA ExceptIsSeq ==
    \A s, e : \A k \in 1..Len(s) : IsSeq(s) =>
        /\ IsSeq([s EXCEPT ![k] = e]) /\ Len([s EXCEPT ![k] = e]) = Len(s)
        /\ \A i \in 1..Len(s) :
            [s EXCEPT ![k] = e][i] = IF i = k THEN e ELSE s[i]
<1> SUFFICES ASSUME NEW s, NEW e, NEW k \in 1..Len(s), IsSeq(s)
    PROVE  /\ IsSeq([s EXCEPT ![k] = e]) /\ Len([s EXCEPT ![k] = e]) = Len(s)
           /\ \A i \in 1..Len(s) :
                [s EXCEPT ![k] = e][i] = IF i = k THEN e ELSE s[i]
  OBVIOUS
<1> DEFINE S == {s[i] : i \in 1..Len(s)} \cup {e}
<1>1. e \in S /\ \A i \in 1..Len(s) : s[i] \in S
  OBVIOUS
<1> HIDE DEF S
<1>2. s \in Seq(S)
  BY <1>1, IsSeqSeq
<1>3. /\ [s EXCEPT ![k] = e] \in Seq(S)
      /\ Len([s EXCEPT ![k] = e]) = Len(s)
      /\ \A i \in 1..Len(s) :
            [s EXCEPT ![k] = e][i] = IF i = k THEN e ELSE s[i]
  BY <1>1, <1>2
<1>4. QED
  BY <1>3, SeqIsSeq

-----------------------------------------------------------------------------
(* What holds of every call.  cs is the sequence of calls.                  *)

(* Keeping arguments once: a function gets those of the functions around it *)
(* when it is made, and nothing adds others to them.  Naming a function     *)
(* would, in a variable that a function defines and in a lambda expression. *)
KeepsOnce ==
    /\ Assigned \subseteq {Program} \X Functions
    /\ \A m \in Passed \cup Returned : m[1] \in Lambdas => m[2] \in Lambdas

(* Lambda expressions that are not called where they are mentioned: the     *)
(* program returns and passes none, and neither a function that is called   *)
(* as an argument nor another function evaluates the one it should return.  *)
MentionsOnly ==
    /\ \A m \in Passed \cup Returned : m[2] \in Lambdas => m[1] # Program
    /\ \A m \in Returned, p \in Passed :
        m[2] \in Lambdas /\ p[2] = m[1] => m[1] \in Lambdas

StartsWith(t, s) == Len(s) <= Len(t) /\ \A i \in 1..Len(s) : t[i] = s[i]

(* The call of the function around that of call n.                          *)
HomeIn(cs, n) == cs[n].scope[Parent[cs[n].code]]

AroundIn(cs, n) == {cs[n].scope[g] : g \in DOMAIN cs[n].scope \ {Program}}

FullyCalledIn(cs, n) ==
    /\ cs[n].called
    /\ \A i \in DOMAIN cs[n].meant : cs[n].meant[i].kind # "default"

(* The calls a call can name are earlier ones; they can name no others, and *)
(* what they keep it keeps too.                                             *)
Enclosed(cs, n) ==
    \A c \in DOMAIN cs[n].scope :
        /\ c \in Codes
        /\ cs[n].scope[c] \in 1..n
        /\ cs[cs[n].scope[c]].code = c
        /\ StartsWith(cs[n].params, cs[cs[n].scope[c]].params)
        /\ \A d \in DOMAIN cs[cs[n].scope[c]].scope :
            /\ d \in DOMAIN cs[n].scope
            /\ cs[n].scope[d] = cs[cs[n].scope[c]].scope[d]

(* Only the first call is that of the program.                              *)
InPlace(cs, n) ==
    /\ cs[n].code \in DOMAIN cs[n].scope /\ cs[n].scope[cs[n].code] = n
    /\ n = 1 => /\ cs[n].code = Program /\ DOMAIN cs[n].scope = {Program}
               /\ cs[n].params = <<>>
    /\ n # 1 => /\ cs[n].code \in Functions
               /\ Parent[cs[n].code] \in DOMAIN cs[n].scope
               /\ HomeIn(cs, n) \in 1..(n - 1)

(* Its own arguments come after those of the functions around it.           *)
OwnArguments(r, k) ==
    /\ Len(r.params) \in k..(k + Own[r.code])
    /\ r.meant = [i \in 1..Own[r.code] |->
                    IF k + i <= Len(r.params) THEN r.params[k + i]
                    ELSE Default(r.code, i)]
    /\ r.called => Len(r.params) >= k + Own[r.code] - Optional[r.code]

Given(cs, n) ==
    /\ IsSeq(cs[n].params)
    /\ n # 1 => OwnArguments(cs[n], Len(cs[HomeIn(cs, n)].params))

(* There are as many as the compiler has numbered, if none was left out.    *)
Counted(cs, n) ==
    n # 1 =>
        /\ Len(cs[n].params) <= ArgNum(cs[n].code, Own[cs[n].code])
        /\ (\A m \in AroundIn(cs, n) : FullyCalledIn(cs, m)) =>
            Len(cs[n].params) = ArgNum(cs[n].code, Own[cs[n].code])

(* Functions with a name keep no arguments when they are mentioned, and     *)
(* return lambda expressions, except when called as an argument.            *)
Moded(cs, n) ==
    /\ cs[n].mode \subseteq {DontWrap, DontEvaluateLambdas}
    /\ DontWrap \notin cs[n].mode => cs[n].code \in Lambdas \cup {Program}
    /\ DontEvaluateLambdas \notin cs[n].mode =>
        \/ cs[n].code \in Lambdas \cup {Program}
        \/ \E p \in Passed : p[2] = cs[n].code

(* A function as a value keeps exactly the arguments of the call it was     *)
(* made in, which is one of the code it is written in.                      *)
IsFunction(cs, f) ==
    /\ f = Function(f.code, f.bound, f.direct, f.home)
    /\ f.code \in Functions
    /\ f.direct <=> f.code \in Lambdas
    /\ f.home \in 1..Len(cs)
    /\ cs[f.home].code = Parent[f.code]
    /\ f.bound = cs[f.home].params

WasPassed(f) ==
    \E c \in Codes : <<c, f.code>> \in Passed /\ (f.bound # <<>> => c # Program)

Argued(cs, n) ==
    \A i \in 1..Len(cs[n].params) :
        cs[n].params[i].kind = "function" =>
            IsFunction(cs, cs[n].params[i]) /\ WasPassed(cs[n].params[i])

(* Functions that run without having been called.                           *)
RunsUncalled(g) ==
    /\ Parent[g] # Program
    /\ \/ \E c \in Functions : <<c, g>> \in Passed
       \/ {g, Parent[g]} \subseteq Lambdas

Justified(cs, n) ==
    /\ cs[n].called \in BOOLEAN
    /\ cs[n].called \/ (MentionsOnly => RunsUncalled(cs[n].code))

Made(cs, n) ==
    /\ Enclosed(cs, n) /\ InPlace(cs, n) /\ Given(cs, n) /\ Counted(cs, n)
    /\ Moded(cs, n) /\ Argued(cs, n) /\ Justified(cs, n)

(* The functions it has defined, and those in its variables.                *)
Fields == {"code", "scope", "params", "mode", "meant", "called", "functions",
           "held"}

HoldsFunctions(cs, n) ==
    /\ DOMAIN cs[n] = Fields
    /\ \A g \in DOMAIN cs[n].functions :
        /\ g \notin Lambdas
        /\ IsFunction(cs, cs[n].functions[g]) /\ cs[n].functions[g].code = g
    /\ \A f \in cs[n].held : IsFunction(cs, f)

Runs(cs, rn) ==
    /\ rn \in Seq(1..Len(cs)) /\ Len(rn) > 0
    /\ rn[1] = 1
    /\ \A k \in 2..Len(rn) : rn[k - 1] < rn[k]

AllMade(cs) ==
    /\ IsSeq(cs) /\ Len(cs) \in 1..MaxCalls
    /\ \A n \in 1..Len(cs) : Made(cs, n)

CallInv ==
    /\ AllMade(calls)
    /\ \A n \in 1..Len(calls) : HoldsFunctions(calls, n)
    /\ Runs(calls, running)

-----------------------------------------------------------------------------
(* ds has the calls of cs, and maybe more.                                  *)
MoreCalls(ds, cs) ==
    /\ IsSeq(ds) /\ Len(cs) <= Len(ds)
    /\ \A n \in 1..Len(cs) :
        /\ ds[n].code = cs[n].code /\ ds[n].scope = cs[n].scope
        /\ ds[n].params = cs[n].params /\ ds[n].mode = cs[n].mode
        /\ ds[n].meant = cs[n].meant /\ ds[n].called = cs[n].called

(* A function stays one,                                                    *)
LEMMA FunctionStays ==
    \A cs, ds, f : AllMade(cs) /\ MoreCalls(ds, cs) /\ IsFunction(cs, f) =>
        IsFunction(ds, f)
<1> SUFFICES ASSUME NEW cs, NEW ds, NEW f, AllMade(cs), MoreCalls(ds, cs),
                    IsFunction(cs, f)
    PROVE  IsFunction(ds, f)
  OBVIOUS
<1>1. f.home \in 1..Len(cs) /\ Len(cs) \in Nat /\ Len(ds) \in Nat
  BY DEF IsFunction, AllMade, MoreCalls, IsSeq
<1>2. /\ ds[f.home].code = cs[f.home].code
      /\ ds[f.home].params = cs[f.home].params
  BY <1>1 DEF MoreCalls
<1>3. f.home \in 1..Len(ds)
  BY <1>1 DEF MoreCalls
<1>4. QED
  BY <1>2, <1>3 DEF IsFunction

(* and what holds of a call does not depend on later ones.                  *)
LEMMA MadeStays ==
    \A cs, ds : AllMade(cs) /\ MoreCalls(ds, cs) =>
        \A n \in 1..Len(cs) : Made(ds, n)
<1> SUFFICES ASSUME NEW cs, NEW ds, AllMade(cs), MoreCalls(ds, cs),
                    NEW n \in 1..Len(cs)
    PROVE  Made(ds, n)
  OBVIOUS
<1>1. Made(cs, n) /\ Len(cs) \in Nat
  BY DEF AllMade, IsSeq
<1>2. ASSUME NEW k \in 1..Len(cs)
      PROVE  /\ ds[k].code = cs[k].code /\ ds[k].scope = cs[k].scope
             /\ ds[k].params = cs[k].params /\ ds[k].mode = cs[k].mode
             /\ ds[k].meant = cs[k].meant /\ ds[k].called = cs[k].called
  BY DEF MoreCalls
<1>3. ASSUME NEW c \in DOMAIN cs[n].scope
      PROVE  cs[n].scope[c] \in 1..Len(cs)
  <2>1. cs[n].scope[c] \in 1..n
    BY <1>1 DEF Made, Enclosed
  <2>2. QED
    BY <1>1, <2>1
<1>4. Enclosed(ds, n)
  <2>1. ASSUME NEW c \in DOMAIN cs[n].scope
        PROVE  /\ c \in Codes
               /\ cs[n].scope[c] \in 1..n
               /\ ds[cs[n].scope[c]].code = c
               /\ StartsWith(cs[n].params, ds[cs[n].scope[c]].params)
               /\ \A d \in DOMAIN ds[cs[n].scope[c]].scope :
                   /\ d \in DOMAIN cs[n].scope
                   /\ cs[n].scope[d] = ds[cs[n].scope[c]].scope[d]
    <3> DEFINE m == cs[n].scope[c]
    <3>1. m \in 1..Len(cs)
      BY <1>3
    <3>2. /\ ds[m].code = cs[m].code /\ ds[m].scope = cs[m].scope
          /\ ds[m].params = cs[m].params
      BY <1>2, <3>1
    <3>3. QED
      BY <1>1, <3>2 DEF Made, Enclosed
  <2>2. ds[n].scope = cs[n].scope /\ ds[n].params = cs[n].params
    BY <1>2
  <2>3. QED
    BY <2>1, <2>2 DEF Enclosed
<1>5. InPlace(ds, n)
  BY <1>1, <1>2 DEF Made, InPlace, HomeIn
<1>6. HomeIn(ds, n) = HomeIn(cs, n)
  BY <1>2 DEF HomeIn
<1>7. n # 1 => HomeIn(cs, n) \in 1..Len(cs)
  BY <1>1 DEF Made, InPlace
<1>8. Given(ds, n)
  <2>1. n # 1 => ds[HomeIn(cs, n)].params = cs[HomeIn(cs, n)].params
    BY <1>2, <1>7
  <2>2. /\ ds[n].code = cs[n].code /\ ds[n].params = cs[n].params
        /\ ds[n].meant = cs[n].meant /\ ds[n].called = cs[n].called
    BY <1>2
  <2>3. Given(cs, n)
    BY <1>1 DEF Made
  <2>4. CASE n = 1
    BY <2>2, <2>3, <2>4 DEF Given
  <2>5. CASE n # 1
    BY <1>6, <2>1, <2>2, <2>3, <2>5 DEF Given, OwnArguments
  <2>6. QED
    BY <2>4, <2>5
<1>9. Counted(ds, n)
  <2>1. AroundIn(ds, n) = AroundIn(cs, n)
    BY <1>2 DEF AroundIn
  <2>2. \A m \in AroundIn(cs, n) : m \in 1..Len(cs)
    BY <1>3 DEF AroundIn
  <2>3. \A m \in AroundIn(cs, n) : FullyCalledIn(ds, m) <=> FullyCalledIn(cs, m)
    BY <1>2, <2>2 DEF FullyCalledIn
  <2>4. QED
    BY <1>1, <1>2, <2>1, <2>3 DEF Made, Counted
<1>10. Moded(ds, n)
  BY <1>1, <1>2 DEF Made, Moded
<1>11. Argued(ds, n)
  BY <1>1, <1>2, FunctionStays DEF Made, Argued
<1>12. Justified(ds, n)
  BY <1>1, <1>2 DEF Made, Justified
<1>13. QED
  BY <1>4, <1>5, <1>8, <1>9, <1>10, <1>11, <1>12 DEF Made

-----------------------------------------------------------------------------
(* A function that starts to run.                                           *)

(* The call Invoke adds to cs, and when it is one the invariant allows.     *)
NewCallOf(cs, g, h, args, mode, called) ==
    [code |-> g, scope |-> Including(cs[h].scope, g, Len(cs) + 1),
     params |-> cs[h].params \o args, mode |-> mode,
     meant |-> [i \in 1..Own[g] |->
                    IF i <= Len(args) THEN args[i] ELSE Default(g, i)],
     called |-> called, functions |-> <<>>, held |-> {}]

ProperArguments(cs, g, args, called) ==
    /\ IsSeq(args) /\ Len(args) <= Own[g]
    /\ called \in BOOLEAN
    /\ called => Len(args) >= Own[g] - Optional[g]
    /\ \A i \in 1..Len(args) :
        args[i].kind = "function" => IsFunction(cs, args[i]) /\ WasPassed(args[i])

Proper(cs, g, h, args, mode, called) ==
    /\ Len(cs) < MaxCalls
    /\ g \in Functions /\ h \in 1..Len(cs) /\ cs[h].code = Parent[g]
    /\ ProperArguments(cs, g, args, called)
    /\ mode \subseteq {DontWrap, DontEvaluateLambdas}
    /\ DontWrap \notin mode => g \in Lambdas
    /\ DontEvaluateLambdas \notin mode =>
        g \in Lambdas \/ \E p \in Passed : p[2] = g
    /\ called \/ (MentionsOnly => RunsUncalled(g))

(* A function does not run inside a call that is already inside one of it:  *)
(* that call would come both before and after the one around it.            *)
LEMMA NotInItself ==
    \A cs : AllMade(cs) =>
        \A g \in Functions, h \in 1..Len(cs) :
            cs[h].code = Parent[g] => g \notin DOMAIN cs[h].scope
<1> SUFFICES ASSUME NEW cs, AllMade(cs), NEW g \in Functions,
                    NEW h \in 1..Len(cs), cs[h].code = Parent[g],
                    g \in DOMAIN cs[h].scope
    PROVE  FALSE
  OBVIOUS
<1> DEFINE m == cs[h].scope[g]
<1>1. Len(cs) \in Nat /\ Enclosed(cs, h) /\ InPlace(cs, h)
  BY DEF AllMade, Made, IsSeq
<1>2. /\ m \in 1..h /\ cs[m].code = g
      /\ \A d \in DOMAIN cs[m].scope :
            d \in DOMAIN cs[h].scope /\ cs[h].scope[d] = cs[m].scope[d]
  BY <1>1 DEF Enclosed
<1>3. cs[h].scope[Parent[g]] = h
  BY <1>1 DEF InPlace
<1> HIDE DEF m
<1>4. m \in 1..Len(cs) /\ InPlace(cs, m)
  BY <1>1, <1>2 DEF AllMade, Made
<1>5. m # 1
  BY <1>2, <1>4, Text DEF InPlace
<1>6. Parent[g] \in DOMAIN cs[m].scope /\ cs[m].scope[Parent[g]] \in 1..(m - 1)
  BY <1>2, <1>4, <1>5 DEF InPlace, HomeIn
<1>7. h \in 1..(m - 1)
  BY <1>2, <1>3, <1>6
<1>8. QED
  BY <1>1, <1>2, <1>7

LEMMA NewCall ==
    \A cs, g, h, args, mode, called :
        AllMade(cs) /\ Proper(cs, g, h, args, mode, called) =>
            LET ds == Append(cs, NewCallOf(cs, g, h, args, mode, called))
            IN /\ AllMade(ds) /\ MoreCalls(ds, cs) /\ HoldsFunctions(ds, Len(cs) + 1)
               /\ Len(ds) = Len(cs) + 1
               /\ \A n \in 1..Len(cs) : ds[n] = cs[n]
<1> SUFFICES ASSUME NEW cs, NEW g, NEW h, NEW args, NEW mode, NEW called,
                    AllMade(cs), Proper(cs, g, h, args, mode, called)
    PROVE  LET ds == Append(cs, NewCallOf(cs, g, h, args, mode, called))
           IN /\ AllMade(ds) /\ MoreCalls(ds, cs) /\ HoldsFunctions(ds, Len(cs) + 1)
              /\ Len(ds) = Len(cs) + 1
              /\ \A n \in 1..Len(cs) : ds[n] = cs[n]
  OBVIOUS
<1> DEFINE new == NewCallOf(cs, g, h, args, mode, called)
           ds == Append(cs, new)
           N == Len(cs) + 1
<1>1. /\ IsSeq(cs) /\ Len(cs) \in Nat /\ N \in Nat /\ N # 1
      /\ N \in 1..MaxCalls /\ h \in 1..Len(cs) /\ h < N
      /\ g \in Functions /\ g \in Codes /\ Made(cs, h)
  BY Text DEF AllMade, Proper, IsSeq, Codes
<1>2. /\ IsSeq(ds) /\ Len(ds) = N /\ ds[N] = new
      /\ \A n \in 1..Len(cs) : ds[n] = cs[n]
  <2> HIDE DEF new
  <2>1. QED
    BY <1>1, AppendIsSeq
<1>3. /\ new.code = g /\ new.mode = mode /\ new.called = called
      /\ new.scope = Including(cs[h].scope, g, N)
      /\ new.params = cs[h].params \o args
      /\ new.meant = [i \in 1..Own[g] |->
                        IF i <= Len(args) THEN args[i] ELSE Default(g, i)]
      /\ DOMAIN new = Fields /\ new.functions = <<>> /\ new.held = {}
  BY DEF NewCallOf, Fields
<1>4. /\ DOMAIN new.scope = DOMAIN cs[h].scope \cup {g} /\ new.scope[g] = N
      /\ \A c \in DOMAIN cs[h].scope : new.scope[c] = cs[h].scope[c]
  <2>1. g \notin DOMAIN cs[h].scope
    BY <1>1, NotInItself DEF Proper
  <2>2. QED
    BY <1>3, <2>1 DEF Including
<1>5. Parent[g] \in DOMAIN cs[h].scope /\ cs[h].scope[Parent[g]] = h
  BY <1>1 DEF Made, InPlace, Proper
<1>6. /\ IsSeq(cs[h].params) /\ IsSeq(args)
      /\ Len(cs[h].params) \in Nat /\ Len(args) \in Nat
      /\ Own[g] \in Nat /\ Optional[g] \in Nat /\ Optional[g] <= Own[g]
  BY <1>1, Text DEF Made, Given, Proper, ProperArguments, IsSeq
<1>7. /\ IsSeq(new.params) /\ Len(new.params) = Len(cs[h].params) + Len(args)
      /\ \A i \in 1..Len(cs[h].params) : new.params[i] = cs[h].params[i]
      /\ \A i \in 1..Len(args) : new.params[Len(cs[h].params) + i] = args[i]
  BY <1>3, <1>6, ConcatIsSeq
<1>8. MoreCalls(ds, cs)
  BY <1>1, <1>2 DEF MoreCalls
<1>9. \A n \in 1..Len(cs) : Made(ds, n)
  BY <1>8, MadeStays
<1> HIDE DEF new, ds, N
<1>10. HomeIn(ds, N) = h
  BY <1>2, <1>3, <1>4, <1>5 DEF HomeIn
<1>11. h \in 1..(N - 1) /\ Made(ds, h)
  BY <1>1, <1>9
<1>12. Enclosed(ds, N)
  <2>1. ASSUME NEW c \in DOMAIN new.scope
        PROVE  /\ c \in Codes
               /\ new.scope[c] \in 1..N
               /\ ds[new.scope[c]].code = c
               /\ StartsWith(new.params, ds[new.scope[c]].params)
               /\ \A d \in DOMAIN ds[new.scope[c]].scope :
                   /\ d \in DOMAIN new.scope
                   /\ new.scope[d] = ds[new.scope[c]].scope[d]
    <3>1. CASE c = g
      <4>1. ds[new.scope[c]] = new
        BY <1>2, <1>4, <3>1
      <4>2. StartsWith(new.params, new.params)
        BY <1>6, <1>7 DEF StartsWith
      <4>3. QED
        <5>1. g \in Codes /\ N \in 1..N /\ new.scope[c] = N /\ c \in Codes
          BY <1>1, <1>4, <3>1
        <5>2. /\ ds[new.scope[c]].code = c
              /\ StartsWith(new.params, ds[new.scope[c]].params)
          BY <1>3, <3>1, <4>1, <4>2
        <5>3. ds[new.scope[c]].scope = new.scope
          BY <4>1
        <5>4. QED
          BY <5>1, <5>2, <5>3
    <3>2. CASE c # g
      <4>1. c \in DOMAIN ds[h].scope /\ new.scope[c] = ds[h].scope[c]
        BY <1>1, <1>2, <1>4, <3>2
      <4> DEFINE m == ds[h].scope[c]
      <4>2. /\ c \in Codes /\ m \in 1..h /\ ds[m].code = c
            /\ StartsWith(ds[h].params, ds[m].params)
            /\ \A d \in DOMAIN ds[m].scope :
                d \in DOMAIN ds[h].scope /\ ds[h].scope[d] = ds[m].scope[d]
        BY <1>11, <4>1 DEF Made, Enclosed
      <4> HIDE DEF m
      <4>3. m \in 1..N
        BY <1>1, <4>2
      <4>4. ds[h].params = cs[h].params /\ ds[h].scope = cs[h].scope
        BY <1>1, <1>2
      <4>5. StartsWith(new.params, ds[m].params)
        <5>1. Len(ds[m].params) \in Nat
          <6>1. m \in 1..Len(cs)
            BY <1>1, <4>2
          <6>2. QED
            BY <1>9, <6>1 DEF Made, Given, IsSeq
        <5>2. QED
          BY <1>6, <1>7, <4>2, <4>4, <5>1 DEF StartsWith
      <4>6. \A d \in DOMAIN ds[m].scope :
                d \in DOMAIN new.scope /\ new.scope[d] = ds[m].scope[d]
        BY <1>4, <4>2, <4>4
      <4>7. m = new.scope[c]
        BY <4>1 DEF m
      <4>8. QED
        BY <4>2, <4>3, <4>5, <4>6, <4>7
    <3>3. QED
      BY <3>1, <3>2
  <2>2. QED
    BY <1>2, <2>1 DEF Enclosed
<1>13. InPlace(ds, N)
  BY <1>1, <1>2, <1>3, <1>4, <1>5, <1>10, <1>11 DEF InPlace
<1>14. ds[h].params = cs[h].params /\ ds[h].code = Parent[g]
  BY <1>1, <1>2 DEF Proper
<1>15. Given(ds, N)
  <2> DEFINE k == Len(cs[h].params)
  <2>1. Len(new.params) \in k..(k + Own[g])
    BY <1>6, <1>7 DEF Proper, ProperArguments
  <2>2. \A i \in 1..Own[g] :
            (k + i <= Len(new.params) <=> i <= Len(args))
            /\ (i <= Len(args) => new.params[k + i] = args[i])
    BY <1>6, <1>7
  <2>3. new.meant = [i \in 1..Own[g] |->
            IF k + i <= Len(new.params) THEN new.params[k + i] ELSE Default(g, i)]
    <3> HIDE DEF k
    <3>1. QED
      BY <1>3, <2>2
  <2>4. called => Len(new.params) >= k + Own[g] - Optional[g]
    BY <1>6, <1>7 DEF Proper, ProperArguments
  <2>5. QED
    <3>1. OwnArguments(new, k)
      BY <1>3, <2>1, <2>3, <2>4 DEF OwnArguments
    <3>2. QED
      BY <1>2, <1>7, <1>10, <1>14, <3>1 DEF Given
<1>16. Counted(ds, N)
  <2>1. BaseArgNum[g] \in Nat /\ BaseArgNum[Parent[g]] \in Nat
        /\ Own[Parent[g]] \in IF Parent[g] = Program THEN {Own[Parent[g]]} ELSE Nat
    <3>1. Parent[g] \in Codes
      BY <1>1, Text
    <3>2. QED
      BY <1>1, <3>1, BaseArgNumType, Text DEF Codes
  <2>2. BaseArgNum[g] = IF Parent[g] = Program THEN 0
                        ELSE BaseArgNum[Parent[g]] + Own[Parent[g]]
    BY <1>1, BaseArgNumDef, Text
  <2>3. Parent[g] = Program <=> h = 1
    BY <1>1, <1>11, <1>14, Text DEF Made, InPlace
  <2>4. Len(ds[h].params) <= BaseArgNum[g]
    <3>1. CASE h = 1
      BY <1>11, <2>2, <2>3, <3>1 DEF Made, InPlace
    <3>2. CASE h # 1
      BY <1>11, <1>14, <2>2, <2>3, <3>2 DEF Made, Counted, ArgNum
    <3>3. QED
      BY <3>1, <3>2
  <2>5. Len(new.params) <= ArgNum(g, Own[g])
    BY <1>6, <1>7, <1>14, <2>1, <2>4 DEF ArgNum, Proper, ProperArguments
  <2>6. ASSUME \A m \in AroundIn(ds, N) : FullyCalledIn(ds, m)
        PROVE  Len(new.params) = ArgNum(g, Own[g])
    <3>1. Len(ds[h].params) = BaseArgNum[g]
      <4>1. CASE h = 1
        BY <1>11, <2>2, <2>3, <4>1 DEF Made, InPlace
      <4>2. CASE h # 1
        <5>1. AroundIn(ds, h) \subseteq AroundIn(ds, N)
          <6>1. /\ ds[h].scope = cs[h].scope
                /\ ds[N].scope = new.scope
            BY <1>1, <1>2
          <6>2. QED
            BY <1>4, <6>1 DEF AroundIn
        <5>2. Len(ds[h].params) = ArgNum(Parent[g], Own[Parent[g]])
          BY <1>11, <1>14, <2>6, <4>2, <5>1 DEF Made, Counted
        <5>3. QED
          BY <2>2, <2>3, <4>2, <5>2 DEF ArgNum
      <4>3. QED
        BY <4>1, <4>2
    <3>2. Len(args) >= Own[g]
      <4>1. FullyCalledIn(ds, N)
        <5>1. N \in AroundIn(ds, N)
          BY <1>1, <1>2, <1>4, Text DEF AroundIn
        <5>2. QED
          BY <2>6, <5>1
      <4>2. ASSUME Len(args) < Own[g] PROVE FALSE
        <5>1. Own[g] \in 1..Own[g] /\ ~(Own[g] <= Len(args))
          BY <1>6, <4>2
        <5>2. new.meant[Own[g]] = Default(g, Own[g]) /\ Own[g] \in DOMAIN new.meant
          BY <1>3, <5>1
        <5>3. new.meant[Own[g]].kind # "default"
          BY <1>2, <4>1, <5>2 DEF FullyCalledIn
        <5>4. QED
          BY <5>2, <5>3 DEF Default
      <4>3. QED
        BY <1>6, <4>2
    <3>3. QED
      BY <1>6, <1>7, <1>14, <2>1, <3>1, <3>2 DEF ArgNum, Proper, ProperArguments
  <2>7. QED
    BY <1>2, <1>3, <2>5, <2>6 DEF Counted
<1>17. Moded(ds, N)
  BY <1>2, <1>3 DEF Moded, Proper
<1>18. Argued(ds, N)
  <2>1. ASSUME NEW i \in 1..Len(new.params), new.params[i].kind = "function"
        PROVE  IsFunction(cs, new.params[i]) /\ WasPassed(new.params[i])
    <3>1. CASE i <= Len(cs[h].params)
      <4>1. i \in 1..Len(cs[h].params) /\ new.params[i] = cs[h].params[i]
        BY <1>6, <1>7, <3>1
      <4>2. QED
        BY <1>1, <2>1, <4>1 DEF Made, Argued
    <3>2. CASE i > Len(cs[h].params)
      <4> DEFINE j == i - Len(cs[h].params)
      <4>1. j \in 1..Len(args) /\ i = Len(cs[h].params) + j
        BY <1>6, <1>7, <3>2
      <4> HIDE DEF j
      <4>2. new.params[i] = args[j]
        BY <1>7, <4>1
      <4>3. QED
        BY <2>1, <4>1, <4>2 DEF Proper, ProperArguments
    <3>3. QED
      BY <1>6, <1>7, <3>1, <3>2
  <2>2. QED
    BY <1>2, <1>8, <2>1, FunctionStays DEF Argued
<1>19. Justified(ds, N)
  BY <1>2, <1>3 DEF Justified, Proper, ProperArguments
<1>20. HoldsFunctions(ds, N)
  BY <1>2, <1>3 DEF HoldsFunctions
<1>21. \A n \in 1..Len(ds) : Made(ds, n)
  <2>1. Made(ds, N)
    BY <1>12, <1>13, <1>15, <1>16, <1>17, <1>18, <1>19 DEF Made
  <2>2. \A n \in 1..N : n \in 1..Len(cs) \/ n = N
    BY <1>1 DEF N
  <2>3. QED
    BY <1>2, <1>9, <2>1, <2>2
<1>22. AllMade(ds)
  BY <1>1, <1>2, <1>21 DEF AllMade
<1>23. QED
  BY <1>2, <1>8, <1>20, <1>22 DEF ds, new, N

-----------------------------------------------------------------------------
(* The steps.                                                               *)

LEMMA Initially == CallsInit => CallInv
<1> SUFFICES ASSUME CallsInit PROVE CallInv
  OBVIOUS
<1>1. /\ calls \in Seq({calls[1]}) /\ Len(calls) = 1 /\ running = <<1>>
      /\ calls[1].code = Program /\ calls[1].scope = [c \in {Program} |-> 1]
      /\ calls[1].params = <<>> /\ calls[1].mode = {}
      /\ calls[1].meant = <<>> /\ calls[1].called = TRUE
      /\ calls[1].functions = <<>> /\ calls[1].held = {}
      /\ DOMAIN calls[1] = Fields
  BY DEF CallsInit, Fields
<1>2. IsSeq(calls) /\ 1 \in 1..MaxCalls
  BY <1>1, SeqIsSeq, Text
<1>3. Enclosed(calls, 1)
  BY <1>1 DEF Enclosed, Codes, StartsWith
<1>4. InPlace(calls, 1)
  BY <1>1 DEF InPlace
<1>5. Given(calls, 1) /\ Counted(calls, 1) /\ Argued(calls, 1)
  BY <1>1 DEF Given, Counted, Argued, IsSeq
<1>6. Moded(calls, 1) /\ Justified(calls, 1) /\ HoldsFunctions(calls, 1)
  <2>1. Moded(calls, 1) /\ Justified(calls, 1)
    BY <1>1 DEF Moded, Justified
  <2>2. DOMAIN calls[1].functions = {} /\ calls[1].held = {}
    BY <1>1
  <2>3. HoldsFunctions(calls, 1)
    BY <1>1, <2>2 DEF HoldsFunctions
  <2>4. QED
    BY <2>1, <2>3
<1>7. Runs(calls, running)
  BY <1>1 DEF Runs
<1>8. QED
  BY <1>1, <1>2, <1>3, <1>4, <1>5, <1>6, <1>7 DEF CallInv, AllMade, Made

(* The call that runs.                                                      *)
LEMMA Running ==
    CallInv =>
        /\ Cur \in 1..Len(calls) /\ Len(running) \in Nat \ {0}
        /\ Made(calls, Cur) /\ HoldsFunctions(calls, Cur)
        /\ Code \in Codes /\ (Code = Program <=> Cur = 1)
        /\ Code = Program => Params = <<>> /\ DOMAIN calls[Cur].scope = {Program}
        /\ IsSeq(Params)
<1> SUFFICES ASSUME CallInv
    PROVE  /\ Cur \in 1..Len(calls) /\ Len(running) \in Nat \ {0}
           /\ Made(calls, Cur) /\ HoldsFunctions(calls, Cur)
           /\ Code \in Codes /\ (Code = Program <=> Cur = 1)
           /\ Code = Program => Params = <<>> /\ DOMAIN calls[Cur].scope = {Program}
           /\ IsSeq(Params)
  OBVIOUS
<1>1. Cur \in 1..Len(calls) /\ Len(running) \in Nat \ {0}
  BY DEF CallInv, Runs, Cur
<1>2. Made(calls, Cur) /\ HoldsFunctions(calls, Cur)
  BY <1>1 DEF CallInv, AllMade
<1> HIDE DEF Cur
<1>3. QED
  BY <1>1, <1>2, Text DEF Made, InPlace, Given, Code, Params, Codes

(* A step that defines a function or keeps one in a variable.               *)
Noting(cs, n, r) ==
    /\ n \in 1..Len(cs)
    /\ r.code = cs[n].code /\ r.scope = cs[n].scope /\ r.params = cs[n].params
    /\ r.mode = cs[n].mode /\ r.meant = cs[n].meant /\ r.called = cs[n].called
    /\ DOMAIN r = Fields
    /\ \A g \in DOMAIN r.functions :
        /\ g \notin Lambdas
        /\ IsFunction(cs, r.functions[g]) /\ r.functions[g].code = g
    /\ \A f \in r.held : IsFunction(cs, f)

LEMMA Noted ==
    \A cs, n, r :
        AllMade(cs) /\ (\A k \in 1..Len(cs) : HoldsFunctions(cs, k)) /\ Noting(cs, n, r) =>
            LET ds == [cs EXCEPT ![n] = r]
            IN /\ AllMade(ds) /\ Len(ds) = Len(cs)
               /\ \A k \in 1..Len(cs) : HoldsFunctions(ds, k)
<1> SUFFICES ASSUME NEW cs, NEW n, NEW r, AllMade(cs),
                    \A k \in 1..Len(cs) : HoldsFunctions(cs, k), Noting(cs, n, r)
    PROVE  LET ds == [cs EXCEPT ![n] = r]
           IN /\ AllMade(ds) /\ Len(ds) = Len(cs)
              /\ \A k \in 1..Len(cs) : HoldsFunctions(ds, k)
  OBVIOUS
<1> DEFINE ds == [cs EXCEPT ![n] = r]
<1>1. /\ IsSeq(ds) /\ Len(ds) = Len(cs) /\ Len(cs) \in Nat
      /\ \A i \in 1..Len(cs) : ds[i] = IF i = n THEN r ELSE cs[i]
  BY ExceptIsSeq DEF AllMade, Noting, IsSeq
<1> HIDE DEF ds
<1>2. MoreCalls(ds, cs)
  <2>1. Len(cs) <= Len(ds)
    BY <1>1
  <2>2. QED
    BY <1>1, <2>1 DEF MoreCalls, Noting
<1>3. AllMade(ds)
  BY <1>1, <1>2, MadeStays DEF AllMade
<1>4. ASSUME NEW k \in 1..Len(cs) PROVE HoldsFunctions(ds, k)
  <2>1. \A f : IsFunction(cs, f) => IsFunction(ds, f)
    BY <1>2, FunctionStays
  <2>2. CASE k = n
    BY <1>1, <2>1, <2>2 DEF HoldsFunctions, Noting
  <2>3. CASE k # n
    BY <1>1, <2>1, <2>3 DEF HoldsFunctions
  <2>4. QED
    BY <2>2, <2>3
<1>5. QED
  BY <1>1, <1>3, <1>4 DEF ds

LEMMA StepNotes ==
    CallInv =>
        \A n, r :
            Noting(calls, n, r) /\ calls' = [calls EXCEPT ![n] = r]
                /\ Runs(calls, running')
            => CallInv'
<1> SUFFICES ASSUME CallInv, NEW n, NEW r, Noting(calls, n, r),
                    calls' = [calls EXCEPT ![n] = r], Runs(calls, running')
    PROVE  CallInv'
  OBVIOUS
<1>1. /\ AllMade(calls') /\ Len(calls') = Len(calls)
      /\ \A k \in 1..Len(calls) : HoldsFunctions(calls', k)
  BY Noted DEF CallInv
<1>2. Runs(calls', running')
  BY <1>1 DEF Runs
<1>3. QED
  BY <1>1, <1>2 DEF CallInv

(* A step that makes a function run.                                        *)
LEMMA StepCalls ==
    CallInv =>
        \A g, h, args, mode, called :
            (/\ Proper(calls, g, h, args, mode, called)
             /\ calls' = Append(calls, NewCallOf(calls, g, h, args, mode, called))
             /\ running' = Append(running, Len(calls) + 1))
            => CallInv'
<1> SUFFICES ASSUME CallInv, NEW g, NEW h, NEW args, NEW mode, NEW called,
            Proper(calls, g, h, args, mode, called),
            calls' = Append(calls, NewCallOf(calls, g, h, args, mode, called)),
            running' = Append(running, Len(calls) + 1)
    PROVE  CallInv'
  OBVIOUS
<1>1. /\ AllMade(calls') /\ MoreCalls(calls', calls)
      /\ HoldsFunctions(calls', Len(calls) + 1) /\ Len(calls') = Len(calls) + 1
      /\ \A n \in 1..Len(calls) : calls'[n] = calls[n]
  BY NewCall DEF CallInv
<1>2. Len(calls) \in Nat
  BY DEF CallInv, AllMade, IsSeq
<1>3. \A n \in 1..Len(calls) : HoldsFunctions(calls', n)
  <2>1. \A f : IsFunction(calls, f) => IsFunction(calls', f)
    BY <1>1, FunctionStays DEF CallInv
  <2>2. QED
    BY <1>1, <2>1 DEF CallInv, HoldsFunctions
<1>4. Runs(calls', running')
  <2> DEFINE N == Len(calls) + 1
             l == Len(running)
  <2>1. /\ running \in Seq(1..Len(calls)) /\ l \in Nat \ {0} /\ running[1] = 1
        /\ \A k \in 2..l : running[k - 1] < running[k]
        /\ \A k \in 1..l : running[k] \in 1..Len(calls)
    BY DEF CallInv, Runs
  <2>2. running \in Seq(1..N)
    <3>1. IsSeq(running) /\ \A k \in 1..Len(running) : running[k] \in 1..N
      BY <1>2, <2>1, SeqIsSeq
    <3> HIDE DEF N
    <3>2. QED
      BY <3>1, IsSeqSeq
  <2>3. N \in 1..N
    BY <1>2
  <2>4. /\ running' \in Seq(1..N) /\ Len(running') = l + 1
        /\ running'[l + 1] = N /\ \A k \in 1..l : running'[k] = running[k]
    BY <2>2, <2>3
  <2>5. ASSUME NEW k \in 2..(l + 1) PROVE running'[k - 1] < running'[k]
    <3>1. CASE k = l + 1
      <4>1. running'[k - 1] = running[l] /\ running'[k] = N
        BY <2>1, <2>4, <3>1
      <4>2. running[l] \in 1..Len(calls)
        BY <2>1
      <4>3. QED
        BY <1>2, <4>1, <4>2
    <3>2. CASE k # l + 1
      BY <2>1, <2>4, <3>2
    <3>3. QED
      BY <3>1, <3>2
  <2>6. running'[1] = 1
    BY <2>1, <2>4
  <2>7. QED
    BY <1>1, <2>1, <2>4, <2>5, <2>6 DEF Runs
<1>5. \A n \in 1..Len(calls') : HoldsFunctions(calls', n)
  <2>1. \A n \in 1..Len(calls') : n \in 1..Len(calls) \/ n = Len(calls) + 1
    BY <1>1, <1>2
  <2>2. QED
    BY <1>1, <1>3, <2>1
<1>6. QED
  BY <1>1, <1>4, <1>5 DEF CallInv

LEMMA Invokes ==
    CallInv =>
        \A g, h, params, args, mode, called :
            (/\ Invoke(g, h, params, mode, args, called)
             /\ params = calls[h].params \o args
             /\ (Len(calls) < MaxCalls => Proper(calls, g, h, args, mode, called)))
            => CallInv'
<1> SUFFICES ASSUME CallInv, NEW g, NEW h, NEW params, NEW args, NEW mode,
                    NEW called,
                    Invoke(g, h, params, mode, args, called),
                    params = calls[h].params \o args,
                    Len(calls) < MaxCalls => Proper(calls, g, h, args, mode, called)
    PROVE  CallInv'
  OBVIOUS
<1>1. Proper(calls, g, h, args, mode, called)
  BY DEF Invoke
<1>2. calls' = Append(calls, NewCallOf(calls, g, h, args, mode, called))
  BY DEF Invoke, NewCallOf
<1>3. running' = Append(running, Len(calls) + 1)
  BY DEF Invoke
<1>4. QED
  BY <1>1, <1>2, <1>3, StepCalls

(* Evaluating a function value, which may be one that is called where it    *)
(* was passed.                                                              *)
Callable(cs, f) ==
    /\ f.code \in Functions /\ f.home \in 1..Len(cs)
    /\ cs[f.home].code = Parent[f.code] /\ f.bound = cs[f.home].params
    /\ f.direct =>
        \/ f.code \in Lambdas
        \/ f.bound = <<>> /\ \E p \in Passed : p[2] = f.code

LEMMA FunctionIsCallable ==
    \A cs, f : IsFunction(cs, f) => Callable(cs, f)
BY DEF IsFunction, Callable

LEMMA Evaluates ==
    CallInv =>
        \A f, args, called :
            (/\ EvaluateFunction(f, args, called)
             /\ Callable(calls, f)
             /\ ProperArguments(calls, f.code, args, called)
             /\ called \/ (MentionsOnly => RunsUncalled(f.code)))
            => CallInv'
<1> SUFFICES ASSUME CallInv, NEW f, NEW args, NEW called,
                    EvaluateFunction(f, args, called), Callable(calls, f),
                    ProperArguments(calls, f.code, args, called),
                    called \/ (MentionsOnly => RunsUncalled(f.code))
    PROVE  CallInv'
  OBVIOUS
<1>1. f.bound \o args = calls[f.home].params \o args
  BY DEF Callable
<1>2. ASSUME NEW mode, mode \subseteq {DontWrap, DontEvaluateLambdas},
             DontWrap \notin mode => f.code \in Lambdas,
             DontEvaluateLambdas \notin mode =>
                f.code \in Lambdas \/ \E p \in Passed : p[2] = f.code,
             Invoke(f.code, f.home, f.bound \o args, mode, args, called)
      PROVE  CallInv'
  <2>1. Len(calls) < MaxCalls => Proper(calls, f.code, f.home, args, mode, called)
    BY <1>2 DEF Proper, Callable
  <2>2. QED
    BY <1>1, <1>2, <2>1, Invokes
<1>3. CASE f.direct
  <2> DEFINE mode == IF f.bound = <<>> THEN {DontWrap} ELSE {}
  <2>1. Invoke(f.code, f.home, f.bound \o args, mode, args, called)
    BY <1>3 DEF EvaluateFunction
  <2>2. /\ mode \subseteq {DontWrap, DontEvaluateLambdas}
        /\ DontWrap \notin mode => f.code \in Lambdas
        /\ DontEvaluateLambdas \notin mode =>
            f.code \in Lambdas \/ \E p \in Passed : p[2] = f.code
    BY <1>3 DEF Callable
  <2> HIDE DEF mode
  <2>3. QED
    BY <1>2, <2>1, <2>2
<1>4. CASE ~f.direct
  <2>1. Invoke(f.code, f.home, f.bound \o args, {DontWrap, DontEvaluateLambdas},
               args, called)
    BY <1>4 DEF EvaluateFunction, EvaluateBody
  <2>2. QED
    BY <1>2, <2>1
<1>5. QED
  BY <1>3, <1>4

(* Evaluating a lambda expression where it is mentioned.                    *)
LEMMA EvaluatesLambda ==
    CallInv =>
        \A g \in Lambdas :
            (/\ EvaluateBody(g, Cur, Params, <<>>, FALSE)
             /\ Parent[g] = Code /\ (MentionsOnly => RunsUncalled(g)))
            => CallInv'
<1> SUFFICES ASSUME CallInv, NEW g \in Lambdas,
                    EvaluateBody(g, Cur, Params, <<>>, FALSE),
                    Parent[g] = Code, MentionsOnly => RunsUncalled(g)
    PROVE  CallInv'
  OBVIOUS
<1>1. PICK h : h = Cur
  OBVIOUS
<1>2. h \in 1..Len(calls) /\ IsSeq(calls[h].params) /\ Parent[g] = calls[h].code
  BY <1>1, Running DEF Params, Code
<1>3. IsSeq(<<>>)
  <2>1. <<>> \in Seq({})
    OBVIOUS
  <2>2. QED
    BY <2>1, SeqIsSeq
<1>4. calls[h].params = calls[h].params \o <<>>
  <2>1. /\ IsSeq(calls[h].params \o <<>>)
        /\ Len(calls[h].params \o <<>>) = Len(calls[h].params)
        /\ \A i \in 1..Len(calls[h].params) :
            (calls[h].params \o <<>>)[i] = calls[h].params[i]
    BY <1>2, <1>3, ConcatIsSeq DEF IsSeq
  <2>2. QED
    BY <1>2, <2>1 DEF IsSeq
<1>5. Invoke(g, h, calls[h].params, {DontWrap, DontEvaluateLambdas}, <<>>, FALSE)
  BY <1>1 DEF EvaluateBody, Params
<1>6. Len(calls) < MaxCalls =>
        Proper(calls, g, h, <<>>, {DontWrap, DontEvaluateLambdas}, FALSE)
  BY <1>2, <1>3, Text DEF Proper, ProperArguments
<1>7. QED
  BY <1>4, <1>5, <1>6, Invokes

(* The functions at hand: those with a name,                                *)
LEMMA KnownIsFunction ==
    CallInv => \A g : InScope(g) => IsFunction(calls, Known(g)) /\ Known(g).code = g
                                     /\ g \notin Lambdas
<1> SUFFICES ASSUME CallInv, NEW g, InScope(g)
    PROVE  IsFunction(calls, Known(g)) /\ Known(g).code = g /\ g \notin Lambdas
  OBVIOUS
<1>1. /\ Parent[g] \in DOMAIN calls[Cur].scope
      /\ g \in DOMAIN calls[Home(g)].functions
  BY DEF InScope
<1>2. Home(g) \in 1..Len(calls)
  <2>1. Cur \in 1..Len(calls) /\ Enclosed(calls, Cur)
    BY Running DEF Made
  <2>2. Home(g) \in 1..Cur
    BY <1>1, <2>1 DEF Enclosed, Home
  <2>3. Len(calls) \in Nat
    BY DEF CallInv, AllMade, IsSeq
  <2>4. QED
    BY <2>1, <2>2, <2>3
<1>3. QED
  BY <1>1, <1>2 DEF CallInv, HoldsFunctions, Known

(* and lambda expressions of the code that runs.                            *)
LEMMA LambdaIsFunction ==
    CallInv => \A g \in Lambdas : Parent[g] = Code => IsFunction(calls, Lambda(g))
BY Running, Text DEF IsFunction, Lambda, Function, Code, Params

(* Naming a function adds no arguments to those it keeps, in a text that    *)
(* lets every function keep its arguments once.                             *)
LEMMA AccessKeeps ==
    KeepsOnce /\ CallInv =>
        \A g \in Functions :
            /\ <<Code, g>> \in Assigned => AccessFunction(g, DefineMode) = Known(g)
            /\ <<Code, g>> \in Passed \cup Returned /\ g \notin Lambdas =>
                AccessFunction(g, Mode) = Known(g)
<1> SUFFICES ASSUME KeepsOnce, CallInv, NEW g \in Functions
    PROVE  /\ <<Code, g>> \in Assigned => AccessFunction(g, DefineMode) = Known(g)
           /\ <<Code, g>> \in Passed \cup Returned /\ g \notin Lambdas =>
                AccessFunction(g, Mode) = Known(g)
  OBVIOUS
<1>1. ASSUME <<Code, g>> \in Assigned PROVE AccessFunction(g, DefineMode) = Known(g)
  <2>1. Code = Program
    BY <1>1 DEF KeepsOnce
  <2>2. QED
    BY <2>1, Running DEF AccessFunction
<1>2. ASSUME <<Code, g>> \in Passed \cup Returned, g \notin Lambdas
      PROVE  AccessFunction(g, Mode) = Known(g)
  <2>1. Code \notin Lambdas
    BY <1>2 DEF KeepsOnce
  <2>2. Code = Program \/ DontWrap \in Mode
    BY <2>1, Running DEF Made, Moded, Mode, Code
  <2>3. QED
    BY <2>2, Running DEF AccessFunction
<1>3. QED
  BY <1>1, <1>2

(* The arguments of a call, with those that have a default or without,      *)
LEMMA ArgumentsProper ==
    CallInv =>
        \A g \in Functions : \A args \in Arguments(g) :
            /\ ProperArguments(calls, g, args, TRUE)
            /\ Len(args) \in (Own[g] - Optional[g])..Own[g]
<1> SUFFICES ASSUME CallInv, NEW g \in Functions, NEW args \in Arguments(g)
    PROVE  /\ ProperArguments(calls, g, args, TRUE)
           /\ Len(args) \in (Own[g] - Optional[g])..Own[g]
  OBVIOUS
<1>1. Own[g] \in Nat /\ Optional[g] \in Nat /\ Optional[g] <= Own[g]
  BY Text
<1>2. PICK n \in (Own[g] - Optional[g])..Own[g] :
        args = [i \in 1..n |-> Datum(Len(calls) + 1, i)]
  BY DEF Arguments
<1> DEFINE D == {Datum(Len(calls) + 1, i) : i \in 1..n}
<1>3. \A d \in D : d.kind # "function"
  BY DEF Datum
<1>4. \A i \in 1..n : Datum(Len(calls) + 1, i) \in D
  OBVIOUS
<1> HIDE DEF D
<1>5. n \in Nat
  BY <1>1
<1>6. args \in Seq(D) /\ Len(args) = n
  <2>1. args \in [1..n -> D]
    BY <1>2, <1>4
  <2>2. QED
    BY <1>5, <2>1
<1>7. IsSeq(args) /\ \A i \in 1..Len(args) : args[i].kind # "function"
  BY <1>3, <1>6, SeqIsSeq
<1>8. Len(args) <= Own[g] /\ Len(args) >= Own[g] - Optional[g]
  BY <1>1, <1>2, <1>6
<1>9. Len(args) \in (Own[g] - Optional[g])..Own[g]
  BY <1>6
<1>10. QED
  BY <1>7, <1>8, <1>9 DEF ProperArguments

(* and with a function as the first one.                                    *)
LEMMA FunctionArgument ==
    CallInv =>
        \A g \in Applied : \A args \in Arguments(g) : \A f :
            IsFunction(calls, f) /\ WasPassed(f) =>
                ProperArguments(calls, g, [args EXCEPT ![1] = f], TRUE)
<1> SUFFICES ASSUME CallInv, NEW g \in Applied, NEW args \in Arguments(g), NEW f,
                    IsFunction(calls, f), WasPassed(f)
    PROVE  ProperArguments(calls, g, [args EXCEPT ![1] = f], TRUE)
  OBVIOUS
<1>1. /\ g \in Functions /\ Own[g] \in Nat /\ Optional[g] \in Nat
      /\ Own[g] > Optional[g]
  BY Text
<1>2. /\ ProperArguments(calls, g, args, TRUE)
      /\ Len(args) \in (Own[g] - Optional[g])..Own[g]
  BY <1>1, ArgumentsProper
<1>3. 1 \in 1..Len(args) /\ IsSeq(args)
  BY <1>1, <1>2 DEF ProperArguments
<1> DEFINE with == [args EXCEPT ![1] = f]
<1>4. /\ IsSeq(with) /\ Len(with) = Len(args)
      /\ \A i \in 1..Len(args) : with[i] = IF i = 1 THEN f ELSE args[i]
  BY <1>3, ExceptIsSeq DEF IsSeq
<1> HIDE DEF with
<1>5. ProperArguments(calls, g, with, TRUE)
  <2>1. ASSUME NEW i \in 1..Len(with), with[i].kind = "function"
        PROVE  IsFunction(calls, with[i]) /\ WasPassed(with[i])
    <3>1. CASE i = 1
      BY <1>4, <3>1
    <3>2. CASE i # 1
      BY <1>2, <1>4, <2>1, <3>2 DEF ProperArguments
    <3>3. QED
      BY <3>1, <3>2
  <2>2. QED
    BY <1>2, <1>4, <2>1 DEF ProperArguments
<1>6. QED
  BY <1>5 DEF with

(* A function that is passed is mentioned by the code that runs.            *)
LEMMA PassedHere ==
    CallInv =>
        \A f : (/\ IsFunction(calls, f) /\ <<Code, f.code>> \in Passed
               /\ Parent[f.code] \in DOMAIN calls[Cur].scope) => WasPassed(f)
<1> SUFFICES ASSUME CallInv, NEW f, IsFunction(calls, f),
                    <<Code, f.code>> \in Passed,
                    Parent[f.code] \in DOMAIN calls[Cur].scope
    PROVE  WasPassed(f)
  OBVIOUS
<1>1. Code \in Codes
  BY Running
<1>2. ASSUME Code = Program PROVE f.bound = <<>>
  <2>1. f.home \in 1..Len(calls) /\ calls[f.home].code = Program
    BY <1>2, Running DEF IsFunction
  <2>2. Made(calls, f.home)
    BY <2>1 DEF CallInv, AllMade
  <2>3. f.home = 1
    BY <2>1, <2>2, Text DEF Made, InPlace
  <2>4. QED
    BY <2>2, <2>3 DEF Made, InPlace, IsFunction
<1>3. QED
  BY <1>1, <1>2 DEF WasPassed

-----------------------------------------------------------------------------
(* Every action of the model keeps the invariant.                           *)

LEMMA RunsStay == CallInv => Runs(calls, running)
BY DEF CallInv

LEMMA DefineKeeps == CallInv => \A g \in Functions : Define(g) => CallInv'
<1> SUFFICES ASSUME CallInv, NEW g \in Functions, Define(g) PROVE CallInv'
  OBVIOUS
<1>1. PICK n : n = Cur
  OBVIOUS
<1>2. n \in 1..Len(calls) /\ HoldsFunctions(calls, n)
  BY <1>1, Running
<1> DEFINE f == VariableFactory(g, DefineMode)
           r == [calls[n] EXCEPT !.functions = Including(@, g, f)]
<1>3. f = Function(g, Params, FALSE, Cur)
  BY DEF Define, VariableFactory, DefineMode
<1>4. IsFunction(calls, f) /\ f.code = g /\ g \notin Lambdas
  <2>1. /\ f.code = g /\ f.bound = Params /\ f.direct = FALSE /\ f.home = Cur
        /\ f = Function(f.code, f.bound, f.direct, f.home)
    BY <1>3 DEF Function
  <2>2. g \notin Lambdas /\ Parent[g] = Code
    BY DEF Define
  <2> HIDE DEF f
  <2>3. f.direct <=> f.code \in Lambdas
    BY <2>1, <2>2
  <2>4. QED
    BY <1>1, <1>2, <2>1, <2>2, <2>3 DEF IsFunction, Code, Params
<1>5. calls' = [calls EXCEPT ![n] = r]
  BY <1>1 DEF Define
<1> HIDE DEF f
<1>6. /\ r.code = calls[n].code /\ r.scope = calls[n].scope
      /\ r.params = calls[n].params /\ r.mode = calls[n].mode
      /\ r.meant = calls[n].meant /\ r.called = calls[n].called
      /\ r.held = calls[n].held /\ DOMAIN r = Fields
      /\ r.functions = Including(calls[n].functions, g, f)
  BY <1>2 DEF HoldsFunctions, Fields
<1> HIDE DEF r
<1>7. Noting(calls, n, r)
  <2>1. DOMAIN r.functions = DOMAIN calls[n].functions \cup {g}
    BY <1>6 DEF Including
  <2>2. \A c \in DOMAIN r.functions :
            r.functions[c] = IF c = g THEN f ELSE calls[n].functions[c]
    BY <1>6 DEF Including
  <2>3. QED
    BY <1>2, <1>4, <1>6, <2>1, <2>2 DEF Noting, HoldsFunctions
<1>8. QED
  BY <1>5, <1>7, StepNotes, RunsStay DEF Define

(* Functions that go to a variable of call n.                               *)
LEMMA HeldKeeps ==
    CallInv =>
        \A n \in 1..Len(calls) : \A values :
            (/\ \A f \in values : IsFunction(calls, f)
             /\ calls' = [calls EXCEPT ![n].held = @ \cup values]
             /\ Runs(calls, running'))
            => CallInv'
<1> SUFFICES ASSUME CallInv, NEW n \in 1..Len(calls), NEW values,
                    \A f \in values : IsFunction(calls, f),
                    calls' = [calls EXCEPT ![n].held = @ \cup values],
                    Runs(calls, running')
    PROVE  CallInv'
  OBVIOUS
<1> DEFINE r == [calls[n] EXCEPT !.held = @ \cup values]
<1>1. HoldsFunctions(calls, n)
  BY DEF CallInv
<1>2. calls' = [calls EXCEPT ![n] = r]
  OBVIOUS
<1>3. /\ r.code = calls[n].code /\ r.scope = calls[n].scope
      /\ r.params = calls[n].params /\ r.mode = calls[n].mode
      /\ r.meant = calls[n].meant /\ r.called = calls[n].called
      /\ r.held = calls[n].held \cup values /\ DOMAIN r = Fields
      /\ r.functions = calls[n].functions
  BY <1>1 DEF HoldsFunctions, Fields
<1> HIDE DEF r
<1>4. Noting(calls, n, r)
  BY <1>1, <1>3 DEF Noting, HoldsFunctions
<1>5. QED
  BY <1>2, <1>4, StepNotes

LEMMA AssignKeeps ==
    KeepsOnce /\ CallInv => \A g \in Functions : Assign(g) => CallInv'
<1> SUFFICES ASSUME KeepsOnce, CallInv, NEW g \in Functions, Assign(g)
    PROVE  CallInv'
  OBVIOUS
<1>1. PICK n, f : n = Cur /\ f = AccessFunction(g, DefineMode)
  OBVIOUS
<1>2. IsFunction(calls, f)
  BY <1>1, AccessKeeps, KnownIsFunction DEF Assign
<1>3. calls' = [calls EXCEPT ![n].held = @ \cup {f}]
  BY <1>1 DEF Assign
<1>4. n \in 1..Len(calls) /\ Runs(calls, running')
  BY <1>1, Running, RunsStay DEF Assign
<1>5. QED
  BY <1>2, <1>3, <1>4, HeldKeeps

LEMMA CallNamedKeeps ==
    CallInv => \A g \in Functions : CallNamed(g) => CallInv'
<1> SUFFICES ASSUME CallInv, NEW g \in Functions, CallNamed(g) PROVE CallInv'
  OBVIOUS
<1>1. PICK args \in Arguments(g) : EvaluateFunction(Known(g), args, TRUE)
  BY DEF CallNamed
<1>2. Callable(calls, Known(g)) /\ Known(g).code = g
  BY KnownIsFunction, FunctionIsCallable DEF CallNamed
<1>3. ProperArguments(calls, g, args, TRUE)
  BY ArgumentsProper
<1>4. QED
  BY <1>1, <1>2, <1>3, Evaluates

LEMMA CallHeldKeeps ==
    CallInv => \A f : f \in calls[Cur].held /\ CallHeld(f) => CallInv'
<1> SUFFICES ASSUME CallInv, NEW f, f \in calls[Cur].held, CallHeld(f)
    PROVE  CallInv'
  OBVIOUS
<1>1. IsFunction(calls, f)
  BY Running DEF HoldsFunctions
<1>2. PICK args \in Arguments(f.code) : EvaluateFunction(f, args, TRUE)
  BY DEF CallHeld
<1>3. ProperArguments(calls, f.code, args, TRUE)
  BY <1>1, ArgumentsProper DEF IsFunction
<1>4. Callable(calls, f)
  BY <1>1, FunctionIsCallable
<1>5. QED
  BY <1>2, <1>3, <1>4, Evaluates

LEMMA MapKeeps == CallInv => \A g \in Functions : Map(g) => CallInv'
<1> SUFFICES ASSUME CallInv, NEW g \in Functions, Map(g) PROVE CallInv'
  OBVIOUS
<1>1. PICK args \in Arguments(g) : EvaluateFunction(Lambda(g), args, TRUE)
  BY DEF Map
<1>2. g \in Lambdas
  BY Text DEF Map
<1>3. Callable(calls, Lambda(g)) /\ Lambda(g).code = g
  BY <1>2, LambdaIsFunction, FunctionIsCallable DEF Map, Lambda, Function
<1>4. ProperArguments(calls, g, args, TRUE)
  BY ArgumentsProper
<1>5. QED
  BY <1>1, <1>3, <1>4, Evaluates

LEMMA PassKeeps ==
    KeepsOnce /\ CallInv =>
        \A g \in Functions, f \in Functions : Pass(g, f) => CallInv'
<1> SUFFICES ASSUME KeepsOnce, CallInv, NEW g \in Functions, NEW f \in Functions,
                    Pass(g, f)
    PROVE  CallInv'
  OBVIOUS
<1>1. g \in Applied /\ InScope(g) /\ <<Code, f>> \in Passed
  BY DEF Pass
<1>2. Callable(calls, Known(g)) /\ Known(g).code = g
  BY <1>1, KnownIsFunction, FunctionIsCallable
<1>3. ASSUME NEW args \in Arguments(g), NEW v, IsFunction(calls, v), WasPassed(v),
             EvaluateFunction(Known(g), [args EXCEPT ![1] = v], TRUE)
      PROVE  CallInv'
  <2>1. ProperArguments(calls, g, [args EXCEPT ![1] = v], TRUE)
    BY <1>1, <1>3, FunctionArgument
  <2>2. PICK with : with = [args EXCEPT ![1] = v]
    OBVIOUS
  <2>3. QED
    BY <1>2, <1>3, <2>1, <2>2, Evaluates
<1>4. CASE f \in Lambdas
  <2>1. Parent[f] = Code
    <3>1. PICK m : m = <<Code, f>>
      OBVIOUS
    <3>2. m \in Passed /\ m[1] = Code /\ m[2] = f
      BY <1>1, <3>1
    <3>3. QED
      BY <1>4, <3>2, FunctionCallsAssumption
  <2>2. CASE DontEvaluateLambdas \in Mode
    <3>1. PICK args \in Arguments(g) :
            EvaluateFunction(Known(g), [args EXCEPT ![1] = Lambda(f)], TRUE)
      BY <1>4, <2>2 DEF Pass
    <3>2. IsFunction(calls, Lambda(f)) /\ Lambda(f).code = f
      BY <1>4, <2>1, LambdaIsFunction DEF Lambda, Function
    <3>3. WasPassed(Lambda(f))
      <4>1. Parent[f] \in DOMAIN calls[Cur].scope
        BY <2>1, Running DEF Made, InPlace, Code
      <4>2. QED
        BY <1>1, <3>2, <4>1, PassedHere
    <3>4. PICK v : v = Lambda(f)
      OBVIOUS
    <3>5. QED
      BY <1>3, <3>1, <3>2, <3>3, <3>4
  <2>3. CASE DontEvaluateLambdas \notin Mode
    <3>1. EvaluateBody(f, Cur, Params, <<>>, FALSE)
      BY <1>4, <2>3 DEF Pass
    <3>2. MentionsOnly => RunsUncalled(f)
      <4>1. PICK m : m = <<Code, f>>
        OBVIOUS
      <4>2. m \in Passed /\ m[1] = Code /\ m[2] = f
        BY <1>1, <4>1
      <4>3. MentionsOnly => Code # Program
        BY <1>4, <4>2 DEF MentionsOnly
      <4>4. Code \in Codes
        BY Running
      <4>5. QED
        BY <1>1, <2>1, <4>3, <4>4 DEF RunsUncalled, Codes
    <3>3. QED
      BY <1>4, <2>1, <3>1, <3>2, EvaluatesLambda
  <2>4. QED
    BY <2>2, <2>3
<1>5. CASE f \notin Lambdas
  <2>1. InScope(f) /\ \E args \in Arguments(g) :
            EvaluateFunction(Known(g), [args EXCEPT ![1] = AccessFunction(f, Mode)],
                             TRUE)
    BY <1>5 DEF Pass
  <2>2. AccessFunction(f, Mode) = Known(f)
    BY <1>1, <1>5, AccessKeeps
  <2>3. PICK v : v = Known(f)
    OBVIOUS
  <2>4. IsFunction(calls, v) /\ v.code = f
    BY <2>1, <2>3, KnownIsFunction
  <2>5. WasPassed(v)
    BY <1>1, <2>1, <2>4, PassedHere DEF InScope
  <2>6. PICK args \in Arguments(g) :
            EvaluateFunction(Known(g), [args EXCEPT ![1] = v], TRUE)
    BY <2>1, <2>2, <2>3
  <2>7. QED
    BY <1>3, <2>4, <2>5, <2>6
<1>6. QED
  BY <1>4, <1>5

LEMMA CallArgumentKeeps ==
    CallInv => \A g \in Functions : CallArgument(g) => CallInv'
<1> SUFFICES ASSUME CallInv, NEW g \in Functions, CallArgument(g) PROVE CallInv'
  OBVIOUS
<1>1. PICK f \in Read(Params, g, 1) :
        /\ f.kind = "function"
        /\ IF f.direct \/ f.bound # <<>>
           THEN EvaluateFunction(f, <<>>, FALSE)
           ELSE \E args \in Arguments(f.code) :
                    EvaluateFunction([f EXCEPT !.direct = TRUE], args, TRUE)
  BY DEF CallArgument
<1>2. IsFunction(calls, f) /\ WasPassed(f)
  <2>1. Default(g, 1).kind # "function"
    BY DEF Default
  <2>2. f = Params[ArgNum(g, 1)] /\ ArgNum(g, 1) <= Len(Params)
    BY <1>1, <2>1 DEF Read
  <2>3. ArgNum(g, 1) \in 1..Len(Params)
    <3>1. BaseArgNum[g] \in Nat /\ Len(Params) \in Nat
      BY BaseArgNumType, Running DEF Codes, IsSeq
    <3>2. QED
      BY <2>2, <3>1 DEF ArgNum
  <2>4. QED
    BY <1>1, <2>2, <2>3, Running DEF Made, Argued, Params
<1>3. f.code \in Functions /\ Own[f.code] \in Nat /\ Optional[f.code] \in Nat
  BY <1>2, Text DEF IsFunction
<1>4. CASE f.direct \/ f.bound # <<>>
  <2>1. EvaluateFunction(f, <<>>, FALSE)
    BY <1>1, <1>4
  <2>2. ProperArguments(calls, f.code, <<>>, FALSE)
    <3>1. <<>> \in Seq({})
      OBVIOUS
    <3>2. IsSeq(<<>>)
      BY <3>1, SeqIsSeq
    <3>3. QED
      BY <1>3, <3>2 DEF ProperArguments
  <2>3. MentionsOnly => RunsUncalled(f.code)
    <3>1. PICK c \in Codes :
            <<c, f.code>> \in Passed /\ (f.bound # <<>> => c # Program)
      BY <1>2 DEF WasPassed
    <3>2. PICK m : m = <<c, f.code>>
      OBVIOUS
    <3>3. m \in Passed /\ m[1] = c /\ m[2] = f.code
      BY <3>1, <3>2
    <3>4. CASE f.direct
      <4>1. f.code \in Lambdas
        BY <1>2, <3>4 DEF IsFunction
      <4>2. Parent[f.code] = c
        BY <3>3, <4>1, FunctionCallsAssumption
      <4>3. MentionsOnly => c # Program
        BY <3>3, <4>1 DEF MentionsOnly
      <4>4. QED
        BY <3>1, <4>2, <4>3 DEF RunsUncalled, Codes
    <3>5. CASE f.bound # <<>>
      <4>1. Parent[f.code] # Program
        <5>1. /\ f.home \in 1..Len(calls) /\ calls[f.home].code = Parent[f.code]
              /\ calls[f.home].params # <<>>
          BY <1>2, <3>5 DEF IsFunction
        <5>2. Made(calls, f.home)
          BY <5>1 DEF CallInv, AllMade
        <5>3. f.home # 1
          BY <5>1, <5>2 DEF Made, InPlace
        <5>4. QED
          BY <5>1, <5>2, <5>3, Text DEF Made, InPlace
      <4>2. QED
        BY <3>1, <3>5, <4>1 DEF RunsUncalled, Codes
    <3>6. QED
      BY <1>4, <3>4, <3>5
  <2>4. Callable(calls, f)
    BY <1>2, FunctionIsCallable
  <2>5. QED
    BY <2>1, <2>2, <2>3, <2>4, Evaluates
<1>5. CASE ~(f.direct \/ f.bound # <<>>)
  <2>1. PICK args \in Arguments(f.code) :
            EvaluateFunction([f EXCEPT !.direct = TRUE], args, TRUE)
    BY <1>1, <1>5
  <2>2. PICK d : d = [f EXCEPT !.direct = TRUE]
    OBVIOUS
  <2>3. d.code = f.code /\ d.bound = f.bound /\ d.home = f.home
    BY <1>2, <2>2 DEF IsFunction, Function
  <2>4. Callable(calls, d)
    <3>1. \E p \in Passed : p[2] = f.code
      <4>1. PICK c \in Codes : <<c, f.code>> \in Passed
        BY <1>2 DEF WasPassed
      <4>2. PICK p : p = <<c, f.code>>
        OBVIOUS
      <4>3. QED
        BY <4>1, <4>2
    <3>2. f.bound = <<>>
      BY <1>5
    <3>3. QED
      BY <1>2, <2>3, <3>1, <3>2 DEF IsFunction, Callable
  <2>5. ProperArguments(calls, d.code, args, TRUE)
    BY <1>3, <2>3, ArgumentsProper
  <2>6. EvaluateFunction(d, args, TRUE)
    BY <2>1, <2>2
  <2>7. QED
    BY <2>4, <2>5, <2>6, Evaluates
<1>6. QED
  BY <1>4, <1>5

(* A call that returns.                                                     *)
LEMMA ReturnFromKeeps ==
    CallInv =>
        \A values :
            ReturnFrom(values) /\ (\A f \in values : IsFunction(calls, f))
            => CallInv'
<1> SUFFICES ASSUME CallInv, NEW values, ReturnFrom(values),
                    \A f \in values : IsFunction(calls, f)
    PROVE  CallInv'
  OBVIOUS
<1> DEFINE l == Len(running)
<1>0. PICK S : S = 1..Len(calls)
  OBVIOUS
<1>1. /\ running \in Seq(S) /\ l \in Nat \ {0, 1} /\ running[1] = 1
      /\ \A k \in 2..l : running[k - 1] < running[k]
  BY <1>0 DEF CallInv, Runs, ReturnFrom
<1>2. running' = SubSeq(running, 1, l - 1)
  BY DEF ReturnFrom
<1>3. Runs(calls, running')
  <2>1. /\ running' \in Seq(S) /\ Len(running') = l - 1
        /\ \A k \in 1..(l - 1) : running'[k] = running[k]
    <3> HIDE DEF l
    <3>1. l - 1 \in Nat \ {0} /\ \A k \in 1..(l - 1) : running[k] \in S
      BY <1>1 DEF l
    <3>2. QED
      BY <1>2, <3>1, SubSeqProperties
  <2>2. \A k \in 2..(l - 1) : running'[k - 1] < running'[k]
    BY <1>1, <2>1
  <2>3. Len(running') > 0 /\ running'[1] = 1
    <3> HIDE DEF l
    <3>1. QED
      BY <1>1, <2>1
  <2>4. \A k \in 2..Len(running') : running'[k - 1] < running'[k]
    BY <2>1, <2>2
  <2>5. running' \in Seq(1..Len(calls))
    BY <1>0, <2>1
  <2>6. QED
    BY <2>3, <2>4, <2>5 DEF Runs
<1>4. PICK n : n = running[l - 1]
  OBVIOUS
<1>5. n \in 1..Len(calls)
  <2>1. n \in S
    <3> HIDE DEF l
    <3>1. l - 1 \in 1..l
      BY <1>1
    <3>2. QED
      BY <1>1, <1>4, <3>1 DEF l
  <2>2. QED
    BY <1>0, <2>1
<1>6. calls' = [calls EXCEPT ![n].held = @ \cup values]
  BY <1>4 DEF ReturnFrom
<1>7. QED
  BY <1>3, <1>5, <1>6, HeldKeeps

LEMMA ReturnFunctionKeeps ==
    KeepsOnce /\ CallInv => \A g \in Functions : ReturnFunction(g) => CallInv'
<1> SUFFICES ASSUME KeepsOnce, CallInv, NEW g \in Functions, ReturnFunction(g)
    PROVE  CallInv'
  OBVIOUS
<1>1. <<Code, g>> \in Returned
  BY DEF ReturnFunction
<1>2. CASE g \in Lambdas
  <2>1. Parent[g] = Code
    BY <1>2 DEF ReturnFunction
  <2>2. CASE DontEvaluateLambdas \in Mode
    <3>1. PICK v : v = {Lambda(g)}
      OBVIOUS
    <3>2. ReturnFrom(v)
      BY <1>2, <2>2, <3>1 DEF ReturnFunction
    <3>3. \A f \in v : IsFunction(calls, f)
      BY <1>2, <2>1, <3>1, LambdaIsFunction
    <3>4. QED
      BY <3>2, <3>3, ReturnFromKeeps
  <2>3. CASE DontEvaluateLambdas \notin Mode
    <3>1. EvaluateBody(g, Cur, Params, <<>>, FALSE)
      BY <1>2, <2>3 DEF ReturnFunction
    <3>2. ASSUME MentionsOnly PROVE RunsUncalled(g)
      <4>1. PICK m : m = <<Code, g>>
        OBVIOUS
      <4>2. m \in Returned /\ m[1] = Code /\ m[2] = g
        BY <1>1, <4>1
      <4>3. Code # Program
        BY <1>2, <3>2, <4>2 DEF MentionsOnly
      <4>4. Code \in Lambdas \/ \E p \in Passed : p[2] = Code
        BY <2>3, <4>3, Running DEF Made, Moded, Mode, Code
      <4>5. Code \in Lambdas
        BY <1>2, <3>2, <4>2, <4>4 DEF MentionsOnly
      <4>6. QED
        BY <1>2, <2>1, <4>3, <4>5 DEF RunsUncalled
    <3>3. QED
      BY <1>2, <2>1, <3>1, <3>2, EvaluatesLambda
  <2>4. QED
    BY <2>2, <2>3
<1>3. CASE g \notin Lambdas
  <2>1. PICK v : v = {AccessFunction(g, Mode)}
    OBVIOUS
  <2>2. InScope(g) /\ ReturnFrom(v)
    BY <1>3, <2>1 DEF ReturnFunction
  <2>3. \A f \in v : IsFunction(calls, f)
    BY <1>1, <1>3, <2>1, <2>2, AccessKeeps, KnownIsFunction
  <2>4. QED
    BY <2>2, <2>3, ReturnFromKeeps
<1>4. QED
  BY <1>2, <1>3

LEMMA NextKeeps == KeepsOnce /\ CallInv /\ [CallsNext]_callVars => CallInv'
<1> SUFFICES ASSUME KeepsOnce, CallInv, [CallsNext]_callVars PROVE CallInv'
  OBVIOUS
<1>1. CASE UNCHANGED callVars
  BY <1>1 DEF callVars, CallInv
<1>2. ASSUME NEW g \in Functions,
             \/ Define(g) \/ Assign(g) \/ CallNamed(g) \/ CallArgument(g) \/ Map(g)
             \/ ReturnFunction(g)
             \/ \E f \in Functions : Pass(g, f)
      PROVE  CallInv'
  BY <1>2, DefineKeeps, AssignKeeps, CallNamedKeeps, CallArgumentKeeps, MapKeeps,
     ReturnFunctionKeeps, PassKeeps
<1>3. ASSUME NEW f \in calls[Cur].held, CallHeld(f) PROVE CallInv'
  BY <1>3, CallHeldKeeps
<1>4. CASE ReturnFrom({})
  <2>1. PICK v : v = {}
    OBVIOUS
  <2>2. QED
    BY <1>4, <2>1, ReturnFromKeeps
<1>5. QED
  BY <1>1, <1>2, <1>3, <1>4 DEF CallsNext

-----------------------------------------------------------------------------
(* What every call reads.                                                   *)

LEMMA TypeFollows == CallInv => CallsTypeOK
<1> SUFFICES ASSUME CallInv PROVE CallsTypeOK
  OBVIOUS
<1>1. Len(calls) <= MaxCalls /\ DOMAIN calls = 1..Len(calls)
  BY Text DEF CallInv, AllMade, IsSeq
<1>2. ASSUME NEW n \in DOMAIN calls
      PROVE  /\ calls[n].code \in Functions \cup {Program}
             /\ calls[n].mode \subseteq {DontWrap, DontEvaluateLambdas}
             /\ calls[n].code # Program =>
                Len(calls[n].params) <= ArgNum(calls[n].code, Own[calls[n].code])
  BY <1>1 DEF CallInv, AllMade, Made, InPlace, Moded, Counted
<1>3. running[1] = 1 /\ \A k \in 2..Len(running) : running[k - 1] < running[k]
  BY DEF CallInv, Runs
<1>4. QED
  BY <1>1, <1>2, <1>3 DEF CallsTypeOK

LEMMA AroundFollows ==
    \A n : AroundIn(calls, n) = Around(n) /\ (FullyCalledIn(calls, n) <=> FullyCalled(n))
BY DEF AroundIn, Around, FullyCalledIn, FullyCalled

(* The arguments of a function start where the compiler has numbered them,  *)
(* if the functions around it have got all of theirs.                       *)
LEMMA StartsWhereNumbered ==
    CallInv =>
        \A n \in 1..Len(calls) :
            n # 1 /\ (\A m \in Around(n) \ {n} : FullyCalled(m)) =>
                Len(calls[HomeIn(calls, n)].params) = BaseArgNum[calls[n].code]
<1> SUFFICES ASSUME CallInv, NEW n \in 1..Len(calls), n # 1,
                    \A m \in Around(n) \ {n} : FullyCalled(m)
    PROVE  Len(calls[HomeIn(calls, n)].params) = BaseArgNum[calls[n].code]
  OBVIOUS
<1> DEFINE h == HomeIn(calls, n)
           g == calls[n].code
<1>1. /\ Made(calls, n) /\ g \in Functions /\ g \in Codes
      /\ Parent[g] \in DOMAIN calls[n].scope /\ h \in 1..(n - 1)
      /\ Len(calls) \in Nat
  BY DEF CallInv, AllMade, Made, InPlace, IsSeq, Codes
<1>2. calls[h].code = Parent[g] /\ h = calls[n].scope[Parent[g]]
  BY <1>1 DEF Made, Enclosed, HomeIn
<1>3. Made(calls, h) /\ h \in 1..Len(calls)
  BY <1>1 DEF CallInv, AllMade
<1>4. BaseArgNum[g] = IF Parent[g] = Program THEN 0
                      ELSE BaseArgNum[Parent[g]] + Own[Parent[g]]
  BY <1>1, BaseArgNumDef, Text
<1> HIDE DEF h, g
<1>5. CASE h = 1
  BY <1>2, <1>3, <1>4, <1>5 DEF Made, InPlace, h, g
<1>6. CASE h # 1
  <2>1. Parent[g] # Program
    BY <1>2, <1>3, <1>6, Text DEF Made, InPlace
  <2>2. \A m \in AroundIn(calls, h) : FullyCalledIn(calls, m)
    <3>1. ASSUME NEW m \in AroundIn(calls, h) PROVE FullyCalledIn(calls, m)
      <4>1. PICK c \in DOMAIN calls[h].scope \ {Program} : m = calls[h].scope[c]
        BY DEF AroundIn
      <4>2. c \in DOMAIN calls[n].scope /\ calls[n].scope[c] = m
        BY <1>1, <1>2, <4>1 DEF Made, Enclosed
      <4>3. m \in 1..h
        BY <1>3, <4>1 DEF Made, Enclosed
      <4>4. m # n
        BY <1>1, <4>3
      <4>5. m \in Around(n) \ {n}
        BY <4>1, <4>2, <4>4 DEF Around
      <4>6. QED
        BY <4>5, AroundFollows
    <3>2. QED
      BY <3>1
  <2>3. Len(calls[h].params) = ArgNum(Parent[g], Own[Parent[g]])
    BY <1>2, <1>3, <1>6, <2>2 DEF Made, Counted
  <2>4. QED
    BY <1>4, <2>1, <2>3 DEF ArgNum, h, g
<1>7. QED
  BY <1>5, <1>6

LEMMA ReadsFollow == CallInv => ParametersReadArguments
<1> SUFFICES ASSUME CallInv, NEW n \in DOMAIN calls,
                    calls[n].called, \A m \in Around(n) \ {n} : FullyCalled(m),
                    NEW m \in Around(n), NEW i \in DOMAIN calls[m].meant
    PROVE  Read(calls[n].params, calls[m].code, i) = {calls[m].meant[i]}
  BY DEF ParametersReadArguments
<1>1. n \in 1..Len(calls) /\ Len(calls) \in Nat /\ Made(calls, n)
  BY DEF CallInv, AllMade, IsSeq
<1>2. PICK c \in DOMAIN calls[n].scope \ {Program} : m = calls[n].scope[c]
  BY DEF Around
<1>3. /\ m \in 1..n /\ calls[m].code = c
      /\ StartsWith(calls[n].params, calls[m].params)
      /\ \A d \in DOMAIN calls[m].scope :
            d \in DOMAIN calls[n].scope /\ calls[n].scope[d] = calls[m].scope[d]
  BY <1>1, <1>2 DEF Made, Enclosed
<1>4. m \in 1..Len(calls) /\ Made(calls, m)
  BY <1>1, <1>3 DEF CallInv, AllMade
<1>5. m # 1 /\ c \in Functions
  BY <1>2, <1>3, <1>4, Text DEF Made, InPlace
<1>6. \A k \in Around(m) \ {m} : FullyCalled(k)
  <2>1. ASSUME NEW k \in Around(m) \ {m} PROVE FullyCalled(k)
    <3>1. PICK d \in DOMAIN calls[m].scope \ {Program} : k = calls[m].scope[d]
      BY DEF Around
    <3>2. k \in 1..m
      BY <1>4, <3>1 DEF Made, Enclosed
    <3>3. k \in Around(n) /\ k # n
      BY <1>1, <1>3, <3>1, <3>2 DEF Around
    <3>4. QED
      BY <3>3
  <2>2. QED
    BY <2>1
<1> DEFINE base == Len(calls[HomeIn(calls, m)].params)
           len == Len(calls[m].params)
<1>7. base = BaseArgNum[c]
  BY <1>3, <1>4, <1>5, <1>6, StartsWhereNumbered
<1>8. /\ len \in base..(base + Own[c])
      /\ calls[m].meant = [k \in 1..Own[c] |->
            IF base + k <= len THEN calls[m].params[base + k] ELSE Default(c, k)]
      /\ calls[m].called => len >= base + Own[c] - Optional[c]
  BY <1>3, <1>4, <1>5 DEF Made, Given, OwnArguments
<1>9. /\ base \in Nat /\ Own[c] \in Nat /\ Optional[c] \in Nat /\ len \in Nat
      /\ Len(calls[n].params) \in Nat
  BY <1>1, <1>4, <1>5, <1>7, BaseArgNumType, Text
     DEF Made, Given, IsSeq, Codes
<1> HIDE DEF base, len
<1>10. i \in 1..Own[c] /\ ArgNum(c, i) = base + i
  BY <1>7, <1>8 DEF ArgNum
<1>11. CASE base + i <= len
  <2>1. base + i \in 1..len /\ base + i <= Len(calls[n].params)
    BY <1>3, <1>9, <1>10, <1>11 DEF StartsWith, len
  <2>2. calls[n].params[base + i] = calls[m].params[base + i]
    BY <1>3, <2>1 DEF StartsWith, len
  <2>3. calls[m].meant[i] = calls[m].params[base + i]
    BY <1>8, <1>10, <1>11
  <2>4. QED
    BY <1>3, <1>10, <2>1, <2>2, <2>3 DEF Read
<1>12. CASE ~(base + i <= len)
  <2>1. calls[m].meant[i] = Default(c, i)
    BY <1>8, <1>10, <1>12
  <2>2. m = n
    <3>1. ASSUME FullyCalled(m) PROVE FALSE
      BY <2>1, <3>1 DEF FullyCalled, Default
    <3>2. QED
      BY <3>1
  <2>3. ~(base + i <= Len(calls[n].params)) /\ i > Own[c] - Optional[c]
    BY <1>8, <1>9, <1>10, <1>12, <2>2 DEF len
  <2>4. QED
    BY <1>3, <1>10, <2>1, <2>3 DEF Read
<1>13. QED
  BY <1>11, <1>12

LEMMA OnlyCallsFollow == MentionsOnly /\ CallInv => OnlyCallsEvaluate
<1> SUFFICES ASSUME MentionsOnly, CallInv, NEW n \in DOMAIN calls
    PROVE  \/ calls[n].called
           \/ /\ Parent[calls[n].code] # Program
              /\ \/ \E c \in Functions : <<c, calls[n].code>> \in Passed
                 \/ {calls[n].code, Parent[calls[n].code]} \subseteq Lambdas
  BY DEF OnlyCallsEvaluate
<1>1. n \in 1..Len(calls)
  BY DEF CallInv, AllMade, IsSeq
<1>2. Justified(calls, n)
  BY <1>1 DEF CallInv, AllMade, Made
<1>3. QED
  BY <1>2 DEF Justified, RunsUncalled

-----------------------------------------------------------------------------
(* The invariant: what is said of the calls above holds of all of them.     *)
THEOREM CallsInvariant ==
    ASSUME KeepsOnce
    PROVE  CallsSpec => []CallInv
<1>1. CallsInit => CallInv
  BY Initially
<1>2. CallInv /\ [CallsNext]_callVars => CallInv'
  BY NextKeeps
<1>3. QED
  BY <1>1, <1>2, PTL DEF CallsSpec

(* Every call has, after the arguments it keeps, its own, and keeps none    *)
(* twice (compiler.cpp numbers that many; add_frame, lambda::eval and       *)
(* function::eval put them there), in every program in which only the       *)
(* program itself defines variables by the name of a function and lambda    *)
(* expressions pass and return lambda expressions only.                     *)
THEOREM TypesOfCalls ==
    ASSUME KeepsOnce
    PROVE  CallsSpec => []CallsTypeOK
BY CallsInvariant, TypeFollows, PTL

(* In such a program every parameter a call can name, its own or one of a   *)
(* function around it, reads the argument that call was given, or its       *)
(* default (access_argument::eval with the number compile_body gave it),    *)
(* however deep functions are nested and wherever they are called from.     *)
THEOREM ReadsArguments ==
    ASSUME KeepsOnce
    PROVE  CallsSpec => []ParametersReadArguments
BY CallsInvariant, ReadsFollow, PTL

(* If moreover the program passes and returns no lambda expression of its   *)
(* own, and no function that is passed on returns one, then functions run   *)
(* because they are called, with the two exceptions OnlyCallsEvaluate names *)
(* (lambda.cpp: "a function object with the arguments and body specified"). *)
THEOREM EvaluatesCallsOnly ==
    ASSUME KeepsOnce, MentionsOnly
    PROVE  CallsSpec => []OnlyCallsEvaluate
<1>1. CallInv => OnlyCallsEvaluate
  BY OnlyCallsFollow
<1>2. CallsSpec => []CallInv
  BY CallsInvariant
<1>3. QED
  BY <1>1, <1>2, PTL

=============================================================================
