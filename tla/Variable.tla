------------------------------ MODULE Variable ------------------------------
(***************************************************************************)
(* The `variable' primitive and the storage its values live in             *)
(* (src/src/execution_tree/primitives/variable.cpp).                       *)
(*                                                                         *)
(* A value of the execution tree either owns its array or is a reference:  *)
(* a raw, non-owning pointer to the array of another value.  Evaluating a  *)
(* variable yields such a reference; storing into a variable copies it.  A *)
(* variable keeps two values: operands_[0], the expression it was defined  *)
(* with, and bound_value_, what it was bound or assigned to later.         *)
(*                                                                         *)
(* HPX tasks evaluate expressions.  A step is a stretch of code without a  *)
(* suspension point, so tasks interleave where operands are evaluated.     *)
(* An operand stack stands for the operands a task has evaluated but not   *)
(* used yet.  Exceptions unwind the whole task.                            *)
(***************************************************************************)
EXTENDS Integers, Sequences, FiniteSets

CONSTANTS
    Vars,        \* variable components
    Globals,     \* those created by define_global
    Tasks,       \* HPX tasks that evaluate expressions
    Cells,       \* array storage handed out by the allocator
    Elems,       \* array elements (they also serve as indices)
    MaxLen,      \* longest array
    MaxOps,      \* bound on the operands the tasks hold, all together
    MaxPending   \* bound on their sliced stores in progress

ASSUME VariableAssumption ==
    /\ Globals \subseteq Vars
    /\ MaxLen \in Nat \ {0}
    /\ Elems \subseteq Int
    /\ 0..(MaxLen - 1) \subseteq Elems
    /\ MaxOps \in Nat
    /\ MaxPending \in Nat

Arrays == UNION {[1..n -> Elems] : n \in 1..MaxLen}

Size(a) == CHOOSE n \in 1..MaxLen : a \in [1..n -> Elems]

-----------------------------------------------------------------------------
(* What a variable holds: nothing, a primitive to evaluate, an array it     *)
(* owns, or a reference to an array.                                        *)

Nil == [kind |-> "nil"]
Prim == [kind |-> "primitive"]
Own(c) == [kind |-> "own", cell |-> c]
Ref(c) == [kind |-> "ref", cell |-> c]

Slots == {Nil, Prim} \cup [kind : {"own", "ref"}, cell : Cells]

(* What an operand is: nothing, a temporary (no one else can refer to its   *)
(* array, so the array is part of it), or a reference.                      *)

Temp(a) == [kind |-> "temp", array |-> a]

Operands ==
    {Nil} \cup [kind : {"temp"}, array : Arrays]
          \cup [kind : {"ref"}, cell : Cells]

Valid(s) == s.kind # "nil"

(* A sliced store whose index is being evaluated: its variable, the value   *)
(* to store, and how many operands the task held before the index.          *)
PendingStores == [var : Vars, value : Operands, base : Nat]

VARIABLES
    value_set,    \* [Vars -> BOOLEAN]: the variable has been created
    operand0,     \* [Vars -> Slots]: operands_[0]
    bound_value,  \* [Vars -> Slots]
    heap,         \* allocated cells and the arrays in them
    ops,          \* [Tasks -> Seq(Operands)]
    pending       \* [Tasks -> Seq(PendingStores)]

slots == <<value_set, operand0, bound_value>>
vars == <<slots, heap, ops, pending>>

(* Mutant: the definition hides what was stored later.                      *)
DefinitionFirst(x) == IF Valid(operand0[x]) THEN operand0[x] ELSE bound_value[x]

(* The value a variable evaluates to.                                       *)
Target(x) == IF Valid(bound_value[x]) THEN bound_value[x] ELSE operand0[x]

-----------------------------------------------------------------------------
(* Storage.                                                                 *)

Owned ==
    {c \in Cells : \E x \in Vars : Own(c) \in {operand0[x], bound_value[x]}}

FreeCells == Cells \ DOMAIN heap

(* The arrays a reading of operand v may return.  Reading through a         *)
(* reference whose array was freed and not reused is undefined.             *)
Read(v) ==
    IF v.kind = "temp" THEN {v.array}
    ELSE IF v.cell \in DOMAIN heap THEN {heap[v.cell]} ELSE Arrays

(* Storage after the step: what its variables own no longer is freed.       *)
Keep(h) == heap' = [c \in DOMAIN h \cap Owned' |-> h[c]]

Allocate(h, c, a) == [d \in DOMAIN h \cup {c} |-> IF d = c THEN a ELSE h[d]]

(* Writing through a slot or an operand; a temporary or dangling one        *)
(* changes no live array.                                                   *)
Write(h, s, a) ==
    [d \in DOMAIN h |->
        IF s.kind \in {"own", "ref"} /\ d = s.cell THEN a ELSE h[d]]

-----------------------------------------------------------------------------
(* Indexing a one-dimensional array by an array of integers.                *)

CheckIndex(i, n) == IF i < 0 THEN i + n ELSE i

InRange(i, n) == CheckIndex(i, n) \in 0..(n - 1)

(* The index array after check_index went over it in place; it stops at the *)
(* first index that is out of range.  That test is made with PHYLANX_DEBUG; *)
(* without, all indices are normalized before Blaze refuses one.            *)
Normalized(ix, n) ==
    [k \in DOMAIN ix |->
        IF \A j \in 1..k : InRange(ix[j], n) THEN CheckIndex(ix[k], n)
        ELSE ix[k]]

AllInRange(ix, n) == \A k \in DOMAIN ix : InRange(ix[k], n)

Selected(a, ix) == [k \in DOMAIN ix |-> a[CheckIndex(ix[k], Size(a)) + 1]]

(* a with the elements at the indices ix replaced by those of v (or by its  *)
(* only element); of several writes to one element the last one stays.      *)
Assigned(a, ix, v) ==
    LET hits(k) == {j \in DOMAIN ix : CheckIndex(ix[j], Size(a)) + 1 = k}
        last(k) == CHOOSE j \in hits(k) : \A i \in hits(k) : i <= j
    IN  [k \in DOMAIN a |->
            IF hits(k) = {} THEN a[k]
            ELSE IF Size(v) = 1 THEN v[1] ELSE v[last(k)]]

-----------------------------------------------------------------------------
(* The operand stack of a task.                                             *)

Base(t) == IF pending[t] = <<>> THEN 0 ELSE pending[t][Len(pending[t])].base

Held(t) == Len(ops[t]) - Base(t)

Top(t) == ops[t][Len(ops[t])]

Below(t) == ops[t][Len(ops[t]) - 1]

Dropped(t, n) == SubSeq(ops[t], 1, Len(ops[t]) - n)

(* An exception discards everything the task has evaluated.                 *)
Throw(t) ==
    /\ ops' = [ops EXCEPT ![t] = <<>>]
    /\ pending' = [pending EXCEPT ![t] = <<>>]

(* The length of the tasks' sequences s, taken together.                    *)
Total(s) == Cardinality(UNION {{t} \X DOMAIN s[t] : t \in Tasks})

Push(t, n, v) == ops' = [ops EXCEPT ![t] = Append(Dropped(t, n), v)]

Pop(t, n) == ops' = [ops EXCEPT ![t] = Dropped(t, n)]

-----------------------------------------------------------------------------
(* variable::eval without slicing, and the evaluation of anything that      *)
(* computes a new array.                                                    *)

EvalVariable(t, x) ==
    /\ value_set[x]
    /\ Total(ops) < MaxOps
    /\ Target(x) # Prim
    /\ Push(t, 0, IF Valid(Target(x)) THEN Ref(Target(x).cell) ELSE Nil)
    /\ UNCHANGED <<slots, heap, pending>>

EvalExpression(t) ==
    /\ Total(ops) < MaxOps
    /\ \E a \in Arrays : Push(t, 0, Temp(a))
    /\ UNCHANGED <<slots, heap, pending>>

(* The consumer of an operand is done with it.                              *)
Consume(t) ==
    /\ Held(t) > 0
    /\ Pop(t, 1)
    /\ UNCHANGED <<slots, heap, pending>>

-----------------------------------------------------------------------------
(* define and define_global: variable_factory::eval, the constructor of the *)
(* new variable, then variable::bind.                                       *)

(* extract_copy_value: the slots set to the operand's own copy.             *)
CopyToOperand0(x, v) ==
    \E a \in Read(v), c \in FreeCells :
        /\ operand0' = [operand0 EXCEPT ![x] = Own(c)]
        /\ UNCHANGED bound_value
        /\ Keep(Allocate(heap, c, a))

(* Mutant: a reference that is stored stays a reference.                    *)
StoreReference(x, v) ==
    \E a \in Read(v), c \in FreeCells :
        /\ bound_value' = [bound_value EXCEPT ![x] =
                IF v.kind = "ref" THEN v ELSE Own(c)]
        /\ Keep(Allocate(heap, c, a))

CopyToBound(x, v) ==
    \E a \in Read(v), c \in FreeCells :
        /\ bound_value' = [bound_value EXCEPT ![x] = Own(c)]
        /\ Keep(Allocate(heap, c, a))

DefineNil(t, x) ==
    /\ ~value_set[x]
    /\ value_set' = [value_set EXCEPT ![x] = TRUE]
    /\ UNCHANGED <<operand0, bound_value, heap, ops, pending>>

(* A literal body is copied; the variable is bound to a reference to it.    *)
DefineLiteral(t, x) ==
    /\ ~value_set[x]
    /\ value_set' = [value_set EXCEPT ![x] = TRUE]
    /\ \E a \in Arrays, c \in FreeCells :
        /\ operand0' = [operand0 EXCEPT ![x] = Own(c)]
        /\ bound_value' = [bound_value EXCEPT ![x] = Ref(c)]
        /\ Keep(Allocate(heap, c, a))
    /\ UNCHANGED <<ops, pending>>

(* Mutant: bind keeps the body unevaluated.                                 *)
BindUnevaluated(t, x) ==
    /\ ~value_set[x]
    /\ value_set' = [value_set EXCEPT ![x] = TRUE]
    /\ operand0' = [operand0 EXCEPT ![x] = Prim]
    /\ bound_value' = [bound_value EXCEPT ![x] = Prim]
    /\ UNCHANGED <<heap, ops, pending>>

(* The body is an expression; its value is the topmost operand.             *)
DefineExpression(t, x) ==
    /\ ~value_set[x]
    /\ Held(t) > 0
    /\ Valid(Top(t))
    /\ value_set' = [value_set EXCEPT ![x] = TRUE]
    /\ operand0' = [operand0 EXCEPT ![x] = Prim]
    /\ CopyToBound(x, Top(t))
    /\ Pop(t, 1)
    /\ UNCHANGED pending

(* A second define_global finds the variable in the context and binds it    *)
(* again to the body it was first defined with.                             *)
RebindExpression(t, x) ==
    /\ x \in Globals /\ value_set[x]
    /\ operand0[x] = Prim
    /\ Held(t) > 0
    /\ Valid(Top(t))
    /\ UNCHANGED operand0
    /\ CopyToBound(x, Top(t))
    /\ Pop(t, 1)
    /\ UNCHANGED <<value_set, pending>>

RebindValue(t, x) ==
    /\ x \in Globals /\ value_set[x]
    /\ operand0[x] # Prim
    /\ UNCHANGED operand0
    /\ bound_value' = [bound_value EXCEPT ![x] =
            IF Valid(operand0[x]) THEN Ref(operand0[x].cell) ELSE Nil]
    /\ Keep(heap)
    /\ UNCHANGED <<value_set, ops, pending>>

-----------------------------------------------------------------------------
(* variable::store without slicing arguments.                               *)

(* Mutant: every store takes the place of the definition.                   *)
StoreOverDefinition(t, x) ==
    /\ value_set[x]
    /\ Held(t) > 0
    /\ Valid(Top(t))
    /\ CopyToOperand0(x, Top(t))
    /\ Pop(t, 1)
    /\ UNCHANGED <<value_set, pending>>

StoreInitial(t, x) ==
    /\ value_set[x] /\ ~Valid(operand0[x])
    /\ Held(t) > 0
    /\ Valid(Top(t))
    /\ CopyToOperand0(x, Top(t))
    /\ Pop(t, 1)
    /\ UNCHANGED <<value_set, pending>>

Store(t, x) ==
    /\ value_set[x] /\ Valid(operand0[x])
    /\ Held(t) > 0
    /\ Valid(Top(t))
    /\ UNCHANGED operand0
    /\ CopyToBound(x, Top(t))
    /\ Pop(t, 1)
    /\ UNCHANGED <<value_set, pending>>

(* "the right hand side expression is not valid"                            *)
StoreInvalid(t, x) ==
    /\ value_set[x]
    /\ Held(t) > 0
    /\ ~Valid(Top(t))
    /\ Throw(t)
    /\ UNCHANGED <<slots, heap>>

-----------------------------------------------------------------------------
(* variable::store1dslice.  The value has been evaluated; whether there is  *)
(* an array to store into is tested before the index is evaluated.          *)

(* Mutant: only the definition is tested.                                   *)
UndefinedRefused(x) == ~Valid(operand0[x])

SliceRefused(x) == ~Valid(operand0[x]) \/ ~Valid(bound_value[x])

SliceStoreBegin(t, x) ==
    /\ value_set[x] /\ ~SliceRefused(x)
    /\ Total(pending) < MaxPending
    /\ Held(t) > 0
    /\ Pop(t, 1)
    /\ pending' = [pending EXCEPT ![t] =
            Append(@, [var |-> x, value |-> Top(t), base |-> Len(ops[t]) - 1])]
    /\ UNCHANGED <<slots, heap>>

SliceStoreRefused(t, x) ==
    /\ value_set[x] /\ SliceRefused(x)
    /\ Held(t) > 0
    /\ Throw(t)
    /\ UNCHANGED <<slots, heap>>

(* The index is the topmost operand.  The value is copied, its size is      *)
(* compared with the index's, the index is normalized in place, and the     *)
(* array of bound_value_ is overwritten where it is; bound_value_ stays the *)
(* owner or the reference it was.                                           *)
SliceStoreEnd(t) ==
    /\ pending[t] # <<>>
    /\ Held(t) = 1
    /\ Valid(Top(t))
    /\ LET p == pending[t][Len(pending[t])]
           s == bound_value[p.var]
       IN  /\ Valid(p.value)
           /\ \E ix \in Read(Top(t)), v \in Read(p.value) :
            LET old == heap[s.cell]
                fits == Size(v) \in {1, Size(ix)}
                h1 == Write(heap, Top(t), Normalized(ix, Size(old)))
                cur == h1[s.cell]
            IN  IF fits /\ AllInRange(ix, Size(old))
                THEN /\ heap' = Write(h1, s, Assigned(cur, ix, v))
                     /\ Pop(t, 1)
                     /\ pending' = [pending EXCEPT ![t] =
                            SubSeq(@, 1, Len(@) - 1)]
                ELSE /\ heap' = IF fits THEN h1 ELSE heap
                     /\ Throw(t)
    /\ UNCHANGED slots

(* The index is there, but the value to store is none.                      *)
SliceStoreInvalid(t) ==
    /\ pending[t] # <<>>
    /\ Held(t) = 1
    /\ ~Valid(pending[t][Len(pending[t])].value)
    /\ Throw(t)
    /\ UNCHANGED <<slots, heap>>

-----------------------------------------------------------------------------
(* Reading a slice.  An access to a variable evaluates the index first and  *)
(* reads the variable when it is there; the slice primitive holds both      *)
(* operands.  The result is a new array, the index is normalized in place.  *)

Slice(t, source, n) ==
    \E ix \in Read(Top(t)), a \in Read(source) :
        /\ heap' = Write(heap, Top(t), Normalized(ix, Size(a)))
        /\ IF AllInRange(ix, Size(a))
           THEN /\ Push(t, n, Temp(Selected(a, ix)))
                /\ UNCHANGED pending
           ELSE Throw(t)
        /\ UNCHANGED slots

SliceVariable(t, x) ==
    /\ value_set[x] /\ Target(x) \notin {Nil, Prim}
    /\ Held(t) > 0
    /\ Valid(Top(t))
    /\ Slice(t, Ref(Target(x).cell), 1)

SliceOperand(t) ==
    /\ Held(t) > 1
    /\ Valid(Top(t)) /\ Valid(Below(t))
    /\ Slice(t, Below(t), 2)

-----------------------------------------------------------------------------
Init ==
    /\ value_set = [x \in Vars |-> FALSE]
    /\ operand0 = [x \in Vars |-> Nil]
    /\ bound_value = [x \in Vars |-> Nil]
    /\ heap = <<>>
    /\ ops = [t \in Tasks |-> <<>>]
    /\ pending = [t \in Tasks |-> <<>>]

Define(t, x) ==
    \/ DefineNil(t, x)
    \/ DefineLiteral(t, x)
    \/ DefineExpression(t, x)
    \/ RebindExpression(t, x)
    \/ RebindValue(t, x)

StoreWhole(t, x) ==
    \/ StoreInitial(t, x)
    \/ Store(t, x)
    \/ StoreInvalid(t, x)

StoreSlice(t, x) ==
    \/ SliceStoreBegin(t, x)
    \/ SliceStoreRefused(t, x)

Next ==
    \E t \in Tasks :
        \/ EvalExpression(t) \/ Consume(t)
        \/ SliceOperand(t) \/ SliceStoreEnd(t) \/ SliceStoreInvalid(t)
        \/ \E x \in Vars :
            \/ EvalVariable(t, x) \/ SliceVariable(t, x)
            \/ Define(t, x) \/ StoreWhole(t, x) \/ StoreSlice(t, x)

Spec == Init /\ [][Next]_vars

-----------------------------------------------------------------------------
(* Every component of the state is of its type.                             *)
TypeOK ==
    /\ value_set \in [Vars -> BOOLEAN]
    /\ operand0 \in [Vars -> Slots]
    /\ bound_value \in [Vars -> Slots \ {Prim}]
    /\ DOMAIN heap \subseteq Cells
    /\ \A c \in DOMAIN heap : heap[c] \in Arrays
    /\ ops \in [Tasks -> Seq(Operands)]
    /\ pending \in [Tasks -> Seq(PendingStores)]

(* Two values never own the same array.                                     *)
UniqueOwner ==
    \A x, y \in Vars, c \in Cells :
        /\ operand0[x] = Own(c) /\ operand0[y] = Own(c) => x = y
        /\ bound_value[x] = Own(c) /\ bound_value[y] = Own(c) => x = y
        /\ ~(operand0[x] = Own(c) /\ bound_value[y] = Own(c))

(* A variable refers at most to the value it was defined with: never to the *)
(* array of another variable, whatever references were stored into it.      *)
OwnReferences ==
    \A x \in Vars, c \in Cells :
        /\ operand0[x] # Ref(c)
        /\ bound_value[x] = Ref(c) => operand0[x] = Own(c)

(* What a variable owns is allocated, and nothing else is.                  *)
OwnedAllocated == Owned = DOMAIN heap

(* The value of a variable that has one is always there to be read.         *)
ValuesLive ==
    \A x \in Vars :
        Target(x).kind \in {"own", "ref"} => Target(x).cell \in DOMAIN heap

(* The storage discipline: whatever the tasks evaluate and store, in        *)
(* whatever order, no variable comes to dangle or to share an array with    *)
(* another one (extract_copy_value on every store, the reference bind makes *)
(* to operands_[0]).                                                        *)
StorageSafe == UniqueOwner /\ OwnReferences /\ OwnedAllocated /\ ValuesLive

(* store1dslice tests bound_value_ before the index is evaluated and uses   *)
(* it afterwards: whatever ran in between, it still holds an array.         *)
PendingTargetLive ==
    \A t \in Tasks : \A i \in DOMAIN pending[t] :
        LET s == bound_value[pending[t][i].var]
        IN  s.kind \in {"own", "ref"} /\ s.cell \in DOMAIN heap

-----------------------------------------------------------------------------
(* The value of a variable, for its users.                                  *)
Value(x) ==
    IF Target(x).kind \in {"own", "ref"} /\ Target(x).cell \in DOMAIN heap
    THEN heap[Target(x).cell] ELSE <<>>

(* A sliced store in progress: the elements it may bring.  What a reference *)
(* refers to may still be changed while the index is evaluated.             *)
Updating(t) ==
    [i \in DOMAIN pending[t] |->
        LET v == pending[t][i].value
        IN  [var |-> pending[t][i].var,
             elements |-> IF v.kind = "temp"
                          THEN {v.array[k] : k \in DOMAIN v.array}
                          ELSE Elems]]

Values == INSTANCE ValueStore WITH
    value <- [x \in Vars |-> Value(x)],
    updating <- [t \in Tasks |-> Updating(t)]

(* Variables behave as values: storing, sharing references, failing and     *)
(* interleaving never change the value of another variable, lose an update  *)
(* or leave half of one.                                                    *)
BehavesAsValues == Values!Spec

(* A value that was stored is the one the next evaluation finds, whichever  *)
(* of its two values the variable keeps it in.                              *)
StoredValueIsRead ==
    [][\A t \in Tasks, x \in Vars :
        StoreInitial(t, x) \/ Store(t, x) => Value(x)' \in Read(Top(t))]_vars

(* Reading a slice changes no variable, so an index variable can be used    *)
(* again with another array.                                                *)
ReadsDoNotWrite ==
    [][\A t \in Tasks :
        SliceOperand(t) \/ (\E x \in Vars : SliceVariable(t, x))
            => \A y \in Vars : Value(y)' = Value(y)]_vars
=============================================================================
