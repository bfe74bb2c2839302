--------------------------- MODULE VariableProofs ---------------------------
(***************************************************************************)
(* Proofs about Variable: its type invariant, its storage discipline and   *)
(* the safety of a sliced store whose index is evaluated, for any number   *)
(* of variables, tasks and cells, any arrays and any nesting.              *)
(***************************************************************************)
EXTENDS Variable, WellFoundedInduction, SequenceTheorems, TLAPS

USE VariableAssumption

-----------------------------------------------------------------------------
(* Arrays and what indexing makes of them.                                  *)

(* The size of an array is one of 1..MaxLen and the array is over it.       *)
LEMMA SizeType ==
    ASSUME NEW a \in Arrays
    PROVE  Size(a) \in 1..MaxLen /\ a \in [1..Size(a) -> Elems]
BY DEF Size, Arrays

(* A nonempty set of positions has a last one.                              *)
LEMMA LastExists ==
    ASSUME NEW n \in Nat, NEW H \in SUBSET (1..n), H # {}
    PROVE  \E j \in H : \A i \in H : i <= j
<1> DEFINE T == {n - j : j \in H}
<1>1. T \subseteq Nat /\ T # {}
  <2>1. \A j \in H : j \in 1..n
    OBVIOUS
  <2>2. \A j \in H : n - j \in Nat
    BY <2>1
  <2>3. PICK j \in H : TRUE
    OBVIOUS
  <2>4. n - j \in T
    OBVIOUS
  <2>5. QED
    BY <2>2, <2>4
<1>2. PICK m \in T : \A y \in T : ~(<<y, m>> \in OpToRel(<, Nat))
  BY <1>1, NatLessThanWellFounded, WFMin
<1>3. PICK j \in H : m = n - j
  OBVIOUS
<1>4. ASSUME NEW i \in H PROVE i <= j
  <2>1. n - i \in T
    OBVIOUS
  <2>2. ~(n - i < n - j)
    BY <1>1, <1>2, <1>3, <2>1 DEF OpToRel
  <2>3. QED
    BY <2>2
<1>5. QED
  BY <1>4

(* check_index keeps an index array an array of elements.                   *)
LEMMA NormalizedType ==
    ASSUME NEW ix \in Arrays, NEW n \in 1..MaxLen
    PROVE  Normalized(ix, n) \in Arrays
<1>1. Size(ix) \in 1..MaxLen /\ ix \in [1..Size(ix) -> Elems]
  BY SizeType
<1>2. ASSUME NEW k \in 1..Size(ix)
      PROVE  Normalized(ix, n)[k] \in Elems
  <2>1. CASE \A j \in 1..k : InRange(ix[j], n)
    BY <1>1, <2>1 DEF Normalized, InRange
  <2>2. CASE ~(\A j \in 1..k : InRange(ix[j], n))
    BY <1>1, <2>2 DEF Normalized
  <2>3. QED
    BY <2>1, <2>2
<1>3. Normalized(ix, n) \in [1..Size(ix) -> Elems]
  BY <1>1, <1>2 DEF Normalized
<1>4. QED
  BY <1>1, <1>3 DEF Arrays

(* A slice of an array is an array.                                         *)
LEMMA SelectedType ==
    ASSUME NEW a \in Arrays, NEW ix \in Arrays, AllInRange(ix, Size(a))
    PROVE  Selected(a, ix) \in Arrays
<1>1. /\ Size(ix) \in 1..MaxLen /\ ix \in [1..Size(ix) -> Elems]
      /\ Size(a) \in 1..MaxLen /\ a \in [1..Size(a) -> Elems]
  BY SizeType
<1>2. ASSUME NEW k \in 1..Size(ix)
      PROVE  a[CheckIndex(ix[k], Size(a)) + 1] \in Elems
  <2>1. CheckIndex(ix[k], Size(a)) \in 0..(Size(a) - 1)
    BY <1>1 DEF AllInRange, InRange
  <2>2. CheckIndex(ix[k], Size(a)) + 1 \in 1..Size(a)
    BY <1>1, <2>1
  <2>3. QED
    BY <1>1, <2>2
<1>3. Selected(a, ix) \in [1..Size(ix) -> Elems]
  BY <1>1, <1>2 DEF Selected
<1>4. QED
  BY <1>1, <1>3 DEF Arrays

(* A sliced assignment yields an array of the size of the one it changes.   *)
LEMMA AssignedType ==
    ASSUME NEW a \in Arrays, NEW ix \in Arrays, NEW v \in Arrays,
           Size(v) \in {1, Size(ix)}
    PROVE  Assigned(a, ix, v) \in [1..Size(a) -> Elems]
<1> DEFINE hits(k) ==
        {j \in DOMAIN ix : CheckIndex(ix[j], Size(a)) + 1 = k}
    last(k) == CHOOSE j \in hits(k) : \A i \in hits(k) : i <= j
    new(k) == IF hits(k) = {} THEN a[k]
              ELSE IF Size(v) = 1 THEN v[1] ELSE v[last(k)]
<1>1. /\ Size(ix) \in 1..MaxLen /\ ix \in [1..Size(ix) -> Elems]
      /\ Size(a) \in 1..MaxLen /\ a \in [1..Size(a) -> Elems]
      /\ Size(v) \in 1..MaxLen /\ v \in [1..Size(v) -> Elems]
  BY SizeType
<1>2. ASSUME NEW k \in 1..Size(a) PROVE new(k) \in Elems
  <2>1. CASE hits(k) = {}
    BY <1>1, <2>1
  <2>2. CASE hits(k) # {}
    <3>1. hits(k) \in SUBSET (1..Size(ix)) /\ Size(ix) \in Nat
      BY <1>1
    <3>2. \E j \in hits(k) : \A i \in hits(k) : i <= j
      <4> HIDE DEF hits
      <4>1. QED
        BY <2>2, <3>1, LastExists
    <3>3. last(k) \in hits(k)
      <4> HIDE DEF hits
      <4>1. QED
        BY <3>2
    <3>4. last(k) \in 1..Size(ix)
      BY <3>1, <3>3
    <3>5. QED
      <4> HIDE DEF last
      <4>1. CASE Size(v) = 1
        BY <1>1, <4>1, <2>2
      <4>2. CASE Size(v) # 1
        BY <1>1, <4>2, <2>2, <3>4
      <4>3. QED
        BY <4>1, <4>2
  <2>3. QED
    BY <2>1, <2>2
<1>3. Assigned(a, ix, v) = [k \in 1..Size(a) |-> new(k)]
  BY <1>1 DEF Assigned
<1>4. QED
  <2> HIDE DEF new
  <2>1. QED
    BY <1>2, <1>3

-----------------------------------------------------------------------------
(* Storage and operands.                                                    *)

HeapOK(h) == DOMAIN h \subseteq Cells /\ \A c \in DOMAIN h : h[c] \in Arrays

(* What is read through an operand or a reference is an array.              *)
LEMMA ReadType ==
    ASSUME TypeOK, NEW v,
           \/ v \in Operands /\ Valid(v)
           \/ v \in [kind : {"own", "ref"}, cell : Cells]
    PROVE  \A a \in Read(v) : a \in Arrays
BY DEF TypeOK, Read, Operands, Valid, Nil

(* Writing keeps the allocated cells and arrays in them.                    *)
LEMMA WriteType ==
    ASSUME NEW h, HeapOK(h), NEW s, NEW a \in Arrays
    PROVE  HeapOK(Write(h, s, a)) /\ DOMAIN Write(h, s, a) = DOMAIN h
BY DEF HeapOK, Write

(* Allocating adds a cell.                                                  *)
LEMMA AllocateType ==
    ASSUME NEW h, HeapOK(h), NEW c \in Cells, NEW a \in Arrays
    PROVE  HeapOK(Allocate(h, c, a)) /\ DOMAIN Allocate(h, c, a) = DOMAIN h \cup {c}
BY DEF HeapOK, Allocate

(* Freeing keeps arrays in the cells that stay.                             *)
LEMMA KeepType ==
    ASSUME NEW h, HeapOK(h), Keep(h)
    PROVE  HeapOK(heap)' /\ DOMAIN heap' = DOMAIN h \cap Owned'
BY DEF HeapOK, Keep

(* The operands a task may use are on its stack.                            *)
LEMMA HeldType ==
    ASSUME TypeOK, NEW t \in Tasks
    PROVE  Held(t) \in Int /\ Len(ops[t]) \in Nat /\ Held(t) <= Len(ops[t])
<1>1. pending[t] \in Seq(PendingStores) /\ ops[t] \in Seq(Operands)
  BY DEF TypeOK
<1>2. Base(t) \in Nat
  <2>1. CASE pending[t] = <<>>
    BY <2>1 DEF Base
  <2>2. CASE pending[t] # <<>>
    <3>1. Len(pending[t]) \in 1..Len(pending[t])
      BY <1>1, <2>2, EmptySeq
    <3>2. pending[t][Len(pending[t])] \in PendingStores
      BY <1>1, <3>1
    <3>3. QED
      BY <2>2, <3>2 DEF Base, PendingStores
  <2>3. QED
    BY <2>1, <2>2
<1>3. QED
  BY <1>1, <1>2 DEF Held

(* Dropping and pushing operands keeps a stack of operands.                 *)
LEMMA StackType ==
    ASSUME TypeOK, NEW t \in Tasks, NEW n \in Nat, Len(ops[t]) >= n
    PROVE  /\ Pop(t, n) => ops' \in [Tasks -> Seq(Operands)]
           /\ \A v \in Operands :
                Push(t, n, v) => ops' \in [Tasks -> Seq(Operands)]
           /\ n > 0 => Top(t) \in Operands
           /\ n > 1 => Below(t) \in Operands
<1>1. ops[t] \in Seq(Operands) /\ Len(ops[t]) \in Nat
  BY DEF TypeOK
<1>2. Dropped(t, n) \in Seq(Operands)
  BY <1>1 DEF Dropped
<1>3. \A v \in Operands : Append(Dropped(t, n), v) \in Seq(Operands)
  BY <1>2
<1>4. n > 0 => Top(t) \in Operands
  BY <1>1 DEF Top
<1>5. n > 1 => Below(t) \in Operands
  BY <1>1 DEF Below
<1>6. QED
  BY <1>2, <1>3, <1>4, <1>5 DEF Pop, Push, TypeOK

(* Unwinding a task leaves it with empty stacks.                            *)
LEMMA ThrowType ==
    ASSUME TypeOK, NEW t \in Tasks, Throw(t)
    PROVE  /\ ops' \in [Tasks -> Seq(Operands)]
           /\ pending' \in [Tasks -> Seq(PendingStores)]
BY DEF TypeOK, Throw

-----------------------------------------------------------------------------
(* Type correctness, one step per action.                                   *)

SlotsOK ==
    /\ value_set \in [Vars -> BOOLEAN]
    /\ operand0 \in [Vars -> Slots]
    /\ bound_value \in [Vars -> Slots \ {Prim}]

(* The type invariant by parts.                                             *)
LEMMA TypeParts ==
    TypeOK <=> /\ SlotsOK /\ HeapOK(heap)
               /\ ops \in [Tasks -> Seq(Operands)]
               /\ pending \in [Tasks -> Seq(PendingStores)]
BY DEF TypeOK, SlotsOK, HeapOK

(* A new owned cell is a slot.                                              *)
LEMMA OwnSlot == \A c \in Cells : Own(c) \in Slots \ {Prim}
BY DEF Own, Slots, Prim

(* Copying a value into a variable keeps types.                             *)
LEMMA CopyType ==
    ASSUME TypeOK, NEW x \in Vars, NEW v \in Operands, Valid(v)
    PROVE  /\ CopyToOperand0(x, v) =>
                /\ HeapOK(heap)' /\ operand0' \in [Vars -> Slots]
                /\ UNCHANGED bound_value
           /\ CopyToBound(x, v) =>
                HeapOK(heap)' /\ bound_value' \in [Vars -> Slots \ {Prim}]
<1>1. HeapOK(heap) /\ SlotsOK
  BY TypeParts
<1>2. \A a \in Read(v) : a \in Arrays
  BY ReadType
<1>3. ASSUME NEW a \in Read(v), NEW c \in FreeCells,
             Keep(Allocate(heap, c, a))
      PROVE  HeapOK(heap)'
  <2>1. c \in Cells /\ a \in Arrays
    BY <1>2 DEF FreeCells
  <2>2. HeapOK(Allocate(heap, c, a))
    BY <1>1, <2>1, AllocateType
  <2>3. QED
    BY <1>3, <2>2, KeepType
<1>4. QED
  BY <1>1, <1>3, OwnSlot DEF CopyToOperand0, CopyToBound, SlotsOK, FreeCells

(* Defining a variable or declaring a global one again keeps types.         *)
LEMMA TypeDefine ==
    ASSUME TypeOK, NEW t \in Tasks, NEW x \in Vars, Define(t, x)
    PROVE  TypeOK'
<1>1. SlotsOK /\ HeapOK(heap)
  BY TypeParts
<1>2. CASE DefineNil(t, x)
  BY <1>2 DEF DefineNil, TypeOK
<1>3. CASE DefineLiteral(t, x)
  <2>1. PICK a \in Arrays, c \in FreeCells :
            /\ operand0' = [operand0 EXCEPT ![x] = Own(c)]
            /\ bound_value' = [bound_value EXCEPT ![x] = Ref(c)]
            /\ Keep(Allocate(heap, c, a))
    BY <1>3 DEF DefineLiteral
  <2>2. c \in Cells
    BY DEF FreeCells
  <2>3. HeapOK(heap)'
    <3>1. HeapOK(Allocate(heap, c, a))
      BY <1>1, <2>2, AllocateType
    <3>2. QED
      BY <2>1, <3>1, KeepType
  <2>4. Own(c) \in Slots /\ Ref(c) \in Slots \ {Prim}
    BY <2>2 DEF Own, Ref, Slots, Prim
  <2>5. SlotsOK'
    BY <1>1, <1>3, <2>1, <2>4 DEF SlotsOK, DefineLiteral
  <2>6. QED
    BY <1>3, <2>3, <2>5 DEF TypeOK, SlotsOK, HeapOK, DefineLiteral
<1>4. CASE DefineExpression(t, x) \/ RebindExpression(t, x)
  <2>1. Held(t) > 0 /\ Valid(Top(t)) /\ CopyToBound(x, Top(t)) /\ Pop(t, 1)
    BY <1>4 DEF DefineExpression, RebindExpression
  <2>2. Len(ops[t]) >= 1
    BY <2>1, HeldType
  <2>3. Top(t) \in Operands /\ ops' \in [Tasks -> Seq(Operands)]
    BY <2>1, <2>2, StackType
  <2>4. HeapOK(heap)' /\ bound_value' \in [Vars -> Slots \ {Prim}]
    BY <2>1, <2>3, CopyType
  <2>5. SlotsOK'
    BY <1>1, <1>4, <2>4
    DEF SlotsOK, DefineExpression, RebindExpression, Slots
  <2>6. UNCHANGED pending
    BY <1>4 DEF DefineExpression, RebindExpression
  <2>7. QED
    BY <2>3, <2>4, <2>5, <2>6 DEF TypeOK, SlotsOK, HeapOK
<1>5. CASE RebindValue(t, x)
  <2>1. HeapOK(heap)'
    BY <1>1, <1>5, KeepType DEF RebindValue
  <2>2. operand0[x] \in Slots /\ operand0[x] # Prim
    BY <1>1, <1>5 DEF SlotsOK, RebindValue
  <2>3. Nil \in Slots \ {Prim} /\
        (Valid(operand0[x]) => Ref(operand0[x].cell) \in Slots \ {Prim})
    BY <2>2 DEF Nil, Prim, Ref, Slots, Valid
  <2>4. SlotsOK'
    BY <1>1, <1>5, <2>3 DEF SlotsOK, RebindValue
  <2>5. QED
    BY <1>5, <2>1, <2>4 DEF TypeOK, SlotsOK, HeapOK, RebindValue
<1>6. QED
  BY <1>2, <1>3, <1>4, <1>5 DEF Define

(* Storing a whole value keeps types.                                       *)
LEMMA TypeStoreWhole ==
    ASSUME TypeOK, NEW t \in Tasks, NEW x \in Vars, StoreWhole(t, x)
    PROVE  TypeOK'
<1>1. SlotsOK
  BY TypeParts
<1>2. Held(t) > 0
  BY DEF StoreWhole, StoreInitial, Store, StoreInvalid
<1>3. Len(ops[t]) >= 1
  BY <1>2, HeldType
<1>4. Top(t) \in Operands
  BY <1>3, StackType
<1>5. CASE StoreInitial(t, x)
  <2>1. /\ HeapOK(heap)' /\ operand0' \in [Vars -> Slots]
        /\ UNCHANGED bound_value
    BY <1>4, <1>5, CopyType DEF StoreInitial
  <2>2. ops' \in [Tasks -> Seq(Operands)]
    BY <1>3, <1>5, StackType DEF StoreInitial
  <2>3. QED
    BY <1>1, <1>5, <2>1, <2>2 DEF StoreInitial, TypeOK, SlotsOK, HeapOK
<1>6. CASE Store(t, x)
  <2>1. HeapOK(heap)' /\ bound_value' \in [Vars -> Slots \ {Prim}]
    BY <1>4, <1>6, CopyType DEF Store
  <2>2. ops' \in [Tasks -> Seq(Operands)]
    BY <1>3, <1>6, StackType DEF Store
  <2>3. QED
    BY <1>1, <1>6, <2>1, <2>2 DEF Store, TypeOK, SlotsOK, HeapOK
<1>7. CASE StoreInvalid(t, x)
  <2>1. /\ ops' \in [Tasks -> Seq(Operands)]
        /\ pending' \in [Tasks -> Seq(PendingStores)]
    BY <1>7, ThrowType DEF StoreInvalid
  <2>2. QED
    BY <1>7, <2>1 DEF StoreInvalid, TypeOK, slots
<1>8. QED
  BY <1>5, <1>6, <1>7 DEF StoreWhole

(* Beginning a sliced store or refusing it keeps types.                     *)
LEMMA TypeStoreSlice ==
    ASSUME TypeOK, NEW t \in Tasks, NEW x \in Vars, StoreSlice(t, x)
    PROVE  TypeOK'
<1>1. Held(t) > 0
  BY DEF StoreSlice, SliceStoreBegin, SliceStoreRefused
<1>2. Len(ops[t]) >= 1 /\ Len(ops[t]) \in Nat
  BY <1>1, HeldType
<1>3. CASE SliceStoreBegin(t, x)
  <2>1. Top(t) \in Operands /\ ops' \in [Tasks -> Seq(Operands)]
    BY <1>2, <1>3, StackType DEF SliceStoreBegin
  <2>2. [var |-> x, value |-> Top(t), base |-> Len(ops[t]) - 1]
            \in PendingStores
    BY <1>2, <1>3, <2>1 DEF PendingStores, SliceStoreBegin, Valid, Nil
  <2>3. pending' \in [Tasks -> Seq(PendingStores)]
    BY <1>3, <2>2 DEF SliceStoreBegin, TypeOK
  <2>4. QED
    BY <1>3, <2>1, <2>3 DEF SliceStoreBegin, TypeOK, slots
<1>4. CASE SliceStoreRefused(t, x)
  <2>1. /\ ops' \in [Tasks -> Seq(Operands)]
        /\ pending' \in [Tasks -> Seq(PendingStores)]
    BY <1>4, ThrowType DEF SliceStoreRefused
  <2>2. QED
    BY <1>4, <2>1 DEF SliceStoreRefused, TypeOK, slots
<1>5. QED
  BY <1>3, <1>4 DEF StoreSlice

(* The stack of pending stores has a last one.                              *)
LEMMA PendingType ==
    ASSUME TypeOK, NEW t \in Tasks, pending[t] # <<>>
    PROVE  /\ Len(pending[t]) \in DOMAIN pending[t]
           /\ pending[t][Len(pending[t])] \in PendingStores
           /\ SubSeq(pending[t], 1, Len(pending[t]) - 1) \in Seq(PendingStores)
<1>1. pending[t] \in Seq(PendingStores)
  BY DEF TypeOK
<1>2. Len(pending[t]) \in 1..Len(pending[t]) /\ Len(pending[t]) \in Nat
  BY <1>1, EmptySeq
<1>3. QED
  BY <1>1, <1>2

(* A sliced store keeps types and the allocated cells, provided the array   *)
(* to store into is there.                                                  *)
LEMMA TypeSliceStoreEnd ==
    ASSUME TypeOK, PendingTargetLive, NEW t \in Tasks, SliceStoreEnd(t)
    PROVE  TypeOK' /\ DOMAIN heap' = DOMAIN heap
<1> DEFINE p == pending[t][Len(pending[t])]
           s == bound_value[p.var]
           old == heap[s.cell]
<1>1. /\ pending[t] # <<>> /\ Held(t) = 1 /\ Valid(Top(t))
      /\ UNCHANGED slots
  BY DEF SliceStoreEnd
<1>2. p \in PendingStores /\ Len(pending[t]) \in DOMAIN pending[t]
  BY <1>1, PendingType
<1>3. s.kind \in {"own", "ref"} /\ s.cell \in DOMAIN heap
  BY <1>2 DEF PendingTargetLive
<1>4. HeapOK(heap) /\ old \in Arrays
  BY <1>3, TypeParts DEF HeapOK
<1>5. Len(ops[t]) >= 1 /\ Top(t) \in Operands
  BY <1>1, HeldType, StackType
<1>6. PICK ix \in Read(Top(t)), v \in Read(p.value) :
        LET fits == Size(v) \in {1, Size(ix)}
            h1 == Write(heap, Top(t), Normalized(ix, Size(old)))
            cur == h1[s.cell]
        IN  IF fits /\ AllInRange(ix, Size(old))
            THEN /\ heap' = Write(h1, s, Assigned(cur, ix, v))
                 /\ Pop(t, 1)
                 /\ pending' = [pending EXCEPT ![t] =
                        SubSeq(@, 1, Len(@) - 1)]
            ELSE /\ heap' = IF fits THEN h1 ELSE heap
                 /\ Throw(t)
  BY DEF SliceStoreEnd
<1> DEFINE h1 == Write(heap, Top(t), Normalized(ix, Size(old)))
<1>7. ix \in Arrays
  BY <1>1, <1>5, ReadType
<1>8. HeapOK(h1) /\ DOMAIN h1 = DOMAIN heap
  <2>1. Normalized(ix, Size(old)) \in Arrays
    BY <1>4, <1>7, SizeType, NormalizedType
  <2>2. QED
    BY <1>4, <2>1, WriteType
<1> HIDE DEF h1
<1>9. CASE Size(v) \in {1, Size(ix)} /\ AllInRange(ix, Size(old))
  <2>1. /\ heap' = Write(h1, s, Assigned(h1[s.cell], ix, v))
        /\ Pop(t, 1)
        /\ pending' = [pending EXCEPT ![t] = SubSeq(@, 1, Len(@) - 1)]
    BY <1>6, <1>9 DEF h1
  <2>2. v \in Arrays /\ h1[s.cell] \in Arrays
    <3>1. p.value \in Operands /\ Valid(p.value)
      BY <1>2 DEF PendingStores, SliceStoreEnd
    <3>2. v \in Arrays
      BY <3>1, ReadType
    <3>3. QED
      BY <1>3, <1>8, <3>2 DEF HeapOK
  <2>3. Assigned(h1[s.cell], ix, v) \in Arrays
    <3>1. Assigned(h1[s.cell], ix, v) \in [1..Size(h1[s.cell]) -> Elems]
      BY <1>7, <1>9, <2>2, AssignedType
    <3>2. QED
      BY <2>2, <3>1, SizeType DEF Arrays
  <2>4. HeapOK(heap)' /\ DOMAIN heap' = DOMAIN heap
    BY <1>8, <2>1, <2>3, WriteType DEF HeapOK
  <2>5. /\ ops' \in [Tasks -> Seq(Operands)]
        /\ pending' \in [Tasks -> Seq(PendingStores)]
    BY <1>1, <1>5, <2>1, PendingType, StackType DEF TypeOK
  <2>6. QED
    BY <1>1, <2>4, <2>5 DEF TypeOK, HeapOK, slots
<1>10. CASE ~(Size(v) \in {1, Size(ix)} /\ AllInRange(ix, Size(old)))
  <2>1. heap' \in {h1, heap} /\ Throw(t)
    BY <1>6, <1>10 DEF h1
  <2>2. HeapOK(heap)' /\ DOMAIN heap' = DOMAIN heap
    BY <1>4, <1>8, <2>1 DEF HeapOK
  <2>3. QED
    BY <1>1, <2>1, <2>2, ThrowType DEF TypeOK, HeapOK, slots
<1>11. QED
  BY <1>9, <1>10

(* Reading a slice keeps types and the allocated cells.                     *)
LEMMA TypeSlice ==
    ASSUME TypeOK, NEW t \in Tasks, NEW n \in 1..2, NEW source,
           Held(t) >= n, Valid(Top(t)), Slice(t, source, n),
           \/ source \in Operands /\ Valid(source)
           \/ source \in [kind : {"own", "ref"}, cell : Cells]
    PROVE  TypeOK' /\ DOMAIN heap' = DOMAIN heap
<1>1. PICK ix \in Read(Top(t)), a \in Read(source) :
        /\ heap' = Write(heap, Top(t), Normalized(ix, Size(a)))
        /\ IF AllInRange(ix, Size(a))
           THEN /\ Push(t, n, Temp(Selected(a, ix)))
                /\ UNCHANGED pending
           ELSE Throw(t)
  BY DEF Slice
<1>2. Len(ops[t]) >= n /\ Top(t) \in Operands
  BY HeldType, StackType
<1>3. ix \in Arrays /\ a \in Arrays
  BY <1>2, ReadType
<1>4. HeapOK(heap)' /\ DOMAIN heap' = DOMAIN heap
  <2>1. Normalized(ix, Size(a)) \in Arrays
    BY <1>3, SizeType, NormalizedType
  <2>2. HeapOK(heap)
    BY TypeParts
  <2>3. QED
    BY <1>1, <2>1, <2>2, WriteType DEF HeapOK
<1>5. /\ ops' \in [Tasks -> Seq(Operands)]
      /\ pending' \in [Tasks -> Seq(PendingStores)]
  <2>1. CASE AllInRange(ix, Size(a))
    <3>1. Selected(a, ix) \in Arrays
      BY <1>3, <2>1, SelectedType
    <3>2. Temp(Selected(a, ix)) \in Operands
      BY <3>1 DEF Temp, Operands
    <3>3. QED
      BY <1>1, <1>2, <2>1, <3>2, StackType DEF TypeOK
  <2>2. CASE ~AllInRange(ix, Size(a))
    BY <1>1, <2>2, ThrowType
  <2>3. QED
    BY <2>1, <2>2
<1>6. UNCHANGED slots
  BY DEF Slice
<1>7. QED
  BY <1>4, <1>5, <1>6 DEF TypeOK, HeapOK, slots

(* Both ways of reading a slice keep types and the allocated cells.         *)
LEMMA TypeSlices ==
    ASSUME TypeOK, NEW t \in Tasks,
           SliceOperand(t) \/ (\E x \in Vars : SliceVariable(t, x))
    PROVE  TypeOK' /\ DOMAIN heap' = DOMAIN heap
<1>1. CASE SliceOperand(t)
  <2>1. /\ Held(t) >= 2 /\ Valid(Top(t)) /\ Valid(Below(t))
        /\ Slice(t, Below(t), 2)
    BY <1>1, HeldType DEF SliceOperand
  <2>2. Below(t) \in Operands
    BY <2>1, HeldType, StackType
  <2>3. QED
    BY <2>1, <2>2, TypeSlice
<1>2. CASE \E x \in Vars : SliceVariable(t, x)
  <2>1. PICK x \in Vars : SliceVariable(t, x)
    BY <1>2
  <2>2. /\ Held(t) >= 1 /\ Valid(Top(t))
        /\ Slice(t, Ref(Target(x).cell), 1)
        /\ Target(x) \notin {Nil, Prim}
    BY <2>1, HeldType DEF SliceVariable
  <2>3. Target(x) \in Slots
    BY DEF TypeOK, Target
  <2>4. Ref(Target(x).cell) \in [kind : {"own", "ref"}, cell : Cells]
    BY <2>2, <2>3 DEF Slots, Ref
  <2>5. QED
    BY <2>2, <2>4, TypeSlice
<1>3. QED
  BY <1>1, <1>2

(* Evaluating and consuming operands keeps types.                           *)
LEMMA TypeEval ==
    ASSUME TypeOK, NEW t \in Tasks,
           \/ EvalExpression(t)
           \/ Consume(t)
           \/ \E x \in Vars : EvalVariable(t, x)
    PROVE  TypeOK'
<1>1. Len(ops[t]) >= 0 /\ Len(ops[t]) \in Nat
  BY HeldType
<1>2. CASE EvalExpression(t)
  <2>1. PICK a \in Arrays : Push(t, 0, Temp(a))
    BY <1>2 DEF EvalExpression
  <2>2. Temp(a) \in Operands
    BY DEF Temp, Operands
  <2>3. ops' \in [Tasks -> Seq(Operands)]
    BY <1>1, <2>1, <2>2, StackType
  <2>4. QED
    BY <1>2, <2>3 DEF EvalExpression, TypeOK, slots
<1>3. CASE Consume(t)
  <2>1. Len(ops[t]) >= 1 /\ Pop(t, 1)
    BY <1>3, HeldType DEF Consume
  <2>2. ops' \in [Tasks -> Seq(Operands)]
    BY <2>1, StackType
  <2>3. QED
    BY <1>3, <2>2 DEF Consume, TypeOK, slots
<1>4. CASE \E x \in Vars : EvalVariable(t, x)
  <2>1. PICK x \in Vars : EvalVariable(t, x)
    BY <1>4
  <2>2. Target(x) \in Slots /\ Target(x) # Prim
    BY <2>1 DEF TypeOK, Target, EvalVariable
  <2>3. (IF Valid(Target(x)) THEN Ref(Target(x).cell) ELSE Nil) \in Operands
    BY <2>2 DEF Slots, Operands, Ref, Valid, Nil, Prim
  <2>4. ops' \in [Tasks -> Seq(Operands)]
    BY <1>1, <2>1, <2>3, StackType DEF EvalVariable
  <2>5. QED
    BY <2>1, <2>4 DEF EvalVariable, TypeOK, slots
<1>5. QED
  BY <1>2, <1>3, <1>4
-----------------------------------------------------------------------------
(* The storage discipline.  That values are live follows from the rest.     *)

StorageInv == UniqueOwner /\ OwnReferences /\ OwnedAllocated

(* A value that owns its array is Own of a cell, a reference is Ref of one. *)
LEMMA SlotForms ==
    \A s \in Slots :
        /\ s.kind = "own" => s.cell \in Cells /\ s = Own(s.cell)
        /\ s.kind = "ref" => s.cell \in Cells /\ s = Ref(s.cell)
        /\ Valid(s) <=> s # Nil
        /\ Valid(s) /\ s # Prim => s.kind \in {"own", "ref"}
BY DEF Slots, Nil, Prim, Own, Ref, Valid

(* The four forms of a value are told apart, and so are their cells.        *)
LEMMA FormsDiffer ==
    \A c, d :
        /\ Own(c) = Own(d) => c = d
        /\ Ref(c) = Ref(d) => c = d
        /\ Own(c) # Ref(d) /\ Own(c) # Nil /\ Own(c) # Prim
        /\ Ref(c) # Nil /\ Ref(c) # Prim
        /\ Valid(Own(c)) /\ Valid(Ref(c)) /\ Valid(Prim) /\ Nil # Prim
BY DEF Own, Ref, Nil, Prim, Valid

(* Where a variable is bound to an array, the array is allocated.           *)
LEMMA BoundLive ==
    ASSUME TypeOK, StorageInv, NEW x \in Vars, NEW s,
           s \in {operand0[x], bound_value[x]}, Valid(s), s # Prim
    PROVE  s.kind \in {"own", "ref"} /\ s.cell \in DOMAIN heap
<1>1. operand0[x] \in Slots /\ bound_value[x] \in Slots
  BY DEF TypeOK
<1>2. CASE s.kind = "own"
  <2>1. s.cell \in Cells /\ s = Own(s.cell)
    BY <1>1, <1>2, SlotForms
  <2>2. s.cell \in Owned
    BY <2>1 DEF Owned
  <2>3. QED
    BY <1>2, <2>2 DEF StorageInv, OwnedAllocated
<1>3. CASE s.kind = "ref"
  <2>1. s.cell \in Cells /\ s = Ref(s.cell)
    BY <1>1, <1>3, SlotForms
  <2>2. operand0[x] = Own(s.cell)
    BY <2>1 DEF StorageInv, OwnReferences
  <2>3. s.cell \in Owned
    BY <2>1, <2>2 DEF Owned
  <2>4. QED
    BY <1>3, <2>3 DEF StorageInv, OwnedAllocated
<1>4. QED
  BY <1>1, <1>2, <1>3, SlotForms

(* The rest of the storage discipline.                                      *)
LEMMA StorageFollows ==
    ASSUME TypeOK, StorageInv
    PROVE  StorageSafe
<1>1. ASSUME NEW x \in Vars, Target(x).kind \in {"own", "ref"}
      PROVE  Target(x).cell \in DOMAIN heap
  <2>1. Target(x) \in {operand0[x], bound_value[x]}
    BY DEF Target
  <2>2. Valid(Target(x)) /\ Target(x) # Prim
    BY <1>1 DEF Valid, Prim
  <2>3. QED
    BY <2>1, <2>2, BoundLive
<1>2. QED
  BY <1>1 DEF StorageSafe, StorageInv, ValuesLive

(* A step that changes no variable and allocates nothing keeps it.          *)
LEMMA StorageUnchanged ==
    ASSUME StorageInv, UNCHANGED slots, DOMAIN heap' = DOMAIN heap
    PROVE  StorageInv'
BY DEF StorageInv, UniqueOwner, OwnReferences, OwnedAllocated, Owned, slots

(* A variable that takes a new cell keeps it.                               *)
LEMMA StorageAllocated ==
    ASSUME TypeOK, StorageInv, NEW x \in Vars, NEW c \in FreeCells, NEW a,
           Keep(Allocate(heap, c, a)),
           \A y \in Vars \ {x} : /\ operand0'[y] = operand0[y]
                                 /\ bound_value'[y] = bound_value[y],
           \/ operand0'[x] = Own(c) /\ bound_value'[x] = Ref(c)
           \/ /\ operand0[x] = Nil
              /\ operand0'[x] = Own(c) /\ bound_value'[x] = bound_value[x]
           \/ /\ operand0'[x] \in {operand0[x], Prim}
              /\ bound_value'[x] = Own(c)
    PROVE  StorageInv'
<1>1. c \in Cells /\ c \notin Owned
  BY DEF FreeCells, StorageInv, OwnedAllocated
<1>2. \A y \in Vars : operand0[y] # Own(c) /\ bound_value[y] # Own(c)
  BY <1>1 DEF Owned
<1>3. \A y \in Vars, d \in Cells :
        /\ operand0'[y] = Own(d) =>
            operand0[y] = Own(d) \/ (d = c /\ y = x /\ bound_value'[x] # Own(c))
        /\ bound_value'[y] = Own(d) =>
            bound_value[y] = Own(d) \/ (d = c /\ y = x /\ operand0'[x] # Own(c))
  BY <1>2, FormsDiffer
<1>4. UniqueOwner'
  BY <1>2, <1>3 DEF StorageInv, UniqueOwner
<1>5. OwnReferences'
  <2>1. ASSUME NEW y \in Vars, NEW d \in Cells
        PROVE  /\ operand0'[y] # Ref(d)
               /\ bound_value'[y] = Ref(d) => operand0'[y] = Own(d)
    <3>1. /\ operand0[y] # Ref(d)
          /\ bound_value[y] = Ref(d) => operand0[y] = Own(d)
      BY DEF StorageInv, OwnReferences
    <3>2. QED
      BY <3>1, FormsDiffer
  <2>2. QED
    BY <2>1 DEF OwnReferences
<1>6. OwnedAllocated'
  <2>1. DOMAIN Allocate(heap, c, a) = DOMAIN heap \cup {c}
    BY DEF Allocate
  <2>2. Owned' \subseteq Owned \cup {c}
    BY <1>3 DEF Owned
  <2>3. Owned' \subseteq DOMAIN heap \cup {c}
    BY <2>2 DEF StorageInv, OwnedAllocated
  <2>4. DOMAIN heap' = DOMAIN Allocate(heap, c, a) \cap Owned'
    BY DEF Keep
  <2>5. QED
    BY <2>1, <2>3, <2>4 DEF OwnedAllocated
<1>7. QED
  BY <1>4, <1>5, <1>6 DEF StorageInv

(* A copy that is stored keeps it.                                          *)
LEMMA StorageCopied ==
    ASSUME TypeOK, StorageInv, NEW x \in Vars, NEW v,
           \/ operand0[x] = Nil /\ CopyToOperand0(x, v)
           \/ CopyToBound(x, v) /\ operand0' \in
                {operand0, [operand0 EXCEPT ![x] = Prim]}
    PROVE  StorageInv'
<1>1. /\ operand0 = [y \in Vars |-> operand0[y]]
      /\ bound_value = [y \in Vars |-> bound_value[y]]
  BY DEF TypeOK
<1>2. CASE operand0[x] = Nil /\ CopyToOperand0(x, v)
  <2>1. PICK a \in Read(v), c \in FreeCells :
            /\ operand0' = [operand0 EXCEPT ![x] = Own(c)]
            /\ UNCHANGED bound_value
            /\ Keep(Allocate(heap, c, a))
    BY <1>2 DEF CopyToOperand0
  <2>2. QED
    BY <1>1, <1>2, <2>1, StorageAllocated
<1>3. CASE CopyToBound(x, v) /\ operand0' \in
            {operand0, [operand0 EXCEPT ![x] = Prim]}
  <2>1. PICK a \in Read(v), c \in FreeCells :
            /\ bound_value' = [bound_value EXCEPT ![x] = Own(c)]
            /\ Keep(Allocate(heap, c, a))
    BY <1>3 DEF CopyToBound
  <2>2. QED
    BY <1>1, <1>3, <2>1, StorageAllocated
<1>4. QED
  BY <1>2, <1>3

(* A global variable that is declared again keeps it.                       *)
LEMMA StorageRebound ==
    ASSUME TypeOK, StorageInv, NEW t, NEW x \in Vars, RebindValue(t, x)
    PROVE  StorageInv'
<1>1. /\ UNCHANGED operand0 /\ Keep(heap)
      /\ bound_value' = [bound_value EXCEPT ![x] =
            IF Valid(operand0[x]) THEN Ref(operand0[x].cell) ELSE Nil]
      /\ operand0[x] # Prim
  BY DEF RebindValue
<1>2. \A y \in Vars : bound_value'[y] = bound_value[y] \/ y = x
  BY <1>1 DEF TypeOK
<1>3. /\ \A d : bound_value'[x] # Own(d)
      /\ \A d \in Cells : bound_value'[x] = Ref(d) => operand0[x] = Own(d)
  <2>1. bound_value'[x] =
            IF Valid(operand0[x]) THEN Ref(operand0[x].cell) ELSE Nil
    BY <1>1 DEF TypeOK
  <2>2. operand0[x] \in Slots
    BY DEF TypeOK
  <2>3. CASE Valid(operand0[x])
    <3>1. operand0[x].kind # "ref"
      BY <2>2, SlotForms DEF StorageInv, OwnReferences
    <3>2. operand0[x] = Own(operand0[x].cell)
      BY <1>1, <2>2, <2>3, <3>1, SlotForms
    <3>3. QED
      BY <2>1, <2>3, <3>2, FormsDiffer
  <2>4. CASE ~Valid(operand0[x])
    BY <2>1, <2>4, FormsDiffer
  <2>5. QED
    BY <2>3, <2>4
<1>4. UniqueOwner'
  BY <1>1, <1>2, <1>3 DEF StorageInv, UniqueOwner
<1>5. OwnReferences'
  BY <1>1, <1>2, <1>3 DEF StorageInv, OwnReferences
<1>6. OwnedAllocated'
  <2>1. Owned' \subseteq Owned
    BY <1>1, <1>2, <1>3 DEF Owned
  <2>2. DOMAIN heap' = DOMAIN heap \cap Owned'
    BY <1>1 DEF Keep
  <2>3. QED
    BY <2>1, <2>2 DEF StorageInv, OwnedAllocated
<1>7. QED
  BY <1>4, <1>5, <1>6 DEF StorageInv

-----------------------------------------------------------------------------
(* Sliced stores in progress.                                               *)

(* store1dslice went past its test, and the test would succeed again.       *)
PendingInv ==
    \A t \in Tasks : \A i \in DOMAIN pending[t] :
        ~SliceRefused(pending[t][i].var)

(* No step takes away what the test found.                                  *)
Firm == \A x \in Vars : ~SliceRefused(x) => ~SliceRefused(x)'

(* The operations that end or unwind sliced stores leave the others.        *)
Fewer ==
    \A t \in Tasks : \A i \in DOMAIN pending'[t] :
        i \in DOMAIN pending[t] /\ pending'[t][i] = pending[t][i]

(* Where the test succeeds, bound_value_ holds an allocated array.          *)
LEMMA PendingLive ==
    ASSUME TypeOK, StorageInv, PendingInv
    PROVE  PendingTargetLive
<1>1. ASSUME NEW t \in Tasks, NEW i \in DOMAIN pending[t]
      PROVE  LET s == bound_value[pending[t][i].var]
             IN  s.kind \in {"own", "ref"} /\ s.cell \in DOMAIN heap
  <2> DEFINE y == pending[t][i].var
  <2>1. pending[t] \in Seq(PendingStores)
    BY DEF TypeOK
  <2>2. y \in Vars
    <3>1. pending[t][i] \in PendingStores
      BY <2>1
    <3>2. QED
      BY <3>1 DEF PendingStores
  <2>3. Valid(bound_value[y]) /\ bound_value[y] # Prim
    BY <1>1, <2>2 DEF PendingInv, SliceRefused, TypeOK
  <2>4. QED
    BY <2>2, <2>3, BoundLive
<1>2. QED
  BY <1>1 DEF PendingTargetLive

(* A step that takes nothing away and begins no sliced store keeps it.      *)
LEMMA PendingKept ==
    ASSUME TypeOK, PendingInv, Firm, Fewer
    PROVE  PendingInv'
<1>1. ASSUME NEW t \in Tasks, NEW i \in DOMAIN pending'[t]
      PROVE  \E y \in Vars : pending'[t][i].var = y /\ ~SliceRefused(y)'
  <2>1. i \in DOMAIN pending[t] /\ pending'[t][i] = pending[t][i]
    BY DEF Fewer
  <2>2. pending[t][i] \in PendingStores
    <3>1. pending[t] \in Seq(PendingStores)
      BY DEF TypeOK
    <3>2. QED
      BY <2>1, <3>1
  <2>3. PICK y \in Vars : y = pending[t][i].var
    BY <2>2 DEF PendingStores
  <2>4. ~SliceRefused(y)
    BY <2>1, <2>3 DEF PendingInv
  <2>5. QED
    BY <2>1, <2>3, <2>4 DEF Firm
<1>2. QED
  BY <1>1 DEF PendingInv, SliceRefused

(* Copies are valid, and so is a reference to a value.                      *)
LEMMA FirmDefine ==
    ASSUME TypeOK, NEW t \in Tasks, NEW x \in Vars,
           Define(t, x) \/ StoreInitial(t, x) \/ Store(t, x)
    PROVE  Firm /\ UNCHANGED pending
<1>1. CASE DefineNil(t, x)
  BY <1>1 DEF DefineNil, Firm, SliceRefused
<1>2. CASE \/ DefineLiteral(t, x) \/ DefineExpression(t, x)
           \/ RebindExpression(t, x) \/ StoreInitial(t, x) \/ Store(t, x)
  <2>1. \E s : Valid(s) /\ operand0' \in {operand0, [operand0 EXCEPT ![x] = s]}
    <3>1. CASE \/ RebindExpression(t, x) \/ Store(t, x)
      BY <3>1, FormsDiffer DEF RebindExpression, Store
    <3>2. CASE DefineLiteral(t, x)
      BY <3>2, FormsDiffer DEF DefineLiteral
    <3>3. CASE DefineExpression(t, x)
      BY <3>3, FormsDiffer DEF DefineExpression
    <3>4. CASE StoreInitial(t, x)
      BY <3>4, FormsDiffer DEF StoreInitial, CopyToOperand0
    <3>5. QED
      BY <1>2, <3>1, <3>2, <3>3, <3>4
  <2>2. \E s : /\ Valid(s)
               /\ bound_value' \in {bound_value, [bound_value EXCEPT ![x] = s]}
    <3>1. CASE CopyToBound(x, Top(t))
      BY <3>1, FormsDiffer DEF CopyToBound
    <3>2. CASE DefineLiteral(t, x)
      BY <3>2, FormsDiffer DEF DefineLiteral
    <3>3. CASE StoreInitial(t, x)
      BY <3>3, FormsDiffer DEF StoreInitial, CopyToOperand0
    <3>4. QED
      BY <1>2, <3>1, <3>2, <3>3 DEF DefineExpression, RebindExpression, Store
  <2>3. UNCHANGED pending
    BY <1>2
    DEF DefineLiteral, DefineExpression, RebindExpression, StoreInitial, Store
  <2>4. QED
    BY <2>1, <2>2, <2>3 DEF Firm, SliceRefused, TypeOK
<1>3. CASE RebindValue(t, x)
  BY <1>3, FormsDiffer DEF RebindValue, Firm, SliceRefused, TypeOK
<1>4. QED
  BY <1>1, <1>2, <1>3 DEF Define

(* Pushing and popping sliced stores.                                       *)
LEMMA PendingBegun ==
    ASSUME TypeOK, PendingInv, NEW t \in Tasks, NEW x \in Vars,
           SliceStoreBegin(t, x)
    PROVE  PendingInv'
<1>1. /\ ~SliceRefused(x) /\ UNCHANGED slots
      /\ pending' = [pending EXCEPT ![t] =
            Append(@, [var |-> x, value |-> Top(t), base |-> Len(ops[t]) - 1])]
  BY DEF SliceStoreBegin
<1>2. ASSUME NEW u \in Tasks, NEW i \in DOMAIN pending'[u]
      PROVE  \E y \in Vars : pending'[u][i].var = y /\ ~SliceRefused(y)
  <2>1. pending[u] \in Seq(PendingStores) /\ pending \in [Tasks -> Seq(PendingStores)]
    BY DEF TypeOK
  <2>2. CASE i \in DOMAIN pending[u]
    <3>1. pending'[u][i] = pending[u][i] /\ pending[u][i] \in PendingStores
      BY <1>1, <2>1, <2>2
    <3>2. QED
      BY <2>2, <3>1 DEF PendingInv, PendingStores
  <2>3. CASE i \notin DOMAIN pending[u]
    <3>1. u = t
      BY <1>1, <2>1, <2>3
    <3>2. pending'[u][i].var = x
      BY <1>1, <2>1, <2>3, <3>1
    <3>3. QED
      BY <1>1, <3>2
  <2>4. QED
    BY <2>2, <2>3
<1>3. QED
  BY <1>1, <1>2 DEF PendingInv, SliceRefused, slots

(* The steps that leave the variables alone: their sliced stores are the    *)
(* ones there were, or fewer.                                               *)
LEMMA FewerSteps ==
    ASSUME TypeOK, NEW t \in Tasks,
           \/ UNCHANGED pending
           \/ Throw(t)
           \/ pending' = [pending EXCEPT ![t] = SubSeq(@, 1, Len(@) - 1)]
    PROVE  Fewer
<1>1. \A u \in Tasks : pending[u] \in Seq(PendingStores)
  BY DEF TypeOK
<1>2. CASE UNCHANGED pending
  BY <1>2 DEF Fewer
<1>3. CASE Throw(t)
  <2>1. \A u \in Tasks : pending'[u] = IF u = t THEN <<>> ELSE pending[u]
    BY <1>3 DEF Throw, TypeOK
  <2>2. QED
    BY <2>1 DEF Fewer
<1>4. CASE pending' = [pending EXCEPT ![t] = SubSeq(@, 1, Len(@) - 1)]
  <2>1. \A u \in Tasks : pending'[u] =
            IF u = t THEN SubSeq(pending[u], 1, Len(pending[u]) - 1)
            ELSE pending[u]
    BY <1>4 DEF TypeOK
  <2>2. ASSUME NEW u \in Tasks, NEW i \in DOMAIN pending'[u]
        PROVE  i \in DOMAIN pending[u] /\ pending'[u][i] = pending[u][i]
    <3>1. CASE u = t
      <4> DEFINE q == pending[t]
      <4>1. q \in Seq(PendingStores) /\ pending'[u] = SubSeq(q, 1, Len(q) - 1)
        BY <1>1, <2>1, <3>1
      <4> HIDE DEF q
      <4>2. i \in 1..(Len(q) - 1) /\ pending'[u][i] = q[i]
        BY <4>1
      <4>3. i \in DOMAIN q
        BY <4>1, <4>2
      <4>4. QED
        BY <3>1, <4>2, <4>3 DEF q
    <3>2. CASE u # t
      BY <2>1, <3>2
    <3>3. QED
      BY <3>1, <3>2
  <2>3. QED
    BY <2>2 DEF Fewer
<1>5. QED
  BY <1>2, <1>3, <1>4

-----------------------------------------------------------------------------
(* The inductive invariant: the types, the storage discipline and, for the  *)
(* sliced stores in progress, that what their test found still holds.       *)
IInv == TypeOK /\ StorageInv /\ PendingInv

(* The invariant holds initially.                                           *)
LEMMA InvInit == Init => IInv
<1> SUFFICES ASSUME Init PROVE IInv
  OBVIOUS
<1>1. TypeOK
  BY EmptySeq DEF Init, TypeOK, Slots, Nil, Prim
<1>2. StorageInv
  BY FormsDiffer
  DEF Init, StorageInv, UniqueOwner, OwnReferences, OwnedAllocated, Owned
<1>3. PendingInv
  BY DEF Init, PendingInv
<1>4. QED
  BY <1>1, <1>2, <1>3 DEF IInv

(* Defining a variable and storing a whole value keep it.                   *)
LEMMA InvWhole ==
    ASSUME IInv, NEW t \in Tasks, NEW x \in Vars,
           Define(t, x) \/ StoreInitial(t, x) \/ Store(t, x)
    PROVE  IInv'
<1>1. TypeOK /\ StorageInv /\ PendingInv
  BY DEF IInv
<1>2. TypeOK'
  BY <1>1, TypeDefine, TypeStoreWhole DEF StoreWhole
<1>3. StorageInv'
  <2>1. CASE DefineNil(t, x)
    BY <1>1, <2>1, StorageUnchanged
    DEF DefineNil, StorageInv, UniqueOwner, OwnReferences, OwnedAllocated, Owned
  <2>2. CASE DefineLiteral(t, x)
    <3>1. PICK a \in Arrays, c \in FreeCells :
            /\ operand0' = [operand0 EXCEPT ![x] = Own(c)]
            /\ bound_value' = [bound_value EXCEPT ![x] = Ref(c)]
            /\ Keep(Allocate(heap, c, a))
      BY <2>2 DEF DefineLiteral
    <3>2. /\ \A y \in Vars \ {x} : /\ operand0'[y] = operand0[y]
                                   /\ bound_value'[y] = bound_value[y]
          /\ operand0'[x] = Own(c) /\ bound_value'[x] = Ref(c)
      BY <1>1, <3>1 DEF TypeOK
    <3>3. QED
      BY <1>1, <3>1, <3>2, StorageAllocated
  <2>3. CASE RebindValue(t, x)
    BY <1>1, <2>3, StorageRebound
  <2>4. CASE StoreInitial(t, x)
    <3>1. operand0[x] = Nil
      BY <1>1, <2>4, SlotForms DEF StoreInitial, TypeOK
    <3>2. QED
      BY <1>1, <2>4, <3>1, StorageCopied DEF StoreInitial
  <2>5. CASE DefineExpression(t, x) \/ RebindExpression(t, x) \/ Store(t, x)
    BY <1>1, <2>5, StorageCopied
    DEF DefineExpression, RebindExpression, Store
  <2>6. QED
    BY <2>1, <2>2, <2>3, <2>4, <2>5 DEF Define
<1>4. PendingInv'
  BY <1>1, FirmDefine, FewerSteps, PendingKept
<1>5. QED
  BY <1>2, <1>3, <1>4 DEF IInv

(* The steps that change no variable and allocate no cell keep it.          *)
LEMMA InvQuiet ==
    ASSUME IInv, TypeOK', UNCHANGED slots, DOMAIN heap' = DOMAIN heap, Fewer
    PROVE  IInv'
<1>1. Firm
  BY DEF Firm, SliceRefused, slots
<1>2. QED
  BY <1>1, StorageUnchanged, PendingKept DEF IInv

(* A step of the specification keeps it.                                    *)
LEMMA InvNext == IInv /\ [Next]_vars => IInv'
<1> SUFFICES ASSUME IInv, [Next]_vars PROVE IInv'
  OBVIOUS
<1>1. TypeOK /\ StorageInv /\ PendingInv /\ PendingTargetLive
  BY PendingLive DEF IInv
<1>2. CASE UNCHANGED vars
  BY <1>2
  DEF IInv, vars, slots, TypeOK, StorageInv, UniqueOwner, OwnReferences,
      OwnedAllocated, Owned, PendingInv, SliceRefused
<1>3. CASE Next
  <2>1. PICK t \in Tasks :
        \/ EvalExpression(t) \/ Consume(t)
        \/ SliceOperand(t) \/ SliceStoreEnd(t) \/ SliceStoreInvalid(t)
        \/ \E x \in Vars :
            \/ EvalVariable(t, x) \/ SliceVariable(t, x)
            \/ Define(t, x) \/ StoreWhole(t, x) \/ StoreSlice(t, x)
    BY <1>3 DEF Next
  <2>2. CASE \/ EvalExpression(t) \/ Consume(t)
             \/ \E x \in Vars : EvalVariable(t, x)
    <3>1. TypeOK'
      BY <1>1, <2>2, TypeEval
    <3>2. UNCHANGED <<slots, heap, pending>>
      BY <2>2 DEF EvalExpression, Consume, EvalVariable
    <3>3. QED
      BY <1>1, <3>1, <3>2, FewerSteps, InvQuiet
  <2>3. CASE SliceOperand(t) \/ \E x \in Vars : SliceVariable(t, x)
    <3>1. TypeOK' /\ DOMAIN heap' = DOMAIN heap
      BY <1>1, <2>3, TypeSlices
    <3>2. UNCHANGED slots /\ (UNCHANGED pending \/ Throw(t))
      BY <2>3 DEF SliceOperand, SliceVariable, Slice
    <3>3. QED
      BY <1>1, <3>1, <3>2, FewerSteps, InvQuiet
  <2>4. CASE SliceStoreEnd(t)
    <3>1. TypeOK' /\ DOMAIN heap' = DOMAIN heap
      BY <1>1, <2>4, TypeSliceStoreEnd
    <3>2. /\ UNCHANGED slots
          /\ \/ Throw(t)
             \/ pending' = [pending EXCEPT ![t] = SubSeq(@, 1, Len(@) - 1)]
      BY <2>4 DEF SliceStoreEnd
    <3>3. QED
      BY <1>1, <3>1, <3>2, FewerSteps, InvQuiet
  <2>5. CASE \E x \in Vars :
                \/ Define(t, x) \/ StoreWhole(t, x) \/ StoreSlice(t, x)
    <3>1. PICK x \in Vars :
                \/ Define(t, x) \/ StoreWhole(t, x) \/ StoreSlice(t, x)
      BY <2>5
    <3>2. CASE Define(t, x) \/ StoreInitial(t, x) \/ Store(t, x)
      BY <3>2, InvWhole
    <3>3. CASE SliceStoreBegin(t, x)
      <4>1. TypeOK' /\ UNCHANGED <<slots, heap>>
        BY <1>1, <3>3, TypeStoreSlice DEF StoreSlice, SliceStoreBegin
      <4>2. QED
        BY <1>1, <3>3, <4>1, StorageUnchanged, PendingBegun DEF IInv
    <3>4. CASE StoreInvalid(t, x) \/ SliceStoreRefused(t, x)
      <4>1. TypeOK'
        BY <1>1, <3>4, TypeStoreWhole, TypeStoreSlice
        DEF StoreWhole, StoreSlice
      <4>2. UNCHANGED <<slots, heap>> /\ Throw(t)
        BY <3>4 DEF StoreInvalid, SliceStoreRefused
      <4>3. QED
        BY <1>1, <4>1, <4>2, FewerSteps, InvQuiet
    <3>5. QED
      BY <3>1, <3>2, <3>3, <3>4 DEF StoreWhole, StoreSlice
  <2>6. CASE SliceStoreInvalid(t)
    <3>1. UNCHANGED <<slots, heap>> /\ Throw(t)
      BY <2>6 DEF SliceStoreInvalid
    <3>2. TypeOK'
      BY <1>1, <3>1, ThrowType DEF TypeOK, slots
    <3>3. QED
      BY <1>1, <3>1, <3>2, FewerSteps, InvQuiet
  <2>7. QED
    BY <2>1, <2>2, <2>3, <2>4, <2>5, <2>6
<1>4. QED
  BY <1>2, <1>3

(* In every behaviour the inductive invariant holds.                        *)
THEOREM Invariant == Spec => []IInv
BY InvInit, InvNext, PTL DEF Spec

(* The state of the variables, of the heap and of the tasks stays in its    *)
(* types: a sliced store or a slice never makes a value that is none.       *)
THEOREM TypeCorrect == Spec => []TypeOK
<1>1. IInv => TypeOK
  BY DEF IInv
<1>2. QED
  BY <1>1, Invariant, PTL

(* No variable ever dangles or shares its array with another one, whatever  *)
(* references the tasks hold and in whatever order they store.              *)
THEOREM Storage == Spec => []StorageSafe
<1>1. IInv => StorageSafe
  BY StorageFollows DEF IInv
<1>2. QED
  BY <1>1, Invariant, PTL

(* What store1dslice tested before it evaluated its index still holds when  *)
(* the index is there, whatever ran in between.                             *)
THEOREM PendingStoresSafe == Spec => []PendingTargetLive
<1>1. IInv => PendingTargetLive
  BY PendingLive DEF IInv
<1>2. QED
  BY <1>1, Invariant, PTL

-----------------------------------------------------------------------------
(* Values for the users of the variables: no step changes the value of a    *)
(* variable it is not about.                                                *)

(* A value is bound to a variable only once the variable has a definition.  *)
DefinedFirst == \A x \in Vars : Valid(bound_value[x]) => Valid(operand0[x])

(* Defining and storing change one variable.                                *)
LEMMA OneDefined ==
    ASSUME TypeOK, NEW t \in Tasks, NEW x \in Vars,
           Define(t, x) \/ StoreInitial(t, x) \/ Store(t, x)
    PROVE  \A y \in Vars : y # x =>
            operand0'[y] = operand0[y] /\ bound_value'[y] = bound_value[y]
<1>1. \/ UNCHANGED operand0
      \/ \E s : operand0' = [operand0 EXCEPT ![x] = s]
  BY DEF Define, DefineNil, DefineLiteral, DefineExpression, RebindExpression,
         RebindValue, StoreInitial, Store, CopyToOperand0
<1>2. \/ UNCHANGED bound_value
      \/ \E s : bound_value' = [bound_value EXCEPT ![x] = s]
  <2>1. CASE CopyToBound(x, Top(t))
    BY <2>1 DEF CopyToBound
  <2>2. CASE CopyToOperand0(x, Top(t))
    BY <2>2 DEF CopyToOperand0
  <2>3. CASE DefineNil(t, x) \/ DefineLiteral(t, x) \/ RebindValue(t, x)
    BY <2>3 DEF DefineNil, DefineLiteral, RebindValue
  <2>4. QED
    BY <2>1, <2>2, <2>3
    DEF Define, DefineExpression, RebindExpression, StoreInitial, Store
<1>3. QED
  BY <1>1, <1>2 DEF TypeOK

(* Defining and storing bind a value only where there is a definition.      *)
LEMMA DefinedFirstNext ==
    ASSUME TypeOK, DefinedFirst, [Next]_vars
    PROVE  DefinedFirst'
<1>1. CASE UNCHANGED slots
  BY <1>1 DEF DefinedFirst, slots
<1>2. CASE \E t \in Tasks, x \in Vars :
            Define(t, x) \/ StoreInitial(t, x) \/ Store(t, x)
  <2>1. PICK t \in Tasks, x \in Vars :
            Define(t, x) \/ StoreInitial(t, x) \/ Store(t, x)
    BY <1>2
  <2>2. \A y \in Vars : y # x =>
            operand0'[y] = operand0[y] /\ bound_value'[y] = bound_value[y]
    BY <2>1, OneDefined
  <2>3. Valid(bound_value'[x]) => Valid(operand0'[x])
    <3>1. CASE DefineNil(t, x)
      BY <3>1 DEF DefineNil, DefinedFirst
    <3>2. CASE RebindValue(t, x)
      BY <3>2, FormsDiffer DEF RebindValue, TypeOK, Valid, Nil
    <3>3. CASE DefineLiteral(t, x)
      BY <3>3, FormsDiffer DEF DefineLiteral, TypeOK
    <3>4. CASE DefineExpression(t, x)
      BY <3>4, FormsDiffer DEF DefineExpression, TypeOK
    <3>5. CASE StoreInitial(t, x)
      BY <3>5, FormsDiffer DEF StoreInitial, CopyToOperand0, TypeOK
    <3>6. CASE RebindExpression(t, x) \/ Store(t, x)
      BY <3>6, FormsDiffer DEF RebindExpression, Store
    <3>7. QED
      BY <2>1, <3>1, <3>2, <3>3, <3>4, <3>5, <3>6 DEF Define
  <2>4. QED
    BY <2>2, <2>3 DEF DefinedFirst
<1>3. QED
  BY <1>1, <1>2
  DEF Next, vars, slots, EvalExpression, Consume, SliceOperand, SliceStoreEnd,
      SliceStoreInvalid, EvalVariable, SliceVariable, Slice, StoreWhole,
      StoreInvalid, StoreSlice, SliceStoreBegin, SliceStoreRefused

(* What the proofs about values use.                                        *)
ValueInv == IInv /\ DefinedFirst

(* It is an invariant.                                                      *)
LEMMA ValueInvNext ==
    /\ Init => ValueInv
    /\ ValueInv /\ [Next]_vars => ValueInv'
<1>1. Init => ValueInv
  BY InvInit, FormsDiffer DEF Init, ValueInv, DefinedFirst, Valid, Nil
<1>2. IInv => TypeOK
  BY DEF IInv
<1>3. QED
  BY <1>1, <1>2, InvNext, DefinedFirstNext DEF ValueInv

(* A variable whose target stays has the same value, unless the array       *)
(* itself is overwritten.                                                   *)
LEMMA ValueKept ==
    ASSUME TypeOK, StorageInv, TypeOK', StorageInv', NEW y \in Vars,
           Target(y)' = Target(y),
           Target(y).kind \in {"own", "ref"}
              /\ Target(y).cell \in DOMAIN heap \cap DOMAIN heap'
                => heap'[Target(y).cell] = heap[Target(y).cell]
    PROVE  Value(y)' = Value(y)
<1>1. CASE Target(y).kind \in {"own", "ref"}
  <2>1. StorageSafe /\ StorageSafe'
    BY StorageFollows, PTL
  <2>2. Target(y).cell \in DOMAIN heap /\ Target(y).cell \in DOMAIN heap'
    BY <1>1, <2>1 DEF StorageSafe, ValuesLive
  <2>3. QED
    BY <1>1, <2>2 DEF Value
<1>2. CASE ~(Target(y).kind \in {"own", "ref"})
  BY <1>2 DEF Value
<1>3. QED
  BY <1>1, <1>2

(* Two variables never have their values in the same array.                 *)
LEMMA ValuesApart ==
    ASSUME TypeOK, StorageInv, NEW x \in Vars, NEW y \in Vars, x # y,
           Target(x).kind \in {"own", "ref"}, Target(y).kind \in {"own", "ref"}
    PROVE  Target(x).cell # Target(y).cell
<1>1. ASSUME NEW z \in Vars, Target(z).kind \in {"own", "ref"}
      PROVE  /\ Target(z).cell \in Cells
             /\ \/ operand0[z] = Own(Target(z).cell)
                \/ bound_value[z] = Own(Target(z).cell)
  <2>1. Target(z) \in Slots /\ Target(z) \in {operand0[z], bound_value[z]}
    BY DEF TypeOK, Target
  <2>2. Target(z).cell \in Cells
        /\ Target(z) \in {Own(Target(z).cell), Ref(Target(z).cell)}
    BY <1>1, <2>1, SlotForms
  <2>3. QED
    BY <2>1, <2>2 DEF StorageInv, OwnReferences
<1>2. QED
  BY <1>1 DEF StorageInv, UniqueOwner

(* A step that changes one variable, by copying or freeing, leaves the      *)
(* values of the others alone.                                              *)
LEMMA OthersKept ==
    ASSUME IInv, NEW t \in Tasks, NEW x \in Vars,
           Define(t, x) \/ StoreInitial(t, x) \/ Store(t, x),
           NEW y \in Vars, Target(y)' = Target(y)
    PROVE  Value(y)' = Value(y)
<1>1. IInv'
  BY InvWhole
<1>2. TypeOK /\ StorageInv /\ TypeOK' /\ StorageInv'
  BY <1>1 DEF IInv
<1>3. \A d \in DOMAIN heap \cap DOMAIN heap' : heap'[d] = heap[d]
  <2>1. ASSUME NEW a, NEW c \in FreeCells, Keep(Allocate(heap, c, a))
        PROVE  \A d \in DOMAIN heap \cap DOMAIN heap' : heap'[d] = heap[d]
    BY <2>1 DEF Keep, Allocate, FreeCells
  <2>2. CASE DefineNil(t, x)
    BY <2>2 DEF DefineNil
  <2>3. CASE RebindValue(t, x)
    BY <2>3 DEF RebindValue, Keep
  <2>4. CASE DefineLiteral(t, x)
    BY <2>1, <2>4 DEF DefineLiteral
  <2>5. CASE StoreInitial(t, x)
    BY <2>1, <2>5 DEF StoreInitial, CopyToOperand0
  <2>6. CASE DefineExpression(t, x) \/ RebindExpression(t, x) \/ Store(t, x)
    BY <2>1, <2>6
    DEF DefineExpression, RebindExpression, Store, CopyToBound
  <2>7. QED
    BY <2>2, <2>3, <2>4, <2>5, <2>6 DEF Define
<1>4. QED
  BY <1>2, <1>3, ValueKept

(* The inductive invariant says that values are live.                       *)
LEMMA InvSafe == IInv => StorageSafe
BY StorageFollows DEF IInv

(* A value that is copied into a variable is what the variable evaluates to *)
(* afterwards.                                                              *)
LEMMA CopyIsRead ==
    ASSUME IInv, IInv', NEW x \in Vars, NEW c \in FreeCells, NEW a,
           Keep(Allocate(heap, c, a)), Target(x)' \in {Own(c), Ref(c)}
    PROVE  Value(x)' = a
<1>1. Target(x)'.kind \in {"own", "ref"} /\ Target(x)'.cell = c
  BY DEF Own, Ref
<1>2. c \in DOMAIN heap'
  <2>1. StorageSafe'
    BY InvSafe, PTL
  <2>2. QED
    BY <1>1, <2>1 DEF StorageSafe, ValuesLive
<1>3. heap'[c] = a
  BY <1>2 DEF Keep, Allocate
<1>4. QED
  BY <1>1, <1>2, <1>3 DEF Value

(* Storing a whole value, in either place, is reading the value back.       *)
LEMMA StoredIsRead ==
    ASSUME ValueInv, NEW t \in Tasks, NEW x \in Vars,
           StoreInitial(t, x) \/ Store(t, x)
    PROVE  Value(x)' \in Read(Top(t))
<1>1. IInv /\ IInv' /\ TypeOK /\ DefinedFirst
  BY InvWhole DEF ValueInv, IInv
<1>2. CASE StoreInitial(t, x)
  <2>1. PICK a \in Read(Top(t)), c \in FreeCells :
            /\ operand0' = [operand0 EXCEPT ![x] = Own(c)]
            /\ UNCHANGED bound_value
            /\ Keep(Allocate(heap, c, a))
    BY <1>2 DEF StoreInitial, CopyToOperand0
  <2>2. ~Valid(bound_value[x])
    BY <1>1, <1>2 DEF DefinedFirst, StoreInitial
  <2>3. Target(x)' = Own(c)
    BY <1>1, <2>1, <2>2 DEF Target, TypeOK
  <2>4. QED
    BY <1>1, <2>1, <2>3, CopyIsRead
<1>3. CASE Store(t, x)
  <2>1. PICK a \in Read(Top(t)), c \in FreeCells :
            /\ bound_value' = [bound_value EXCEPT ![x] = Own(c)]
            /\ Keep(Allocate(heap, c, a))
    BY <1>3 DEF Store, CopyToBound
  <2>2. Target(x)' = Own(c)
    BY <1>1, <2>1, FormsDiffer DEF Target, TypeOK
  <2>3. QED
    BY <1>1, <2>1, <2>2, CopyIsRead
<1>4. QED
  BY <1>2, <1>3

(* The value a variable has been given by a store is the one its next       *)
(* evaluation finds, for any instance.                                      *)
THEOREM StoredValues == Spec => StoredValueIsRead
<1>1. ValueInv /\ [Next]_vars =>
        [\A t \in Tasks, x \in Vars :
            StoreInitial(t, x) \/ Store(t, x) => Value(x)' \in Read(Top(t))]_vars
  BY StoredIsRead
<1>2. QED
  BY <1>1, ValueInvNext, PTL DEF Spec, StoredValueIsRead

-----------------------------------------------------------------------------
(* Without negative indices check_index has nothing to normalize.           *)

NonNegative == Elems \subseteq Nat

(* An index array of non-negative indices is not changed.                   *)
LEMMA NormalizedSame ==
    ASSUME NonNegative, NEW ix \in Arrays, NEW n \in Nat
    PROVE  Normalized(ix, n) = ix
<1>1. ix \in [1..Size(ix) -> Elems] /\ Size(ix) \in Nat
  BY SizeType
<1>2. ASSUME NEW k \in DOMAIN ix PROVE CheckIndex(ix[k], n) = ix[k]
  <2>1. ix[k] \in Nat
    BY <1>1 DEF NonNegative
  <2>2. QED
    BY <2>1 DEF CheckIndex
<1>3. QED
  BY <1>1, <1>2 DEF Normalized

(* Writing it back where it was read leaves all arrays as they were.        *)
LEMMA NormalizedInPlace ==
    ASSUME TypeOK, NonNegative, NEW v \in Operands, Valid(v),
           NEW ix \in Read(v), NEW n \in Nat,
           NEW h, h = Write(heap, v, Normalized(ix, n))
    PROVE  DOMAIN h = DOMAIN heap /\ \A d \in DOMAIN heap : h[d] = heap[d]
<1>1. Normalized(ix, n) = ix
  BY ReadType, NormalizedSame
<1>2. \A d \in DOMAIN heap : v.kind \in {"own", "ref"} /\ d = v.cell
        => heap[d] = ix
  BY DEF Read, Operands, Nil, Valid
<1>3. QED
  BY <1>1, <1>2 DEF Write

(* Reading a slice leaves all arrays as they were.                          *)
LEMMA SliceReadsArray ==
    ASSUME TypeOK, NonNegative, NEW t \in Tasks, NEW n \in 1..2, NEW source,
           Held(t) >= n, Valid(Top(t)), Slice(t, source, n),
           \/ source \in Operands /\ Valid(source)
           \/ source \in [kind : {"own", "ref"}, cell : Cells]
    PROVE  /\ UNCHANGED slots
           /\ DOMAIN heap' = DOMAIN heap
           /\ \A d \in DOMAIN heap : heap'[d] = heap[d]
           /\ UNCHANGED pending \/ Throw(t)
<1>1. PICK ix \in Read(Top(t)), a \in Read(source) :
        /\ heap' = Write(heap, Top(t), Normalized(ix, Size(a)))
        /\ UNCHANGED pending \/ Throw(t)
  BY DEF Slice
<1>2. Top(t) \in Operands
  BY HeldType, StackType
<1>3. Size(a) \in Nat
  BY ReadType, SizeType
<1>4. UNCHANGED slots
  BY DEF Slice
<1>5. QED
  BY <1>1, <1>2, <1>3, <1>4, NormalizedInPlace

(* So do both ways of reading one.                                          *)
LEMMA SliceReads ==
    ASSUME TypeOK, NonNegative, NEW t \in Tasks,
           SliceOperand(t) \/ (\E x \in Vars : SliceVariable(t, x))
    PROVE  /\ UNCHANGED slots
           /\ DOMAIN heap' = DOMAIN heap
           /\ \A d \in DOMAIN heap : heap'[d] = heap[d]
           /\ UNCHANGED pending \/ Throw(t)
<1>1. CASE SliceOperand(t)
  <2>1. /\ Held(t) >= 2 /\ Valid(Top(t)) /\ Valid(Below(t))
        /\ Slice(t, Below(t), 2)
    BY <1>1, HeldType DEF SliceOperand
  <2>2. Below(t) \in Operands
    BY <2>1, HeldType, StackType
  <2>3. QED
    BY <2>1, <2>2, SliceReadsArray
<1>2. CASE \E x \in Vars : SliceVariable(t, x)
  <2>1. PICK x \in Vars : SliceVariable(t, x)
    BY <1>2
  <2>2. /\ Held(t) >= 1 /\ Valid(Top(t))
        /\ Slice(t, Ref(Target(x).cell), 1)
        /\ Target(x) \notin {Nil, Prim}
    BY <2>1, HeldType DEF SliceVariable
  <2>3. Target(x) \in Slots
    BY DEF TypeOK, Target
  <2>4. Ref(Target(x).cell) \in [kind : {"own", "ref"}, cell : Cells]
    BY <2>2, <2>3 DEF Slots, Ref
  <2>5. QED
    BY <2>2, <2>4, SliceReadsArray
<1>3. QED
  BY <1>1, <1>2

(* Where no variable changes and no array does, the values are the same.    *)
LEMMA ValuesSame ==
    ASSUME UNCHANGED slots, DOMAIN heap' = DOMAIN heap,
           \A d \in DOMAIN heap : heap'[d] = heap[d]
    PROVE  \A y \in Vars : Value(y)' = Value(y)
BY DEF Value, Target, slots

(* If no index is negative, reading a slice changes the value of no         *)
(* variable: what the run with negative indices finds is the only way.      *)
THEOREM SliceReadsOnly ==
    ASSUME NonNegative
    PROVE  Spec => ReadsDoNotWrite
<1>1. IInv /\ [Next]_vars =>
        [\A t \in Tasks :
            SliceOperand(t) \/ (\E x \in Vars : SliceVariable(t, x))
                => \A y \in Vars : Value(y)' = Value(y)]_vars
  BY SliceReads, ValuesSame DEF IInv
<1>2. QED
  BY <1>1, InvInit, InvNext, PTL DEF Spec, ReadsDoNotWrite

-----------------------------------------------------------------------------
(* Sliced stores in progress as the users of the variables see them.        *)

UpdateOf(p) ==
    [var |-> p.var,
     elements |-> IF p.value.kind = "temp"
                  THEN {p.value.array[k] : k \in DOMAIN p.value.array}
                  ELSE Elems]

UpdatesIn(q) == [i \in DOMAIN q |-> UpdateOf(q[i])]

(* Updating is that, for the stores a task has in progress.                 *)
LEMMA UpdatingForm ==
    \A t \in Tasks : Updating(t) = UpdatesIn(pending[t])
BY DEF Updating, UpdatesIn, UpdateOf

(* What an update may bring are elements of arrays.                         *)
LEMMA UpdateOfType ==
    \A p \in PendingStores :
        UpdateOf(p) \in [var : Vars, elements : SUBSET Elems]
<1> SUFFICES ASSUME NEW p \in PendingStores
    PROVE  UpdateOf(p) \in [var : Vars, elements : SUBSET Elems]
  OBVIOUS
<1>1. p.var \in Vars /\ p.value \in Operands
  BY DEF PendingStores
<1>2. CASE p.value.kind = "temp"
  <2>1. p.value.array \in Arrays
    BY <1>1, <1>2 DEF Operands, Nil
  <2>2. p.value.array \in [1..Size(p.value.array) -> Elems]
    BY <2>1, SizeType
  <2>3. \A k \in DOMAIN p.value.array : p.value.array[k] \in Elems
    BY <2>2
  <2>4. QED
    BY <1>1, <1>2, <2>3 DEF UpdateOf
<1>3. CASE p.value.kind # "temp"
  BY <1>1, <1>3 DEF UpdateOf
<1>4. QED
  BY <1>2, <1>3

(* As many updates as sliced stores, each of a set of elements.             *)
LEMMA UpdatesType ==
    \A q \in Seq(PendingStores) :
        /\ UpdatesIn(q) \in Seq([var : Vars, elements : SUBSET Elems])
        /\ Len(UpdatesIn(q)) = Len(q)
        /\ \A i \in 1..Len(q) : UpdatesIn(q)[i] = UpdateOf(q[i])
<1> SUFFICES ASSUME NEW q \in Seq(PendingStores)
    PROVE  /\ UpdatesIn(q) \in Seq([var : Vars, elements : SUBSET Elems])
           /\ Len(UpdatesIn(q)) = Len(q)
           /\ \A i \in 1..Len(q) : UpdatesIn(q)[i] = UpdateOf(q[i])
  OBVIOUS
<1>1. \A p \in PendingStores : UpdateOf(p) \in [var : Vars, elements : SUBSET Elems]
  BY UpdateOfType
<1>2. DOMAIN q = 1..Len(q) /\ Len(q) \in Nat
      /\ \A i \in 1..Len(q) : q[i] \in PendingStores
  OBVIOUS
<1> HIDE DEF UpdateOf
<1>3. UpdatesIn(q) \in [1..Len(q) -> [var : Vars, elements : SUBSET Elems]]
  BY <1>1, <1>2 DEF UpdatesIn
<1>4. QED
  BY <1>2, <1>3 DEF UpdatesIn

(* Beginning a sliced store adds an update.                                 *)
LEMMA UpdatesAppend ==
    \A q \in Seq(PendingStores), p \in PendingStores :
        UpdatesIn(Append(q, p)) = Append(UpdatesIn(q), UpdateOf(p))
<1> SUFFICES ASSUME NEW q \in Seq(PendingStores), NEW p \in PendingStores
    PROVE  UpdatesIn(Append(q, p)) = Append(UpdatesIn(q), UpdateOf(p))
  OBVIOUS
<1> DEFINE S == [var : Vars, elements : SUBSET Elems]
           r == Append(q, p)
<1>1. r \in Seq(PendingStores) /\ Len(r) = Len(q) + 1 /\ Len(q) \in Nat
      /\ \A i \in 1..Len(q) : r[i] = q[i]
      /\ r[Len(q) + 1] = p
  OBVIOUS
<1>2. /\ UpdatesIn(q) \in Seq(S) /\ Len(UpdatesIn(q)) = Len(q)
      /\ \A i \in 1..Len(q) : UpdatesIn(q)[i] = UpdateOf(q[i])
  BY UpdatesType
<1>3. /\ UpdatesIn(r) \in Seq(S) /\ Len(UpdatesIn(r)) = Len(q) + 1
      /\ \A i \in 1..(Len(q) + 1) : UpdatesIn(r)[i] = UpdateOf(r[i])
  BY <1>1, UpdatesType
<1>4. UpdateOf(p) \in S
  BY UpdateOfType
<1> HIDE DEF r, S
<1>5. /\ Append(UpdatesIn(q), UpdateOf(p)) \in Seq(S)
      /\ Len(Append(UpdatesIn(q), UpdateOf(p))) = Len(q) + 1
      /\ \A i \in 1..(Len(q) + 1) :
            Append(UpdatesIn(q), UpdateOf(p))[i] =
                IF i <= Len(q) THEN UpdatesIn(q)[i] ELSE UpdateOf(p)
  BY <1>1, <1>2, <1>4
<1>6. \A i \in 1..(Len(q) + 1) :
        UpdatesIn(r)[i] = Append(UpdatesIn(q), UpdateOf(p))[i]
  <2>1. ASSUME NEW i \in 1..(Len(q) + 1)
        PROVE  UpdatesIn(r)[i] = Append(UpdatesIn(q), UpdateOf(p))[i]
    <3>1. CASE i <= Len(q)
      BY <1>1, <1>2, <1>3, <1>5, <3>1
    <3>2. CASE ~(i <= Len(q))
      <4>1. i = Len(q) + 1
        BY <1>1, <3>2
      <4>2. i \in 1..(Len(q) + 1)
        OBVIOUS
      <4>3. UpdatesIn(r)[i] = UpdateOf(p)
        <5>1. r[i] = p
          BY <4>1 DEF r
        <5>2. UpdatesIn(r)[i] = UpdateOf(r[i])
          BY <1>3, <4>2
        <5>3. QED
          BY <5>1, <5>2
      <4>4. Append(UpdatesIn(q), UpdateOf(p))[i] = UpdateOf(p)
        BY <1>5, <3>2, <4>2
      <4>5. QED
        BY <4>3, <4>4
    <3>3. QED
      BY <3>1, <3>2
  <2>2. QED
    BY <2>1
<1>7. UpdatesIn(r) = Append(UpdatesIn(q), UpdateOf(p))
  BY <1>3, <1>5, <1>6, SeqEqual
<1>8. QED
  BY <1>7 DEF r

(* Ending one removes its update.                                           *)
LEMMA UpdatesFront ==
    \A q \in Seq(PendingStores) : q # <<>> =>
        /\ UpdatesIn(q) # <<>>
        /\ UpdatesIn(SubSeq(q, 1, Len(q) - 1))
            = SubSeq(UpdatesIn(q), 1, Len(UpdatesIn(q)) - 1)
<1> SUFFICES ASSUME NEW q \in Seq(PendingStores), q # <<>>
    PROVE  /\ UpdatesIn(q) # <<>>
           /\ UpdatesIn(SubSeq(q, 1, Len(q) - 1))
                = SubSeq(UpdatesIn(q), 1, Len(UpdatesIn(q)) - 1)
  OBVIOUS
<1> DEFINE S == [var : Vars, elements : SUBSET Elems]
           r == SubSeq(q, 1, Len(q) - 1)
<1>1. Len(q) \in Nat /\ Len(q) > 0
  BY EmptySeq
<1>2. /\ r \in Seq(PendingStores) /\ Len(r) = Len(q) - 1
      /\ \A i \in 1..(Len(q) - 1) : r[i] = q[i]
  <2>1. \A i \in 1..(Len(q) - 1) : q[i] \in PendingStores
    BY <1>1
  <2> DEFINE k == Len(q) - 1
  <2>2. k \in Nat
    BY <1>1
  <2> HIDE DEF k
  <2>3. \A i \in 1..k : q[i] \in PendingStores
    BY <2>1 DEF k
  <2>4. /\ SubSeq(q, 1, k) \in Seq(PendingStores)
        /\ Len(SubSeq(q, 1, k)) = IF 1 <= k THEN k - 1 + 1 ELSE 0
        /\ \A i \in 1..(k - 1 + 1) : SubSeq(q, 1, k)[i] = q[1 + i - 1]
    BY <2>2, <2>3, SubSeqProperties
  <2>5. Len(SubSeq(q, 1, k)) = k /\ \A i \in 1..k : SubSeq(q, 1, k)[i] = q[i]
    BY <2>2, <2>4
  <2>6. QED
    BY <2>4, <2>5 DEF k
<1>3. /\ UpdatesIn(q) \in Seq(S) /\ Len(UpdatesIn(q)) = Len(q)
      /\ \A i \in 1..Len(q) : UpdatesIn(q)[i] = UpdateOf(q[i])
  BY UpdatesType
<1>4. /\ UpdatesIn(r) \in Seq(S) /\ Len(UpdatesIn(r)) = Len(q) - 1
      /\ \A i \in 1..(Len(q) - 1) : UpdatesIn(r)[i] = UpdateOf(r[i])
  BY <1>2, UpdatesType
<1> HIDE DEF r, S
<1>5. UpdatesIn(q) # <<>>
  BY <1>1, <1>3
<1>6. /\ SubSeq(UpdatesIn(q), 1, Len(q) - 1) \in Seq(S)
      /\ Len(SubSeq(UpdatesIn(q), 1, Len(q) - 1)) = Len(q) - 1
      /\ \A i \in 1..(Len(q) - 1) :
            SubSeq(UpdatesIn(q), 1, Len(q) - 1)[i] = UpdatesIn(q)[i]
  BY <1>1, <1>3
<1>7. \A i \in 1..(Len(q) - 1) :
        UpdatesIn(r)[i] = SubSeq(UpdatesIn(q), 1, Len(q) - 1)[i]
  BY <1>1, <1>2, <1>3, <1>4, <1>6
<1>8. UpdatesIn(r) = SubSeq(UpdatesIn(q), 1, Len(q) - 1)
  BY <1>4, <1>6, <1>7, SeqEqual
<1>9. QED
  BY <1>3, <1>5, <1>8 DEF r

-----------------------------------------------------------------------------
(* Variables implement ValueStore, one step per action.                     *)

(* A definition, a store of a whole value, or declaring a global variable   *)
(* again assigns one variable, or changes no value at all.                  *)
LEMMA AssignStep ==
    ASSUME ValueInv, NEW t \in Tasks, NEW x \in Vars,
           Define(t, x) \/ StoreInitial(t, x) \/ Store(t, x)
    PROVE  /\ UNCHANGED pending
           /\ \A y \in Vars : y # x => Value(y)' = Value(y)
           /\ Value(x)' = Value(x) \/ Value(x)' \in Arrays
<1>1. IInv /\ TypeOK /\ StorageInv /\ DefinedFirst
  BY DEF ValueInv, IInv
<1>2. IInv' /\ TypeOK' /\ StorageInv'
  BY <1>1, InvWhole DEF IInv
<1>3. UNCHANGED pending
  BY <1>1, FirmDefine
<1>4. \A y \in Vars : y # x => Value(y)' = Value(y)
  <2>1. \A y \in Vars : y # x => Target(y)' = Target(y)
    BY <1>1, OneDefined DEF Target
  <2>2. QED
    BY <1>1, <2>1, OthersKept
<1>5. Value(x)' = Value(x) \/ Value(x)' \in Arrays
  <2>1. CASE Target(x)'.kind \in {"own", "ref"}
    <3>1. Target(x)'.cell \in DOMAIN heap'
      <4>1. StorageSafe'
        BY <1>2, InvSafe, PTL
      <4>2. QED
        BY <2>1, <4>1 DEF StorageSafe, ValuesLive
    <3>2. QED
      BY <1>2, <2>1, <3>1 DEF Value, TypeOK
  <2>2. CASE ~(Target(x)'.kind \in {"own", "ref"})
    <3>1. Target(x)' = Target(x)
      <4>1. ~(CopyToBound(x, Top(t)))
        BY <1>1, <2>2, FormsDiffer DEF CopyToBound, Target, TypeOK, Own
      <4>2. CASE DefineNil(t, x)
        BY <4>2 DEF DefineNil, Target
      <4>3. CASE DefineLiteral(t, x)
        BY <1>1, <2>2, <4>3, FormsDiffer
        DEF DefineLiteral, Target, TypeOK, Ref
      <4>4. CASE StoreInitial(t, x)
        <5>1. ~Valid(bound_value[x])
          BY <1>1, <4>4 DEF DefinedFirst, StoreInitial
        <5>2. QED
          BY <1>1, <2>2, <4>4, <5>1
          DEF StoreInitial, CopyToOperand0, Target, TypeOK, Own
      <4>5. CASE RebindValue(t, x)
        <5>1. ~Valid(operand0[x])
          BY <1>1, <2>2, <4>5, FormsDiffer
          DEF RebindValue, Target, TypeOK, Ref
        <5>2. ~Valid(bound_value[x])
          BY <1>1, <5>1 DEF DefinedFirst
        <5>3. QED
          BY <1>1, <4>5, <5>1, <5>2
          DEF RebindValue, Target, TypeOK, Valid, Nil
      <4>6. QED
        BY <4>1, <4>2, <4>3, <4>4, <4>5
        DEF Define, DefineExpression, RebindExpression, Store
    <3>2. QED
      BY <2>2, <3>1 DEF Value
  <2>3. QED
    BY <2>1, <2>2
<1>6. QED
  BY <1>3, <1>4, <1>5

(* A sliced assignment keeps an element or takes one of the value's.        *)
LEMMA AssignedElements ==
    ASSUME NEW a \in Arrays, NEW ix \in Arrays, NEW v \in Arrays,
           Size(v) \in {1, Size(ix)}
    PROVE  \A k \in DOMAIN a :
            \/ Assigned(a, ix, v)[k] = a[k]
            \/ \E j \in DOMAIN v : Assigned(a, ix, v)[k] = v[j]
<1> DEFINE hits(k) ==
        {j \in DOMAIN ix : CheckIndex(ix[j], Size(a)) + 1 = k}
    last(k) == CHOOSE j \in hits(k) : \A i \in hits(k) : i <= j
    new(k) == IF hits(k) = {} THEN a[k]
              ELSE IF Size(v) = 1 THEN v[1] ELSE v[last(k)]
<1>1. /\ Size(ix) \in 1..MaxLen /\ ix \in [1..Size(ix) -> Elems]
      /\ Size(v) \in 1..MaxLen /\ v \in [1..Size(v) -> Elems]
  BY SizeType
<1>2. ASSUME NEW k \in DOMAIN a, hits(k) # {}
      PROVE  last(k) \in 1..Size(ix)
  <2>1. hits(k) \in SUBSET (1..Size(ix)) /\ Size(ix) \in Nat
    BY <1>1
  <2>2. \E j \in hits(k) : \A i \in hits(k) : i <= j
    <3> HIDE DEF hits
    <3>1. QED
      BY <1>2, <2>1, LastExists
  <2>3. last(k) \in hits(k)
    <3> HIDE DEF hits
    <3>1. QED
      BY <2>2
  <2>4. QED
    BY <2>1, <2>3
<1>3. Assigned(a, ix, v) = [k \in DOMAIN a |-> new(k)]
  BY DEF Assigned
<1>4. ASSUME NEW k \in DOMAIN a
      PROVE  new(k) = a[k] \/ \E j \in DOMAIN v : new(k) = v[j]
  <2> HIDE DEF last, hits
  <2>1. CASE hits(k) = {}
    BY <2>1
  <2>2. CASE hits(k) # {}
    BY <1>1, <1>2, <2>2
  <2>3. QED
    BY <2>1, <2>2
<1>5. QED
  <2> HIDE DEF new
  <2>1. QED
    BY <1>3, <1>4

(* A sliced store that ends replaces elements of the value its variable has *)
(* then by elements of the value stored, and changes no other variable.     *)
LEMMA CommitStep ==
    ASSUME ValueInv, NonNegative, NEW t \in Tasks, SliceStoreEnd(t),
           NEW p, p = pending[t][Len(pending[t])]
    PROVE  /\ UNCHANGED slots /\ DOMAIN heap' = DOMAIN heap
           /\ p \in PendingStores /\ pending[t] # <<>>
           /\ \/ /\ Throw(t)
                 /\ \A d \in DOMAIN heap : heap'[d] = heap[d]
              \/ /\ pending' = [pending EXCEPT ![t] = SubSeq(@, 1, Len(@) - 1)]
                 /\ \A y \in Vars : y # p.var => Value(y)' = Value(y)
                 /\ Value(p.var)' \in [DOMAIN Value(p.var) -> Elems]
                 /\ \A k \in DOMAIN Value(p.var) :
                        \/ Value(p.var)'[k] = Value(p.var)[k]
                        \/ Value(p.var)'[k] \in UpdateOf(p).elements
<1> DEFINE s == bound_value[p.var]
           old == heap[s.cell]
<1>1. /\ TypeOK /\ StorageInv /\ PendingInv /\ PendingTargetLive
      /\ TypeOK' /\ StorageInv' /\ DOMAIN heap' = DOMAIN heap
  <2>1. TypeOK /\ StorageInv /\ PendingInv /\ PendingTargetLive
    BY PendingLive DEF ValueInv, IInv
  <2>2. TypeOK' /\ DOMAIN heap' = DOMAIN heap
    BY <2>1, TypeSliceStoreEnd
  <2>3. UNCHANGED slots
    BY DEF SliceStoreEnd
  <2>4. QED
    BY <2>1, <2>2, <2>3, StorageUnchanged
<1>2. /\ pending[t] # <<>> /\ Held(t) = 1 /\ Valid(Top(t))
      /\ Valid(p.value) /\ UNCHANGED slots
  BY DEF SliceStoreEnd
<1>3. p \in PendingStores /\ Len(pending[t]) \in DOMAIN pending[t]
  BY <1>1, <1>2, PendingType
<1>4. s.kind \in {"own", "ref"} /\ s.cell \in DOMAIN heap
  BY <1>1, <1>3 DEF PendingTargetLive
<1>5. old \in Arrays
  BY <1>1, <1>4 DEF TypeOK
<1>6. Top(t) \in Operands
  BY <1>1, <1>2, HeldType, StackType
<1>7. PICK ix \in Read(Top(t)), v \in Read(p.value) :
        LET fits == Size(v) \in {1, Size(ix)}
            h1 == Write(heap, Top(t), Normalized(ix, Size(old)))
            cur == h1[s.cell]
        IN  IF fits /\ AllInRange(ix, Size(old))
            THEN /\ heap' = Write(h1, s, Assigned(cur, ix, v))
                 /\ Pop(t, 1)
                 /\ pending' = [pending EXCEPT ![t] =
                        SubSeq(@, 1, Len(@) - 1)]
            ELSE /\ heap' = IF fits THEN h1 ELSE heap
                 /\ Throw(t)
  BY DEF SliceStoreEnd
<1> DEFINE h1 == Write(heap, Top(t), Normalized(ix, Size(old)))
           new == Assigned(h1[s.cell], ix, v)
<1>8. DOMAIN h1 = DOMAIN heap /\ \A d \in DOMAIN heap : h1[d] = heap[d]
  BY <1>1, <1>2, <1>5, <1>6, SizeType, NormalizedInPlace
<1>9. ix \in Arrays /\ v \in Arrays
  BY <1>1, <1>2, <1>3, <1>6, ReadType DEF PendingStores
<1> HIDE DEF h1
<1>10. CASE ~(Size(v) \in {1, Size(ix)} /\ AllInRange(ix, Size(old)))
  <2>1. Throw(t) /\ heap' \in {h1, heap}
    BY <1>7, <1>10 DEF h1
  <2>2. QED
    BY <1>1, <1>2, <1>3, <1>8, <2>1
<1>11. CASE Size(v) \in {1, Size(ix)} /\ AllInRange(ix, Size(old))
  <2>1. /\ heap' = Write(h1, s, new)
        /\ pending' = [pending EXCEPT ![t] = SubSeq(@, 1, Len(@) - 1)]
    BY <1>7, <1>11 DEF h1
  <2>2. h1[s.cell] = old
    BY <1>4, <1>8
  <2>3. \A d \in DOMAIN heap : heap'[d] = IF d = s.cell THEN new ELSE heap[d]
    <3> HIDE DEF new
    <3>1. QED
      BY <1>4, <1>8, <2>1 DEF Write
  <2>4. p.var \in Vars
    BY <1>3 DEF PendingStores
  <2>5. Target(p.var) = s /\ Value(p.var) = old /\ Value(p.var)' = new
    <3>1. Target(p.var) = s
      BY <1>4, <2>4 DEF Target, Valid
    <3>2. Target(p.var)' = s
      BY <1>2, <1>4, <2>4 DEF Target, Valid, slots
    <3> HIDE DEF new
    <3>3. QED
      BY <1>1, <1>4, <2>3, <3>1, <3>2 DEF Value
  <2>6. ASSUME NEW y \in Vars, y # p.var PROVE Value(y)' = Value(y)
    <3>1. Target(y)' = Target(y)
      BY <1>2 DEF Target, slots
    <3>2. Target(y).kind \in {"own", "ref"} => Target(y).cell # s.cell
      BY <1>1, <1>4, <2>4, <2>5, <2>6, ValuesApart
    <3>3. QED
      BY <1>1, <2>3, <3>1, <3>2, ValueKept
  <2>7. new \in [1..Size(old) -> Elems] /\ DOMAIN old = 1..Size(old)
    BY <1>5, <1>9, <1>11, <2>2, AssignedType, SizeType
  <2>8. \A k \in DOMAIN old :
            new[k] = old[k] \/ \E j \in DOMAIN v : new[k] = v[j]
    <3>1. new = Assigned(old, ix, v)
      BY <2>2
    <3> HIDE DEF new, old
    <3>2. QED
      BY <1>5, <1>9, <1>11, <3>1, AssignedElements
  <2>9. ASSUME NEW j \in DOMAIN v PROVE v[j] \in UpdateOf(p).elements
    <3>1. CASE p.value.kind = "temp"
      BY <3>1 DEF UpdateOf, Read
    <3>2. CASE p.value.kind # "temp"
      BY <1>9, <3>2, SizeType DEF UpdateOf
    <3>3. QED
      BY <3>1, <3>2
  <2>10. /\ Value(p.var)' \in [DOMAIN Value(p.var) -> Elems]
         /\ \A k \in DOMAIN Value(p.var) :
                \/ Value(p.var)'[k] = Value(p.var)[k]
                \/ Value(p.var)'[k] \in UpdateOf(p).elements
    <3> HIDE DEF new, old
    <3>1. QED
      BY <2>5, <2>7, <2>8, <2>9
  <2>11. QED
    BY <1>1, <1>2, <1>3, <2>1, <2>6, <2>10
<1>12. QED
  BY <1>10, <1>11

(* The updates in progress after a task's last one is dropped, after a new  *)
(* one begins, and after the task unwinds.                                  *)
LEMMA UpdatingSteps ==
    ASSUME TypeOK, NEW t \in Tasks
    PROVE  /\ UNCHANGED pending => \A u \in Tasks : Updating(u)' = Updating(u)
           /\ Throw(t) => \A u \in Tasks :
                Updating(u)' = IF u = t THEN <<>> ELSE Updating(u)
           /\ pending[t] # <<>>
              /\ pending' = [pending EXCEPT ![t] = SubSeq(@, 1, Len(@) - 1)]
                => /\ Updating(t) # <<>>
                   /\ \A u \in Tasks : Updating(u)' =
                        IF u = t THEN SubSeq(Updating(t), 1, Len(Updating(t)) - 1)
                        ELSE Updating(u)
           /\ \A p \in PendingStores :
                pending' = [pending EXCEPT ![t] = Append(@, p)]
                => \A u \in Tasks : Updating(u)' =
                        IF u = t THEN Append(Updating(t), UpdateOf(p))
                        ELSE Updating(u)
<1>1. \A u \in Tasks : /\ Updating(u) = UpdatesIn(pending[u])
                       /\ Updating(u)' = UpdatesIn(pending'[u])
                       /\ pending[u] \in Seq(PendingStores)
  BY DEF TypeOK, Updating, UpdatesIn, UpdateOf
<1>2. pending = [u \in Tasks |-> pending[u]]
  BY DEF TypeOK
<1>3. UNCHANGED pending => \A u \in Tasks : Updating(u)' = Updating(u)
  BY <1>1
<1>4. ASSUME Throw(t)
      PROVE  \A u \in Tasks :
                Updating(u)' = IF u = t THEN <<>> ELSE Updating(u)
  <2>1. \A u \in Tasks : pending'[u] = IF u = t THEN <<>> ELSE pending[u]
    BY <1>2, <1>4 DEF Throw
  <2>2. UpdatesIn(<<>>) = <<>>
    BY DEF UpdatesIn
  <2>3. QED
    BY <1>1, <2>1, <2>2
<1>5. ASSUME pending[t] # <<>>,
             pending' = [pending EXCEPT ![t] = SubSeq(@, 1, Len(@) - 1)]
      PROVE  /\ Updating(t) # <<>>
             /\ \A u \in Tasks : Updating(u)' =
                    IF u = t THEN SubSeq(Updating(t), 1, Len(Updating(t)) - 1)
                    ELSE Updating(u)
  <2>1. \A u \in Tasks : pending'[u] =
            IF u = t THEN SubSeq(pending[t], 1, Len(pending[t]) - 1)
            ELSE pending[u]
    BY <1>2, <1>5
  <2>2. QED
    BY <1>1, <1>5, <2>1, UpdatesFront
<1>6. ASSUME NEW p \in PendingStores,
             pending' = [pending EXCEPT ![t] = Append(@, p)]
      PROVE  \A u \in Tasks : Updating(u)' =
                IF u = t THEN Append(Updating(t), UpdateOf(p)) ELSE Updating(u)
  <2>1. \A u \in Tasks : pending'[u] =
            IF u = t THEN Append(pending[t], p) ELSE pending[u]
    BY <1>2, <1>6
  <2>2. QED
    BY <1>1, <2>1, UpdatesAppend
<1>7. QED
  BY <1>3, <1>4, <1>5, <1>6

(* Initially no variable has a value and no update is in progress.          *)
LEMMA ValuesInit == Init => Values!Init
<1> SUFFICES ASSUME Init PROVE Values!Init
  OBVIOUS
<1>1. \A x \in Vars : Value(x) = <<>>
  BY DEF Init, Value, Target, Nil, Valid
<1>2. \A t \in Tasks : Updating(t) = <<>>
  BY DEF Init, Updating
<1>3. QED
  BY <1>1, <1>2 DEF Values!Init, Values!Unset

(* Steps in terms of the values and updates.                                *)
LEMMA ValuesActions ==
    /\ (\A y \in Vars : Value(y)' = Value(y))
       /\ (\A u \in Tasks : Updating(u)' = Updating(u))
        => UNCHANGED Values!vars
    /\ \A x \in Vars :
        (\A y \in Vars : y # x => Value(y)' = Value(y))
        /\ Value(x)' \in Arrays
        /\ (\A u \in Tasks : Updating(u)' = Updating(u))
            => Values!Assign(x)
    /\ \A t \in Tasks :
        (\A y \in Vars : Value(y)' = Value(y))
        /\ (\A u \in Tasks :
                Updating(u)' = IF u = t THEN <<>> ELSE Updating(u))
            => Values!Abort(t)
    /\ \A t \in Tasks, p \in PendingStores :
        (\A y \in Vars : Value(y)' = Value(y))
        /\ Value(p.var) # <<>>
        /\ (\A u \in Tasks : Updating(u)' =
                IF u = t THEN Append(Updating(t), UpdateOf(p))
                ELSE Updating(u))
            => Values!Begin(t, p.var)
<1> DEFINE V == [x \in Vars |-> Value(x)]
           U == [t \in Tasks |-> Updating(t)]
<1>1. ASSUME \A y \in Vars : Value(y)' = Value(y),
             \A u \in Tasks : Updating(u)' = Updating(u)
      PROVE  UNCHANGED Values!vars
  BY <1>1 DEF Values!vars
<1>2. ASSUME NEW x \in Vars,
             \A y \in Vars : y # x => Value(y)' = Value(y),
             Value(x)' \in Arrays,
             \A u \in Tasks : Updating(u)' = Updating(u)
      PROVE  Values!Assign(x)
  <2>1. V' = [V EXCEPT ![x] = Value(x)'] /\ U' = U
    BY <1>2
  <2>2. QED
    BY <1>2, <2>1 DEF Values!Assign, Values!Arrays, Arrays
<1>3. ASSUME NEW t \in Tasks,
             \A y \in Vars : Value(y)' = Value(y),
             \A u \in Tasks :
                Updating(u)' = IF u = t THEN <<>> ELSE Updating(u)
      PROVE  Values!Abort(t)
  <2>1. U' = [U EXCEPT ![t] = <<>>] /\ V' = V
    BY <1>3
  <2>2. QED
    BY <2>1 DEF Values!Abort
<1>4. ASSUME NEW t \in Tasks, NEW p \in PendingStores,
             \A y \in Vars : Value(y)' = Value(y),
             Value(p.var) # <<>>,
             \A u \in Tasks : Updating(u)' =
                IF u = t THEN Append(Updating(t), UpdateOf(p))
                ELSE Updating(u)
      PROVE  Values!Begin(t, p.var)
  <2>1. /\ p.var \in Vars
        /\ UpdateOf(p) = [var |-> p.var, elements |-> UpdateOf(p).elements]
        /\ UpdateOf(p).elements \in SUBSET Elems
    <3>1. UpdateOf(p) \in [var : Vars, elements : SUBSET Elems]
      BY UpdateOfType
    <3>2. UpdateOf(p).var = p.var
      BY DEF UpdateOf
    <3> HIDE DEF UpdateOf
    <3>3. QED
      BY <3>1, <3>2
  <2>2. U' = [U EXCEPT ![t] = Append(U[t], UpdateOf(p))] /\ V' = V
    BY <1>4
  <2>3. V[p.var] # <<>>
    BY <1>4, <2>1
  <2>4. QED
    BY <2>1, <2>2, <2>3 DEF Values!Begin, Values!Unset
<1>5. QED
  BY <1>1, <1>2, <1>3, <1>4

(* A sliced store that ends commits its update.                             *)
LEMMA ValuesCommit ==
    ASSUME TypeOK, NEW t \in Tasks, pending[t] # <<>>,
           NEW p \in PendingStores, p = pending[t][Len(pending[t])],
           pending' = [pending EXCEPT ![t] = SubSeq(@, 1, Len(@) - 1)],
           \A y \in Vars : y # p.var => Value(y)' = Value(y),
           Value(p.var)' \in [DOMAIN Value(p.var) -> Elems],
           \A k \in DOMAIN Value(p.var) :
                \/ Value(p.var)'[k] = Value(p.var)[k]
                \/ Value(p.var)'[k] \in UpdateOf(p).elements
    PROVE  Values!Commit(t)
<1> DEFINE V == [x \in Vars |-> Value(x)]
           U == [u \in Tasks |-> Updating(u)]
<1>1. p.var \in Vars
  BY DEF PendingStores
<1>2. U[t] # <<>> /\ U[t][Len(U[t])] = UpdateOf(p)
  <2>1. pending[t] \in Seq(PendingStores) /\ Len(pending[t]) \in 1..Len(pending[t])
    BY PendingType DEF TypeOK
  <2>2. /\ Updating(t) # <<>> /\ Len(Updating(t)) = Len(pending[t])
        /\ Updating(t)[Len(pending[t])] = UpdateOf(p)
    BY <2>1, UpdatingForm, UpdatesType, UpdatingSteps
  <2>3. QED
    BY <2>2
<1>3. V' = [V EXCEPT ![p.var] = Value(p.var)']
  BY <1>1
<1>4. U' = [U EXCEPT ![t] = SubSeq(U[t], 1, Len(U[t]) - 1)]
  BY UpdatingSteps
<1>5. V[p.var] = Value(p.var) /\ UpdateOf(p).var = p.var
  BY <1>1 DEF UpdateOf
<1> HIDE DEF V, U, UpdateOf
<1>6. \E new \in [DOMAIN V[p.var] -> Elems] :
        /\ \A k \in DOMAIN V[p.var] :
                new[k] = V[p.var][k] \/ new[k] \in UpdateOf(p).elements
        /\ V' = [V EXCEPT ![p.var] = new]
  BY <1>3, <1>5
<1>7. LET u == U[t][Len(U[t])]
          old == V[u.var]
      IN  \E new \in [DOMAIN old -> Elems] :
            /\ \A k \in DOMAIN old : new[k] = old[k] \/ new[k] \in u.elements
            /\ V' = [V EXCEPT ![u.var] = new]
  BY <1>2, <1>5, <1>6
<1>8. U[t] # <<>>
  BY <1>2
<1>9. QED
  BY <1>4, <1>7, <1>8, Zenon DEF Values!Commit, V, U

(* Every step of the variables is a step of the values or changes nothing.  *)
LEMMA ValuesNext ==
    ASSUME NonNegative, ValueInv, [Next]_vars
    PROVE  [Values!Next]_(Values!vars)
<1>1. TypeOK /\ StorageInv
  BY DEF ValueInv, IInv
<1>2. ASSUME UNCHANGED <<slots, heap>>
      PROVE  \A y \in Vars : Value(y)' = Value(y)
  BY <1>2, ValuesSame
<1>3. CASE UNCHANGED vars
  BY <1>1, <1>2, <1>3, ValuesActions DEF vars, Updating
<1>4. CASE Next
  <2>1. PICK t \in Tasks :
        \/ EvalExpression(t) \/ Consume(t)
        \/ SliceOperand(t) \/ SliceStoreEnd(t) \/ SliceStoreInvalid(t)
        \/ \E x \in Vars :
            \/ EvalVariable(t, x) \/ SliceVariable(t, x)
            \/ Define(t, x) \/ StoreWhole(t, x) \/ StoreSlice(t, x)
    BY <1>4 DEF Next
  <2>2. CASE \/ EvalExpression(t) \/ Consume(t)
             \/ \E x \in Vars : EvalVariable(t, x)
    <3>1. UNCHANGED <<slots, heap, pending>>
      BY <2>2 DEF EvalExpression, Consume, EvalVariable
    <3>2. QED
      BY <1>1, <1>2, <3>1, UpdatingSteps, ValuesActions
  <2>3. CASE SliceOperand(t) \/ \E x \in Vars : SliceVariable(t, x)
    <3>1. \A y \in Vars : Value(y)' = Value(y)
      BY <1>1, <2>3, SliceReads, ValuesSame
    <3>2. UNCHANGED pending \/ Throw(t)
      BY <1>1, <2>3, SliceReads
    <3>3. UNCHANGED Values!vars \/ Values!Abort(t)
      BY <1>1, <3>1, <3>2, UpdatingSteps, ValuesActions
    <3>4. QED
      BY <3>3 DEF Values!Next
  <2>4. CASE SliceStoreEnd(t)
    <3>1. PICK p : p = pending[t][Len(pending[t])]
      OBVIOUS
    <3>2. p \in PendingStores /\ pending[t] # <<>>
      BY <2>4, <3>1, CommitStep
    <3>3. CASE Throw(t) /\ \A d \in DOMAIN heap : heap'[d] = heap[d]
      <4>1. \A y \in Vars : Value(y)' = Value(y)
        BY <2>4, <3>1, <3>3, CommitStep, ValuesSame
      <4>2. Values!Abort(t)
        BY <1>1, <3>3, <4>1, UpdatingSteps, ValuesActions
      <4>3. QED
        BY <4>2 DEF Values!Next
    <3>4. CASE ~(Throw(t) /\ \A d \in DOMAIN heap : heap'[d] = heap[d])
      <4>1. Values!Commit(t)
        BY <1>1, <2>4, <3>1, <3>2, <3>4, CommitStep, ValuesCommit
      <4>2. QED
        BY <4>1 DEF Values!Next
    <3>5. QED
      BY <3>3, <3>4
  <2>5. CASE SliceStoreInvalid(t)
             \/ \E x \in Vars : StoreInvalid(t, x) \/ SliceStoreRefused(t, x)
    <3>1. UNCHANGED <<slots, heap>> /\ Throw(t)
      BY <2>5 DEF SliceStoreInvalid, StoreInvalid, SliceStoreRefused
    <3>2. Values!Abort(t)
      BY <1>1, <1>2, <3>1, UpdatingSteps, ValuesActions
    <3>3. QED
      BY <3>2 DEF Values!Next
  <2>6. CASE \E x \in Vars : Define(t, x) \/ StoreInitial(t, x) \/ Store(t, x)
    <3>1. PICK x \in Vars : Define(t, x) \/ StoreInitial(t, x) \/ Store(t, x)
      BY <2>6
    <3>2. /\ UNCHANGED pending
          /\ \A y \in Vars : y # x => Value(y)' = Value(y)
          /\ Value(x)' = Value(x) \/ Value(x)' \in Arrays
      BY <3>1, AssignStep
    <3>3. \A u \in Tasks : Updating(u)' = Updating(u)
      BY <1>1, <3>2, UpdatingSteps
    <3>4. UNCHANGED Values!vars \/ Values!Assign(x)
      BY <3>2, <3>3, ValuesActions
    <3>5. QED
      BY <3>4 DEF Values!Next
  <2>7. CASE \E x \in Vars : SliceStoreBegin(t, x)
    <3>1. PICK x \in Vars : SliceStoreBegin(t, x)
      BY <2>7
    <3>2. PICK p :
            p = [var |-> x, value |-> Top(t), base |-> Len(ops[t]) - 1]
      OBVIOUS
    <3>3. /\ UNCHANGED <<slots, heap>> /\ ~SliceRefused(x)
          /\ pending' = [pending EXCEPT ![t] = Append(@, p)]
          /\ Held(t) > 0
      BY <3>1, <3>2 DEF SliceStoreBegin
    <3>4. p \in PendingStores /\ p.var = x
      <4>1. Len(ops[t]) >= 1 /\ Len(ops[t]) \in Nat
        BY <1>1, <3>3, HeldType
      <4>2. Top(t) \in Operands
        BY <1>1, <4>1, StackType
      <4>3. QED
        BY <3>2, <4>1, <4>2 DEF PendingStores
    <3>5. Value(x) # <<>>
      <4>1. Valid(bound_value[x]) /\ bound_value[x] # Prim
        BY <1>1, <3>3 DEF SliceRefused, TypeOK
      <4>2. /\ bound_value[x].kind \in {"own", "ref"}
            /\ bound_value[x].cell \in DOMAIN heap
        BY <1>1, <4>1, BoundLive
      <4>3. Value(x) \in Arrays
        BY <1>1, <4>1, <4>2 DEF Value, Target, TypeOK
      <4>4. 1 \in DOMAIN Value(x)
        BY <4>3, SizeType
      <4>5. QED
        BY <4>4, EmptySeq
    <3>6. Values!Begin(t, x)
      BY <1>1, <1>2, <3>3, <3>4, <3>5, UpdatingSteps, ValuesActions
    <3>7. QED
      BY <3>6 DEF Values!Next
  <2>8. QED
    BY <2>1, <2>2, <2>3, <2>4, <2>5, <2>6, <2>7 DEF StoreWhole, StoreSlice
<1>5. QED
  BY <1>3, <1>4

(* If no index is negative, variables implement the values they promise:    *)
(* whatever the tasks store, share and fail to store, no value of another   *)
(* variable changes and no update is lost or left half done.                *)
THEOREM VariablesAreValues ==
    ASSUME NonNegative
    PROVE  Spec => BehavesAsValues
<1>1. ValueInv /\ [Next]_vars => [Values!Next]_(Values!vars)
  BY ValuesNext
<1>2. QED
  BY <1>1, ValuesInit, ValueInvNext, PTL
  DEF Spec, BehavesAsValues, Values!Spec
=============================================================================
