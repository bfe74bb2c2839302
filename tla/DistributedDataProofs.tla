------------------------- MODULE DistributedDataProofs -------------------------
(***************************************************************************)
(* What holds of distributed vectors and matrices for any number of sites, *)
(* of fetches in flight and of evaluations.                                *)
(***************************************************************************)
EXTENDS DistributedData, TLAPS

(* The last collective a site has left, and the last it has arrived at.     *)
Passed(s) == IF pc[s] \in {"open", "arrived"} THEN round[s] - 1 ELSE round[s]
Arrived(s) == IF pc[s] = "open" THEN round[s] - 1 ELSE round[s]

(* A site in an operation has begun an evaluation.                          *)
Begun == \A s \in Sites : pc[s] # "idle" => round[s] > 0

(* No site has left a collective another one has not arrived at.            *)
InStep == \A s, p \in Sites : Passed(s) <= Arrived(p)

(* What is registered is the part of the evaluation its site is in.         *)
NamesCurrent ==
    \A n \in Names, p \in Sites :
        names[n][p] # 0 =>
            /\ names[n][p] = round[p]
            /\ n = Name(p)
            /\ pc[p] \in {"open", "arrived", "leaving"}

FetchesOpen ==
    \A s \in Sites, q \in Requests :
        fetch[s][q].stage \notin {"none", "done"} => pc[s] = "open"

(* Every id a site knows, and the evaluation all its data is from, is one  *)
(* of W[s].                                                                 *)
IdsIn(W) ==
    \A s \in Sites :
        /\ \A p \in Sites : part_ids[s][p] \in W[s] \cup {0}
        /\ \A q \in Requests :
            /\ fetch[s][q].id \in W[s] \cup {0}
            /\ HasData(s, q) => got[s][q].round \in W[s]

-----------------------------------------------------------------------------
LEMMA StepCases ==
    ASSUME [Next]_vars
    PROVE  \/ \E s \in Sites : Step(s)
           \/ \E s \in Sites, q \in Requests : Fetch(s, q)
           \/ UNCHANGED vars
BY DEF Next

LEMMA TypeInit == Init => TypeOK
<1>1. SUFFICES ASSUME Init PROVE TypeOK
    OBVIOUS
<1>2. Rounds \in Nat
    BY DistributedAssumption
<1>3. pc \in [Sites -> Phases] /\ round \in [Sites -> 0..Rounds]
    BY <1>1, <1>2 DEF Init, Phases
<1>4. names \in [Names -> [Sites -> 0..Rounds]]
    BY <1>1, <1>2 DEF Init
<1>5. part_ids \in [Sites -> [Sites -> 0..Rounds]]
    BY <1>1, <1>2 DEF Init
<1>6. fetch \in [Sites -> [Requests -> Fetches]]
    BY <1>1 DEF Init, Fetches, Unresolved
<1>7. got \in [Sites -> [Requests -> Fetched]]
    BY <1>1, <1>2 DEF Init, Fetched, Nothing
<1>8. QED
    BY <1>3, <1>4, <1>5, <1>6, <1>7 DEF TypeOK

(* The name of the part of a site that is in an operation.                  *)
LEMMA NameType ==
    ASSUME TypeOK, Begun, NEW s \in Sites, pc[s] # "idle"
    PROVE  Name(s) \in Names
BY DistributedAssumption DEF TypeOK, Begun, Name

LEMMA TypeStep ==
    ASSUME TypeOK, Begun, NEW s \in Sites, Step(s)
    PROVE  TypeOK'
<1>1. Rounds \in Nat /\ BaseName \in [1..Rounds -> Names]
    BY DistributedAssumption
<1>2. CASE Construct(s)
    <2>1. round[s] \in 0..Rounds /\ round[s] + 1 \in 1..Rounds
        BY <1>1, <1>2 DEF TypeOK, Construct
    <2>2. round' \in [Sites -> 0..Rounds] /\ pc' \in [Sites -> Phases]
        BY <1>1, <1>2, <2>1 DEF TypeOK, Construct, Phases
    <2>3. names' \in [Names -> [Sites -> 0..Rounds]]
        BY <1>1, <1>2, <2>1 DEF TypeOK, Construct, Name
    <2>4. [p \in Sites |-> IF p = s THEN round[s] + 1 ELSE 0]
            \in [Sites -> 0..Rounds]
        BY <1>1, <2>1
    <2>5. part_ids' \in [Sites -> [Sites -> 0..Rounds]]
        BY <1>2, <2>4 DEF TypeOK, Construct
    <2>6. PICK idx \in [Requests -> Sites] :
            fetch' = [fetch EXCEPT ![s] =
                [q \in Requests |->
                    [stage |-> "new", idx |-> idx[q], id |-> 0]]]
        BY <1>2 DEF Construct
    <2>7. [q \in Requests |-> [stage |-> "new", idx |-> idx[q], id |-> 0]]
            \in [Requests -> Fetches]
        BY DEF Fetches, Unresolved
    <2>8. fetch' \in [Sites -> [Requests -> Fetches]]
        BY <2>6, <2>7 DEF TypeOK
    <2>9. [q \in Requests |-> Nothing] \in [Requests -> Fetched]
        BY <1>1 DEF Fetched, Nothing
    <2>10. got' \in [Sites -> [Requests -> Fetched]]
        BY <1>2, <2>9 DEF TypeOK, Construct
    <2>11. QED
        BY <2>2, <2>3, <2>5, <2>8, <2>10 DEF TypeOK
<1>3. CASE Arrive(s)
    BY <1>3 DEF TypeOK, Arrive, Phases
<1>4. CASE Leave(s)
    BY <1>4 DEF TypeOK, Leave, Phases
<1>5. CASE Destroy(s)
    <2>1. names' \in [Names -> [Sites -> 0..Rounds]]
        <3>1. Name(s) \in Names
            BY <1>5, NameType DEF Destroy
        <3>2. [names[Name(s)] EXCEPT ![s] = 0] \in [Sites -> 0..Rounds]
            BY <1>1, <3>1 DEF TypeOK
        <3>3. names' = [names EXCEPT ![Name(s)] =
                            [names[Name(s)] EXCEPT ![s] = 0]]
            BY <1>5 DEF Destroy
        <3>4. QED
            BY <3>2, <3>3 DEF TypeOK
    <2>2. QED
        BY <1>5, <2>1 DEF TypeOK, Destroy, Phases
<1>6. CASE Return(s)
    BY <1>6 DEF TypeOK, Return, Phases
<1>7. QED
    BY <1>2, <1>3, <1>4, <1>5, <1>6 DEF Step

(* What a fetch does to its record, and that it leaves the others alone.    *)
LEMMA FetchUpdate ==
    ASSUME TypeOK, NEW s \in Sites, NEW q \in Requests, NEW stage, NEW id,
           [stage |-> stage, idx |-> fetch[s][q].idx, id |-> id] \in Fetches,
           Becomes(s, q, stage, id)
    PROVE  /\ fetch' \in [Sites -> [Requests -> Fetches]]
           /\ fetch'[s][q].stage = stage
           /\ fetch'[s][q].idx = fetch[s][q].idx
           /\ fetch'[s][q].id = id
           /\ \A p \in Sites, r \in Requests :
                p # s \/ r # q => fetch'[p][r] = fetch[p][r]
<1> DEFINE f == [stage |-> stage, idx |-> fetch[s][q].idx, id |-> id]
<1>1. fetch' = [fetch EXCEPT ![s] = [fetch[s] EXCEPT ![q] = f]]
    BY DEF TypeOK, Becomes
<1>2. fetch[s] \in [Requests -> Fetches]
    BY DEF TypeOK
<1>3. [fetch[s] EXCEPT ![q] = f] \in [Requests -> Fetches]
    BY <1>2
<1>4. fetch'[s][q] = f
    BY <1>1, <1>2 DEF TypeOK
<1>5. \A p \in Sites, r \in Requests :
        p # s \/ r # q => fetch'[p][r] = fetch[p][r]
    BY <1>1, <1>2 DEF TypeOK
<1>6. fetch' \in [Sites -> [Requests -> Fetches]]
    BY <1>1, <1>3 DEF TypeOK
<1>7. QED
    BY <1>4, <1>5, <1>6

(* The record of a fetch before it is resolved, and after.                  *)
LEMMA FetchRecord ==
    ASSUME TypeOK, NEW s \in Sites, NEW q \in Requests
    PROVE  /\ fetch[s][q].idx \in Sites
           /\ fetch[s][q].id \in 0..Rounds
           /\ fetch[s][q].stage \in Unresolved => fetch[s][q].id = 0
           /\ fetch[s][q].stage \in Resolved => fetch[s][q].id \in 1..Rounds
<1>1. fetch[s][q] \in Fetches
    BY DEF TypeOK
<1>2. QED
    BY <1>1, DistributedAssumption DEF Fetches, Unresolved, Resolved

(* The record a step of a fetch leaves.                                     *)
LEMMA FetchBecomes ==
    ASSUME TypeOK, Begun, FetchesOpen,
           NEW s \in Sites, NEW q \in Requests, Fetch(s, q)
    PROVE  \E stage \in {"waiting", "resolved", "sent", "done"},
              id \in 0..Rounds :
            /\ [stage |-> stage, idx |-> fetch[s][q].idx, id |-> id] \in Fetches
            /\ Becomes(s, q, stage, id)
<1>1. fetch[s][q].idx \in Sites /\ Rounds \in Nat
    BY FetchRecord, DistributedAssumption
<1>2. \A p \in Sites : part_ids[s][p] \in 0..Rounds
    BY DEF TypeOK
<1>3. CASE FetchCached(s, q)
    BY <1>1, <1>2, <1>3 DEF FetchCached, Fetches, Resolved
<1>4. CASE FetchUnknown(s, q)
    <2>1. fetch[s][q].id = 0
        BY <1>4, FetchRecord DEF FetchUnknown, Unresolved
    <2>2. QED
        BY <1>1, <1>4, <2>1 DEF FetchUnknown, Fetches, Unresolved
<1>5. CASE Resolve(s, q)
    <2>1. Name(s) \in Names
        BY <1>5, NameType DEF Resolve, FetchesOpen
    <2>2. names[Name(s)][fetch[s][q].idx] \in 0..Rounds
        BY <1>1, <2>1 DEF TypeOK
    <2>3. QED
        BY <1>1, <1>5, <2>2 DEF Resolve, Fetches, Resolved
<1>6. CASE Emplace(s, q)
    <2>1. fetch[s][q].id \in 1..Rounds
        BY <1>6, FetchRecord DEF Emplace, Resolved
    <2>2. QED
        BY <1>1, <1>2, <1>6, <2>1 DEF Emplace, Fetches, Resolved
<1>7. CASE Serve(s, q)
    <2>1. fetch[s][q].id \in 1..Rounds
        BY <1>7, FetchRecord DEF Serve, Resolved
    <2>2. QED
        BY <1>1, <1>7, <2>1 DEF Serve, Fetches, Resolved
<1>8. QED
    BY <1>3, <1>4, <1>5, <1>6, <1>7 DEF Fetch

LEMMA FetchType ==
    ASSUME TypeOK, Begun, FetchesOpen,
           NEW s \in Sites, NEW q \in Requests, Fetch(s, q)
    PROVE  TypeOK'
<1>1. fetch' \in [Sites -> [Requests -> Fetches]]
    BY FetchBecomes, FetchUpdate
<1>2. UNCHANGED <<pc, round, names>>
    BY DEF Fetch, FetchCached, FetchUnknown, Resolve, Emplace, Serve
<1>3. fetch[s][q].idx \in Sites /\ Rounds \in Nat
    BY FetchRecord, DistributedAssumption
<1>4. CASE ~Emplace(s, q) /\ ~Serve(s, q)
    BY <1>1, <1>2, <1>4
        DEF TypeOK, Fetch, FetchCached, FetchUnknown, Resolve
<1>5. CASE Emplace(s, q)
    <2>1. fetch[s][q].id \in 0..Rounds
        BY FetchRecord
    <2>2. part_ids' \in [Sites -> [Sites -> 0..Rounds]]
        BY <1>3, <1>5, <2>1 DEF TypeOK, Emplace
    <2>3. QED
        BY <1>1, <1>2, <1>5, <2>2 DEF TypeOK, Emplace
<1>6. CASE Serve(s, q)
    <2>1. fetch[s][q].id \in 0..Rounds
        BY FetchRecord
    <2>2. [round |-> fetch[s][q].id,
           live |-> Live(fetch[s][q].idx, fetch[s][q].id)] \in Fetched
        BY <2>1 DEF Fetched, Live
    <2>3. got' \in [Sites -> [Requests -> Fetched]]
        BY <1>6, <2>2 DEF TypeOK, Serve
    <2>4. QED
        BY <1>1, <1>2, <1>6, <2>3 DEF TypeOK, Serve
<1>7. QED
    BY <1>4, <1>5, <1>6

-----------------------------------------------------------------------------
(* The base of both arguments: types, and where a site is when it fetches.  *)
Base == TypeOK /\ Begun /\ FetchesOpen

LEMMA BaseInit == Init => Base
<1>1. Init => Begun /\ FetchesOpen
    BY DEF Init, Begun, FetchesOpen
<1>2. QED
    BY <1>1, TypeInit DEF Base

LEMMA BaseStep ==
    ASSUME Base, NEW s \in Sites, Step(s)
    PROVE  Base'
<1>1. TypeOK /\ Begun /\ FetchesOpen /\ Rounds \in Nat
    BY DistributedAssumption DEF Base
<1>2. TypeOK'
    BY <1>1, TypeStep
<1>3. Begun'
    BY <1>1 DEF TypeOK, Begun, Step, Construct, Arrive, Leave, Destroy, Return
<1>4. CASE Construct(s)
    <2>1. \A p \in Sites : p # s => fetch'[p] = fetch[p] /\ pc'[p] = pc[p]
        BY <1>1, <1>4 DEF TypeOK, Construct
    <2>2. pc'[s] = "open"
        BY <1>1, <1>4 DEF TypeOK, Construct
    <2>3. QED
        BY <1>1, <1>2, <1>3, <2>1, <2>2 DEF Base, FetchesOpen
<1>5. CASE ~Construct(s)
    <2>1. fetch' = fetch /\ \A p \in Sites : p # s => pc'[p] = pc[p]
        BY <1>1, <1>5 DEF TypeOK, Step, Arrive, Leave, Destroy, Return
    <2>2. \A q \in Requests : fetch[s][q].stage \in {"none", "done"}
        BY <1>1, <1>5 DEF FetchesOpen, Finished, Step, Arrive, Leave, Destroy,
            Return
    <2>3. FetchesOpen'
        BY <1>1, <2>1, <2>2 DEF FetchesOpen
    <2>4. QED
        BY <1>2, <1>3, <2>3 DEF Base
<1>6. QED
    BY <1>4, <1>5

LEMMA BaseFetch ==
    ASSUME Base, NEW s \in Sites, NEW q \in Requests, Fetch(s, q)
    PROVE  Base'
<1>1. TypeOK /\ Begun /\ FetchesOpen
    BY DEF Base
<1>2. TypeOK'
    BY <1>1, FetchType
<1>3. pc' = pc /\ round' = round
    BY DEF Fetch, FetchCached, FetchUnknown, Resolve, Emplace, Serve
<1>4. pc[s] = "open"
    BY <1>1 DEF FetchesOpen, Fetch, FetchCached, FetchUnknown, Resolve,
        Emplace, Serve
<1>5. \A p \in Sites, r \in Requests :
        p # s \/ r # q => fetch'[p][r] = fetch[p][r]
    <2>1. PICK stage \in {"waiting", "resolved", "sent", "done"},
               id \in 0..Rounds :
            /\ [stage |-> stage, idx |-> fetch[s][q].idx, id |-> id]
                    \in Fetches
            /\ Becomes(s, q, stage, id)
        BY <1>1, FetchBecomes
    <2>2. QED
        BY <1>1, <2>1, FetchUpdate
<1>6. FetchesOpen'
    BY <1>1, <1>3, <1>4, <1>5 DEF FetchesOpen
<1>7. QED
    BY <1>1, <1>2, <1>3, <1>6 DEF Base, Begun

(* The state keeps its types for any number of sites and evaluations,       *)
(* whatever the names and whether or not the operation synchronises.        *)
THEOREM TypeCorrect == Spec => []TypeOK
<1>1. Init => Base
    BY BaseInit
<1>2. Base /\ [Next]_vars => Base'
    <2>1. SUFFICES ASSUME Base, [Next]_vars PROVE Base'
        OBVIOUS
    <2>2. CASE UNCHANGED vars
        BY <2>1, <2>2 DEF vars, Base, TypeOK, Begun, FetchesOpen
    <2>3. QED
        BY <2>1, <2>2, StepCases, BaseStep, BaseFetch
<1>3. Base => TypeOK
    BY DEF Base
<1>4. QED
    BY <1>1, <1>2, <1>3, PTL DEF Spec

-----------------------------------------------------------------------------
(* What the collective at the end of an operation gives.                    *)

(* Names are registered by the evaluation a site is in.                     *)
LEMMA NamesStep ==
    ASSUME Base, NamesCurrent, NEW s \in Sites, Step(s)
    PROVE  NamesCurrent'
<1>1. TypeOK /\ Begun /\ Rounds \in Nat
    BY DistributedAssumption DEF Base
<1>2. ASSUME NEW n \in Names, NEW p \in Sites, names'[n][p] # 0
      PROVE  /\ names'[n][p] = round'[p]
             /\ n = BaseName[round'[p]]
             /\ pc'[p] \in {"open", "arrived", "leaving"}
    <2>1. CASE Construct(s)
        <3>1. names[n][p] # 0 => pc[p] # "idle"
            BY DEF NamesCurrent
        <3>2. CASE p = s
            BY <1>1, <1>2, <2>1, <3>1, <3>2 DEF TypeOK, Construct, Name
        <3>3. CASE p # s
            BY <1>1, <1>2, <2>1, <3>3
                DEF TypeOK, Construct, Name, NamesCurrent
        <3>4. QED
            BY <3>2, <3>3
    <2>2. CASE Destroy(s)
        <3>1. pc[s] = "leaving" /\ Name(s) \in Names
            BY <1>1, <2>2, NameType DEF Destroy
        <3>2. CASE p = s
            BY <1>1, <1>2, <2>2, <3>1, <3>2
                DEF TypeOK, Destroy, NamesCurrent
        <3>3. CASE p # s
            BY <1>1, <1>2, <2>2, <3>1, <3>3
                DEF TypeOK, Destroy, Name, NamesCurrent
        <3>4. QED
            BY <3>2, <3>3
    <2>3. CASE Arrive(s) \/ Leave(s) \/ Return(s)
        BY <1>1, <1>2, <2>3
            DEF TypeOK, NamesCurrent, Name, Arrive, Leave, Return
    <2>4. QED
        BY <2>1, <2>2, <2>3 DEF Step
<1>3. QED
    BY <1>2 DEF NamesCurrent, Name

(* No site runs ahead of the others' arrival.                               *)
LEMMA InStepStep ==
    ASSUME Base, InStep, Synchronised, NEW s \in Sites, Step(s)
    PROVE  InStep'
<1>1. TypeOK /\ Rounds \in Nat
    BY DistributedAssumption DEF Base
<1>2. /\ \A p \in Sites : round[p] \in Nat /\ pc[p] \in Phases
      /\ \A p \in Sites : Passed(p) \in Int /\ Arrived(p) \in Int
    BY <1>1 DEF TypeOK, Passed, Arrived
<1>3. \A p \in Sites : p # s => pc'[p] = pc[p] /\ round'[p] = round[p]
    BY <1>1 DEF TypeOK, Step, Construct, Arrive, Leave, Destroy, Return
<1>4. \A p \in Sites : p # s => Passed(p)' = Passed(p) /\ Arrived(p)' = Arrived(p)
    BY <1>3 DEF Passed, Arrived
<1>5. CASE ~Leave(s)
    <2>1. Passed(s)' = Passed(s) /\ Arrived(s)' >= Arrived(s)
        <3>1. CASE Construct(s)
            <4>1. /\ pc[s] = "idle" /\ pc'[s] = "open"
                  /\ round'[s] = round[s] + 1
                BY <1>1, <3>1 DEF TypeOK, Construct
            <4>2. QED
                BY <1>2, <4>1 DEF Passed, Arrived
        <3>2. CASE Arrive(s)
            BY <1>1, <1>2, <3>2 DEF TypeOK, Passed, Arrived, Arrive
        <3>3. CASE Destroy(s)
            BY <1>1, <1>2, <3>3 DEF TypeOK, Passed, Arrived, Destroy
        <3>4. CASE Return(s)
            BY <1>1, <1>2, <3>4 DEF TypeOK, Passed, Arrived, Return
        <3>5. QED
            BY <1>5, <3>1, <3>2, <3>3, <3>4 DEF Step
    <2>2. Arrived(s)' \in Int
        <3>1. round'[s] \in Nat
            BY <1>1, <1>2, <1>5 DEF TypeOK, Step, Construct, Arrive, Destroy,
                Return
        <3>2. QED
            BY <3>1 DEF Arrived
    <2>3. QED
        BY <1>2, <1>4, <2>1, <2>2 DEF InStep
<1>6. CASE Leave(s)
    <2>1. Passed(s)' = round[s] /\ Arrived(s)' = Arrived(s)
        BY <1>1, <1>6 DEF TypeOK, Leave, Passed, Arrived
    <2>2. \A p \in Sites : round[s] <= Arrived(p)
        BY <1>2, <1>6 DEF Leave, HasArrived, Arrived
    <2>3. QED
        BY <1>2, <1>4, <2>1, <2>2 DEF InStep
<1>7. QED
    BY <1>5, <1>6

(* A part that is registered while a site fetches is of its evaluation or   *)
(* of the one before.                                                       *)
LEMMA RegisteredInWindow ==
    ASSUME Base, InStep, NamesCurrent, NEW s \in Sites, NEW p \in Sites,
           NEW n \in Names, pc[s] = "open", names[n][p] # 0
    PROVE  /\ names[n][p] \in {round[s], round[s] - 1}
           /\ names[n][p] = round[p]
<1>1. round[s] \in Nat /\ round[p] \in Nat /\ pc[p] \in Phases
    BY DistributedAssumption DEF Base, TypeOK
<1>2. names[n][p] = round[p] /\ pc[p] \in {"open", "arrived", "leaving"}
    BY DEF NamesCurrent
<1>3. Passed(s) <= Arrived(p) /\ Passed(p) <= Arrived(s)
    BY DEF InStep
<1>4. round[s] - 1 <= round[p] /\ round[p] - 1 <= round[s] - 1
    BY <1>1, <1>2, <1>3 DEF Passed, Arrived
<1>5. QED
    BY <1>1, <1>2, <1>4

(* What a step of a fetch does, for the three arguments below: the fetches  *)
(* of others are left alone, and its own id was known before, is in the     *)
(* cache, or is registered.                                                 *)
LEMMA FetchIds ==
    ASSUME Base, NEW s \in Sites, NEW q \in Requests, Fetch(s, q)
    PROVE  /\ pc[s] = "open" /\ Name(s) \in Names
           /\ pc' = pc /\ round' = round /\ names' = names
           /\ fetch'[s][q].idx = fetch[s][q].idx
           /\ LET p == fetch[s][q].idx
                  known == {0, fetch[s][q].id, part_ids[s][p]}
              IN  /\ fetch'[s][q].id \in known \cup {names[Name(s)][p]}
                  /\ part_ids'[s][p] \in known
                  /\ \A o \in Sites : o # p => part_ids'[s][o] = part_ids[s][o]
           /\ \A o \in Sites : o # s => part_ids'[o] = part_ids[o]
           /\ \A o \in Sites, r \in Requests : o # s \/ r # q =>
                fetch'[o][r] = fetch[o][r] /\ got'[o][r] = got[o][r]
           /\ \/ ~HasData(s, q)' /\ got'[s][q] = got[s][q]
              \/ Serve(s, q)
<1>1. TypeOK /\ Begun /\ FetchesOpen
    BY DEF Base
<1>2. pc[s] = "open"
    BY <1>1 DEF FetchesOpen, Fetch, FetchCached, FetchUnknown, Resolve,
        Emplace, Serve
<1>3. Name(s) \in Names
    BY <1>1, <1>2, NameType
<1>4. pc' = pc /\ round' = round /\ names' = names
    BY DEF Fetch, FetchCached, FetchUnknown, Resolve, Emplace, Serve
<1>5. PICK stage \in {"waiting", "resolved", "sent", "done"},
           id \in 0..Rounds :
        /\ [stage |-> stage, idx |-> fetch[s][q].idx, id |-> id] \in Fetches
        /\ Becomes(s, q, stage, id)
    BY <1>1, FetchBecomes
<1>6. /\ fetch'[s][q].idx = fetch[s][q].idx
      /\ fetch'[s][q].stage = stage
      /\ fetch'[s][q].id = id
      /\ \A o \in Sites, r \in Requests :
            o # s \/ r # q => fetch'[o][r] = fetch[o][r]
    BY <1>1, <1>5, FetchUpdate
<1>7. fetch[s][q].idx \in Sites
    BY <1>1, FetchRecord
<1>8. \A stage2, id2 : Becomes(s, q, stage2, id2) =>
        fetch'[s][q].id = id2 /\ fetch'[s][q].stage = stage2
    BY <1>1 DEF TypeOK, Becomes
<1>9. CASE FetchCached(s, q) \/ FetchUnknown(s, q) \/ Resolve(s, q)
    <2>1. part_ids' = part_ids /\ got' = got
        BY <1>9 DEF FetchCached, FetchUnknown, Resolve
    <2>2. fetch'[s][q].id \in {fetch[s][q].id,
            part_ids[s][fetch[s][q].idx], names[Name(s)][fetch[s][q].idx]}
        BY <1>8, <1>9 DEF FetchCached, FetchUnknown, Resolve
    <2>3. ~HasData(s, q)'
        BY <1>8, <1>9 DEF FetchCached, FetchUnknown, Resolve, HasData
    <2>4. QED
        BY <1>2, <1>3, <1>4, <1>6, <2>1, <2>2, <2>3
<1>10. CASE Emplace(s, q)
    <2>1. got' = got
        BY <1>10 DEF Emplace
    <2>2. /\ fetch'[s][q].id \in
                {fetch[s][q].id, part_ids[s][fetch[s][q].idx]}
          /\ fetch'[s][q].stage = "sent"
        BY <1>8, <1>10 DEF Emplace
    <2>3. /\ part_ids'[s][fetch[s][q].idx] \in
                {fetch[s][q].id, part_ids[s][fetch[s][q].idx]}
          /\ \A o \in Sites : o # fetch[s][q].idx =>
                part_ids'[s][o] = part_ids[s][o]
          /\ \A o \in Sites : o # s => part_ids'[o] = part_ids[o]
        BY <1>1, <1>7, <1>10 DEF TypeOK, Emplace
    <2>4. QED
        BY <1>2, <1>3, <1>4, <1>6, <2>1, <2>2, <2>3 DEF HasData
<1>11. CASE Serve(s, q)
    <2>1. part_ids' = part_ids
        BY <1>11 DEF Serve
    <2>2. fetch'[s][q].id = fetch[s][q].id
        BY <1>8, <1>11 DEF Serve
    <2>3. \A o \in Sites, r \in Requests : o # s \/ r # q =>
            got'[o][r] = got[o][r]
        BY <1>1, <1>11 DEF TypeOK, Serve
    <2>4. QED
        BY <1>2, <1>3, <1>4, <1>6, <1>11, <2>1, <2>2, <2>3
<1>12. QED
    BY <1>9, <1>10, <1>11 DEF Fetch

LEMMA IdsFetch ==
    ASSUME Base, NEW W, IdsIn(W), NEW s \in Sites, NEW q \in Requests,
           Fetch(s, q), \A p \in Sites : names[Name(s)][p] \in W[s] \cup {0}
    PROVE  IdsIn(W)'
<1>1. TypeOK /\ fetch[s][q].idx \in Sites
    BY FetchRecord DEF Base
<1>2. /\ fetch'[s][q].id \in W[s] \cup {0}
      /\ \A p \in Sites : part_ids'[s][p] \in W[s] \cup {0}
    <2>1. \A o \in Sites : part_ids[s][o] \in W[s] \cup {0}
        BY DEF IdsIn
    <2>2. {0, fetch[s][q].id, part_ids[s][fetch[s][q].idx]}
            \subseteq W[s] \cup {0}
        BY <1>1, <2>1 DEF IdsIn
    <2>3. fetch'[s][q].id \in W[s] \cup {0}
        BY <1>1, <2>2, FetchIds
    <2>4. \A o \in Sites : part_ids'[s][o] \in W[s] \cup {0}
        BY <1>1, <2>1, <2>2, FetchIds
    <2>5. QED
        BY <2>3, <2>4
<1>3. HasData(s, q)' => got'[s][q].round \in W[s]
    <2>1. CASE Serve(s, q)
        <3>1. fetch[s][q].id \in W[s]
            BY <1>1, <2>1, FetchRecord, DistributedAssumption
                DEF Serve, IdsIn, Resolved
        <3>2. got'[s][q].round = fetch[s][q].id
            BY <1>1, <2>1 DEF TypeOK, Serve
        <3>3. QED
            BY <3>1, <3>2
    <2>2. QED
        BY <2>1, FetchIds
<1>4. ASSUME NEW o \in Sites, NEW r \in Requests
      PROVE  /\ fetch'[o][r].id \in W[o] \cup {0}
             /\ HasData(o, r)' => got'[o][r].round \in W[o]
    BY <1>2, <1>3, FetchIds DEF IdsIn, HasData
<1>5. ASSUME NEW o \in Sites, NEW p \in Sites
      PROVE  part_ids'[o][p] \in W[o] \cup {0}
    BY <1>2, FetchIds DEF IdsIn
<1>6. QED
    BY <1>4, <1>5 DEF IdsIn

LEMMA IdsStep ==
    ASSUME Base, NEW W, NEW V, IdsIn(W), NEW s \in Sites, Step(s),
           \A p \in Sites : V[p] = W[p] \/ (p = s /\ Construct(s)),
           round'[s] \in V[s]
    PROVE  IdsIn(V)'
<1>1. TypeOK
    BY DEF Base
<1>2. CASE Construct(s)
    <2>1. \A p \in Sites : p # s =>
            part_ids'[p] = part_ids[p] /\ fetch'[p] = fetch[p]
                /\ got'[p] = got[p]
        BY <1>1, <1>2 DEF TypeOK, Construct
    <2>2. \A p \in Sites : part_ids'[s][p] \in {round'[s], 0}
        BY <1>1, <1>2 DEF TypeOK, Construct
    <2>3. \A q \in Requests :
            fetch'[s][q].id = 0 /\ fetch'[s][q].stage = "new"
        BY <1>1, <1>2 DEF TypeOK, Construct
    <2>4. \A p \in Sites : p # s => V[p] = W[p]
        OBVIOUS
    <2>5. ASSUME NEW o \in Sites, NEW q \in Requests
          PROVE  /\ fetch'[o][q].id \in V[o] \cup {0}
                 /\ HasData(o, q)' => got'[o][q].round \in V[o]
        BY <2>1, <2>3, <2>4 DEF IdsIn, HasData
    <2>6. ASSUME NEW o \in Sites, NEW p \in Sites
          PROVE  part_ids'[o][p] \in V[o] \cup {0}
        BY <2>1, <2>2, <2>4 DEF IdsIn
    <2>7. QED
        BY <2>5, <2>6 DEF IdsIn
<1>3. CASE ~Construct(s)
    BY <1>3 DEF IdsIn, HasData, Step, Arrive, Leave, Destroy, Return
<1>4. QED
    BY <1>2, <1>3

(* The invariant that bounds how far sites drift apart.                     *)
Near(s) == {round[s], round[s] - 1}
IdsNear == IdsIn([s \in Sites |-> Near(s)])
Window == Base /\ InStep /\ NamesCurrent /\ IdsNear

LEMMA WindowInit == Init => Window
<1>1. Init => InStep /\ NamesCurrent /\ IdsNear
    BY DEF Init, InStep, NamesCurrent, IdsNear, IdsIn, Passed, Arrived, HasData
<1>2. QED
    BY <1>1, BaseInit DEF Window

LEMMA WindowStep ==
    ASSUME Synchronised, Window, NEW s \in Sites, Step(s)
    PROVE  Window'
<1>1. Base /\ InStep /\ NamesCurrent /\ IdsNear /\ TypeOK
    BY DEF Window, Base
<1>2. Base' /\ InStep' /\ NamesCurrent'
    BY <1>1, BaseStep, InStepStep, NamesStep
<1>3. PICK W : W = [p \in Sites |-> Near(p)]
    OBVIOUS
<1>4. PICK V : V = [p \in Sites |-> Near(p)']
    OBVIOUS
<1>5. \A p \in Sites : V[p] = W[p] \/ (p = s /\ Construct(s))
    BY <1>1, <1>3, <1>4
        DEF Near, TypeOK, Step, Construct, Arrive, Leave, Destroy, Return
<1>6. IdsIn(V)'
    BY <1>1, <1>3, <1>4, <1>5, IdsStep DEF IdsNear, Near
<1>7. IdsNear'
    BY <1>4, <1>6 DEF IdsNear
<1>8. QED
    BY <1>2, <1>7 DEF Window

LEMMA WindowFetch ==
    ASSUME Window, NEW s \in Sites, NEW q \in Requests, Fetch(s, q)
    PROVE  Window'
<1>1. Base /\ InStep /\ NamesCurrent /\ IdsNear
    BY DEF Window
<1>2. pc[s] = "open" /\ Name(s) \in Names
      /\ pc' = pc /\ round' = round /\ names' = names
    BY <1>1, FetchIds
<1>3. Base' /\ InStep' /\ NamesCurrent'
    BY <1>1, <1>2, BaseFetch DEF InStep, NamesCurrent, Passed, Arrived, Name
<1>4. PICK W : W = [p \in Sites |-> Near(p)]
    OBVIOUS
<1>5. \A p \in Sites : names[Name(s)][p] \in W[s] \cup {0}
    BY <1>1, <1>2, <1>4, RegisteredInWindow DEF Near
<1>6. IdsIn(W)'
    BY <1>1, <1>4, <1>5, IdsFetch DEF IdsNear
<1>7. IdsNear'
    BY <1>2, <1>4, <1>6 DEF IdsNear, Near
<1>8. QED
    BY <1>3, <1>7 DEF Window

(* As long as the operations end in a collective, whatever the base names:  *)
(* fetched data is of the evaluation of the site that fetches it, or of the *)
(* one before, and never of a later one.                                    *)
THEOREM DriftBounded ==
    ASSUME Synchronised PROVE Spec => []FetchWindow
<1>1. Init => Window
    BY WindowInit
<1>2. Window /\ [Next]_vars => Window'
    <2>1. SUFFICES ASSUME Window, [Next]_vars PROVE Window'
        OBVIOUS
    <2>2. CASE UNCHANGED vars
        BY <2>1, <2>2 DEF vars, Window, Base, TypeOK, Begun, FetchesOpen,
            InStep, NamesCurrent, IdsNear, IdsIn, Passed, Arrived, Name, Near,
            HasData
    <2>3. QED
        BY <2>1, <2>2, StepCases, WindowStep, WindowFetch
<1>3. Window => FetchWindow
    BY DEF Window, IdsNear, IdsIn, Near, FetchWindow
<1>4. QED
    BY <1>1, <1>2, <1>3, PTL DEF Spec

-----------------------------------------------------------------------------
(* An evaluation with a name of its own knows parts of itself only.         *)
Current(s) == IF OwnName(round[s]) THEN {round[s]} ELSE 0..Rounds
IdsCurrent == IdsIn([s \in Sites |-> Current(s)])

(* A site has begun the evaluation every known id of it is from.            *)
Reached ==
    \A s \in Sites :
        /\ \A p \in Sites : part_ids[s][p] <= round[p]
        /\ \A q \in Requests : fetch[s][q].id <= round[fetch[s][q].idx]

LiveIfOwn ==
    \A s \in Sites, q \in Requests : OwnName(round[s]) => got[s][q].live

Distinct == Base /\ InStep /\ NamesCurrent /\ IdsCurrent /\ Reached
                /\ LiveIfOwn

LEMMA RoundType ==
    ASSUME TypeOK, NEW p \in Sites
    PROVE  round[p] \in Nat /\ 0 <= round[p]
<1>1. round[p] \in 0..Rounds /\ Rounds \in Nat
    BY DistributedAssumption DEF TypeOK
<1>2. QED
    BY <1>1

LEMMA DistinctInit == Init => Distinct
<1>1. Init => InStep /\ NamesCurrent /\ IdsCurrent
    BY DistributedAssumption DEF Current, Init, InStep, NamesCurrent, IdsCurrent, IdsIn, Passed, Arrived,
        HasData
<1>2. Init => Reached /\ LiveIfOwn
    BY DEF Init, Reached, LiveIfOwn, Nothing
<1>3. QED
    BY <1>1, <1>2, BaseInit DEF Distinct

LEMMA DistinctStep ==
    ASSUME Synchronised, Distinct, NEW s \in Sites, Step(s)
    PROVE  Distinct'
<1>1. Base /\ InStep /\ NamesCurrent /\ IdsCurrent /\ TypeOK /\ Rounds \in Nat
    BY DistributedAssumption DEF Distinct, Base
<1>2. Base' /\ InStep' /\ NamesCurrent'
    BY <1>1, BaseStep, InStepStep, NamesStep
<1>3. PICK W : W = [p \in Sites |-> Current(p)]
    OBVIOUS
<1>4. PICK V : V = [p \in Sites |-> Current(p)']
    OBVIOUS
<1>5. \A p \in Sites : V[p] = W[p] \/ (p = s /\ Construct(s))
    BY <1>1, <1>3, <1>4
        DEF Current, TypeOK, Step, Construct, Arrive, Leave, Destroy, Return
<1>6. IdsIn(V)'
    <2>1. TypeOK'
        BY <1>2 DEF Base
    <2>2. V[s] = Current(s)'
        BY <1>4
    <2>3. round'[s] \in Current(s)'
        BY <2>1 DEF Current, TypeOK
    <2>4. IdsIn(W)
        BY <1>1, <1>3 DEF IdsCurrent
    <2>5. QED
        BY <1>1, <1>5, <2>2, <2>3, <2>4, IdsStep
<1>7. IdsCurrent'
    BY <1>4, <1>6 DEF IdsCurrent
<1>8. Reached' /\ LiveIfOwn'
    <2>1. CASE Construct(s)
        <3>1. \A p \in Sites : p # s =>
                /\ part_ids'[p] = part_ids[p] /\ fetch'[p] = fetch[p]
                /\ got'[p] = got[p] /\ round'[p] = round[p]
            BY <1>1, <2>1 DEF TypeOK, Construct
        <3>2. round'[s] = round[s] + 1
            BY <1>1, <2>1 DEF TypeOK, Construct
        <3>3. \A p \in Sites : round[p] \in Nat /\ round'[p] \in Nat
                /\ round[p] <= round'[p]
            BY <1>1, <3>1, <3>2, RoundType
        <3>4. \A p \in Sites : part_ids'[s][p] <= round'[p]
            BY <1>1, <2>1, <3>2, <3>3 DEF TypeOK, Construct
        <3>5. \A q \in Requests :
                fetch'[s][q].id = 0 /\ fetch'[s][q].idx \in Sites
            BY <1>1, <2>1 DEF TypeOK, Construct
        <3>6. \A p, o \in Sites : part_ids'[p][o] <= round'[o]
            <4>1. ASSUME NEW p \in Sites, NEW o \in Sites, p # s
                  PROVE  part_ids'[p][o] <= round'[o]
                <5>1. /\ part_ids[p][o] \in Nat
                      /\ part_ids[p][o] <= round[o]
                    BY <1>1 DEF TypeOK, Distinct, Reached
                <5>2. QED
                    BY <3>1, <3>3, <4>1, <5>1
            <4>2. QED
                BY <3>4, <4>1
        <3>7. \A p \in Sites, q \in Requests :
                fetch[p][q].id <= round[fetch[p][q].idx]
                    /\ fetch[p][q].id \in Nat /\ fetch[p][q].idx \in Sites
            BY <1>1, FetchRecord DEF Distinct, Reached
        <3>8. \A p \in Sites, q \in Requests :
                fetch'[p][q].id <= round'[fetch'[p][q].idx]
            BY <3>1, <3>3, <3>5, <3>7
        <3>9. \A q \in Requests : got'[s][q].live
            BY <1>1, <2>1 DEF TypeOK, Construct, Nothing
        <3>10. QED
            BY <3>1, <3>6, <3>8, <3>9 DEF Distinct, Reached, LiveIfOwn
    <2>2. CASE ~Construct(s)
        BY <2>2 DEF Distinct, Reached, LiveIfOwn, Step, Arrive, Leave,
            Destroy, Return
    <2>3. QED
        BY <2>1, <2>2
<1>9. QED
    BY <1>2, <1>7, <1>8 DEF Distinct

LEMMA DistinctFetch ==
    ASSUME Distinct, NEW s \in Sites, NEW q \in Requests, Fetch(s, q)
    PROVE  Distinct'
<1>1. Base /\ InStep /\ NamesCurrent /\ IdsCurrent /\ TypeOK /\ Begun
    BY DEF Distinct, Base
<1>2. pc[s] = "open" /\ Name(s) \in Names
      /\ pc' = pc /\ round' = round /\ names' = names
    BY <1>1, FetchIds
<1>3. Base' /\ InStep' /\ NamesCurrent'
    BY <1>1, <1>2, BaseFetch DEF InStep, NamesCurrent, Passed, Arrived, Name
<1>4. PICK W : W = [p \in Sites |-> Current(p)]
    OBVIOUS
<1>5. \A p \in Sites : round[p] \in 0..Rounds
    BY <1>1 DEF TypeOK
<1>6. ASSUME NEW p \in Sites, names[Name(s)][p] # 0
      PROVE  /\ names[Name(s)][p] = round[p]
             /\ OwnName(round[s]) => round[p] = round[s]
    <2>1. /\ names[Name(s)][p] = round[p] /\ Name(s) = Name(p)
          /\ pc[p] # "idle"
        BY <1>1, <1>2, <1>6 DEF NamesCurrent
    <2>2. round[p] \in 1..Rounds /\ round[s] \in 1..Rounds
        BY <1>1, <1>2, <1>5, <2>1, DistributedAssumption DEF Begun
    <2>3. QED
        BY <2>1, <2>2 DEF OwnName, Name
<1>7. \A p \in Sites : names[Name(s)][p] \in W[s] \cup {0}
    BY <1>1, <1>2, <1>4, <1>6 DEF Current, TypeOK
<1>8. IdsIn(W)'
    BY <1>1, <1>4, <1>7, IdsFetch DEF IdsCurrent
<1>9. IdsCurrent'
    BY <1>2, <1>4, <1>8 DEF IdsCurrent, Current
<1>10. fetch[s][q].idx \in Sites /\ fetch[s][q].id \in 0..Rounds
    BY <1>1, FetchRecord
<1>11. Reached'
    <2>1. \A p \in Sites : names[Name(s)][p] <= round[p]
        <3>1. SUFFICES ASSUME NEW p \in Sites
                       PROVE  names[Name(s)][p] <= round[p]
            OBVIOUS
        <3>2. round[p] \in Nat /\ 0 <= round[p]
            BY <1>1, RoundType
        <3>3. names[Name(s)][p] \in {0, round[p]}
            BY <1>6
        <3>4. QED
            BY <3>2, <3>3
    <2>2. \A p, o \in Sites : part_ids[p][o] <= round[o]
        BY DEF Distinct, Reached
    <2>3. \A p \in Sites, r \in Requests :
            fetch[p][r].id <= round[fetch[p][r].idx]
        BY DEF Distinct, Reached
    <2>4. 0 <= round[fetch[s][q].idx]
        BY <1>5, <1>10, DistributedAssumption
    <2>5. fetch'[s][q].id <= round[fetch[s][q].idx]
        BY <1>1, <1>10, <2>1, <2>2, <2>3, <2>4, FetchIds
    <2>6. part_ids'[s][fetch[s][q].idx] <= round[fetch[s][q].idx]
        BY <1>1, <1>10, <2>2, <2>3, <2>4, FetchIds
    <2>7. \A p, o \in Sites : part_ids'[p][o] <= round[o]
        BY <1>1, <2>2, <2>6, FetchIds
    <2>8. \A p \in Sites, r \in Requests :
            fetch'[p][r].id <= round[fetch'[p][r].idx]
        BY <1>1, <2>3, <2>5, FetchIds
    <2>9. QED
        BY <1>2, <2>7, <2>8 DEF Reached
<1>12. LiveIfOwn'
    <2>1. CASE Serve(s, q) /\ OwnName(round[s])
        <3>1. fetch[s][q].id \in {round[s]}
            <4>1. Current(s) = {round[s]}
                BY <2>1 DEF Current
            <4>2. fetch[s][q].id \in Current(s) \cup {0}
                BY <1>1 DEF IdsCurrent, IdsIn
            <4>3. fetch[s][q].id \in 1..Rounds
                BY <1>1, <2>1, FetchRecord DEF Serve, Resolved
            <4>4. QED
                BY <4>1, <4>2, <4>3, DistributedAssumption
        <3>2. round[fetch[s][q].idx] >= round[s]
            BY <1>5, <1>10, <3>1 DEF Distinct, Reached
        <3>3. Passed(fetch[s][q].idx) <= Arrived(s)
            BY <1>1, <1>10 DEF InStep
        <3>4. round[fetch[s][q].idx] = round[s] /\ pc[fetch[s][q].idx] # "idle"
            BY <1>2, <1>5, <1>10, <3>2, <3>3, DistributedAssumption
                DEF Passed, Arrived
        <3>5. Live(fetch[s][q].idx, fetch[s][q].id)
            BY <3>1, <3>4 DEF Live
        <3>6. got'[s][q].live
            BY <1>1, <2>1, <3>5 DEF TypeOK, Serve
        <3>7. QED
            BY <1>1, <1>2, <3>6, FetchIds DEF Distinct, LiveIfOwn
    <2>2. CASE Serve(s, q) /\ ~OwnName(round[s])
        BY <1>1, <1>2, <2>2, FetchIds DEF Distinct, LiveIfOwn
    <2>3. CASE ~Serve(s, q)
        BY <1>1, <1>2, <2>3, FetchIds DEF Distinct, LiveIfOwn
    <2>4. QED
        BY <2>1, <2>2, <2>3
<1>13. QED
    BY <1>3, <1>9, <1>11, <1>12 DEF Distinct

(* Every fetch of an evaluation with a base name of its own returns data of *)
(* that evaluation, and reads it while it is there, whatever names the      *)
(* evaluations around it have.                                              *)
THEOREM OwnNames ==
    ASSUME Synchronised
    PROVE  Spec => []OwnNameIsCurrent
<1>1. Init => Distinct
    BY DistinctInit
<1>2. Distinct /\ [Next]_vars => Distinct'
    <2>1. SUFFICES ASSUME Distinct, [Next]_vars PROVE Distinct'
        OBVIOUS
    <2>2. CASE UNCHANGED vars
        <3>1. /\ pc' = pc /\ round' = round /\ names' = names
              /\ part_ids' = part_ids /\ fetch' = fetch /\ got' = got
            BY <2>2 DEF vars
        <3>2. Base' /\ InStep' /\ NamesCurrent'
            BY <2>1, <3>1 DEF Distinct, Base, TypeOK, Begun, FetchesOpen,
                InStep, NamesCurrent, Passed, Arrived, Name
        <3>3. IdsCurrent'
            BY <2>1, <3>1 DEF Distinct, IdsCurrent, IdsIn, Current, HasData
        <3>4. Reached' /\ LiveIfOwn'
            BY <2>1, <3>1 DEF Distinct, Reached, LiveIfOwn
        <3>5. QED
            BY <3>2, <3>3, <3>4 DEF Distinct
    <2>3. QED
        BY <2>1, <2>2, StepCases, DistinctStep, DistinctFetch
<1>3. Distinct => OwnNameIsCurrent
    <2>1. SUFFICES ASSUME Distinct, NEW s \in Sites, NEW q \in Requests,
                          HasData(s, q), OwnName(round[s])
                   PROVE  got[s][q] = [round |-> round[s], live |-> TRUE]
        BY DEF OwnNameIsCurrent
    <2>2. got[s][q].round = round[s] /\ got[s][q].live
        BY <2>1 DEF Distinct, IdsCurrent, IdsIn, Current, LiveIfOwn
    <2>3. got[s][q] \in Fetched
        BY <2>1 DEF Distinct, Base, TypeOK
    <2>4. QED
        BY <2>2, <2>3 DEF Fetched
<1>4. QED
    BY <1>1, <1>2, <1>3, PTL DEF Spec


-----------------------------------------------------------------------------
(* A fetch that was sent uses the id its site keeps in part_ids_, and what  *)
(* came back is from the part of that id.                                   *)
FromCache ==
    \A s \in Sites, q \in Requests :
        /\ fetch[s][q].stage \in {"sent", "done"} =>
                fetch[s][q].id = part_ids[s][fetch[s][q].idx]
        /\ fetch[s][q].stage = "done" => got[s][q].round = fetch[s][q].id

LEMMA CacheStep ==
    ASSUME Base, FromCache, NEW s \in Sites, Step(s)
    PROVE  FromCache'
<1>1. TypeOK
    BY DEF Base
<1>2. CASE Construct(s)
    <2>1. \A p \in Sites : p # s =>
            /\ fetch'[p] = fetch[p]
            /\ got'[p] = got[p]
            /\ part_ids'[p] = part_ids[p]
        BY <1>1, <1>2 DEF TypeOK, Construct
    <2>2. \A q \in Requests : fetch'[s][q].stage = "new"
        BY <1>1, <1>2 DEF TypeOK, Construct
    <2>3. QED
        BY <2>1, <2>2 DEF FromCache
<1>3. CASE ~Construct(s)
    <2>1. UNCHANGED <<fetch, got, part_ids>>
        BY <1>3 DEF Step, Arrive, Leave, Destroy, Return
    <2>2. QED
        BY <2>1 DEF FromCache
<1>4. QED
    BY <1>2, <1>3

(* Ids are added to the cache, never replaced: a task that comes back with  *)
(* the id it has waited for looks there again.                              *)
LEMMA CacheKeeps ==
    ASSUME TypeOK, NEW s \in Sites, NEW q \in Requests, Fetch(s, q)
    PROVE  \A p \in Sites :
            part_ids[s][p] # 0 => part_ids'[s][p] = part_ids[s][p]
<1>1. CASE Emplace(s, q)
    BY <1>1 DEF TypeOK, Emplace
<1>2. CASE ~Emplace(s, q)
    BY <1>2 DEF Fetch, FetchCached, FetchUnknown, Resolve, Serve
<1>3. QED
    BY <1>1, <1>2

LEMMA CacheFetch ==
    ASSUME Base, FromCache, NEW s \in Sites, NEW q \in Requests, Fetch(s, q)
    PROVE  FromCache'
<1>1. TypeOK
    BY DEF Base
<1>2. /\ fetch'[s][q].idx = fetch[s][q].idx
      /\ \A o \in Sites : o # s => part_ids'[o] = part_ids[o]
      /\ \A o \in Sites, r \in Requests : o # s \/ r # q =>
            fetch'[o][r] = fetch[o][r] /\ got'[o][r] = got[o][r]
    BY FetchIds
<1>3. fetch[s][q].idx \in Sites
    BY <1>1, FetchRecord
<1>4. ASSUME NEW o \in Sites, NEW r \in Requests, o # s \/ r # q
      PROVE  /\ fetch'[o][r].stage \in {"sent", "done"} =>
                    fetch'[o][r].id = part_ids'[o][fetch'[o][r].idx]
             /\ fetch'[o][r].stage = "done" =>
                    got'[o][r].round = fetch'[o][r].id
    <2>1. fetch'[o][r] = fetch[o][r] /\ got'[o][r] = got[o][r]
        BY <1>2, <1>4
    <2>2. fetch[o][r].idx \in Sites
        BY <1>1, FetchRecord
    <2>3. fetch[o][r].stage \in {"sent", "done"} =>
            fetch[o][r].id # 0 /\ fetch[o][r].id \in Nat
        BY <1>1, FetchRecord, DistributedAssumption DEF Resolved
    <2>4. CASE o = s
        <3>1. part_ids[s][fetch[o][r].idx] # 0 =>
                part_ids'[s][fetch[o][r].idx] = part_ids[s][fetch[o][r].idx]
            BY <1>1, <2>2, CacheKeeps
        <3>2. QED
            BY <2>1, <2>3, <2>4, <3>1 DEF FromCache
    <2>5. CASE o # s
        BY <1>2, <2>1, <2>5 DEF FromCache
    <2>6. QED
        BY <2>4, <2>5
<1>5. \A stage, id : Becomes(s, q, stage, id) =>
        fetch'[s][q].id = id /\ fetch'[s][q].stage = stage
    BY <1>1 DEF TypeOK, Becomes
<1>6. /\ fetch'[s][q].stage \in {"sent", "done"} =>
            fetch'[s][q].id = part_ids'[s][fetch'[s][q].idx]
      /\ fetch'[s][q].stage = "done" => got'[s][q].round = fetch'[s][q].id
    <2>1. CASE FetchCached(s, q)
        BY <1>2, <1>5, <2>1 DEF FetchCached
    <2>2. CASE FetchUnknown(s, q)
        BY <1>5, <2>2 DEF FetchUnknown
    <2>3. CASE Resolve(s, q)
        BY <1>5, <2>3 DEF Resolve
    <2>4. CASE Emplace(s, q)
        BY <1>1, <1>2, <1>3, <1>5, <2>4 DEF TypeOK, Emplace
    <2>5. CASE Serve(s, q)
        <3>1. got'[s][q].round = fetch[s][q].id
            BY <1>1, <2>5 DEF TypeOK, Serve
        <3>2. fetch[s][q].id = part_ids[s][fetch[s][q].idx]
            BY <2>5 DEF FromCache, Serve
        <3>3. QED
            BY <1>2, <1>5, <2>5, <3>1, <3>2 DEF Serve
    <2>6. QED
        BY <2>1, <2>2, <2>3, <2>4, <2>5 DEF Fetch
<1>7. QED
    BY <1>4, <1>6 DEF FromCache

(* All fetches of an evaluation from one site are answered by the same part *)
(* of it, whichever task looked it up first, with any number of sites and   *)
(* tasks, whatever the names and whether or not the operation synchronises. *)
THEOREM FetchesUseOnePart == Spec => []FetchesAgree
<1>1. Init => Base /\ FromCache
    <2>1. Init => FromCache
        BY DEF Init, FromCache
    <2>2. QED
        BY <2>1, BaseInit
<1>2. Base /\ FromCache /\ [Next]_vars => (Base /\ FromCache)'
    <2>1. SUFFICES ASSUME Base, FromCache, [Next]_vars
                   PROVE  (Base /\ FromCache)'
        OBVIOUS
    <2>2. CASE UNCHANGED vars
        BY <2>1, <2>2 DEF vars, Base, TypeOK, Begun, FetchesOpen, FromCache
    <2>3. QED
        BY <2>1, <2>2, StepCases, BaseStep, BaseFetch, CacheStep, CacheFetch
<1>3. FromCache => FetchesAgree
    BY DEF FromCache, FetchesAgree, HasData
<1>4. QED
    BY <1>1, <1>2, <1>3, PTL DEF Spec
=============================================================================
