--------------------------- MODULE DistributedData ---------------------------
(***************************************************************************)
(* A distributed vector or matrix (phylanx/util/distributed_vector.hpp,    *)
(* distributed_matrix.hpp) and the operations that use one                 *)
(* (dist_dot_operation, retile_annotations, dist_slice, ...).              *)
(*                                                                         *)
(* Every locality (site) evaluates the same sequence of operations.  Each  *)
(* evaluation (round) creates a part over the operand of that site,        *)
(* registers it under a base name, fetches parts of other sites, joins a   *)
(* collective operation, destroys its part and returns, upon which the     *)
(* operand may be freed.  Nothing else keeps the sites in step.            *)
(*                                                                         *)
(* External: AGAS (register_with_basename, unregister_with_basename,       *)
(* on_symbol_namespace_event) and the collectives of HPX.                  *)
(***************************************************************************)
EXTENDS Integers

CONSTANTS
    Sites,        \* localities
    Requests,     \* fetches a site has in flight
    Rounds,       \* bound on the evaluations
    Names,        \* base names
    BaseName,     \* [1..Rounds -> Names]: the operand's annotation name
    Synchronised  \* the operation ends in a collective or a barrier

ASSUME DistributedAssumption ==
    /\ Rounds \in Nat
    /\ BaseName \in [1..Rounds -> Names]
    /\ Synchronised \in BOOLEAN

VARIABLES
    pc,       \* [Sites -> Phases]
    round,    \* [Sites -> 0..Rounds]: the evaluation a site is in
    names,    \* [Names -> [Sites -> 0..Rounds]]: registered parts, 0 if none
    part_ids, \* [Sites -> [Sites -> 0..Rounds]]: the cache of its part_ids_
    fetch,    \* [Sites -> [Requests -> fetches]]
    got       \* [Sites -> [Requests -> fetched data]]

vars == <<pc, round, names, part_ids, fetch, got>>

Phases == {"idle", "open", "arrived", "leaving", "unregistered"}

(* waiting: the spinlock is released until the name is there; resolved: the *)
(* lock is about to be taken again; sent: the action is on its way.         *)
Unresolved == {"none", "new", "waiting"}
Resolved == {"resolved", "sent", "done"}

(* A fetch: the site it is for, and the id of the part there; 0 is the      *)
(* invalid id.                                                              *)
Fetches ==
    [stage : Unresolved, idx : Sites, id : {0}]
        \cup [stage : Resolved, idx : Sites, id : 1..Rounds]

(* The data a fetch returned: whose evaluation it is from, and whether the  *)
(* array was still there when it was read.                                  *)
Fetched == [round : 0..Rounds, live : BOOLEAN]

Nothing == [round |-> 0, live |-> TRUE]

(* The part of site s for round r refers to an array that exists.           *)
Live(s, r) == round[s] = r /\ pc[s] # "idle"

(* Mutant: every vector is registered under the same name.                  *)
FirstName(s) == BaseName[1]

Name(s) == BaseName[round[s]]

-----------------------------------------------------------------------------
(* The constructor and create_and_register_server.                          *)
Construct(s) ==
    /\ pc[s] = "idle"
    /\ round[s] < Rounds
    /\ LET r == round[s] + 1
       IN  /\ round' = [round EXCEPT ![s] = r]
           /\ names' = [names EXCEPT ![Name(s)'][s] = r]
           /\ part_ids' = [part_ids EXCEPT ![s] =
                [p \in Sites |-> IF p = s THEN r ELSE 0]]
    /\ pc' = [pc EXCEPT ![s] = "open"]
    /\ \E idx \in [Requests -> Sites] :
        fetch' = [fetch EXCEPT ![s] =
            [q \in Requests |-> [stage |-> "new", idx |-> idx[q], id |-> 0]]]
    /\ got' = [got EXCEPT ![s] = [q \in Requests |-> Nothing]]

Becomes(s, q, stage, id) ==
    fetch' = [fetch EXCEPT ![s][q] =
        [stage |-> stage, idx |-> fetch[s][q].idx, id |-> id]]

(* get_part_id finds the id in part_ids_, under the lock.                   *)
FetchCached(s, q) ==
    LET f == fetch[s][q]
    IN  /\ f.stage = "new"
        /\ part_ids[s][f.idx] # 0
        /\ Becomes(s, q, "sent", part_ids[s][f.idx])
        /\ UNCHANGED <<pc, round, names, part_ids, got>>

(* Mutant: the action is sent before the name is known.                     *)
SendUnknown(s, q) ==
    LET f == fetch[s][q]
    IN  /\ f.stage = "new"
        /\ part_ids[s][f.idx] = 0
        /\ Becomes(s, q, "sent", f.id)
        /\ UNCHANGED <<pc, round, names, part_ids, got>>

(* It does not: unlock_guard, and wait for the name to be registered.       *)
FetchUnknown(s, q) ==
    LET f == fetch[s][q]
    IN  /\ f.stage = "new"
        /\ part_ids[s][f.idx] = 0
        /\ Becomes(s, q, "waiting", f.id)
        /\ UNCHANGED <<pc, round, names, part_ids, got>>

(* on_symbol_namespace_event.                                               *)
Resolve(s, q) ==
    LET f == fetch[s][q]
    IN  /\ f.stage = "waiting"
        /\ names[Name(s)][f.idx] # 0
        /\ Becomes(s, q, "resolved", names[Name(s)][f.idx])
        /\ UNCHANGED <<pc, round, names, part_ids, got>>

(* Mutant: the id is emplaced without looking again.                        *)
EmplaceAgain(s, q) ==
    LET f == fetch[s][q]
    IN  /\ f.stage = "resolved"
        /\ part_ids' = [part_ids EXCEPT ![s][f.idx] = f.id]
        /\ Becomes(s, q, "sent", f.id)
        /\ UNCHANGED <<pc, round, names, got>>

(* Locked again: another task may have emplaced an id in the meantime.      *)
Emplace(s, q) ==
    LET f == fetch[s][q]
        id == IF part_ids[s][f.idx] = 0 THEN f.id ELSE part_ids[s][f.idx]
    IN  /\ f.stage = "resolved"
        /\ part_ids' = [part_ids EXCEPT ![s][f.idx] = id]
        /\ Becomes(s, q, "sent", id)
        /\ UNCHANGED <<pc, round, names, got>>

(* fetch_action runs at the other site and copies its data_; the component  *)
(* is kept alive by the id, the array it refers to is not.                  *)
Serve(s, q) ==
    LET f == fetch[s][q]
    IN  /\ f.stage = "sent"
        /\ got' = [got EXCEPT ![s][q] =
                [round |-> f.id, live |-> Live(f.idx, f.id)]]
        /\ Becomes(s, q, "done", f.id)
        /\ UNCHANGED <<pc, round, names, part_ids>>

Finished(s) == \A q \in Requests : fetch[s][q].stage = "done"

(* all_reduce, all_gather or barrier, over all sites.                       *)
Arrive(s) ==
    /\ pc[s] = "open"
    /\ Finished(s)
    /\ pc' = [pc EXCEPT ![s] = IF Synchronised THEN "arrived" ELSE "leaving"]
    /\ UNCHANGED <<round, names, part_ids, fetch, got>>

(* Site p has arrived at the end of round r.                                *)
HasArrived(p, r) ==
    \/ round[p] > r
    \/ round[p] = r /\ pc[p] # "open"

(* Mutant: a site does not wait for the others.                             *)
LeaveEarly(s) ==
    /\ pc[s] = "arrived"
    /\ pc' = [pc EXCEPT ![s] = "leaving"]
    /\ UNCHANGED <<round, names, part_ids, fetch, got>>

Leave(s) ==
    /\ pc[s] = "arrived"
    /\ \A p \in Sites : HasArrived(p, round[s])
    /\ pc' = [pc EXCEPT ![s] = "leaving"]
    /\ UNCHANGED <<round, names, part_ids, fetch, got>>

(* The destructor.                                                          *)
Destroy(s) ==
    /\ pc[s] = "leaving"
    /\ names' = [names EXCEPT ![Name(s)][s] = 0]
    /\ pc' = [pc EXCEPT ![s] = "unregistered"]
    /\ UNCHANGED <<round, part_ids, fetch, got>>

(* The operation returns; its operand goes out of scope.                    *)
Return(s) ==
    /\ pc[s] = "unregistered"
    /\ pc' = [pc EXCEPT ![s] = "idle"]
    /\ UNCHANGED <<round, names, part_ids, fetch, got>>

-----------------------------------------------------------------------------
Init ==
    /\ pc = [s \in Sites |-> "idle"]
    /\ round = [s \in Sites |-> 0]
    /\ names = [n \in Names |-> [s \in Sites |-> 0]]
    /\ part_ids = [s \in Sites |-> [p \in Sites |-> 0]]
    /\ fetch = [s \in Sites |-> [q \in Requests |->
                    [stage |-> "none", idx |-> s, id |-> 0]]]
    /\ got = [s \in Sites |-> [q \in Requests |-> Nothing]]

Fetch(s, q) ==
    \/ FetchCached(s, q)
    \/ FetchUnknown(s, q)
    \/ Resolve(s, q)
    \/ Emplace(s, q)
    \/ Serve(s, q)

Step(s) ==
    \/ Construct(s) \/ Arrive(s) \/ Leave(s) \/ Destroy(s) \/ Return(s)

Next ==
    \E s \in Sites : Step(s) \/ \E q \in Requests : Fetch(s, q)

Spec == Init /\ [][Next]_vars

(* HPX schedules every task and delivers every parcel.                      *)
FairSpec ==
    /\ Spec
    /\ \A s \in Sites : WF_vars(Step(s))
    /\ \A s \in Sites, q \in Requests : WF_vars(Fetch(s, q))

-----------------------------------------------------------------------------
(* Every component of the state is of its type.                             *)
TypeOK ==
    /\ pc \in [Sites -> Phases]
    /\ round \in [Sites -> 0..Rounds]
    /\ names \in [Names -> [Sites -> 0..Rounds]]
    /\ part_ids \in [Sites -> [Sites -> 0..Rounds]]
    /\ fetch \in [Sites -> [Requests -> Fetches]]
    /\ got \in [Sites -> [Requests -> Fetched]]

HasData(s, q) == fetch[s][q].stage = "done"

(* The collective at the end keeps the sites within one evaluation of each  *)
(* other: a fetch never returns data of an evaluation the fetching site has *)
(* not reached, and none older than the one before.                         *)
FetchWindow ==
    \A s \in Sites, q \in Requests :
        HasData(s, q) => got[s][q].round \in {round[s], round[s] - 1}

(* "fetch() ... returns a future of (part of) a copy of the instance of     *)
(* this distributed_vector": the one of the same evaluation.                *)
FetchIsCurrent ==
    \A s \in Sites, q \in Requests :
        HasData(s, q) => got[s][q].round = round[s]

(* The base name of evaluation r is not used for another one.               *)
OwnName(r) == \A o \in 1..Rounds \ {r} : BaseName[o] # BaseName[r]

(* "The name of the distributed_vector, which should be a unique string":   *)
(* where it is unique over the evaluations too, a fetch returns data of its *)
(* own evaluation, from an array that is still there, whatever names the    *)
(* evaluations before and after have.                                       *)
OwnNameIsCurrent ==
    \A s \in Sites, q \in Requests :
        HasData(s, q) /\ OwnName(round[s]) =>
            got[s][q] = [round |-> round[s], live |-> TRUE]

(* No fetch reads an array that went out of scope ("we should synchronize   *)
(* with all connected localities however to avoid for the distributed       *)
(* vector going out of scope").                                             *)
FetchReadsLive ==
    \A s \in Sites, q \in Requests : got[s][q].live

(* All fetches of an evaluation use the same part of a site, whichever task *)
(* looked it up first.                                                      *)
FetchesAgree ==
    \A s \in Sites, q, r \in Requests :
        /\ HasData(s, q) /\ HasData(s, r)
        /\ fetch[s][q].idx = fetch[s][r].idx
        => got[s][q].round = got[s][r].round

(* Every fetch gets an answer: no site waits for a name that has come and   *)
(* gone.                                                                    *)
FetchesComplete ==
    \A s \in Sites : pc[s] = "open" ~> pc[s] # "open"
=============================================================================
