--------------------------- MODULE DirectExecution ---------------------------
(***************************************************************************)
(* How a primitive decides whether it is evaluated directly or as a new    *)
(* task (execution_tree/primitives/primitive_component_base.cpp), from the *)
(* counters its evaluations and the performance counters share.            *)
(*                                                                         *)
(* The counters are plain integers: every access is a load or a store of   *)
(* its own here, and an increment may be lost.  A scoped_timer adds the    *)
(* duration of an evaluation when do_eval ends, or moves into the          *)
(* continuation of a result that is not ready.                             *)
(***************************************************************************)
EXTENDS Integers, FiniteSets

CONSTANTS
    Evals,          \* evaluations that may be under way at the same time
    Durations,      \* how long an evaluation takes
    EvalDirect,     \* the primitive is constructed with eval_direct
    EcThreshold,    \* phylanx.eval_count_threshold
    Upper, Lower,   \* phylanx.exec_time_upper_threshold, .._lower_threshold
    MaxEvals,       \* bound on the evaluations
    MaxQueries      \* bound on the queries of the performance counters

ASSUME DirectExecutionAssumption ==
    /\ IsFiniteSet(Evals)
    /\ Durations \subseteq Nat
    /\ EvalDirect \in BOOLEAN
    /\ EcThreshold \in Nat
    /\ Upper \in Nat /\ Lower \in Nat /\ Lower <= Upper
    /\ MaxEvals \in Nat /\ MaxQueries \in Nat

VARIABLES
    eval_count,             \* eval_count_
    eval_duration,          \* eval_duration_
    execute_directly,       \* execute_directly_: 1 yes, 0 no, -1 undecided
    measurements_enabled,   \* measurements_enabled_
    at,                     \* where every evaluation is
    reg,                    \* the counter it has loaded
    timer,                  \* the enabled scoped_timers it has
    begun,                  \* history: evaluations begun,
    spent,                  \*   the durations of those timed, added up,
    timed,                  \*   how often the current one was timed,
    resets,                 \*   the counters that have been reset,
    trapped,                \*   the average was divided by zero,
    queries                 \*   and queries made

counters ==
    <<eval_count, eval_duration, execute_directly, measurements_enabled>>
directVars ==
    <<counters, at, reg, timer, begun, spent, timed, resets, trapped, queries>>

Advance(e, place) == at' = [at EXCEPT ![e] = place]

-----------------------------------------------------------------------------
(* select_direct_eval_execution: "check whether execution status needs to   *)
(* be changed (with some hysteresis)"                                       *)
Decision(exec_time) ==
    IF exec_time > Upper THEN 0 ELSE IF exec_time < Lower THEN 1 ELSE -1

(* Mutant: measuring alone is reason enough to average.                     *)
AveragesWhenMeasured ==
    \/ measurements_enabled
    \/ eval_count > EcThreshold

Averages ==
    \/ eval_count # 0 /\ measurements_enabled
    \/ eval_count > EcThreshold

Select(e) ==
    /\ at[e] = "idle"
    /\ begun < MaxEvals
    /\ begun' = begun + 1
    /\ timed' = [timed EXCEPT ![e] = 0]
    /\ Advance(e, IF Averages THEN "average" ELSE "enter")
    /\ UNCHANGED <<counters, reg, timer, spent, resets, trapped, queries>>

Average(e) ==
    /\ at[e] = "average"
    /\ IF eval_count = 0
       THEN trapped' = TRUE /\ UNCHANGED execute_directly
       ELSE /\ execute_directly' = Decision(eval_duration \div eval_count)
            /\ UNCHANGED trapped
    /\ Advance(e, "enter")
    /\ UNCHANGED <<eval_count, eval_duration, measurements_enabled, reg, timer,
                   begun, spent, timed, resets, queries>>

-----------------------------------------------------------------------------
(* Mutant: what is not evaluated directly is measured.                      *)
DoEvalUnlessDirect(e) ==
    /\ at[e] = "enter"
    /\ IF measurements_enabled \/ execute_directly # 1
       THEN /\ timer' = [timer EXCEPT ![e] = {"do_eval"}]
            /\ reg' = [reg EXCEPT ![e] = eval_count]
            /\ Advance(e, "count")
       ELSE /\ Advance(e, "eval")
            /\ UNCHANGED <<timer, reg>>
    /\ UNCHANGED <<counters, begun, spent, timed, resets, trapped, queries>>

(* do_eval: "perform measurements only when needed"                         *)
DoEval(e) ==
    /\ at[e] = "enter"
    /\ IF measurements_enabled \/ execute_directly = -1
       THEN /\ timer' = [timer EXCEPT ![e] = {"do_eval"}]
            /\ reg' = [reg EXCEPT ![e] = eval_count]
            /\ Advance(e, "count")
       ELSE /\ Advance(e, "eval")
            /\ UNCHANGED <<timer, reg>>
    /\ UNCHANGED <<counters, begun, spent, timed, resets, trapped, queries>>

Count(e) ==
    /\ at[e] = "count"
    /\ eval_count' = reg[e] + 1
    /\ Advance(e, "eval")
    /\ UNCHANGED <<eval_duration, execute_directly, measurements_enabled, reg,
                   timer, begun, spent, timed, resets, trapped, queries>>

(* The result is ready: do_eval returns.                                    *)
EvalReady(e) ==
    /\ at[e] = "eval"
    /\ Advance(e, "scope_end")
    /\ UNCHANGED <<counters, reg, timer, begun, spent, timed, resets, trapped,
                   queries>>

(* Mutant: the timer that was moved from is still enabled.                  *)
KeepAliveCopies(e) ==
    /\ at[e] = "eval"
    /\ timer[e] = {"do_eval"}
    /\ timer' = [timer EXCEPT ![e] = {"do_eval", "continuation"}]
    /\ Advance(e, "scope_end")
    /\ UNCHANGED <<counters, reg, begun, spent, timed, resets, trapped, queries>>

(* It is not: keep_alive takes the timer with it, and leaves do_eval one    *)
(* that is not enabled.                                                     *)
KeepAlive(e) ==
    /\ at[e] = "eval"
    /\ timer[e] = {"do_eval"}
    /\ timer' = [timer EXCEPT ![e] = {"continuation"}]
    /\ Advance(e, "scope_end")
    /\ UNCHANGED <<counters, reg, begun, spent, timed, resets, trapped, queries>>

(* Mutant: a result that is not ready ends the evaluation.                  *)
ScopeEndForgets(e) ==
    /\ at[e] = "scope_end"
    /\ IF "do_eval" \in timer[e]
       THEN reg' = [reg EXCEPT ![e] = eval_duration] /\ Advance(e, "add")
       ELSE Advance(e, "idle") /\ UNCHANGED reg
    /\ UNCHANGED <<counters, timer, begun, spent, timed, resets, trapped,
                   queries>>

(* Where an evaluation goes on when these are the timers it has left.       *)
Rest(timers) == IF timers = {} THEN "idle" ELSE "pending"

(* The local timer is destroyed.                                            *)
ScopeEnd(e) ==
    /\ at[e] = "scope_end"
    /\ IF "do_eval" \in timer[e]
       THEN reg' = [reg EXCEPT ![e] = eval_duration] /\ Advance(e, "add")
       ELSE Advance(e, Rest(timer[e])) /\ UNCHANGED reg
    /\ UNCHANGED <<counters, timer, begun, spent, timed, resets, trapped,
                   queries>>

(* The result has become ready, and the continuation is destroyed.          *)
Continuation(e) ==
    /\ at[e] = "pending"
    /\ reg' = [reg EXCEPT ![e] = eval_duration]
    /\ Advance(e, "add")
    /\ UNCHANGED <<counters, timer, begun, spent, timed, resets, trapped,
                   queries>>

AddDuration(e) ==
    /\ at[e] = "add"
    /\ \E d \in Durations :
        /\ eval_duration' = reg[e] + d
        /\ spent' = IF timed[e] = 0 THEN spent + d ELSE spent
    /\ timed' = [timed EXCEPT ![e] = @ + 1]
    /\ LET left == IF "do_eval" \in timer[e] THEN timer[e] \ {"do_eval"} ELSE {}
       IN  timer' = [timer EXCEPT ![e] = left] /\ Advance(e, Rest(left))
    /\ UNCHANGED <<eval_count, execute_directly, measurements_enabled, reg,
                   begun, resets, trapped, queries>>

-----------------------------------------------------------------------------
(* The performance counters (register_counters.cpp): a query of the counts  *)
(* or the times enables measurements first; each may reset what it returns. *)
Query(counter) ==
    /\ queries < MaxQueries
    /\ queries' = queries + 1
    /\ resets' = resets \cup {counter}

Reinit ==
    /\ ~measurements_enabled
    /\ measurements_enabled' = TRUE
    /\ UNCHANGED <<eval_count, eval_duration, execute_directly, at, reg, timer,
                   begun, spent, timed, resets, trapped, queries>>

ResetCount ==
    /\ Query("count")
    /\ measurements_enabled
    /\ eval_count' = 0
    /\ UNCHANGED <<eval_duration, execute_directly, measurements_enabled, at,
                   reg, timer, begun, spent, timed, trapped>>

ResetDuration ==
    /\ Query("duration")
    /\ measurements_enabled
    /\ eval_duration' = 0
    /\ UNCHANGED <<eval_count, execute_directly, measurements_enabled, at, reg,
                   timer, begun, spent, timed, trapped>>

ResetDirect ==
    /\ Query("direct")
    /\ execute_directly' = 0
    /\ UNCHANGED <<eval_count, eval_duration, measurements_enabled, at, reg,
                   timer, begun, spent, timed, trapped>>

-----------------------------------------------------------------------------
DirectInit ==
    /\ eval_count = 0
    /\ eval_duration = 0
    /\ execute_directly = IF EvalDirect THEN 1 ELSE -1
    /\ measurements_enabled = FALSE
    /\ at = [e \in Evals |-> "idle"]
    /\ reg = [e \in Evals |-> 0]
    /\ timer = [e \in Evals |-> {}]
    /\ begun = 0
    /\ spent = 0
    /\ timed = [e \in Evals |-> 0]
    /\ resets = {}
    /\ trapped = FALSE
    /\ queries = 0

Evaluate(e) ==
    \/ Select(e) \/ Average(e) \/ DoEval(e) \/ Count(e) \/ EvalReady(e)
    \/ KeepAlive(e) \/ ScopeEnd(e) \/ Continuation(e) \/ AddDuration(e)

(* An integer division by zero ends the process.                            *)
DirectNext ==
    /\ ~trapped
    /\ \/ \E e \in Evals : Evaluate(e)
       \/ Reinit \/ ResetCount \/ ResetDuration \/ ResetDirect

DirectSpec == DirectInit /\ [][DirectNext]_directVars

-----------------------------------------------------------------------------
Stages ==
    {"idle", "average", "enter", "count", "eval", "scope_end", "pending", "add"}

DirectTypeOK ==
    /\ eval_count \in Nat
    /\ eval_duration \in Nat
    /\ execute_directly \in {-1, 0, 1}
    /\ measurements_enabled \in BOOLEAN
    /\ at \in [Evals -> Stages]
    /\ reg \in [Evals -> Nat]
    /\ timer \in [Evals -> SUBSET {"do_eval", "continuation"}]
    /\ \A e \in Evals :
        /\ at[e] \in {"idle", "average", "enter"} => timer[e] = {}
        /\ at[e] = "pending" => timer[e] = {"continuation"}
    /\ begun \in Nat
    /\ spent \in Nat
    /\ timed \in [Evals -> Nat]
    /\ resets \subseteq {"count", "duration", "direct"}
    /\ trapped \in BOOLEAN
    /\ queries \in Nat

(* The average is divided by a count that was compared with zero before:    *)
(* it is zero only if a query has reset the count in between, whatever      *)
(* increments are lost and whichever other counters are reset.              *)
DividesByZeroOnlyAfterReset == trapped => "count" \in resets

(* Lost updates and resets lower the counters only: neither ever exceeds    *)
(* what evaluations have contributed, and each contributes at most once.    *)
NothingCountedTwice ==
    /\ eval_count <= begun
    /\ eval_duration <= spent
    /\ \A e \in Evals : timed[e] <= 1

(* A primitive whose decision was reset by a query before it had evaluated  *)
(* often enough is no longer measured, so it never decides again: it stays  *)
(* asynchronous until somebody enables measurements.                        *)
Pinned ==
    /\ execute_directly = 0
    /\ ~measurements_enabled
    /\ eval_count <= EcThreshold
    /\ \A e \in Evals : at[e] \notin {"average", "count"}

PinnedStaysPinned ==
    [][Pinned => Pinned' \/ measurements_enabled']_directVars
=============================================================================
