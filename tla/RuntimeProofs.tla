---------------------------- MODULE RuntimeProofs ----------------------------
(***************************************************************************)
(* Proofs about what evaluations run on.                                   *)
(*                                                                         *)
(* PythonSession: what hpx_main and the threads that stop the runtime rely *)
(* on for any number of Python threads and workers, and, if one thread     *)
(* starts and stops the runtime, that the global pointer tells whether it  *)
(* runs.                                                                   *)
(*                                                                         *)
(* DirectExecution, for any number of evaluations at a time, any           *)
(* thresholds and durations: what the counters can be in spite of lost     *)
(* updates, when the average is divided by zero, and that a primitive      *)
(* whose decision was reset stays asynchronous.                            *)
(***************************************************************************)
EXTENDS PythonSession, DirectExecution, FiniteSetTheorems, TLAPS

-----------------------------------------------------------------------------
(* The session.                                                             *)
USE PythonSessionAssumption

-----------------------------------------------------------------------------
(* A manager being destroyed is one that was made, hpx_main runs only while *)
(* HPX does, and the current manager is not deleted before its end.         *)
ManagerInv ==
    /\ rts \in 0..objects
    /\ \A t \in Threads : manager[t] \in 0..objects
    /\ \A t \in Threads :
        pc[t] \in {"destroy", "notify", "stopping"} => manager[t] # 0
    /\ freed \subseteq 1..objects
    /\ main # "done" => hpx = "running" /\ objects \notin freed

SessionInv == SessionTypeOK /\ ManagerInv

(* The state of a thread is that of no other one.                           *)
LEMMA InitSessionInv == SessionInit => SessionInv
<1> SUFFICES ASSUME SessionInit PROVE SessionInv
  OBVIOUS
<1> USE DEF SessionInit
<1>1. /\ gil \in Threads \cup {Main, None}
      /\ gil \in Threads => pc[gil] \in InPython \cup {"stop"}
      /\ gil = Main => main \in {"gil1", "gil2"}
  OBVIOUS
<1>2. pc \in [Threads -> Places] /\ by_session \in [Threads -> BOOLEAN]
  BY DEF Places
<1>3. /\ calls \in [Threads -> 0..MaxCalls]
      /\ manager \in [Threads -> 0..MaxObjects]
      /\ task \in [Threads -> {"none", "ready", "running", "called", "done"}]
  OBVIOUS
<1>4. /\ is_initialized \in BOOLEAN /\ rts_ \in BOOLEAN
      /\ running_ \in BOOLEAN /\ aborted \in BOOLEAN
      /\ hpx \in {"running", "stopping", "stopped"}
      /\ main \in {"begin", "waiting", "woken", "done"} \cup AtWorker
  BY Zenon
<1>5. /\ rts \in 0..MaxObjects /\ objects \in 0..MaxObjects
      /\ freed \subseteq 1..MaxObjects
  OBVIOUS
<1>6. SessionTypeOK
  <2> HIDE DEF SessionInit
  <2> QED
    BY <1>1, <1>2, <1>3, <1>4, <1>5, Zenon DEF SessionTypeOK
<1>7. ManagerInv
  BY DEF ManagerInv
<1>8. QED
  BY <1>6, <1>7 DEF SessionInv

-----------------------------------------------------------------------------
(* The GIL changes hands between the instructions of Python code.           *)
LEMMA GilIInv ==
    ASSUME SessionInv, NEW t \in Threads,
           TakeGil(t) \/ DropGil(t) \/ Reacquire(t)
    PROVE  SessionInv'
<1>1. CASE TakeGil(t)
  BY <1>1 DEF SessionInv, SessionTypeOK, ManagerInv, TakeGil, threadVars, mainVars
<1>2. CASE DropGil(t)
  BY <1>2 DEF SessionInv, SessionTypeOK, ManagerInv, DropGil, threadVars, mainVars
<1>3. CASE Reacquire(t)
  <2>1. Back(pc[t]) \in Places \cap InPython
    BY <1>3 DEF Reacquire, Back, Places, InPython
  <2>2. Back(pc[t]) \notin {"destroy", "notify", "stopping"}
    BY <1>3 DEF Reacquire, Back
  <2>3. QED
    BY <1>3, <2>1, <2>2 DEF SessionInv, SessionTypeOK, ManagerInv, Reacquire, Goto,
       mainVars
<1>4. QED
  BY <1>1, <1>2, <1>3

(* A thread calls into Phylanx.                                             *)
LEMMA CallingIInv ==
    ASSUME SessionInv, NEW t \in Threads, Calling(t)
    PROVE  SessionInv'
<1>1. ASSUME NEW session \in BOOLEAN, CallInit(t, session) PROVE SessionInv'
  BY <1>1 DEF SessionInv, SessionTypeOK, ManagerInv, CallInit, Call, Goto, mainVars,
     Places, InPython
<1>2. CASE CallStop(t)
  BY <1>2 DEF SessionInv, SessionTypeOK, ManagerInv, CallStop, Call, Goto, mainVars,
     Places, InPython
<1>3. CASE CallEvaluate(t)
  BY <1>3 DEF SessionInv, SessionTypeOK, ManagerInv, CallEvaluate, Call, Goto,
     mainVars, Places, InPython
<1>4. QED
  BY <1>1, <1>2, <1>3 DEF Calling

(* init_hpx_runtime                                                         *)
LEMMA StartingIInv ==
    ASSUME SessionInv, NEW t \in Threads, Starting(t)
    PROVE  SessionInv'
<1> USE DEF SessionInv, SessionTypeOK, ManagerInv, Goto, mainVars, Places, InPython
<1>1. CASE InitRuntime(t)
  BY <1>1 DEF InitRuntime
<1>2. CASE Start(t) /\ hpx = "stopped"
  <2>1. /\ objects + 1 \in 1..MaxObjects
        /\ objects' = objects + 1
        /\ main' = "begin" /\ hpx' = "running"
        /\ manager' = [manager EXCEPT ![t] = objects + 1]
        /\ pc' = [pc EXCEPT ![t] = "starting"]
        /\ rts_' = FALSE /\ running_' = FALSE
        /\ gil \in Threads => gil # t
        /\ UNCHANGED <<gil, calls, by_session, is_initialized, rts, freed,
                       task, aborted>>
    BY <1>2 DEF Start, Construct
  <2>2. main = "done"
    BY <1>2
  <2>3. SessionTypeOK'
    <3>1. /\ gil' \in Threads => pc'[gil'] \in InPython \cup {"stop"}
          /\ gil' # Main
      BY <2>1, <2>2
    <3>2. pc' \in [Threads -> Places] /\ manager' \in [Threads -> 0..MaxObjects]
      BY <2>1
    <3>3. objects' \in 0..MaxObjects
      BY <2>1
    <3>4. /\ main' \in {"begin", "waiting", "woken", "done"} \cup AtWorker
          /\ hpx' \in {"running", "stopping", "stopped"}
          /\ rts_' \in BOOLEAN /\ running_' \in BOOLEAN
      BY <2>1, Zenon
    <3>5. /\ gil' \in Threads \cup {Main, None}
          /\ calls' \in [Threads -> 0..MaxCalls]
          /\ by_session' \in [Threads -> BOOLEAN]
          /\ is_initialized' \in BOOLEAN /\ aborted' \in BOOLEAN
          /\ rts' \in 0..MaxObjects /\ freed' \subseteq 1..MaxObjects
          /\ task' \in [Threads -> {"none", "ready", "running", "called", "done"}]
      BY <2>1
    <3>6. QED
      BY <3>1, <3>2, <3>3, <3>4, <3>5, Zenon
  <2>4. /\ freed' \subseteq 1..objects /\ objects' \notin freed'
        /\ rts' \in 0..objects
    BY <2>1
  <2>5. \A u \in Threads :
            /\ manager'[u] \in 0..objects'
            /\ pc'[u] \in {"destroy", "notify", "stopping"} => manager'[u] # 0
    BY <2>1
  <2>6. ManagerInv'
    BY <2>1, <2>4, <2>5
  <2>7. QED
    BY <2>3, <2>6
<1>3. CASE Start(t) /\ hpx # "stopped"
  BY <1>3 DEF Start, BailOut
<1>4. CASE Started(t)
  BY <1>4 DEF Started
<1>5. CASE AssignRts(t)
  BY <1>5 DEF AssignRts
<1>6. CASE Initialized(t)
  BY <1>6 DEF Initialized
<1>7. QED
  BY <1>1, <1>2, <1>3, <1>4, <1>5, <1>6 DEF Starting

(* stop_hpx_runtime                                                         *)
LEMMA StoppingIInv ==
    ASSUME SessionInv, NEW t \in Threads, Stopping(t)
    PROVE  SessionInv'
<1> USE DEF SessionInv, SessionTypeOK, ManagerInv, Goto, mainVars, Places, InPython
<1>1. CASE ResetRts(t)
  BY <1>1 DEF ResetRts
<1>2. CASE Destroy(t)
  BY <1>2 DEF Destroy
<1>3. CASE Notify(t)
  BY <1>3 DEF Notify, AtWorker
<1>4. CASE Stopped(t)
  <2>1. manager[t] \in 1..objects /\ main = "done"
    BY <1>4 DEF Stopped
  <2>2. freed' \subseteq 1..objects
    BY <1>4, <2>1 DEF Stopped
  <2>3. SessionTypeOK'
    BY <1>4, <2>2 DEF Stopped
  <2>4. ManagerInv'
    BY <1>4, <2>1, <2>2 DEF Stopped
  <2>5. QED
    BY <2>3, <2>4
<1>5. QED
  BY <1>1, <1>2, <1>3, <1>4 DEF Stopping

(* expression_evaluator                                                     *)
LEMMA EvaluatingIInv ==
    ASSUME SessionInv, NEW t \in Threads, Evaluating(t) \/ Converting(t)
    PROVE  SessionInv'
<1> USE DEF SessionInv, SessionTypeOK, ManagerInv, Goto, threadVars, mainVars, Places,
            InPython
<1>1. CASE Submit(t)
  BY <1>1 DEF Submit
<1>2. CASE SubmitFails(t)
  BY <1>2 DEF SubmitFails
<1>3. CASE TaskRuns(t)
  BY <1>3 DEF TaskRuns
<1>4. CASE Evaluated(t)
  BY <1>4 DEF Evaluated
<1>5. CASE TaskTakesArguments(t)
  BY <1>5 DEF TaskTakesArguments
<1>6. CASE TaskConverts(t)
  BY <1>6 DEF TaskConverts
<1>7. QED
  BY <1>1, <1>2, <1>3, <1>4, <1>5, <1>6 DEF Evaluating, Converting

(* hpx_main, and the end of the runtime                                     *)
LEMMA MainIInv ==
    ASSUME SessionInv, HpxMain \/ MainTakeGil \/ RuntimeExits
    PROVE  SessionInv'
<1> USE DEF SessionInv, SessionTypeOK, ManagerInv, threadVars, AtWorker
<1>1. CASE MainBegin
  BY <1>1 DEF MainBegin
<1>2. CASE MainTakeGil
  BY <1>2 DEF MainTakeGil, mainVars
<1>3. CASE MainDropGil
  BY <1>3 DEF MainDropGil
<1>4. CASE MainWait
  BY <1>4 DEF MainWait
<1>5. CASE MainResume
  BY <1>5 DEF MainResume
<1>6. CASE Finalize
  BY <1>6 DEF Finalize
<1>7. CASE RuntimeExits
  BY <1>7 DEF RuntimeExits, mainVars
<1>8. QED
  BY <1>1, <1>2, <1>3, <1>4, <1>5, <1>6, <1>7 DEF HpxMain

LEMMA NextIInv == SessionInv /\ [SessionNext]_sessionVars => SessionInv'
<1> SUFFICES ASSUME SessionInv, [SessionNext]_sessionVars PROVE SessionInv'
  OBVIOUS
<1>1. CASE UNCHANGED sessionVars
  BY <1>1 DEF sessionVars, threadVars, mainVars, SessionInv, SessionTypeOK, ManagerInv
<1>2. CASE SessionNext
  BY <1>2, GilIInv, CallingIInv, StartingIInv, StoppingIInv, EvaluatingIInv,
     MainIInv DEF SessionNext
<1>3. QED
  BY <1>1, <1>2

-----------------------------------------------------------------------------
(* The invariant of any session.                                            *)
THEOREM SessionInvariant == SessionSpec => []SessionInv
BY InitSessionInv, NextIInv, PTL DEF SessionSpec

(* The GIL has one holder, and all places, pointers and flags are those the *)
(* code has, whoever starts and stops the runtime.                          *)
THEOREM SessionTypeCorrect == SessionSpec => []SessionTypeOK
<1>1. SessionInv => SessionTypeOK
  BY DEF SessionInv
<1>2. QED
  BY <1>1, SessionInvariant, PTL

(* No manager is deleted while its hpx_main still uses it, even if several  *)
(* threads start and stop the runtime at the same time.                     *)
THEOREM MainUsesLiveManager == SessionSpec => []ManagerOutlivesMain
<1>1. SessionInv => ManagerOutlivesMain
  BY DEF SessionInv, ManagerInv, ManagerOutlivesMain
<1>2. QED
  BY <1>1, SessionInvariant, PTL

-----------------------------------------------------------------------------
(* One thread, s, starts and stops the runtime.                             *)

(* hpx_main has not been told to end.                                       *)
Alive ==
    /\ hpx = "running"
    /\ main \in {"begin", "gil1", "check", "waiting"}
    /\ main # "begin" => rts_

(* The global pointer tells whether HPX runs.                               *)
Told == IF rts = 0 THEN hpx = "stopped" ELSE rts = objects /\ Alive

(* Where s is in the life of the runtime; the other threads only evaluate.  *)
Phase(s) ==
    /\ \A t \in Threads \ {s} : pc[t] \in {"python", "submit", "evaluating", "regil"}
    /\ pc[s] = "start" => rts = 0 /\ hpx = "stopped"
    /\ pc[s] \in {"starting", "assign"} =>
            rts = 0 /\ manager[s] = objects /\ objects # 0 /\ Alive
    /\ pc[s] = "stop" => manager[s] = rts
    /\ pc[s] = "destroy" => rts = 0 /\ manager[s] = objects /\ Alive
    /\ pc[s] \in {"notify", "stopping"} => rts = 0
    /\ pc[s] \notin {"start", "starting", "assign", "destroy", "notify", "stopping"}
            => Told
    /\ ~aborted

(* Evaluations, and the threads that take turns with the GIL, leave the     *)
(* runtime alone.                                                           *)
LEMMA OthersPhase ==
    ASSUME SessionInv, NEW s \in Threads, Starters = {s}, Phase(s), NEW t \in Threads,
           \/ TakeGil(t) \/ DropGil(t) \/ Reacquire(t) \/ CallEvaluate(t)
           \/ Evaluating(t) \/ Converting(t)
    PROVE  Phase(s)'
<1>1. /\ UNCHANGED <<rts, hpx, main, rts_, objects, manager, aborted>>
      /\ pc' = pc \/ \E p \in Places : pc' = [pc EXCEPT ![t] = p]
  BY DEF TakeGil, DropGil, Reacquire, CallEvaluate, Call, Evaluating, Submit,
     SubmitFails, TaskRuns, Evaluated, Converting, TaskTakesArguments, TaskConverts,
     Goto, threadVars, mainVars,
     Places, Back
<1>2. Told' = Told /\ Alive' = Alive
  BY <1>1 DEF Told, Alive
<1>3. CASE pc' = pc
  BY <1>1, <1>2, <1>3 DEF Phase
<1>4. ASSUME pc' # pc
      PROVE  /\ pc[t] \in {"regil_init", "regil", "python", "submit", "evaluating"}
             /\ pc' = [pc EXCEPT ![t] = pc'[t]]
             /\ pc'[t] \in {"initialized", "python", "submit", "evaluating", "regil"}
             /\ pc[t] = "regil_init" \/ pc'[t] # "initialized"
  BY <1>4 DEF SessionInv, SessionTypeOK, TakeGil, DropGil, Reacquire, CallEvaluate, Call,
     Evaluating, Submit, SubmitFails, TaskRuns, Evaluated, Converting,
     TaskTakesArguments, TaskConverts, Goto,
     threadVars, mainVars, Back
<1>5. CASE pc' # pc
  BY <1>1, <1>2, <1>4, <1>5 DEF Phase, SessionInv, SessionTypeOK
<1>6. QED
  BY <1>3, <1>5

(* A thread that starts or stops the runtime is s.                          *)
LEMMA StarterIsS ==
    ASSUME SessionInv, NEW s \in Threads, Starters = {s}, Phase(s), NEW t \in Threads,
           CallInit(t, TRUE) \/ CallInit(t, FALSE) \/ CallStop(t) \/ Starting(t)
               \/ Stopping(t)
    PROVE  t = s
BY DEF CallInit, CallStop, Starting, Stopping, InitRuntime, Start, Started,
   AssignRts, Initialized, ResetRts, Destroy, Notify, Stopped, Phase

(* Starting the runtime, and stopping it.                                   *)
LEMMA CallPhase ==
    ASSUME SessionInv, NEW s \in Threads, Starters = {s}, Phase(s),
           CallInit(s, TRUE) \/ CallInit(s, FALSE) \/ CallStop(s)
    PROVE  Phase(s)'
<1>1. CASE CallInit(s, TRUE) \/ CallInit(s, FALSE)
  BY <1>1 DEF CallInit, Call, Goto, mainVars, Phase, Told, Alive, SessionInv,
     SessionTypeOK
<1>2. CASE CallStop(s)
  BY <1>2 DEF CallStop, Call, Goto, mainVars, Phase, Told, Alive, SessionInv,
     SessionTypeOK
<1>3. QED
  BY <1>1, <1>2

LEMMA StartPhase ==
    ASSUME SessionInv, NEW s \in Threads, Starters = {s}, Phase(s), Starting(s)
    PROVE  Phase(s)'
<1> USE DEF Goto, mainVars, Phase, Told, Alive, SessionInv, SessionTypeOK
<1>1. CASE InitRuntime(s)
  BY <1>1 DEF InitRuntime
<1>2. CASE Start(s)
  BY <1>2 DEF Start, Construct
<1>3. CASE Started(s)
  BY <1>3 DEF Started
<1>4. CASE AssignRts(s)
  BY <1>4 DEF AssignRts
<1>5. CASE Initialized(s)
  BY <1>5 DEF Initialized
<1>6. QED
  BY <1>1, <1>2, <1>3, <1>4, <1>5 DEF Starting

LEMMA StopPhase ==
    ASSUME SessionInv, NEW s \in Threads, Starters = {s}, Phase(s), Stopping(s)
    PROVE  Phase(s)'
<1> USE DEF Goto, mainVars, Phase, Told, Alive, SessionInv, SessionTypeOK
<1>1. CASE ResetRts(s)
  BY <1>1 DEF ResetRts
<1>2. CASE Destroy(s)
  BY <1>2 DEF Destroy
<1>3. CASE Notify(s)
  BY <1>3 DEF Notify
<1>4. CASE Stopped(s)
  BY <1>4 DEF Stopped
<1>5. QED
  BY <1>1, <1>2, <1>3, <1>4 DEF Stopping

(* hpx_main ends when the destructor has reset its pointer only.            *)
LEMMA MainPhase ==
    ASSUME SessionInv, NEW s \in Threads, Starters = {s}, Phase(s),
           HpxMain \/ MainTakeGil \/ RuntimeExits
    PROVE  Phase(s)'
<1> USE DEF Phase, Told, Alive, SessionInv, SessionTypeOK, threadVars
<1>1. CASE MainBegin
  BY <1>1 DEF MainBegin
<1>2. CASE MainTakeGil
  BY <1>2 DEF MainTakeGil, mainVars
<1>3. CASE MainDropGil
  BY <1>3 DEF MainDropGil
<1>4. CASE MainWait
  <2>1. CASE rts_
    BY <1>4, <2>1 DEF MainWait
  <2>2. CASE ~rts_
    <3>1. ~Alive /\ (rts # 0 => ~Told)
      BY <1>4, <2>2 DEF MainWait
    <3>2. QED
      BY <1>4, <2>2, <3>1 DEF MainWait
  <2>3. QED
    BY <2>1, <2>2
<1>5. CASE MainResume
  <2>1. ~Alive /\ ~Alive' /\ (rts # 0 => ~Told)
    BY <1>5 DEF MainResume
  <2>2. hpx' = hpx /\ rts' = rts /\ pc' = pc
    BY <1>5 DEF MainResume
  <2>3. QED
    BY <1>5, <2>1, <2>2 DEF MainResume
<1>6. CASE Finalize
  <2>1. ~Alive /\ (rts # 0 => ~Told) /\ hpx = "running"
    BY <1>6 DEF Finalize, ManagerInv
  <2>2. QED
    BY <1>6, <2>1 DEF Finalize
<1>7. CASE RuntimeExits
  BY <1>7 DEF RuntimeExits, mainVars
<1>8. QED
  BY <1>1, <1>2, <1>3, <1>4, <1>5, <1>6, <1>7 DEF HpxMain

LEMMA NextPhase ==
    ASSUME NEW s \in Threads, Starters = {s}, SessionInv, Phase(s),
           [SessionNext]_sessionVars
    PROVE  Phase(s)'
<1>1. CASE UNCHANGED sessionVars
  BY <1>1 DEF sessionVars, threadVars, mainVars, Phase, Told, Alive
<1>2. CASE HpxMain \/ MainTakeGil \/ RuntimeExits
  BY <1>2, MainPhase
<1>3. ASSUME NEW t \in Threads,
             Calling(t) \/ Starting(t) \/ Stopping(t)
      PROVE  Phase(s)'
  <2>1. CASE CallEvaluate(t)
    BY <2>1, OthersPhase
  <2>2. CASE CallInit(t, TRUE) \/ CallInit(t, FALSE) \/ CallStop(t) \/ Starting(t)
                 \/ Stopping(t)
    <3>1. t = s
      BY <2>2, StarterIsS
    <3>2. QED
      BY <2>2, <3>1, CallPhase, StartPhase, StopPhase
  <2>3. QED
    BY <1>3, <2>1, <2>2 DEF Calling
<1>4. ASSUME NEW t \in Threads,
             TakeGil(t) \/ DropGil(t) \/ Reacquire(t) \/ Evaluating(t)
                 \/ Converting(t)
      PROVE  Phase(s)'
  BY <1>4, OthersPhase
<1>5. QED
  BY <1>1, <1>2, <1>3, <1>4 DEF SessionNext

LEMMA InitPhase ==
    ASSUME NEW s \in Threads
    PROVE  SessionInit => Phase(s)
BY DEF SessionInit, Phase, Told, Alive

(* If one thread starts and stops the runtime, Phase holds of it always.    *)
THEOREM PhaseInvariant ==
    ASSUME NEW s \in Threads, Starters = {s}
    PROVE  SessionSpec => []Phase(s)
<1>1. SessionInit => Phase(s)
  BY InitPhase
<1>2. SessionInv /\ Phase(s) /\ [SessionNext]_sessionVars => Phase(s)'
  BY NextPhase
<1>3. QED
  BY <1>1, <1>2, SessionInvariant, PTL DEF SessionSpec

(* If one thread starts and stops the runtime, HPX runs exactly while the   *)
(* global pointer is there, whenever no call is under way.                  *)
THEOREM PointerTells ==
    ASSUME NEW s \in Threads, Starters = {s}
    PROVE  SessionSpec => []RunsWhilePointedTo
<1>1. Phase(s) => RunsWhilePointedTo
  BY DEF Phase, Told, Alive, RunsWhilePointedTo, Quiet
<1>2. QED
  BY <1>1, PhaseInvariant, PTL

-----------------------------------------------------------------------------
(* Direct execution.                                                        *)
USE DirectExecutionAssumption

-----------------------------------------------------------------------------
(* Evaluations that have begun and are not counted yet.                     *)
Uncounted == {e \in Evals : at[e] \in {"average", "enter", "count"}}

(* The count and what evaluations have loaded of it leave room for those.   *)
CountInv ==
    /\ eval_count + Cardinality(Uncounted) <= begun
    /\ \A e \in Evals :
        at[e] = "count" => reg[e] + Cardinality(Uncounted) <= begun

(* An evaluation has one timer at most, and is timed when it ends.          *)
TimerInv ==
    \A e \in Evals :
        /\ timer[e] \in {{}, {"do_eval"}, {"continuation"}}
        /\ at[e] # "idle" => timed[e] = 0
        /\ timed[e] <= 1

DurationInv ==
    /\ eval_duration <= spent
    /\ \A e \in Evals : at[e] = "add" => reg[e] <= spent

(* An evaluation on its way to the division has seen a count.               *)
DivisionInv ==
    /\ trapped => "count" \in resets
    /\ \A e \in Evals :
        at[e] = "average" => eval_count # 0 \/ "count" \in resets

LEMMA DirectInitType == DirectInit => DirectTypeOK
<1> SUFFICES ASSUME DirectInit PROVE DirectTypeOK
  OBVIOUS
<1>1. /\ eval_count \in Nat /\ eval_duration \in Nat
      /\ begun \in Nat /\ spent \in Nat /\ queries \in Nat
      /\ execute_directly \in {-1, 0, 1}
  BY DEF DirectInit
<1>2. /\ measurements_enabled \in BOOLEAN /\ trapped \in BOOLEAN
      /\ resets \subseteq {"count", "duration", "direct"}
  BY Zenon DEF DirectInit
<1>3. /\ at \in [Evals -> Stages]
      /\ reg \in [Evals -> Nat]
      /\ timer \in [Evals -> SUBSET {"do_eval", "continuation"}]
      /\ timed \in [Evals -> Nat]
      /\ \A e \in Evals : at[e] = "idle" /\ timer[e] = {}
  BY DEF DirectInit, Stages
<1>4. QED
  BY <1>1, <1>2, <1>3, Zenon DEF DirectTypeOK

LEMMA DirectNextType == DirectTypeOK /\ [DirectNext]_directVars => DirectTypeOK'
<1> SUFFICES ASSUME DirectTypeOK, [DirectNext]_directVars PROVE DirectTypeOK'
  OBVIOUS
<1> USE DEF DirectTypeOK, Advance, counters, Stages
<1>1. CASE UNCHANGED directVars
  BY <1>1 DEF directVars
<1>2. ASSUME NEW e \in Evals, Select(e) PROVE DirectTypeOK'
  BY <1>2 DEF Select
<1>3. ASSUME NEW e \in Evals, Average(e) PROVE DirectTypeOK'
  BY <1>3 DEF Average, Decision
<1>4. ASSUME NEW e \in Evals, DoEval(e) PROVE DirectTypeOK'
  BY <1>4 DEF DoEval
<1>5. ASSUME NEW e \in Evals, Count(e) PROVE DirectTypeOK'
  BY <1>5 DEF Count
<1>6. ASSUME NEW e \in Evals, EvalReady(e) PROVE DirectTypeOK'
  BY <1>6 DEF EvalReady
<1>7. ASSUME NEW e \in Evals, KeepAlive(e) PROVE DirectTypeOK'
  BY <1>7 DEF KeepAlive
<1>8. ASSUME NEW e \in Evals, ScopeEnd(e) PROVE DirectTypeOK'
  BY <1>8 DEF ScopeEnd, Rest
<1>9. ASSUME NEW e \in Evals, Continuation(e) PROVE DirectTypeOK'
  BY <1>9 DEF Continuation
<1>10. ASSUME NEW e \in Evals, AddDuration(e) PROVE DirectTypeOK'
  BY <1>10 DEF AddDuration, Rest
<1>11. CASE Reinit
  BY <1>11 DEF Reinit
<1>12. CASE ResetCount
  BY <1>12 DEF ResetCount, Query
<1>13. CASE ResetDuration
  BY <1>13 DEF ResetDuration, Query
<1>14. CASE ResetDirect
  BY <1>14 DEF ResetDirect, Query
<1>15. QED
  BY <1>1, <1>2, <1>3, <1>4, <1>5, <1>6, <1>7, <1>8, <1>9, <1>10, <1>11,
     <1>12, <1>13, <1>14 DEF DirectNext, Evaluate

(* The counters, the decision and the places of the evaluations keep their  *)
(* types, and an evaluation that waits for its result has the timer for it. *)
THEOREM DirectTypeCorrect == DirectSpec => []DirectTypeOK
BY DirectInitType, DirectNextType, PTL DEF DirectSpec

-----------------------------------------------------------------------------
LEMMA NextDivision ==
    DirectTypeOK /\ DivisionInv /\ [DirectNext]_directVars => DivisionInv'
<1> SUFFICES ASSUME DirectTypeOK, DivisionInv, [DirectNext]_directVars
             PROVE  DivisionInv'
  OBVIOUS
<1> USE DEF DirectTypeOK, DivisionInv, Advance, counters, Stages
<1>1. CASE UNCHANGED directVars
  BY <1>1 DEF directVars
<1>2. ASSUME NEW e \in Evals, Select(e) PROVE DivisionInv'
  BY <1>2 DEF Select, Averages
<1>3. ASSUME NEW e \in Evals, Average(e) PROVE DivisionInv'
  BY <1>3 DEF Average
<1>4. ASSUME NEW e \in Evals, DoEval(e) PROVE DivisionInv'
  BY <1>4 DEF DoEval
<1>5. ASSUME NEW e \in Evals, Count(e) PROVE DivisionInv'
  BY <1>5 DEF Count
<1>6. ASSUME NEW e \in Evals,
             EvalReady(e) \/ KeepAlive(e) \/ ScopeEnd(e) \/ Continuation(e)
      PROVE  DivisionInv'
  BY <1>6 DEF EvalReady, KeepAlive, ScopeEnd, Rest, Continuation
<1>7. ASSUME NEW e \in Evals, AddDuration(e) PROVE DivisionInv'
  BY <1>7 DEF AddDuration, Rest
<1>8. CASE Reinit \/ ResetCount \/ ResetDuration \/ ResetDirect
  BY <1>8 DEF Reinit, ResetCount, ResetDuration, ResetDirect, Query
<1>9. QED
  BY <1>1, <1>2, <1>3, <1>4, <1>5, <1>6, <1>7, <1>8 DEF DirectNext, Evaluate

(* The average execution time is divided by zero only after a query has     *)
(* reset the count, for any thresholds and any evaluations at a time.       *)
THEOREM DivisionGuarded == DirectSpec => []DividesByZeroOnlyAfterReset
<1>1. DirectInit => DivisionInv
  BY DEF DirectInit, DivisionInv
<1>2. DivisionInv => DividesByZeroOnlyAfterReset
  BY DEF DivisionInv, DividesByZeroOnlyAfterReset
<1>3. QED
  BY <1>1, <1>2, NextDivision, DirectTypeCorrect, PTL DEF DirectSpec

-----------------------------------------------------------------------------
(* A primitive whose decision was reset before it had evaluated often       *)
(* enough is asynchronous until measurements are enabled.                   *)
THEOREM StaysPinned == DirectSpec => PinnedStaysPinned
<1>1. ASSUME DirectTypeOK, [DirectNext]_directVars, Pinned
      PROVE  Pinned' \/ measurements_enabled'
  <2> USE DEF DirectTypeOK, Pinned, Advance, counters, Stages
  <2>1. CASE UNCHANGED directVars
    BY <1>1, <2>1 DEF directVars
  <2>2. ASSUME NEW e \in Evals, Select(e) PROVE Pinned'
    BY <1>1, <2>2 DEF Select, Averages
  <2>3. ASSUME NEW e \in Evals, Average(e) \/ Count(e) PROVE FALSE
    BY <1>1, <2>3 DEF Average, Count
  <2>4. ASSUME NEW e \in Evals, DoEval(e) PROVE Pinned'
    BY <1>1, <2>4 DEF DoEval
  <2>5. ASSUME NEW e \in Evals,
               EvalReady(e) \/ KeepAlive(e) \/ ScopeEnd(e) \/ Continuation(e)
        PROVE  Pinned'
    BY <1>1, <2>5 DEF EvalReady, KeepAlive, ScopeEnd, Rest, Continuation
  <2>6. ASSUME NEW e \in Evals, AddDuration(e) PROVE Pinned'
    BY <1>1, <2>6 DEF AddDuration, Rest
  <2>7. CASE Reinit \/ ResetCount \/ ResetDuration \/ ResetDirect
    BY <1>1, <2>7 DEF Reinit, ResetCount, ResetDuration, ResetDirect, Query
  <2>8. QED
    BY <1>1, <2>1, <2>2, <2>3, <2>4, <2>5, <2>6, <2>7 DEF DirectNext, Evaluate
<1>2. DirectTypeOK /\ [DirectNext]_directVars
        => [Pinned => Pinned' \/ measurements_enabled']_directVars
  BY <1>1
<1>3. QED
  BY <1>2, DirectTypeCorrect, PTL DEF DirectSpec, PinnedStaysPinned

-----------------------------------------------------------------------------
(* Uncounted is finite, and its size goes with the places of evaluations.   *)
LEMMA UncountedFinite == IsFiniteSet(Uncounted) /\ Cardinality(Uncounted) \in Nat
<1>1. IsFiniteSet(Uncounted)
  BY FS_Subset DEF Uncounted
<1>2. QED
  BY <1>1, FS_CardinalityType

LEMMA UncountedFinitePrime ==
    IsFiniteSet(Uncounted') /\ Cardinality(Uncounted') \in Nat
<1>1. Uncounted' \subseteq Evals
  BY DEF Uncounted
<1>2. IsFiniteSet(Uncounted')
  BY <1>1, FS_Subset
<1>3. QED
  BY <1>2, FS_CardinalityType

(* An evaluation that begins is one more.                                   *)
LEMMA UncountedBegins ==
    ASSUME DirectTypeOK, NEW e \in Evals, NEW place \in {"average", "enter"},
           at[e] = "idle", at' = [at EXCEPT ![e] = place]
    PROVE  Cardinality(Uncounted') = Cardinality(Uncounted) + 1
<1>1. Uncounted' = Uncounted \cup {e} /\ e \notin Uncounted
  BY DEF Uncounted, DirectTypeOK
<1>2. QED
  BY <1>1, UncountedFinite, FS_AddElement

(* One that is counted, or not to be counted, is one less.                  *)
LEMMA UncountedEnds ==
    ASSUME DirectTypeOK, NEW e \in Evals,
           at[e] \in {"enter", "count"}, at' = [at EXCEPT ![e] = "eval"]
    PROVE  Cardinality(Uncounted) = Cardinality(Uncounted') + 1
<1>1. Uncounted' = Uncounted \ {e} /\ e \in Uncounted
  BY DEF Uncounted, DirectTypeOK
<1>2. Cardinality(Uncounted \ {e}) = Cardinality(Uncounted) - 1
  BY <1>1, UncountedFinite, FS_RemoveElement
<1>3. QED
  BY <1>1, <1>2, UncountedFinite

(* Other steps leave them alone.                                            *)
LEMMA UncountedStays ==
    ASSUME DirectTypeOK, NEW e \in Evals, NEW place \in Stages,
           at[e] \in {"average", "enter", "count"}
               <=> place \in {"average", "enter", "count"},
           at' = [at EXCEPT ![e] = place]
    PROVE  Uncounted' = Uncounted
BY DEF Uncounted, DirectTypeOK

LEMMA NextCount ==
    DirectTypeOK /\ CountInv /\ [DirectNext]_directVars => CountInv'
<1> SUFFICES ASSUME DirectTypeOK, CountInv, [DirectNext]_directVars
             PROVE  CountInv'
  OBVIOUS
<1> DEFINE n == Cardinality(Uncounted)
<1>0. /\ n \in Nat /\ n' \in Nat
      /\ at \in [Evals -> Stages] /\ reg \in [Evals -> Nat]
      /\ eval_count \in Nat /\ begun \in Nat
      /\ eval_count + n <= begun
      /\ \A e \in Evals : at[e] = "count" => reg[e] + n <= begun
  BY UncountedFinite, UncountedFinitePrime DEF DirectTypeOK, CountInv
<1> SUFFICES /\ eval_count' + n' <= begun'
             /\ \A e \in Evals : at'[e] = "count" => reg'[e] + n' <= begun'
  BY DEF CountInv
<1> HIDE DEF n
<1>1. CASE UNCHANGED directVars
  <2>1. n' = n
    BY <1>1 DEF directVars, n, Uncounted
  <2>2. QED
    BY <1>0, <1>1, <2>1 DEF directVars, counters
<1>2. ASSUME NEW e \in Evals, Select(e) PROVE CountInv'
  <2>1. PICK place \in {"average", "enter"} : at' = [at EXCEPT ![e] = place]
    BY <1>2 DEF Select, Advance
  <2>2. n' = n + 1
    BY <1>2, <2>1, UncountedBegins DEF Select, n
  <2>3. begun' = begun + 1 /\ UNCHANGED <<eval_count, reg>>
    BY <1>2 DEF Select, counters
  <2>4. QED
    BY <1>0, <2>1, <2>2, <2>3 DEF CountInv, n
<1>3. ASSUME NEW e \in Evals, Average(e) PROVE CountInv'
  <2>1. at[e] = "average" /\ at' = [at EXCEPT ![e] = "enter"]
    BY <1>3 DEF Average, Advance
  <2>2. n' = n
    BY <2>1, UncountedStays DEF n, Stages
  <2>3. UNCHANGED <<begun, eval_count, reg>>
    BY <1>3 DEF Average
  <2>4. QED
    BY <1>0, <2>1, <2>2, <2>3 DEF CountInv, n
<1>4. ASSUME NEW e \in Evals, DoEval(e), at'[e] = "count" PROVE CountInv'
  <2>1. at[e] = "enter" /\ at' = [at EXCEPT ![e] = "count"]
    BY <1>0, <1>4 DEF DoEval, Advance
  <2>2. n' = n
    BY <2>1, UncountedStays DEF n, Stages
  <2>3. UNCHANGED <<begun, eval_count>> /\ reg' = [reg EXCEPT ![e] = eval_count]
    BY <1>0, <1>4, <2>1 DEF DoEval, counters, Advance
  <2>4. QED
    BY <1>0, <2>1, <2>2, <2>3 DEF CountInv, n
<1>5. ASSUME NEW e \in Evals, DoEval(e), at'[e] # "count" PROVE CountInv'
  <2>1. at[e] = "enter" /\ at' = [at EXCEPT ![e] = "eval"]
    BY <1>0, <1>5 DEF DoEval, Advance
  <2>2. n = n' + 1
    BY <2>1, UncountedEnds DEF n
  <2>3. UNCHANGED <<begun, eval_count, reg>>
    BY <1>0, <1>5, <2>1 DEF DoEval, counters, Advance
  <2>4. QED
    BY <1>0, <2>1, <2>2, <2>3 DEF CountInv, n
<1>6. ASSUME NEW e \in Evals, Count(e) PROVE CountInv'
  <2>1. at[e] = "count" /\ at' = [at EXCEPT ![e] = "eval"]
    BY <1>6 DEF Count, Advance
  <2>2. n = n' + 1
    BY <2>1, UncountedEnds DEF n
  <2>3. eval_count' = reg[e] + 1 /\ UNCHANGED <<begun, reg>>
    BY <1>6 DEF Count
  <2>4. QED
    BY <1>0, <2>1, <2>2, <2>3 DEF CountInv, n
<1>7. ASSUME NEW e \in Evals,
             \/ EvalReady(e) \/ KeepAlive(e) \/ ScopeEnd(e) \/ Continuation(e)
             \/ AddDuration(e)
      PROVE  CountInv'
  <2>1. PICK place \in Stages \ {"average", "enter", "count"} :
            at' = [at EXCEPT ![e] = place]
    BY <1>7 DEF EvalReady, KeepAlive, ScopeEnd, Continuation, AddDuration, Rest,
       Advance, Stages
  <2>2. at[e] \notin {"average", "enter", "count"}
    BY <1>7 DEF EvalReady, KeepAlive, ScopeEnd, Continuation, AddDuration
  <2>3. n' = n
    BY <2>1, <2>2, UncountedStays DEF n
  <2>4. /\ UNCHANGED <<begun, eval_count>>
        /\ \A d \in Evals : at'[d] = "count" => at[d] = "count" /\ reg'[d] = reg[d]
    BY <1>0, <1>7, <2>1, <2>2 DEF EvalReady, KeepAlive, ScopeEnd, Continuation,
       AddDuration, counters, Advance
  <2>5. QED
    BY <1>0, <2>3, <2>4 DEF CountInv, n
<1>8. CASE Reinit \/ ResetCount \/ ResetDuration \/ ResetDirect
  <2>1. UNCHANGED <<at, reg, begun>> /\ eval_count' \in {0, eval_count}
    BY <1>8 DEF Reinit, ResetCount, ResetDuration, ResetDirect
  <2>2. n' = n
    BY <2>1 DEF n, Uncounted
  <2>3. CASE eval_count' = eval_count
    BY <1>0, <2>1, <2>2, <2>3
  <2>4. CASE eval_count' = 0
    <3>1. 0 + n <= begun
      BY <1>0
    <3>2. QED
      BY <1>0, <2>1, <2>2, <2>4, <3>1
  <2>5. QED
    BY <2>1, <2>3, <2>4
<1>9. QED
  BY <1>1, <1>2, <1>3, <1>4, <1>5, <1>6, <1>7, <1>8
     DEF DirectNext, Evaluate, CountInv, n

(* Timers and durations.                                                    *)
LEMMA NextTimer ==
    DirectTypeOK /\ TimerInv /\ [DirectNext]_directVars => TimerInv'
<1> SUFFICES ASSUME DirectTypeOK, TimerInv, [DirectNext]_directVars
             PROVE  TimerInv'
  OBVIOUS
<1> USE DEF DirectTypeOK, TimerInv, Advance, counters, Stages
<1>1. CASE UNCHANGED directVars
  BY <1>1 DEF directVars
<1>2. ASSUME NEW e \in Evals, Select(e) PROVE TimerInv'
  BY <1>2 DEF Select
<1>3. ASSUME NEW e \in Evals, Average(e) \/ Count(e) PROVE TimerInv'
  BY <1>3 DEF Average, Count
<1>4. ASSUME NEW e \in Evals, DoEval(e) PROVE TimerInv'
  BY <1>4 DEF DoEval
<1>5. ASSUME NEW e \in Evals, EvalReady(e) \/ KeepAlive(e) \/ Continuation(e)
      PROVE  TimerInv'
  BY <1>5 DEF EvalReady, KeepAlive, Continuation
<1>6. ASSUME NEW e \in Evals, ScopeEnd(e) PROVE TimerInv'
  BY <1>6 DEF ScopeEnd, Rest
<1>7. ASSUME NEW e \in Evals, AddDuration(e) PROVE TimerInv'
  <2>1. at[e] = "add" /\ timed' = [timed EXCEPT ![e] = timed[e] + 1]
    BY <1>7 DEF AddDuration
  <2>2. timed'[e] = 1
    BY <2>1
  <2>3. timer' = [timer EXCEPT ![e] = {}] /\ at' = [at EXCEPT ![e] = "idle"]
    <3>1. timer[e] \in {{}, {"do_eval"}, {"continuation"}}
      OBVIOUS
    <3>2. (IF "do_eval" \in timer[e] THEN timer[e] \ {"do_eval"} ELSE {}) = {}
      BY <3>1
    <3>3. QED
      BY <1>7, <3>2 DEF AddDuration, Rest
  <2>4. QED
    BY <2>1, <2>2, <2>3
<1>8. CASE Reinit \/ ResetCount \/ ResetDuration \/ ResetDirect
  BY <1>8 DEF Reinit, ResetCount, ResetDuration, ResetDirect
<1>9. QED
  BY <1>1, <1>2, <1>3, <1>4, <1>5, <1>6, <1>7, <1>8 DEF DirectNext, Evaluate

LEMMA NextDuration ==
    DirectTypeOK /\ TimerInv /\ DurationInv /\ [DirectNext]_directVars
        => DurationInv'
<1> SUFFICES ASSUME DirectTypeOK, TimerInv, DurationInv, [DirectNext]_directVars
             PROVE  DurationInv'
  OBVIOUS
<1> USE DEF DirectTypeOK, DurationInv, Advance, counters, Stages
<1>1. CASE UNCHANGED directVars
  BY <1>1 DEF directVars
<1>2. ASSUME NEW e \in Evals,
             \/ Select(e) \/ Average(e) \/ Count(e) \/ EvalReady(e) \/ KeepAlive(e)
             \/ Continuation(e)
      PROVE  DurationInv'
  BY <1>2 DEF Select, Average, Count, EvalReady, KeepAlive, Continuation
<1>3. ASSUME NEW e \in Evals, DoEval(e) PROVE DurationInv'
  BY <1>3 DEF DoEval
<1>4. ASSUME NEW e \in Evals, ScopeEnd(e) PROVE DurationInv'
  BY <1>4 DEF ScopeEnd, Rest
<1>5. ASSUME NEW e \in Evals, AddDuration(e) PROVE DurationInv'
  <2>1. PICK d \in Durations :
            /\ eval_duration' = reg[e] + d
            /\ spent' = IF timed[e] = 0 THEN spent + d ELSE spent
    BY <1>5 DEF AddDuration
  <2>2. at[e] = "add" /\ timed[e] = 0 /\ reg[e] <= spent
    BY <1>5 DEF AddDuration, TimerInv
  <2>3. d \in Nat /\ spent' = spent + d /\ eval_duration' <= spent'
    BY <2>1, <2>2
  <2>4. reg' = reg /\ \A x \in Evals : at'[x] = "add" => at[x] = "add"
    BY <1>5 DEF AddDuration, Rest
  <2>5. QED
    BY <2>3, <2>4
<1>6. CASE Reinit \/ ResetCount \/ ResetDuration \/ ResetDirect
  BY <1>6 DEF Reinit, ResetCount, ResetDuration, ResetDirect
<1>7. QED
  BY <1>1, <1>2, <1>3, <1>4, <1>5, <1>6 DEF DirectNext, Evaluate

LEMMA InitCounts == DirectInit => CountInv /\ TimerInv /\ DurationInv
<1> SUFFICES ASSUME DirectInit PROVE CountInv /\ TimerInv /\ DurationInv
  OBVIOUS
<1>1. Uncounted = {}
  BY DEF DirectInit, Uncounted
<1>2. CountInv
  BY <1>1, FS_EmptySet DEF DirectInit, CountInv
<1>3. TimerInv /\ DurationInv
  BY DEF DirectInit, TimerInv, DurationInv
<1>4. QED
  BY <1>2, <1>3

(* However evaluations and queries interleave, the count never exceeds the  *)
(* evaluations begun, the duration what they took, and none is timed twice. *)
THEOREM CountedOnce == DirectSpec => []NothingCountedTwice
<1>1. DirectTypeOK /\ CountInv /\ TimerInv /\ DurationInv => NothingCountedTwice
  BY UncountedFinite DEF DirectTypeOK, CountInv, TimerInv, DurationInv,
     NothingCountedTwice
<1>2. QED
  BY <1>1, InitCounts, NextCount, NextTimer, NextDuration, DirectTypeCorrect,
     PTL DEF DirectSpec
=============================================================================
