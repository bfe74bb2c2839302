---------------------------- MODULE PythonSession ----------------------------
(***************************************************************************)
(* Starting and stopping HPX from Python (python/src/init_hpx.cpp,         *)
(* python/phylanx/core/config.py) while other Python threads evaluate      *)
(* expressions (python/src/bindings/binding_helpers.cpp).                  *)
(*                                                                         *)
(* Python code runs with the global interpreter lock (GIL) held; the calls *)
(* into Phylanx release it for as long as they wait.  HPX runs hpx_main    *)
(* and the evaluations on Workers threads of its own, which block when     *)
(* they wait for the GIL.  HPX itself is not part of the repository: that  *)
(* it refuses to be started twice, and that it stops when hpx_main has     *)
(* called finalize and no thread is left, is taken from how it is used.    *)
(***************************************************************************)
EXTENDS Integers, FiniteSets

CONSTANTS
    Threads,    \* Python threads
    Starters,   \* those that start and stop the runtime
    Workers,    \* HPX worker threads (hpx.os_threads)
    MaxObjects, \* bound on the managers made
    MaxCalls,   \* bound on the calls of each thread
    Main,       \* who holds the GIL when hpx_main does, and
    None        \* when nobody does

ASSUME PythonSessionAssumption ==
    /\ Starters \subseteq Threads
    /\ Workers \in Nat \ {0}
    /\ MaxObjects \in Nat
    /\ MaxCalls \in Nat
    /\ Main # None /\ Main \notin Threads /\ None \notin Threads

VARIABLES
    gil,            \* the thread that holds the GIL
    pc,             \* where every Python thread is
    calls,          \* how many calls it has made
    by_session,     \* its call came through PhylanxSession
    manager,        \* the manage_global_runtime its call is about, 0 if none
    is_initialized, \* PhylanxSession.is_initialized
    rts,            \* the global pointer to the manager, 0 if null
    objects,        \* managers constructed; the last one is the current
    freed,          \* managers deleted
    hpx,            \* the HPX runtime
    main,           \* where hpx_main of the current manager is
    rts_,           \* rts_ of the current manager is not null
    running_,       \* running_ of the current manager
    task,           \* the evaluation of every thread
    aborted         \* std::abort has been called

threadVars == <<pc, calls, by_session, manager>>
mainVars == <<main, rts_, running_>>
sessionVars ==
    <<gil, threadVars, is_initialized, rts, objects, freed, hpx, mainVars,
      task, aborted>>

Goto(t, place) == pc' = [pc EXCEPT ![t] = place]

AtWorker == {"gil1", "check", "gil2", "finalize"}
Busy ==
    Cardinality({t \in Threads : task[t] \in {"running", "called"}})
        + (IF main \in AtWorker THEN 1 ELSE 0)
FreeWorker == Busy < Workers

-----------------------------------------------------------------------------
(* The interpreter hands the GIL from one thread to another between the     *)
(* instructions of Python code.                                             *)
InPython == {"python", "init", "initialized"}

TakeGil(t) ==
    /\ pc[t] \in InPython
    /\ gil = None
    /\ gil' = t
    /\ UNCHANGED <<threadVars, is_initialized, rts, objects, freed, hpx,
                   mainVars, task, aborted>>

DropGil(t) ==
    /\ pc[t] \in InPython
    /\ gil = t
    /\ gil' = None
    /\ UNCHANGED <<threadVars, is_initialized, rts, objects, freed, hpx,
                   mainVars, task, aborted>>

(* The destructor of gil_scoped_release                                     *)
Back(place) ==
    CASE place = "regil_init" -> "initialized"
      [] place = "regil"      -> "python"

Reacquire(t) ==
    /\ pc[t] \in {"regil_init", "regil"}
    /\ gil = None
    /\ gil' = t
    /\ Goto(t, Back(pc[t]))
    /\ UNCHANGED <<calls, by_session, manager, is_initialized, rts, objects,
                   freed, hpx, mainVars, task, aborted>>

Call(t, place) ==
    /\ pc[t] = "python"
    /\ gil = t
    /\ calls[t] < MaxCalls
    /\ calls' = [calls EXCEPT ![t] = @ + 1]
    /\ Goto(t, place)

-----------------------------------------------------------------------------
(* PhylanxSession.init raises RuntimeAlreadyInitializedError, or calls      *)
(* init_hpx_runtime; that may also be called by itself.                     *)
CallInit(t, session) ==
    /\ t \in Starters
    /\ session => ~is_initialized
    /\ Call(t, "init")
    /\ by_session' = [by_session EXCEPT ![t] = session]
    /\ UNCHANGED <<gil, manager, is_initialized, rts, objects, freed, hpx,
                   mainVars, task, aborted>>

InitRuntime(t) ==
    /\ pc[t] = "init"
    /\ gil = t
    /\ IF rts = 0
       THEN gil' = None /\ Goto(t, "start")
       ELSE gil' = gil /\ Goto(t, "initialized")
    /\ UNCHANGED <<calls, by_session, manager, is_initialized, rts, objects,
                   freed, hpx, mainVars, task, aborted>>

(* The constructor: "Something went wrong while initializing the runtime.   *)
(* This early we can't generate any output, just bail out."                 *)
Construct(t) ==
    /\ objects' = objects + 1
    /\ manager' = [manager EXCEPT ![t] = objects + 1]
    /\ hpx' = "running"
    /\ main' = "begin"
    /\ rts_' = FALSE
    /\ running_' = FALSE
    /\ Goto(t, "starting")
    /\ UNCHANGED aborted

BailOut ==
    /\ aborted' = TRUE
    /\ UNCHANGED <<pc, manager, objects, hpx, mainVars>>

Start(t) ==
    /\ pc[t] = "start"
    /\ objects < MaxObjects
    /\ IF hpx = "stopped" THEN Construct(t) ELSE BailOut
    /\ UNCHANGED <<gil, calls, by_session, is_initialized, rts, freed, task>>

(* The loop on startup_cond_                                                *)
Started(t) ==
    /\ pc[t] = "starting"
    /\ running_
    /\ Goto(t, "assign")
    /\ UNCHANGED <<gil, calls, by_session, manager, is_initialized, rts,
                   objects, freed, hpx, mainVars, task, aborted>>

(* rts is written before the GIL is taken again.                            *)
AssignRts(t) ==
    /\ pc[t] = "assign"
    /\ rts' = manager[t]
    /\ Goto(t, "regil_init")
    /\ UNCHANGED <<gil, calls, by_session, manager, is_initialized, objects,
                   freed, hpx, mainVars, task, aborted>>

Initialized(t) ==
    /\ pc[t] = "initialized"
    /\ gil = t
    /\ is_initialized' = (is_initialized \/ by_session[t])
    /\ Goto(t, "python")
    /\ UNCHANGED <<gil, calls, by_session, manager, rts, objects, freed, hpx,
                   mainVars, task, aborted>>

-----------------------------------------------------------------------------
(* stop_hpx_runtime, called at exit too                                     *)
CallStop(t) ==
    /\ t \in Starters
    /\ Call(t, "stop")
    /\ manager' = [manager EXCEPT ![t] = rts]
    /\ UNCHANGED <<gil, by_session, is_initialized, rts, objects, freed, hpx,
                   mainVars, task, aborted>>

(* Mutant: the GIL stays with the thread that waits for HPX.                *)
ResetHoldingGil(t) ==
    /\ pc[t] = "stop"
    /\ rts' = 0
    /\ Goto(t, IF manager[t] = 0 THEN "python" ELSE "destroy")
    /\ UNCHANGED <<gil, calls, by_session, manager, is_initialized, objects,
                   freed, hpx, mainVars, task, aborted>>

ResetRts(t) ==
    /\ pc[t] = "stop"
    /\ rts' = 0
    /\ IF manager[t] = 0
       THEN gil' = gil /\ Goto(t, "python")
       ELSE gil' = None /\ Goto(t, "destroy")
    /\ UNCHANGED <<calls, by_session, manager, is_initialized, objects, freed,
                   hpx, mainVars, task, aborted>>

(* The destructor resets the pointer, signals exit,                         *)
Destroy(t) ==
    /\ pc[t] = "destroy"
    /\ rts_' = (rts_ /\ manager[t] # objects)
    /\ Goto(t, "notify")
    /\ UNCHANGED <<gil, calls, by_session, manager, is_initialized, rts,
                   objects, freed, hpx, main, running_, task, aborted>>

Notify(t) ==
    /\ pc[t] = "notify"
    /\ main' = IF main = "waiting" /\ manager[t] = objects THEN "woken" ELSE main
    /\ Goto(t, "stopping")
    /\ UNCHANGED <<gil, calls, by_session, manager, is_initialized, rts,
                   objects, freed, hpx, rts_, running_, task, aborted>>

(* Mutant: delete does not wait for HPX to exit.                            *)
DeleteAtOnce(t) ==
    /\ pc[t] = "stopping"
    /\ freed' = freed \cup {manager[t]}
    /\ Goto(t, "regil")
    /\ UNCHANGED <<gil, calls, by_session, manager, is_initialized, rts,
                   objects, hpx, mainVars, task, aborted>>

(* and waits in hpx::stop.                                                  *)
Stopped(t) ==
    /\ pc[t] = "stopping"
    /\ hpx = "stopped"
    /\ freed' = freed \cup {manager[t]}
    /\ Goto(t, "regil")
    /\ UNCHANGED <<gil, calls, by_session, manager, is_initialized, rts,
                   objects, hpx, mainVars, task, aborted>>

-----------------------------------------------------------------------------
(* hpx_main: stores the runtime, signals the constructor,                   *)
MainBegin ==
    /\ main = "begin"
    /\ FreeWorker
    /\ rts_' = TRUE
    /\ running_' = TRUE
    /\ main' = "gil1"
    /\ UNCHANGED <<gil, threadVars, is_initialized, rts, objects, freed, hpx,
                   task, aborted>>

(* takes the GIL to set up, and to undo, the redirection of the output,     *)
MainTakeGil ==
    /\ main \in {"gil1", "gil2"}
    /\ gil = None
    /\ gil' = Main
    /\ UNCHANGED <<threadVars, is_initialized, rts, objects, freed, hpx,
                   mainVars, task, aborted>>

MainDropGil ==
    /\ gil = Main
    /\ gil' = None
    /\ main' = IF main = "gil1" THEN "check" ELSE "finalize"
    /\ UNCHANGED <<threadVars, is_initialized, rts, objects, freed, hpx, rts_,
                   running_, task, aborted>>

(* Mutant: hpx_main waits without a look at rts_.                           *)
MainWaitAlways ==
    /\ main = "check"
    /\ main' = "waiting"
    /\ UNCHANGED <<gil, threadVars, is_initialized, rts, objects, freed, hpx,
                   rts_, running_, task, aborted>>

(* and waits for the destructor in between.                                 *)
MainWait ==
    /\ main = "check"
    /\ main' = IF rts_ THEN "waiting" ELSE "gil2"
    /\ UNCHANGED <<gil, threadVars, is_initialized, rts, objects, freed, hpx,
                   rts_, running_, task, aborted>>

MainResume ==
    /\ main = "woken"
    /\ FreeWorker
    /\ main' = "gil2"
    /\ UNCHANGED <<gil, threadVars, is_initialized, rts, objects, freed, hpx,
                   rts_, running_, task, aborted>>

Finalize ==
    /\ main = "finalize"
    /\ main' = "done"
    /\ hpx' = "stopping"
    /\ UNCHANGED <<gil, threadVars, is_initialized, rts, objects, freed, rts_,
                   running_, task, aborted>>

RuntimeExits ==
    /\ hpx = "stopping"
    /\ \A t \in Threads : task[t] \in {"none", "done"}
    /\ hpx' = "stopped"
    /\ UNCHANGED <<gil, threadVars, is_initialized, rts, objects, freed,
                   mainVars, task, aborted>>

-----------------------------------------------------------------------------
(* expression_evaluator: the GIL is released, an HPX thread compiles, takes *)
(* the GIL to convert the arguments, calls the function without it, and     *)
(* takes it again to convert the result.                                    *)
CallEvaluate(t) ==
    /\ is_initialized
    /\ Call(t, "submit")
    /\ gil' = None
    /\ UNCHANGED <<by_session, manager, is_initialized, rts, objects, freed,
                   hpx, mainVars, task, aborted>>

Submit(t) ==
    /\ pc[t] = "submit"
    /\ hpx = "running"
    /\ task' = [task EXCEPT ![t] = "ready"]
    /\ Goto(t, "evaluating")
    /\ UNCHANGED <<gil, calls, by_session, manager, is_initialized, rts,
                   objects, freed, hpx, mainVars, aborted>>

SubmitFails(t) ==
    /\ pc[t] = "submit"
    /\ hpx # "running"
    /\ Goto(t, "regil")
    /\ UNCHANGED <<gil, calls, by_session, manager, is_initialized, rts,
                   objects, freed, hpx, mainVars, task, aborted>>

TaskRuns(t) ==
    /\ task[t] = "ready"
    /\ FreeWorker
    /\ task' = [task EXCEPT ![t] = "running"]
    /\ UNCHANGED <<gil, threadVars, is_initialized, rts, objects, freed, hpx,
                   mainVars, aborted>>

TaskTakesArguments(t) ==
    /\ task[t] = "running"
    /\ gil = None
    /\ task' = [task EXCEPT ![t] = "called"]
    /\ UNCHANGED <<gil, threadVars, is_initialized, rts, objects, freed, hpx,
                   mainVars, aborted>>

TaskConverts(t) ==
    /\ task[t] = "called"
    /\ gil = None
    /\ task' = [task EXCEPT ![t] = "done"]
    /\ UNCHANGED <<gil, threadVars, is_initialized, rts, objects, freed, hpx,
                   mainVars, aborted>>

Evaluated(t) ==
    /\ pc[t] = "evaluating"
    /\ task[t] = "done"
    /\ task' = [task EXCEPT ![t] = "none"]
    /\ Goto(t, "regil")
    /\ UNCHANGED <<gil, calls, by_session, manager, is_initialized, rts,
                   objects, freed, hpx, mainVars, aborted>>

-----------------------------------------------------------------------------
SessionInit ==
    /\ gil = None
    /\ pc = [t \in Threads |-> "python"]
    /\ calls = [t \in Threads |-> 0]
    /\ by_session = [t \in Threads |-> FALSE]
    /\ manager = [t \in Threads |-> 0]
    /\ is_initialized = FALSE
    /\ rts = 0
    /\ objects = 0
    /\ freed = {}
    /\ hpx = "stopped"
    /\ main = "done"
    /\ rts_ = FALSE
    /\ running_ = FALSE
    /\ task = [t \in Threads |-> "none"]
    /\ aborted = FALSE

Starting(t) ==
    InitRuntime(t) \/ Start(t) \/ Started(t) \/ AssignRts(t) \/ Initialized(t)

Stopping(t) == ResetRts(t) \/ Destroy(t) \/ Notify(t) \/ Stopped(t)

Evaluating(t) == Submit(t) \/ SubmitFails(t) \/ TaskRuns(t) \/ Evaluated(t)

Converting(t) == TaskTakesArguments(t) \/ TaskConverts(t)

Calling(t) ==
    CallInit(t, TRUE) \/ CallInit(t, FALSE) \/ CallStop(t) \/ CallEvaluate(t)

HpxMain == MainBegin \/ MainDropGil \/ MainWait \/ MainResume \/ Finalize

SessionNext ==
    /\ ~aborted
    /\ \/ HpxMain \/ MainTakeGil \/ RuntimeExits
       \/ \E t \in Threads :
            \/ TakeGil(t) \/ DropGil(t) \/ Reacquire(t) \/ Calling(t)
            \/ Starting(t) \/ Stopping(t) \/ Evaluating(t)
            \/ Converting(t)

(* A thread that can go on does; the GIL is given to everyone who waits for *)
(* it again and again (CPython drops it on request and does not take it     *)
(* back before another thread had it).                                      *)
SessionFairness ==
    /\ WF_sessionVars(~aborted /\ HpxMain)
    /\ WF_sessionVars(~aborted /\ RuntimeExits)
    /\ SF_sessionVars(~aborted /\ MainTakeGil)
    /\ \A t \in Threads :
        /\ WF_sessionVars(~aborted /\ DropGil(t))
        /\ SF_sessionVars(~aborted /\ Starting(t))
        /\ SF_sessionVars(~aborted /\ TakeGil(t))
        /\ SF_sessionVars(~aborted /\ Reacquire(t))
        /\ WF_sessionVars(~aborted /\ Stopping(t))
        /\ SF_sessionVars(~aborted /\ Evaluating(t))
        /\ SF_sessionVars(~aborted /\ Converting(t))

SessionSpec == SessionInit /\ [][SessionNext]_sessionVars /\ SessionFairness

-----------------------------------------------------------------------------
Places ==
    {"python", "init", "start", "starting", "assign", "regil_init",
     "initialized", "stop", "destroy", "notify", "stopping", "regil",
     "submit", "evaluating"}

(* The GIL has one holder, and every place, pointer and flag is one the     *)
(* code has; who starts, stops or evaluates outside Python has released it. *)
SessionTypeOK ==
    /\ gil \in Threads \cup {Main, None}
    /\ gil \in Threads => pc[gil] \in InPython \cup {"stop"}
    /\ gil = Main => main \in {"gil1", "gil2"}
    /\ pc \in [Threads -> Places]
    /\ calls \in [Threads -> 0..MaxCalls]
    /\ by_session \in [Threads -> BOOLEAN]
    /\ manager \in [Threads -> 0..MaxObjects]
    /\ is_initialized \in BOOLEAN
    /\ rts \in 0..MaxObjects
    /\ objects \in 0..MaxObjects
    /\ freed \subseteq 1..MaxObjects
    /\ hpx \in {"running", "stopping", "stopped"}
    /\ main \in {"begin", "waiting", "woken", "done"} \cup AtWorker
    /\ rts_ \in BOOLEAN
    /\ running_ \in BOOLEAN
    /\ task \in [Threads -> {"none", "ready", "running", "called", "done"}]
    /\ aborted \in BOOLEAN

(* hpx_main runs on the members of its manager (mtx_, cond_, rts_): the     *)
(* manager is not deleted before hpx_main is done with them.                *)
ManagerOutlivesMain == main # "done" => objects \notin freed

InCall == {p \in Places : p \notin InPython}

(* "This global object will initialize HPX in its constructor and make sure *)
(* HPX stops running in its destructor": when no call is under way, HPX     *)
(* runs exactly if the global pointer is there for someone to stop it.      *)
Quiet == \A t \in Threads : pc[t] \in {"python", "submit", "evaluating"}
RunsWhilePointedTo == Quiet => (hpx = "running" <=> rts # 0)

(* "PhylanxSession can initialized only once": of threads that start the    *)
(* runtime through PhylanxSession, one does and the others are refused by   *)
(* RuntimeAlreadyInitializedError; a second start would end the process.    *)
StartedOnce == (\A t \in Starters : by_session[t]) => ~aborted

(* Every call into Phylanx comes back to Python, whatever the other threads *)
(* do, the GIL and a single worker thread notwithstanding.                  *)
CallsReturn ==
    \A t \in Threads : pc[t] \in InCall ~> (pc[t] \in InPython \/ aborted)
=============================================================================
