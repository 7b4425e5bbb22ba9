------------------------------ MODULE PosixRun ------------------------------
(***************************************************************************)
(* Start-up and shutdown of the preemptive POSIX core: EDF_init, EDF_run,  *)
(* EDF_stop, the start of active objects before and while EDF_run is at    *)
(* work, and SIGINT. Active objects have a thread each, which waits for    *)
(* startupMutex before its first event. What the threads do with events is *)
(* the subject of module EventFlow; here an event comes at any time.       *)
(***************************************************************************)
EXTENDS Integers, FiniteSets

CONSTANTS
  AO,     \* the active objects
  MainThread,   \* the thread that calls EDF_init and EDF_run
  NoOne

ASSUME PosixAssumption ==
  /\ MainThread \notin AO \cup {NoOne, "destroyed"}
  /\ NoOne \notin AO \cup {"destroyed"} /\ "destroyed" \notin AO

VARIABLES
  main,       \* where EDF_run is, or "app" in front of it
  running,
  mutex,      \* who holds startupMutex: NoOne, MainThread or an active object's
              \* thread; "destroyed" at the end
  thread,     \* thread[a]: "none", "created", "entering", "waiting", "handler"
  starter,    \* who runs the initial transition of a in EDF_activeObject_start
  program     \* "runs", "signal" (in sigIntHandler), or how it ended

posix_vars == <<main, running, mutex, thread, starter, program>>

(* EDF_init locks startupMutex for the main thread.                        *)
PosixInit ==
  /\ main = "app" /\ running = FALSE /\ mutex = MainThread
  /\ thread = [a \in AO |-> "none"] /\ starter = [a \in AO |-> NoOne]
  /\ program = "runs"

(* The threads that can call the framework: the main thread in front of    *)
(* EDF_run and in its callbacks, and the active objects in a handler.      *)
Callers ==
  (IF main \in {"app", "onStartup", "onShutdown"} THEN {MainThread} ELSE {})
    \cup {a \in AO : thread[a] = "handler"}

Busy(c) == \E a \in AO : starter[a] = c

-----------------------------------------------------------------------------
(* Faulty form: the thread is created in front of the initial transition.  *)
BugStartAO(c, a) ==
  /\ program = "runs" /\ c \in Callers
  /\ thread[a] = "none" /\ starter[a] = NoOne
  /\ starter' = [starter EXCEPT ![a] = c]
  /\ thread' = [thread EXCEPT ![a] = "created"]
  /\ UNCHANGED <<main, running, mutex, program>>

(* EDF_activeObject_start up to the initial transition, from which others  *)
(* may be started; several starts of one caller end in any order here.     *)
StartAO(c, a) ==
  /\ program = "runs" /\ c \in Callers
  /\ thread[a] = "none" /\ starter[a] = NoOne
  /\ starter' = [starter EXCEPT ![a] = c]
  /\ UNCHANGED <<main, running, mutex, thread, program>>

(* The end of EDF_activeObject_start: the creation of the detached thread  *)
(* succeeds, or an assertion stops the program.                            *)
Create(a) ==
  /\ program = "runs" /\ starter[a] # NoOne
  /\ starter' = [starter EXCEPT ![a] = NoOne]
  /\ \/ thread' = [thread EXCEPT ![a] = "created"] /\ UNCHANGED program
     \/ program' = "failed" /\ UNCHANGED thread
  /\ UNCHANGED <<main, running, mutex>>

(* activeObjectThread locks and unlocks startupMutex. The lock of a        *)
(* destroyed mutex fails, and its result is not looked at.                 *)
Enter(a) ==
  /\ program = "runs" /\ thread[a] = "created"
  /\ \/ mutex = NoOne /\ mutex' = a
     \/ mutex = "destroyed" /\ UNCHANGED mutex
  /\ thread' = [thread EXCEPT ![a] = "entering"]
  /\ UNCHANGED <<main, running, starter, program>>

Proceed(a) ==
  /\ program = "runs" /\ thread[a] = "entering"
  /\ mutex' = IF mutex = a THEN NoOne ELSE mutex
  /\ thread' = [thread EXCEPT ![a] = "waiting"]
  /\ UNCHANGED <<main, running, starter, program>>

Dispatch(a) ==
  /\ program = "runs" /\ thread[a] = "waiting"
  /\ thread' = [thread EXCEPT ![a] = "handler"]
  /\ UNCHANGED <<main, running, mutex, starter, program>>

HandlerReturns(a) ==
  /\ program = "runs" /\ thread[a] = "handler" /\ ~Busy(a)
  /\ thread' = [thread EXCEPT ![a] = "waiting"]
  /\ UNCHANGED <<main, running, mutex, starter, program>>

-----------------------------------------------------------------------------
(* EDF_run, from one statement that others can see to the next.            *)
Step(from, to) == program = "runs" /\ main = from /\ main' = to /\ ~Busy(MainThread)

RunCalled == Step("app", "onStartup") /\ UNCHANGED <<running, mutex, thread, starter, program>>

RunReleases ==
  /\ Step("onStartup", "released")
  /\ mutex' = NoOne
  /\ UNCHANGED <<running, thread, starter, program>>

RunBegins ==
  /\ Step("released", "loop")
  /\ running' = TRUE
  /\ UNCHANGED <<mutex, thread, starter, program>>

(* Faulty form: the loop waits for the active objects.                     *)
BugRunLeaves ==
  /\ Step("loop", "onShutdown") /\ ~running /\ \A a \in AO : thread[a] # "handler"
  /\ UNCHANGED <<running, mutex, thread, starter, program>>

RunLeaves ==
  /\ Step("loop", "onShutdown") /\ ~running
  /\ UNCHANGED <<running, mutex, thread, starter, program>>

(* The destruction of a mutex that a thread holds fails, and its result is *)
(* not looked at. The program ends when main returns.                      *)
RunDestroys ==
  /\ Step("onShutdown", "returned")
  /\ mutex' = IF mutex = NoOne THEN "destroyed" ELSE mutex
  /\ UNCHANGED <<running, thread, starter, program>>

MainReturns ==
  /\ program = "runs" /\ main = "returned"
  /\ program' = "exited"
  /\ UNCHANGED <<main, running, mutex, thread, starter>>

(* EDF_stop, by any thread.                                                *)
PosixStop ==
  /\ program = "runs"
  /\ running' = FALSE
  /\ UNCHANGED <<main, mutex, thread, starter, program>>

(* sigIntHandler: EDF_onShutdown in the thread that the signal interrupts, *)
(* then exit; the other threads may go on meanwhile, as if it came later.  *)
SigInt ==
  /\ program = "runs" /\ program' = "signal"
  /\ UNCHANGED <<main, running, mutex, thread, starter>>

SigIntExits ==
  /\ program = "signal" /\ program' = "exited"
  /\ UNCHANGED <<main, running, mutex, thread, starter>>

Over == program \in {"exited", "failed"} /\ UNCHANGED posix_vars

-----------------------------------------------------------------------------
MainStep ==
  \/ RunCalled \/ RunReleases \/ RunBegins \/ RunLeaves \/ RunDestroys \/ MainReturns
Begins(a) == Create(a) \/ Enter(a) \/ Proceed(a)
ThreadStep(a) == Begins(a) \/ Dispatch(a) \/ HandlerReturns(a)

PosixNext ==
  \/ MainStep \/ PosixStop \/ SigInt \/ SigIntExits \/ Over
  \/ \E a \in AO : ThreadStep(a) \/ \E c \in AO \cup {MainThread} : StartAO(c, a)

(* The operating system runs the main thread, and every other one that it  *)
(* created; the handlers of active objects return.                         *)
PosixFairness ==
  /\ WF_posix_vars(MainStep)
  /\ \A a \in AO : SF_posix_vars(Begins(a)) /\ WF_posix_vars(HandlerReturns(a))

PosixSpec == PosixInit /\ [][PosixNext]_posix_vars /\ PosixFairness

-----------------------------------------------------------------------------
PosixTypeOK ==
  /\ main \in {"app", "onStartup", "released", "loop", "onShutdown", "returned"}
  /\ running \in BOOLEAN
  /\ mutex \in AO \cup {NoOne, MainThread, "destroyed"}
  /\ thread \in [AO -> {"none", "created", "entering", "waiting", "handler"}]
  /\ starter \in [AO -> AO \cup {NoOne, MainThread}]
  /\ program \in {"runs", "signal", "exited", "failed"}

(* However many active objects start each other, before and during         *)
(* EDF_run, none of them handles an event before EDF_run has released      *)
(* startupMutex behind EDF_onStartup, nor before its own initial           *)
(* transition is over; and the main thread loses the mutex only there.     *)
HandlersAfterStartup ==
  /\ PosixTypeOK
  /\ \A a \in AO : thread[a] \in {"entering", "waiting", "handler"} =>
       main \notin {"app", "onStartup"} /\ starter[a] = NoOne
  /\ main \in {"app", "onStartup"} <=> mutex = MainThread

(* An EDF_stop that finds EDF_run in its loop makes it return, whatever    *)
(* the active objects do, and a thread that was created reaches its event  *)
(* loop, also one that finds the mutex destroyed.                          *)
StopReturnsThreadsEnter ==
  /\ (main = "loop" /\ ~running) ~> (main = "returned" \/ program # "runs")
  /\ \A a \in AO :
       (thread[a] = "created" /\ main = "loop") ~> (thread[a] = "waiting" \/ program # "runs")
=============================================================================
