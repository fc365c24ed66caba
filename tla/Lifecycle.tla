----------------------------- MODULE Lifecycle -----------------------------
(***************************************************************************)
(* ServerBuilder::build_and_run: the order in which the parts of the       *)
(* server are started and, after SIGINT, shut down, with the threads that  *)
(* run meanwhile.  The pool is the one of TaskPool; of a task only its     *)
(* call of log() matters, of the reactor that it submits tasks and tests   *)
(* its flag, and of the sweeper that it evicts a key and then logs that.   *)
(***************************************************************************)
EXTENDS TaskPool

CONSTANTS Tasks   \* bound: the writes that clients send

ASSUME LifecycleAssumption == NoTask \notin Tasks

VARIABLES
  main,              \* where build_and_run is
  g_running,         \* cleared by the signal handler
  reactor,           \* where the reactor thread is in start()
  reactor_running,   \* running_ of the reactor
  aof_running,       \* running_ of the log
  wheel_running,     \* running_ of the timing wheel
  sweeper,           \* where sweeper_loop is
  submitted,         \* history: tasks the reactor has submitted
  logged,            \* history: tasks whose log() was accepted
  refused            \* history: who called log() in vain

flags == <<g_running, reactor_running, aof_running, wheel_running>>
history == <<submitted, logged, refused>>
vars == <<poolVars, main, flags, reactor, sweeper, history>>

Final == {"done", "failed", "killed", "aborted"}

TypeOK ==
  /\ PoolTypeOK(Tasks)
  /\ main \in {"replay", "open", "wheel", "pool", "signal", "thread", "serve", "stop", "join",
               "shutdown", "drain", "close", "halt", "halted"} \cup Final
  /\ flags \in BOOLEAN \X BOOLEAN \X BOOLEAN \X BOOLEAN
  /\ reactor \in {"none", "setup", "loop", "returned"}
  /\ sweeper \in {"none", "idle", "evicted", "done"}
  /\ logged \subseteq submitted /\ submitted \subseteq Tasks
  /\ refused \subseteq Tasks \cup {"sweeper"}

Init == /\ PoolInit
        /\ main = "replay" /\ g_running = TRUE
        /\ reactor = "none" /\ sweeper = "none"
        /\ reactor_running = FALSE /\ aof_running = FALSE /\ wheel_running = FALSE
        /\ submitted = {} /\ logged = {} /\ refused = {}
-----------------------------------------------------------------------------
(* The main thread goes from one statement to the next. *)
Go(from, to) == main = from /\ main' = to

(* The file is replayed; nothing else runs yet. *)
ReplayLog == Go("replay", "open") /\ UNCHANGED <<poolVars, flags, reactor, sweeper, history>>

(* aof.start(); main() reports the exception if the file cannot be opened. *)
OpenLog == \/ /\ Go("open", "wheel")
              /\ aof_running' = TRUE
              /\ UNCHANGED <<poolVars, g_running, reactor_running, wheel_running, reactor,
                             sweeper, history>>
           \/ /\ Go("open", "failed")
              /\ UNCHANGED <<poolVars, flags, reactor, sweeper, history>>

StartWheel == /\ Go("wheel", "pool")
              /\ wheel_running' = TRUE /\ sweeper' = "idle"
              /\ UNCHANGED <<poolVars, g_running, reactor_running, aof_running,
                             reactor, history>>

(* The workers start to wait for tasks. *)
StartPool == Go("pool", "signal") /\ UNCHANGED <<poolVars, flags, reactor, sweeper, history>>

InstallHandler == /\ Go("signal", "thread")
                  /\ UNCHANGED <<poolVars, flags, reactor, sweeper, history>>

StartThread == /\ Go("thread", "serve")
               /\ reactor' = "setup"
               /\ UNCHANGED <<poolVars, flags, sweeper, history>>

SeeSignal == /\ Go("serve", "stop") /\ ~g_running
             /\ UNCHANGED <<poolVars, flags, reactor, sweeper, history>>
-----------------------------------------------------------------------------
StopReactor == /\ Go("stop", "join")
               /\ reactor_running' = FALSE
               /\ UNCHANGED <<poolVars, g_running, aof_running, wheel_running,
                              reactor, sweeper, history>>

(* Mutant: the reactor's thread is not joined. *)
SkipJoin == /\ Go("join", "shutdown")
            /\ UNCHANGED <<poolVars, flags, reactor, sweeper, history>>

JoinReactor == /\ Go("join", "shutdown") /\ reactor = "returned"
               /\ UNCHANGED <<poolVars, flags, reactor, sweeper, history>>

(* running_ of the pool is cleared: a worker that finds the queue empty leaves. *)
ShutdownPool == /\ Go("shutdown", "drain")
                /\ UNCHANGED <<poolVars, flags, reactor, sweeper, history>>

(* Mutant: the pool's threads are not joined. *)
JoinNobody == /\ Go("drain", "close")
              /\ UNCHANGED <<poolVars, flags, reactor, sweeper, history>>

(* Every worker has left. *)
JoinWorkers == /\ Go("drain", "close")
               /\ queue = <<>> /\ \A w \in Workers : executing[w] = NoTask
               /\ UNCHANGED <<poolVars, flags, reactor, sweeper, history>>

(* aof.shutdown() flushes what was accepted. *)
ShutdownLog == /\ Go("close", "halt")
               /\ aof_running' = FALSE
               /\ UNCHANGED <<poolVars, g_running, reactor_running, wheel_running, reactor,
                              sweeper, history>>

(* Mutant: running_ is not cleared before the join. *)
StopWheelRunning == /\ Go("halt", "halted")
                    /\ UNCHANGED <<poolVars, flags, reactor, sweeper, history>>

StopWheel == /\ Go("halt", "halted")
             /\ wheel_running' = FALSE
             /\ UNCHANGED <<poolVars, g_running, reactor_running, aof_running,
                            reactor, sweeper, history>>

(* The sweeper is joined, and build_and_run returns. *)
JoinSweeper == /\ Go("halted", "done") /\ sweeper = "done"
               /\ UNCHANGED <<poolVars, flags, reactor, sweeper, history>>
-----------------------------------------------------------------------------
Alive == main \notin Final

(***************************************************************************)
(* SIGINT: before the handler is installed, and once it was called (signal *)
(* of the C runtime is one-shot), the default action ends the process.     *)
(***************************************************************************)
Interrupt ==
  /\ Alive
  /\ IF g_running /\ main \notin {"replay", "open", "wheel", "pool", "signal"}
     THEN g_running' = FALSE /\ UNCHANGED main
     ELSE main' = "killed" /\ UNCHANGED g_running
  /\ UNCHANGED <<poolVars, reactor_running, aof_running, wheel_running, reactor, sweeper,
                 history>>

(***************************************************************************)
(* start() binds the socket and sets running_, whatever stop() did before; *)
(* an exception here ends the process, as nothing in the thread catches it.*)
(***************************************************************************)
ReactorSetup ==
  /\ Alive /\ reactor = "setup"
  /\ \/ reactor' = "loop" /\ reactor_running' = TRUE /\ UNCHANGED main
     \/ main' = "aborted" /\ UNCHANGED <<reactor, reactor_running>>
  /\ UNCHANGED <<poolVars, g_running, aof_running, wheel_running, sweeper,
                 history>>

(* A turn of the loop submits what it reads; it may have begun before stop(). *)
ReactorSubmit(t) == /\ Alive /\ reactor = "loop" /\ t \notin submitted
                    /\ Submit(t)
                    /\ submitted' = submitted \cup {t}
                    /\ UNCHANGED <<main, flags, reactor, sweeper, logged, refused>>

ReactorDrain == /\ Alive /\ reactor = "loop" /\ completions # <<>>
                /\ DrainAll
                /\ UNCHANGED <<main, flags, reactor, sweeper, history>>

ReactorReturn == /\ Alive /\ reactor = "loop" /\ ~reactor_running
                 /\ reactor' = "returned"
                 /\ UNCHANGED <<poolVars, main, flags, sweeper, history>>

(* Workers that were joined take nothing more. *)
WorkerTake(w) == /\ Alive /\ main \notin {"close", "halt", "halted"}
                 /\ Take(w)
                 /\ UNCHANGED <<main, flags, reactor, sweeper, history>>

(* log(): accepted while the log runs. *)
CallLog(who, task) == IF aof_running
                      THEN logged' = logged \cup task /\ UNCHANGED refused
                      ELSE refused' = refused \cup {who} /\ UNCHANGED logged

(* execute() changes the store and logs that; the result is posted. *)
WorkerFinish(w) == /\ Alive /\ Finish(w)
                   /\ CallLog(executing[w], {executing[w]})
                   /\ UNCHANGED <<main, flags, reactor, sweeper, submitted>>

SweeperEvicts == /\ Alive /\ sweeper = "idle"
                 /\ sweeper' = "evicted"
                 /\ UNCHANGED <<poolVars, main, flags, reactor, history>>

SweeperLogs == /\ Alive /\ sweeper = "evicted"
               /\ CallLog("sweeper", {})
               /\ sweeper' = "idle"
               /\ UNCHANGED <<poolVars, main, flags, reactor, submitted>>

SweeperLeaves == /\ Alive /\ sweeper = "idle" /\ ~wheel_running
                 /\ sweeper' = "done"
                 /\ UNCHANGED <<poolVars, main, flags, reactor, history>>
-----------------------------------------------------------------------------
StartStep == \/ ReplayLog \/ OpenLog \/ StartWheel \/ StartPool
             \/ InstallHandler \/ StartThread

ShutdownStep == \/ SeeSignal \/ StopReactor \/ JoinReactor \/ ShutdownPool \/ JoinWorkers
                \/ ShutdownLog \/ StopWheel \/ JoinSweeper

ReactorStep == ReactorSetup \/ (\E t \in Tasks : ReactorSubmit(t)) \/ ReactorDrain
                 \/ ReactorReturn

WorkerStep(w) == WorkerTake(w) \/ WorkerFinish(w)

SweeperStep == SweeperEvicts \/ SweeperLogs \/ SweeperLeaves

Terminated == ~Alive /\ UNCHANGED vars

Next == \/ StartStep \/ ShutdownStep \/ Interrupt
        \/ ReactorStep \/ (\E w \in Workers : WorkerStep(w)) \/ SweeperStep
        \/ Terminated

(***************************************************************************)
(* Every thread goes on while it can; the sweeper comes to the test of its *)
(* flag, and the reactor too.  Nobody has to interrupt the server.         *)
(***************************************************************************)
Fairness == /\ WF_vars(StartStep) /\ WF_vars(ShutdownStep)
            /\ WF_vars(ReactorSetup) /\ WF_vars(ReactorReturn)
            /\ \A w \in Workers : WF_vars(WorkerStep(w))
            /\ WF_vars(SweeperLogs) /\ SF_vars(SweeperLeaves)

Spec == Init /\ [][Next]_vars /\ Fairness
-----------------------------------------------------------------------------
(***************************************************************************)
(* Parts are shut down in an order in which no write of a client is lost:  *)
(* the only log() that comes after the log was closed is the sweeper's,    *)
(* whose thread outlives the log.                                          *)
(***************************************************************************)
OnlySweeperRefused == refused \subseteq {"sweeper"}

(***************************************************************************)
(* When build_and_run returns, and the parts are destroyed, no thread runs *)
(* any more, and every task the reactor submitted was executed and logged. *)
(***************************************************************************)
ReturnsQuiet == main = "done" =>
                  /\ reactor = "returned" /\ sweeper = "done"
                  /\ \A w \in Workers : executing[w] = NoTask
                  /\ logged = submitted

(* stop() came before start() set running_, and has no effect. *)
StopOvertaken == main = "join" /\ reactor \in {"setup", "loop"} /\ reactor_running

(***************************************************************************)
(* After SIGINT the server shuts down, unless stop() is overtaken by       *)
(* start(): the main thread then waits for the reactor for ever.           *)
(***************************************************************************)
ShutdownCompletes == ~g_running ~> (~Alive \/ StopOvertaken)
=============================================================================
