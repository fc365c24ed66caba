-------------------------- MODULE LifecycleProofs --------------------------
(***************************************************************************)
(* Proofs about the order of start-up and shutdown, for every number of    *)
(* workers and of tasks, and every queue size.                             *)
(***************************************************************************)
EXTENDS Lifecycle, TLAPS, SequenceTheorems

Starting == {"replay", "open", "wheel", "pool", "signal", "thread"}

(* The reactor was joined, and then the workers. *)
ReactorJoined == {"shutdown", "drain", "close", "halt", "halted", "done"}
WorkersJoined == {"close", "halt", "halted", "done"}

(***************************************************************************)
(* What the place of the main thread says about the others.                *)
(***************************************************************************)
PhaseInv ==
  /\ main \in Starting => reactor = "none"
  /\ reactor = "none" => queue = <<>> /\ \A w \in Workers : executing[w] = NoTask
  /\ main \in ReactorJoined => reactor = "returned"
  /\ main \in WorkersJoined => queue = <<>> /\ \A w \in Workers : executing[w] = NoTask
  /\ Alive /\ main \notin {"replay", "open", "halt", "halted"} => aof_running
  /\ main = "done" => sweeper = "done"

(***************************************************************************)
(* A submitted task is in the queue, with a worker, or logged.             *)
(***************************************************************************)
TaskInv ==
  /\ queue \in Seq(submitted)
  /\ \A w \in Workers : executing[w] \in submitted \cup {NoTask}
  /\ logged \subseteq submitted
  /\ \A t \in submitted : \/ t \in logged
                          \/ \E i \in 1 .. Len(queue) : queue[i] = t
                          \/ \E w \in Workers : executing[w] = t

LifeInv == TypeOK /\ PhaseInv /\ TaskInv /\ OnlySweeperRefused

LEMMA InitLifeInv == Init => LifeInv
<1> SUFFICES ASSUME Init PROVE LifeInv
  OBVIOUS
<1>1. <<>> \in Seq(Tasks) /\ <<>> \in Seq(submitted)
  BY EmptySeq
<1>2. TypeOK
  BY <1>1 DEF Init, PoolInit, TypeOK, PoolTypeOK, flags
<1>3. PhaseInv
  BY DEF Init, PoolInit, PhaseInv, Starting, ReactorJoined, WorkersJoined, Alive
<1>4. TaskInv
  BY <1>1 DEF Init, PoolInit, TaskInv
<1> QED
  BY <1>2, <1>3, <1>4 DEF LifeInv, Init, OnlySweeperRefused

(***************************************************************************)
(* Steps of the main thread, of the signal and of the sweeper leave the    *)
(* pool and the history of tasks alone.                                    *)
(***************************************************************************)
LEMMA PoolUntouched ==
  ASSUME TaskInv, UNCHANGED <<poolVars, submitted, logged>>
  PROVE  TaskInv'
  BY DEF TaskInv, poolVars

LEMMA MainTypeOK ==
  ASSUME TypeOK, UNCHANGED <<poolVars, submitted, logged, refused>>,
         main' \in {"replay", "open", "wheel", "pool", "signal", "thread", "serve", "stop", "join",
                    "shutdown", "drain", "close", "halt", "halted"} \cup Final,
         g_running' \in BOOLEAN, reactor_running' \in BOOLEAN, aof_running' \in BOOLEAN,
         wheel_running' \in BOOLEAN,
         reactor' \in {"none", "setup", "loop", "returned"},
         sweeper' \in {"none", "idle", "evicted", "done"}
  PROVE  TypeOK'
  BY DEF TypeOK, PoolTypeOK, poolVars, flags

LEMMA FlagTypes ==
  ASSUME TypeOK
  PROVE  /\ g_running \in BOOLEAN /\ reactor_running \in BOOLEAN /\ aof_running \in BOOLEAN
         /\ wheel_running \in BOOLEAN
  BY DEF TypeOK, flags

LEMMA StartStepInv == ASSUME LifeInv, StartStep PROVE LifeInv'
<1> USE DEF LifeInv
<1>1. TaskInv'
  BY PoolUntouched DEF StartStep, ReplayLog, OpenLog, StartWheel, StartPool, InstallHandler,
     StartThread, history
<1>2. TypeOK'
  BY MainTypeOK, FlagTypes, ZenonT(40)
  DEF TypeOK, Final, Go, StartStep, ReplayLog, OpenLog, StartWheel, StartPool,
      InstallHandler, StartThread, flags, history
<1>3. PhaseInv'
  BY DEF PhaseInv, Starting, ReactorJoined, WorkersJoined, Alive, Final, Go, StartStep, ReplayLog,
     OpenLog, StartWheel, StartPool, InstallHandler, StartThread, poolVars, flags
<1>4. OnlySweeperRefused'
  BY DEF OnlySweeperRefused, StartStep, ReplayLog, OpenLog, StartWheel, StartPool,
     InstallHandler, StartThread, history
<1> QED
  BY <1>1, <1>2, <1>3, <1>4

LEMMA ShutdownStepInv == ASSUME LifeInv, ShutdownStep PROVE LifeInv'
<1> USE DEF LifeInv
<1>1. TaskInv'
  BY PoolUntouched DEF ShutdownStep, SeeSignal, StopReactor, JoinReactor, ShutdownPool,
     JoinWorkers, ShutdownLog, StopWheel, JoinSweeper, history
<1>2. TypeOK'
  BY MainTypeOK, FlagTypes, ZenonT(40)
  DEF TypeOK, Final, Go, ShutdownStep, SeeSignal, StopReactor, JoinReactor,
     ShutdownPool, JoinWorkers, ShutdownLog, StopWheel, JoinSweeper, flags, history
<1>3. PhaseInv'
  BY DEF PhaseInv, Starting, ReactorJoined, WorkersJoined, Alive, Final, Go, ShutdownStep, SeeSignal,
     StopReactor, JoinReactor, ShutdownPool, JoinWorkers, ShutdownLog, StopWheel, JoinSweeper,
     poolVars, flags
<1>4. OnlySweeperRefused'
  BY DEF OnlySweeperRefused, ShutdownStep, SeeSignal, StopReactor, JoinReactor, ShutdownPool,
     JoinWorkers, ShutdownLog, StopWheel, JoinSweeper, history
<1> QED
  BY <1>1, <1>2, <1>3, <1>4

LEMMA InterruptInv == ASSUME LifeInv, Interrupt PROVE LifeInv'
<1> USE DEF LifeInv
<1>1. TaskInv'
  BY PoolUntouched DEF Interrupt, history
<1>2. TypeOK'
  BY MainTypeOK, FlagTypes, ZenonT(40) DEF TypeOK, Final, Interrupt, history
<1>3. PhaseInv'
  BY DEF PhaseInv, Starting, ReactorJoined, WorkersJoined, Alive, Final, Interrupt, poolVars
<1>4. OnlySweeperRefused'
  BY DEF OnlySweeperRefused, Interrupt, history
<1> QED
  BY <1>1, <1>2, <1>3, <1>4

LEMMA SweeperStepInv == ASSUME LifeInv, SweeperStep PROVE LifeInv'
<1> USE DEF LifeInv
<1>1. UNCHANGED <<poolVars, main, flags, reactor, submitted>> /\ Alive
  BY DEF SweeperStep, SweeperEvicts, SweeperLogs, SweeperLeaves, history
<1>2. logged' = logged /\ refused' \subseteq refused \cup {"sweeper"}
  BY DEF SweeperStep, SweeperEvicts, SweeperLogs, SweeperLeaves, CallLog, history
<1>3. TaskInv'
  BY <1>1, <1>2, PoolUntouched
<1>4. sweeper' \in {"none", "idle", "evicted", "done"}
  BY DEF SweeperStep, SweeperEvicts, SweeperLogs, SweeperLeaves
<1>5. TypeOK'
  BY <1>1, <1>2, <1>4 DEF TypeOK, PoolTypeOK, poolVars, flags
<1>6. PhaseInv'
  BY <1>1 DEF PhaseInv, poolVars, flags, Alive, Final
<1> QED
  BY <1>2, <1>3, <1>5, <1>6 DEF OnlySweeperRefused

(* The reactor's loop runs only between StartThread and the join. *)
LEMMA ReactorStepInv == ASSUME LifeInv, ReactorStep PROVE LifeInv'
<1> USE DEF LifeInv
<1>1. ASSUME ReactorSetup PROVE LifeInv'
  <2>1. TaskInv'
    BY <1>1, PoolUntouched DEF ReactorSetup, history
  <2>2. TypeOK'
    BY <1>1, MainTypeOK, FlagTypes DEF TypeOK, Final, ReactorSetup, history
  <2>3. PhaseInv'
    BY <1>1 DEF PhaseInv, Starting, ReactorJoined, WorkersJoined, Alive, Final, ReactorSetup,
       poolVars
  <2> QED
    BY <1>1, <2>1, <2>2, <2>3 DEF ReactorSetup, OnlySweeperRefused, history
<1>2. ASSUME NEW t \in Tasks, ReactorSubmit(t) PROVE LifeInv'
  <2>1. /\ queue' = Append(queue, t) /\ submitted' = submitted \cup {t}
        /\ UNCHANGED <<executing, completions, main, flags, reactor, sweeper, logged, refused>>
        /\ reactor = "loop" /\ Alive
    BY <1>2 DEF ReactorSubmit, Submit
  <2>2. queue \in Seq(Tasks) /\ queue \in Seq(submitted)
    BY DEF TypeOK, PoolTypeOK, TaskInv
  <2>3. queue' \in Seq(Tasks)
    BY <2>1, <2>2, AppendProperties
  <2>4. queue' \in Seq(submitted')
    <3>1. queue \in Seq(submitted')
      BY <2>1, <2>2, SeqMonotonic
    <3>2. t \in submitted'
      BY <2>1
    <3> QED
      BY <2>1, <3>1, <3>2, AppendProperties
  <2>5. /\ Len(queue) \in Nat /\ Len(queue') = Len(queue) + 1
        /\ \A i \in 1 .. Len(queue) : queue'[i] = queue[i]
        /\ queue'[Len(queue) + 1] = t
    BY <2>1, <2>2, AppendProperties, LenProperties
  <2>6. 1 .. Len(queue) \subseteq 1 .. Len(queue') /\ Len(queue) + 1 \in 1 .. Len(queue')
    BY <2>5
  <2>7. TypeOK'
    BY <2>1, <2>3 DEF TypeOK, PoolTypeOK, flags
  <2>8. TaskInv'
    <3>1. ASSUME NEW u \in submitted'
          PROVE  \/ u \in logged' \/ \E i \in 1 .. Len(queue') : queue'[i] = u
                 \/ \E w \in Workers : executing'[w] = u
      <4>1. CASE u = t
        BY <2>5, <2>6, <4>1
      <4>2. CASE u \in submitted
        BY <2>1, <2>5, <2>6, <4>2 DEF TaskInv
      <4> QED
        BY <2>1, <4>1, <4>2
    <3> QED
      BY <2>1, <2>4, <3>1 DEF TaskInv
  <2>9. PhaseInv'
    BY <2>1 DEF PhaseInv, Starting, ReactorJoined, WorkersJoined, flags, Alive, Final
  <2> QED
    BY <2>1, <2>7, <2>8, <2>9 DEF OnlySweeperRefused
<1>3. ASSUME ReactorDrain PROVE LifeInv'
  <2>1. completions' = <<>>
        /\ UNCHANGED <<queue, executing, main, flags, reactor, sweeper, submitted, logged, refused>>
    BY <1>3 DEF ReactorDrain, DrainAll, history
  <2>2. <<>> \in Seq(Tasks)
    BY EmptySeq
  <2>3. TypeOK'
    BY <2>1, <2>2 DEF TypeOK, PoolTypeOK, flags
  <2>4. PhaseInv'
    BY <2>1 DEF PhaseInv, flags, Alive, Final
  <2>5. TaskInv'
    BY <2>1 DEF TaskInv
  <2> QED
    BY <2>1, <2>3, <2>4, <2>5 DEF OnlySweeperRefused
<1>4. ASSUME ReactorReturn PROVE LifeInv'
  <2>1. TaskInv'
    BY <1>4, PoolUntouched DEF ReactorReturn, history
  <2>2. TypeOK'
    BY <1>4, MainTypeOK, FlagTypes DEF TypeOK, ReactorReturn, flags, history
  <2>3. PhaseInv'
    BY <1>4 DEF PhaseInv, Starting, ReactorJoined, WorkersJoined, Alive, Final, ReactorReturn,
       poolVars, flags
  <2> QED
    BY <1>4, <2>1, <2>2, <2>3 DEF ReactorReturn, OnlySweeperRefused, history
<1> QED
  BY <1>1, <1>2, <1>3, <1>4 DEF ReactorStep

LEMMA WorkerTakeInv == ASSUME LifeInv, NEW w \in Workers, WorkerTake(w) PROVE LifeInv'
<1> USE DEF LifeInv
<1>1. /\ queue # <<>> /\ queue' = Tail(queue) /\ executing[w] = NoTask
      /\ executing' = [executing EXCEPT ![w] = Head(queue)]
      /\ UNCHANGED <<completions, main, flags, reactor, sweeper, submitted, logged, refused>>
      /\ Alive /\ main \notin {"close", "halt", "halted"}
  BY DEF WorkerTake, Take, history
<1>2. queue \in Seq(Tasks) /\ queue \in Seq(submitted)
      /\ executing \in [Workers -> Tasks \cup {NoTask}]
  BY DEF TypeOK, PoolTypeOK, TaskInv
<1>3. /\ Head(queue) \in Tasks /\ Head(queue) \in submitted
      /\ Tail(queue) \in Seq(Tasks) /\ Tail(queue) \in Seq(submitted)
      /\ Head(queue) = queue[1] /\ Len(queue) \in Nat /\ Len(Tail(queue)) = Len(queue) - 1
      /\ \A i \in 1 .. (Len(queue) - 1) : Tail(queue)[i] = queue[i + 1]
  BY <1>1, <1>2, HeadTailProperties, LenProperties
<1>4. TypeOK'
  BY <1>1, <1>2, <1>3 DEF TypeOK, PoolTypeOK, flags
<1>5. PhaseInv'
  BY <1>1 DEF PhaseInv, Starting, ReactorJoined, WorkersJoined, Alive, Final, flags
<1>6. /\ executing'[w] = Head(queue)
      /\ \A v \in Workers : v # w => executing'[v] = executing[v]
  BY <1>1, <1>2
<1>7. ASSUME NEW u \in submitted'
      PROVE  \/ u \in logged' \/ \E i \in 1 .. Len(queue') : queue'[i] = u
             \/ \E v \in Workers : executing'[v] = u
  <2>1. u \in submitted /\ u # NoTask
    BY <1>1, <1>7, LifecycleAssumption DEF TypeOK
  <2>2. CASE u \in logged
    BY <1>1, <2>2
  <2>3. CASE \E v \in Workers : executing[v] = u
    <3>1. PICK v \in Workers : executing[v] = u
      BY <2>3
    <3>2. v # w
      BY <1>1, <2>1, <3>1
    <3> QED
      BY <1>6, <3>1, <3>2
  <2>4. CASE \E i \in 1 .. Len(queue) : queue[i] = u
    <3>1. PICK i \in 1 .. Len(queue) : queue[i] = u
      BY <2>4
    <3>2. CASE i = 1
      BY <1>3, <1>6, <3>1, <3>2
    <3>3. CASE i # 1
      <4>1. i - 1 \in 1 .. (Len(queue) - 1) /\ i - 1 \in 1 .. Len(queue')
            /\ (i - 1) + 1 = i
        BY <1>1, <1>3, <3>3
      <4> QED
        BY <1>1, <1>3, <3>1, <4>1
    <3> QED
      BY <3>2, <3>3
  <2> QED
    BY <2>1, <2>2, <2>3, <2>4 DEF TaskInv
<1>8. TaskInv'
  BY <1>1, <1>3, <1>6, <1>7 DEF TaskInv
<1> QED
  BY <1>1, <1>4, <1>5, <1>8 DEF OnlySweeperRefused

(* A task that is executed finds the log open. *)
LEMMA WorkerFinishInv == ASSUME LifeInv, NEW w \in Workers, WorkerFinish(w) PROVE LifeInv'
<1> USE DEF LifeInv
<1> DEFINE t == executing[w]
<1>1. /\ t # NoTask /\ executing' = [executing EXCEPT ![w] = NoTask]
      /\ completions' = Append(completions, t)
      /\ UNCHANGED <<queue, main, flags, reactor, sweeper, submitted>> /\ Alive
  BY DEF WorkerFinish, Finish
<1>2. /\ executing \in [Workers -> Tasks \cup {NoTask}]
      /\ t \in Tasks /\ t \in submitted /\ completions \in Seq(Tasks)
  BY <1>1 DEF TypeOK, PoolTypeOK, TaskInv
<1>3. aof_running
  BY <1>1 DEF PhaseInv, Starting, WorkersJoined, Alive, Final, TypeOK
<1>4. logged' = logged \cup {t} /\ refused' = refused
  BY <1>3 DEF WorkerFinish, CallLog
<1> HIDE DEF t
<1>5. completions' \in Seq(Tasks)
  BY <1>1, <1>2, AppendProperties
<1>6. TypeOK'
  BY <1>1, <1>2, <1>4, <1>5 DEF TypeOK, PoolTypeOK, flags
<1>7. /\ executing'[w] = NoTask
      /\ \A v \in Workers : v # w => executing'[v] = executing[v]
  BY <1>1, <1>2
<1>8. PhaseInv'
  BY <1>1, <1>7 DEF PhaseInv, Alive, Final, flags
<1>9. TaskInv'
  BY <1>1, <1>2, <1>4, <1>7 DEF TaskInv, t
<1> QED
  BY <1>4, <1>6, <1>8, <1>9 DEF OnlySweeperRefused

LEMMA NextLifeInv == LifeInv /\ [Next]_vars => LifeInv'
<1> SUFFICES ASSUME LifeInv, [Next]_vars PROVE LifeInv'
  OBVIOUS
<1>1. CASE UNCHANGED vars
  BY <1>1 DEF LifeInv, TypeOK, PoolTypeOK, PhaseInv, TaskInv, OnlySweeperRefused, Alive, Final,
     vars, poolVars, flags, history
<1> QED
  BY <1>1, StartStepInv, ShutdownStepInv, InterruptInv, ReactorStepInv, WorkerTakeInv,
     WorkerFinishInv, SweeperStepInv DEF Next, WorkerStep, Terminated

LEMMA LifeInvHolds == Spec => []LifeInv
  BY InitLifeInv, NextLifeInv, PTL DEF Spec

(***************************************************************************)
(* The server's state has its types, and only submitted tasks are logged.  *)
(***************************************************************************)
THEOREM TypeCorrect == Spec => []TypeOK
<1>1. LifeInv => TypeOK
  BY DEF LifeInv
<1> QED
  BY <1>1, LifeInvHolds, PTL

(***************************************************************************)
(* build_and_run shuts the reactor, the pool and the log down in an order  *)
(* in which every task still executed finds the log open: only the sweeper *)
(* is ever refused, for every interleaving with the signal.                *)
(***************************************************************************)
THEOREM OnlySweeperRefusedHolds == Spec => []OnlySweeperRefused
<1>1. LifeInv => OnlySweeperRefused
  BY DEF LifeInv
<1> QED
  BY <1>1, LifeInvHolds, PTL

(***************************************************************************)
(* When build_and_run returns, the reactor's, the workers' and the         *)
(* sweeper's threads are done, and every submitted task was executed and   *)
(* logged.                                                                 *)
(***************************************************************************)
THEOREM ReturnsQuietHolds == Spec => []ReturnsQuiet
<1>1. LifeInv => ReturnsQuiet
  <2> SUFFICES ASSUME LifeInv, main = "done"
               PROVE  /\ reactor = "returned" /\ sweeper = "done"
                      /\ \A w \in Workers : executing[w] = NoTask
                      /\ logged = submitted
    BY DEF ReturnsQuiet
  <2>1. /\ reactor = "returned" /\ sweeper = "done" /\ queue = <<>>
        /\ \A w \in Workers : executing[w] = NoTask
    BY DEF LifeInv, PhaseInv, ReactorJoined, WorkersJoined
  <2>2. Len(queue) = 0 /\ NoTask \notin submitted /\ logged \subseteq submitted
    BY <2>1, EmptySeq, LifecycleAssumption DEF LifeInv, TypeOK
  <2>3. submitted \subseteq logged
    BY <2>1, <2>2 DEF LifeInv, TaskInv
  <2> QED
    BY <2>1, <2>2, <2>3
<1> QED
  BY <1>1, LifeInvHolds, PTL
=============================================================================
