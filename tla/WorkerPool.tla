----------------------------- MODULE WorkerPool -----------------------------
(***************************************************************************)
(* The worker pool and its completion queue at the grain of the mutex and  *)
(* the condition variable.  Every critical section is one action; the      *)
(* notification that follows an unlock is an action of its own, so every   *)
(* interleaving of a push, its notify_one, the workers' predicate and      *)
(* shutdown's notify_all is a behaviour.                                   *)
(*                                                                         *)
(* One thread (the reactor) submits, posts and drains; another one (main)  *)
(* shuts the pool down, here at any moment.                                *)
(***************************************************************************)
EXTENDS Naturals, Sequences, FiniteSets

CONSTANTS Workers, MaxQueueSize, NoTask,
          Task    \* the tasks the producer offers, each of them once

ASSUME WorkerPoolAssumption == /\ MaxQueueSize \in Nat \ {0}
                               /\ IsFiniteSet(Workers) /\ Workers # {}
                               /\ NoTask \notin Task

VARIABLES queue,        \* queue_
          completions,  \* queue_ of completion_queue_
          running,      \* running_
          pc,           \* where each worker thread is in worker_loop
          task,         \* the local variable task of worker_loop
          producer,     \* the submitting thread: has it pushed and not yet notified?
          closer,       \* the thread that calls shutdown
          offered,      \* history: tasks submitted or posted so far
          accepted,     \* history: tasks the pool took over
          drained       \* history: results handed to the reactor

vars == <<queue, completions, running, pc, task, producer, closer,
          offered, accepted, drained>>

Elements(s) == {s[i] : i \in DOMAIN s}

WorkerPC == {"ready", "waiting", "executing", "exited"}

TypeOK == /\ queue \in Seq(Task) /\ Len(queue) <= MaxQueueSize
          /\ completions \in Seq(Task)
          /\ running \in BOOLEAN
          /\ pc \in [Workers -> WorkerPC]
          /\ task \in [Workers -> Task \cup {NoTask}]
          /\ producer \in {"idle", "pushed"}
          /\ closer \in {"up", "flagged", "joining", "joined"}
          /\ offered \in SUBSET Task
          /\ accepted \in SUBSET Task
          /\ drained \in SUBSET Task

Init == /\ queue = <<>> /\ completions = <<>>
        /\ running = TRUE
        /\ pc = [w \in Workers |-> "ready"]
        /\ task = [w \in Workers |-> NoTask]
        /\ producer = "idle" /\ closer = "up"
        /\ offered = {} /\ accepted = {} /\ drained = {}
-----------------------------------------------------------------------------
(* The producer. *)

Offer(t) == /\ producer = "idle"
            /\ t \in Task \ offered
            /\ offered' = offered \cup {t}

(* Mutant: one task too many fits. *)
CanSubmitLate == running /\ Len(queue) <= MaxQueueSize

(* submit fails under the lock: shut down, or the queue is at its limit. *)
CanSubmit == running /\ Len(queue) < MaxQueueSize

SubmitPush(t) == /\ Offer(t)
                 /\ CanSubmit
                 /\ queue' = Append(queue, t)
                 /\ accepted' = accepted \cup {t}
                 /\ producer' = "pushed"
                 /\ UNCHANGED <<completions, running, pc, task, closer, drained>>

SubmitReject(t) == /\ Offer(t)
                   /\ ~CanSubmit
                   /\ UNCHANGED <<queue, completions, running, pc, task,
                                  producer, closer, accepted, drained>>

Waiting == {w \in Workers : pc[w] = "waiting"}

(* Mutant: the notification is forgotten. *)
NotifyNobody == /\ producer = "pushed"
                /\ producer' = "idle"
                /\ UNCHANGED <<queue, completions, running, pc, task, closer,
                               offered, accepted, drained>>

(* notify_one, after the lock is released: one sleeper, if there is any. *)
NotifyOne == /\ producer = "pushed"
             /\ producer' = "idle"
             /\ IF Waiting = {} THEN UNCHANGED pc
                ELSE \E w \in Waiting : pc' = [pc EXCEPT ![w] = "ready"]
             /\ UNCHANGED <<queue, completions, running, task, closer,
                            offered, accepted, drained>>

(* The pipeline posts an error result itself. *)
Push(t) == /\ Offer(t)
           /\ completions' = Append(completions, t)
           /\ accepted' = accepted \cup {t}
           /\ UNCHANGED <<queue, running, pc, task, producer, closer, drained>>

Drain == /\ producer = "idle"
         /\ completions # <<>>
         /\ drained' = drained \cup Elements(completions)
         /\ completions' = <<>>
         /\ UNCHANGED <<queue, running, pc, task, producer, closer,
                        offered, accepted>>
-----------------------------------------------------------------------------
(* worker_loop: with the lock held the predicate of the wait decides. *)

Await(w) == /\ pc[w] = "ready"
            /\ queue = <<>> /\ running
            /\ pc' = [pc EXCEPT ![w] = "waiting"]
            /\ UNCHANGED <<queue, completions, running, task, producer, closer,
                           offered, accepted, drained>>

(* Mutant: front() without pop(). *)
TakeWithoutPop(w) == /\ pc[w] = "ready"
                     /\ queue # <<>>
                     /\ task' = [task EXCEPT ![w] = Head(queue)]
                     /\ pc' = [pc EXCEPT ![w] = "executing"]
                     /\ UNCHANGED <<queue, completions, running, producer, closer,
                                    offered, accepted, drained>>

(* Mutant: a stack instead of a queue. *)
TakeNewest(w) == /\ pc[w] = "ready"
                 /\ queue # <<>>
                 /\ task' = [task EXCEPT ![w] = queue[Len(queue)]]
                 /\ queue' = SubSeq(queue, 1, Len(queue) - 1)
                 /\ pc' = [pc EXCEPT ![w] = "executing"]
                 /\ UNCHANGED <<completions, running, producer, closer,
                                offered, accepted, drained>>

Take(w) == /\ pc[w] = "ready"
           /\ queue # <<>>
           /\ task' = [task EXCEPT ![w] = Head(queue)]
           /\ queue' = Tail(queue)
           /\ pc' = [pc EXCEPT ![w] = "executing"]
           /\ UNCHANGED <<completions, running, producer, closer,
                          offered, accepted, drained>>

(* Mutant: workers leave although tasks wait. *)
ExitAtOnce(w) == /\ pc[w] = "ready" /\ ~running
                 /\ pc' = [pc EXCEPT ![w] = "exited"]
                 /\ UNCHANGED <<queue, completions, running, task, producer, closer,
                                offered, accepted, drained>>

Exit(w) == /\ pc[w] = "ready"
           /\ queue = <<>> /\ ~running
           /\ pc' = [pc EXCEPT ![w] = "exited"]
           /\ UNCHANGED <<queue, completions, running, task, producer, closer,
                          offered, accepted, drained>>

(* The command has been executed; its result goes to the completion queue. *)
Execute(w) == /\ pc[w] = "executing"
              /\ completions' = Append(completions, task[w])
              /\ task' = [task EXCEPT ![w] = NoTask]
              /\ pc' = [pc EXCEPT ![w] = "ready"]
              /\ UNCHANGED <<queue, running, producer, closer,
                             offered, accepted, drained>>

(* std::condition_variable may wake a waiter for no reason. *)
SpuriousWakeup(w) == /\ pc[w] = "waiting"
                     /\ pc' = [pc EXCEPT ![w] = "ready"]
                     /\ UNCHANGED <<queue, completions, running, task, producer,
                                    closer, offered, accepted, drained>>
-----------------------------------------------------------------------------
(* shutdown, in its three steps. *)

ShutdownFlag == /\ closer = "up"
                /\ running' = FALSE
                /\ closer' = "flagged"
                /\ UNCHANGED <<queue, completions, pc, task, producer,
                               offered, accepted, drained>>

(* Mutant: notify_one instead of notify_all. *)
ShutdownNotifyOne == /\ closer = "flagged"
                     /\ IF Waiting = {} THEN UNCHANGED pc
                        ELSE \E w \in Waiting : pc' = [pc EXCEPT ![w] = "ready"]
                     /\ closer' = "joining"
                     /\ UNCHANGED <<queue, completions, running, task, producer,
                                    offered, accepted, drained>>

ShutdownNotify == /\ closer = "flagged"
                  /\ pc' = [w \in Workers |->
                              IF pc[w] = "waiting" THEN "ready" ELSE pc[w]]
                  /\ closer' = "joining"
                  /\ UNCHANGED <<queue, completions, running, task, producer,
                                 offered, accepted, drained>>

ShutdownJoin == /\ closer = "joining"
                /\ \A w \in Workers : pc[w] = "exited"
                /\ closer' = "joined"
                /\ UNCHANGED <<queue, completions, running, pc, task, producer,
                               offered, accepted, drained>>

(* After the join nothing is left to do. *)
Terminated == closer = "joined" /\ UNCHANGED vars
-----------------------------------------------------------------------------
Producer == \/ \E t \in Task : SubmitPush(t) \/ SubmitReject(t) \/ Push(t)
            \/ NotifyOne
            \/ Drain

WorkerStep(w) == Await(w) \/ Take(w) \/ Exit(w) \/ Execute(w)

Shutdown == ShutdownFlag \/ ShutdownNotify \/ ShutdownJoin

Next == \/ Producer
        \/ \E w \in Workers : WorkerStep(w) \/ SpuriousWakeup(w)
        \/ Shutdown
        \/ Terminated

(***************************************************************************)
(* A worker that is neither asleep nor gone keeps running and every        *)
(* command returns; a started submit or shutdown goes on.  Nobody has to   *)
(* submit, drain or call shutdown, and no wake-up comes for free.          *)
(***************************************************************************)
Fairness == /\ \A w \in Workers : WF_vars(WorkerStep(w))
            /\ WF_vars(NotifyOne)
            /\ WF_vars(ShutdownNotify) /\ WF_vars(ShutdownJoin)

Spec == Init /\ [][Next]_vars /\ Fairness
-----------------------------------------------------------------------------
Running == {w \in Workers : task[w] # NoTask}

(***************************************************************************)
(* Every task submit accepted, and every result posted, is in exactly one  *)
(* place: waiting, being executed, completed, or handed to the reactor.    *)
(* None is lost or executed twice, whatever shutdown does meanwhile.       *)
(***************************************************************************)
ExactlyOnce ==
  /\ \A i, j \in DOMAIN queue : i # j => queue[i] # queue[j]
  /\ \A i, j \in DOMAIN completions : i # j => completions[i] # completions[j]
  /\ \A v, w \in Running : v # w => task[v] # task[w]
  /\ LET held == {task[w] : w \in Running} IN
       /\ accepted = Elements(queue) \cup held \cup Elements(completions)
                       \cup drained
       /\ Elements(queue) \cap (held \cup Elements(completions) \cup drained) = {}
       /\ held \cap (Elements(completions) \cup drained) = {}
       /\ Elements(completions) \cap drained = {}

(***************************************************************************)
(* shutdown drains: when it returns, every accepted task has its result.   *)
(***************************************************************************)
JoinedMeansDone == closer = "joined" =>
                     accepted = Elements(completions) \cup drained

(***************************************************************************)
(* No lost wake-up: a worker sleeps only while the tasks in the queue are  *)
(* no more than the workers awake to take them, counting the notification  *)
(* that submit still owes.                                                 *)
(***************************************************************************)
WorkConserving ==
  Waiting # {} =>
    Len(queue) <= Cardinality({w \in Workers : pc[w] = "ready"})
                    + (IF producer = "pushed" THEN 1 ELSE 0)

(***************************************************************************)
(* An accepted task completes even if every worker slept when it came.     *)
(***************************************************************************)
AcceptedCompletes ==
  \A t \in Task : (t \in accepted) ~> (t \in Elements(completions) \cup drained)

(* shutdown never hangs: a worker asleep at that moment is woken too. *)
ShutdownReturns == (closer = "flagged") ~> (closer = "joined")

(***************************************************************************)
(* The pool is the bounded FIFO that TaskPool promises to the reactor,     *)
(* with the same fairness: some idle worker takes a waiting task.          *)
(***************************************************************************)
Pool == INSTANCE TaskPool WITH executing <- task

StepsOfTaskPool == Pool!PoolInit /\ [][Pool!PoolNext(Task)]_(Pool!poolVars)

ImplementsTaskPool == StepsOfTaskPool /\ Pool!PoolFairness
=============================================================================
