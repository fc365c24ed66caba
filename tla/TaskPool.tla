------------------------------ MODULE TaskPool ------------------------------
(***************************************************************************)
(* What the worker pool promises to the reactor: a bounded FIFO of tasks,  *)
(* workers that take one task at a time and post its result, and a         *)
(* completion queue the reactor empties in one go.  Mutexes, the condition *)
(* variable and shutdown are left to WorkerPool, which is shown to         *)
(* implement this module; Reactor extends it.                              *)
(*                                                                         *)
(* A task and the result it produces are the same value here: what a       *)
(* command answers is fixed when the task is created and travels with it.  *)
(***************************************************************************)
EXTENDS Naturals, Sequences

CONSTANTS Workers,        \* the worker threads
          MaxQueueSize,   \* max_queue_size of the constructor (10000)
          NoTask          \* a worker that executes nothing

ASSUME PoolAssumption == /\ MaxQueueSize \in Nat \ {0}
                         /\ Workers # {}

VARIABLES queue,        \* tasks submitted and not yet taken
          executing,    \* the task each worker is executing
          completions   \* results posted and not yet drained

poolVars == <<queue, executing, completions>>

PoolTypeOK(Task) == /\ queue \in Seq(Task)
                    /\ executing \in [Workers -> Task \cup {NoTask}]
                    /\ completions \in Seq(Task)

PoolInit == /\ queue = <<>>
            /\ executing = [w \in Workers |-> NoTask]
            /\ completions = <<>>

HasRoom == Len(queue) < MaxQueueSize

Submit(t) == /\ HasRoom
             /\ queue' = Append(queue, t)
             /\ UNCHANGED <<executing, completions>>

(* A result posted without a worker: the pipeline answers directly. *)
Post(t) == /\ completions' = Append(completions, t)
           /\ UNCHANGED <<queue, executing>>

Take(w) == /\ executing[w] = NoTask
           /\ queue # <<>>
           /\ executing' = [executing EXCEPT ![w] = Head(queue)]
           /\ queue' = Tail(queue)
           /\ UNCHANGED completions

(* Mutant: the task is moved away before its result is built. *)
FinishMoved(w) == /\ executing[w] # NoTask
                  /\ executing' = [executing EXCEPT ![w] = NoTask]
                  /\ completions' = Append(completions, executing'[w])
                  /\ UNCHANGED queue

Finish(w) == /\ executing[w] # NoTask
             /\ completions' = Append(completions, executing[w])
             /\ executing' = [executing EXCEPT ![w] = NoTask]
             /\ UNCHANGED queue

DrainAll == /\ completions' = <<>>
            /\ UNCHANGED <<queue, executing>>

PoolNext(Task) == \/ \E t \in Task : Submit(t) \/ Post(t)
                  \/ \E w \in Workers : Take(w) \/ Finish(w)
                  \/ DrainAll

(***************************************************************************)
(* Some idle worker takes a waiting task, but no worker in particular is   *)
(* promised one; a worker that took a task finishes it.                    *)
(***************************************************************************)
PoolFairness == /\ WF_poolVars(\E w \in Workers : Take(w))
                /\ \A w \in Workers : WF_poolVars(Finish(w))
=============================================================================
