-------------------------- MODULE WorkerPoolProofs --------------------------
(***************************************************************************)
(* Proofs about the worker pool, for every number of workers and tasks and *)
(* every queue size.                                                       *)
(***************************************************************************)
EXTENDS WorkerPool, TLAPS, SequenceTheorems, FiniteSetTheorems

(* Sequences without repetition, and what they hold. *)
Distinct(s) == \A i, j \in DOMAIN s : i # j => s[i] # s[j]

LEMMA AppendElements ==
  ASSUME NEW S, NEW s \in Seq(S), NEW e \in S
  PROVE  /\ Elements(Append(s, e)) = Elements(s) \cup {e}
         /\ Distinct(s) /\ e \notin Elements(s) => Distinct(Append(s, e))
<1>1. /\ DOMAIN s = 1 .. Len(s) /\ Len(s) \in Nat
      /\ DOMAIN Append(s, e) = 1 .. (Len(s) + 1)
      /\ \A i \in 1 .. Len(s) : Append(s, e)[i] = s[i]
      /\ Append(s, e)[Len(s) + 1] = e
  BY AppendProperties, LenProperties
<1>2. Elements(Append(s, e)) = Elements(s) \cup {e}
  <2>1. ASSUME NEW x \in Elements(Append(s, e)) PROVE x \in Elements(s) \cup {e}
    <3>1. PICK i \in 1 .. (Len(s) + 1) : x = Append(s, e)[i]
      BY <1>1, <2>1 DEF Elements
    <3>2. CASE i = Len(s) + 1
      BY <1>1, <3>1, <3>2
    <3>3. CASE i \in 1 .. Len(s)
      BY <1>1, <3>1, <3>3 DEF Elements
    <3> QED
      BY <1>1, <3>2, <3>3
  <2>2. ASSUME NEW x \in Elements(s) \cup {e} PROVE x \in Elements(Append(s, e))
    <3>1. Len(s) + 1 \in 1 .. (Len(s) + 1) /\ 1 .. Len(s) \subseteq 1 .. (Len(s) + 1)
      BY <1>1
    <3> QED
      BY <1>1, <2>2, <3>1 DEF Elements
  <2> QED
    BY <2>1, <2>2
<1>3. ASSUME Distinct(s), e \notin Elements(s) PROVE Distinct(Append(s, e))
  BY <1>1, <1>3 DEF Distinct, Elements
<1> QED
  BY <1>2, <1>3

LEMMA TailElements ==
  ASSUME NEW S, NEW s \in Seq(S), s # <<>>
  PROVE  /\ Elements(s) = {Head(s)} \cup Elements(Tail(s))
         /\ Distinct(s) => Distinct(Tail(s)) /\ Head(s) \notin Elements(Tail(s))
<1>1. /\ DOMAIN s = 1 .. Len(s) /\ Len(s) \in Nat \ {0} /\ Head(s) = s[1]
      /\ DOMAIN Tail(s) = 1 .. (Len(s) - 1)
      /\ \A i \in 1 .. (Len(s) - 1) : Tail(s)[i] = s[i + 1]
  BY HeadTailProperties, LenProperties, EmptySeq
<1>2. Elements(s) = {Head(s)} \cup Elements(Tail(s))
  <2>1. ASSUME NEW x \in Elements(s) PROVE x \in {Head(s)} \cup Elements(Tail(s))
    <3>1. PICK i \in 1 .. Len(s) : x = s[i]
      BY <1>1, <2>1 DEF Elements
    <3>2. CASE i = 1
      BY <1>1, <3>1, <3>2
    <3>3. CASE i # 1
      <4>1. i - 1 \in 1 .. (Len(s) - 1) /\ x = Tail(s)[i - 1]
        BY <1>1, <3>1, <3>3
      <4> QED
        BY <1>1, <4>1 DEF Elements
    <3> QED
      BY <3>2, <3>3
  <2>2. ASSUME NEW x \in Elements(Tail(s)) PROVE x \in Elements(s)
    <3>1. PICK i \in 1 .. (Len(s) - 1) : x = Tail(s)[i]
      BY <1>1, <2>2 DEF Elements
    <3>2. i + 1 \in 1 .. Len(s) /\ x = s[i + 1]
      BY <1>1, <3>1
    <3> QED
      BY <1>1, <3>2 DEF Elements
  <2>3. Head(s) \in Elements(s)
    BY <1>1 DEF Elements
  <2> QED
    BY <2>1, <2>2, <2>3
<1>3. ASSUME Distinct(s) PROVE Distinct(Tail(s)) /\ Head(s) \notin Elements(Tail(s))
  BY <1>1, <1>3 DEF Distinct, Elements
<1> QED
  BY <1>2, <1>3

LEMMA EmptyElements == Elements(<<>>) = {} /\ Distinct(<<>>)
  BY DEF Elements, Distinct
-----------------------------------------------------------------------------
(***************************************************************************)
(* What the place of each thread says about the rest of the state.         *)
(***************************************************************************)
ControlInv ==
  /\ \A w \in Workers : pc[w] = "executing" <=> task[w] # NoTask
  /\ running <=> closer = "up"
  /\ \A w \in Workers : pc[w] = "exited" => queue = <<>> /\ ~running
  /\ closer = "joined" => \A w \in Workers : pc[w] = "exited"

TypeInv == TypeOK /\ ControlInv

LEMMA InitTypeInv == Init => TypeInv
  BY WorkerPoolAssumption DEF Init, TypeInv, TypeOK, ControlInv, WorkerPC

LEMMA NextTypeInv == TypeInv /\ [Next]_vars => TypeInv'
<1> SUFFICES ASSUME TypeInv, [Next]_vars PROVE TypeInv'
  OBVIOUS
<1> USE DEF TypeInv
<1>1. ASSUME NEW t \in Task, SubmitPush(t) PROVE TypeInv'
  <2>1. TypeOK'
    BY <1>1, WorkerPoolAssumption DEF TypeOK, SubmitPush, Offer, CanSubmit
  <2> QED
    BY <2>1, <1>1 DEF TypeOK, ControlInv, SubmitPush, Offer, CanSubmit
<1>2. ASSUME NEW t \in Task, SubmitReject(t) PROVE TypeInv'
  BY <1>2 DEF TypeOK, ControlInv, SubmitReject, Offer
<1>3. ASSUME NEW t \in Task, Push(t) PROVE TypeInv'
  BY <1>3 DEF TypeOK, ControlInv, Push, Offer
<1>4. ASSUME NotifyOne PROVE TypeInv'
  <2>1. CASE Waiting = {}
    BY <1>4, <2>1 DEF TypeOK, ControlInv, NotifyOne
  <2>2. CASE Waiting # {}
    <3>1. PICK w \in Waiting : pc' = [pc EXCEPT ![w] = "ready"]
      BY <1>4, <2>2 DEF NotifyOne
    <3>2. w \in Workers /\ pc[w] = "waiting"
      BY <3>1 DEF Waiting
    <3> QED
      BY <1>4, <3>1, <3>2 DEF TypeOK, ControlInv, WorkerPC, NotifyOne
  <2> QED
    BY <2>1, <2>2
<1>5. ASSUME Drain PROVE TypeInv'
  <2>1. Elements(completions) \subseteq Task
    BY ElementOfSeq, LenProperties DEF Elements, TypeOK
  <2> QED
    BY <1>5, <2>1 DEF TypeOK, ControlInv, Drain
<1>6. ASSUME NEW w \in Workers, Await(w) PROVE TypeInv'
  BY <1>6 DEF TypeOK, ControlInv, WorkerPC, Await
<1>7. ASSUME NEW w \in Workers, Take(w) PROVE TypeInv'
  <2>1. Head(queue) \in Task /\ Tail(queue) \in Seq(Task) /\ Len(Tail(queue)) <= MaxQueueSize
    BY <1>7, HeadTailProperties, LenProperties, WorkerPoolAssumption DEF TypeOK, Take
  <2> QED
    BY <1>7, <2>1, WorkerPoolAssumption DEF TypeOK, ControlInv, WorkerPC, Take
<1>8. ASSUME NEW w \in Workers, Exit(w) PROVE TypeInv'
  BY <1>8 DEF TypeOK, ControlInv, WorkerPC, Exit
<1>9. ASSUME NEW w \in Workers, Execute(w) PROVE TypeInv'
  <2>1. task[w] \in Task
    BY <1>9 DEF TypeOK, ControlInv, Execute
  <2> QED
    BY <1>9, <2>1 DEF TypeOK, ControlInv, WorkerPC, Execute
<1>10. ASSUME NEW w \in Workers, SpuriousWakeup(w) PROVE TypeInv'
  BY <1>10 DEF TypeOK, ControlInv, WorkerPC, SpuriousWakeup
<1>11. ASSUME ShutdownFlag PROVE TypeInv'
  BY <1>11 DEF TypeOK, ControlInv, ShutdownFlag
<1>12. ASSUME ShutdownNotify PROVE TypeInv'
  BY <1>12 DEF TypeOK, ControlInv, WorkerPC, ShutdownNotify
<1>13. ASSUME ShutdownJoin PROVE TypeInv'
  BY <1>13 DEF TypeOK, ControlInv, ShutdownJoin
<1>14. CASE UNCHANGED vars
  BY <1>14 DEF TypeOK, ControlInv, vars
<1> QED
  BY <1>1, <1>2, <1>3, <1>4, <1>5, <1>6, <1>7, <1>8, <1>9, <1>10, <1>11, <1>12, <1>13, <1>14
  DEF Next, Producer, WorkerStep, Shutdown, Terminated

(***************************************************************************)
(* The pool's state has its types; in particular the queue never grows     *)
(* past max_queue_size (submit, worker_pool.cpp).                          *)
(***************************************************************************)
THEOREM TypeCorrect == Spec => []TypeOK
<1>1. Spec => []TypeInv
  BY InitTypeInv, NextTypeInv, PTL DEF Spec
<1>2. TypeInv => TypeOK
  BY DEF TypeInv
<1> QED
  BY <1>1, <1>2, PTL
-----------------------------------------------------------------------------
(* The tasks the workers hold. *)
Held == {task[w] : w \in Running}

(***************************************************************************)
(* A task is accepted at most once because each is offered at most once.   *)
(***************************************************************************)
OnceInv == TypeInv /\ ExactlyOnce /\ accepted \subseteq offered

(* ExactlyOnce in terms of the sets of tasks in each place. *)
Sets ==
  /\ Distinct(queue) /\ Distinct(completions)
  /\ \A v, w \in Running : v # w => task[v] # task[w]
  /\ accepted = Elements(queue) \cup Held \cup Elements(completions) \cup drained
  /\ Elements(queue) \cap (Held \cup Elements(completions) \cup drained) = {}
  /\ Held \cap (Elements(completions) \cup drained) = {}
  /\ Elements(completions) \cap drained = {}

LEMMA ExactlyOnceSets == (ExactlyOnce <=> Sets) /\ (ExactlyOnce' <=> Sets')
  BY DEF ExactlyOnce, Sets, Distinct, Held

LEMMA InitOnceInv == Init => OnceInv
<1> SUFFICES ASSUME Init PROVE OnceInv
  OBVIOUS
<1>1. Running = {} /\ Held = {}
  BY DEF Init, Running, Held
<1>2. Sets
  BY <1>1, EmptyElements DEF Init, Sets
<1> QED
  BY <1>2, InitTypeInv, ExactlyOnceSets DEF OnceInv, Init

(* The tasks held change only when a worker takes or finishes one. *)
LEMMA SameHeld == task' = task => Held' = Held /\ Running' = Running
  BY DEF Held, Running

LEMMA SubmitOnce ==
  ASSUME OnceInv, NEW t \in Task, SubmitPush(t)
  PROVE  ExactlyOnce' /\ (accepted \subseteq offered)'
<1>1. t \notin accepted
  BY DEF OnceInv, SubmitPush, Offer
<1>2. Sets /\ t \notin Elements(queue) \cup Held \cup Elements(completions) \cup drained
  BY <1>1, ExactlyOnceSets DEF OnceInv, Sets
<1>3. Elements(queue') = Elements(queue) \cup {t} /\ Distinct(queue')
  BY <1>2, AppendElements DEF SubmitPush, OnceInv, TypeInv, TypeOK, Sets
<1>4. /\ completions' = completions /\ task' = task /\ drained' = drained
      /\ accepted' = accepted \cup {t} /\ offered' = offered \cup {t}
  BY DEF SubmitPush, Offer
<1>5. Held' = Held /\ Running' = Running
  BY <1>4, SameHeld
<1>6. Sets'
  BY <1>2, <1>3, <1>4, <1>5 DEF Sets
<1> QED
  BY <1>4, <1>6, ExactlyOnceSets DEF OnceInv

LEMMA PushOnce ==
  ASSUME OnceInv, NEW t \in Task, Push(t)
  PROVE  ExactlyOnce' /\ (accepted \subseteq offered)'
<1>1. t \notin accepted
  BY DEF OnceInv, Push, Offer
<1>2. Sets /\ t \notin Elements(queue) \cup Held \cup Elements(completions) \cup drained
  BY <1>1, ExactlyOnceSets DEF OnceInv, Sets
<1>3. Elements(completions') = Elements(completions) \cup {t} /\ Distinct(completions')
  BY <1>2, AppendElements DEF Push, OnceInv, TypeInv, TypeOK, Sets
<1>4. /\ queue' = queue /\ task' = task /\ drained' = drained
      /\ accepted' = accepted \cup {t} /\ offered' = offered \cup {t}
  BY DEF Push, Offer
<1>5. Held' = Held /\ Running' = Running
  BY <1>4, SameHeld
<1>6. Sets'
  BY <1>2, <1>3, <1>4, <1>5 DEF Sets
<1> QED
  BY <1>4, <1>6, ExactlyOnceSets DEF OnceInv

LEMMA DrainOnce ==
  ASSUME OnceInv, Drain
  PROVE  ExactlyOnce'
<1>1. Sets /\ queue' = queue /\ task' = task /\ accepted' = accepted
  BY ExactlyOnceSets DEF OnceInv, Drain
<1>2. /\ Elements(completions') = {} /\ Distinct(completions')
      /\ drained' = drained \cup Elements(completions)
  BY EmptyElements DEF Drain
<1>3. Held' = Held /\ Running' = Running
  BY <1>1, SameHeld
<1>4. Sets'
  BY <1>1, <1>2, <1>3 DEF Sets
<1> QED
  BY <1>4, ExactlyOnceSets

LEMMA TakeOnce ==
  ASSUME OnceInv, NEW w \in Workers, Take(w)
  PROVE  ExactlyOnce'
<1> DEFINE t == Head(queue)
<1>1. /\ Sets /\ TypeOK /\ queue # <<>> /\ queue' = Tail(queue)
      /\ completions' = completions /\ accepted' = accepted /\ drained' = drained
  BY ExactlyOnceSets DEF OnceInv, TypeInv, Take
<1>2. /\ Elements(queue) = {t} \cup Elements(queue') /\ t \notin Elements(queue')
      /\ Distinct(queue') /\ t \in Task
  BY <1>1, TailElements, HeadTailProperties DEF Sets, TypeOK
<1>3. task[w] = NoTask /\ task' = [task EXCEPT ![w] = t] /\ t # NoTask
  BY <1>2, WorkerPoolAssumption DEF Take, OnceInv, TypeInv, ControlInv
<1>4. Running' = Running \cup {w} /\ w \notin Running
  BY <1>1, <1>3 DEF Running, TypeOK
<1>5. /\ \A v \in Running : task'[v] = task[v]
      /\ task'[w] = t
  BY <1>1, <1>3, <1>4 DEF Running, TypeOK
<1>6. Held' = Held \cup {t}
  BY <1>4, <1>5 DEF Held
<1>7. t \notin Held
  BY <1>1, <1>2 DEF Sets
<1>8. \A v, u \in Running' : v # u => task'[v] # task'[u]
  BY <1>1, <1>4, <1>5, <1>7 DEF Sets, Held
<1>9. Sets'
  BY <1>1, <1>2, <1>6, <1>7, <1>8 DEF Sets
<1> QED
  BY <1>9, ExactlyOnceSets

LEMMA ExecuteOnce ==
  ASSUME OnceInv, NEW w \in Workers, Execute(w)
  PROVE  ExactlyOnce'
<1> DEFINE t == task[w]
<1>1. /\ Sets /\ TypeOK /\ queue' = queue /\ completions' = Append(completions, t)
      /\ accepted' = accepted /\ drained' = drained
      /\ task' = [task EXCEPT ![w] = NoTask] /\ t # NoTask /\ t \in Task
  BY ExactlyOnceSets DEF OnceInv, TypeInv, TypeOK, ControlInv, Execute
<1>2. Running' = Running \ {w} /\ w \in Running
  BY <1>1 DEF Running, TypeOK
<1>3. \A v \in Running' : task'[v] = task[v]
  BY <1>1, <1>2 DEF Running, TypeOK
<1>4. Held = Held' \cup {t} /\ t \notin Held'
  BY <1>1, <1>2, <1>3 DEF Held, Sets
<1>5. t \notin Elements(completions)
  BY <1>1, <1>4 DEF Sets
<1>6. Elements(completions') = Elements(completions) \cup {t} /\ Distinct(completions')
  BY <1>1, <1>5, AppendElements DEF Sets, TypeOK
<1>7. \A v, u \in Running' : v # u => task'[v] # task'[u]
  BY <1>1, <1>2, <1>3 DEF Sets
<1>8. Sets'
  BY <1>1, <1>4, <1>6, <1>7 DEF Sets
<1> QED
  BY <1>8, ExactlyOnceSets

LEMMA NextOnceInv == OnceInv /\ [Next]_vars => OnceInv'
<1> SUFFICES ASSUME OnceInv, [Next]_vars PROVE OnceInv'
  OBVIOUS
<1>1. TypeInv'
  BY NextTypeInv DEF OnceInv
<1>2. ASSUME UNCHANGED <<queue, completions, task, accepted, drained>>
      PROVE  ExactlyOnce'
  BY <1>2 DEF OnceInv, ExactlyOnce, Running
<1>3. ASSUME NEW t \in Task, SubmitPush(t) \/ SubmitReject(t) \/ Push(t)
      PROVE  ExactlyOnce' /\ (accepted \subseteq offered)'
  <2>1. CASE SubmitReject(t)
    BY <1>2, <2>1 DEF SubmitReject, Offer, OnceInv
  <2> QED
    BY <1>3, <2>1, SubmitOnce, PushOnce
<1>4. ASSUME NotifyOne PROVE ExactlyOnce' /\ (accepted \subseteq offered)'
  BY <1>2, <1>4 DEF NotifyOne, OnceInv
<1>5. ASSUME Drain PROVE ExactlyOnce' /\ (accepted \subseteq offered)'
  BY <1>5, DrainOnce DEF Drain, OnceInv
<1>6. ASSUME NEW w \in Workers, Take(w) \/ Execute(w)
      PROVE  ExactlyOnce' /\ (accepted \subseteq offered)'
  BY <1>6, TakeOnce, ExecuteOnce DEF Take, Execute, OnceInv
<1>7. ASSUME NEW w \in Workers, Await(w) \/ Exit(w) \/ SpuriousWakeup(w)
      PROVE  ExactlyOnce' /\ (accepted \subseteq offered)'
  BY <1>2, <1>7 DEF Await, Exit, SpuriousWakeup, OnceInv
<1>8. ASSUME Shutdown \/ UNCHANGED vars
      PROVE  ExactlyOnce' /\ (accepted \subseteq offered)'
  BY <1>2, <1>8 DEF Shutdown, ShutdownFlag, ShutdownNotify, ShutdownJoin, vars, OnceInv
<1> QED
  BY <1>1, <1>3, <1>4, <1>5, <1>6, <1>7, <1>8
  DEF OnceInv, Next, Producer, WorkerStep, Terminated

LEMMA OnceInvHolds == Spec => []OnceInv
  BY InitOnceInv, NextOnceInv, PTL DEF Spec

(***************************************************************************)
(* No task that submit accepted, and no result posted, is ever lost or     *)
(* executed twice, whatever the workers and shutdown do (worker_loop,      *)
(* CompletionQueue).                                                       *)
(***************************************************************************)
THEOREM ExactlyOnceHolds == Spec => []ExactlyOnce
<1>1. OnceInv => ExactlyOnce
  BY DEF OnceInv
<1> QED
  BY <1>1, OnceInvHolds, PTL

(***************************************************************************)
(* When shutdown returns, every accepted task has its result: workers that *)
(* have left saw an empty queue, and none of them holds a task.            *)
(***************************************************************************)
THEOREM JoinedMeansDoneHolds == Spec => []JoinedMeansDone
<1>1. OnceInv => JoinedMeansDone
  <2> SUFFICES ASSUME OnceInv, closer = "joined"
               PROVE  accepted = Elements(completions) \cup drained
    BY DEF JoinedMeansDone
  <2>1. \A w \in Workers : pc[w] = "exited" /\ task[w] = NoTask
    BY DEF OnceInv, TypeInv, ControlInv
  <2>2. Held = {}
    BY <2>1 DEF Held, Running
  <2>3. queue = <<>>
    BY <2>1, WorkerPoolAssumption DEF OnceInv, TypeInv, ControlInv
  <2> QED
    BY <2>2, <2>3, EmptyElements, ExactlyOnceSets DEF OnceInv, Sets
<1> QED
  BY <1>1, OnceInvHolds, PTL
-----------------------------------------------------------------------------
Ready == {w \in Workers : pc[w] = "ready"}

(* A worker becomes ready, or stops being so. *)
LEMMA ReadyCount ==
  ASSUME TypeInv, NEW w \in Workers, NEW to \in WorkerPC,
         pc' = [pc EXCEPT ![w] = to]
  PROVE  /\ Cardinality(Ready) \in Nat /\ Cardinality(Ready)' \in Nat
         /\ pc[w] # "ready" /\ to = "ready" =>
              Cardinality(Ready)' = Cardinality(Ready) + 1
         /\ pc[w] = "ready" /\ to # "ready" =>
              Cardinality(Ready)' = Cardinality(Ready) - 1
<1>1. IsFiniteSet(Ready) /\ Cardinality(Ready) \in Nat
  BY WorkerPoolAssumption, FS_Subset, FS_CardinalityType DEF Ready
<1>2. IsFiniteSet(Ready') /\ Cardinality(Ready') \in Nat
  BY WorkerPoolAssumption, FS_Subset, FS_CardinalityType DEF Ready
<1>3. ASSUME pc[w] # "ready", to = "ready"
      PROVE  Cardinality(Ready') = Cardinality(Ready) + 1
  <2>1. Ready' = Ready \cup {w} /\ w \notin Ready
    BY <1>3 DEF Ready, TypeInv, TypeOK
  <2> QED
    BY <1>1, <2>1, FS_AddElement
<1>4. ASSUME pc[w] = "ready", to # "ready"
      PROVE  Cardinality(Ready') = Cardinality(Ready) - 1
  <2>1. Ready' = Ready \ {w} /\ w \in Ready
    BY <1>4 DEF Ready, TypeInv, TypeOK
  <2> QED
    BY <1>1, <2>1, FS_RemoveElement
<1> QED
  BY <1>1, <1>2, <1>3, <1>4

(* WorkConserving with the set of ready workers named. *)
Conserved == Waiting # {} =>
               Len(queue) <= Cardinality(Ready) + (IF producer = "pushed" THEN 1 ELSE 0)

ConserveInv == TypeInv /\ Conserved

LEMMA WorkConservingReady == WorkConserving <=> Conserved
  BY DEF WorkConserving, Conserved, Ready

LEMMA NextConserveInv == ConserveInv /\ [Next]_vars => ConserveInv'
<1> SUFFICES ASSUME ConserveInv, [Next]_vars PROVE Conserved'
  BY NextTypeInv DEF ConserveInv
<1>0. TypeInv /\ TypeOK /\ Conserved /\ Len(queue) \in Nat
  BY LenProperties DEF ConserveInv, TypeInv, TypeOK
<1>a. Cardinality(Ready) \in Nat
  BY WorkerPoolAssumption, FS_Subset, FS_CardinalityType DEF Ready
<1>b. ASSUME UNCHANGED pc PROVE Ready' = Ready /\ Waiting' = Waiting
  BY <1>b DEF Ready, Waiting
<1>1. ASSUME NEW t \in Task, SubmitPush(t) PROVE Conserved'
  <2>1. Len(queue') = Len(queue) + 1 /\ producer = "idle" /\ producer' = "pushed"
    BY <1>0, <1>1, AppendProperties DEF SubmitPush, Offer, TypeOK
  <2>2. Ready' = Ready /\ Waiting' = Waiting
    BY <1>1, <1>b DEF SubmitPush
  <2> QED
    BY <1>0, <1>a, <2>1, <2>2 DEF Conserved
<1>2. ASSUME NEW t \in Task, SubmitReject(t) \/ Push(t) PROVE Conserved'
  <2>1. queue' = queue /\ producer' = producer /\ Ready' = Ready /\ Waiting' = Waiting
    BY <1>2, <1>b DEF SubmitReject, Push
  <2> QED
    BY <1>0, <2>1 DEF Conserved
<1>3. ASSUME NotifyOne PROVE Conserved'
  <2>1. CASE Waiting = {}
    <3>1. Waiting' = {}
      BY <1>3, <1>b, <2>1 DEF NotifyOne
    <3> QED
      BY <3>1 DEF Conserved
  <2>2. CASE Waiting # {}
    <3>1. PICK w \in Waiting : pc' = [pc EXCEPT ![w] = "ready"]
      BY <1>3, <2>2 DEF NotifyOne
    <3>2. w \in Workers /\ pc[w] = "waiting" /\ "ready" \in WorkerPC
      BY <3>1 DEF Waiting, WorkerPC
    <3>3. Cardinality(Ready') = Cardinality(Ready) + 1
      BY <1>0, <3>1, <3>2, ReadyCount
    <3>4. queue' = queue /\ producer = "pushed" /\ producer' = "idle"
      BY <1>3 DEF NotifyOne
    <3> QED
      BY <1>0, <1>a, <2>2, <3>3, <3>4 DEF Conserved
  <2> QED
    BY <2>1, <2>2
<1>4. ASSUME Drain PROVE Conserved'
  <2>1. queue' = queue /\ producer' = producer /\ Ready' = Ready /\ Waiting' = Waiting
    BY <1>4, <1>b DEF Drain
  <2> QED
    BY <1>0, <2>1 DEF Conserved
<1>5. ASSUME NEW w \in Workers, Await(w) \/ Exit(w) PROVE Conserved'
  <2>1. Len(queue') = 0 /\ producer' = producer
    BY <1>5, EmptySeq DEF Await, Exit
  <2>2. Cardinality(Ready') \in Nat
    BY WorkerPoolAssumption, FS_Subset, FS_CardinalityType DEF Ready
  <2> QED
    BY <2>1, <2>2 DEF Conserved
<1>6. ASSUME NEW w \in Workers, Take(w) PROVE Conserved'
  <2>1. Len(queue') = Len(queue) - 1 /\ producer' = producer
    BY <1>0, <1>6, HeadTailProperties DEF Take, TypeOK
  <2>2. Cardinality(Ready') = Cardinality(Ready) - 1
    BY <1>0, <1>6, ReadyCount DEF Take, WorkerPC
  <2>3. Waiting' = Waiting
    BY <1>0, <1>6 DEF Take, Waiting, TypeOK
  <2> QED
    BY <1>0, <1>a, <2>1, <2>2, <2>3 DEF Conserved
<1>7. ASSUME NEW w \in Workers, Execute(w) \/ SpuriousWakeup(w) PROVE Conserved'
  <2>1. queue' = queue /\ producer' = producer
    BY <1>7 DEF Execute, SpuriousWakeup
  <2>2. Cardinality(Ready') = Cardinality(Ready) + 1
    BY <1>0, <1>7, ReadyCount DEF Execute, SpuriousWakeup, WorkerPC
  <2>3. Waiting' \subseteq Waiting
    BY <1>0, <1>7 DEF Execute, SpuriousWakeup, Waiting, TypeOK
  <2> QED
    BY <1>0, <1>a, <2>1, <2>2, <2>3 DEF Conserved
<1>8. ASSUME ShutdownNotify PROVE Conserved'
  <2>1. Waiting' = {}
    BY <1>8 DEF ShutdownNotify, Waiting
  <2> QED
    BY <2>1 DEF Conserved
<1>9. ASSUME ShutdownFlag \/ ShutdownJoin \/ UNCHANGED vars PROVE Conserved'
  <2>1. queue' = queue /\ producer' = producer /\ Ready' = Ready /\ Waiting' = Waiting
    BY <1>9, <1>b DEF ShutdownFlag, ShutdownJoin, vars
  <2> QED
    BY <1>0, <2>1 DEF Conserved
<1> QED
  BY <1>1, <1>2, <1>3, <1>4, <1>5, <1>6, <1>7, <1>8, <1>9
  DEF Next, Producer, WorkerStep, Shutdown, Terminated

(***************************************************************************)
(* No wake-up is lost, for any number of workers and tasks: submit's late  *)
(* notify_one, made after it has released the lock, is always enough       *)
(* (submit, worker_loop).                                                  *)
(***************************************************************************)
THEOREM WorkConservingHolds == Spec => []WorkConserving
<1>1. Init => ConserveInv
  <2> SUFFICES ASSUME Init PROVE Waiting = {}
    BY InitTypeInv DEF ConserveInv, Conserved
  <2> QED
    BY DEF Init, Waiting
<1>2. Spec => []ConserveInv
  BY <1>1, NextConserveInv, PTL DEF Spec
<1>3. ConserveInv => WorkConserving
  BY WorkConservingReady DEF ConserveInv
<1> QED
  BY <1>2, <1>3, PTL
-----------------------------------------------------------------------------
LEMMA StepSimulation ==
  ASSUME TypeInv, [Next]_vars
  PROVE  [Pool!PoolNext(Task)]_(Pool!poolVars)
<1> USE DEF Pool!poolVars
<1>1. ASSUME NEW t \in Task, SubmitPush(t) PROVE Pool!PoolNext(Task)
  BY <1>1 DEF SubmitPush, CanSubmit, Pool!PoolNext, Pool!Submit, Pool!HasRoom
<1>2. ASSUME NEW t \in Task, Push(t) PROVE Pool!PoolNext(Task)
  BY <1>2 DEF Push, Pool!PoolNext, Pool!Post
<1>3. ASSUME Drain PROVE Pool!PoolNext(Task)
  BY <1>3 DEF Drain, Pool!PoolNext, Pool!DrainAll
<1>4. ASSUME NEW w \in Workers, Take(w) PROVE Pool!PoolNext(Task)
  <2>1. task[w] = NoTask
    BY <1>4 DEF Take, TypeInv, ControlInv
  <2> QED
    BY <1>4, <2>1 DEF Take, Pool!PoolNext, Pool!Take
<1>5. ASSUME NEW w \in Workers, Execute(w) PROVE Pool!PoolNext(Task)
  <2>1. task[w] # NoTask
    BY <1>5 DEF Execute, TypeInv, ControlInv
  <2> QED
    BY <1>5, <2>1 DEF Execute, Pool!PoolNext, Pool!Finish
<1>6. ASSUME NEW t \in Task, SubmitReject(t) PROVE UNCHANGED Pool!poolVars
  BY <1>6 DEF SubmitReject
<1>7. ASSUME NotifyOne \/ Shutdown \/ UNCHANGED vars PROVE UNCHANGED Pool!poolVars
  BY <1>7 DEF NotifyOne, Shutdown, ShutdownFlag, ShutdownNotify, ShutdownJoin, vars
<1>8. ASSUME NEW w \in Workers, Await(w) \/ Exit(w) \/ SpuriousWakeup(w)
      PROVE  UNCHANGED Pool!poolVars
  BY <1>8 DEF Await, Exit, SpuriousWakeup
<1> QED
  BY <1>1, <1>2, <1>3, <1>4, <1>5, <1>6, <1>7, <1>8
  DEF Next, Producer, WorkerStep, Terminated

(***************************************************************************)
(* With its mutex, its condition variable and its shutdown, the pool takes *)
(* only steps of the bounded FIFO that the reactor is modelled with: the   *)
(* part of ImplementsTaskPool that is not about fairness.                  *)
(***************************************************************************)
THEOREM PoolRefinesTaskPool == Spec => StepsOfTaskPool
<1>1. Init => Pool!PoolInit
  BY DEF Init, Pool!PoolInit
<1>2. TypeInv /\ [Next]_vars => [Pool!PoolNext(Task)]_(Pool!poolVars)
  BY StepSimulation
<1>3. Spec => []TypeInv
  BY InitTypeInv, NextTypeInv, PTL DEF Spec
<1> QED
  BY <1>1, <1>2, <1>3, PTL DEF Spec, StepsOfTaskPool
=============================================================================
