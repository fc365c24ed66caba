--------------------------- MODULE ReactorProofs ---------------------------
(***************************************************************************)
(* Proofs about the reactor, for every number of workers, sockets, lines   *)
(* and connections, every queue size and every pipeline depth.             *)
(***************************************************************************)
EXTENDS Reactor, TLAPS, SequenceTheorems, FiniteSetTheorems

(***************************************************************************)
(* Where the reactor thread is, and what its local variables then hold.    *)
(***************************************************************************)
ControlInv ==
  /\ pc \in {"lines", "process"} => client \in Connected
  /\ pc = "process" => line \in Line
  /\ pc = "accept" => backlog > 0
  /\ \A c \in Sockets : revents[c] # {} => c \in Connected
  /\ pc \notin {"accept", "events", "lines", "process"} => revents = NoEvents
  /\ pc # "apply" => results = <<>>

TypeInv == TypeOK /\ ControlInv

LEMMA InitTypeInv == Init => TypeInv
<1> SUFFICES ASSUME Init PROVE TypeInv
  OBVIOUS
<1>1. PoolTypeOK(TaskResult)
  BY DEF Init, PoolInit, PoolTypeOK
<1>2. LoopTypeOK
  BY DEF Init, LoopTypeOK, NoEvents
<1>3. ConnTypeOK /\ KernelTypeOK /\ HistoryTypeOK
  BY DEF Init, ConnTypeOK, KernelTypeOK, HistoryTypeOK, Connected
<1>4. ControlInv
  BY DEF Init, ControlInv, NoEvents
<1> QED
  BY <1>1, <1>2, <1>3, <1>4 DEF TypeInv, TypeOK

LEMMA ResultType ==
  ASSUME HistoryTypeOK, NEW c \in Sockets, NEW seq \in Nat, NEW l \in Line,
         NEW st \in Status
  PROVE  Result(c, seq, l, st) \in TaskResult
  BY DEF HistoryTypeOK, Result, TaskResult, Response

(* What each operation of the pool does to its type. *)
LEMMA PoolStepType ==
  ASSUME PoolTypeOK(TaskResult)
  PROVE  /\ \A t \in TaskResult : Submit(t) => PoolTypeOK(TaskResult)'
         /\ \A t \in TaskResult : Post(t) => PoolTypeOK(TaskResult)'
         /\ \A w \in Workers : Take(w) => PoolTypeOK(TaskResult)'
         /\ \A w \in Workers : Finish(w) => PoolTypeOK(TaskResult)'
         /\ DrainAll => PoolTypeOK(TaskResult)'
         /\ UNCHANGED poolVars => PoolTypeOK(TaskResult)'
<1>1. ASSUME NEW t \in TaskResult, Submit(t) PROVE PoolTypeOK(TaskResult)'
  BY <1>1 DEF Submit, PoolTypeOK
<1>2. ASSUME NEW t \in TaskResult, Post(t) PROVE PoolTypeOK(TaskResult)'
  BY <1>2 DEF Post, PoolTypeOK
<1>3. ASSUME NEW w \in Workers, Take(w) PROVE PoolTypeOK(TaskResult)'
  BY <1>3 DEF Take, PoolTypeOK
<1>4. ASSUME NEW w \in Workers, Finish(w) PROVE PoolTypeOK(TaskResult)'
  BY <1>4 DEF Finish, PoolTypeOK
<1>5. ASSUME DrainAll PROVE PoolTypeOK(TaskResult)'
  BY <1>5 DEF DrainAll, PoolTypeOK
<1>6. ASSUME UNCHANGED poolVars PROVE PoolTypeOK(TaskResult)'
  BY <1>6 DEF poolVars, PoolTypeOK
<1> QED
  BY <1>1, <1>2, <1>3, <1>4, <1>5, <1>6

LEMMA PipelineType ==
  ASSUME TypeOK, NEW c \in Sockets, NEW seq \in Nat, NEW l \in Line,
         PipelineProcess(c, seq, l)
  PROVE  PoolTypeOK(TaskResult)'
<1>1. \A st \in Status : Result(c, seq, l, st) \in TaskResult
  BY ResultType DEF TypeOK
<1>2. Verdict(c, l) \in Status /\ "ok" \in Status /\ "server busy" \in Status
  BY DEF Verdict, Status, Allow
<1>3. CASE Verdict(c, l) = "ok" /\ HasRoom
  <2>1. Submit(Result(c, seq, l, "ok"))
    BY <1>3 DEF PipelineProcess, Dispatch
  <2> QED
    BY <2>1, <1>1, <1>2, PoolStepType DEF TypeOK
<1>4. CASE Verdict(c, l) = "ok" /\ ~HasRoom
  <2>1. Post(Result(c, seq, l, "server busy"))
    BY <1>4 DEF PipelineProcess, Dispatch
  <2> QED
    BY <2>1, <1>1, <1>2, PoolStepType DEF TypeOK
<1>5. CASE Verdict(c, l) # "ok"
  <2>1. Post(Result(c, seq, l, Verdict(c, l)))
    BY <1>5 DEF PipelineProcess
  <2> QED
    BY <2>1, <1>1, <1>2, PoolStepType DEF TypeOK
<1> QED
  BY <1>3, <1>4, <1>5

LEMMA DisconnectType ==
  ASSUME TypeInv, NEW c \in Sockets, pc = "events", Disconnect(c)
  PROVE  TypeInv'
<1>1. PoolTypeOK(TaskResult)'
  BY PoolStepType DEF TypeInv, TypeOK, Disconnect
<1>2. LoopTypeOK'
  BY DEF TypeInv, TypeOK, LoopTypeOK, Disconnect
<1>3. ConnTypeOK'
  BY DEF TypeInv, TypeOK, ConnTypeOK, Connected, Disconnect, NotPaused, CountedOff
<1>4. KernelTypeOK'
  BY DEF TypeInv, TypeOK, KernelTypeOK, Disconnect
<1>5. HistoryTypeOK'
  BY DEF TypeInv, TypeOK, HistoryTypeOK, Disconnect
<1>6. ControlInv'
  BY DEF TypeInv, TypeOK, LoopTypeOK, ControlInv, Disconnect, Connected, NoEvents
<1> QED
  BY <1>1, <1>2, <1>3, <1>4, <1>5, <1>6 DEF TypeInv, TypeOK

LEMMA FlushedType ==
  ASSUME NEW k \in ConnectionState, NEW buf \in SUBSET TaskResult, NEW n \in Nat,
         n >= k.next_seq_expected,
         \A s \in k.next_seq_expected .. (n - 1) : Parked(buf, s)
  PROVE  Flushed(k, buf, n) \in ConnectionState
<1> DEFINE from == k.next_seq_expected
           moved == [i \in 1 .. (n - from) |-> ParkedResponse(buf, from + i - 1)]
<1>0. from \in Nat
  BY DEF ConnectionState
<1>1. ASSUME NEW i \in 1 .. (n - from)
      PROVE  ParkedResponse(buf, from + i - 1) \in Response
  <2>1. from + i - 1 \in from .. (n - 1)
    BY <1>0
  <2>2. PICK x \in buf : x.sequence_id = from + i - 1
    BY <2>1 DEF Parked
  <2> QED
    BY <2>2 DEF ParkedResponse, TaskResult
<1>2. moved \in Seq(Response)
  BY <1>0, <1>1
<1>3. k.write_buffer \o moved \in Seq(Response)
  BY <1>2 DEF ConnectionState
<1>4. Less(k.in_flight_requests, n - from) \in Nat
  BY <1>0 DEF ConnectionState, Less
<1> QED
  BY <1>3, <1>4 DEF Flushed, ConnectionState

LEMMA ReassembleType ==
  ASSUME TypeInv, ReassembleResult
  PROVE  ConnTypeOK'
<1> DEFINE r == Head(results)
           c == r.client_fd
           from == connections[c].next_seq_expected
           buf == Park(connections[c].out_of_order_buf, r)
<1>1. r \in TaskResult /\ c \in Connected
  BY DEF TypeInv, TypeOK, LoopTypeOK, ReassembleResult
<1>2. connections[c] \in ConnectionState
  BY <1>1 DEF TypeInv, TypeOK, ConnTypeOK
<1>3. from \in Nat /\ buf \in SUBSET TaskResult
  BY <1>1, <1>2 DEF ConnectionState, Park
<1>4. IsFiniteSet(buf) => Cardinality(buf) \in Nat
  BY FS_CardinalityType
<1>5. PICK n \in from .. (from + Cardinality(buf)) :
        /\ \A s \in from .. (n - 1) : Parked(buf, s)
        /\ connections' = [connections EXCEPT ![c] = Flushed(@, buf, n)]
  BY DEF ReassembleResult
<1> QED
  BY <1>1, <1>2, <1>3, <1>5, FlushedType
     DEF TypeInv, TypeOK, ConnTypeOK, Connected, ReassembleResult

(* What an action leaves alone keeps its type. *)
LEMMA FrameType ==
  ASSUME TypeOK
  PROVE  /\ UNCHANGED <<connections, paused_reads, total_connections>>
              => ConnTypeOK'
         /\ UNCHANGED kernelVars => KernelTypeOK'
         /\ UNCHANGED historyVars => HistoryTypeOK'
         /\ UNCHANGED <<results, revents, client, line>>
              => /\ results' \in Seq(TaskResult)
                 /\ revents' \in [Sockets -> SUBSET Event]
                 /\ client' \in Sockets \cup {None}
                 /\ line' \in Line \cup {None}
<1>1. UNCHANGED <<connections, paused_reads, total_connections>> => ConnTypeOK'
  BY DEF TypeOK, ConnTypeOK, Connected
<1>2. UNCHANGED kernelVars => KernelTypeOK'
  BY DEF TypeOK, KernelTypeOK, kernelVars
<1>3. UNCHANGED historyVars => HistoryTypeOK'
  BY DEF TypeOK, HistoryTypeOK, historyVars
<1> QED
  BY <1>1, <1>2, <1>3 DEF TypeOK, LoopTypeOK

(* A connection is replaced by a well-formed one. *)
LEMMA UpdateType ==
  ASSUME ConnTypeOK, NEW c \in Connected, NEW k \in ConnectionState,
         connections' = [connections EXCEPT ![c] = k]
  PROVE  /\ Connected' = Connected
         /\ UNCHANGED <<paused_reads, total_connections>> => ConnTypeOK'
         /\ Connected' \subseteq Sockets
         /\ connections' \in [Connected' -> ConnectionState]
  BY DEF ConnTypeOK, Connected

LEMMA FieldType ==
  ASSUME NEW k \in ConnectionState
  PROVE  /\ \A rb \in Seq(Line) : [k EXCEPT !.read_buffer = rb] \in ConnectionState
         /\ \A i, f \in Nat : [k EXCEPT !.next_seq_issue = i, !.in_flight_requests = f]
                                \in ConnectionState
  BY DEF ConnectionState

LEMMA NextLineType ==
  ASSUME TypeInv, NextLine
  PROVE  /\ client \in Connected
         /\ Connected' = Connected
         /\ Connected' \subseteq Sockets
         /\ connections' \in [Connected' -> ConnectionState]
<1>1. client \in Connected /\ connections[client] \in ConnectionState
  BY DEF TypeInv, TypeOK, ConnTypeOK, ControlInv, NextLine
<1> DEFINE k == connections[client]
           l == [k EXCEPT !.read_buffer = Tail(k.read_buffer)]
<1>2. Tail(k.read_buffer) \in Seq(Line)
  BY <1>1 DEF NextLine, ConnectionState
<1>4. l \in ConnectionState
  BY <1>1, <1>2, FieldType
<1>3. connections' = [connections EXCEPT ![client] = l]
  BY DEF NextLine
<1> HIDE DEF l
<1> QED
  BY <1>1, <1>3, <1>4, UpdateType DEF TypeInv, TypeOK

LEMMA NextTypeInv == TypeInv /\ [Next]_vars => TypeInv'
<1> SUFFICES ASSUME TypeInv, [Next]_vars PROVE TypeInv'
  OBVIOUS
<1> USE DEF TypeInv
<1>1. CASE DrainCompletions
  <2>1. PoolTypeOK(TaskResult)'
    BY <1>1, PoolStepType DEF TypeOK, DrainCompletions
  <2>2. LoopTypeOK'
    BY <1>1 DEF TypeOK, LoopTypeOK, PoolTypeOK, DrainCompletions
  <2>3. ConnTypeOK'
    BY <1>1, FrameType DEF DrainCompletions
  <2>4. KernelTypeOK'
    BY <1>1, FrameType DEF DrainCompletions
  <2>5. HistoryTypeOK'
    BY <1>1, FrameType DEF DrainCompletions
  <2>6. ControlInv'
    BY <1>1 DEF TypeOK, LoopTypeOK, ControlInv, Connected, NoEvents, DrainCompletions
  <2> QED
    BY <2>1, <2>2, <2>3, <2>4, <2>5, <2>6 DEF TypeInv, TypeOK
<1>2. CASE DropResult
  <2>1. PoolTypeOK(TaskResult)'
    BY <1>2, PoolStepType DEF TypeOK, DropResult
  <2>2. LoopTypeOK'
    BY <1>2 DEF TypeOK, LoopTypeOK, DropResult
  <2>3. ConnTypeOK'
    BY <1>2, FrameType DEF DropResult
  <2>4. KernelTypeOK'
    BY <1>2, FrameType DEF DropResult
  <2>5. HistoryTypeOK'
    BY <1>2, FrameType DEF DropResult
  <2>6. ControlInv'
    BY <1>2 DEF TypeOK, LoopTypeOK, ControlInv, Connected, NoEvents, DropResult
  <2> QED
    BY <2>1, <2>2, <2>3, <2>4, <2>5, <2>6 DEF TypeInv, TypeOK
<1>3. CASE ReassembleResult
  <2>1. PoolTypeOK(TaskResult)'
    BY <1>3, PoolStepType DEF TypeOK, ReassembleResult
  <2>2. LoopTypeOK'
    BY <1>3 DEF TypeOK, LoopTypeOK, ReassembleResult
  <2>3. ConnTypeOK'
    BY <1>3, ReassembleType
  <2>4. KernelTypeOK'
    BY <1>3, FrameType DEF ReassembleResult
  <2>5. HistoryTypeOK'
    BY <1>3, FrameType DEF ReassembleResult
  <2>6. ControlInv'
    BY <1>3 DEF TypeOK, LoopTypeOK, ControlInv, Connected, NoEvents, ReassembleResult
  <2> QED
    BY <2>1, <2>2, <2>3, <2>4, <2>5, <2>6 DEF TypeInv, TypeOK
<1>4. CASE Unpause
  <2>1. PoolTypeOK(TaskResult)'
    BY <1>4, PoolStepType DEF TypeOK, Unpause
  <2>2. LoopTypeOK'
    BY <1>4 DEF TypeOK, LoopTypeOK, Unpause
  <2>3. ConnTypeOK'
    BY <1>4 DEF TypeOK, ConnTypeOK, Connected, StillPaused, Unpause
  <2>4. KernelTypeOK'
    BY <1>4, FrameType DEF Unpause
  <2>5. HistoryTypeOK'
    BY <1>4, FrameType DEF Unpause
  <2>6. ControlInv'
    BY <1>4 DEF TypeOK, LoopTypeOK, ControlInv, Connected, NoEvents, Unpause
  <2> QED
    BY <2>1, <2>2, <2>3, <2>4, <2>5, <2>6 DEF TypeInv, TypeOK
<1>5. CASE Poll
  <2>1. PoolTypeOK(TaskResult)'
    BY <1>5, PoolStepType DEF TypeOK, Poll
  <2>2. LoopTypeOK'
    BY <1>5 DEF TypeOK, LoopTypeOK, Poll
  <2>3. ConnTypeOK'
    BY <1>5, FrameType DEF Poll
  <2>4. KernelTypeOK'
    BY <1>5, FrameType DEF Poll
  <2>5. HistoryTypeOK'
    BY <1>5, FrameType DEF Poll
  <2>6. ControlInv'
    <3>1. \A c \in Sockets : revents'[c] # {} => c \in Connected
      BY <1>5 DEF Poll
    <3>2. connections' = connections /\ results' = results
      BY <1>5 DEF Poll
    <3> QED
      BY <1>5, <3>1, <3>2
      DEF TypeOK, KernelTypeOK, ControlInv, Connected, NoEvents, Poll, kernelVars
  <2> QED
    BY <2>1, <2>2, <2>3, <2>4, <2>5, <2>6 DEF TypeInv, TypeOK
<1>6. CASE \E c \in Sockets : Accept(c)
  <2>1. PoolTypeOK(TaskResult)'
    BY <1>6, PoolStepType DEF TypeOK, Accept
  <2>2. LoopTypeOK'
    BY <1>6 DEF TypeOK, LoopTypeOK, Accept
  <2>3. ConnTypeOK'
    BY <1>6 DEF TypeOK, ConnTypeOK, KernelTypeOK, ControlInv, ConnectionState, NewConnection, Connected, Accept
  <2>4. KernelTypeOK'
    BY <1>6 DEF TypeOK, KernelTypeOK, ControlInv, Accept
  <2>5. HistoryTypeOK'
    BY <1>6 DEF TypeOK, ConnTypeOK, HistoryTypeOK, ControlInv, ConnectionState, Connected, Accept
  <2>6. ControlInv'
    BY <1>6 DEF TypeOK, LoopTypeOK, ControlInv, Connected, NoEvents, Accept
  <2> QED
    BY <2>1, <2>2, <2>3, <2>4, <2>5, <2>6 DEF TypeInv, TypeOK
<1>7. CASE Refuse
  <2>1. PoolTypeOK(TaskResult)'
    BY <1>7, PoolStepType DEF TypeOK, Refuse
  <2>2. LoopTypeOK'
    BY <1>7 DEF TypeOK, LoopTypeOK, Refuse
  <2>3. ConnTypeOK'
    BY <1>7, FrameType DEF Refuse
  <2>4. KernelTypeOK'
    BY <1>7 DEF TypeOK, KernelTypeOK, ControlInv, Refuse
  <2>5. HistoryTypeOK'
    BY <1>7, FrameType DEF Refuse
  <2>6. ControlInv'
    BY <1>7 DEF TypeOK, LoopTypeOK, ControlInv, Connected, NoEvents, Refuse
  <2> QED
    BY <2>1, <2>2, <2>3, <2>4, <2>5, <2>6 DEF TypeInv, TypeOK
<1>8. CASE \E c \in Sockets : HandleRead(c)
  <2>1. PoolTypeOK(TaskResult)'
    BY <1>8, PoolStepType DEF TypeOK, HandleRead
  <2>2. LoopTypeOK'
    BY <1>8 DEF TypeOK, LoopTypeOK, HandleRead
  <2>3. ConnTypeOK'
    <3>1. PICK c \in Sockets : HandleRead(c)
      BY <1>8
    <3>2. PICK n \in 0 .. Len(inbound[c]) :
            connections' = [connections EXCEPT ![c].read_buffer =
                              @ \o SubSeq(inbound[c], 1, n)]
      BY <3>1 DEF HandleRead
    <3>3. c \in Connected /\ connections[c] \in ConnectionState
      BY <3>1 DEF TypeOK, ConnTypeOK, ControlInv, HandleRead
    <3>4. SubSeq(inbound[c], 1, n) \in Seq(Line)
      BY <3>2 DEF TypeOK, KernelTypeOK
    <3>5. connections[c].read_buffer \o SubSeq(inbound[c], 1, n) \in Seq(Line)
      BY <3>3, <3>4 DEF ConnectionState
    <3>6. [connections[c] EXCEPT !.read_buffer = @ \o SubSeq(inbound[c], 1, n)]
            \in ConnectionState
      BY <3>3, <3>5 DEF ConnectionState
    <3> QED
      BY <3>1, <3>2, <3>3, <3>6, UpdateType DEF TypeOK, HandleRead
  <2>4. KernelTypeOK'
    BY <1>8 DEF TypeOK, KernelTypeOK, ControlInv, HandleRead
  <2>5. HistoryTypeOK'
    BY <1>8, FrameType DEF HandleRead
  <2>6. ControlInv'
    BY <1>8 DEF TypeOK, LoopTypeOK, ControlInv, Connected, NoEvents, HandleRead
  <2> QED
    BY <2>1, <2>2, <2>3, <2>4, <2>5, <2>6 DEF TypeInv, TypeOK
<1>9. CASE \E c \in Sockets : HandleWrite(c)
  <2>1. PoolTypeOK(TaskResult)'
    BY <1>9, PoolStepType DEF TypeOK, HandleWrite
  <2>2. LoopTypeOK'
    BY <1>9 DEF TypeOK, LoopTypeOK, HandleWrite
  <2>3. ConnTypeOK'
    <3>1. PICK c \in Sockets : HandleWrite(c)
      BY <1>9
    <3>2. c \in Connected /\ connections[c] \in ConnectionState
      BY <3>1 DEF TypeOK, ConnTypeOK, ControlInv, HandleWrite
    <3> DEFINE k == connections[c]
               rest(n) == SubSeq(k.write_buffer, n + 1, Len(k.write_buffer))
               l(n) == [k EXCEPT !.write_buffer = rest(n),
                                 !.write_pending = k.write_pending /\ rest(n) # <<>>]
    <3>3. PICK n \in 0 .. Len(k.write_buffer) :
            connections' = [connections EXCEPT ![c] = l(n)]
      BY <3>1 DEF HandleWrite, Unsent, StillPending
    <3>4. rest(n) \in Seq(Response)
      BY <3>2, <3>3 DEF ConnectionState
    <3>5. (k.write_pending /\ rest(n) # <<>>) \in BOOLEAN
      OBVIOUS
    <3>6. l(n) \in ConnectionState
      BY <3>2, <3>4, <3>5 DEF ConnectionState
    <3> HIDE DEF l
    <3> QED
      BY <3>1, <3>2, <3>3, <3>6, UpdateType DEF TypeOK, HandleWrite
  <2>4. KernelTypeOK'
    BY <1>9, FrameType DEF HandleWrite
  <2>5. HistoryTypeOK'
    <3>1. PICK c \in Sockets : HandleWrite(c)
      BY <1>9
    <3>2. connections[c].write_buffer \in Seq(Response)
      BY <3>1 DEF TypeOK, ConnTypeOK, ControlInv, HandleWrite, ConnectionState
    <3>3. PICK n \in 0 .. Len(connections[c].write_buffer) :
            delivered' = [delivered EXCEPT ![c] =
                            @ \o SubSeq(connections[c].write_buffer, 1, n)]
      BY <3>1 DEF HandleWrite
    <3>4. delivered[c] \o SubSeq(connections[c].write_buffer, 1, n) \in Seq(Response)
      BY <3>2, <3>3 DEF TypeOK, HistoryTypeOK
    <3> QED
      BY <3>1, <3>3, <3>4 DEF TypeOK, HistoryTypeOK, HandleWrite
  <2>6. ControlInv'
    BY <1>9 DEF TypeOK, LoopTypeOK, ControlInv, Connected, NoEvents, HandleWrite
  <2> QED
    BY <2>1, <2>2, <2>3, <2>4, <2>5, <2>6 DEF TypeInv, TypeOK
<1>10. CASE EventsDone
  <2>1. PoolTypeOK(TaskResult)'
    BY <1>10, PoolStepType DEF TypeOK, EventsDone
  <2>2. LoopTypeOK'
    BY <1>10 DEF TypeOK, LoopTypeOK, EventsDone
  <2>3. ConnTypeOK'
    BY <1>10, FrameType DEF EventsDone
  <2>4. KernelTypeOK'
    BY <1>10, FrameType DEF EventsDone
  <2>5. HistoryTypeOK'
    BY <1>10, FrameType DEF EventsDone
  <2>6. ControlInv'
    BY <1>10 DEF TypeOK, LoopTypeOK, ControlInv, Connected, NoEvents, EventsDone
  <2> QED
    BY <2>1, <2>2, <2>3, <2>4, <2>5, <2>6 DEF TypeInv, TypeOK
<1>11. CASE LinesDone
  <2>1. PoolTypeOK(TaskResult)'
    BY <1>11, PoolStepType DEF TypeOK, LinesDone
  <2>2. LoopTypeOK'
    BY <1>11 DEF TypeOK, LoopTypeOK, LinesDone
  <2>3. ConnTypeOK'
    BY <1>11, FrameType DEF LinesDone
  <2>4. KernelTypeOK'
    BY <1>11, FrameType DEF LinesDone
  <2>5. HistoryTypeOK'
    BY <1>11, FrameType DEF LinesDone
  <2>6. ControlInv'
    BY <1>11 DEF TypeOK, LoopTypeOK, ControlInv, Connected, NoEvents, LinesDone
  <2> QED
    BY <2>1, <2>2, <2>3, <2>4, <2>5, <2>6 DEF TypeInv, TypeOK
<1>12. CASE SkipBlankLine
  <2>1. PoolTypeOK(TaskResult)'
    BY <1>12, PoolStepType DEF TypeOK, SkipBlankLine
  <2>2. LoopTypeOK'
    BY <1>12 DEF TypeOK, LoopTypeOK, ConnTypeOK, ControlInv, ConnectionState, Connected, SkipBlankLine, NextLine
  <2>3. ConnTypeOK'
    BY <1>12, NextLineType DEF SkipBlankLine, TypeOK, ConnTypeOK
  <2>4. KernelTypeOK'
    BY <1>12, FrameType DEF SkipBlankLine
  <2>5. HistoryTypeOK'
    BY <1>12, FrameType DEF SkipBlankLine
  <2>6. ControlInv'
    BY <1>12 DEF TypeOK, LoopTypeOK, ConnTypeOK, ControlInv, ConnectionState, Connected, NoEvents, SkipBlankLine, NextLine
  <2> QED
    BY <2>1, <2>2, <2>3, <2>4, <2>5, <2>6 DEF TypeInv, TypeOK
<1>13. CASE PauseReads
  <2>1. PoolTypeOK(TaskResult)'
    BY <1>13, PoolStepType DEF TypeOK, PauseReads
  <2>2. LoopTypeOK'
    BY <1>13 DEF TypeOK, LoopTypeOK, ConnTypeOK, ControlInv, ConnectionState, Connected, PauseReads, NextLine
  <2>3. ConnTypeOK'
    BY <1>13, NextLineType DEF PauseReads, TypeOK, ConnTypeOK, LoopTypeOK, ControlInv
  <2>4. KernelTypeOK'
    BY <1>13, FrameType DEF PauseReads
  <2>5. HistoryTypeOK'
    BY <1>13, FrameType DEF PauseReads
  <2>6. ControlInv'
    BY <1>13 DEF TypeOK, LoopTypeOK, ConnTypeOK, ControlInv, ConnectionState, Connected, NoEvents, PauseReads, NextLine
  <2> QED
    BY <2>1, <2>2, <2>3, <2>4, <2>5, <2>6 DEF TypeInv, TypeOK
<1>14. CASE TakeLine
  <2>1. PoolTypeOK(TaskResult)'
    BY <1>14, PoolStepType DEF TypeOK, TakeLine
  <2>2. LoopTypeOK'
    BY <1>14 DEF TypeOK, LoopTypeOK, ConnTypeOK, ControlInv, ConnectionState, Connected, TakeLine, NextLine
  <2>3. ConnTypeOK'
    BY <1>14, NextLineType DEF TakeLine, TypeOK, ConnTypeOK
  <2>4. KernelTypeOK'
    BY <1>14, FrameType DEF TakeLine
  <2>5. HistoryTypeOK'
    BY <1>14, FrameType DEF TakeLine
  <2>6. ControlInv'
    BY <1>14 DEF TypeOK, LoopTypeOK, ConnTypeOK, ControlInv, ConnectionState, Connected, NoEvents, TakeLine, NextLine
  <2> QED
    BY <2>1, <2>2, <2>3, <2>4, <2>5, <2>6 DEF TypeInv, TypeOK
<1>15. CASE StampLine
  <2>1. PoolTypeOK(TaskResult)'
    BY <1>15, PipelineType DEF TypeOK, ConnTypeOK, ControlInv, ConnectionState, StampLine
  <2>2. LoopTypeOK'
    BY <1>15 DEF TypeOK, LoopTypeOK, StampLine
  <2>3. ConnTypeOK'
    <3>1. client \in Connected /\ connections[client] \in ConnectionState
      BY <1>15 DEF TypeOK, ConnTypeOK, ControlInv, StampLine
    <3> DEFINE k == connections[client]
               l == [k EXCEPT !.next_seq_issue = k.next_seq_issue + 1,
                              !.in_flight_requests = k.in_flight_requests + 1]
    <3>4. k.next_seq_issue + 1 \in Nat /\ k.in_flight_requests + 1 \in Nat
      BY <3>1 DEF ConnectionState
    <3>2. l \in ConnectionState
      BY <3>1, <3>4, FieldType
    <3>3. connections' = [connections EXCEPT ![client] = l]
      BY <1>15 DEF StampLine
    <3> HIDE DEF l
    <3> QED
      BY <1>15, <3>1, <3>2, <3>3, UpdateType DEF TypeOK, StampLine
  <2>4. KernelTypeOK'
    BY <1>15, FrameType DEF StampLine
  <2>5. HistoryTypeOK'
    BY <1>15 DEF TypeOK, ConnTypeOK, HistoryTypeOK, ControlInv, ConnectionState, Connected, StampLine
  <2>6. ControlInv'
    BY <1>15 DEF TypeOK, LoopTypeOK, ControlInv, Connected, NoEvents, StampLine
  <2> QED
    BY <2>1, <2>2, <2>3, <2>4, <2>5, <2>6 DEF TypeInv, TypeOK
<1>16. CASE CloseAll
  <2>1. PoolTypeOK(TaskResult)'
    BY <1>16, PoolStepType DEF TypeOK, CloseAll
  <2>2. LoopTypeOK'
    BY <1>16 DEF TypeOK, LoopTypeOK, CloseAll
  <2>3. ConnTypeOK'
    BY <1>16 DEF TypeOK, ConnTypeOK, Connected, CloseAll
  <2>4. KernelTypeOK'
    BY <1>16 DEF TypeOK, KernelTypeOK, ControlInv, CloseAll
  <2>5. HistoryTypeOK'
    BY <1>16 DEF TypeOK, ConnTypeOK, HistoryTypeOK, ControlInv, ConnectionState, Connected, CloseAll
  <2>6. ControlInv'
    BY <1>16 DEF TypeOK, LoopTypeOK, ControlInv, Connected, NoEvents, CloseAll
  <2> QED
    BY <2>1, <2>2, <2>3, <2>4, <2>5, <2>6 DEF TypeInv, TypeOK
<1>17. CASE Stop
  <2>1. PoolTypeOK(TaskResult)'
    BY <1>17, PoolStepType DEF TypeOK, Stop
  <2>2. LoopTypeOK'
    BY <1>17 DEF TypeOK, LoopTypeOK, Stop
  <2>3. ConnTypeOK'
    BY <1>17, FrameType DEF Stop
  <2>4. KernelTypeOK'
    BY <1>17, FrameType DEF Stop
  <2>5. HistoryTypeOK'
    BY <1>17, FrameType DEF Stop
  <2>6. ControlInv'
    BY <1>17 DEF ControlInv, Connected, NoEvents, Stop, kernelVars
  <2> QED
    BY <2>1, <2>2, <2>3, <2>4, <2>5, <2>6 DEF TypeInv, TypeOK
<1>18. CASE \E w \in Workers : WorkerTake(w)
  <2>1. PoolTypeOK(TaskResult)'
    BY <1>18, PoolStepType DEF TypeOK, WorkerTake
  <2>2. LoopTypeOK'
    BY <1>18 DEF TypeOK, LoopTypeOK, WorkerTake, reactorVars
  <2>3. ConnTypeOK'
    BY <1>18, FrameType DEF WorkerTake, reactorVars
  <2>4. KernelTypeOK'
    BY <1>18, FrameType DEF WorkerTake
  <2>5. HistoryTypeOK'
    BY <1>18, FrameType DEF WorkerTake
  <2>6. ControlInv'
    BY <1>18 DEF TypeOK, LoopTypeOK, ControlInv, Connected, NoEvents, WorkerTake, reactorVars, kernelVars
  <2> QED
    BY <2>1, <2>2, <2>3, <2>4, <2>5, <2>6 DEF TypeInv, TypeOK
<1>19. CASE \E w \in Workers : WorkerFinish(w)
  <2>1. PoolTypeOK(TaskResult)'
    BY <1>19, PoolStepType DEF TypeOK, WorkerFinish
  <2>2. LoopTypeOK'
    BY <1>19 DEF TypeOK, LoopTypeOK, WorkerFinish, reactorVars
  <2>3. ConnTypeOK'
    BY <1>19, FrameType DEF WorkerFinish, reactorVars
  <2>4. KernelTypeOK'
    BY <1>19, FrameType DEF WorkerFinish
  <2>5. HistoryTypeOK'
    BY <1>19, FrameType DEF WorkerFinish
  <2>6. ControlInv'
    BY <1>19 DEF TypeOK, LoopTypeOK, ControlInv, Connected, NoEvents, WorkerFinish, reactorVars, kernelVars
  <2> QED
    BY <2>1, <2>2, <2>3, <2>4, <2>5, <2>6 DEF TypeInv, TypeOK
<1>20. CASE Dial
  <2>1. PoolTypeOK(TaskResult)'
    BY <1>20, PoolStepType DEF TypeOK, Dial
  <2>2. LoopTypeOK'
    BY <1>20 DEF TypeOK, LoopTypeOK, Dial, reactorVars
  <2>3. ConnTypeOK'
    BY <1>20, FrameType DEF Dial, reactorVars
  <2>4. KernelTypeOK'
    BY <1>20 DEF TypeOK, KernelTypeOK, ControlInv, Dial
  <2>5. HistoryTypeOK'
    BY <1>20, FrameType DEF Dial
  <2>6. ControlInv'
    BY <1>20 DEF TypeOK, KernelTypeOK, ControlInv, Connected, NoEvents, Dial,
       reactorVars
  <2> QED
    BY <2>1, <2>2, <2>3, <2>4, <2>5, <2>6 DEF TypeInv, TypeOK
<1>21. CASE \E c \in Sockets, kind \in LineKinds : SendLine(c, kind)
  <2>1. PoolTypeOK(TaskResult)'
    BY <1>21, PoolStepType DEF TypeOK, SendLine
  <2>2. LoopTypeOK'
    BY <1>21 DEF TypeOK, LoopTypeOK, SendLine, reactorVars
  <2>3. ConnTypeOK'
    BY <1>21, FrameType DEF SendLine, reactorVars
  <2>4. KernelTypeOK'
    <3>1. PICK c \in Sockets, kind \in LineKinds : SendLine(c, kind)
      BY <1>21
    <3>2. [id |-> sent[c] + 1, kind |-> kind] \in Line
      BY DEF TypeOK, KernelTypeOK, Line
    <3> QED
      BY <3>1, <3>2 DEF TypeOK, KernelTypeOK, SendLine
  <2>5. HistoryTypeOK'
    BY <1>21, FrameType DEF SendLine
  <2>6. ControlInv'
    BY <1>21 DEF TypeOK, LoopTypeOK, ControlInv, Connected, NoEvents, SendLine, reactorVars, kernelVars
  <2> QED
    BY <2>1, <2>2, <2>3, <2>4, <2>5, <2>6 DEF TypeInv, TypeOK
<1>22. CASE \E c \in Sockets : ClosePeer(c)
  <2>1. PoolTypeOK(TaskResult)'
    BY <1>22, PoolStepType DEF TypeOK, ClosePeer
  <2>2. LoopTypeOK'
    BY <1>22 DEF TypeOK, LoopTypeOK, ClosePeer, reactorVars
  <2>3. ConnTypeOK'
    BY <1>22, FrameType DEF ClosePeer, reactorVars
  <2>4. KernelTypeOK'
    BY <1>22 DEF TypeOK, KernelTypeOK, ControlInv, ClosePeer
  <2>5. HistoryTypeOK'
    BY <1>22, FrameType DEF ClosePeer
  <2>6. ControlInv'
    BY <1>22 DEF TypeOK, LoopTypeOK, ControlInv, Connected, NoEvents, ClosePeer, reactorVars, kernelVars
  <2> QED
    BY <2>1, <2>2, <2>3, <2>4, <2>5, <2>6 DEF TypeInv, TypeOK
<1>23. CASE \E c \in Sockets : HangUp(c) \/ ReadFails(c) \/ WriteFails(c)
  BY <1>23, DisconnectType DEF HangUp, ReadFails, WriteFails
<1>24. CASE UNCHANGED vars
  <2>1. PoolTypeOK(TaskResult)' /\ LoopTypeOK' /\ ConnTypeOK' /\ KernelTypeOK'
          /\ HistoryTypeOK'
    BY <1>24, PoolStepType, FrameType DEF TypeOK, LoopTypeOK, vars, reactorVars
  <2>2. ControlInv'
    BY <1>24 DEF ControlInv, Connected, NoEvents, vars, reactorVars, kernelVars
  <2> QED
    BY <2>1, <2>2 DEF TypeOK
<1> QED
  BY <1>1, <1>2, <1>3, <1>4, <1>5, <1>6, <1>7, <1>8, <1>9, <1>10, <1>11, <1>12, <1>13, <1>14, <1>15, <1>16, <1>17, <1>18, <1>19, <1>20, <1>21, <1>22, <1>23, <1>24
  DEF Next, ReactorStep, AcceptConnection, HandleEvents, HandleLines, ClientStep,
      Terminated

LEMMA TypeInvAlways == Spec => []TypeInv
  BY InitTypeInv, NextTypeInv, PTL DEF Spec

(***************************************************************************)
(* Every variable keeps its type and the reactor thread's local variables  *)
(* hold what the code at that point relies on.                             *)
(***************************************************************************)
THEOREM TypeCorrect == Spec => []TypeOK
<1>1. TypeInv => TypeOK
  BY DEF TypeInv
<1> QED
  BY <1>1, TypeInvAlways, PTL
-----------------------------------------------------------------------------
(***************************************************************************)
(* The queue has at most one task more than 90% of its limit, and between  *)
(* the check and the submit only workers touch it.                         *)
(***************************************************************************)
RoomInv == pc = "process" => ~QueueAbove90

LEMMA NextRoomInv == TypeInv /\ RoomInv /\ [Next]_vars => RoomInv'
<1> SUFFICES ASSUME TypeInv, RoomInv, [Next]_vars, pc' = "process"
             PROVE  ~QueueAbove90'
  BY DEF RoomInv
<1>0. queue \in Seq(TaskResult) /\ MaxQueueSize \in Nat
  BY PoolAssumption DEF TypeInv, TypeOK, PoolTypeOK
<1>1. CASE TakeLine
  BY <1>1 DEF TakeLine, MustPause, QueueAbove90, poolVars
<1>2. CASE pc = "process" /\ \E w \in Workers : WorkerTake(w)
  <2>1. queue # <<>> /\ queue' = Tail(queue)
    BY <1>2 DEF WorkerTake, Take
  <2>2. Len(queue') = Len(queue) - 1 /\ Len(queue) \in Nat
    BY <2>1, <1>0
  <2> QED
    BY <1>2, <2>2, <1>0 DEF RoomInv, QueueAbove90
<1>3. CASE pc = "process" /\ queue' = queue
  BY <1>3 DEF RoomInv, QueueAbove90
<1>4. TakeLine \/ (pc = "process" /\ ((\E w \in Workers : WorkerTake(w)) \/ queue' = queue))
  <2>1. CASE ReactorStep
    BY <2>1 DEF ReactorStep, DrainCompletions, DropResult, ReassembleResult, Unpause,
       Poll, AcceptConnection, Accept, Refuse, HandleEvents, HangUp, ReadFails,
       WriteFails, Disconnect, HandleRead, HandleWrite, EventsDone, HandleLines,
       LinesDone, SkipBlankLine, PauseReads, StampLine, NextLine, CloseAll
  <2>2. CASE Stop \/ ClientStep \/ Terminated \/ UNCHANGED vars
    BY <2>2 DEF Stop, ClientStep, Dial, SendLine, ClosePeer, Terminated, vars,
       poolVars, reactorVars
  <2>3. CASE \E w \in Workers : WorkerTake(w) \/ WorkerFinish(w)
    BY <2>3 DEF WorkerTake, WorkerFinish, Finish, reactorVars
  <2> QED
    BY <2>1, <2>2, <2>3, SMTT(40) DEF Next
<1> QED
  BY <1>1, <1>2, <1>3, <1>4

(***************************************************************************)
(* A line that passed the 90% check always finds room: DispatchHandler     *)
(* never answers "server busy".                                            *)
(***************************************************************************)
THEOREM NeverBusyHolds == Spec => []NeverBusy
<1>1. Init => RoomInv
  BY DEF Init, RoomInv
<1>2. TypeInv /\ RoomInv => NeverBusy
  BY PoolAssumption
  DEF TypeInv, TypeOK, PoolTypeOK, RoomInv, QueueAbove90, NeverBusy, HasRoom
<1> QED
  BY <1>1, <1>2, NextRoomInv, TypeInvAlways, PTL DEF Spec
-----------------------------------------------------------------------------
(***************************************************************************)
(* Only accept_connection, disconnect and the end of start() change which  *)
(* connections are open.                                                   *)
(***************************************************************************)
LEMMA TableSteps ==
  ASSUME TypeInv, [Next]_vars
  PROVE  \/ \E c \in Sockets : Accept(c)
         \/ \E c \in Connected : pc = "events" /\ Disconnect(c)
         \/ CloseAll
         \/ /\ Connected' = Connected
            /\ total_connections' = total_connections
            /\ pc' = "stopped" <=> pc = "stopped"
            /\ paused_reads' \subseteq paused_reads \cup Connected
<1> DEFINE Same == /\ Connected' = Connected
                   /\ total_connections' = total_connections
                   /\ pc' = "stopped" <=> pc = "stopped"
                   /\ paused_reads' \subseteq paused_reads \cup Connected
<1>1. ASSUME NEW c \in Sockets, HangUp(c) \/ ReadFails(c) \/ WriteFails(c)
      PROVE  c \in Connected /\ pc = "events" /\ Disconnect(c)
  BY <1>1 DEF HangUp, ReadFails, WriteFails, TypeInv, ControlInv
<1>2. ASSUME DrainCompletions \/ DropResult \/ Unpause \/ Poll \/ Refuse
               \/ EventsDone \/ LinesDone \/ Stop \/ Terminated
      PROVE  Same
  BY <1>2 DEF DrainCompletions, DropResult, Unpause, StillPaused, Poll, Refuse,
     EventsDone, LinesDone, Stop, Terminated, vars, reactorVars, Connected
<1>3. ASSUME ReassembleResult PROVE Same
  BY <1>3 DEF ReassembleResult, Connected
<1>4. ASSUME NEW c \in Sockets, HandleRead(c) \/ HandleWrite(c) PROVE Same
  BY <1>4 DEF HandleRead, HandleWrite, Connected
<1>5. ASSUME SkipBlankLine \/ PauseReads \/ TakeLine PROVE Same
  <2>1. client \in Connected /\ Connected' = Connected
    BY <1>5, NextLineType DEF SkipBlankLine, PauseReads, TakeLine
  <2> QED
    BY <1>5, <2>1 DEF SkipBlankLine, PauseReads, TakeLine, NextLine
<1>6. ASSUME StampLine PROVE Same
  BY <1>6 DEF StampLine, Connected
<1>7. ASSUME ClientStep \/ UNCHANGED vars
               \/ \E w \in Workers : WorkerTake(w) \/ WorkerFinish(w)
      PROVE  Same
  BY <1>7 DEF ClientStep, Dial, SendLine, ClosePeer, WorkerTake, WorkerFinish,
     vars, reactorVars, Connected
<1> QED
  BY <1>1, <1>2, <1>3, <1>4, <1>5, <1>6, <1>7
  DEF Next, ReactorStep, AcceptConnection, HandleEvents, HandleLines

LEMMA AcceptStep ==
  ASSUME NEW c, Accept(c)
  PROVE  /\ c \in Sockets /\ c \notin Connected
         /\ Connected' = Connected \cup {c}
         /\ total_connections < MAX_CONNECTIONS
         /\ total_connections' = total_connections + 1
         /\ paused_reads' = paused_reads
         /\ pc # "stopped" /\ pc' # "stopped"
  BY DEF Accept, Connected

LEMMA DisconnectStep ==
  ASSUME NEW c, Disconnect(c)
  PROVE  /\ Connected' = Connected \ {c}
         /\ paused_reads' = paused_reads \ {c}
         /\ total_connections' = IF total_connections > 0
                                 THEN total_connections - 1 ELSE 0
         /\ pc' = pc
  BY DEF Disconnect, Connected, NotPaused, CountedOff

(***************************************************************************)
(* Only open connections are ever paused, so a handle the kernel hands out *)
(* again is polled for reading.                                            *)
(***************************************************************************)
THEOREM PausedAreConnectedHolds == Spec => []PausedAreConnected
<1>1. Init => PausedAreConnected
  BY DEF Init, PausedAreConnected
<1>2. TypeInv /\ PausedAreConnected /\ [Next]_vars => PausedAreConnected'
  <2> SUFFICES ASSUME TypeInv, PausedAreConnected, [Next]_vars, pc' # "stopped"
               PROVE  (paused_reads \subseteq Connected)'
    BY DEF PausedAreConnected
  <2>1. CASE \E c \in Sockets : Accept(c)
    BY <2>1, AcceptStep DEF PausedAreConnected
  <2>2. CASE \E c \in Connected : Disconnect(c)
    BY <2>2, DisconnectStep DEF PausedAreConnected
  <2>3. CASE CloseAll
    BY <2>3 DEF CloseAll
  <2> QED
    BY <2>1, <2>2, <2>3, TableSteps DEF PausedAreConnected
<1> QED
  BY <1>1, <1>2, TypeInvAlways, PTL DEF Spec

(***************************************************************************)
(* total_connections_ is exactly the number of open connections and never  *)
(* exceeds MAX_CONNECTIONS: every path that closes a connection decrements *)
(* it once.                                                                *)
(***************************************************************************)
THEOREM ConnectionCountHolds == Spec => []ConnectionCount
<1>1. Init => ConnectionCount
  <2> SUFFICES ASSUME Init PROVE ConnectionCount
    OBVIOUS
  <2>1. Connected = {} /\ total_connections = 0
    BY DEF Init, Connected
  <2> QED
    BY <2>1, FS_EmptySet, ReactorAssumption DEF ConnectionCount
<1>2. TypeInv /\ ConnectionCount /\ [Next]_vars => ConnectionCount'
  <2> SUFFICES ASSUME TypeInv, ConnectionCount, [Next]_vars, pc' # "stopped"
               PROVE  /\ (total_connections = Cardinality(Connected))'
                      /\ total_connections' <= MAX_CONNECTIONS
    BY DEF ConnectionCount
  <2>0. IsFiniteSet(Connected) /\ total_connections \in Nat /\ MAX_CONNECTIONS \in Nat
    BY ReactorAssumption, FS_Subset DEF TypeInv, TypeOK, ConnTypeOK
  <2>1. CASE \E c \in Sockets : Accept(c)
    <3>1. PICK c \in Sockets : Accept(c)
      BY <2>1
    <3>2. Cardinality(Connected \cup {c}) = Cardinality(Connected) + 1
      BY <2>0, <3>1, AcceptStep, FS_AddElement
    <3> QED
      BY <2>0, <3>1, <3>2, AcceptStep DEF ConnectionCount
  <2>2. CASE \E c \in Connected : pc = "events" /\ Disconnect(c)
    <3>1. PICK c \in Connected : pc = "events" /\ Disconnect(c)
      BY <2>2
    <3>2. Cardinality(Connected \ {c}) = Cardinality(Connected) - 1
      BY <2>0, FS_RemoveElement
    <3>3. Cardinality(Connected) > 0
      BY <2>0, FS_EmptySet, FS_CardinalityType
    <3> QED
      BY <2>0, <3>1, <3>2, <3>3, DisconnectStep DEF ConnectionCount
  <2>3. CASE CloseAll
    BY <2>3 DEF CloseAll
  <2> QED
    BY <2>1, <2>2, <2>3, TableSteps DEF ConnectionCount
<1> QED
  BY <1>1, <1>2, TypeInvAlways, PTL DEF Spec
-----------------------------------------------------------------------------
(***************************************************************************)
(* An event to read is only ever pending for a connection that is not      *)
(* paused; handling it consumes the event before the connection is paused. *)
(***************************************************************************)
ReadInv == /\ \A c \in Sockets : "read" \in revents[c] => c \notin paused_reads
           /\ pc \in {"lines", "process"} => "read" \notin revents[client]

LEMMA NextReadInv == TypeInv /\ ReadInv /\ [Next]_vars => ReadInv'
<1> SUFFICES ASSUME TypeInv, ReadInv, [Next]_vars PROVE ReadInv'
  OBVIOUS
<1>0. revents \in [Sockets -> SUBSET Event] /\ client \in Sockets \cup {None}
  BY DEF TypeInv, TypeOK, LoopTypeOK
<1>1. CASE Poll
  BY <1>1 DEF Poll, ReadInv, Readable
<1>2. CASE \E c \in Sockets : HandleRead(c)
  BY <1>0, <1>2 DEF HandleRead, ReadInv
<1>3. CASE \E c \in Sockets : HandleWrite(c)
  BY <1>0, <1>3 DEF HandleWrite, ReadInv
<1>4. CASE \E c \in Sockets : HangUp(c) \/ ReadFails(c) \/ WriteFails(c)
  BY <1>0, <1>4 DEF HangUp, ReadFails, WriteFails, Disconnect, NotPaused, ReadInv
<1>5. CASE PauseReads
  BY <1>0, <1>5 DEF PauseReads, NextLine, ReadInv
<1>6. CASE DrainCompletions \/ DropResult \/ ReassembleResult \/ Refuse
            \/ EventsDone \/ LinesDone \/ Stop \/ Terminated \/ CloseAll
  BY <1>6 DEF DrainCompletions, DropResult, ReassembleResult, Refuse, EventsDone,
     LinesDone, Stop, Terminated, vars, reactorVars, CloseAll, ReadInv
<1>7. CASE Unpause
  BY <1>7 DEF Unpause, StillPaused, ReadInv
<1>8. CASE SkipBlankLine \/ TakeLine \/ StampLine
  BY <1>8 DEF SkipBlankLine, TakeLine, NextLine, StampLine, ReadInv
<1>9. CASE \E c \in Sockets : Accept(c)
  BY <1>9 DEF Accept, ReadInv
<1>10. CASE ClientStep \/ UNCHANGED vars
             \/ \E w \in Workers : WorkerTake(w) \/ WorkerFinish(w)
  BY <1>10 DEF ClientStep, Dial, SendLine, ClosePeer, WorkerTake, WorkerFinish,
     vars, reactorVars, ReadInv
<1> QED
  BY <1>1, <1>2, <1>3, <1>4, <1>5, <1>6, <1>7, <1>8, <1>9, <1>10
  DEF Next, ReactorStep, AcceptConnection, HandleEvents, HandleLines

(***************************************************************************)
(* No step takes lines from the kernel buffer of a paused connection that  *)
(* stays open: backpressure leaves the data to TCP.                        *)
(***************************************************************************)
THEOREM PausedIsNotReadHolds == Spec => PausedIsNotRead
<1> DEFINE A == \A c \in paused_reads \cap DOMAIN connections' :
                  Len(inbound'[c]) >= Len(inbound[c])
<1>1. Init => ReadInv
  BY DEF Init, ReadInv, NoEvents
<1>2. TypeInv /\ ReadInv /\ [Next]_vars => [A]_vars
  <2> SUFFICES ASSUME TypeInv, ReadInv, Next,
                      NEW c \in paused_reads \cap DOMAIN connections'
               PROVE  Len(inbound'[c]) >= Len(inbound[c])
    OBVIOUS
  <2>0. c \in Sockets /\ inbound \in [Sockets -> Seq(Line)]
    BY DEF TypeInv, TypeOK, ConnTypeOK, KernelTypeOK
  <2>1. Len(inbound[c]) \in Nat
    BY <2>0
  <2>2. CASE inbound'[c] = inbound[c]
    BY <2>1, <2>2
  <2>3. CASE \E d \in Sockets, kind \in LineKinds : SendLine(d, kind)
    <3>1. PICK d \in Sockets, kind \in LineKinds : SendLine(d, kind)
      BY <2>3
    <3>2. inbound' = [inbound EXCEPT ![d] =
                        Append(@, [id |-> sent[d] + 1, kind |-> kind])]
      BY <3>1 DEF SendLine
    <3>3. [id |-> sent[d] + 1, kind |-> kind] \in Line
      BY DEF TypeInv, TypeOK, KernelTypeOK, Line
    <3> QED
      BY <2>0, <2>1, <3>2, <3>3
  <2>4. inbound'[c] = inbound[c]
          \/ \E d \in Sockets, kind \in LineKinds : SendLine(d, kind)
    <3>1. CASE \E d \in Sockets : HandleRead(d)
      BY <2>0, <3>1, SMTT(40) DEF HandleRead, ReadInv
    <3>2. CASE \E d \in Sockets : HangUp(d) \/ ReadFails(d) \/ WriteFails(d)
      BY <2>0, <3>2 DEF HangUp, ReadFails, WriteFails, Disconnect
    <3>3. CASE CloseAll
      BY <3>3 DEF CloseAll
    <3>4. CASE DrainCompletions \/ DropResult \/ ReassembleResult \/ Unpause \/ Poll
                \/ AcceptConnection \/ EventsDone \/ HandleLines
                \/ \E d \in Sockets : HandleWrite(d)
      BY <3>4 DEF DrainCompletions, DropResult, ReassembleResult, Unpause, Poll,
         AcceptConnection, Accept, Refuse, EventsDone, HandleLines, LinesDone,
         SkipBlankLine, PauseReads, TakeLine, StampLine, HandleWrite, kernelVars
    <3>5. CASE Stop \/ Terminated \/ Dial \/ (\E d \in Sockets : ClosePeer(d))
                \/ \E w \in Workers : WorkerTake(w) \/ WorkerFinish(w)
      BY <3>5 DEF Stop, Terminated, Dial, ClosePeer, WorkerTake, WorkerFinish,
         vars, kernelVars
    <3> QED
      BY <3>1, <3>2, <3>3, <3>4, <3>5
      DEF Next, ReactorStep, HandleEvents, ClientStep
  <2> QED
    BY <2>2, <2>3, <2>4
<1> QED
  BY <1>1, <1>2, NextReadInv, TypeInvAlways, PTL DEF Spec, PausedIsNotRead
-----------------------------------------------------------------------------
(***************************************************************************)
(* Most steps leave alone everything the order of responses depends on;    *)
(* they may only move tasks and results along, or drop them.               *)
(***************************************************************************)
SameReplies(c) ==
  /\ connections'[c].write_buffer = connections[c].write_buffer
  /\ connections'[c].write_pending = connections[c].write_pending
  /\ connections'[c].next_seq_issue = connections[c].next_seq_issue
  /\ connections'[c].next_seq_expected = connections[c].next_seq_expected
  /\ connections'[c].out_of_order_buf = connections[c].out_of_order_buf

Quiet == /\ Connected' = Connected
         /\ \A c \in Connected : SameReplies(c)
         /\ UNCHANGED historyVars
         /\ Outstanding' \subseteq Outstanding

LEMMA SameConnections ==
  ASSUME UNCHANGED connections
  PROVE  Connected' = Connected /\ \A c \in Connected : SameReplies(c)
  BY DEF Connected, SameReplies

LEMMA SameOutstanding ==
  ASSUME UNCHANGED poolVars, UNCHANGED results
  PROVE  Outstanding' \subseteq Outstanding
  BY DEF poolVars, Outstanding

LEMMA TailElements ==
  ASSUME NEW S, NEW s \in Seq(S), s # <<>>
  PROVE  /\ Head(s) \in {s[i] : i \in DOMAIN s}
         /\ {Tail(s)[i] : i \in DOMAIN Tail(s)} \subseteq {s[i] : i \in DOMAIN s}
<1>1. Len(s) \in Nat /\ Len(s) >= 1 /\ DOMAIN s = 1 .. Len(s)
  BY EmptySeq, SeqDef
<1>2. Head(s) = s[1]
  BY HeadTailProperties
<1>3. /\ DOMAIN Tail(s) = 1 .. (Len(s) - 1)
      /\ \A i \in 1 .. (Len(s) - 1) : Tail(s)[i] = s[i + 1]
  BY <1>1, HeadTailProperties
<1> QED
  BY <1>1, <1>2, <1>3

LEMMA AppendElements ==
  ASSUME NEW S, NEW s \in Seq(S), NEW e \in S
  PROVE  {Append(s, e)[i] : i \in DOMAIN Append(s, e)}
           = {s[i] : i \in DOMAIN s} \cup {e}
  BY AppendProperties

LEMMA PoolMoves ==
  ASSUME TypeInv, UNCHANGED results,
         NEW w \in Workers, Take(w) \/ Finish(w)
  PROVE  Outstanding' \subseteq Outstanding
<1> DEFINE Held == {executing[v] : v \in {u \in Workers : executing[u] # NoTask}}
<1>0. /\ queue \in Seq(TaskResult) /\ completions \in Seq(TaskResult)
      /\ executing \in [Workers -> TaskResult \cup {NoTask}]
  BY DEF TypeInv, TypeOK, PoolTypeOK
<1>1. CASE Take(w)
  <2>1. Held' \subseteq Held \cup {Head(queue)}
    BY <1>0, <1>1 DEF Take
  <2> QED
    BY <1>0, <1>1, <2>1, TailElements DEF Take, Outstanding
<1>2. CASE Finish(w)
  <2>1. executing[w] \in TaskResult /\ executing[w] \in Held
    BY <1>0, <1>2 DEF Finish
  <2>2. Held' \subseteq Held
    BY <1>0, <1>2 DEF Finish
  <2> QED
    BY <1>0, <1>2, <2>1, <2>2, AppendElements DEF Finish, Outstanding
<1> QED
  BY <1>1, <1>2

LEMMA LineSteps ==
  ASSUME TypeInv, SkipBlankLine \/ PauseReads \/ TakeLine
  PROVE  Quiet
<1>1. NextLine /\ UNCHANGED historyVars /\ UNCHANGED poolVars /\ UNCHANGED results
  BY DEF SkipBlankLine, PauseReads, TakeLine
<1>2. Connected' = Connected /\ client \in Connected
  BY <1>1, NextLineType
<1>3. \A c \in Connected : connections[c] \in ConnectionState
  BY DEF TypeInv, TypeOK, ConnTypeOK
<1>4. \A c \in Connected : SameReplies(c)
  BY <1>1, <1>2, <1>3 DEF NextLine, SameReplies, ConnectionState, Connected
<1> QED
  BY <1>1, <1>2, <1>4, SameOutstanding DEF Quiet

LEMMA ReadStep ==
  ASSUME TypeInv, NEW c \in Sockets, HandleRead(c)
  PROVE  Quiet
<1>1. UNCHANGED historyVars /\ UNCHANGED poolVars /\ UNCHANGED results
  BY DEF HandleRead
<1>2. \A d \in Connected : connections[d] \in ConnectionState
  BY DEF TypeInv, TypeOK, ConnTypeOK
<1>3. PICK rb : connections' = [connections EXCEPT ![c].read_buffer = rb]
  BY DEF HandleRead
<1>4. Connected' = Connected /\ \A d \in Connected : SameReplies(d)
  BY <1>2, <1>3 DEF SameReplies, ConnectionState, Connected
<1> QED
  BY <1>1, <1>4, SameOutstanding DEF Quiet

LEMMA QuietSteps ==
  ASSUME TypeInv, [Next]_vars
  PROVE  \/ Quiet
         \/ \E c \in Sockets : Accept(c) \/ HandleWrite(c)
         \/ \E c \in Sockets : Disconnect(c)
         \/ CloseAll \/ ReassembleResult \/ StampLine
<1>1. ASSUME DrainCompletions PROVE Quiet
  <2>1. results' = completions /\ completions' = <<>> /\ queue' = queue
          /\ executing' = executing
    BY <1>1 DEF DrainCompletions, DrainAll
  <2>2. Outstanding' \subseteq Outstanding
    BY <2>1 DEF Outstanding
  <2> QED
    BY <1>1, <2>2, SameConnections DEF DrainCompletions, Quiet
<1>2. ASSUME DropResult PROVE Quiet
  <2>1. results \in Seq(TaskResult) /\ results # <<>> /\ results' = Tail(results)
    BY <1>2 DEF DropResult, TypeInv, TypeOK, LoopTypeOK
  <2>2. Outstanding' \subseteq Outstanding
    BY <1>2, <2>1, TailElements DEF DropResult, Outstanding, poolVars
  <2> QED
    BY <1>2, <2>2, SameConnections DEF DropResult, Quiet
<1>3. ASSUME Unpause \/ Poll \/ Refuse \/ EventsDone \/ LinesDone \/ Stop
               \/ Terminated \/ ClientStep \/ UNCHANGED vars
      PROVE  Quiet
  <2>1. UNCHANGED <<connections, results>> /\ UNCHANGED poolVars
          /\ UNCHANGED historyVars
    BY <1>3 DEF Unpause, Poll, Refuse, EventsDone, LinesDone, Stop, Terminated,
       ClientStep, Dial, SendLine, ClosePeer, vars, reactorVars
  <2> QED
    BY <2>1, SameConnections, SameOutstanding DEF Quiet
<1>4. ASSUME NEW w \in Workers, WorkerTake(w) \/ WorkerFinish(w) PROVE Quiet
  <2>1. UNCHANGED <<connections, results>> /\ UNCHANGED historyVars
          /\ (Take(w) \/ Finish(w))
    BY <1>4 DEF WorkerTake, WorkerFinish, reactorVars
  <2> QED
    BY <2>1, SameConnections, PoolMoves DEF Quiet
<1>5. ASSUME NEW c \in Sockets, HangUp(c) \/ ReadFails(c) \/ WriteFails(c)
      PROVE  Disconnect(c)
  BY <1>5 DEF HangUp, ReadFails, WriteFails
<1> QED
  BY <1>1, <1>2, <1>3, <1>4, <1>5, LineSteps, ReadStep
  DEF Next, ReactorStep, AcceptConnection, HandleEvents, HandleLines
-----------------------------------------------------------------------------
(***************************************************************************)
(* What the reassembly of one result does to its connection: buf, the      *)
(* parked results with this one, is flushed up to n.                       *)
(***************************************************************************)
Moved(c, buf, n) == LET from == connections[c].next_seq_expected IN
                      [i \in 1 .. (n - from) |-> ParkedResponse(buf, from + i - 1)]

Reassembled(c, buf, n) ==
  /\ Head(results) \in Outstanding
  /\ Head(results).client_fd = c
  /\ buf \subseteq connections[c].out_of_order_buf \cup {Head(results)}
  /\ n >= connections[c].next_seq_expected
  /\ \A s \in connections[c].next_seq_expected .. (n - 1) : Parked(buf, s)
  /\ connections' = [connections EXCEPT ![c] = connections'[c]]
  /\ connections'[c].next_seq_issue = connections[c].next_seq_issue
  /\ connections'[c].next_seq_expected = n
  /\ connections'[c].out_of_order_buf \subseteq buf
  /\ connections'[c].write_buffer = connections[c].write_buffer \o Moved(c, buf, n)
  /\ connections'[c].write_pending =
       (connections[c].write_pending \/ n > connections[c].next_seq_expected)
  /\ UNCHANGED historyVars
  /\ Outstanding' \subseteq Outstanding

LEMMA MovedProperties ==
  ASSUME NEW c, NEW buf \in SUBSET TaskResult, NEW n \in Nat,
         connections[c].next_seq_expected \in Nat,
         n >= connections[c].next_seq_expected,
         \A s \in connections[c].next_seq_expected .. (n - 1) : Parked(buf, s)
  PROVE  LET from == connections[c].next_seq_expected IN
           /\ Moved(c, buf, n) \in Seq(Response)
           /\ Len(Moved(c, buf, n)) = n - from
           /\ \A i \in 1 .. (n - from) :
                \E x \in buf : /\ x.sequence_id = from + i - 1
                               /\ Moved(c, buf, n)[i] = x.response
<1> DEFINE from == connections[c].next_seq_expected
<1>1. ASSUME NEW i \in 1 .. (n - from)
      PROVE  \E x \in buf : /\ x.sequence_id = from + i - 1
                            /\ ParkedResponse(buf, from + i - 1) = x.response
  <2>1. from + i - 1 \in from .. (n - 1)
    OBVIOUS
  <2>2. \E x \in buf : x.sequence_id = from + i - 1
    BY <2>1 DEF Parked
  <2> DEFINE y == CHOOSE x \in buf : x.sequence_id = from + i - 1
  <2>3. y \in buf /\ y.sequence_id = from + i - 1
    BY <2>2
  <2> QED
    BY <2>3 DEF ParkedResponse
<1>2. \A i \in 1 .. (n - from) : ParkedResponse(buf, from + i - 1) \in Response
  BY <1>1 DEF TaskResult
<1>3. Moved(c, buf, n) \in Seq(Response) /\ Len(Moved(c, buf, n)) = n - from
  <2>1. n - from \in Nat
    OBVIOUS
  <2>2. Moved(c, buf, n) \in [1 .. (n - from) -> Response]
    BY <1>2 DEF Moved
  <2> HIDE DEF from
  <2> QED
    BY <2>1, <2>2
<1>4. \A i \in 1 .. (n - from) :
        Moved(c, buf, n)[i] = ParkedResponse(buf, from + i - 1)
  BY DEF Moved
<1> HIDE DEF from
<1>5. \A i \in 1 .. (n - from) :
        \E x \in buf : /\ x.sequence_id = from + i - 1
                       /\ Moved(c, buf, n)[i] = x.response
  BY <1>1, <1>4
<1> QED
  BY <1>3, <1>5 DEF from

LEMMA ReassembleStep ==
  ASSUME TypeInv, ReassembleResult
  PROVE  \E c \in Connected, buf \in SUBSET TaskResult, n \in Nat :
           Reassembled(c, buf, n)
<1> DEFINE r == Head(results)
           c == r.client_fd
           k == connections[c]
           from == k.next_seq_expected
           buf == Park(k.out_of_order_buf, r)
<1>1. r \in TaskResult /\ c \in Connected
  BY DEF TypeInv, TypeOK, LoopTypeOK, ReassembleResult
<1>2. k \in ConnectionState
  BY <1>1 DEF TypeInv, TypeOK, ConnTypeOK
<1>3. from \in Nat /\ buf \in SUBSET TaskResult /\ buf \subseteq k.out_of_order_buf \cup {r}
  BY <1>1, <1>2 DEF ConnectionState, Park
<1>4. PICK n \in from .. (from + Cardinality(buf)) :
        /\ \A s \in from .. (n - 1) : Parked(buf, s)
        /\ connections' = [connections EXCEPT ![c] = Flushed(k, buf, n)]
  BY DEF ReassembleResult
<1>5. n \in Nat /\ n >= from
  BY <1>3, <1>4
<1>6. connections'[c] = Flushed(k, buf, n)
  BY <1>1, <1>4 DEF Connected
<1>7. /\ Flushed(k, buf, n).next_seq_issue = k.next_seq_issue
      /\ Flushed(k, buf, n).next_seq_expected = n
      /\ Flushed(k, buf, n).out_of_order_buf \subseteq buf
      /\ Flushed(k, buf, n).write_buffer =
           k.write_buffer \o Moved(c, buf, n)
      /\ Flushed(k, buf, n).write_pending = (k.write_pending \/ n > from)
  BY <1>2 DEF Flushed, ConnectionState, Moved
<1>8. results \in Seq(TaskResult) /\ results # <<>> /\ results' = Tail(results)
        /\ UNCHANGED poolVars /\ UNCHANGED historyVars
  BY DEF ReassembleResult, TypeInv, TypeOK, LoopTypeOK
<1>9. r \in Outstanding /\ Outstanding' \subseteq Outstanding
  BY <1>8, TailElements DEF Outstanding, poolVars
<1>10. connections' = [connections EXCEPT ![c] = connections'[c]]
  BY <1>4, <1>6
<1>11. Reassembled(c, buf, n)
  BY <1>3, <1>4, <1>5, <1>6, <1>7, <1>8, <1>9, <1>10 DEF Reassembled
<1> QED
  BY <1>1, <1>3, <1>5, <1>11

(* What sending the first n responses of the write buffer does. *)
Rest(c, n) == SubSeq(connections[c].write_buffer, n + 1,
                     Len(connections[c].write_buffer))

Sent(c, n) ==
  /\ connections' = [connections EXCEPT ![c] = connections'[c]]
  /\ connections'[c].next_seq_issue = connections[c].next_seq_issue
  /\ connections'[c].next_seq_expected = connections[c].next_seq_expected
  /\ connections'[c].out_of_order_buf = connections[c].out_of_order_buf
  /\ connections'[c].write_buffer = Rest(c, n)
  /\ connections'[c].write_pending = (connections[c].write_pending /\ Rest(c, n) # <<>>)
  /\ delivered' = [delivered EXCEPT ![c] =
                     @ \o SubSeq(connections[c].write_buffer, 1, n)]
  /\ UNCHANGED <<owner, tainted, issued>>
  /\ Outstanding' \subseteq Outstanding

LEMMA WriteStep ==
  ASSUME TypeInv, NEW c \in Sockets, HandleWrite(c)
  PROVE  /\ c \in Connected
         /\ \E n \in 0 .. Len(connections[c].write_buffer) : Sent(c, n)
<1> DEFINE k == connections[c]
           l(n) == [k EXCEPT !.write_buffer = Rest(c, n),
                             !.write_pending = k.write_pending /\ Rest(c, n) # <<>>]
<1>1. c \in Connected /\ k \in ConnectionState
  BY DEF TypeInv, TypeOK, ConnTypeOK, ControlInv, HandleWrite
<1>2. PICK n \in 0 .. Len(k.write_buffer) :
        /\ connections' = [connections EXCEPT ![c] = l(n)]
        /\ delivered' = [delivered EXCEPT ![c] = @ \o SubSeq(k.write_buffer, 1, n)]
  BY ZenonT(40) DEF HandleWrite, Rest, Unsent, StillPending
<1>3. /\ l(n).next_seq_issue = k.next_seq_issue
      /\ l(n).next_seq_expected = k.next_seq_expected
      /\ l(n).out_of_order_buf = k.out_of_order_buf
      /\ l(n).write_buffer = Rest(c, n)
      /\ l(n).write_pending = (k.write_pending /\ Rest(c, n) # <<>>)
  BY <1>1 DEF ConnectionState
<1>4. UNCHANGED <<owner, tainted, issued>> /\ UNCHANGED poolVars /\ UNCHANGED results
  BY DEF HandleWrite
<1>5. Outstanding' \subseteq Outstanding
  BY <1>4, SameOutstanding
<1> HIDE DEF l
<1>6. connections'[c] = l(n) /\ connections' = [connections EXCEPT ![c] = connections'[c]]
  BY <1>1, <1>2 DEF Connected
<1>7. Sent(c, n)
  BY <1>2, <1>3, <1>4, <1>5, <1>6 DEF Sent
<1> QED
  BY <1>1, <1>7

(***************************************************************************)
(* write_pending says exactly whether the write buffer holds something, so *)
(* rebuild_poll_set asks for POLLWRNORM as long as a response waits.       *)
(***************************************************************************)
THEOREM WritesArePolledHolds == Spec => []WritesArePolled
<1>1. Init => WritesArePolled
  BY DEF Init, WritesArePolled, Connected
<1>2. TypeInv /\ WritesArePolled /\ [Next]_vars => WritesArePolled'
  <2> SUFFICES ASSUME TypeInv, WritesArePolled, [Next]_vars, NEW d \in Connected'
               PROVE  connections'[d].write_pending
                        <=> (connections'[d].write_buffer # <<>>)
    BY DEF WritesArePolled
  <2>0. \A e \in Connected : connections[e] \in ConnectionState
    BY DEF TypeInv, TypeOK, ConnTypeOK
  <2>1. CASE Quiet
    BY <2>1 DEF Quiet, SameReplies, WritesArePolled
  <2>2. CASE \E c \in Sockets : Accept(c)
    BY <2>2 DEF Accept, NewConnection, Connected, WritesArePolled
  <2>3. CASE \E c \in Sockets : HandleWrite(c)
    <3>1. PICK c \in Sockets : HandleWrite(c)
      BY <2>3
    <3>2. c \in Connected
      BY <3>1, WriteStep
    <3>3. PICK n \in 0 .. Len(connections[c].write_buffer) : Sent(c, n)
      BY <3>1, WriteStep
    <3>4. CASE d = c
      <4>1. connections[c].write_buffer = <<>> => Rest(c, n) = <<>>
        BY DEF Rest
      <4> QED
        BY <3>2, <3>3, <3>4, <4>1 DEF WritesArePolled, Sent
    <3>5. CASE d # c
      BY <3>3, <3>5 DEF WritesArePolled, Connected, Sent
    <3> QED
      BY <3>4, <3>5
  <2>4. CASE \E c \in Sockets : Disconnect(c)
    BY <2>4 DEF Disconnect, Connected, WritesArePolled
  <2>5. CASE CloseAll
    BY <2>5 DEF CloseAll, Connected
  <2>6. CASE ReassembleResult
    <3>1. PICK c \in Connected, buf \in SUBSET TaskResult, n \in Nat :
            Reassembled(c, buf, n)
      BY <2>6, ReassembleStep
    <3>2. CASE d = c
      <4> DEFINE from == connections[c].next_seq_expected
                 wb == connections[c].write_buffer
                 moved == Moved(c, buf, n)
      <4>1. from \in Nat /\ wb \in Seq(Response) /\ n >= from
        BY <2>0, <3>1 DEF ConnectionState, Reassembled
      <4>2. moved \in Seq(Response) /\ Len(moved) = n - from
        BY <3>1, <4>1, MovedProperties DEF Reassembled
      <4>3. wb \o moved \in Seq(Response) /\ Len(wb \o moved) = Len(wb) + Len(moved)
        BY <4>1, <4>2, ConcatProperties
      <4>4. wb \o moved # <<>> <=> (wb # <<>> \/ n > from)
        BY <4>1, <4>2, <4>3, EmptySeq, LenProperties
      <4> QED
        BY <3>1, <3>2, <4>4 DEF WritesArePolled, Reassembled
    <3>3. CASE d # c
      BY <3>1, <3>3 DEF WritesArePolled, Connected, Reassembled
    <3> QED
      BY <3>2, <3>3
  <2>7. CASE StampLine
    BY <2>0, <2>7 DEF StampLine, ConnectionState, Connected, WritesArePolled
  <2> QED
    BY <2>1, <2>2, <2>3, <2>4, <2>5, <2>6, <2>7, QuietSteps
<1> QED
  BY <1>1, <1>2, TypeInvAlways, PTL DEF Spec
=============================================================================
