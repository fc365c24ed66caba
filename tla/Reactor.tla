------------------------------ MODULE Reactor ------------------------------
(***************************************************************************)
(* The reactor thread: connection table, poll loop, line framing, stamping *)
(* of requests, the pipeline's handlers, reassembly of responses in        *)
(* request order, and the two kinds of backpressure; with the worker pool  *)
(* (TaskPool) executing what it submits, and the kernel and the clients    *)
(* around it.                                                              *)
(*                                                                         *)
(* The bytes of a request line are abstracted to [id, kind]: the line's    *)
(* position in what the client sent, and what the pipeline makes of it.  A *)
(* response carries the connection and the line it answers, so that        *)
(* properties can tell whose answer it is; the code sees only its bytes.   *)
(***************************************************************************)
EXTENDS TaskPool, FiniteSets

CONSTANTS Sockets,              \* the SOCKET handles the kernel hands out
          MAX_CONNECTIONS,
          MAX_PIPELINE_DEPTH,
          None,                 \* no connection or line at hand
          LineKinds,            \* kinds of line the clients send
          MaxLines,             \* bound: lines a client sends
          MaxDials              \* bound: connections dialled in all

ASSUME ReactorAssumption ==
  /\ MAX_CONNECTIONS \in Nat \ {0}
  /\ MAX_PIPELINE_DEPTH \in Nat \ {0}
  /\ MaxLines \in Nat /\ MaxDials \in Nat
  /\ LineKinds \subseteq {"blank", "space", "unknown", "command"}
  /\ IsFiniteSet(Sockets)
  /\ None \notin Sockets

VARIABLES
  running,            \* running_
  pc,                 \* where start() is
  results,            \* results of drain_completion_queue still to apply
  revents,            \* events of the last poll still to handle
  client, line,       \* the connection and the line being handled
  connections,        \* connections_
  paused_reads,       \* paused_reads_
  total_connections,  \* total_connections_
  inbound,            \* kernel: lines received on a socket and not yet read
  peer_closed,        \* kernel: sockets whose peer is gone
  backlog,            \* kernel: connections waiting to be accepted
  dialed, sent,       \* clients: connections dialled; lines sent per socket
  owner,              \* history: which connection a handle stands for
  tainted,            \* history: handles reused with work still under way
  issued,             \* history: lines stamped on each connection
  delivered           \* history: responses sent on each connection

reactorVars == <<running, pc, results, revents, client, line, connections,
                 paused_reads, total_connections>>
kernelVars == <<inbound, peer_closed, backlog, dialed, sent>>
historyVars == <<owner, tainted, issued, delivered>>
vars == <<poolVars, reactorVars, kernelVars, historyVars>>
-----------------------------------------------------------------------------
Line == [id : Nat \ {0}, kind : LineKinds]

Status == {"ok", "empty command", "unknown command", "rate limit exceeded",
           "server busy"}

Response == [owner : Nat, line : Line, status : Status]

(* A task (its command abstracted to what it will answer) and its result. *)
TaskResult == [client_fd : Sockets, sequence_id : Nat, response : Response]

(* An idle worker is told from a busy one. *)
ASSUME TaskAssumption == NoTask \notin TaskResult

(* out_of_order_buf is a map from sequence_id: the results parked in it. *)
ConnectionState == [read_buffer : Seq(Line), write_buffer : Seq(Response),
                    write_pending : BOOLEAN,
                    next_seq_issue : Nat, next_seq_expected : Nat,
                    out_of_order_buf : SUBSET TaskResult,
                    in_flight_requests : Nat]

NewConnection == [read_buffer |-> <<>>, write_buffer |-> <<>>,
                  write_pending |-> FALSE,
                  next_seq_issue |-> 0, next_seq_expected |-> 0,
                  out_of_order_buf |-> {}, in_flight_requests |-> 0]

Connected == DOMAIN connections

Event == {"read", "write", "hup"}

LoopTypeOK ==
  /\ running \in BOOLEAN
  /\ pc \in {"drain", "apply", "poll", "accept", "events", "lines", "process",
             "stopped"}
  /\ results \in Seq(TaskResult)
  /\ revents \in [Sockets -> SUBSET Event]
  /\ client \in Sockets \cup {None}
  /\ line \in Line \cup {None}

ConnTypeOK ==
  /\ Connected \subseteq Sockets
  /\ connections \in [Connected -> ConnectionState]
  /\ paused_reads \in SUBSET Sockets
  /\ total_connections \in Nat

KernelTypeOK ==
  /\ inbound \in [Sockets -> Seq(Line)]
  /\ peer_closed \in SUBSET Sockets
  /\ backlog \in Nat /\ dialed \in Nat
  /\ sent \in [Sockets -> Nat]

HistoryTypeOK ==
  /\ owner \in [Sockets -> Nat]
  /\ tainted \in SUBSET Sockets
  /\ issued \in [Sockets -> Seq(Line)]
  /\ delivered \in [Sockets -> Seq(Response)]

TypeOK == /\ PoolTypeOK(TaskResult)
          /\ LoopTypeOK /\ ConnTypeOK /\ KernelTypeOK /\ HistoryTypeOK

NoEvents == [c \in Sockets |-> {}]

Init == /\ PoolInit
        /\ running = TRUE /\ pc = "drain"
        /\ results = <<>> /\ revents = NoEvents
        /\ client = None /\ line = None
        /\ connections = [c \in {} |-> NewConnection]
        /\ paused_reads = {} /\ total_connections = 0
        /\ inbound = [c \in Sockets |-> <<>>] /\ peer_closed = {}
        /\ backlog = 0 /\ dialed = 0
        /\ sent = [c \in Sockets |-> 0]
        /\ owner = [c \in Sockets |-> 0] /\ tainted = {}
        /\ issued = [c \in Sockets |-> <<>>]
        /\ delivered = [c \in Sockets |-> <<>>]
-----------------------------------------------------------------------------
(* drain_completion_queue *)

DrainCompletions == /\ pc = "drain" /\ running
                    /\ DrainAll
                    /\ results' = completions
                    /\ pc' = "apply"
                    /\ UNCHANGED <<running, revents, client, line, connections,
                                   paused_reads, total_connections,
                                   kernelVars, historyVars>>

(* A result whose connection is gone is dropped. *)
DropResult == /\ pc = "apply" /\ results # <<>>
              /\ Head(results).client_fd \notin Connected
              /\ results' = Tail(results)
              /\ UNCHANGED <<poolVars, running, pc, revents, client, line,
                             connections, paused_reads, total_connections,
                             kernelVars, historyVars>>

Parked(buf, s) == \E x \in buf : x.sequence_id = s

(* Mutant: the latest result parked instead of the next one. *)
LatestParked(buf, s) ==
  (CHOOSE x \in buf : \A y \in buf : x.sequence_id >= y.sequence_id).response

ParkedResponse(buf, s) == (CHOOSE x \in buf : x.sequence_id = s).response

(* Storing under a sequence_id replaces what was stored under it. *)
Park(buf, r) == {x \in buf : x.sequence_id # r.sequence_id} \cup {r}

(* Mutant: the counter may pass below 0. *)
LessUnchecked(count, n) == count - n

(* Mutant: a result counts as an answer, moved or not. *)
OneLess(count, n) == IF count > 0 THEN count - 1 ELSE 0

(* Mutant: answers are not counted off. *)
NeverLess(count, n) == count

(* in_flight_requests after n answers: it never passes below 0. *)
Less(count, n) == IF count > n THEN count - n ELSE 0

(***************************************************************************)
(* The connection after the while loop that moves the contiguous results   *)
(* from .. n-1 of buf to the write buffer.                                 *)
(***************************************************************************)
Flushed(k, buf, n) ==
  LET from == k.next_seq_expected
      moved == [i \in 1 .. (n - from) |-> ParkedResponse(buf, from + i - 1)]
  IN [k EXCEPT !.write_buffer = @ \o moved,
               !.out_of_order_buf = {x \in buf : x.sequence_id \notin from .. (n - 1)},
               !.next_seq_expected = n,
               !.in_flight_requests = Less(@, n - from),
               !.write_pending = (@ \/ n > from)]

ReassembleResult ==
  /\ pc = "apply" /\ results # <<>>
  /\ LET r == Head(results)
         c == r.client_fd
     IN /\ c \in Connected
        /\ LET from == connections[c].next_seq_expected
               buf == Park(connections[c].out_of_order_buf, r)
           IN \E n \in from .. (from + Cardinality(buf)) :
                /\ \A s \in from .. (n - 1) : Parked(buf, s)
                /\ ~Parked(buf, n)
                /\ connections' = [connections EXCEPT ![c] = Flushed(@, buf, n)]
  /\ results' = Tail(results)
  /\ UNCHANGED <<poolVars, running, pc, revents, client, line,
                 paused_reads, total_connections, kernelVars, historyVars>>
-----------------------------------------------------------------------------
(* Backpressure is released, then the sockets are polled. *)

QueueBelow70 == Len(queue) * 10 < MaxQueueSize * 7

QueueAbove90 == Len(queue) * 10 > MaxQueueSize * 9

StillPaused ==
  IF QueueBelow70 THEN {}
  ELSE {c \in paused_reads :
          ~(/\ c \in Connected
            /\ connections[c].in_flight_requests < MAX_PIPELINE_DEPTH)}

Unpause == /\ pc = "apply" /\ results = <<>>
           /\ paused_reads' = StillPaused
           /\ pc' = "poll"
           /\ UNCHANGED <<poolVars, running, results, revents, client, line,
                          connections, total_connections, kernelVars,
                          historyVars>>

(* Mutant: paused connections are polled for reading. *)
ReadableAlways(c) == inbound[c] # <<>> \/ c \in peer_closed

(***************************************************************************)
(* rebuild_poll_set and WSAPoll.  Reading is asked for unless paused, and  *)
(* reported when lines or the end of the stream wait; writing is asked for *)
(* when pending, and reported if the kernel has room; a hang-up is         *)
(* reported unasked, or shows only as the end of the stream.               *)
(***************************************************************************)
Readable(c) == /\ c \notin paused_reads
               /\ inbound[c] # <<>> \/ c \in peer_closed

(* Mutant: poll without a timeout. *)
PollForever == /\ pc = "poll"
               /\ revents' = [c \in Sockets |->
                                {e \in Event : /\ c \in Connected
                                               /\ e = "read" /\ Readable(c)}]
               /\ revents' # NoEvents \/ backlog > 0
               /\ pc' = IF backlog > 0 THEN "accept" ELSE "events"
               /\ UNCHANGED <<poolVars, running, results, client, line, connections,
                              paused_reads, total_connections, kernelVars,
                              historyVars>>

Poll == /\ pc = "poll"
        /\ \E writable \in SUBSET {c \in Connected : connections[c].write_pending},
              hungup \in SUBSET (Connected \cap peer_closed) :
             revents' = [c \in Sockets |->
                          {e \in Event :
                             /\ c \in Connected
                             /\ \/ e = "read" /\ Readable(c)
                                \/ e = "write" /\ c \in writable
                                \/ e = "hup" /\ c \in hungup}]
        /\ pc' = IF backlog > 0 THEN "accept"
                 ELSE IF revents' = NoEvents THEN "drain" ELSE "events"
        /\ UNCHANGED <<poolVars, running, results, client, line, connections,
                       paused_reads, total_connections, kernelVars, historyVars>>
-----------------------------------------------------------------------------
(* accept_connection: the listening socket is the first one polled. *)

Outstanding == {queue[i] : i \in DOMAIN queue}
                 \cup {executing[w] : w \in {v \in Workers : executing[v] # NoTask}}
                 \cup {completions[i] : i \in DOMAIN completions}
                 \cup {results[i] : i \in DOMAIN results}

Accept(c) ==
  /\ pc = "accept"
  /\ total_connections < MAX_CONNECTIONS
  /\ c \in Sockets \ Connected
  /\ connections' = [s \in Connected \cup {c} |->
                       IF s = c THEN NewConnection ELSE connections[s]]
  /\ total_connections' = total_connections + 1
  /\ owner' = [owner EXCEPT ![c] = @ + 1]
  /\ tainted' = IF \E t \in Outstanding : t.client_fd = c
                THEN tainted \cup {c} ELSE tainted
  /\ pc' = "events"
  /\ backlog' = backlog - 1
  /\ UNCHANGED <<poolVars, running, results, revents, client, line, paused_reads,
                 inbound, peer_closed, dialed, sent, issued, delivered>>

(* Told that the limit is reached and closed, or gone before the accept. *)
Refuse == /\ pc = "accept"
          /\ pc' = "events"
          /\ backlog' = backlog - 1
          /\ UNCHANGED <<poolVars, running, results, revents, client, line,
                         connections, paused_reads, total_connections,
                         inbound, peer_closed, dialed, sent, historyVars>>

AcceptConnection == \/ \E c \in Sockets : Accept(c)
                    \/ Refuse
-----------------------------------------------------------------------------
(* Mutant: the connection is not counted off. *)
SameCount == total_connections

CountedOff == IF total_connections > 0 THEN total_connections - 1 ELSE 0

(* Mutant: the handle stays among the paused ones. *)
KeepPaused(c) == paused_reads

NotPaused(c) == paused_reads \ {c}

(***************************************************************************)
(* disconnect: the handle is closed, and the kernel may hand it out again. *)
(***************************************************************************)
Disconnect(c) ==
  /\ connections' = [s \in Connected \ {c} |-> connections[s]]
  /\ paused_reads' = NotPaused(c)
  /\ total_connections' = CountedOff
  /\ revents' = [revents EXCEPT ![c] = {}]
  /\ inbound' = [inbound EXCEPT ![c] = <<>>]
  /\ peer_closed' = peer_closed \ {c}
  /\ sent' = [sent EXCEPT ![c] = 0]
  /\ tainted' = tainted \ {c}
  /\ issued' = [issued EXCEPT ![c] = <<>>]
  /\ delivered' = [delivered EXCEPT ![c] = <<>>]
  /\ UNCHANGED <<poolVars, running, pc, results, client, line,
                 backlog, dialed, owner>>

HangUp(c) == /\ pc = "events" /\ "hup" \in revents[c]
             /\ Disconnect(c)

(* recv returns 0 or an error once the peer is gone. *)
ReadFails(c) == /\ pc = "events"
                /\ "hup" \notin revents[c] /\ "read" \in revents[c]
                /\ c \in peer_closed
                /\ Disconnect(c)

(* recv brings in some lines, or none when it ends inside the next one. *)
HandleRead(c) ==
  /\ pc = "events"
  /\ "hup" \notin revents[c] /\ "read" \in revents[c]
  /\ inbound[c] # <<>>
  /\ \E n \in 0 .. Len(inbound[c]) :
       /\ connections' = [connections EXCEPT ![c].read_buffer =
                            @ \o SubSeq(inbound[c], 1, n)]
       /\ inbound' = [inbound EXCEPT ![c] = SubSeq(@, n + 1, Len(@))]
  /\ revents' = [revents EXCEPT ![c] = @ \ {"read"}]
  /\ client' = c
  /\ pc' = "lines"
  /\ UNCHANGED <<poolVars, running, results, line, paused_reads,
                 total_connections, peer_closed, backlog, dialed, sent,
                 historyVars>>

(***************************************************************************)
(* The loop over the complete lines in read_buffer.  Each line leaves the  *)
(* buffer before anything about it is decided.                             *)
(***************************************************************************)
LinesDone == /\ pc = "lines" /\ connections[client].read_buffer = <<>>
             /\ pc' = "events" /\ client' = None
             /\ UNCHANGED <<poolVars, running, results, revents, line,
                            connections, paused_reads, total_connections,
                            kernelVars, historyVars>>

NextLine == /\ pc = "lines" /\ connections[client].read_buffer # <<>>
            /\ connections' = [connections EXCEPT ![client].read_buffer = Tail(@)]

SkipBlankLine == /\ NextLine
                 /\ Head(connections[client].read_buffer).kind = "blank"
                 /\ UNCHANGED <<poolVars, running, pc, results, revents, client,
                                line, paused_reads, total_connections,
                                kernelVars, historyVars>>

(* Mutant: one request too many is under way. *)
MustPauseLate == \/ connections[client].in_flight_requests > MAX_PIPELINE_DEPTH
                 \/ QueueAbove90

(* Mutant: the queue is not looked at. *)
MustPauseDepthOnly == connections[client].in_flight_requests >= MAX_PIPELINE_DEPTH

MustPause == \/ connections[client].in_flight_requests >= MAX_PIPELINE_DEPTH
             \/ QueueAbove90

PauseReads == /\ NextLine
              /\ Head(connections[client].read_buffer).kind # "blank"
              /\ MustPause
              /\ paused_reads' = paused_reads \cup {client}
              /\ pc' = "events" /\ client' = None
              /\ UNCHANGED <<poolVars, running, results, revents, line,
                             total_connections, kernelVars, historyVars>>

TakeLine == /\ NextLine
            /\ Head(connections[client].read_buffer).kind # "blank"
            /\ ~MustPause
            /\ line' = Head(connections[client].read_buffer)
            /\ pc' = "process"
            /\ UNCHANGED <<poolVars, running, results, revents, client,
                           paused_reads, total_connections, kernelVars,
                           historyVars>>
-----------------------------------------------------------------------------
(* Pipeline::process: each handler answers itself or calls the next one. *)

(* RateLimiter::allow *)
Allow(c) == TRUE

(* What the rate limiter, the tokenizer and the parser make of a line. *)
Verdict(c, l) == CASE ~Allow(c) -> "rate limit exceeded"
                   [] Allow(c) /\ l.kind = "space" -> "empty command"
                   [] Allow(c) /\ l.kind = "unknown" -> "unknown command"
                   [] OTHER -> "ok"

Result(c, seq, l, status) ==
  [client_fd |-> c, sequence_id |-> seq,
   response |-> [owner |-> owner[c], line |-> l, status |-> status]]

Dispatch(c, seq, l) == IF HasRoom THEN Submit(Result(c, seq, l, "ok"))
                       ELSE Post(Result(c, seq, l, "server busy"))

(* Mutant: a line that is no command gets no answer. *)
ProcessCommandsOnly(c, seq, l) ==
  IF Verdict(c, l) = "ok" THEN Dispatch(c, seq, l) ELSE UNCHANGED poolVars

PipelineProcess(c, seq, l) ==
  IF Verdict(c, l) = "ok" THEN Dispatch(c, seq, l)
  ELSE Post(Result(c, seq, l, Verdict(c, l)))

(* A line is stamped with the connection's next number and processed. *)
StampLine == /\ pc = "process"
             /\ PipelineProcess(client, connections[client].next_seq_issue, line)
             /\ connections' = [connections EXCEPT
                                  ![client].next_seq_issue = @ + 1,
                                  ![client].in_flight_requests = @ + 1]
             /\ issued' = [issued EXCEPT ![client] = Append(@, line)]
             /\ line' = None
             /\ pc' = "lines"
             /\ UNCHANGED <<running, results, revents, client, paused_reads,
                            total_connections, kernelVars, owner, tainted,
                            delivered>>
-----------------------------------------------------------------------------
(* Mutant: what was sent is not erased. *)
AllOf(buffer, n) == buffer

Unsent(buffer, n) == SubSeq(buffer, n + 1, Len(buffer))

(* Mutant: a partial send counts as a full one. *)
NothingPending(pending, rest) == FALSE

StillPending(pending, rest) == pending /\ rest # <<>>

(***************************************************************************)
(* handle_write sends some of the write buffer.  It touches this           *)
(* connection only, so its place among other sockets' events is immaterial.*)
(***************************************************************************)
HandleWrite(c) ==
  /\ pc = "events" /\ revents[c] = {"write"}
  /\ LET buffer == connections[c].write_buffer IN
     \E n \in 0 .. Len(buffer) :
       /\ connections' = [connections EXCEPT
                            ![c].write_buffer = Unsent(buffer, n),
                            ![c].write_pending = StillPending(@, Unsent(buffer, n))]
       /\ delivered' = [delivered EXCEPT ![c] = @ \o SubSeq(buffer, 1, n)]
  /\ revents' = [revents EXCEPT ![c] = {}]
  /\ UNCHANGED <<poolVars, running, pc, results, client, line, paused_reads,
                 total_connections, kernelVars, owner, tainted, issued>>

(* send fails when the peer is gone. *)
WriteFails(c) == /\ pc = "events" /\ revents[c] = {"write"}
                 /\ c \in peer_closed
                 /\ Disconnect(c)

EventsDone == /\ pc = "events" /\ revents = NoEvents
              /\ pc' = "drain"
              /\ UNCHANGED <<poolVars, running, results, revents, client, line,
                             connections, paused_reads, total_connections,
                             kernelVars, historyVars>>

(* start() leaves its loop and closes every connection. *)
CloseAll == /\ pc = "drain" /\ ~running
            /\ pc' = "stopped"
            /\ connections' = [c \in {} |-> NewConnection]
            /\ inbound' = [c \in Sockets |-> <<>>]
            /\ peer_closed' = {}
            /\ sent' = [c \in Sockets |-> 0]
            /\ tainted' = {}
            /\ issued' = [c \in Sockets |-> <<>>]
            /\ delivered' = [c \in Sockets |-> <<>>]
            /\ UNCHANGED <<poolVars, running, results, revents, client, line,
                           paused_reads, total_connections, backlog, dialed,
                           owner>>
-----------------------------------------------------------------------------
HandleEvents == \/ \E c \in Sockets : \/ HangUp(c) \/ ReadFails(c) \/ HandleRead(c)
                                      \/ HandleWrite(c) \/ WriteFails(c)
                \/ EventsDone

HandleLines == LinesDone \/ SkipBlankLine \/ PauseReads \/ TakeLine \/ StampLine

ReactorStep == \/ DrainCompletions \/ DropResult \/ ReassembleResult
               \/ Unpause \/ Poll
               \/ AcceptConnection \/ HandleEvents \/ HandleLines
               \/ CloseAll

(* Reactor::stop, called by the main thread at any moment. *)
Stop == /\ running
        /\ running' = FALSE
        /\ UNCHANGED <<poolVars, pc, results, revents, client, line, connections,
                       paused_reads, total_connections, kernelVars, historyVars>>

WorkerTake(w) == Take(w) /\ UNCHANGED <<reactorVars, kernelVars, historyVars>>

WorkerFinish(w) == Finish(w) /\ UNCHANGED <<reactorVars, kernelVars, historyVars>>

(* Clients dial, send lines, and go away. *)
Dial == /\ dialed < MaxDials /\ pc # "stopped"
        /\ dialed' = dialed + 1
        /\ backlog' = backlog + 1
        /\ UNCHANGED <<poolVars, reactorVars, inbound, peer_closed, sent,
                       historyVars>>

SendLine(c, kind) == /\ c \in Connected \ peer_closed
                     /\ sent[c] < MaxLines
                     /\ sent' = [sent EXCEPT ![c] = @ + 1]
                     /\ inbound' = [inbound EXCEPT ![c] =
                                      Append(@, [id |-> sent[c] + 1, kind |-> kind])]
                     /\ UNCHANGED <<poolVars, reactorVars, peer_closed, backlog,
                                    dialed, historyVars>>

ClosePeer(c) == /\ c \in Connected \ peer_closed
                /\ peer_closed' = peer_closed \cup {c}
                /\ UNCHANGED <<poolVars, reactorVars, inbound, backlog, dialed,
                               sent, historyVars>>

ClientStep == \/ Dial
              \/ \E c \in Sockets : \/ \E kind \in LineKinds : SendLine(c, kind)
                                    \/ ClosePeer(c)

(* The reactor has returned and the workers have nothing left to execute. *)
Terminated == /\ pc = "stopped" /\ queue = <<>>
              /\ \A w \in Workers : executing[w] = NoTask
              /\ UNCHANGED vars

Next == \/ ReactorStep \/ Stop
        \/ \E w \in Workers : WorkerTake(w) \/ WorkerFinish(w)
        \/ ClientStep
        \/ Terminated

(***************************************************************************)
(* The reactor thread keeps running: poll waits at most 100 ms and every   *)
(* handler returns.  The pool's fairness is what WorkerPool guarantees.    *)
(* Clients owe nothing, and nobody has to call stop.                       *)
(***************************************************************************)
Fairness == /\ WF_vars(ReactorStep)
            /\ WF_vars(\E w \in Workers : WorkerTake(w))
            /\ \A w \in Workers : WF_vars(WorkerFinish(w))

Spec == Init /\ [][Next]_vars /\ Fairness
-----------------------------------------------------------------------------
(* A connection that did not inherit a handle with work still under way. *)
Sound == Connected \ tainted

(***************************************************************************)
(* Responses leave in request order: what was sent to a client and what    *)
(* waits in its write buffer are the answers, in order and without gaps,   *)
(* to the first lines stamped on that very connection, in whatever order   *)
(* the workers finish (next_seq_expected and out_of_order_buf).            *)
(***************************************************************************)
ResponsesInOrder ==
  \A c \in Sound :
    LET out == delivered[c] \o connections[c].write_buffer IN
      /\ Len(out) = connections[c].next_seq_expected
      /\ Len(out) <= Len(issued[c])
      /\ \A i \in 1 .. Len(out) : /\ out[i].owner = owner[c]
                                  /\ out[i].line = issued[c][i]

IsFor(t, c, s) == t.client_fd = c /\ t.sequence_id = s

(* Every place that holds the task or the result of request s of c. *)
Holders(c, s) ==
  {<<"queue", i>> : i \in {j \in DOMAIN queue : IsFor(queue[j], c, s)}}
    \cup {<<"worker", w>> : w \in {v \in Workers :
                                     /\ executing[v] # NoTask
                                     /\ IsFor(executing[v], c, s)}}
    \cup {<<"completed", i>> : i \in {j \in DOMAIN completions :
                                        IsFor(completions[j], c, s)}}
    \cup {<<"drained", i>> : i \in {j \in DOMAIN results : IsFor(results[j], c, s)}}
    \cup {<<"parked", x>> : x \in {y \in connections[c].out_of_order_buf :
                                     IsFor(y, c, s)}}

(***************************************************************************)
(* Every request stamped and not yet answered is in exactly one place, and *)
(* in_flight_requests counts exactly those: no request is lost between the *)
(* reactor and the workers, and none is answered twice.                    *)
(***************************************************************************)
NothingForgotten ==
  \A c \in Sound :
    LET k == connections[c] IN
      /\ k.in_flight_requests = k.next_seq_issue - k.next_seq_expected
      /\ \A s \in k.next_seq_expected .. (k.next_seq_issue - 1) :
           Cardinality(Holders(c, s)) = 1

(***************************************************************************)
(* No connection has more than MAX_PIPELINE_DEPTH requests under way.      *)
(***************************************************************************)
PipelineDepthRespected ==
  \A c \in Sound : connections[c].next_seq_issue - connections[c].next_seq_expected
                     <= MAX_PIPELINE_DEPTH

(***************************************************************************)
(* A line that passed the 90% check always finds room in the queue when it *)
(* is submitted, although the check and the submit lock the pool           *)
(* separately: the answer "server busy" is never given.                    *)
(***************************************************************************)
NeverBusy == pc = "process" => HasRoom

(***************************************************************************)
(* total_connections_ counts the open connections exactly, through every   *)
(* path that closes one, and stays within MAX_CONNECTIONS.                 *)
(***************************************************************************)
ConnectionCount == pc # "stopped" =>
                     /\ total_connections = Cardinality(Connected)
                     /\ total_connections <= MAX_CONNECTIONS

(***************************************************************************)
(* Only open connections are paused: a handle that is handed out again     *)
(* never starts with its reads paused.                                     *)
(***************************************************************************)
PausedAreConnected == pc # "stopped" => paused_reads \subseteq Connected

(***************************************************************************)
(* A response in the write buffer is always polled for: write_pending says *)
(* exactly whether the write buffer holds something.                       *)
(***************************************************************************)
WritesArePolled ==
  \A c \in Connected : connections[c].write_pending
                         <=> (connections[c].write_buffer # <<>>)

(***************************************************************************)
(* The reactor reads nothing from a paused connection, so that its lines   *)
(* stay in the kernel and TCP holds the client back.                       *)
(***************************************************************************)
PausedIsNotRead ==
  [][\A c \in paused_reads \cap DOMAIN connections' :
       Len(inbound'[c]) >= Len(inbound[c])]_vars

(***************************************************************************)
(* Every stamped request is answered, unless its connection is closed.     *)
(***************************************************************************)
StampedIsAnswered ==
  \A c \in Sockets, s \in 0 .. (MaxLines - 1) :
    (c \in Sound /\ connections[c].next_seq_issue > s)
      ~> (c \notin Connected \/ connections[c].next_seq_expected > s)

(***************************************************************************)
(* The loop always comes back to its test of running_: once stop() has     *)
(* been called the reactor closes its connections and returns.             *)
(***************************************************************************)
StopReturns == ~running ~> pc = "stopped"
-----------------------------------------------------------------------------
(* What the documentation says and the code does not do. *)

Lines(s) == {s[i].id : i \in DOMAIN s}

(***************************************************************************)
(* Backpressure without data loss: every line a client sent is still       *)
(* buffered, at hand, or stamped (docs/architecture_decisions.md, 8).  For *)
(* clients that send no blank lines.                                       *)
(***************************************************************************)
NoLineLost ==
  \A c \in Connected :
    1 .. sent[c] = Lines(inbound[c]) \cup Lines(connections[c].read_buffer)
                     \cup Lines(issued[c])
                     \cup (IF client = c /\ line # None THEN {line.id} ELSE {})

(***************************************************************************)
(* A result is dropped once its connection is gone (reactor.cpp, 196): a   *)
(* client never gets the answer to another client's request.               *)
(***************************************************************************)
OwnResponsesOnly ==
  \A c \in Connected :
    LET out == delivered[c] \o connections[c].write_buffer IN
      \A i \in DOMAIN out : out[i].owner = owner[c]
=============================================================================
