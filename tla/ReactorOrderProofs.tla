------------------------- MODULE ReactorOrderProofs -------------------------
(***************************************************************************)
(* Proofs about requests and responses: every client gets its answers in   *)
(* the order of its requests, no request is lost or held twice on its way  *)
(* through queue, workers and reassembly, and no connection has more of    *)
(* them under way than MAX_PIPELINE_DEPTH.                                 *)
(***************************************************************************)
EXTENDS ReactorProofs

(***************************************************************************)
(* The inductive invariant behind ResponsesInOrder.  ResponsesInOrder      *)
(* speaks of the answers already in order; to preserve it one must know    *)
(* that everything still under way for a connection, whether queued, being *)
(* executed, completed, drained or parked, answers the line that was       *)
(* stamped with its sequence number.                                       *)
(***************************************************************************)
IsAnswer(own, stamped, r, i) == r.owner = own /\ r.line = stamped[i]

Answers(c, r, i) == IsAnswer(owner[c], issued[c], r, i)

Faithful(c, t) == /\ t.sequence_id < Len(issued[c])
                  /\ Answers(c, t.response, t.sequence_id + 1)

UnderWayOK(c) ==
  /\ connections[c].next_seq_issue = Len(issued[c])
  /\ \A t \in Outstanding : t.client_fd = c => Faithful(c, t)
  /\ \A t \in connections[c].out_of_order_buf : Faithful(c, t)

Out(c) == delivered[c] \o connections[c].write_buffer

AnsweredOK(c) ==
  /\ Len(Out(c)) = connections[c].next_seq_expected
  /\ connections[c].next_seq_expected <= Len(issued[c])
  /\ \A i \in 1 .. Len(Out(c)) : Answers(c, Out(c)[i], i)

OrderInv == /\ \A c \in Sockets \ Connected : issued[c] = <<>> /\ delivered[c] = <<>>
            /\ \A c \in Sound : UnderWayOK(c) /\ AnsweredOK(c)

LEMMA OrderImpliesResponses == OrderInv => ResponsesInOrder
  BY DEF OrderInv, AnsweredOK, Out, Answers, IsAnswer, ResponsesInOrder

LEMMA QuietOrder == ASSUME TypeInv, OrderInv, Quiet PROVE OrderInv'
<1>1. Connected' = Connected /\ Sound' = Sound
        /\ issued' = issued /\ delivered' = delivered /\ owner' = owner
  BY DEF Quiet, Sound, historyVars
<1>2. ASSUME NEW c \in Sound PROVE UnderWayOK(c)' /\ AnsweredOK(c)'
  <2>1. SameReplies(c) /\ UnderWayOK(c) /\ AnsweredOK(c) /\ Outstanding' \subseteq Outstanding
    BY DEF Sound, Quiet, OrderInv
  <2>2. UnderWayOK(c)'
    BY <1>1, <2>1 DEF SameReplies, UnderWayOK, Faithful, Answers
  <2>3. AnsweredOK(c)'
    BY <1>1, <2>1 DEF SameReplies, AnsweredOK, Answers, Out
  <2> QED
    BY <2>2, <2>3
<1> QED
  BY <1>1, <1>2 DEF OrderInv

(* A connection that a step does not concern. *)
LEMMA OtherOrder ==
  ASSUME TypeInv, OrderInv, NEW d \in Sound,
         connections'[d] = connections[d],
         issued'[d] = issued[d], delivered'[d] = delivered[d], owner'[d] = owner[d],
         \A t \in Outstanding' : t.client_fd = d => t \in Outstanding
  PROVE  UnderWayOK(d)' /\ AnsweredOK(d)'
<1>1. UnderWayOK(d) /\ AnsweredOK(d)
  BY DEF OrderInv
<1>2. UnderWayOK(d)'
  BY <1>1 DEF UnderWayOK, Faithful, Answers
<1>3. AnsweredOK(d)'
  BY <1>1 DEF AnsweredOK, Answers, Out
<1> QED
  BY <1>2, <1>3

LEMMA AcceptOrder ==
  ASSUME TypeInv, OrderInv, NEW c \in Sockets, Accept(c) PROVE OrderInv'
<1>1. /\ Connected' = Connected \cup {c} /\ c \notin Connected
      /\ issued' = issued /\ delivered' = delivered
      /\ \A d \in Sockets \ {c} : owner'[d] = owner[d]
      /\ \A d \in Connected : connections'[d] = connections[d]
      /\ connections'[c] = NewConnection
      /\ UNCHANGED poolVars /\ UNCHANGED results
  BY DEF Accept, Connected, TypeInv, TypeOK, HistoryTypeOK
<1>2. Outstanding' \subseteq Outstanding
  BY <1>1, SameOutstanding
<1>3. ASSUME NEW d \in Sound', d # c PROVE UnderWayOK(d)' /\ AnsweredOK(d)'
  <2>1. d \in Sound /\ d \in Sockets
    BY <1>1, <1>3 DEF Sound, Accept, TypeInv, TypeOK, ConnTypeOK
  <2> QED
    BY <1>1, <1>2, <1>3, <2>1, OtherOrder DEF Sound
<1>4. ASSUME c \in Sound' PROVE UnderWayOK(c)' /\ AnsweredOK(c)'
  <2>1. \A t \in Outstanding' : t.client_fd # c
    BY <1>2, <1>4 DEF Sound, Accept
  <2>2. issued'[c] = <<>> /\ delivered'[c] = <<>>
    BY <1>1 DEF OrderInv
  <2>3. UnderWayOK(c)'
    BY <1>1, <2>1, <2>2 DEF UnderWayOK, NewConnection
  <2>4. AnsweredOK(c)'
    <3>1. Out(c)' = <<>> /\ Len(<<>>) = 0
      BY <1>1, <2>2, ConcatEmptySeq, EmptySeq DEF Out, NewConnection
    <3> QED
      BY <1>1, <2>2, <3>1 DEF AnsweredOK, NewConnection
  <2> QED
    BY <2>3, <2>4
<1> QED
  BY <1>1, <1>3, <1>4 DEF OrderInv

LEMMA DisconnectOrder ==
  ASSUME TypeInv, OrderInv, NEW c \in Sockets, Disconnect(c) PROVE OrderInv'
<1>1. /\ Connected' = Connected \ {c}
      /\ issued' = [issued EXCEPT ![c] = <<>>]
      /\ delivered' = [delivered EXCEPT ![c] = <<>>]
      /\ owner' = owner
      /\ \A d \in Connected \ {c} : connections'[d] = connections[d]
      /\ UNCHANGED poolVars /\ UNCHANGED results
  BY DEF Disconnect, Connected
<1>2. issued \in [Sockets -> Seq(Line)] /\ delivered \in [Sockets -> Seq(Response)]
  BY DEF TypeInv, TypeOK, HistoryTypeOK
<1>3. Outstanding' \subseteq Outstanding
  BY <1>1, SameOutstanding
<1>4. ASSUME NEW d \in Sound' PROVE UnderWayOK(d)' /\ AnsweredOK(d)'
  <2>1. d \in Sound /\ d # c /\ d \in Sockets
    BY <1>1 DEF Sound, Disconnect, TypeInv, TypeOK, ConnTypeOK
  <2> QED
    BY <1>1, <1>2, <1>3, <2>1, OtherOrder DEF Sound
<1> QED
  BY <1>1, <1>2, <1>4 DEF OrderInv

LEMMA WholeBySubSeqs ==
  ASSUME NEW S, NEW s \in Seq(S), NEW n \in 0 .. Len(s)
  PROVE  /\ SubSeq(s, 1, n) \in Seq(S)
         /\ SubSeq(s, n + 1, Len(s)) \in Seq(S)
         /\ SubSeq(s, 1, n) \o SubSeq(s, n + 1, Len(s)) = s
<1>1. PICK k \in Nat : k = Len(s)
  BY LenProperties
<1>2. 1 \in 1 .. (k + 1) /\ n \in (1 - 1) .. k /\ k \in n .. k
  BY <1>1
<1>3. SubSeq(s, 1, n) \o SubSeq(s, n + 1, k) = SubSeq(s, 1, k)
  BY <1>1, <1>2, ConcatAdjacentSubSeq
<1>4. SubSeq(s, 1, n) \in Seq(S) /\ SubSeq(s, n + 1, k) \in Seq(S)
  BY <1>1, <1>2, ElementOfSeq, SubSeqProperties
<1> QED
  BY <1>1, <1>3, <1>4, SubSeqFull

(* Sending a prefix of a buffer keeps what was sent and what waits, taken together. *)
LEMMA SendPrefix ==
  ASSUME NEW S, NEW d \in Seq(S), NEW s \in Seq(S), NEW n \in 0 .. Len(s)
  PROVE  (d \o SubSeq(s, 1, n)) \o SubSeq(s, n + 1, Len(s)) = d \o s
<1>1. PICK first \in Seq(S) : first = SubSeq(s, 1, n)
  BY WholeBySubSeqs
<1>2. PICK rest \in Seq(S) : rest = SubSeq(s, n + 1, Len(s))
  BY WholeBySubSeqs
<1>3. first \o rest = s
  BY <1>1, <1>2, WholeBySubSeqs
<1>4. \A f, g \in Seq(S) : (d \o f) \o g = d \o (f \o g)
  BY ConcatAssociative, SMTT(40)
<1>5. (d \o first) \o rest = d \o (first \o rest)
  BY <1>4, Zenon
<1> QED
  BY <1>1, <1>2, <1>3, <1>5

LEMMA WriteOrder ==
  ASSUME TypeInv, OrderInv, NEW c \in Sockets, HandleWrite(c) PROVE OrderInv'
<1>1. c \in Connected
  BY WriteStep
<1>2. PICK n \in 0 .. Len(connections[c].write_buffer) : Sent(c, n)
  BY WriteStep
<1>3. /\ issued' = issued /\ owner' = owner /\ tainted' = tainted
      /\ Outstanding' \subseteq Outstanding
      /\ Connected' = Connected
      /\ \A d \in Connected \ {c} : connections'[d] = connections[d]
  BY <1>2 DEF Sent, Connected
<1>4. delivered \in [Sockets -> Seq(Response)] /\ Connected \subseteq Sockets
        /\ connections[c].write_buffer \in Seq(Response)
  BY <1>1 DEF TypeInv, TypeOK, ConnTypeOK, HistoryTypeOK, ConnectionState
<1>5. ASSUME NEW d \in Sound', d # c PROVE UnderWayOK(d)' /\ AnsweredOK(d)'
  <2>1. d \in Sound /\ d \in Sockets
    BY <1>3, <1>4 DEF Sound
  <2>2. delivered'[d] = delivered[d]
    BY <1>2, <1>4, <1>5, <2>1 DEF Sent
  <2> QED
    BY <1>3, <1>5, <2>1, <2>2, OtherOrder DEF Sound
<1>6. ASSUME c \in Sound' PROVE UnderWayOK(c)' /\ AnsweredOK(c)'
  <2> DEFINE d == delivered[c]
             w == connections[c].write_buffer
             first == SubSeq(w, 1, n)
  <2>1. UnderWayOK(c) /\ AnsweredOK(c)
    BY <1>3, <1>6 DEF OrderInv, Sound
  <2>2. UnderWayOK(c)'
    BY <1>2, <1>3, <2>1 DEF Sent, UnderWayOK, Faithful, Answers
  <2>3. d \in Seq(Response) /\ w \in Seq(Response)
    BY <1>4
  <2>6. (d \o first) \o Rest(c, n) = d \o w
    BY <2>3, SendPrefix DEF Rest
  <2>7. /\ Out(c)' = Out(c)
        /\ connections'[c].next_seq_expected = connections[c].next_seq_expected
    BY <1>2, <1>4, <2>6 DEF Sent, Out, d, w, first
  <2>8. AnsweredOK(c)'
    BY <1>3, <2>1, <2>7 DEF AnsweredOK, Answers
  <2> QED
    BY <2>2, <2>8
<1>7. \A d \in Sockets \ Connected' : issued'[d] = <<>> /\ delivered'[d] = <<>>
  BY <1>1, <1>2, <1>3, <1>4 DEF OrderInv, Sent
<1> QED
  BY <1>5, <1>6, <1>7 DEF OrderInv

LEMMA CloseAllOrder == ASSUME TypeInv, CloseAll PROVE OrderInv'
<1>1. Connected' = {} /\ \A c \in Sockets : issued'[c] = <<>> /\ delivered'[c] = <<>>
  BY DEF CloseAll, Connected
<1> QED
  BY <1>1 DEF OrderInv, Sound

(* Answers to the lines up to m, followed by the answers to those up to n. *)
LEMMA ExtendAnswers ==
  ASSUME NEW S, NEW out \in Seq(S), NEW more \in Seq(S), NEW own, NEW ls,
         \A i \in 1 .. Len(out) : IsAnswer(own, ls, out[i], i),
         \A i \in 1 .. Len(more) : IsAnswer(own, ls, more[i], Len(out) + i)
  PROVE  /\ Len(out \o more) = Len(out) + Len(more)
         /\ \A i \in 1 .. Len(out \o more) : IsAnswer(own, ls, (out \o more)[i], i)
<1>1. PICK m \in Nat : m = Len(out)
  BY LenProperties
<1>2. PICK k \in Nat : k = Len(more)
  BY LenProperties
<1>3. /\ Len(out \o more) = m + k
      /\ \A i \in 1 .. (m + k) :
           (out \o more)[i] = IF i <= m THEN out[i] ELSE more[i - m]
  BY <1>1, <1>2, ConcatProperties
<1>4. ASSUME NEW i \in 1 .. (m + k) PROVE IsAnswer(own, ls, (out \o more)[i], i)
  <2>1. CASE i <= m
    BY <1>1, <1>3, <2>1
  <2>2. CASE ~(i <= m)
    <3>1. i - m \in 1 .. k /\ m + (i - m) = i
      BY <2>2
    <3>2. IsAnswer(own, ls, more[i - m], m + (i - m))
      BY <1>1, <1>2, <3>1
    <3> QED
      BY <1>3, <2>2, <3>1, <3>2
  <2> QED
    BY <2>1, <2>2
<1> QED
  BY <1>1, <1>2, <1>3, <1>4

LEMMA ReassembleOrder ==
  ASSUME TypeInv, OrderInv, ReassembleResult PROVE OrderInv'
<1>1. PICK c \in Connected, buf \in SUBSET TaskResult, n \in Nat :
        Reassembled(c, buf, n)
  BY ReassembleStep
<1>2. /\ issued' = issued /\ owner' = owner /\ tainted' = tainted
      /\ delivered' = delivered
      /\ Outstanding' \subseteq Outstanding
      /\ Connected' = Connected
      /\ \A d \in Connected \ {c} : connections'[d] = connections[d]
  BY <1>1 DEF Reassembled, Connected, historyVars
<1>3. ASSUME NEW d \in Sound', d # c PROVE UnderWayOK(d)' /\ AnsweredOK(d)'
  BY <1>2, <1>3, OtherOrder DEF Sound
<1>4. ASSUME c \in Sound' PROVE UnderWayOK(c)' /\ AnsweredOK(c)'
  <2> DEFINE from == connections[c].next_seq_expected
             moved == Moved(c, buf, n)
             stamped == issued[c]
  <2>1. UnderWayOK(c) /\ AnsweredOK(c)
    BY <1>2, <1>4 DEF OrderInv, Sound
  <2>2. /\ from \in Nat /\ n >= from
        /\ delivered[c] \in Seq(Response)
        /\ connections[c].write_buffer \in Seq(Response)
        /\ stamped \in Seq(Line)
    BY <1>1 DEF Reassembled, TypeInv, TypeOK, ConnTypeOK, HistoryTypeOK, ConnectionState
  <2>3. \A x \in buf : Faithful(c, x)
    BY <1>1, <2>1 DEF Reassembled, UnderWayOK
  <2>4. UnderWayOK(c)'
    <3>1. /\ connections'[c].next_seq_issue = connections[c].next_seq_issue
          /\ connections'[c].out_of_order_buf \subseteq buf
      BY <1>1 DEF Reassembled
    <3> QED
      BY <1>2, <2>1, <2>3, <3>1 DEF UnderWayOK, Faithful, Answers
  <2>5. /\ moved \in Seq(Response) /\ Len(moved) = n - from
        /\ \A i \in 1 .. (n - from) :
             \E x \in buf : x.sequence_id = from + i - 1 /\ moved[i] = x.response
    <3>1. \A s \in from .. (n - 1) : Parked(buf, s)
      BY <1>1 DEF Reassembled
    <3> QED
      BY <2>2, <3>1, MovedProperties
  <2>6. n <= Len(stamped)
    <3>1. CASE n = from
      BY <2>1, <3>1 DEF AnsweredOK
    <3>2. CASE n > from
      <4>1. n - 1 \in from .. (n - 1)
        BY <2>2, <3>2
      <4>2. PICK x \in buf : x.sequence_id = n - 1
        BY <1>1, <4>1 DEF Reassembled, Parked
      <4>3. n - 1 < Len(stamped)
        BY <2>3, <4>2 DEF Faithful
      <4> QED
        BY <2>2, <4>3, LenProperties
    <3> QED
      BY <2>2, <3>1, <3>2
  <2> HIDE DEF from, moved
  <2>7. \A i \in 1 .. (n - from) : IsAnswer(owner[c], stamped, moved[i], from + i)
    <3> SUFFICES ASSUME NEW i \in 1 .. (n - from)
                 PROVE  IsAnswer(owner[c], stamped, moved[i], from + i)
      OBVIOUS
    <3>1. PICK x \in buf : x.sequence_id = from + i - 1 /\ moved[i] = x.response
      BY <2>5
    <3>2. IsAnswer(owner[c], stamped, x.response, x.sequence_id + 1)
      BY <2>3 DEF Faithful, Answers
    <3>3. x.sequence_id + 1 = from + i
      BY <2>2, <3>1
    <3> QED
      BY <3>1, <3>2, <3>3
  <2>8. Out(c) \in Seq(Response) /\ Len(Out(c)) = from
    BY <2>1, <2>2, ConcatProperties DEF AnsweredOK, Out, from
  <2>9. Out(c)' = Out(c) \o moved
    <3>1. \A s, t, u \in Seq(Response) : (s \o t) \o u = s \o (t \o u)
      BY ConcatAssociative, SMTT(40)
    <3>2. Out(c)' = delivered[c] \o (connections[c].write_buffer \o moved)
      BY <1>1, <1>2 DEF Out, Reassembled, moved
    <3>3. (delivered[c] \o connections[c].write_buffer) \o moved
            = delivered[c] \o (connections[c].write_buffer \o moved)
      BY <2>2, <2>5, <3>1, Zenon
    <3> QED
      BY <3>2, <3>3 DEF Out
  <2>10. \A i \in 1 .. Len(Out(c)) : IsAnswer(owner[c], stamped, Out(c)[i], i)
    BY <2>1 DEF AnsweredOK, Answers
  <2>11. /\ Len(Out(c) \o moved) = Len(Out(c)) + Len(moved)
         /\ \A i \in 1 .. Len(Out(c) \o moved) :
              IsAnswer(owner[c], stamped, (Out(c) \o moved)[i], i)
    BY <2>5, <2>7, <2>8, <2>10, ExtendAnswers
  <2>12. Len(Out(c) \o moved) = n
    BY <2>2, <2>5, <2>8, <2>11
  <2>13. AnsweredOK(c)'
    BY <1>1, <1>2, <2>6, <2>9, <2>11, <2>12 DEF AnsweredOK, Answers, Reassembled
  <2> QED
    BY <2>4, <2>13
<1>5. \A d \in Sockets \ Connected' : issued'[d] = <<>> /\ delivered'[d] = <<>>
  BY <1>2 DEF OrderInv
<1> QED
  BY <1>3, <1>4, <1>5 DEF OrderInv

(* Whatever the pipeline makes of a line, it sends off one result for it. *)
LEMMA PipelineSends ==
  ASSUME TypeInv, NEW c \in Sockets, NEW seq \in Nat, NEW l \in Line,
         PipelineProcess(c, seq, l), UNCHANGED results
  PROVE  \E t \in TaskResult : /\ Outstanding' \subseteq Outstanding \cup {t}
                               /\ t.client_fd = c /\ t.sequence_id = seq
                               /\ t.response.owner = owner[c] /\ t.response.line = l
<1>1. \A st \in Status : Result(c, seq, l, st) \in TaskResult
  BY ResultType DEF TypeInv, TypeOK
<1>2. queue \in Seq(TaskResult) /\ completions \in Seq(TaskResult)
  BY DEF TypeInv, TypeOK, PoolTypeOK
<1>3. ASSUME NEW t \in TaskResult, Submit(t) \/ Post(t)
      PROVE  Outstanding' \subseteq Outstanding \cup {t}
  <2>1. CASE Submit(t)
    BY <1>2, <2>1, AppendElements DEF Submit, Outstanding
  <2>2. CASE Post(t)
    BY <1>2, <2>2, AppendElements DEF Post, Outstanding
  <2> QED
    BY <1>3, <2>1, <2>2
<1>4. Verdict(c, l) \in Status /\ "ok" \in Status /\ "server busy" \in Status
  BY DEF Verdict, Status, Allow
<1>5. PICK st \in Status : Submit(Result(c, seq, l, st)) \/ Post(Result(c, seq, l, st))
  BY <1>4 DEF PipelineProcess, Dispatch
<1>6. PICK t \in TaskResult : t = Result(c, seq, l, st)
  BY <1>1
<1>7. /\ t.client_fd = c /\ t.sequence_id = seq
      /\ t.response.owner = owner[c] /\ t.response.line = l
  BY <1>6 DEF Result
<1>8. Outstanding' \subseteq Outstanding \cup {t}
  BY <1>3, <1>5, <1>6
<1> QED
  BY <1>7, <1>8

LEMMA StampOrder ==
  ASSUME TypeInv, OrderInv, StampLine PROVE OrderInv'
<1>0. PICK c \in Connected : c = client
  BY DEF StampLine, TypeInv, ControlInv
<1> DEFINE k == connections[c]
<1>1. /\ c \in Sockets /\ line \in Line
      /\ k \in ConnectionState
  BY <1>0 DEF StampLine, TypeInv, TypeOK, ConnTypeOK, ControlInv
<1>2. /\ k.next_seq_issue \in Nat
      /\ issued \in [Sockets -> Seq(Line)]
  BY <1>1 DEF ConnectionState, TypeInv, TypeOK, HistoryTypeOK
<1>3. PICK t \in TaskResult :
        /\ Outstanding' \subseteq Outstanding \cup {t}
        /\ t.client_fd = c /\ t.sequence_id = k.next_seq_issue
        /\ t.response.owner = owner[c] /\ t.response.line = line
  <2>1. PipelineProcess(c, k.next_seq_issue, line) /\ UNCHANGED results
    BY <1>0 DEF StampLine
  <2> HIDE DEF k
  <2> QED
    BY <1>1, <1>2, <2>1, PipelineSends
<1>4. /\ owner' = owner /\ tainted' = tainted /\ delivered' = delivered
      /\ issued' = [issued EXCEPT ![c] = Append(issued[c], line)]
      /\ Connected' = Connected
      /\ \A d \in Connected \ {c} : connections'[d] = connections[d]
  BY <1>0 DEF StampLine, Connected
<1>5. /\ connections'[c].next_seq_issue = k.next_seq_issue + 1
      /\ connections'[c].next_seq_expected = k.next_seq_expected
      /\ connections'[c].out_of_order_buf = k.out_of_order_buf
      /\ connections'[c].write_buffer = k.write_buffer
  BY <1>0, <1>1 DEF StampLine, ConnectionState, Connected
<1>7. ASSUME NEW d \in Sound', d # c PROVE UnderWayOK(d)' /\ AnsweredOK(d)'
  <2>1. d \in Sound /\ d \in Sockets
    BY <1>4, <1>7 DEF Sound, TypeInv, TypeOK, ConnTypeOK
  <2>2. \A u \in Outstanding' : u.client_fd = d => u \in Outstanding
    BY <1>3, <1>7
  <2>3. issued'[d] = issued[d] /\ connections'[d] = connections[d]
    BY <1>2, <1>4, <1>7, <2>1 DEF Sound
  <2> QED
    BY <1>4, <2>1, <2>2, <2>3, OtherOrder
<1>8. ASSUME c \in Sound' PROVE UnderWayOK(c)' /\ AnsweredOK(c)'
  <2>1. UnderWayOK(c) /\ AnsweredOK(c)
    BY <1>4, <1>8 DEF OrderInv, Sound
  <2>2. PICK m \in Nat : m = Len(issued[c])
    BY <1>1, <1>2
  <2>3. /\ Len(issued'[c]) = m + 1
        /\ \A i \in 1 .. m : issued'[c][i] = issued[c][i]
        /\ issued'[c][m + 1] = line
    BY <1>1, <1>2, <1>4, <2>2, AppendProperties
  <2>4. k.next_seq_issue = m
    BY <2>1, <2>2 DEF UnderWayOK
  <2>5. ASSUME NEW u, u.sequence_id \in Nat, Faithful(c, u)
        PROVE  Faithful(c, u)'
    <3>1. u.sequence_id < m /\ u.sequence_id + 1 \in 1 .. m
      BY <2>2, <2>5 DEF Faithful
    <3>2. u.sequence_id < m + 1
      BY <2>5, <3>1
    <3> QED
      BY <1>4, <2>3, <2>5, <3>1, <3>2 DEF Faithful, Answers, IsAnswer
  <2>6. Faithful(c, t)'
    <3>1. t.sequence_id = m
      BY <1>3, <2>4
    <3>2. m < m + 1
      OBVIOUS
    <3> QED
      BY <1>3, <1>4, <2>3, <3>1, <3>2 DEF Faithful, Answers, IsAnswer
  <2>7. \A u \in Outstanding \cup k.out_of_order_buf : u.sequence_id \in Nat
    <3>1. Outstanding \subseteq TaskResult
      BY DEF Outstanding, TypeInv, TypeOK, PoolTypeOK, LoopTypeOK
    <3> QED
      BY <1>1, <3>1 DEF ConnectionState, TaskResult
  <2>8. UnderWayOK(c)'
    BY <1>3, <1>5, <2>1, <2>3, <2>4, <2>5, <2>6, <2>7 DEF UnderWayOK
  <2>9. Out(c)' = Out(c)
    BY <1>4, <1>5 DEF Out
  <2>10. Len(Out(c)) = k.next_seq_expected /\ k.next_seq_expected \in Nat
           /\ k.next_seq_expected <= m
    BY <1>1, <2>1, <2>2 DEF AnsweredOK, ConnectionState
  <2>11. \A i \in 1 .. Len(Out(c)) : Answers(c, Out(c)[i], i)'
    <3>1. \A i \in 1 .. Len(Out(c)) : i \in 1 .. m
      BY <2>10
    <3> QED
      BY <1>4, <2>1, <2>3, <2>9, <3>1 DEF AnsweredOK, Answers, IsAnswer
  <2>12. AnsweredOK(c)'
    BY <1>5, <2>3, <2>9, <2>10, <2>11 DEF AnsweredOK
  <2> QED
    BY <2>8, <2>12
<1>9. \A d \in Sockets \ Connected' : issued'[d] = <<>> /\ delivered'[d] = <<>>
  BY <1>1, <1>2, <1>4 DEF OrderInv
<1> QED
  BY <1>7, <1>8, <1>9 DEF OrderInv

LEMMA NextOrderInv == TypeInv /\ OrderInv /\ [Next]_vars => OrderInv'
  BY QuietSteps, QuietOrder, AcceptOrder, WriteOrder, DisconnectOrder, CloseAllOrder,
     ReassembleOrder, StampOrder

(***************************************************************************)
(* Every client of a connection that did not inherit a handle with work    *)
(* still under way gets the answers to its own requests, in the order of   *)
(* the requests and without gaps, whatever the number of clients, workers  *)
(* and requests and in whatever order the workers finish.                  *)
(***************************************************************************)
THEOREM ResponsesInOrderHolds == Spec => []ResponsesInOrder
<1>1. Init => OrderInv
  BY DEF Init, OrderInv, Sound, Connected
<1> QED
  BY <1>1, NextOrderInv, OrderImpliesResponses, TypeInvAlways, PTL DEF Spec
-----------------------------------------------------------------------------
(***************************************************************************)
(* The inductive invariant behind NothingForgotten.  A number under way    *)
(* has one holder; what NothingForgotten leaves out is that every other    *)
(* number, answered or not yet stamped, has none, and that a connection    *)
(* parks only its own results: without the first a new request could find  *)
(* an old result under its number, without the second a result could be    *)
(* moved to the write buffer and still be awaited.                         *)
(***************************************************************************)
UnderWay(k) == k.next_seq_expected .. (k.next_seq_issue - 1)

HeldOK(c) ==
  \A s \in Nat :
    IF s \in UnderWay(connections[c]) THEN \E h : Holders(c, s) = {h}
    ELSE Holders(c, s) = {}

CountOK(c) ==
  LET k == connections[c] IN
    /\ k.next_seq_expected <= k.next_seq_issue
    /\ k.in_flight_requests = k.next_seq_issue - k.next_seq_expected

ParksOwn(c) == \A x \in connections[c].out_of_order_buf : x.client_fd = c

FlowInv == /\ \A c \in Connected : ParksOwn(c)
           /\ \A c \in Sound : CountOK(c) /\ HeldOK(c)

(* Holders of a number move, but none is lost and none is added. *)
OneForOne(c, s) ==
  /\ Holders(c, s) = {} => Holders(c, s)' = {}
  /\ \A h : Holders(c, s) = {h} => \E g : Holders(c, s)' = {g}

SameCounts(c) ==
  /\ connections'[c].next_seq_issue = connections[c].next_seq_issue
  /\ connections'[c].next_seq_expected = connections[c].next_seq_expected
  /\ connections'[c].in_flight_requests = connections[c].in_flight_requests

LEMMA CarriedFlow ==
  ASSUME NEW c, CountOK(c), HeldOK(c), SameCounts(c),
         \A s \in Nat : OneForOne(c, s)
  PROVE  CountOK(c)' /\ HeldOK(c)'
<1>1. CountOK(c)'
  BY DEF CountOK, SameCounts
<1>2. UnderWay(connections[c])' = UnderWay(connections[c])
  BY DEF UnderWay, SameCounts
<1>3. HeldOK(c)'
  BY <1>2 DEF HeldOK, OneForOne
<1> QED
  BY <1>1, <1>3

(* Nothing that could hold a request of c changes. *)
LEMMA SameHolders ==
  ASSUME UNCHANGED poolVars, UNCHANGED results, NEW c, NEW s,
         connections'[c].out_of_order_buf = connections[c].out_of_order_buf
  PROVE  Holders(c, s)' = Holders(c, s)
  BY DEF poolVars, Holders

LEMMA TailIndices ==
  ASSUME NEW S, NEW q \in Seq(S), q # <<>>
  PROVE  \E n \in Nat : /\ DOMAIN q = 1 .. (n + 1) /\ DOMAIN Tail(q) = 1 .. n
                        /\ Head(q) = q[1] /\ q[1] \in S
                        /\ \A i \in 1 .. n : Tail(q)[i] = q[i + 1]
<1>1. Len(q) \in Nat /\ Len(q) # 0 /\ DOMAIN q = 1 .. Len(q)
  BY EmptySeq, LenProperties
<1>2. Len(q) - 1 \in Nat /\ Len(q) = (Len(q) - 1) + 1
  BY <1>1
<1>3. PICK n \in Nat : Len(q) = n + 1
  BY <1>2
<1> QED
  BY <1>1, <1>3, HeadTailProperties

(* A worker takes the first task of the queue: the others move up. *)
LEMMA TakeHolders ==
  ASSUME TypeInv, NEW w \in Workers, Take(w), UNCHANGED results, NEW c, NEW s,
         connections'[c].out_of_order_buf = connections[c].out_of_order_buf
  PROVE  OneForOne(c, s)
<1> DEFINE F(h) == IF h[1] # "queue" THEN h
                   ELSE IF h[2] = 1 THEN <<"worker", w>> ELSE <<"queue", h[2] - 1>>
<1>1. /\ queue \in Seq(TaskResult) /\ queue # <<>>
      /\ executing \in [Workers -> TaskResult \cup {NoTask}]
      /\ executing[w] = NoTask
      /\ executing' = [executing EXCEPT ![w] = Head(queue)]
      /\ queue' = Tail(queue) /\ completions' = completions
  BY DEF TypeInv, TypeOK, PoolTypeOK, Take
<1>2. PICK n \in Nat : /\ DOMAIN queue = 1 .. (n + 1) /\ DOMAIN queue' = 1 .. n
                      /\ Head(queue) = queue[1] /\ queue[1] \in TaskResult
                      /\ \A i \in 1 .. n : queue'[i] = queue[i + 1]
  BY <1>1, TailIndices
<1>3. DOMAIN queue = 1 .. (n + 1) /\ DOMAIN queue' = 1 .. n
  BY <1>2
<1>4. \A i \in 1 .. n : queue'[i] = queue[i + 1]
  BY <1>2
<1>5. executing'[w] = queue[1] /\ executing'[w] # NoTask
  BY <1>1, <1>2, TaskAssumption
<1>6. \A v \in Workers \ {w} : executing'[v] = executing[v]
  BY <1>1
<1>7. ASSUME NEW h \in Holders(c, s) PROVE F(h) \in Holders(c, s)'
  <2>1. CASE \E i \in DOMAIN queue : h = <<"queue", i>> /\ IsFor(queue[i], c, s)
    <3>1. PICK i \in 1 .. (n + 1) : h = <<"queue", i>> /\ IsFor(queue[i], c, s)
      BY <1>3, <2>1
    <3>2. CASE i = 1
      BY <1>5, <3>1, <3>2 DEF Holders, IsFor
    <3>3. CASE i # 1
      <4>1. i - 1 \in 1 .. n /\ queue'[i - 1] = queue[i]
        BY <1>4, <3>3
      <4> QED
        BY <1>3, <3>1, <3>3, <4>1 DEF Holders, IsFor
    <3> QED
      BY <3>2, <3>3
  <2>2. CASE h[1] # "queue"
    BY <1>1, <1>6, <2>2 DEF Holders, IsFor
  <2> QED
    BY <2>1, <2>2 DEF Holders
<1>8. ASSUME NEW g \in Holders(c, s)' PROVE \E h \in Holders(c, s) : g = F(h)
  <2>1. CASE g[1] = "queue"
    <3>1. PICK i \in 1 .. n : g = <<"queue", i>> /\ IsFor(queue'[i], c, s)
      BY <1>3, <2>1 DEF Holders, IsFor
    <3>2. /\ i + 1 \in 1 .. (n + 1) /\ IsFor(queue[i + 1], c, s)
          /\ i + 1 # 1 /\ (i + 1) - 1 = i
      BY <1>4, <3>1 DEF IsFor
    <3>3. <<"queue", i + 1>> \in Holders(c, s)
      BY <1>3, <3>2 DEF Holders
    <3> QED
      BY <3>1, <3>2, <3>3
  <2>2. CASE g = <<"worker", w>>
    <3>1. <<"queue", 1>> \in Holders(c, s)
      BY <1>2, <1>3, <1>5, <2>2 DEF Holders, IsFor
    <3> QED
      BY <2>2, <3>1
  <2>3. CASE g[1] # "queue" /\ g # <<"worker", w>>
    <3>1. g \in Holders(c, s)
      BY <1>1, <1>6, <2>3 DEF Holders, IsFor
    <3> QED
      BY <2>3, <3>1
  <2> QED
    BY <2>1, <2>2, <2>3
<1>9. Holders(c, s)' = {F(h) : h \in Holders(c, s)}
  BY <1>7, <1>8
<1> HIDE DEF F
<1>10. ASSUME NEW h, Holders(c, s) = {h} PROVE Holders(c, s)' = {F(h)}
  BY <1>9, <1>10
<1> QED
  BY <1>9, <1>10 DEF OneForOne

(* A worker posts the result of its task. *)
LEMMA FinishHolders ==
  ASSUME TypeInv, NEW w \in Workers, Finish(w), UNCHANGED results, NEW c, NEW s,
         connections'[c].out_of_order_buf = connections[c].out_of_order_buf
  PROVE  OneForOne(c, s)
<1>1. /\ completions \in Seq(TaskResult)
      /\ executing \in [Workers -> TaskResult \cup {NoTask}]
      /\ executing[w] # NoTask /\ executing[w] \in TaskResult
      /\ executing' = [executing EXCEPT ![w] = NoTask]
      /\ completions' = Append(completions, executing[w]) /\ queue' = queue
  BY DEF TypeInv, TypeOK, PoolTypeOK, Finish
<1>2. PICK n \in Nat : Len(completions) = n
  BY <1>1
<1> DEFINE F(h) == IF h = <<"worker", w>> THEN <<"completed", n + 1>> ELSE h
<1>3. DOMAIN completions = 1 .. n /\ DOMAIN completions' = 1 .. (n + 1)
  BY <1>1, <1>2
<1>4. /\ \A i \in 1 .. n : completions'[i] = completions[i]
      /\ completions'[n + 1] = executing[w]
  BY <1>1, <1>2
<1>5. executing'[w] = NoTask /\ \A v \in Workers \ {w} : executing'[v] = executing[v]
  BY <1>1
<1>6. ASSUME NEW h \in Holders(c, s) PROVE F(h) \in Holders(c, s)'
  <2>1. CASE h = <<"worker", w>>
    <3>1. IsFor(executing[w], c, s)
      BY <2>1 DEF Holders, IsFor
    <3> QED
      BY <1>3, <1>4, <2>1, <3>1 DEF Holders, IsFor
  <2>2. CASE h[1] = "completed"
    BY <1>3, <1>4, <2>2 DEF Holders, IsFor
  <2>3. CASE h # <<"worker", w>> /\ h[1] # "completed"
    BY <1>1, <1>5, <2>3 DEF Holders, IsFor
  <2> QED
    BY <2>1, <2>2, <2>3
<1>7. ASSUME NEW g \in Holders(c, s)' PROVE \E h \in Holders(c, s) : g = F(h)
  <2>1. CASE g[1] = "completed"
    <3>1. PICK i \in 1 .. (n + 1) : g = <<"completed", i>> /\ IsFor(completions'[i], c, s)
      BY <1>3, <2>1 DEF Holders, IsFor
    <3>2. CASE i = n + 1
      <4>1. <<"worker", w>> \in Holders(c, s)
        BY <1>1, <1>4, <3>1, <3>2 DEF Holders, IsFor
      <4> QED
        BY <3>1, <3>2, <4>1
    <3>3. CASE i \in 1 .. n
      <4>1. g \in Holders(c, s)
        BY <1>3, <1>4, <3>1, <3>3 DEF Holders, IsFor
      <4> QED
        BY <3>1, <4>1
    <3> QED
      BY <3>2, <3>3
  <2>2. CASE g[1] # "completed"
    <3>1. g \in Holders(c, s) /\ g # <<"worker", w>>
      BY <1>1, <1>5, <2>2 DEF Holders, IsFor
    <3> QED
      BY <3>1
  <2> QED
    BY <2>1, <2>2
<1>8. Holders(c, s)' = {F(h) : h \in Holders(c, s)}
  BY <1>6, <1>7
<1> HIDE DEF F
<1>9. ASSUME NEW h, Holders(c, s) = {h} PROVE Holders(c, s)' = {F(h)}
  BY <1>8, <1>9
<1> QED
  BY <1>8, <1>9 DEF OneForOne

(* The reactor drains the completion queue. *)
LEMMA DrainHolders ==
  ASSUME TypeInv, DrainCompletions, NEW c, NEW s
  PROVE  OneForOne(c, s)
<1> DEFINE F(h) == IF h[1] = "completed" THEN <<"drained", h[2]>> ELSE h
<1>1. /\ results = <<>> /\ results' = completions /\ completions' = <<>>
      /\ queue' = queue /\ executing' = executing /\ connections' = connections
  BY DEF TypeInv, ControlInv, DrainCompletions, DrainAll
<1>2. DOMAIN results = {} /\ DOMAIN completions' = {}
  BY <1>1
<1>3. ASSUME NEW h \in Holders(c, s) PROVE F(h) \in Holders(c, s)'
  <2>1. CASE h[1] = "completed"
    BY <1>1, <2>1 DEF Holders, IsFor
  <2>2. CASE h[1] # "completed"
    BY <1>1, <1>2, <2>2 DEF Holders, IsFor
  <2> QED
    BY <2>1, <2>2
<1>4. ASSUME NEW g \in Holders(c, s)' PROVE \E h \in Holders(c, s) : g = F(h)
  <2>1. CASE g[1] = "drained"
    <3>1. PICK i \in DOMAIN completions :
            g = <<"drained", i>> /\ IsFor(completions[i], c, s)
      BY <1>1, <2>1 DEF Holders, IsFor
    <3>2. <<"completed", i>> \in Holders(c, s)
      BY <3>1 DEF Holders
    <3> QED
      BY <3>1, <3>2
  <2>2. CASE g[1] # "drained"
    <3>1. g \in Holders(c, s) /\ g[1] # "completed"
      BY <1>1, <1>2, <2>2 DEF Holders, IsFor
    <3> QED
      BY <3>1
  <2> QED
    BY <2>1, <2>2
<1>5. Holders(c, s)' = {F(h) : h \in Holders(c, s)}
  BY <1>3, <1>4
<1> HIDE DEF F
<1>6. ASSUME NEW h, Holders(c, s) = {h} PROVE Holders(c, s)' = {F(h)}
  BY <1>5, <1>6
<1> QED
  BY <1>5, <1>6 DEF OneForOne

(* The first of the drained results goes: the others move up. *)
LEMMA TailHolders ==
  ASSUME TypeInv, results # <<>>, results' = Tail(results), UNCHANGED poolVars,
         NEW c, NEW s, ~IsFor(Head(results), c, s),
         \A x : IsFor(x, c, s) => (x \in connections'[c].out_of_order_buf
                                     <=> x \in connections[c].out_of_order_buf)
  PROVE  OneForOne(c, s)
<1> DEFINE F(h) == IF h[1] = "drained" THEN <<"drained", h[2] - 1>> ELSE h
<1>1. /\ results \in Seq(TaskResult)
      /\ queue' = queue /\ executing' = executing /\ completions' = completions
  BY DEF TypeInv, TypeOK, LoopTypeOK, poolVars
<1>2. PICK n \in Nat : /\ DOMAIN results = 1 .. (n + 1) /\ DOMAIN results' = 1 .. n
                      /\ Head(results) = results[1]
                      /\ \A i \in 1 .. n : results'[i] = results[i + 1]
  BY <1>1, TailIndices
<1>3. DOMAIN results = 1 .. (n + 1) /\ DOMAIN results' = 1 .. n
  BY <1>2
<1>4. /\ \A i \in 1 .. n : results'[i] = results[i + 1]
      /\ Head(results) = results[1]
  BY <1>2
<1>5. ASSUME NEW h \in Holders(c, s) PROVE F(h) \in Holders(c, s)'
  <2>1. CASE h[1] = "drained"
    <3>1. PICK i \in 1 .. (n + 1) : h = <<"drained", i>> /\ IsFor(results[i], c, s)
      BY <1>3, <2>1 DEF Holders, IsFor
    <3>2. i # 1
      BY <1>4, <3>1
    <3>3. i - 1 \in 1 .. n /\ (i - 1) + 1 = i
      BY <3>2
    <3>4. results'[i - 1] = results[i]
      BY <1>4, <3>3
    <3> QED
      BY <1>3, <3>1, <3>3, <3>4 DEF Holders, IsFor
  <2>2. CASE h[1] # "drained"
    BY <1>1, <2>2 DEF Holders, IsFor
  <2> QED
    BY <2>1, <2>2
<1>6. ASSUME NEW g \in Holders(c, s)' PROVE \E h \in Holders(c, s) : g = F(h)
  <2>1. CASE g[1] = "drained"
    <3>1. PICK i \in 1 .. n : g = <<"drained", i>> /\ IsFor(results'[i], c, s)
      BY <1>3, <2>1 DEF Holders, IsFor
    <3>2. i + 1 \in 1 .. (n + 1) /\ (i + 1) - 1 = i
      OBVIOUS
    <3>3. <<"drained", i + 1>> \in Holders(c, s)
      BY <1>3, <1>4, <3>1, <3>2 DEF Holders, IsFor
    <3> QED
      BY <3>1, <3>2, <3>3
  <2>2. CASE g[1] # "drained"
    <3>1. g \in Holders(c, s)
      BY <1>1, <2>2 DEF Holders, IsFor
    <3> QED
      BY <2>2, <3>1
  <2> QED
    BY <2>1, <2>2
<1>7. Holders(c, s)' = {F(h) : h \in Holders(c, s)}
  BY <1>5, <1>6
<1> HIDE DEF F
<1>8. ASSUME NEW h, Holders(c, s) = {h} PROVE Holders(c, s)' = {F(h)}
  BY <1>7, <1>8
<1> QED
  BY <1>7, <1>8 DEF OneForOne

(* Results that are held only as drained or parked, and where they go. *)
LEMMA HeadHolder ==
  ASSUME TypeInv, results # <<>>
  PROVE  <<"drained", 1>> \in Holders(Head(results).client_fd, Head(results).sequence_id)
<1>1. results \in Seq(TaskResult)
  BY DEF TypeInv, TypeOK, LoopTypeOK
<1>2. 1 \in DOMAIN results /\ Head(results) = results[1]
  BY <1>1, EmptySeq, LenProperties
<1> QED
  BY <1>2 DEF Holders, IsFor

LEMMA HeadLeaves ==
  ASSUME TypeInv, results # <<>>, results' = Tail(results), UNCHANGED poolVars,
         NEW c, NEW s, Holders(c, s) = {<<"drained", 1>>}
  PROVE  Holders(c, s)' = {<<"parked", x>> : x \in {y \in connections'[c].out_of_order_buf :
                                                    IsFor(y, c, s)}}
<1>1. /\ results \in Seq(TaskResult)
      /\ queue' = queue /\ executing' = executing /\ completions' = completions
  BY DEF TypeInv, TypeOK, LoopTypeOK, poolVars
<1>2. PICK n \in Nat : /\ DOMAIN results = 1 .. (n + 1) /\ DOMAIN results' = 1 .. n
                      /\ Head(results) = results[1]
                      /\ \A i \in 1 .. n : results'[i] = results[i + 1]
  BY <1>1, TailIndices
<1>3. DOMAIN results = 1 .. (n + 1) /\ DOMAIN results' = 1 .. n
  BY <1>2
<1>4. \A i \in 1 .. n : results'[i] = results[i + 1]
  BY <1>2
<1>5. ASSUME NEW g \in Holders(c, s)', g[1] # "parked" PROVE FALSE
  <2>1. CASE g[1] = "drained"
    <3>1. PICK i \in 1 .. n : g = <<"drained", i>> /\ IsFor(results'[i], c, s)
      BY <1>3, <2>1 DEF Holders, IsFor
    <3>2. i + 1 \in 1 .. (n + 1) /\ i + 1 # 1
      OBVIOUS
    <3>3. <<"drained", i + 1>> \in Holders(c, s)
      BY <1>3, <1>4, <3>1, <3>2 DEF Holders, IsFor
    <3> QED
      BY <3>2, <3>3
  <2>2. CASE g[1] # "drained"
    <3>1. g \in Holders(c, s)
      BY <1>1, <1>5, <2>2 DEF Holders, IsFor
    <3> QED
      BY <2>2, <3>1
  <2> QED
    BY <2>1, <2>2
<1> QED
  BY <1>5 DEF Holders, IsFor

LEMMA ParkedLeaves ==
  ASSUME TypeInv, results # <<>>, results' = Tail(results), UNCHANGED poolVars,
         NEW c, NEW s, NEW x, Holders(c, s) = {<<"parked", x>>},
         \A y \in connections'[c].out_of_order_buf : ~IsFor(y, c, s)
  PROVE  Holders(c, s)' = {}
<1>1. /\ results \in Seq(TaskResult)
      /\ queue' = queue /\ executing' = executing /\ completions' = completions
  BY DEF TypeInv, TypeOK, LoopTypeOK, poolVars
<1>2. PICK n \in Nat : /\ DOMAIN results = 1 .. (n + 1) /\ DOMAIN results' = 1 .. n
                      /\ Head(results) = results[1]
                      /\ \A i \in 1 .. n : results'[i] = results[i + 1]
  BY <1>1, TailIndices
<1>3. DOMAIN results = 1 .. (n + 1) /\ DOMAIN results' = 1 .. n
  BY <1>2
<1>4. \A i \in 1 .. n : results'[i] = results[i + 1]
  BY <1>2
<1>5. ASSUME NEW g \in Holders(c, s)' PROVE FALSE
  <2>1. CASE g[1] = "drained"
    <3>1. PICK i \in 1 .. n : g = <<"drained", i>> /\ IsFor(results'[i], c, s)
      BY <1>3, <2>1 DEF Holders, IsFor
    <3>2. i + 1 \in 1 .. (n + 1)
      OBVIOUS
    <3>3. <<"drained", i + 1>> \in Holders(c, s)
      BY <1>3, <1>4, <3>1, <3>2 DEF Holders, IsFor
    <3> QED
      BY <3>3
  <2>2. CASE g[1] # "drained"
    <3>1. g \in Holders(c, s) /\ g[1] # "parked"
      BY <1>1, <2>2 DEF Holders, IsFor
    <3> QED
      BY <3>1
  <2> QED
    BY <2>1, <2>2
<1> QED
  BY <1>5

(* A request is stamped: its task or its answer is the one holder of its number. *)
LEMMA AddHolder ==
  ASSUME TypeInv, NEW t \in TaskResult, Submit(t) \/ Post(t), UNCHANGED results,
         NEW c, NEW s,
         connections'[c].out_of_order_buf = connections[c].out_of_order_buf
  PROVE  /\ ~IsFor(t, c, s) => Holders(c, s)' = Holders(c, s)
         /\ IsFor(t, c, s) => \E h : Holders(c, s)' = Holders(c, s) \cup {h}
<1>0. queue \in Seq(TaskResult) /\ completions \in Seq(TaskResult)
  BY DEF TypeInv, TypeOK, PoolTypeOK
<1>1. ASSUME NEW q \in Seq(TaskResult)
      PROVE  \E n \in Nat : /\ DOMAIN q = 1 .. n /\ DOMAIN Append(q, t) = 1 .. (n + 1)
                            /\ \A i \in 1 .. n : Append(q, t)[i] = q[i]
                            /\ Append(q, t)[n + 1] = t
  BY AppendProperties, LenProperties
<1>2. CASE Submit(t)
  <2>1. queue' = Append(queue, t) /\ executing' = executing /\ completions' = completions
    BY <1>2 DEF Submit
  <2>2. PICK n \in Nat : /\ DOMAIN queue = 1 .. n /\ DOMAIN queue' = 1 .. (n + 1)
                         /\ \A i \in 1 .. n : queue'[i] = queue[i]
                         /\ queue'[n + 1] = t
    BY <1>0, <1>1, <2>1
  <2>3. \A g : g[1] # "queue" => (g \in Holders(c, s)' <=> g \in Holders(c, s))
    BY <2>1 DEF Holders, IsFor
  <2>4. \A i : <<"queue", i>> \in Holders(c, s)'
                 <=> <<"queue", i>> \in Holders(c, s) \/ (i = n + 1 /\ IsFor(t, c, s))
    BY <2>2 DEF Holders, IsFor
  <2>5. \A g \in Holders(c, s) \cup Holders(c, s)' :
          g[1] = "queue" => \E i \in Nat : g = <<"queue", i>>
    BY <2>2 DEF Holders, IsFor
  <2>6. CASE ~IsFor(t, c, s)
    <3>1. \A g : g \in Holders(c, s)' <=> g \in Holders(c, s)
      BY <2>3, <2>4, <2>5, <2>6
    <3> QED
      BY <2>6, <3>1
  <2>7. CASE IsFor(t, c, s)
    <3>1. Holders(c, s)' = Holders(c, s) \cup {<<"queue", n + 1>>}
      BY <2>3, <2>4, <2>5, <2>7
    <3> QED
      BY <2>7, <3>1
  <2> QED
    BY <2>6, <2>7
<1>3. CASE Post(t)
  <2>1. completions' = Append(completions, t) /\ executing' = executing /\ queue' = queue
    BY <1>3 DEF Post
  <2>2. PICK n \in Nat : /\ DOMAIN completions = 1 .. n /\ DOMAIN completions' = 1 .. (n + 1)
                         /\ \A i \in 1 .. n : completions'[i] = completions[i]
                         /\ completions'[n + 1] = t
    BY <1>0, <1>1, <2>1
  <2>3. \A g : g[1] # "completed" => (g \in Holders(c, s)' <=> g \in Holders(c, s))
    BY <2>1 DEF Holders, IsFor
  <2>4. \A i : <<"completed", i>> \in Holders(c, s)'
                 <=> <<"completed", i>> \in Holders(c, s) \/ (i = n + 1 /\ IsFor(t, c, s))
    BY <2>2 DEF Holders, IsFor
  <2>5. \A g \in Holders(c, s) \cup Holders(c, s)' :
          g[1] = "completed" => \E i \in Nat : g = <<"completed", i>>
    BY <2>2 DEF Holders, IsFor
  <2>6. CASE ~IsFor(t, c, s)
    <3>1. \A g : g \in Holders(c, s)' <=> g \in Holders(c, s)
      BY <2>3, <2>4, <2>5, <2>6
    <3> QED
      BY <2>6, <3>1
  <2>7. CASE IsFor(t, c, s)
    <3>1. Holders(c, s)' = Holders(c, s) \cup {<<"completed", n + 1>>}
      BY <2>3, <2>4, <2>5, <2>7
    <3> QED
      BY <2>7, <3>1
  <2> QED
    BY <2>6, <2>7
<1> QED
  BY <1>2, <1>3
-----------------------------------------------------------------------------
(* What FlowInv depends on, for one connection and for every one. *)
SameFlow(c) == /\ SameCounts(c)
               /\ connections'[c].out_of_order_buf = connections[c].out_of_order_buf
               /\ \A s \in Nat : OneForOne(c, s)

LEMMA SameFlowKept ==
  ASSUME FlowInv, NEW c \in Connected, SameFlow(c)
  PROVE  /\ ParksOwn(c)'
         /\ c \in Sound => CountOK(c)' /\ HeldOK(c)'
<1>1. ParksOwn(c)'
  BY DEF FlowInv, ParksOwn, SameFlow
<1> QED
  BY <1>1, CarriedFlow DEF FlowInv, SameFlow

LEMMA HolderSteps ==
  ASSUME TypeInv, NEW c \in Connected, SameCounts(c),
         connections'[c].out_of_order_buf = connections[c].out_of_order_buf,
         \/ UNCHANGED poolVars /\ UNCHANGED results
         \/ DrainCompletions
         \/ DropResult
         \/ UNCHANGED results /\ \E w \in Workers : Take(w) \/ Finish(w)
  PROVE  SameFlow(c)
<1> SUFFICES ASSUME NEW s \in Nat PROVE OneForOne(c, s)
  BY DEF SameFlow
<1>1. CASE UNCHANGED poolVars /\ UNCHANGED results
  BY <1>1, SameHolders DEF OneForOne
<1>2. CASE DrainCompletions
  BY <1>2, DrainHolders
<1>3. CASE DropResult
  <2>1. /\ results # <<>> /\ results' = Tail(results) /\ UNCHANGED poolVars
        /\ Head(results).client_fd \notin Connected
    BY <1>3 DEF DropResult
  <2>2. ~IsFor(Head(results), c, s)
    BY <2>1 DEF IsFor
  <2> QED
    BY <2>1, <2>2, TailHolders
<1>4. CASE UNCHANGED results /\ \E w \in Workers : Take(w) \/ Finish(w)
  BY <1>4, TakeHolders, FinishHolders
<1> QED
  BY <1>1, <1>2, <1>3, <1>4

(* Most steps only move requests along, from one holder to the next. *)
Moves == /\ Connected' = Connected /\ tainted' = tainted
         /\ \A c \in Connected : SameFlow(c)

LEMMA MovesKept == ASSUME FlowInv, Moves PROVE FlowInv'
<1>1. Connected' = Connected /\ Sound' = Sound /\ Sound \subseteq Connected
  BY DEF Moves, Sound
<1>2. \A c \in Connected : ParksOwn(c)' /\ (c \in Sound => CountOK(c)' /\ HeldOK(c)')
  BY SameFlowKept DEF Moves
<1> QED
  BY <1>1, <1>2 DEF FlowInv

(* Only fields of connections that FlowInv does not depend on change. *)
LEMMA FieldsMove ==
  ASSUME TypeInv, UNCHANGED poolVars, UNCHANGED results, UNCHANGED tainted,
         Connected' = Connected,
         \A c \in Connected :
           /\ SameCounts(c)
           /\ connections'[c].out_of_order_buf = connections[c].out_of_order_buf
  PROVE  Moves
  BY HolderSteps DEF Moves

LEMMA MoveSteps ==
  ASSUME TypeInv, [Next]_vars
  PROVE  \/ Moves
         \/ \E c \in Sockets : Accept(c) \/ Disconnect(c)
         \/ CloseAll \/ ReassembleResult \/ StampLine
<1>0. \A c \in Connected : connections[c] \in ConnectionState
  BY DEF TypeInv, TypeOK, ConnTypeOK
<1>1. ASSUME DrainCompletions \/ DropResult PROVE Moves
  <2>1. UNCHANGED connections /\ UNCHANGED tainted
    BY <1>1 DEF DrainCompletions, DropResult, historyVars
  <2>2. Connected' = Connected /\ \A c \in Connected : SameCounts(c)
    BY <2>1 DEF Connected, SameCounts
  <2> QED
    BY <1>1, <2>1, <2>2, HolderSteps DEF Moves
<1>2. ASSUME Unpause \/ Poll \/ Refuse \/ EventsDone \/ LinesDone \/ Stop
               \/ Terminated \/ ClientStep \/ UNCHANGED vars
      PROVE  Moves
  <2>1. UNCHANGED <<connections, results, tainted>> /\ UNCHANGED poolVars
    BY <1>2 DEF Unpause, Poll, Refuse, EventsDone, LinesDone, Stop, Terminated,
       ClientStep, Dial, SendLine, ClosePeer, vars, reactorVars, historyVars
  <2> QED
    BY <2>1, FieldsMove DEF Connected, SameCounts
<1>3. ASSUME NEW w \in Workers, WorkerTake(w) \/ WorkerFinish(w) PROVE Moves
  <2>1. UNCHANGED <<connections, results, tainted>> /\ (Take(w) \/ Finish(w))
    BY <1>3 DEF WorkerTake, WorkerFinish, reactorVars, historyVars
  <2>2. Connected' = Connected /\ \A c \in Connected : SameCounts(c)
    BY <2>1 DEF Connected, SameCounts
  <2> QED
    BY <2>1, <2>2, HolderSteps DEF Moves
<1>4. ASSUME SkipBlankLine \/ PauseReads \/ TakeLine PROVE Moves
  <2>1. NextLine /\ UNCHANGED <<results, tainted>> /\ UNCHANGED poolVars
    BY <1>4 DEF SkipBlankLine, PauseReads, TakeLine, historyVars
  <2>2. Connected' = Connected /\ client \in Connected
    BY <2>1, NextLineType
  <2>3. \A c \in Connected :
          /\ SameCounts(c)
          /\ connections'[c].out_of_order_buf = connections[c].out_of_order_buf
    BY <1>0, <2>1, <2>2 DEF NextLine, SameCounts, ConnectionState, Connected
  <2> QED
    BY <2>1, <2>2, <2>3, FieldsMove
<1>5. ASSUME NEW c \in Sockets, HandleRead(c) PROVE Moves
  <2>1. UNCHANGED <<results, tainted>> /\ UNCHANGED poolVars
    BY <1>5 DEF HandleRead, historyVars
  <2>2. PICK rb : connections' = [connections EXCEPT ![c].read_buffer = rb]
    BY <1>5 DEF HandleRead
  <2>3. /\ Connected' = Connected
        /\ \A d \in Connected :
             /\ SameCounts(d)
             /\ connections'[d].out_of_order_buf = connections[d].out_of_order_buf
    BY <1>0, <2>2 DEF SameCounts, ConnectionState, Connected
  <2> QED
    BY <2>1, <2>3, FieldsMove
<1>6. ASSUME NEW c \in Sockets, HandleWrite(c) PROVE Moves
  <2>1. UNCHANGED <<results, tainted>> /\ UNCHANGED poolVars
    BY <1>6 DEF HandleWrite, historyVars
  <2>2. PICK wb, wp : connections' = [connections EXCEPT ![c].write_buffer = wb,
                                                         ![c].write_pending = wp]
    BY <1>6 DEF HandleWrite
  <2>3. /\ Connected' = Connected
        /\ \A d \in Connected :
             /\ SameCounts(d)
             /\ connections'[d].out_of_order_buf = connections[d].out_of_order_buf
    BY <1>0, <2>2 DEF SameCounts, ConnectionState, Connected
  <2> QED
    BY <2>1, <2>3, FieldsMove
<1>7. ASSUME NEW c \in Sockets, HangUp(c) \/ ReadFails(c) \/ WriteFails(c)
      PROVE  Disconnect(c)
  BY <1>7 DEF HangUp, ReadFails, WriteFails
<1> QED
  BY <1>1, <1>2, <1>3, <1>4, <1>5, <1>6, <1>7
  DEF Next, ReactorStep, AcceptConnection, HandleEvents, HandleLines

LEMMA AcceptFlow ==
  ASSUME TypeInv, FlowInv, NEW c \in Sockets, Accept(c) PROVE FlowInv'
<1>1. /\ Connected' = Connected \cup {c} /\ c \notin Connected
      /\ \A d \in Connected : connections'[d] = connections[d]
      /\ connections'[c] = NewConnection
      /\ UNCHANGED poolVars /\ UNCHANGED results
  BY DEF Accept, Connected
<1>2. ASSUME NEW d \in Connected
      PROVE  ParksOwn(d)' /\ (d \in Sound => CountOK(d)' /\ HeldOK(d)')
  <2>1. SameFlow(d)
    BY <1>1, HolderSteps DEF SameCounts
  <2> QED
    BY <2>1, SameFlowKept
<1>3. ParksOwn(c)'
  BY <1>1 DEF ParksOwn, NewConnection
<1>4. ASSUME c \in Sound' PROVE CountOK(c)' /\ HeldOK(c)'
  <2>1. \A t \in Outstanding : t.client_fd # c
    BY <1>4 DEF Sound, Accept
  <2>2. \A s \in Nat : Holders(c, s)' = {}
    BY <1>1, <2>1 DEF Holders, IsFor, Outstanding, NewConnection, poolVars
  <2>3. UnderWay(connections[c])' = {}
    BY <1>1 DEF UnderWay, NewConnection
  <2> QED
    BY <1>1, <2>2, <2>3 DEF CountOK, HeldOK, NewConnection
<1>5. Sound' \subseteq Sound \cup {c}
  BY <1>1 DEF Sound, Accept
<1> QED
  BY <1>1, <1>2, <1>3, <1>4, <1>5 DEF FlowInv, Sound

LEMMA DisconnectFlow ==
  ASSUME TypeInv, FlowInv, NEW c \in Sockets, Disconnect(c) PROVE FlowInv'
<1>1. /\ Connected' = Connected \ {c}
      /\ \A d \in Connected \ {c} : connections'[d] = connections[d]
      /\ UNCHANGED poolVars /\ UNCHANGED results
      /\ tainted' = tainted \ {c}
  BY DEF Disconnect, Connected
<1>2. ASSUME NEW d \in Connected \ {c}
      PROVE  ParksOwn(d)' /\ (d \in Sound => CountOK(d)' /\ HeldOK(d)')
  <2>1. SameFlow(d)
    BY <1>1, HolderSteps DEF SameCounts
  <2> QED
    BY <2>1, SameFlowKept
<1> QED
  BY <1>1, <1>2 DEF FlowInv, Sound

LEMMA StampFlow ==
  ASSUME TypeInv, FlowInv, StampLine PROVE FlowInv'
<1>0. PICK c \in Connected : c = client
  BY DEF StampLine, TypeInv, ControlInv
<1>1. PICK k \in ConnectionState : k = connections[c]
  BY DEF TypeInv, TypeOK, ConnTypeOK
<1>2. PICK m \in Nat : m = k.next_seq_issue
  BY DEF ConnectionState
<1>3. c \in Sockets /\ line \in Line /\ UNCHANGED results
        /\ PipelineProcess(c, m, line)
  BY <1>0, <1>1, <1>2 DEF StampLine, TypeInv, TypeOK, ConnTypeOK, ControlInv
<1>4. PICK t \in TaskResult : /\ Submit(t) \/ Post(t)
                              /\ t.client_fd = c /\ t.sequence_id = m
  <2>1. \A st \in Status : Result(c, m, line, st) \in TaskResult
    BY <1>3, ResultType DEF TypeInv, TypeOK
  <2>2. Verdict(c, line) \in Status /\ "ok" \in Status /\ "server busy" \in Status
    BY DEF Verdict, Status, Allow
  <2>3. PICK st \in Status :
          Submit(Result(c, m, line, st)) \/ Post(Result(c, m, line, st))
    BY <1>3, <2>2 DEF PipelineProcess, Dispatch
  <2>4. Result(c, m, line, st).client_fd = c /\ Result(c, m, line, st).sequence_id = m
    BY DEF Result
  <2> QED
    BY <2>1, <2>3, <2>4
<1>5. /\ Connected' = Connected /\ tainted' = tainted
      /\ \A d \in Connected \ {c} : connections'[d] = connections[d]
      /\ connections'[c].next_seq_issue = m + 1
      /\ connections'[c].next_seq_expected = k.next_seq_expected
      /\ connections'[c].in_flight_requests = k.in_flight_requests + 1
      /\ connections'[c].out_of_order_buf = k.out_of_order_buf
  BY <1>0, <1>1, <1>2 DEF StampLine, ConnectionState, Connected
<1>6. ASSUME NEW d \in Connected \ {c}
      PROVE  ParksOwn(d)' /\ (d \in Sound => CountOK(d)' /\ HeldOK(d)')
  <2>1. ASSUME NEW s \in Nat PROVE OneForOne(d, s)
    <3>1. ~IsFor(t, d, s)
      BY <1>4, <1>6 DEF IsFor
    <3>2. connections'[d].out_of_order_buf = connections[d].out_of_order_buf
      BY <1>5, <1>6
    <3>3. Holders(d, s)' = Holders(d, s)
      BY <1>3, <1>4, <3>1, <3>2, AddHolder
    <3> QED
      BY <3>3 DEF OneForOne
  <2>2. SameFlow(d)
    BY <1>5, <1>6, <2>1 DEF SameFlow, SameCounts
  <2> QED
    BY <2>2, SameFlowKept
<1>7. ParksOwn(c)'
  BY <1>1, <1>5 DEF FlowInv, ParksOwn
<1>8. ASSUME c \in Sound PROVE CountOK(c)' /\ HeldOK(c)'
  <2>1. CountOK(c) /\ HeldOK(c)
    BY <1>8 DEF FlowInv
  <2>2. k.next_seq_expected \in Nat /\ k.in_flight_requests \in Nat
    BY DEF ConnectionState
  <2>3. CountOK(c)'
    BY <1>1, <1>2, <1>5, <2>1, <2>2 DEF CountOK
  <2>4. UnderWay(connections[c])' = UnderWay(connections[c]) \cup {m}
    BY <1>1, <1>2, <1>5, <2>1, <2>2 DEF UnderWay, CountOK
  <2>5. m \notin UnderWay(connections[c])
    BY <1>1, <1>2, <2>2 DEF UnderWay
  <2>6. ASSUME NEW s \in Nat
        PROVE  /\ s # m => Holders(c, s)' = Holders(c, s)
               /\ s = m => \E h : Holders(c, s)' = {h}
    <3>1. connections'[c].out_of_order_buf = connections[c].out_of_order_buf
      BY <1>1, <1>5
    <3>2. IsFor(t, c, s) <=> s = m
      BY <1>4 DEF IsFor
    <3>3. /\ ~IsFor(t, c, s) => Holders(c, s)' = Holders(c, s)
          /\ IsFor(t, c, s) => \E h : Holders(c, s)' = Holders(c, s) \cup {h}
      BY <1>3, <1>4, <3>1, AddHolder, ZenonT(40)
    <3>4. s = m => Holders(c, s) = {}
      BY <2>1, <2>5 DEF HeldOK
    <3> QED
      BY <3>2, <3>3, <3>4
  <2>7. HeldOK(c)'
    BY <2>1, <2>4, <2>5, <2>6 DEF HeldOK
  <2> QED
    BY <2>3, <2>7
<1> QED
  BY <1>5, <1>6, <1>7, <1>8 DEF FlowInv, Sound

LEMMA ReassembleFlow ==
  ASSUME TypeInv, FlowInv, ReassembleResult PROVE FlowInv'
<1>1. PICK r \in TaskResult : r = Head(results)
  BY DEF TypeInv, TypeOK, LoopTypeOK, ReassembleResult
<1>2. PICK c \in Connected : c = r.client_fd
  BY <1>1 DEF ReassembleResult
<1>3. PICK k \in ConnectionState : k = connections[c]
  BY DEF TypeInv, TypeOK, ConnTypeOK
<1>4. PICK from \in Nat : from = k.next_seq_expected
  BY DEF ConnectionState
<1>5. PICK buf : buf = Park(k.out_of_order_buf, r)
  OBVIOUS
<1>6. /\ buf = {x \in k.out_of_order_buf : x.sequence_id # r.sequence_id} \cup {r}
      /\ buf \subseteq TaskResult
  BY <1>5 DEF ConnectionState, Park
<1>7. PICK n \in from .. (from + Cardinality(buf)) :
        /\ \A s \in from .. (n - 1) : Parked(buf, s)
        /\ connections' = [connections EXCEPT ![c] = Flushed(k, buf, n)]
  <2> DEFINE hd == Head(results)
             kk == connections[hd.client_fd]
             bb == Park(kk.out_of_order_buf, hd)
  <2>1. PICK n \in kk.next_seq_expected .. (kk.next_seq_expected + Cardinality(bb)) :
          /\ \A s \in kk.next_seq_expected .. (n - 1) : Parked(bb, s)
          /\ connections' = [connections EXCEPT ![hd.client_fd] = Flushed(kk, bb, n)]
    BY DEF ReassembleResult
  <2>2. hd.client_fd = c /\ kk = k /\ bb = buf
    BY <1>1, <1>2, <1>3, <1>5
  <2> HIDE DEF hd, kk, bb
  <2> QED
    BY <1>4, <2>1, <2>2
<1>8. /\ n \in Nat /\ n >= from
      /\ r.sequence_id \in Nat
      /\ k.next_seq_issue \in Nat /\ k.in_flight_requests \in Nat
      /\ results # <<>> /\ results' = Tail(results) /\ UNCHANGED poolVars
      /\ tainted' = tainted
  BY <1>7 DEF TaskResult, ConnectionState, ReassembleResult, historyVars
<1>9. /\ Connected' = Connected
      /\ \A d \in Connected \ {c} : connections'[d] = connections[d]
      /\ connections'[c].next_seq_issue = k.next_seq_issue
      /\ connections'[c].next_seq_expected = n
      /\ connections'[c].in_flight_requests = Less(k.in_flight_requests, n - from)
      /\ connections'[c].out_of_order_buf =
           {x \in buf : x.sequence_id \notin from .. (n - 1)}
  BY <1>4, <1>7 DEF Flushed, ConnectionState, Connected
<1>10. ASSUME NEW d \in Connected \ {c}
       PROVE  ParksOwn(d)' /\ (d \in Sound => CountOK(d)' /\ HeldOK(d)')
  <2>1. connections'[d] = connections[d]
    BY <1>9
  <2>2. \A s \in Nat : OneForOne(d, s)
    <3> SUFFICES ASSUME NEW s \in Nat PROVE OneForOne(d, s)
      OBVIOUS
    <3>1. ~IsFor(Head(results), d, s)
      BY <1>1, <1>2, <1>10 DEF IsFor
    <3> QED
      BY <1>8, <2>1, <3>1, TailHolders
  <2>3. SameFlow(d)
    BY <2>1, <2>2 DEF SameFlow, SameCounts
  <2> QED
    BY <2>3, SameFlowKept
<1>11. ParksOwn(c) /\ \A x \in buf : x.client_fd = c
  BY <1>2, <1>3, <1>6 DEF FlowInv, ParksOwn
<1>12. ParksOwn(c)'
  BY <1>9, <1>11 DEF ParksOwn
<1>13. ASSUME c \in Sound PROVE CountOK(c)' /\ HeldOK(c)'
  <2>1. CountOK(c) /\ HeldOK(c)
    BY <1>13 DEF FlowInv
  <2>2. Holders(c, r.sequence_id) = {<<"drained", 1>>}
          /\ r.sequence_id \in UnderWay(connections[c])
    <3>1. <<"drained", 1>> \in Holders(c, r.sequence_id)
      BY <1>1, <1>2, <1>8, HeadHolder
    <3> QED
      BY <1>8, <2>1, <3>1 DEF HeldOK
  <2>3. ASSUME NEW x \in k.out_of_order_buf
        PROVE  /\ x.sequence_id \in Nat
               /\ Holders(c, x.sequence_id) = {<<"parked", x>>}
               /\ x.sequence_id \in UnderWay(connections[c])
    <3>1. x.sequence_id \in Nat
      BY DEF ConnectionState, TaskResult
    <3>2. <<"parked", x>> \in Holders(c, x.sequence_id)
      BY <1>3, <1>11 DEF Holders, IsFor, ParksOwn
    <3> QED
      BY <2>1, <3>1, <3>2 DEF HeldOK
  <2>4. \A s \in from .. (n - 1) : s \in UnderWay(connections[c])
    BY <1>6, <1>7, <2>2, <2>3 DEF Parked
  <2>5. n <= k.next_seq_issue
    <3>1. CASE n = from
      BY <1>3, <1>4, <2>1, <3>1 DEF CountOK
    <3>2. CASE n > from
      <4>1. n - 1 \in from .. (n - 1)
        BY <1>8, <3>2
      <4> QED
        BY <1>3, <1>8, <2>4, <4>1 DEF UnderWay
    <3> QED
      BY <1>8, <3>1, <3>2
  <2>6. CountOK(c)'
    BY <1>3, <1>4, <1>8, <1>9, <2>1, <2>5, SMTT(40) DEF CountOK, Less
  <2>7. UnderWay(connections[c])' = UnderWay(connections[c]) \ (from .. (n - 1))
    BY <1>3, <1>4, <1>8, <1>9 DEF UnderWay
  <2>8. ASSUME NEW s \in from .. (n - 1) PROVE Holders(c, s)' = {}
    <3>1. \A y \in connections'[c].out_of_order_buf : ~IsFor(y, c, s)
      BY <1>9 DEF IsFor
    <3>2. CASE s = r.sequence_id
      BY <1>8, <2>2, <3>1, <3>2, HeadLeaves
    <3>3. CASE s # r.sequence_id
      <4>1. PICK x \in k.out_of_order_buf : x.sequence_id = s
        BY <1>6, <1>7, <3>3 DEF Parked
      <4>2. Holders(c, s) = {<<"parked", x>>}
        BY <2>3, <4>1
      <4> QED
        BY <1>8, <3>1, <4>2, ParkedLeaves
    <3> QED
      BY <3>2, <3>3
  <2>9. ASSUME r.sequence_id \notin from .. (n - 1)
        PROVE  Holders(c, r.sequence_id)' = {<<"parked", r>>}
    <3>1. \A y : (y \in connections'[c].out_of_order_buf /\ IsFor(y, c, r.sequence_id))
                   <=> y = r
      BY <1>2, <1>6, <1>9, <2>9 DEF IsFor
    <3>2. Holders(c, r.sequence_id)' =
            {<<"parked", x>> : x \in {y \in connections'[c].out_of_order_buf :
                                        IsFor(y, c, r.sequence_id)}}
      BY <1>8, <2>2, HeadLeaves
    <3> QED
      BY <3>1, <3>2
  <2>10. ASSUME NEW s \in Nat, s \notin from .. (n - 1), s # r.sequence_id
         PROVE  OneForOne(c, s)
    <3>1. ~IsFor(Head(results), c, s)
      BY <1>1, <2>10 DEF IsFor
    <3>2. \A x : IsFor(x, c, s) => (x \in connections'[c].out_of_order_buf
                                      <=> x \in connections[c].out_of_order_buf)
      BY <1>3, <1>6, <1>9, <2>10 DEF IsFor
    <3> QED
      BY <1>8, <3>1, <3>2, TailHolders
  <2>11. HeldOK(c)'
    <3> SUFFICES ASSUME NEW s \in Nat
                 PROVE  IF s \in UnderWay(connections[c])'
                        THEN \E h : Holders(c, s)' = {h} ELSE Holders(c, s)' = {}
      BY DEF HeldOK
    <3>1. CASE s \in from .. (n - 1)
      BY <2>7, <2>8, <3>1
    <3>2. CASE s \notin from .. (n - 1) /\ s = r.sequence_id
      BY <2>2, <2>7, <2>9, <3>2
    <3>3. CASE s \notin from .. (n - 1) /\ s # r.sequence_id
      BY <2>1, <2>7, <2>10, <3>3 DEF HeldOK, OneForOne
    <3> QED
      BY <3>1, <3>2, <3>3
  <2> QED
    BY <2>6, <2>11
<1> QED
  BY <1>8, <1>9, <1>10, <1>12, <1>13 DEF FlowInv, Sound

LEMMA NextFlowInv == TypeInv /\ FlowInv /\ [Next]_vars => FlowInv'
<1> SUFFICES ASSUME TypeInv, FlowInv, [Next]_vars PROVE FlowInv'
  OBVIOUS
<1>1. CASE CloseAll
  <2>1. Connected' = {}
    BY <1>1 DEF CloseAll, Connected
  <2> QED
    BY <2>1 DEF FlowInv, Sound
<1>2. CASE Moves
  BY <1>2, MovesKept
<1>3. CASE \E c \in Sockets : Accept(c) \/ Disconnect(c)
  BY <1>3, AcceptFlow, DisconnectFlow
<1>4. CASE ReassembleResult
  BY <1>4, ReassembleFlow
<1>5. CASE StampLine
  BY <1>5, StampFlow
<1> QED
  BY <1>1, <1>2, <1>3, <1>4, <1>5, MoveSteps

LEMMA FlowInvAlways == Spec => []FlowInv
<1>1. Init => FlowInv
  BY DEF Init, FlowInv, Sound, Connected
<1> QED
  BY <1>1, NextFlowInv, TypeInvAlways, PTL DEF Spec

(***************************************************************************)
(* Every request stamped on a connection and not yet answered is in one    *)
(* place, the queue, a worker, the completion queue, the drained results   *)
(* or out_of_order_buf, and in_flight_requests counts exactly those: none  *)
(* is lost on its way and none is held twice.                              *)
(***************************************************************************)
THEOREM NothingForgottenHolds == Spec => []NothingForgotten
<1>1. TypeInv /\ FlowInv => NothingForgotten
  <2> SUFFICES ASSUME TypeInv, FlowInv, NEW c \in Sound,
                      NEW s \in UnderWay(connections[c])
               PROVE  Cardinality(Holders(c, s)) = 1
    BY DEF NothingForgotten, FlowInv, CountOK, UnderWay
  <2>1. connections[c] \in ConnectionState
    BY DEF Sound, TypeInv, TypeOK, ConnTypeOK
  <2>2. s \in Nat
    BY <2>1 DEF UnderWay, ConnectionState
  <2>3. PICK h : Holders(c, s) = {h}
    BY <2>2 DEF FlowInv, HeldOK
  <2> QED
    BY <2>3, FS_Singleton
<1> QED
  BY <1>1, FlowInvAlways, TypeInvAlways, PTL
-----------------------------------------------------------------------------
(***************************************************************************)
(* The depth is tested when a line is taken and the line is counted when   *)
(* it is stamped: in between, in_flight_requests must not have grown.      *)
(***************************************************************************)
DepthInv ==
  \A c \in Connected :
    /\ connections[c].in_flight_requests <= MAX_PIPELINE_DEPTH
    /\ pc = "process" /\ client = c
         => connections[c].in_flight_requests < MAX_PIPELINE_DEPTH

(* The steps that do not stamp: they count nothing, and only TakeLine prepares to. *)
LEMMA DepthSteps ==
  ASSUME TypeInv, [Next]_vars, ~StampLine
  PROVE  \A c \in Connected' :
           /\ \/ /\ c \in Connected
                 /\ connections'[c].in_flight_requests <= connections[c].in_flight_requests
              \/ connections'[c].in_flight_requests = 0
           /\ pc' = "process" /\ client' = c =>
                /\ connections'[c].in_flight_requests = connections[c].in_flight_requests
                /\ c \in Connected
                /\ client = c /\ (pc = "process" \/ TakeLine)
<1>0. /\ \A c \in Connected : connections[c] \in ConnectionState
      /\ \A c \in Connected : connections[c].in_flight_requests \in Nat
  BY DEF TypeInv, TypeOK, ConnTypeOK, ConnectionState
<1>1. CASE UNCHANGED <<connections, pc, client>>
  BY <1>0, <1>1 DEF Connected
<1>2. CASE pc' # "process" /\ UNCHANGED connections
  BY <1>0, <1>2 DEF Connected
<1>3. CASE \E c \in Sockets : Accept(c) \/ Disconnect(c)
  <2>1. PICK c \in Sockets : Accept(c) \/ Disconnect(c)
    BY <1>3
  <2>2. CASE Accept(c)
    BY <1>0, <2>2 DEF Accept, Connected, NewConnection
  <2>3. CASE Disconnect(c)
    BY <1>0, <2>3 DEF Disconnect, Connected
  <2> QED
    BY <2>1, <2>2, <2>3
<1>4. CASE CloseAll
  BY <1>4 DEF CloseAll, Connected
<1>5. CASE SkipBlankLine \/ PauseReads \/ TakeLine
  <2>1. NextLine
    BY <1>5 DEF SkipBlankLine, PauseReads, TakeLine
  <2>2. /\ Connected' = Connected
        /\ \A c \in Connected :
             connections'[c].in_flight_requests = connections[c].in_flight_requests
    BY <1>0, <2>1, NextLineType DEF NextLine, Connected, ConnectionState
  <2>3. pc' = "process" => TakeLine /\ client' = client
    BY <1>5 DEF SkipBlankLine, PauseReads, TakeLine, NextLine
  <2> QED
    BY <1>0, <2>2, <2>3
<1>6. CASE \E c \in Sockets : HandleRead(c)
  <2>0. PICK c \in Sockets : \E rb : connections' = [connections EXCEPT ![c].read_buffer = rb]
    BY <1>6 DEF HandleRead
  <2>1. PICK rb : connections' = [connections EXCEPT ![c].read_buffer = rb]
    BY <2>0
  <2>2. /\ Connected' = Connected
        /\ \A d \in Connected :
             connections'[d].in_flight_requests = connections[d].in_flight_requests
    BY <1>0, <2>1 DEF Connected, ConnectionState
  <2>3. pc' # "process"
    BY <1>6 DEF HandleRead
  <2> QED
    BY <1>0, <2>2, <2>3
<1>7. CASE \E c \in Sockets : HandleWrite(c)
  <2>0. PICK c \in Sockets : HandleWrite(c)
    BY <1>7
  <2>1. PICK wb, wp : connections' = [connections EXCEPT ![c].write_buffer = wb,
                                                         ![c].write_pending = wp]
    BY <2>0 DEF HandleWrite
  <2>2. /\ Connected' = Connected
        /\ \A d \in Connected :
             connections'[d].in_flight_requests = connections[d].in_flight_requests
    BY <1>0, <2>1 DEF Connected, ConnectionState
  <2>3. pc' # "process"
    BY <1>7 DEF HandleWrite
  <2> QED
    BY <1>0, <2>2, <2>3
<1>8. CASE ReassembleResult
  <2>1. pc' # "process" /\ Connected' = Connected
    BY <1>8 DEF ReassembleResult, Connected
  <2> DEFINE c == Head(results).client_fd
             k == connections[c]
             m == k.next_seq_expected
             buf == Park(k.out_of_order_buf, Head(results))
  <2>2. PICK n \in m .. (m + Cardinality(buf)) :
          connections' = [connections EXCEPT ![c] = Flushed(k, buf, n)]
    BY <1>8 DEF ReassembleResult
  <2>3. c \in Connected /\ k \in ConnectionState /\ m \in Nat
    BY <1>0, <1>8 DEF ReassembleResult, ConnectionState
  <2> HIDE DEF buf
  <2>4. connections'[c].in_flight_requests <= connections[c].in_flight_requests
    <3>1. connections'[c].in_flight_requests = Less(k.in_flight_requests, n - m)
      BY <2>2, <2>3 DEF Flushed, Connected, ConnectionState
    <3>2. k.in_flight_requests \in Nat /\ n - m \in Nat
      BY <1>0, <2>2, <2>3
    <3> QED
      BY <2>2, <3>1, <3>2 DEF Less
  <2>5. \A d \in Connected \ {c} : connections'[d] = connections[d]
    BY <2>2 DEF Connected
  <2> QED
    BY <1>0, <2>1, <2>4, <2>5
<1>9. \/ UNCHANGED <<connections, pc, client>>
      \/ pc' # "process" /\ UNCHANGED connections
      \/ \E c \in Sockets : Accept(c) \/ Disconnect(c) \/ HandleRead(c) \/ HandleWrite(c)
      \/ CloseAll \/ SkipBlankLine \/ PauseReads \/ TakeLine \/ ReassembleResult
  <2>1. CASE ReactorStep
    BY <2>1 DEF ReactorStep, DrainCompletions, DropResult, Unpause, Poll,
       AcceptConnection, Refuse, HandleEvents, HangUp, ReadFails, WriteFails,
       EventsDone, HandleLines, LinesDone
  <2>2. CASE Stop \/ ClientStep \/ Terminated \/ UNCHANGED vars
               \/ \E w \in Workers : WorkerTake(w) \/ WorkerFinish(w)
    BY <2>2 DEF Stop, ClientStep, Dial, SendLine, ClosePeer, Terminated, WorkerTake,
       WorkerFinish, vars, reactorVars
  <2> QED
    BY <2>1, <2>2 DEF Next
<1> QED
  BY <1>1, <1>2, <1>3, <1>4, <1>5, <1>6, <1>7, <1>8, <1>9

(***************************************************************************)
(* A connection never has more than MAX_PIPELINE_DEPTH requests under way, *)
(* although the depth is tested when a line is taken from the read buffer  *)
(* and in_flight_requests is counted up only when the line is stamped.     *)
(***************************************************************************)
THEOREM PipelineDepthRespectedHolds == Spec => []PipelineDepthRespected
<1>1. Init => DepthInv
  BY DEF Init, DepthInv, Connected
<1>2. TypeInv /\ DepthInv /\ [Next]_vars => DepthInv'
  <2> SUFFICES ASSUME TypeInv, DepthInv, [Next]_vars, NEW c \in Connected'
               PROVE  /\ connections'[c].in_flight_requests <= MAX_PIPELINE_DEPTH
                      /\ pc' = "process" /\ client' = c
                           => connections'[c].in_flight_requests < MAX_PIPELINE_DEPTH
    BY DEF DepthInv
  <2>0. /\ MAX_PIPELINE_DEPTH \in Nat
        /\ \A d \in Connected : /\ connections[d] \in ConnectionState
                                /\ connections[d].in_flight_requests \in Nat
        /\ \A d \in Connected' : connections'[d].in_flight_requests \in Nat
    <3>1. TypeInv'
      BY NextTypeInv
    <3> QED
      BY <3>1, ReactorAssumption DEF TypeInv, TypeOK, ConnTypeOK, ConnectionState
  <2>1. CASE StampLine
    <3>1. /\ client \in Connected /\ pc = "process" /\ pc' # "process"
          /\ Connected' = Connected
          /\ connections'[client].in_flight_requests
               = connections[client].in_flight_requests + 1
          /\ \A d \in Connected \ {client} : connections'[d] = connections[d]
      BY <2>0, <2>1 DEF StampLine, TypeInv, ControlInv, Connected, ConnectionState
    <3> QED
      BY <2>0, <3>1 DEF DepthInv
  <2>2. CASE ~StampLine
    <3>1. TakeLine /\ client = c
            => connections[c].in_flight_requests < MAX_PIPELINE_DEPTH
      <4>1. TakeLine => client \in Connected
        BY NextLineType DEF TakeLine
      <4> QED
        BY <2>0, <4>1 DEF TakeLine, MustPause
    <3> QED
      BY <2>0, <2>2, <3>1, DepthSteps DEF DepthInv
  <2> QED
    BY <2>1, <2>2
<1>3. TypeInv /\ FlowInv /\ DepthInv => PipelineDepthRespected
  BY DEF FlowInv, CountOK, DepthInv, PipelineDepthRespected, Sound
<1> QED
  BY <1>1, <1>2, <1>3, FlowInvAlways, TypeInvAlways, PTL DEF Spec
=============================================================================
