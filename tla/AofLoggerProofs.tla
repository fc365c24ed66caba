-------------------------- MODULE AofLoggerProofs --------------------------
(***************************************************************************)
(* Proofs about the append-only file, for every set of commands and every  *)
(* number of commands, runs of the server, kills and failing writes.       *)
(***************************************************************************)
EXTENDS AofLogger, TLAPS, SequenceTheorems

(* What follows the first k elements of s. *)
Rest(s, k) == SubSeq(s, k + 1, Len(s))

LEMMA RestProperties ==
  ASSUME NEW S, NEW s \in Seq(S), NEW k \in 0 .. Len(s)
  PROVE  /\ SubSeq(s, 1, k) \in Seq(S) /\ Len(SubSeq(s, 1, k)) = k
         /\ Rest(s, k) \in Seq(S) /\ Len(Rest(s, k)) = Len(s) - k
         /\ SubSeq(s, 1, k) \o Rest(s, k) = s
<1>1. Len(s) \in Nat /\ k \in Int /\ 0 <= k /\ k <= Len(s)
  BY LenProperties
<1>2. \A i \in 1 .. Len(s) : s[i] \in S
  BY ElementOfSeq
<1>3. SubSeq(s, 1, k) \in Seq(S) /\ Len(SubSeq(s, 1, k)) = k
  <2>1. \A i \in 1 .. k : s[i] \in S
    BY <1>1, <1>2
  <2> QED
    BY <1>1, <2>1, SubSeqProperties
<1>4. Rest(s, k) \in Seq(S) /\ Len(Rest(s, k)) = Len(s) - k
  <2>1. \A i \in (k + 1) .. Len(s) : s[i] \in S
    BY <1>1, <1>2
  <2>2. k + 1 \in Int /\ Len(s) \in Int
    BY <1>1
  <2>3. /\ Rest(s, k) \in Seq(S)
        /\ Len(Rest(s, k)) = IF k + 1 <= Len(s) THEN Len(s) - (k + 1) + 1 ELSE 0
    BY <2>1, <2>2, SubSeqProperties DEF Rest
  <2> QED
    BY <1>1, <2>3
<1>5. SubSeq(s, 1, k) \o Rest(s, k) = SubSeq(s, 1, Len(s))
  <2>1. 1 \in 1 .. Len(s) + 1 /\ k \in 1 - 1 .. Len(s) /\ Len(s) \in k .. Len(s)
    BY <1>1
  <2> QED
    BY <2>1, ConcatAdjacentSubSeq DEF Rest
<1> QED
  BY <1>3, <1>4, <1>5, SubSeqFull

LEMMA RestEnds ==
  ASSUME NEW S, NEW s \in Seq(S)
  PROVE  Rest(s, 0) = s /\ Rest(s, Len(s)) = <<>>
<1>1. Len(s) \in Nat
  BY LenProperties
<1>2. Rest(s, Len(s)) = <<>>
  BY <1>1, SubSeqEmpty DEF Rest
<1>3. Rest(s, 0) = s
  BY SubSeqFull DEF Rest
<1> QED
  BY <1>2, <1>3

LEMMA RestNext ==
  ASSUME NEW S, NEW s \in Seq(S), NEW k \in Nat, k < Len(s)
  PROVE  s[k + 1] \in S /\ Rest(s, k) = <<s[k + 1]>> \o Rest(s, k + 1)
<1>1. Len(s) \in Nat
  BY LenProperties
<1>2. k + 1 \in 1 .. Len(s) /\ Len(s) \in (k + 1) .. Len(s)
  BY <1>1
<1> QED
  BY <1>2, ElementOfSeq, SubSeqRecursiveFirst DEF Rest

LEMMA RestAppend ==
  ASSUME NEW S, NEW s \in Seq(S), NEW e \in S, NEW k \in 0 .. Len(s)
  PROVE  Rest(Append(s, e), k) = Append(Rest(s, k), e)
<1> DEFINE a == Append(s, e)
<1>1. Len(s) \in Nat /\ k \in Nat /\ k <= Len(s) /\ Len(a) = Len(s) + 1 /\ a \in Seq(S)
  BY LenProperties, AppendProperties
<1>2. Rest(s, k) \in Seq(S) /\ Rest(a, k) \in Seq(S)
      /\ Len(Rest(a, k)) = Len(s) + 1 - k /\ Len(Rest(s, k)) = Len(s) - k
  <2> HIDE DEF a
  <2>1. k \in 0 .. Len(a)
    BY <1>1
  <2>2. Rest(a, k) \in Seq(S) /\ Len(Rest(a, k)) = Len(a) - k
    BY <1>1, <2>1, RestProperties
  <2> QED
    BY <1>1, <2>2, RestProperties
<1>3. /\ Append(Rest(s, k), e) \in Seq(S)
      /\ Len(Append(Rest(s, k), e)) = Len(s) + 1 - k
      /\ \A i \in 1 .. Len(s) - k : Append(Rest(s, k), e)[i] = Rest(s, k)[i]
      /\ Append(Rest(s, k), e)[Len(s) + 1 - k] = e
  BY <1>1, <1>2, AppendProperties
<1>4. \A i \in 1 .. Len(s) - k : Rest(s, k)[i] = s[k + i]
  <2>1. \A i \in (k + 1) .. Len(s) : s[i] \in S
    BY <1>1, ElementOfSeq
  <2>2. \A i \in 1 .. Len(s) - (k + 1) + 1 : Rest(s, k)[i] = s[(k + 1) + i - 1]
    BY <1>1, <2>1, SubSeqProperties DEF Rest
  <2> QED
    BY <1>1, <2>2
<1>5. \A i \in 1 .. Len(s) + 1 - k : Rest(a, k)[i] = a[k + i]
  <2>1. \A i \in (k + 1) .. Len(a) : a[i] \in S
    BY <1>1, ElementOfSeq
  <2>2. \A i \in 1 .. Len(a) - (k + 1) + 1 : Rest(a, k)[i] = a[(k + 1) + i - 1]
    BY <1>1, <2>1, SubSeqProperties DEF Rest
  <2> HIDE DEF a
  <2> QED
    BY <1>1, <2>2
<1>6. /\ \A i \in 1 .. Len(s) : a[i] = s[i]
      /\ a[Len(s) + 1] = e
  BY AppendProperties
<1>7. \A i \in 1 .. Len(s) + 1 - k : Rest(a, k)[i] = Append(Rest(s, k), e)[i]
  <2> HIDE DEF a
  <2> SUFFICES ASSUME NEW i \in 1 .. Len(s) + 1 - k
               PROVE  Rest(a, k)[i] = Append(Rest(s, k), e)[i]
    OBVIOUS
  <2>1. CASE i = Len(s) + 1 - k
    <3>1. k + i = Len(s) + 1
      BY <1>1, <2>1
    <3> QED
      BY <1>3, <1>5, <1>6, <2>1, <3>1
  <2>2. CASE i \in 1 .. Len(s) - k
    <3>1. k + i \in 1 .. Len(s)
      BY <1>1, <2>2
    <3> QED
      BY <1>3, <1>4, <1>5, <1>6, <2>2, <3>1
  <2>3. i = Len(s) + 1 - k \/ i \in 1 .. Len(s) - k
    BY <1>1
  <2> QED
    BY <2>1, <2>2, <2>3
<1> HIDE DEF a
<1>8. Rest(a, k) = Append(Rest(s, k), e)
  BY <1>1, <1>2, <1>3, <1>7, SeqEqual
<1> QED
  BY <1>8 DEF a

LEMMA Regroup ==
  ASSUME NEW s \in Seq(Commands), NEW t \in Seq(Commands), NEW u \in Seq(Commands)
  PROVE  (s \o t) \o u = s \o (t \o u) /\ t \o u \in Seq(Commands)
<1>1. (s \o t) \o u = s \o (t \o u)
  BY ConcatAssociative
<1> QED
  BY <1>1, ConcatProperties

LEMMA Concats ==
  ASSUME NEW S
  PROVE  \A a, b, c \in Seq(S) : /\ (a \o b) \o c = a \o (b \o c) /\ a \o b \in Seq(S)
                                 /\ Len(a \o b) = Len(a) + Len(b)
<1> SUFFICES ASSUME NEW a \in Seq(S), NEW b \in Seq(S), NEW c \in Seq(S)
             PROVE  /\ (a \o b) \o c = a \o (b \o c) /\ a \o b \in Seq(S)
                    /\ Len(a \o b) = Len(a) + Len(b)
  OBVIOUS
<1>1. (a \o b) \o c = a \o (b \o c)
  BY ConcatAssociative
<1> QED
  BY <1>1, ConcatProperties

(* Concatenation by another name, which the provers leave alone. *)
Cat(a, b) == a \o b

LEMMA CatAssociative ==
  \A S : \A a, b, c \in Seq(S) :
    Cat(Cat(a, b), c) = Cat(a, Cat(b, c)) /\ Cat(a, b) \in Seq(S)
<1> TAKE S
<1> TAKE a, b, c \in Seq(S)
<1>1. (a \o b) \o c = a \o (b \o c)
  BY ConcatAssociative
<1>2. a \o b \in Seq(S)
  BY ConcatProperties
<1> QED
  BY <1>1, <1>2, Zenon DEF Cat

LEMMA PrefixOfConcat ==
  ASSUME NEW S, NEW s \in Seq(S), NEW t \in Seq(S)
  PROVE  Len(s) <= Len(s \o t) /\ s = SubSeq(s \o t, 1, Len(s))
<1> DEFINE c == s \o t
<1>1. Len(s) \in Nat /\ Len(t) \in Nat /\ c \in Seq(S) /\ Len(c) = Len(s) + Len(t)
      /\ \A i \in 1 .. Len(s) : c[i] = s[i]
  BY LenProperties, ConcatProperties
<1> HIDE DEF c
<1>2. SubSeq(c, 1, Len(s)) \in Seq(S) /\ Len(SubSeq(c, 1, Len(s))) = Len(s)
  BY <1>1, RestProperties
<1>3. \A i \in 1 .. Len(s) : SubSeq(c, 1, Len(s))[i] = c[i]
  <2>1. \A i \in 1 .. Len(s) : c[i] \in S
    BY <1>1, ElementOfSeq
  <2>2. \A i \in 1 .. Len(s) - 1 + 1 : SubSeq(c, 1, Len(s))[i] = c[1 + i - 1]
    BY <1>1, <2>1, SubSeqProperties
  <2> QED
    BY <1>1, <2>2
<1>4. s = SubSeq(c, 1, Len(s))
  BY <1>1, <1>2, <1>3, SeqEqual
<1> QED
  BY <1>1, <1>4 DEF c
-----------------------------------------------------------------------------
LEMMA RestOfPrefix ==
  ASSUME NEW S, NEW s \in Seq(S), NEW n \in 1 .. Len(s), NEW x, x = SubSeq(s, 1, n)
  PROVE  SubSeq(s, 2, n) = Rest(x, 1)
<1>1. Len(s) \in Nat /\ n \in Nat /\ 1 <= n /\ n <= Len(s)
  BY LenProperties
<1>2. x \in Seq(S) /\ Len(x) = n /\ \A i \in 1 .. n : x[i] = s[i]
  OBVIOUS
<1>3. PICK a : a = SubSeq(s, 2, n)
  OBVIOUS
<1>4. a \in Seq(S) /\ Len(a) = n - 1 /\ \A i \in 1 .. n - 1 : a[i] = s[i + 1]
  BY <1>1, <1>3
<1>5. PICK b : b = Rest(x, 1)
  OBVIOUS
<1>6. b \in Seq(S) /\ Len(b) = n - 1 /\ \A i \in 1 .. n - 1 : b[i] = x[i + 1]
  BY <1>1, <1>2, <1>5 DEF Rest
<1>7. \A i \in 1 .. n - 1 : a[i] = b[i]
  BY <1>1, <1>2, <1>4, <1>6
<1>8. a = b
  BY <1>4, <1>6, <1>7, SeqEqual
<1> QED
  BY <1>3, <1>5, <1>8

LEMMA RestOfConcat ==
  ASSUME NEW S, NEW a \in Seq(S), NEW b \in Seq(S)
  PROVE  Rest(a \o b, Len(a)) = b
<1>1. PICK c : c = a \o b
  OBVIOUS
<1>2. /\ c \in Seq(S) /\ Len(c) = Len(a) + Len(b) /\ Len(a) \in Nat /\ Len(b) \in Nat
      /\ \A i \in 1 .. Len(b) : c[Len(a) + i] = b[i]
  BY <1>1
<1>3. PICK r : r = Rest(c, Len(a))
  OBVIOUS
<1>4. r \in Seq(S) /\ Len(r) = Len(b) /\ \A i \in 1 .. Len(b) : r[i] = c[i + Len(a)]
  BY <1>2, <1>3 DEF Rest
<1>5. \A i \in 1 .. Len(b) : r[i] = b[i]
  BY <1>2, <1>4
<1>6. r = b
  BY <1>4, <1>5, SeqEqual
<1> QED
  BY <1>1, <1>3, <1>6

(***************************************************************************)
(* What the place of each thread says about the buffers and the stream.    *)
(***************************************************************************)
ControlInv ==
  /\ running <=> main = "up"
  /\ main \in {"flush", "closed", "killed"} => flusher = "done"
  /\ flusher # "write" => flush_buffer = <<>>
  /\ flusher # "write" /\ main # "flush" => written = 0
  /\ flusher # "write" /\ main # "flush" /\ ~failed => stream = <<>>
  /\ main \in {"closed", "killed"} => active_buffer = <<>>
  /\ main = "killed" => stream = <<>>
  /\ open_line => stream # <<>>

TypeInv == TypeOK /\ ControlInv

(* What replay may find in a line. *)
Lines == Commands \cup Readings

(* What can be said of the file whatever is written. *)
FileType == /\ stream \in Seq(Commands) /\ file \in Seq(Commands)
            /\ failed \in BOOLEAN
            /\ contents \in Seq(Lines) /\ Len(contents) = Len(file)
            /\ open_line \in BOOLEAN /\ (open_line => stream # <<>>)
            /\ tail \in {<<>>} \cup {<<r>> : r \in Readings}

(* Lines x reach the file; the first is joined to the fragment, if there is one. *)
Spilled(x) ==
  /\ file' = file \o x
  /\ \/ /\ x = <<>> \/ tail = <<>>
        /\ contents' = contents \o x /\ tail' = tail
     \/ /\ x # <<>> /\ tail # <<>>
        /\ \E r \in Readings : contents' = Append(contents, r) \o Rest(x, 1)
        /\ tail' = <<>>

LEMMA SpilledLength ==
  ASSUME FileType, NEW x \in Seq(Commands), Spilled(x)
  PROVE  contents' \in Seq(Lines) /\ Len(contents') = Len(file')
<1>1. /\ contents \in Seq(Lines) /\ file \in Seq(Commands) /\ Len(contents) = Len(file)
      /\ Len(x) \in Nat /\ Len(file) \in Nat
  BY LenProperties DEF FileType
<1>2. x \in Seq(Lines)
  BY DEF Lines
<1>3. file' = file \o x /\ Len(file') = Len(file) + Len(x)
  BY <1>1, ConcatProperties DEF Spilled
<1>4. CASE contents' = contents \o x
  <2>1. contents \o x \in Seq(Lines) /\ Len(contents \o x) = Len(contents) + Len(x)
    BY <1>1, <1>2, ConcatProperties
  <2> QED
    BY <1>1, <1>3, <1>4, <2>1
<1>5. CASE x # <<>> /\ \E r \in Readings : contents' = Append(contents, r) \o Rest(x, 1)
  <2>1. PICK r \in Readings : contents' = Append(contents, r) \o Rest(x, 1)
    BY <1>5
  <2>2. 1 \in 0 .. Len(x)
    BY <1>1, <1>5, EmptySeq
  <2>3. Rest(x, 1) \in Seq(Lines) /\ Len(Rest(x, 1)) = Len(x) - 1
    BY <1>2, <2>2, RestProperties
  <2>4. Append(contents, r) \in Seq(Lines) /\ Len(Append(contents, r)) = Len(contents) + 1
    BY <1>1, AppendProperties DEF Lines
  <2>5. /\ contents' \in Seq(Lines)
        /\ Len(contents') = Len(Append(contents, r)) + Len(Rest(x, 1))
    <3>1. PICK a, b \in Seq(Lines) : a = Append(contents, r) /\ b = Rest(x, 1)
      BY <2>3, <2>4
    <3>2. a \o b \in Seq(Lines) /\ Len(a \o b) = Len(a) + Len(b)
      BY ConcatProperties
    <3> QED
      BY <2>1, <3>1, <3>2
  <2>6. Len(Append(contents, r)) + Len(Rest(x, 1)) = Len(file) + Len(x)
    <3>1. PICK i, j \in Nat : i = Len(file) /\ j = Len(x)
      BY <1>1
    <3>2. (i + 1) + (j - 1) = i + j
      OBVIOUS
    <3> QED
      BY <1>1, <2>3, <2>4, <3>1, <3>2, Zenon
  <2> QED
    BY <1>3, <2>5, <2>6
<1> QED
  BY <1>4, <1>5 DEF Spilled

(***************************************************************************)
(* A spill moves lines from the stream to the file and keeps their order.  *)
(***************************************************************************)
LEMMA SpillKeeps ==
  ASSUME FileType, NEW s \in Seq(Commands), NEW n \in 0 .. Len(s),
         NEW inside \in BOOLEAN, Spill(s, n, inside), failed' \in BOOLEAN,
         inside => n < Len(s), open_line => s # <<>>
  PROVE  /\ FileType'
         /\ \E x \in Seq(Commands) : Spilled(x)
         /\ Len(file') = Len(file) + n
         /\ file' \o stream' = file \o s
         /\ n = Len(s) => stream' = <<>>
<1>1. Len(s) \in Nat /\ Len(file) \in Nat /\ n \in Nat
  BY LenProperties DEF FileType
<1>2. /\ SubSeq(s, 1, n) \in Seq(Commands) /\ Len(SubSeq(s, 1, n)) = n
      /\ Rest(s, n) \in Seq(Commands)
      /\ SubSeq(s, 1, n) \o Rest(s, n) = s
  BY RestProperties
<1>3. file' = file \o SubSeq(s, 1, n) /\ stream' = Rest(s, n)
  BY DEF Spill, Rest
<1>4. file \in Seq(Commands)
  BY DEF FileType
<1>5. file' \in Seq(Commands) /\ stream' \in Seq(Commands) /\ Len(file') = Len(file) + n
  BY <1>2, <1>3, <1>4, ConcatProperties
<1>6. file' \o stream' = file \o s
  <2>1. \A f, g \in Seq(Commands) : (file \o f) \o g = file \o (f \o g)
    BY <1>4, ConcatAssociative
  <2>2. (file \o SubSeq(s, 1, n)) \o Rest(s, n) = file \o (SubSeq(s, 1, n) \o Rest(s, n))
    BY <1>2, <2>1, Zenon
  <2> QED
    BY <1>2, <1>3, <2>2
<1>7. n = Len(s) => stream' = <<>>
  BY <1>3, RestEnds
<1>8. PICK x \in Seq(Commands) : x = SubSeq(s, 1, n) /\ Len(x) = n
  BY <1>2
<1>9. n > 0 => SubSeq(s, 2, n) = Rest(x, 1)
  <2>1. n > 0 => n \in 1 .. Len(s)
    BY <1>1
  <2> QED
    BY <1>8, <2>1, RestOfPrefix, ZenonT(40)
<1>10. (x = <<>> <=> n = 0) /\ (x # <<>> <=> n > 0)
  BY <1>1, <1>8, EmptySeq
<1>11. Spilled(x)
  <2>1. file' = file \o x
    BY <1>3, <1>8
  <2>2. CASE /\ n = 0 \/ tail = <<>>
             /\ contents' = contents \o SubSeq(s, 1, n)
             /\ UNCHANGED tail
    BY <1>8, <1>10, <2>1, <2>2 DEF Spilled
  <2>3. CASE /\ n > 0 /\ tail # <<>>
             /\ \E r \in Readings : contents' = Append(contents, r) \o SubSeq(s, 2, n)
             /\ tail' = <<>>
    BY <1>9, <1>10, <2>1, <2>3 DEF Spilled
  <2> QED
    BY <2>2, <2>3 DEF Spill
<1>12. contents' \in Seq(Lines) /\ Len(contents') = Len(file')
  BY <1>4, <1>5, <1>8, <1>11, SpilledLength DEF FileType
<1>13. open_line' \in BOOLEAN /\ (open_line' => stream' # <<>>)
  <2>1. open_line' = (inside \/ (n = 0 /\ open_line))
    BY DEF Spill
  <2>2. stream' = <<>> => n = Len(s)
    <3>1. Len(stream') = Len(s) - n
      BY <1>3, RestProperties
    <3> QED
      BY <1>1, <3>1, EmptySeq
  <2>3. s # <<>> => Len(s) # 0
    BY EmptySeq
  <2> QED
    BY <1>1, <2>1, <2>2, <2>3
<1>14. tail' \in {<<>>} \cup {<<r>> : r \in Readings}
  BY <1>11 DEF Spilled, FileType
<1> QED
  BY <1>5, <1>6, <1>7, <1>8, <1>11, <1>12, <1>13, <1>14 DEF FileType

LEMMA SpillSomeKeeps ==
  ASSUME FileType, NEW s \in Seq(Commands), SpillSome(s), failed' \in BOOLEAN,
         open_line => s # <<>>
  PROVE  /\ FileType'
         /\ \E x \in Seq(Commands) : Spilled(x)
         /\ Len(file) <= Len(file')
         /\ file' \o stream' = file \o s
<1>1. PICK n \in 0 .. Len(s) : Spill(s, n, FALSE) \/ (n < Len(s) /\ Spill(s, n, TRUE))
  BY DEF SpillSome
<1>2. /\ FileType' /\ Len(file') = Len(file) + n /\ file' \o stream' = file \o s
      /\ \E x \in Seq(Commands) : Spilled(x)
  BY <1>1, SpillKeeps
<1>3. Len(file) \in Nat /\ n \in Nat
  BY LenProperties DEF FileType
<1> QED
  BY <1>2, <1>3

LEMMA NothingSpilled ==
  ASSUME FileType, UNCHANGED <<file, contents, tail>>
  PROVE  \E x \in Seq(Commands) : Spilled(x)
<1>1. <<>> \in Seq(Commands) /\ file \o <<>> = file /\ contents \o <<>> = contents
  BY EmptySeq, ConcatEmptySeq DEF FileType
<1> QED
  BY <1>1 DEF Spilled

(***************************************************************************)
(* Giving the stream a command: what it takes moves from the buffer to the *)
(* end of what the file and the stream hold.                               *)
(***************************************************************************)
LEMMA WriteCommandKeeps ==
  ASSUME FileType, NEW b \in Seq(Commands), written \in 0 .. Len(b), WriteCommand(b)
  PROVE  /\ FileType'
         /\ written' \in 0 .. Len(b)
         /\ Len(file) <= Len(file')
         /\ \E x \in Seq(Commands) : Spilled(x)
         /\ failed => UNCHANGED fileVars
         /\ ~failed => /\ b[written + 1] \in Commands
                       /\ file' \o stream' = (file \o stream) \o <<b[written + 1]>>
                       /\ (file' \o stream') \o Rest(b, written')
                            = (file \o stream) \o Rest(b, written)
<1>1. Len(b) \in Nat /\ written \in Nat /\ Len(file) \in Nat
  BY LenProperties DEF FileType
<1>2. written' = written + 1 /\ written < Len(b)
  BY DEF WriteCommand
<1>3. written' \in 0 .. Len(b)
  BY <1>1, <1>2
<1>4. CASE failed
  <2>1. UNCHANGED fileVars
    BY <1>4 DEF WriteCommand
  <2>2. FileType' /\ Len(file) <= Len(file')
    BY <1>1, <2>1 DEF FileType, fileVars
  <2>3. \E x \in Seq(Commands) : Spilled(x)
    BY <2>1, NothingSpilled DEF fileVars
  <2> QED
    BY <1>3, <1>4, <2>1, <2>2, <2>3
<1>5. CASE ~failed
  <2> DEFINE c == b[written + 1]
  <2>1. c \in Commands /\ Rest(b, written) = <<c>> \o Rest(b, written')
    BY <1>1, <1>2, RestNext
  <2>2. Rest(b, written') \in Seq(Commands) /\ <<c>> \in Seq(Commands)
    BY <1>3, <2>1, RestProperties
  <2>3. SpillSome(Append(stream, c)) /\ failed' \in BOOLEAN
    BY <1>5 DEF WriteCommand
  <2> HIDE DEF c
  <2>4. file \in Seq(Commands) /\ stream \in Seq(Commands)
    BY DEF FileType
  <2>5. Append(stream, c) \in Seq(Commands) /\ Append(stream, c) = stream \o <<c>>
    BY <2>1, <2>4, AppendProperties, AppendIsConcat
  <2>6. /\ FileType' /\ Len(file) <= Len(file')
        /\ file' \o stream' = file \o (stream \o <<c>>)
        /\ \E x \in Seq(Commands) : Spilled(x)
    <3>1. Append(stream, c) # <<>>
      BY <2>1, <2>4, AppendProperties, EmptySeq
    <3> QED
      BY <2>3, <2>5, <3>1, SpillSomeKeeps
  <2>7. file' \o stream' = (file \o stream) \o <<c>>
    BY <2>2, <2>4, <2>6, Regroup
  <2>8. file \o stream \in Seq(Commands)
    BY <2>4, ConcatProperties
  <2>9. ((file \o stream) \o <<c>>) \o Rest(b, written')
          = (file \o stream) \o (<<c>> \o Rest(b, written'))
    BY <2>2, <2>8, ConcatAssociative, SMTT(40)
  <2>10. (file' \o stream') \o Rest(b, written') = (file \o stream) \o Rest(b, written)
    BY <2>1, <2>7, <2>9
  <2> QED
    BY <1>3, <1>5, <2>1, <2>6, <2>7, <2>10 DEF c
<1> QED
  BY <1>4, <1>5 DEF FileType

(***************************************************************************)
(* The flush loses nothing of what the stream holds, and leaves it empty   *)
(* unless it fails.                                                        *)
(***************************************************************************)
LEMMA FlushStreamKeeps ==
  ASSUME FileType, NEW b \in Seq(Commands), FlushStream(b)
  PROVE  /\ FileType'
         /\ written = Len(b) /\ written' = 0
         /\ Len(file) <= Len(file')
         /\ \E x \in Seq(Commands) : Spilled(x)
         /\ failed => failed'
         /\ ~failed' => stream' = <<>>
         /\ file' \o stream' = file \o stream
<1>1. stream \in Seq(Commands) /\ Len(stream) \in 0 .. Len(stream) /\ Len(stream) \in Nat
      /\ Len(file) \in Nat /\ failed \in BOOLEAN /\ (open_line => stream # <<>>)
  BY LenProperties DEF FileType
<1>2. CASE Spill(stream, Len(stream), FALSE) /\ UNCHANGED failed
  <2>1. /\ FileType' /\ Len(file') = Len(file) + Len(stream)
        /\ file' \o stream' = file \o stream /\ stream' = <<>>
        /\ \E x \in Seq(Commands) : Spilled(x)
    BY <1>1, <1>2, SpillKeeps
  <2> QED
    BY <1>1, <1>2, <2>1 DEF FlushStream
<1>3. CASE SpillSome(stream) /\ failed' = TRUE
  BY <1>1, <1>3, SpillSomeKeeps DEF FlushStream
<1> QED
  BY <1>2, <1>3 DEF FlushStream
-----------------------------------------------------------------------------
LEMMA FragmentLeft ==
  ASSUME TypeOK, LeaveFragment
  PROVE  open_line' = FALSE /\ tail' \in {<<>>} \cup {<<r>> : r \in Readings}
  BY DEF TypeOK, LeaveFragment

LEMMA InitTypeInv == Init => TypeInv
<1> SUFFICES ASSUME Init PROVE TypeInv
  OBVIOUS
<1>1. <<>> \in Seq(Commands) /\ Len(<<>>) = 0
  BY EmptySeq
<1>2. 0 \in 0 .. Len(<<>>) /\ <<>> \in Seq(Commands \cup Readings)
  BY <1>1, EmptySeq
<1>3. TypeOK
  BY <1>1, <1>2, Zenon DEF Init, TypeOK
<1> QED
  BY <1>3 DEF Init, TypeInv, ControlInv

LEMMA NextTypeInv == TypeInv /\ [Next]_vars => TypeInv'
<1> SUFFICES ASSUME TypeInv, [Next]_vars PROVE TypeInv'
  OBVIOUS
<1> USE DEF TypeInv
<1>1. /\ <<>> \in Seq(Commands) /\ Len(<<>>) = 0 /\ 0 \in 0 .. 0
      /\ Len(active_buffer) \in Nat /\ Len(flush_buffer) \in Nat
  BY EmptySeq, LenProperties DEF TypeOK
<1>2. FileType
  BY DEF TypeOK, FileType, ControlInv, Lines
<1>3. ASSUME NEW c \in Commands, Log(c) PROVE TypeInv'
  <2>1. Append(active_buffer, c) \in Seq(Commands) /\ Append(logged, c) \in Seq(Commands)
    BY AppendProperties DEF TypeOK
  <2>2. main = "up"
    BY <1>3 DEF Log, ControlInv
  <2> QED
    BY <1>3, <2>1, <2>2 DEF TypeOK, ControlInv, Log, fileVars
<1>4. ASSUME LoopTest PROVE TypeInv'
  BY <1>4 DEF TypeOK, ControlInv, LoopTest, bufferVars, fileVars, historyVars
<1>5. ASSUME WaitEnds PROVE TypeInv'
  BY <1>5 DEF TypeOK, ControlInv, WaitEnds, bufferVars, fileVars, historyVars
<1>6. ASSUME Swap PROVE TypeInv'
  <2>1. main \notin {"flush", "closed", "killed"} /\ flush_buffer = <<>> /\ written = 0
    BY <1>6 DEF Swap, ControlInv
  <2> QED
    BY <1>1, <1>6, <2>1 DEF TypeOK, ControlInv, Swap, fileVars, historyVars
<1>7. ASSUME FlusherWrites PROVE TypeInv'
  <2>1. main \notin {"flush", "closed", "killed"} /\ written \in 0 .. Len(flush_buffer)
    BY <1>7 DEF FlusherWrites, TypeOK, ControlInv
  <2>2. CASE WriteCommand(flush_buffer) /\ UNCHANGED <<flush_buffer, flusher>>
    <3>1. FileType' /\ written' \in 0 .. Len(flush_buffer)
      BY <1>2, <2>1, <2>2, WriteCommandKeeps DEF TypeOK
    <3> QED
      BY <1>7, <2>1, <2>2, <3>1
      DEF TypeOK, ControlInv, FileType, Lines, FlusherWrites, historyVars
  <2>3. CASE FlushStream(flush_buffer) /\ flush_buffer' = <<>> /\ flusher' = "test"
    <3>1. FileType' /\ written' = 0 /\ (~failed' => stream' = <<>>)
      BY <1>2, <2>3, FlushStreamKeeps DEF TypeOK
    <3> QED
      BY <1>1, <1>7, <2>1, <2>3, <3>1
      DEF TypeOK, ControlInv, FileType, Lines, FlusherWrites, historyVars
  <2> QED
    BY <1>7, <2>2, <2>3 DEF FlusherWrites
<1>8. ASSUME BeginShutdown PROVE TypeInv'
  BY <1>8 DEF TypeOK, ControlInv, BeginShutdown, bufferVars, fileVars, historyVars
<1>9. ASSUME Join PROVE TypeInv'
  <2>1. written = 0 /\ written \in 0 .. Len(active_buffer)
    BY <1>1, <1>9 DEF Join, ControlInv
  <2> QED
    BY <1>9, <2>1 DEF TypeOK, ControlInv, Join, bufferVars, fileVars, historyVars
<1>10. ASSUME MainWrites PROVE TypeInv'
  <2>1. flusher = "done" /\ flush_buffer = <<>> /\ written \in 0 .. Len(active_buffer)
    BY <1>10 DEF MainWrites, TypeOK, ControlInv
  <2>2. CASE WriteCommand(active_buffer) /\ UNCHANGED <<active_buffer, main>>
    <3>1. FileType' /\ written' \in 0 .. Len(active_buffer)
      BY <1>2, <2>1, <2>2, WriteCommandKeeps DEF TypeOK
    <3> QED
      BY <1>10, <2>1, <2>2, <3>1 DEF TypeOK, ControlInv, FileType, Lines, MainWrites, historyVars
  <2>3. CASE FlushStream(active_buffer) /\ active_buffer' = <<>> /\ main' = "closed"
    <3>1. FileType' /\ written' = 0 /\ (~failed' => stream' = <<>>)
      BY <1>2, <2>3, FlushStreamKeeps DEF TypeOK
    <3> QED
      BY <1>1, <1>10, <2>1, <2>3, <3>1
      DEF TypeOK, ControlInv, FileType, Lines, MainWrites, historyVars
  <2> QED
    BY <1>10, <2>2, <2>3 DEF MainWrites
<1>11. ASSUME Kill PROVE TypeInv'
  <2>1. open_line' = FALSE /\ tail' \in {<<>>} \cup {<<r>> : r \in Readings}
    BY <1>11, FragmentLeft DEF Kill
  <2> QED
    BY <1>1, <1>11, <2>1 DEF TypeOK, ControlInv, Kill, historyVars
<1>12. ASSUME Restart PROVE TypeInv'
  <2>1. written = 0 /\ active_buffer = <<>> /\ flush_buffer = <<>>
    BY <1>12 DEF ControlInv, Restart
  <2>2. written' \in 0 .. Len(IF main' = "flush" THEN active_buffer' ELSE flush_buffer')
    BY <1>1, <1>12, <2>1 DEF Restart, bufferVars
  <2>3. TypeOK'
    <3>1. /\ open_line' = FALSE /\ tail' \in {<<>>} \cup {<<r>> : r \in Readings}
          /\ starts' \in Nat
      <4>1. LeaveFragment /\ starts \in Nat /\ starts' = starts + 1
        BY <1>12 DEF TypeOK, Restart
      <4> QED
        BY <4>1, FragmentLeft
    <3>2. /\ running' = TRUE /\ main' = "up" /\ flusher' = "test" /\ base' = file
          /\ logged' = <<>> /\ stream' = <<>> /\ failed' = FALSE
          /\ UNCHANGED <<active_buffer, flush_buffer, file, contents>>
      BY <1>12 DEF Restart, bufferVars
    <3> QED
      BY <1>1, <2>2, <3>1, <3>2, Zenon DEF TypeOK
  <2> QED
    BY <1>12, <2>1, <2>3 DEF ControlInv, Restart, LeaveFragment, bufferVars
<1>13. CASE UNCHANGED vars
  BY <1>13 DEF TypeOK, ControlInv, vars, bufferVars, fileVars, historyVars
<1> QED
  BY <1>3, <1>4, <1>5, <1>6, <1>7, <1>8, <1>9, <1>10, <1>11, <1>12, <1>13
  DEF Next, FlusherStep, ShutdownStep, Terminated

(***************************************************************************)
(* The buffers, the flags, the stream and the file have their types in     *)
(* every reachable state; the write in progress stays within the buffer it *)
(* is writing, whichever thread writes it.                                 *)
(***************************************************************************)
THEOREM TypeCorrect == Spec => []TypeOK
<1>1. TypeInv => TypeOK
  BY DEF TypeInv
<1> QED
  BY <1>1, InitTypeInv, NextTypeInv, PTL DEF Spec
-----------------------------------------------------------------------------
(***************************************************************************)
(* What a step does to the log as a whole.  A step of the flush thread or  *)
(* of shutdown() keeps it, unless a write fails or the process is killed:  *)
(* then a suffix of it goes.                                               *)
(***************************************************************************)
Whole == main # "killed" /\ ~failed

Remaining == IF main = "killed" THEN file
             ELSE (file \o stream) \o (IF failed THEN <<>> ELSE Pending)

Keeps == /\ Remaining' = Remaining /\ (Whole' => Whole)
         /\ UNCHANGED <<base, logged>>

Loses == /\ \E r \in Seq(Commands) : Remaining = Remaining' \o r
         /\ ~Whole'
         /\ UNCHANGED <<base, logged>>

Extends(c) == /\ Remaining' = IF Whole THEN Append(Remaining, c) ELSE Remaining
              /\ Whole' <=> Whole
              /\ logged' = Append(logged, c)
              /\ UNCHANGED <<base, file>>

BeginsAgain == /\ Remaining' = file /\ base' = file /\ logged' = <<>>
               /\ UNCHANGED file

LEMMA PendingType ==
  /\ TypeInv => Pending \in Seq(Commands)
  /\ TypeInv' => Pending' \in Seq(Commands)
<1>1. ASSUME NEW b \in Seq(Commands), NEW a \in Seq(Commands), NEW k \in 0 .. Len(b)
      PROVE  Rest(b, k) \in Seq(Commands) /\ Rest(b, k) \o a \in Seq(Commands)
  BY RestProperties, ConcatProperties
<1>2. TypeInv => Pending \in Seq(Commands)
  BY <1>1 DEF TypeInv, TypeOK, Pending, Rest
<1>3. TypeInv' => Pending' \in Seq(Commands)
  BY <1>1 DEF TypeInv, TypeOK, Pending, Rest
<1> QED
  BY <1>2, <1>3

(* The file is where the log begins. *)
LEMMA FileIsFirst ==
  /\ TypeInv => /\ Remaining \in Seq(Commands)
                /\ \E r \in Seq(Commands) : Remaining = file \o r
  /\ TypeInv' => /\ Remaining' \in Seq(Commands)
                 /\ \E r \in Seq(Commands) : Remaining' = file' \o r
<1>1. ASSUME NEW f \in Seq(Commands), NEW s \in Seq(Commands), NEW p \in Seq(Commands)
      PROVE  /\ (f \o s) \o p \in Seq(Commands)
             /\ \E r \in Seq(Commands) : (f \o s) \o p = f \o r
  <2>1. f \o s \in Seq(Commands) /\ s \o p \in Seq(Commands)
    BY ConcatProperties
  <2>2. (f \o s) \o p = f \o (s \o p)
    BY ConcatAssociative
  <2> QED
    BY <2>1, <2>2, ConcatProperties
<1>2. \A f \in Seq(Commands) : \E r \in Seq(Commands) : f = f \o r
  BY ConcatEmptySeq, EmptySeq
<1>3. <<>> \in Seq(Commands)
  BY EmptySeq
<1>4. ASSUME TypeInv
      PROVE  /\ Remaining \in Seq(Commands)
             /\ \E r \in Seq(Commands) : Remaining = file \o r
  <2>1. PICK p \in Seq(Commands) : p = IF failed THEN <<>> ELSE Pending
    BY <1>3, <1>4, PendingType
  <2>2. file \in Seq(Commands) /\ stream \in Seq(Commands)
    BY <1>4 DEF TypeInv, TypeOK
  <2>3. CASE main = "killed"
    <3>1. Remaining = file
      BY <2>3 DEF Remaining
    <3> QED
      BY <1>2, <2>2, <3>1, Zenon
  <2>4. CASE main # "killed"
    <3>1. Remaining = (file \o stream) \o p
      BY <2>1, <2>4 DEF Remaining
    <3>2. /\ (file \o stream) \o p \in Seq(Commands)
          /\ \E r \in Seq(Commands) : (file \o stream) \o p = file \o r
      BY <1>1, <2>2
    <3> QED
      BY <3>1, <3>2
  <2> QED
    BY <2>3, <2>4
<1>5. ASSUME TypeInv'
      PROVE  /\ Remaining' \in Seq(Commands)
             /\ \E r \in Seq(Commands) : Remaining' = file' \o r
  <2>1. PICK p \in Seq(Commands) : p = IF failed' THEN <<>> ELSE Pending'
    BY <1>3, <1>5, PendingType
  <2>2. file' \in Seq(Commands) /\ stream' \in Seq(Commands)
    BY <1>5 DEF TypeInv, TypeOK
  <2>3. CASE main' = "killed"
    <3>1. Remaining' = file'
      BY <2>3 DEF Remaining
    <3> QED
      BY <1>2, <2>2, <3>1, Zenon
  <2>4. CASE main' # "killed"
    <3>1. Remaining' = (file' \o stream') \o p
      BY <2>1, <2>4 DEF Remaining
    <3>2. /\ (file' \o stream') \o p \in Seq(Commands)
          /\ \E r \in Seq(Commands) : (file' \o stream') \o p = file' \o r
      BY <1>1, <2>2
    <3> QED
      BY <3>1, <3>2
  <2> QED
    BY <2>3, <2>4
<1> QED
  BY <1>4, <1>5

LEMMA LogExtends ==
  ASSUME TypeInv, NEW c \in Commands, Log(c)
  PROVE  Extends(c)
<1>1. main = "up" /\ main' = main
  BY DEF Log, TypeInv, ControlInv
<1>2. UNCHANGED <<file, stream, failed, base, written, flush_buffer>>
      /\ logged' = Append(logged, c) /\ active_buffer' = Append(active_buffer, c)
  BY DEF Log, fileVars
<1>3. CASE failed
  BY <1>1, <1>2, <1>3 DEF Extends, Remaining, Whole
<1>4. CASE ~failed
  <2> DEFINE k == file \o stream
             b == Rest(flush_buffer, written)
  <2>1. /\ k \in Seq(Commands) /\ b \in Seq(Commands) /\ active_buffer \in Seq(Commands)
        /\ <<c>> \in Seq(Commands)
    BY <1>1, RestProperties, ConcatProperties DEF TypeInv, TypeOK
  <2>2. Remaining = k \o (b \o active_buffer)
    BY <1>1, <1>4 DEF Remaining, Pending, Rest
  <2>3. Remaining' = k \o (b \o Append(active_buffer, c))
    BY <1>1, <1>2, <1>4 DEF Remaining, Pending, Rest
  <2> HIDE DEF k, b
  <2>4. Append(active_buffer, c) = active_buffer \o <<c>>
    BY <2>1, AppendIsConcat
  <2>5. b \o (active_buffer \o <<c>>) = (b \o active_buffer) \o <<c>>
        /\ b \o active_buffer \in Seq(Commands)
    BY <2>1, ConcatAssociative, ConcatProperties
  <2>6. k \o ((b \o active_buffer) \o <<c>>) = (k \o (b \o active_buffer)) \o <<c>>
        /\ k \o (b \o active_buffer) \in Seq(Commands)
    BY <2>1, <2>5, ConcatAssociative, ConcatProperties
  <2>7. Append(k \o (b \o active_buffer), c) = (k \o (b \o active_buffer)) \o <<c>>
    BY <2>6, AppendIsConcat
  <2>8. Remaining' = Append(Remaining, c)
    BY <2>2, <2>3, <2>4, <2>5, <2>6, <2>7
  <2> QED
    BY <1>1, <1>2, <1>4, <2>8 DEF Extends, Whole
<1> QED
  BY <1>3, <1>4

(* The log while buffer b is written and t waits behind it. *)
WithBuffer(b, k, t) == (file \o stream) \o (IF failed THEN <<>> ELSE Rest(b, k) \o t)

LEMMA WriteMoves ==
  ASSUME FileType, NEW b \in Seq(Commands), NEW t \in Seq(Commands),
         written \in 0 .. Len(b), WriteCommand(b)
  PROVE  \/ /\ WithBuffer(b, written, t)' = WithBuffer(b, written, t)
            /\ failed' \in BOOLEAN /\ (failed => failed')
         \/ /\ failed'
            /\ \E r \in Seq(Commands) : WithBuffer(b, written, t) = WithBuffer(b, written, t)' \o r
<1>1. CASE failed
  <2>1. UNCHANGED fileVars
    BY <1>1, WriteCommandKeeps
  <2> QED
    BY <1>1, <2>1 DEF WithBuffer, fileVars
<1>2. CASE ~failed
  <2> DEFINE c == b[written + 1]
             k == file \o stream
             next == Rest(b, written')
  <2>1. /\ c \in Commands /\ written' \in 0 .. Len(b) /\ FileType'
        /\ file' \o stream' = k \o <<c>>
        /\ (file' \o stream') \o next = k \o Rest(b, written)
    BY <1>2, WriteCommandKeeps
  <2>2. /\ k \in Seq(Commands) /\ next \in Seq(Commands) /\ Rest(b, written) \in Seq(Commands)
        /\ <<c>> \in Seq(Commands)
    <3>1. file \in Seq(Commands) /\ stream \in Seq(Commands)
      BY DEF FileType
    <3>2. k \in Seq(Commands) /\ <<c>> \in Seq(Commands)
      BY <2>1, <3>1, ConcatProperties
    <3> QED
      BY <2>1, <3>2, RestProperties
  <2>3. PICK kk \in Seq(Commands) : kk = file' \o stream'
    BY <2>1, <2>2, ConcatProperties
  <2>4. WithBuffer(b, written, t) = k \o (Rest(b, written) \o t)
    BY <1>2 DEF WithBuffer
  <2> HIDE DEF k, next, c
  <2>5. k \o (Rest(b, written) \o t) = kk \o (next \o t)
    <3>1. \A x, y \in Seq(Commands) : (x \o y) \o t = x \o (y \o t)
      BY ConcatAssociative, SMTT(40)
    <3>2. (k \o Rest(b, written)) \o t = (kk \o next) \o t
      BY <2>1, <2>3
    <3>3. (k \o Rest(b, written)) \o t = k \o (Rest(b, written) \o t)
      BY <2>2, <3>1, Zenon
    <3>4. (kk \o next) \o t = kk \o (next \o t)
      BY <2>2, <2>3, <3>1, Zenon
    <3> QED
      BY <3>2, <3>3, <3>4
  <2>6. CASE failed'
    <3>1. WithBuffer(b, written, t)' = kk
      BY <2>3, <2>6, ConcatEmptySeq DEF WithBuffer
    <3>2. next \o t \in Seq(Commands)
      BY <2>2, ConcatProperties
    <3> QED
      BY <2>4, <2>5, <2>6, <3>1, <3>2
  <2>7. CASE ~failed'
    <3>1. WithBuffer(b, written, t)' = kk \o (next \o t)
      BY <2>3, <2>7 DEF WithBuffer, next
    <3> QED
      BY <1>2, <2>1, <2>4, <2>5, <3>1 DEF FileType
  <2> QED
    BY <2>6, <2>7
<1> QED
  BY <1>1, <1>2 DEF FileType

LEMMA FlushMoves ==
  ASSUME FileType, NEW b \in Seq(Commands), NEW t \in Seq(Commands), FlushStream(b)
  PROVE  \/ /\ WithBuffer(<<>>, 0, t)' = WithBuffer(b, written, t)
            /\ failed' \in BOOLEAN /\ (failed => failed')
         \/ /\ failed'
            /\ \E r \in Seq(Commands) :
                 WithBuffer(b, written, t) = WithBuffer(<<>>, 0, t)' \o r
<1>1. /\ FileType' /\ written = Len(b) /\ (failed => failed')
      /\ file' \o stream' = file \o stream
  BY FlushStreamKeeps
<1>2. Rest(b, written) = <<>> /\ Rest(<<>>, 0) = <<>>
  BY <1>1, RestEnds, EmptySeq
<1>3. <<>> \o t = t
  BY ConcatEmptySeq
<1>4. PICK k \in Seq(Commands) : k = file \o stream
  BY ConcatProperties DEF FileType
<1>5. k \o <<>> = k
  BY ConcatEmptySeq
<1>6. WithBuffer(b, written, t) = k \o (IF failed THEN <<>> ELSE t)
  BY <1>2, <1>3, <1>4 DEF WithBuffer
<1>7. WithBuffer(<<>>, 0, t)' = k \o (IF failed' THEN <<>> ELSE t)
  BY <1>1, <1>2, <1>3, <1>4 DEF WithBuffer
<1> QED
  BY <1>1, <1>5, <1>6, <1>7, EmptySeq DEF FileType

LEMMA FlusherKeepsOrLoses == ASSUME TypeInv, FlusherWrites PROVE Keeps \/ Loses
<1>1. main \notin {"flush", "closed", "killed"} /\ written \in 0 .. Len(flush_buffer)
  BY DEF FlusherWrites, TypeInv, TypeOK, ControlInv
<1>2. UNCHANGED <<running, active_buffer, main, starts, base, logged>>
  BY DEF FlusherWrites, historyVars
<1>3. FileType /\ flush_buffer \in Seq(Commands) /\ active_buffer \in Seq(Commands)
  BY DEF TypeInv, TypeOK, FileType, ControlInv, Lines
<1>4. Remaining = (file \o stream) \o (IF failed THEN <<>>
                                        ELSE Rest(flush_buffer, written) \o active_buffer)
  BY <1>1 DEF Remaining, Pending, Rest
<1>5. Remaining' = (file' \o stream') \o (IF failed' THEN <<>>
                                           ELSE Rest(flush_buffer', written') \o active_buffer)
  BY <1>1, <1>2 DEF Remaining, Pending, Rest
<1>6. CASE WriteCommand(flush_buffer) /\ UNCHANGED <<flush_buffer, flusher>>
  BY <1>1, <1>2, <1>3, <1>4, <1>5, <1>6, WriteMoves DEF WithBuffer, Keeps, Loses, Whole
<1>7. CASE FlushStream(flush_buffer) /\ flush_buffer' = <<>> /\ flusher' = "test"
  <2>1. written' = 0
    BY <1>7 DEF FlushStream
  <2> QED
    BY <1>1, <1>2, <1>3, <1>4, <1>5, <1>7, <2>1, FlushMoves DEF WithBuffer, Keeps, Loses, Whole
<1> QED
  BY <1>6, <1>7 DEF FlusherWrites

LEMMA MainKeepsOrLoses == ASSUME TypeInv, MainWrites PROVE Keeps \/ Loses
<1>1. main = "flush" /\ flush_buffer = <<>> /\ written \in 0 .. Len(active_buffer)
  BY DEF MainWrites, TypeInv, TypeOK, ControlInv
<1>2. UNCHANGED <<running, flush_buffer, starts, base, logged>>
  BY DEF MainWrites, historyVars
<1>3. FileType /\ active_buffer \in Seq(Commands) /\ <<>> \in Seq(Commands)
  BY EmptySeq DEF TypeInv, TypeOK, FileType, ControlInv, Lines
<1>4. Rest(active_buffer, written) \in Seq(Commands)
  BY <1>1, <1>3, RestProperties
<1>5. Rest(active_buffer, written) \o <<>> = Rest(active_buffer, written)
  BY <1>4, ConcatEmptySeq
<1>6. Remaining = (file \o stream) \o (IF failed THEN <<>>
                                        ELSE Rest(active_buffer, written) \o <<>>)
  BY <1>1, <1>5 DEF Remaining, Pending, Rest
<1>7. CASE WriteCommand(active_buffer) /\ UNCHANGED <<active_buffer, main>>
  <2>1. written' \in 0 .. Len(active_buffer)
    BY <1>1, <1>3, <1>7, WriteCommandKeeps
  <2>2. Rest(active_buffer, written') \in Seq(Commands)
    BY <1>3, <2>1, RestProperties
  <2>3. Rest(active_buffer, written') \o <<>> = Rest(active_buffer, written')
    BY <2>2, ConcatEmptySeq
  <2>4. Remaining' = (file' \o stream') \o (IF failed' THEN <<>>
                                             ELSE Rest(active_buffer, written') \o <<>>)
    BY <1>1, <1>7, <2>3 DEF Remaining, Pending, Rest
  <2> QED
    BY <1>1, <1>2, <1>3, <1>6, <1>7, <2>4, WriteMoves DEF WithBuffer, Keeps, Loses, Whole
<1>8. CASE FlushStream(active_buffer) /\ active_buffer' = <<>> /\ main' = "closed"
  <2>1. written' = 0
    BY <1>8 DEF FlushStream
  <2>2. Remaining' = (file' \o stream') \o (IF failed' THEN <<>> ELSE Rest(<<>>, 0) \o <<>>)
    BY <1>1, <1>2, <1>8, <2>1 DEF Remaining, Pending, Rest
  <2> QED
    BY <1>1, <1>2, <1>3, <1>6, <1>8, <2>2, FlushMoves DEF WithBuffer, Keeps, Loses, Whole
<1> QED
  BY <1>7, <1>8 DEF MainWrites

LEMMA SwapKeeps == ASSUME TypeInv, Swap PROVE Keeps
<1>1. main \notin {"flush", "closed", "killed"} /\ flush_buffer = <<>> /\ written = 0
  BY DEF Swap, TypeInv, ControlInv
<1>2. /\ active_buffer' = <<>> /\ flush_buffer' = active_buffer
      /\ UNCHANGED <<running, main, written, stream, failed, file, base, logged>>
  BY <1>1 DEF Swap, fileVars, historyVars
<1>3. active_buffer \in Seq(Commands) /\ <<>> \in Seq(Commands)
  BY EmptySeq DEF TypeInv, TypeOK
<1>4. Rest(<<>>, 0) \o active_buffer = active_buffer
      /\ Rest(active_buffer, 0) \o <<>> = active_buffer
  BY <1>3, RestEnds, ConcatEmptySeq
<1>5. Pending' = Pending
  BY <1>1, <1>2, <1>4 DEF Pending, Rest
<1> QED
  BY <1>1, <1>2, <1>5 DEF Keeps, Remaining, Whole

LEMMA JoinKeeps == ASSUME TypeInv, Join PROVE Keeps
<1>1. main = "join" /\ flush_buffer = <<>> /\ written = 0
  BY DEF Join, TypeInv, ControlInv
<1>2. /\ main' = IF active_buffer = <<>> THEN "closed" ELSE "flush"
      /\ UNCHANGED <<active_buffer, flush_buffer, written, stream, failed, file, base, logged>>
  BY DEF Join, bufferVars, fileVars, historyVars
<1>3. active_buffer \in Seq(Commands) /\ <<>> \in Seq(Commands)
  BY EmptySeq DEF TypeInv, TypeOK
<1>4. Rest(<<>>, 0) \o active_buffer = active_buffer /\ Rest(active_buffer, 0) = active_buffer
  BY <1>3, RestEnds, ConcatEmptySeq
<1>5. Pending = active_buffer /\ Pending' = active_buffer
  BY <1>1, <1>2, <1>4 DEF Pending, Rest
<1> QED
  BY <1>1, <1>2, <1>5 DEF Keeps, Remaining, Whole

LEMMA KillLoses == ASSUME TypeInv, Kill PROVE Loses
<1>1. \E r \in Seq(Commands) : Remaining = file \o r
  BY FileIsFirst
<1>2. Remaining' = file /\ ~Whole' /\ UNCHANGED <<base, logged>>
  BY DEF Kill, Remaining, Whole, historyVars
<1> QED
  BY <1>1, <1>2 DEF Loses

LEMMA RestartBeginsAgain == ASSUME TypeInv, Restart PROVE BeginsAgain
<1>1. active_buffer = <<>> /\ flush_buffer = <<>> /\ written = 0
  BY DEF Restart, TypeInv, ControlInv
<1>2. /\ main' = "up" /\ failed' = FALSE /\ stream' = <<>> /\ base' = file /\ logged' = <<>>
      /\ UNCHANGED <<active_buffer, flush_buffer, written, file>>
  BY DEF Restart, bufferVars
<1>3. file \in Seq(Commands) /\ <<>> \in Seq(Commands)
  BY EmptySeq DEF TypeInv, TypeOK
<1>4. Rest(<<>>, 0) \o <<>> = <<>> /\ file \o <<>> = file
  BY <1>3, RestEnds, ConcatEmptySeq
<1>5. Pending' = <<>>
  BY <1>1, <1>2, <1>4 DEF Pending, Rest
<1> QED
  BY <1>2, <1>4, <1>5 DEF BeginsAgain, Remaining

(***************************************************************************)
(* Every step keeps the log, extends it, loses a suffix of it or begins a  *)
(* new run with it; the file only grows.                                   *)
(***************************************************************************)
LEMMA StepOfLog ==
  ASSUME TypeInv, [Next]_vars
  PROVE  /\ Len(file) <= Len(file')
         /\ Keeps \/ Loses \/ (\E c \in Commands : Extends(c)) \/ BeginsAgain
<1>1. Len(file) \in Nat /\ FileType
      /\ flush_buffer \in Seq(Commands) /\ active_buffer \in Seq(Commands)
  BY LenProperties DEF TypeInv, TypeOK, FileType, ControlInv, Lines
<1>2. ASSUME NEW c \in Commands, Log(c)
      PROVE  Extends(c) /\ Len(file) <= Len(file')
  BY <1>1, <1>2, LogExtends DEF Log, fileVars
<1>3. ASSUME LoopTest \/ WaitEnds PROVE Keeps /\ Len(file) <= Len(file')
  BY <1>1, <1>3
  DEF LoopTest, WaitEnds, Keeps, Remaining, Pending, Whole, bufferVars, fileVars, historyVars
<1>4. ASSUME Swap PROVE Keeps /\ Len(file) <= Len(file')
  BY <1>1, <1>4, SwapKeeps DEF Swap, fileVars
<1>5. ASSUME FlusherWrites PROVE (Keeps \/ Loses) /\ Len(file) <= Len(file')
  <2>1. written \in 0 .. Len(flush_buffer)
    BY <1>5 DEF FlusherWrites, TypeInv, TypeOK, ControlInv
  <2>2. Len(file) <= Len(file')
    BY <1>1, <1>5, <2>1, WriteCommandKeeps, FlushStreamKeeps DEF FlusherWrites
  <2> QED
    BY <1>5, <2>2, FlusherKeepsOrLoses
<1>6. ASSUME BeginShutdown PROVE Keeps /\ Len(file) <= Len(file')
  BY <1>1, <1>6
  DEF BeginShutdown, Keeps, Remaining, Pending, Whole, bufferVars, fileVars, historyVars
<1>7. ASSUME Join PROVE Keeps /\ Len(file) <= Len(file')
  BY <1>1, <1>7, JoinKeeps DEF Join, fileVars
<1>8. ASSUME MainWrites PROVE (Keeps \/ Loses) /\ Len(file) <= Len(file')
  <2>1. written \in 0 .. Len(active_buffer)
    BY <1>8 DEF MainWrites, TypeInv, TypeOK
  <2>2. Len(file) <= Len(file')
    BY <1>1, <1>8, <2>1, WriteCommandKeeps, FlushStreamKeeps DEF MainWrites
  <2> QED
    BY <1>8, <2>2, MainKeepsOrLoses
<1>9. ASSUME Kill PROVE Loses /\ Len(file) <= Len(file')
  <2>1. Loses
    BY <1>9, KillLoses
  <2>2. file' = file
    BY <1>9 DEF Kill
  <2> QED
    BY <1>1, <2>1, <2>2
<1>10. ASSUME Restart PROVE BeginsAgain /\ Len(file) <= Len(file')
  <2>1. BeginsAgain
    BY <1>10, RestartBeginsAgain
  <2>2. file' = file
    BY <1>10 DEF Restart
  <2> QED
    BY <1>1, <2>1, <2>2
<1>11. CASE UNCHANGED vars
  BY <1>1, <1>11
  DEF Keeps, Remaining, Pending, Whole, vars, bufferVars, fileVars, historyVars
<1> QED
  BY <1>2, <1>3, <1>4, <1>5, <1>6, <1>7, <1>8, <1>9, <1>10, <1>11
  DEF Next, FlusherStep, ShutdownStep, Terminated
-----------------------------------------------------------------------------
(***************************************************************************)
(* While nothing failed the log is what was replayed and then logged; after*)
(* a failure or a kill it is where that begins.                            *)
(***************************************************************************)
LogInv == /\ Whole => Remaining = base \o logged
          /\ \E r \in Seq(Commands) : base \o logged = Remaining \o r

OrderInv == TypeInv /\ LogInv

LEMMA InitOrderInv == Init => OrderInv
<1> SUFFICES ASSUME Init PROVE OrderInv
  OBVIOUS
<1>1. TypeInv
  BY InitTypeInv
<1>2. <<>> \in Seq(Commands) /\ <<>> \o <<>> = <<>> /\ Rest(<<>>, 0) = <<>>
  BY EmptySeq, ConcatEmptySeq, RestEnds
<1>3. Pending = <<>>
  BY <1>2 DEF Init, Pending, Rest
<1>4. Remaining = <<>> /\ base \o logged = <<>>
  BY <1>2, <1>3 DEF Init, Remaining
<1> QED
  BY <1>1, <1>2, <1>4 DEF OrderInv, LogInv

LEMMA NextOrderInv == OrderInv /\ [Next]_vars => OrderInv'
<1> SUFFICES ASSUME OrderInv, [Next]_vars PROVE OrderInv'
  OBVIOUS
<1>1. TypeInv /\ TypeInv' /\ LogInv
  BY NextTypeInv DEF OrderInv
<1>2. /\ base \in Seq(Commands) /\ logged \in Seq(Commands)
      /\ Remaining \in Seq(Commands) /\ Remaining' \in Seq(Commands)
      /\ file \in Seq(Commands) /\ <<>> \in Seq(Commands)
  BY <1>1, FileIsFirst, EmptySeq DEF TypeInv, TypeOK
<1>3. PICK r \in Seq(Commands) : base \o logged = Remaining \o r
  BY <1>1 DEF LogInv
<1> r \in Seq(Commands)
  BY <1>3
<1>4. ASSUME Keeps PROVE LogInv'
  BY <1>1, <1>4 DEF LogInv, Keeps
<1>5. ASSUME Loses PROVE LogInv'
  <2>1. PICK q \in Seq(Commands) : Remaining = Remaining' \o q
    BY <1>5 DEF Loses
  <2> q \in Seq(Commands)
    BY <2>1
  <2>2. (Remaining' \o q) \o r = Remaining' \o (q \o r) /\ q \o r \in Seq(Commands)
    <3>1. \A x \in Seq(Commands) :
            (x \o q) \o r = x \o (q \o r) /\ q \o r \in Seq(Commands)
      BY Regroup
    <3> QED
      BY <1>2, <3>1, Zenon
  <2>3. base' \o logged' = Remaining' \o (q \o r)
    BY <1>3, <1>5, <2>1, <2>2 DEF Loses
  <2> QED
    BY <1>5, <2>2, <2>3 DEF LogInv, Loses
<1>6. ASSUME NEW c \in Commands, Extends(c) PROVE LogInv'
  <2>1. base' = base /\ logged' = Append(logged, c)
    BY <1>6 DEF Extends
  <2>2. Append(logged, c) = logged \o <<c>> /\ <<c>> \in Seq(Commands)
    BY <1>2, AppendIsConcat
  <2>3. base' \o logged' = (base \o logged) \o <<c>>
    BY <1>2, <2>1, <2>2, ConcatAssociative, SMTT(40)
  <2>4. CASE Whole
    <3>1. Remaining' = Append(Remaining, c) /\ Remaining = base \o logged
      BY <1>1, <1>6, <2>4 DEF Extends, LogInv
    <3>2. Append(Remaining, c) = Remaining \o <<c>>
      BY <1>2, AppendIsConcat
    <3>3. base' \o logged' = Remaining'
      BY <2>3, <3>1, <3>2
    <3>4. Remaining' = Remaining' \o <<>>
      BY <1>2, ConcatEmptySeq
    <3> QED
      BY <1>2, <3>3, <3>4 DEF LogInv
  <2>5. CASE ~Whole
    <3>1. Remaining' = Remaining /\ ~Whole'
      BY <1>6, <2>5 DEF Extends
    <3>2. (Remaining \o r) \o <<c>> = Remaining \o (r \o <<c>>) /\ r \o <<c>> \in Seq(Commands)
      <4>1. \A x, y \in Seq(Commands) :
              (x \o r) \o y = x \o (r \o y) /\ r \o y \in Seq(Commands)
        BY Regroup
      <4> QED
        BY <1>2, <2>2, <4>1, Zenon
    <3> QED
      BY <1>3, <2>3, <3>1, <3>2 DEF LogInv
  <2> QED
    BY <2>4, <2>5
<1>7. ASSUME BeginsAgain PROVE LogInv'
  <2>1. file \o <<>> = file
    BY <1>2, ConcatEmptySeq
  <2> QED
    BY <1>2, <1>7, <2>1 DEF BeginsAgain, LogInv
<1>8. LogInv'
  BY <1>1, <1>4, <1>5, <1>6, <1>7, StepOfLog
<1> QED
  BY <1>1, <1>8 DEF OrderInv

LEMMA OrderInvHolds == Spec => []OrderInv
  BY InitOrderInv, NextOrderInv, PTL DEF Spec

(***************************************************************************)
(* For every interleaving of log() with the swaps and writes of the flush  *)
(* thread and with shutdown(), the file, the stream and the buffers hold   *)
(* the commands logged, each once and in order, until a write fails.       *)
(***************************************************************************)
THEOREM LoggedInOrderHolds == Spec => []LoggedInOrder
<1>1. OrderInv => LoggedInOrder
  BY DEF OrderInv, LogInv, LoggedInOrder, Whole, Remaining
<1> QED
  BY <1>1, OrderInvHolds, PTL

(***************************************************************************)
(* When shutdown() has returned and no write failed, the file is what was  *)
(* replayed followed by every command that log() accepted.                 *)
(***************************************************************************)
THEOREM ShutdownIsDurableHolds == Spec => []ShutdownIsDurable
<1>1. OrderInv => ShutdownIsDurable
  <2> SUFFICES ASSUME OrderInv, main = "closed", ~failed PROVE file = base \o logged
    BY DEF ShutdownIsDurable
  <2>1. active_buffer = <<>> /\ flush_buffer = <<>> /\ written = 0 /\ stream = <<>>
    BY DEF OrderInv, TypeInv, ControlInv
  <2>2. file \in Seq(Commands) /\ <<>> \in Seq(Commands)
    BY EmptySeq DEF OrderInv, TypeInv, TypeOK
  <2>3. Rest(<<>>, 0) \o <<>> = <<>> /\ file \o <<>> = file
    BY <2>2, RestEnds, ConcatEmptySeq
  <2>4. Pending = <<>>
    BY <2>1, <2>3 DEF Pending, Rest
  <2> QED
    BY <2>1, <2>3, <2>4 DEF OrderInv, LogInv, Whole, Remaining
<1> QED
  BY <1>1, OrderInvHolds, PTL

(***************************************************************************)
(* Kills and failing writes, at any moment and over any number of restarts,*)
(* never leave a gap: the file is always a prefix of what was logged.      *)
(***************************************************************************)
THEOREM KillLosesSuffixHolds == Spec => []KillLosesSuffix
<1>1. OrderInv => KillLosesSuffix
  <2> SUFFICES ASSUME OrderInv PROVE KillLosesSuffix
    OBVIOUS
  <2>1. file \in Seq(Commands) /\ base \in Seq(Commands) /\ logged \in Seq(Commands)
    BY DEF OrderInv, TypeInv, TypeOK
  <2>2. PICK q \in Seq(Commands) : Remaining = file \o q
    BY FileIsFirst DEF OrderInv
  <2>3. PICK r \in Seq(Commands) : base \o logged = Remaining \o r
    BY DEF OrderInv, LogInv
  <2>4. (file \o q) \o r = file \o (q \o r) /\ q \o r \in Seq(Commands)
    BY <2>1, <2>2, <2>3, Regroup, ZenonT(40)
  <2>5. base \o logged = file \o (q \o r)
    BY <2>2, <2>3, <2>4
  <2>6. /\ Len(file) <= Len(file \o (q \o r))
        /\ file = SubSeq(file \o (q \o r), 1, Len(file))
    BY <2>1, <2>4, PrefixOfConcat
  <2>7. Len(base \o logged) = Len(base) + Len(logged)
    BY <2>1, ConcatProperties
  <2> QED
    BY <2>5, <2>6, <2>7 DEF KillLosesSuffix
<1> QED
  BY <1>1, OrderInvHolds, PTL
-----------------------------------------------------------------------------
(* The log is the commands in the file and what is still to reach it. *)
LEMMA RemainingIs ==
  /\ TypeInv => Unwritten \in Seq(Commands) /\ Remaining = file \o Unwritten
  /\ TypeInv' => Unwritten' \in Seq(Commands) /\ Remaining' = file' \o Unwritten'
<1>1. ASSUME NEW f \in Seq(Commands), NEW s \in Seq(Commands), NEW p \in Seq(Commands)
      PROVE  s \o p \in Seq(Commands) /\ (f \o s) \o p = f \o (s \o p)
  BY Regroup
<1>2. <<>> \in Seq(Commands) /\ \A f \in Seq(Commands) : f = f \o <<>>
  BY ConcatEmptySeq, EmptySeq
<1>3. ASSUME TypeInv
      PROVE  Unwritten \in Seq(Commands) /\ Remaining = file \o Unwritten
  <2>1. PICK p \in Seq(Commands) : p = IF failed THEN <<>> ELSE Pending
    BY <1>2, <1>3, PendingType
  <2>2. file \in Seq(Commands) /\ stream \in Seq(Commands)
    BY <1>3 DEF TypeInv, TypeOK
  <2>3. CASE main = "killed"
    BY <1>2, <2>2, <2>3, Zenon DEF Remaining, Unwritten
  <2>4. CASE main # "killed"
    <3>1. Remaining = (file \o stream) \o p /\ Unwritten = stream \o p
      BY <2>1, <2>4 DEF Remaining, Unwritten
    <3> QED
      BY <1>1, <2>2, <3>1
  <2> QED
    BY <2>3, <2>4
<1>4. ASSUME TypeInv'
      PROVE  Unwritten' \in Seq(Commands) /\ Remaining' = file' \o Unwritten'
  <2>1. PICK p \in Seq(Commands) : p = IF failed' THEN <<>> ELSE Pending'
    BY <1>2, <1>4, PendingType
  <2>2. file' \in Seq(Commands) /\ stream' \in Seq(Commands)
    BY <1>4 DEF TypeInv, TypeOK
  <2>3. CASE main' = "killed"
    BY <1>2, <2>2, <2>3, Zenon DEF Remaining, Unwritten
  <2>4. CASE main' # "killed"
    <3>1. Remaining' = (file' \o stream') \o p /\ Unwritten' = stream' \o p
      BY <2>1, <2>4 DEF Remaining, Unwritten
    <3> QED
      BY <1>1, <2>2, <3>1
  <2> QED
    BY <2>3, <2>4
<1> QED
  BY <1>3, <1>4

LEMMA CancelPrefix ==
  ASSUME NEW S, NEW f \in Seq(S), NEW a \in Seq(S), NEW b \in Seq(S), f \o a = f \o b
  PROVE  a = b
<1>1. Rest(f \o a, Len(f)) = a /\ Rest(f \o b, Len(f)) = b
  BY RestOfConcat
<1> QED
  BY <1>1

(* A process ends: nothing is left to be written, and perhaps a fragment is. *)
Ends == /\ LeaveFragment /\ Unwritten' = <<>>
        /\ UNCHANGED <<file, contents>>

(***************************************************************************)
(* What a step does to the file: lines of what was unwritten reach it, and *)
(* the rest stays unwritten, up to what a failure costs; or a command is   *)
(* logged; or the process ends.                                            *)
(***************************************************************************)
LEMMA StepOfFile ==
  ASSUME TypeInv, [Next]_vars
  PROVE  \/ \E x, q \in Seq(Commands) : /\ Spilled(x)
                                        /\ Unwritten = (x \o Unwritten') \o q
                                        /\ (~failed' => q = <<>>)
         \/ /\ \E c \in Commands : Unwritten' = Append(Unwritten, c)
            /\ UNCHANGED <<contents, tail>>
         \/ Ends
<1>1. TypeInv' /\ FileType /\ <<>> \in Seq(Commands) /\ file \in Seq(Commands)
  BY NextTypeInv, EmptySeq DEF TypeInv, TypeOK, FileType, ControlInv, Lines
<1> DEFINE U == Unwritten
           V == Unwritten'
<1>2. /\ U \in Seq(Commands) /\ Remaining = file \o U
      /\ V \in Seq(Commands) /\ Remaining' = file' \o V
  BY <1>1, RemainingIs
<1> HIDE DEF U, V
<1>3. ASSUME Remaining' = Remaining, NEW x \in Seq(Commands), Spilled(x)
      PROVE  U = (x \o V) \o <<>>
  <2>1. file \o U = (file \o x) \o V
    BY <1>2, <1>3 DEF Spilled
  <2>2. (file \o x) \o V = file \o (x \o V) /\ x \o V \in Seq(Commands)
    BY <1>1, <1>2, <1>3, Regroup
  <2>3. U = x \o V
    BY <1>1, <1>2, <2>1, <2>2, CancelPrefix
  <2> QED
    BY <2>2, <2>3, ConcatEmptySeq
<1>4. ASSUME Loses, NEW x \in Seq(Commands), Spilled(x)
      PROVE  \E q \in Seq(Commands) : U = (x \o V) \o q
  <2>1. PICK q \in Seq(Commands) : Remaining = Remaining' \o q
    BY <1>4 DEF Loses
  <2> q \in Seq(Commands)
    BY <2>1
  <2>2. file \o U = ((file \o x) \o V) \o q
    BY <1>2, <1>4, <2>1 DEF Spilled
  <2>3. (file \o x) \o V = file \o (x \o V) /\ x \o V \in Seq(Commands)
    BY <1>1, <1>2, <1>4, Regroup
  <2>4. PICK y \in Seq(Commands) : y = x \o V
    BY <2>3
  <2>5. (file \o y) \o q = file \o (y \o q) /\ y \o q \in Seq(Commands)
    <3>1. file \in Seq(Commands) /\ y \in Seq(Commands) /\ q \in Seq(Commands)
      BY <1>1, <2>1, <2>4
    <3> QED
      BY <3>1, Regroup, Zenon
  <2>6. file \o U = file \o (y \o q)
    BY <2>2, <2>3, <2>4, <2>5
  <2>7. U = y \o q
    BY <1>1, <1>2, <2>5, <2>6, CancelPrefix
  <2> QED
    BY <2>4, <2>7
<1> DEFINE Moves == \E x, q \in Seq(Commands) :
                       Spilled(x) /\ U = (x \o V) \o q /\ (~failed' => q = <<>>)
<1>5. ASSUME Remaining' = Remaining, \E x \in Seq(Commands) : Spilled(x) PROVE Moves
  BY <1>1, <1>3, <1>5, Zenon
<1>6. ASSUME Loses, main' # "killed", \E x \in Seq(Commands) : Spilled(x) PROVE Moves
  <2>1. failed'
    BY <1>6 DEF Loses, Whole
  <2> QED
    BY <1>4, <1>6, <2>1
<1> HIDE DEF Moves
<1>7. ASSUME NEW c \in Commands, Log(c)
      PROVE  Moves \/ (V = Append(U, c) /\ UNCHANGED <<contents, tail>>)
  <2>1. Extends(c) /\ UNCHANGED <<file, contents, tail>>
    BY <1>7, LogExtends DEF Log, fileVars
  <2>2. CASE ~Whole
    <3>1. Remaining' = Remaining
      BY <2>1, <2>2 DEF Extends
    <3> QED
      BY <1>1, <1>5, <2>1, <3>1, NothingSpilled
  <2>3. CASE Whole
    <3>1. file \o V = Append(file \o U, c)
      BY <1>2, <2>1, <2>3 DEF Extends
    <3>2. file \o U \in Seq(Commands) /\ <<c>> \in Seq(Commands)
      BY <1>1, <1>2, ConcatProperties
    <3>3. Append(file \o U, c) = (file \o U) \o <<c>> /\ Append(U, c) = U \o <<c>>
      BY <1>2, <3>2, AppendIsConcat
    <3>4. (file \o U) \o <<c>> = file \o (U \o <<c>>) /\ U \o <<c>> \in Seq(Commands)
      BY <1>1, <1>2, <3>2, Regroup
    <3>5. V = U \o <<c>>
      BY <1>1, <1>2, <3>1, <3>3, <3>4, CancelPrefix
    <3> QED
      BY <2>1, <3>3, <3>5
  <2> QED
    BY <2>2, <2>3
<1>8. ASSUME Keeps, UNCHANGED <<file, contents, tail>> PROVE Moves
  BY <1>1, <1>5, <1>8, NothingSpilled DEF Keeps
<1>9. ASSUME LoopTest \/ WaitEnds \/ BeginShutdown \/ UNCHANGED vars PROVE Moves
  <2>1. Keeps /\ UNCHANGED <<file, contents, tail>>
    BY <1>9 DEF LoopTest, WaitEnds, BeginShutdown, Keeps, Remaining, Pending, Whole,
                vars, bufferVars, fileVars, historyVars
  <2> QED
    BY <1>8, <2>1
<1>10. ASSUME Swap \/ Join PROVE Moves
  <2>1. Keeps /\ UNCHANGED <<file, contents, tail>>
    BY <1>10, SwapKeeps, JoinKeeps DEF Swap, Join, fileVars
  <2> QED
    BY <1>8, <2>1
<1>11. ASSUME FlusherWrites PROVE Moves
  <2>1. written \in 0 .. Len(flush_buffer) /\ flush_buffer \in Seq(Commands)
    BY <1>11 DEF FlusherWrites, TypeInv, TypeOK, ControlInv
  <2>2. \E x \in Seq(Commands) : Spilled(x)
    BY <1>1, <1>11, <2>1, WriteCommandKeeps, FlushStreamKeeps DEF FlusherWrites
  <2>3. main' # "killed" /\ (Keeps \/ Loses)
    BY <1>11, FlusherKeepsOrLoses DEF FlusherWrites
  <2> QED
    BY <1>5, <1>6, <2>2, <2>3 DEF Keeps
<1>12. ASSUME MainWrites PROVE Moves
  <2>1. written \in 0 .. Len(active_buffer) /\ active_buffer \in Seq(Commands)
    BY <1>12 DEF MainWrites, TypeInv, TypeOK
  <2>2. \E x \in Seq(Commands) : Spilled(x)
    BY <1>1, <1>12, <2>1, WriteCommandKeeps, FlushStreamKeeps DEF MainWrites
  <2>3. main' # "killed" /\ (Keeps \/ Loses)
    BY <1>12, MainKeepsOrLoses DEF MainWrites
  <2> QED
    BY <1>5, <1>6, <2>2, <2>3 DEF Keeps
<1>13. ASSUME Kill PROVE Ends
  BY <1>13 DEF Kill, Ends, Unwritten
<1>14. ASSUME Restart PROVE Ends
  <2>1. file \o V = file \o <<>>
    BY <1>1, <1>2, <1>14, RestartBeginsAgain, ConcatEmptySeq DEF BeginsAgain
  <2>2. V = <<>>
    BY <1>1, <1>2, <2>1, CancelPrefix
  <2> QED
    BY <1>14, <2>2 DEF Restart, Ends, V
<1> QED
  BY <1>7, <1>9, <1>10, <1>11, <1>12, <1>13, <1>14
  DEF Next, FlusherStep, ShutdownStep, Terminated, Moves, U, V

(* The log as replay would read it. *)
Entries == (contents \o tail) \o Unwritten

LEMMA EntriesParts ==
  ASSUME TypeInv
  PROVE  /\ contents \in Seq(Lines) /\ tail \in Seq(Lines) /\ Unwritten \in Seq(Lines)
         /\ contents \o tail \in Seq(Lines) /\ Entries \in Seq(Lines)
         /\ Len(contents) \in Nat
         /\ Len(tail) = IF tail # <<>> THEN 1 ELSE 0
         /\ Len(contents \o tail) = Len(contents) + Len(tail)
         /\ Len(Entries) = Len(contents \o tail) + Len(Unwritten)
<1>1. contents \in Seq(Lines) /\ Unwritten \in Seq(Commands)
  BY RemainingIs DEF TypeInv, TypeOK, Lines
<1>2. tail \in Seq(Lines) /\ Len(tail) = IF tail # <<>> THEN 1 ELSE 0
  <2>1. CASE tail = <<>>
    BY <2>1, EmptySeq
  <2>2. CASE \E r \in Readings : tail = <<r>>
    BY <2>2 DEF Lines
  <2> QED
    BY <2>1, <2>2 DEF TypeInv, TypeOK
<1>3. Unwritten \in Seq(Lines)
  BY <1>1 DEF Lines
<1>4. \A y, z \in Seq(Lines) : y \o z \in Seq(Lines) /\ Len(y \o z) = Len(y) + Len(z)
  BY Concats, Zenon
<1> QED
  BY <1>1, <1>2, <1>3, <1>4, LenProperties DEF Entries

LEMMA EntriesPartsNext ==
  ASSUME TypeInv'
  PROVE  /\ Entries' \in Seq(Lines) /\ Len(contents') \in Nat
         /\ Len(tail') = IF tail' # <<>> THEN 1 ELSE 0
         /\ Len(contents') + Len(tail') <= Len(Entries')
<1>1. contents' \in Seq(Lines) /\ Unwritten' \in Seq(Commands)
  BY RemainingIs DEF TypeInv, TypeOK, Lines
<1>2. tail' \in Seq(Lines) /\ Len(tail') = IF tail' # <<>> THEN 1 ELSE 0
  <2>1. CASE tail' = <<>>
    BY <2>1, EmptySeq
  <2>2. CASE \E r \in Readings : tail' = <<r>>
    BY <2>2 DEF Lines
  <2> QED
    BY <2>1, <2>2 DEF TypeInv, TypeOK
<1>3. PICK k, t, u \in Seq(Lines) : k = contents' /\ t = tail' /\ u = Unwritten'
  BY <1>1, <1>2 DEF Lines
<1>4. k \o t \in Seq(Lines) /\ Len(k \o t) = Len(k) + Len(t)
  BY ConcatProperties
<1>5. (k \o t) \o u \in Seq(Lines) /\ Len((k \o t) \o u) = Len(k \o t) + Len(u)
  BY <1>4, ConcatProperties
<1>6. Len(k) \in Nat /\ Len(t) \in Nat /\ Len(u) \in Nat
  BY LenProperties
<1>7. Entries' = (k \o t) \o u
  BY <1>3 DEF Entries
<1> QED
  BY <1>2, <1>3, <1>4, <1>5, <1>6, <1>7

(* When nothing is joined, the lines that reach the file stay where they were. *)
LEMMA SpilledInPlace ==
  ASSUME TypeInv, TypeInv', NEW x \in Seq(Lines), NEW q \in Seq(Lines),
         x = <<>> \/ tail = <<>>, contents' = contents \o x, tail' = tail,
         Unwritten = (x \o Unwritten') \o q
  PROVE  Entries = Entries' \o q
<1>1. PICK k \in Seq(Lines) : k = contents \o tail
  BY EntriesParts
<1>2. PICK V \in Seq(Lines) : V = Unwritten'
  <2>1. Unwritten' \in Seq(Commands)
    BY RemainingIs
  <2> QED
    BY <2>1 DEF Lines
<1> k \in Seq(Lines) /\ V \in Seq(Lines)
  BY <1>1, <1>2
<1>3. (contents \o x) \o tail = k \o x
  <2>1. contents \in Seq(Lines) /\ tail \in Seq(Lines) /\ contents \o x \in Seq(Lines)
    BY EntriesParts, ConcatProperties
  <2>2. CASE x = <<>>
    BY <1>1, <2>1, <2>2, ConcatEmptySeq
  <2>3. CASE tail = <<>>
    BY <1>1, <2>1, <2>3, ConcatEmptySeq
  <2> QED
    BY <2>2, <2>3
<1>4. Entries' = (k \o x) \o V /\ Entries = k \o ((x \o V) \o q)
  BY <1>1, <1>2, <1>3 DEF Entries
<1>5. k \o ((x \o V) \o q) = ((k \o x) \o V) \o q
  <2>1. Cat(k, Cat(Cat(x, V), q)) = Cat(Cat(Cat(k, x), V), q)
    BY CatAssociative
  <2> QED
    BY <2>1, Zenon DEF Cat
<1> QED
  BY <1>4, <1>5

(* When the first line is joined to the fragment, the two become one. *)
LEMMA SpilledJoined ==
  ASSUME TypeInv, TypeInv', NEW x \in Seq(Lines), NEW q \in Seq(Lines), NEW r \in Readings,
         x # <<>>, tail # <<>>, contents' = Append(contents, r) \o Rest(x, 1), tail' = <<>>,
         Unwritten = (x \o Unwritten') \o q
  PROVE  /\ AbstractLog!Joined(r) = Entries' \o q
         /\ AbstractLog!Joined(r) \in Seq(Lines)
         /\ Len(AbstractLog!Joined(r)) = Len(Entries) - 1
         /\ Len(contents') > Len(contents)
<1>1. PICK k \in Seq(Lines) : k = contents
  BY EntriesParts
<1>2. PICK V \in Seq(Lines) : V = Unwritten'
  <2>1. Unwritten' \in Seq(Commands)
    BY RemainingIs
  <2> QED
    BY <2>1 DEF Lines
<1>3. PICK g \in Seq(Lines) : g = tail /\ Len(g) = 1
  BY EntriesParts
<1>4. Len(x) \in Nat /\ 0 < Len(x)
  BY EmptySeq, LenProperties
<1>5. PICK o, y \in Seq(Lines) : x = o \o y /\ Len(o) = 1 /\ y = Rest(x, 1)
  <2>1. Rest(x, 0) = x
    BY RestEnds
  <2>2. x[0 + 1] \in Lines /\ Rest(x, 0) = <<x[0 + 1]>> \o Rest(x, 0 + 1)
    BY <1>4, RestNext
  <2>3. PICK e \in Lines : Rest(x, 0) = <<e>> \o Rest(x, 1)
    <3>1. 0 + 1 = 1
      OBVIOUS
    <3> QED
      BY <2>2, <3>1, Zenon
  <2>4. <<e>> \in Seq(Lines) /\ Len(<<e>>) = 1
    OBVIOUS
  <2>5. Rest(x, 1) \in Seq(Lines)
    BY <1>4, RestProperties
  <2> QED
    BY <2>1, <2>3, <2>4, <2>5
<1> /\ k \in Seq(Lines) /\ V \in Seq(Lines) /\ g \in Seq(Lines)
    /\ o \in Seq(Lines) /\ y \in Seq(Lines)
  BY <1>1, <1>2, <1>3, <1>5
<1>6. PICK z \in Seq(Lines) : z = (y \o V) \o q
  <2>1. Cat(Cat(y, V), q) \in Seq(Lines)
    BY CatAssociative
  <2> QED
    BY <2>1, Zenon DEF Cat
<1> z \in Seq(Lines)
  BY <1>6
<1>7. PICK p \in Seq(Lines) : p = (k \o g) \o o /\ Len(p) = Len(k) + 2
  <2>1. PICK kg \in Seq(Lines) : kg = k \o g /\ Len(kg) = Len(k) + Len(g)
    BY ConcatProperties
  <2> kg \in Seq(Lines)
    BY <2>1
  <2>2. kg \o o \in Seq(Lines) /\ Len(kg \o o) = Len(kg) + Len(o)
    BY ConcatProperties
  <2>3. Len(k) \in Nat
    BY LenProperties
  <2>4. (Len(k) + 1) + 1 = Len(k) + 2
    BY <2>3
  <2> QED
    BY <1>3, <1>5, <2>1, <2>2, <2>4, Zenon
<1> p \in Seq(Lines)
  BY <1>7
<1>8. Entries = p \o z
  <2>1. PICK kg \in Seq(Lines) : kg = k \o g
    BY ConcatProperties
  <2> kg \in Seq(Lines)
    BY <2>1
  <2>2. Entries = kg \o (((o \o y) \o V) \o q)
    BY <1>1, <1>2, <1>3, <1>5, <2>1 DEF Entries
  <2>3. ((o \o y) \o V) \o q = o \o ((y \o V) \o q)
    <3>1. Cat(Cat(Cat(o, y), V), q) = Cat(o, Cat(Cat(y, V), q))
      BY CatAssociative
    <3> QED
      BY <3>1, Zenon DEF Cat
  <2>4. (kg \o o) \o z = kg \o (o \o z)
    <3>1. Cat(Cat(kg, o), z) = Cat(kg, Cat(o, z))
      BY CatAssociative
    <3> QED
      BY <3>1, Zenon DEF Cat
  <2> QED
    BY <1>6, <1>7, <2>1, <2>2, <2>3, <2>4
<1>9. PICK e \in Seq(Lines) : e = Entries /\ e = p \o z
  BY <1>8, EntriesParts
<1> e \in Seq(Lines)
  BY <1>9
<1>10. SubSeq(e, 1, Len(k)) = k
  <2>1. k \o ((g \o o) \o z) = ((k \o g) \o o) \o z /\ (g \o o) \o z \in Seq(Lines)
    <3>1. /\ Cat(k, Cat(Cat(g, o), z)) = Cat(Cat(Cat(k, g), o), z)
          /\ Cat(Cat(g, o), z) \in Seq(Lines)
      BY CatAssociative
    <3> QED
      BY <3>1, Zenon DEF Cat
  <2>2. e = k \o ((g \o o) \o z)
    BY <1>7, <1>9, <2>1
  <2> QED
    BY <2>1, <2>2, PrefixOfConcat
<1>11. SubSeq(e, Len(k) + 3, Len(e)) = z
  <2>1. Rest(e, Len(p)) = z
    BY <1>9, RestOfConcat
  <2>2. Len(p) + 1 = Len(k) + 3
    BY <1>7, LenProperties
  <2> QED
    BY <2>1, <2>2 DEF Rest
<1>12. PICK c \in Seq(Lines) : /\ c = k \o <<r>> /\ c = Append(k, r)
                               /\ Len(c) = Len(k) + 1
  <2>1. r \in Lines
    BY DEF Lines
  <2>2. Append(k, r) = k \o <<r>>
    BY <2>1, AppendIsConcat
  <2>3. Append(k, r) \in Seq(Lines) /\ Len(Append(k, r)) = Len(k) + 1
    BY <2>1, AppendProperties
  <2> QED
    BY <2>2, <2>3
<1> c \in Seq(Lines)
  BY <1>12
<1>13. AbstractLog!Joined(r) = c \o z
  <2>1. AbstractLog!Joined(r) = (SubSeq(e, 1, Len(k)) \o <<r>>) \o SubSeq(e, Len(k) + 3, Len(e))
    BY <1>1, <1>9 DEF AbstractLog!Joined, Entries
  <2> QED
    BY <1>10, <1>11, <1>12, <2>1
<1>14. PICK cy \in Seq(Lines) : cy = c \o y /\ Len(cy) = Len(c) + Len(y)
  BY ConcatProperties
<1>15. Entries' = cy \o V
  <2>1. cy \o <<>> = cy
    BY ConcatEmptySeq
  <2> QED
    BY <1>1, <1>2, <1>5, <1>12, <1>14, <2>1 DEF Entries
<1>16. c \o z = (cy \o V) \o q
  <2>1. c \o ((y \o V) \o q) = ((c \o y) \o V) \o q
    <3>1. Cat(c, Cat(Cat(y, V), q)) = Cat(Cat(Cat(c, y), V), q)
      BY CatAssociative
    <3> QED
      BY <3>1, Zenon DEF Cat
  <2> QED
    BY <1>6, <1>14, <2>1
<1>17. c \o z \in Seq(Lines) /\ Len(c \o z) = Len(c) + Len(z) /\ Len(e) = Len(p) + Len(z)
  BY <1>9, ConcatProperties
<1>18. Len(k) \in Nat /\ Len(z) \in Nat /\ Len(y) \in Nat
  BY LenProperties
<1>19. contents' = cy
  BY <1>1, <1>5, <1>12, <1>14
<1> QED
  BY <1>1, <1>7, <1>9, <1>12, <1>13, <1>14, <1>15, <1>16, <1>17, <1>18, <1>19

(* The end of a process is a crash of the abstract log. *)
LEMMA EndRefines ==
  ASSUME TypeInv, TypeInv', Ends PROVE AbstractLog!Crash
<1>1. /\ contents \in Seq(Lines) /\ tail \in Seq(Lines) /\ contents \o tail \in Seq(Lines)
      /\ Unwritten \in Seq(Lines) /\ Len(contents) \in Nat
      /\ Len(contents \o tail) = Len(contents) + Len(tail)
      /\ Len(Entries) = Len(contents \o tail) + Len(Unwritten)
      /\ Len(tail) = IF tail # <<>> THEN 1 ELSE 0
  BY EntriesParts
<1>2. AbstractLog!Readable = Len(contents \o tail)
  BY <1>1 DEF AbstractLog!Readable
<1>3. contents' = contents /\ Unwritten' = <<>>
  BY DEF Ends
<1>4. CASE ~open_line
  <2>1. tail' = tail
    BY <1>4 DEF Ends, LeaveFragment
  <2>2. Entries' = contents \o tail
    BY <1>1, <1>3, <2>1, ConcatEmptySeq DEF Entries
  <2>3. contents \o tail = SubSeq(Entries, 1, Len(contents \o tail))
    BY <1>1, PrefixOfConcat DEF Entries
  <2> QED
    BY <1>2, <1>3, <2>1, <2>2, <2>3
    DEF AbstractLog!Crash, AbstractLog!CrashBetween, Entries
<1>5. CASE open_line
  <2>1. PICK r \in Readings : tail' = <<r>>
    BY <1>5 DEF Ends, LeaveFragment
  <2>2. <<r>> \in Seq(Lines) /\ <<r>> # <<>> /\ r \in Lines
    BY DEF Lines
  <2>3. contents \o <<r>> = Append(contents, r) /\ contents \o <<r>> \in Seq(Lines)
    BY <1>1, <2>2, AppendIsConcat, AppendProperties
  <2>4. Entries' = Append(contents, r)
    BY <1>3, <2>1, <2>3, ConcatEmptySeq DEF Entries
  <2>5. contents = SubSeq(Entries, 1, Len(contents))
    <3>1. (contents \o tail) \o Unwritten = contents \o (tail \o Unwritten)
          /\ tail \o Unwritten \in Seq(Lines)
      BY <1>1, ConcatAssociative, ConcatProperties
    <3> QED
      BY <1>1, <3>1, PrefixOfConcat DEF Entries
  <2>6. Len(Unwritten) > 0
    <3>1. main # "killed" /\ stream # <<>> /\ stream \in Seq(Commands)
      BY <1>5 DEF TypeInv, TypeOK, ControlInv
    <3>2. PICK p \in Seq(Commands) : p = IF failed THEN <<>> ELSE Pending
      BY EmptySeq, PendingType
    <3>3. Unwritten = stream \o p
      BY <3>1, <3>2 DEF Unwritten
    <3>4. Len(stream) \in Nat /\ Len(stream) # 0 /\ Len(p) \in Nat
      BY <3>1, <3>2, EmptySeq, LenProperties
    <3>5. Len(stream \o p) = Len(stream) + Len(p)
      BY <3>1, <3>2, ConcatProperties
    <3> QED
      BY <3>3, <3>4, <3>5
  <2>7. AbstractLog!Readable < Len(Entries)
    BY <1>1, <1>2, <2>6, LenProperties
  <2> QED
    BY <1>3, <2>1, <2>2, <2>4, <2>5, <2>7
    DEF AbstractLog!Crash, AbstractLog!CrashInside, Entries
<1> QED
  BY <1>4, <1>5 DEF TypeInv, TypeOK

(***************************************************************************)
(* Every step of the logger is a step of the abstract log or leaves it     *)
(* alone.                                                                  *)
(***************************************************************************)
LEMMA StepRefines ==
  TypeInv /\ [Next]_vars => [AbstractLog!LogNext(Commands)]_(AbstractLog!logVars)
<1> SUFFICES ASSUME TypeInv, [Next]_vars
             PROVE  \/ AbstractLog!LogNext(Commands)
                    \/ UNCHANGED <<Entries, Len(contents), tail # <<>> >>
  BY DEF AbstractLog!logVars, Entries
<1>1. TypeInv'
  BY NextTypeInv
<1>2. /\ Entries \in Seq(Lines) /\ Entries' \in Seq(Lines)
      /\ Len(Entries) \in Nat /\ Len(Entries') \in Nat
      /\ Len(contents) \in Nat /\ Len(contents') \in Nat
      /\ Len(contents') + Len(tail') <= Len(Entries')
      /\ Len(tail) = IF tail # <<>> THEN 1 ELSE 0
      /\ Len(tail') = IF tail' # <<>> THEN 1 ELSE 0
  <2>1. Entries \in Seq(Lines) /\ Len(contents) \in Nat
        /\ Len(tail) = IF tail # <<>> THEN 1 ELSE 0
    BY EntriesParts
  <2>2. /\ Entries' \in Seq(Lines) /\ Len(contents') \in Nat
        /\ Len(contents') + Len(tail') <= Len(Entries')
        /\ Len(tail') = IF tail' # <<>> THEN 1 ELSE 0
    BY <1>1, EntriesPartsNext
  <2> QED
    BY <2>1, <2>2, LenProperties
<1>3. ASSUME NEW x \in Seq(Commands), NEW q \in Seq(Commands), Spilled(x),
             Unwritten = (x \o Unwritten') \o q
      PROVE  \/ AbstractLog!Persist \/ AbstractLog!LoseSome
             \/ UNCHANGED <<Entries, Len(contents), tail # <<>> >>
  <2>1. x \in Seq(Lines) /\ q \in Seq(Lines)
    BY DEF Lines
  <2>2. Len(q) \in Nat /\ (q = <<>> <=> Len(q) = 0) /\ Len(x) \in Nat
    BY EmptySeq, LenProperties
  <2>3. CASE (x = <<>> \/ tail = <<>>) /\ contents' = contents \o x /\ tail' = tail
    <3>1. Entries = Entries' \o q
      BY <1>1, <1>3, <2>1, <2>3, SpilledInPlace
    <3>2. /\ Len(Entries) = Len(Entries') + Len(q)
          /\ Entries' = SubSeq(Entries, 1, Len(Entries'))
      BY <1>2, <2>1, <3>1, ConcatProperties, PrefixOfConcat
    <3>3. Len(contents') = Len(contents) + Len(x) /\ (x = <<>> => Len(x) = 0)
      BY <2>1, <2>3, EntriesParts, ConcatProperties, EmptySeq
    <3>4. AbstractLog!Readable' = Len(contents') + Len(tail')
      BY <1>2 DEF AbstractLog!Readable
    <3>5. /\ Len(contents') \in Len(contents) .. (IF tail # <<>> THEN Len(contents)
                                                  ELSE Len(Entries))
          /\ Len(Entries') \in AbstractLog!Readable' .. Len(Entries)
      BY <1>2, <2>2, <2>3, <3>2, <3>3, <3>4
    <3> QED
      BY <2>3, <3>2, <3>5 DEF AbstractLog!LoseSome, Entries
  <2>4. CASE /\ x # <<>> /\ tail # <<>>
             /\ \E r \in Readings : contents' = Append(contents, r) \o Rest(x, 1)
             /\ tail' = <<>>
    <3>1. PICK r \in Readings : contents' = Append(contents, r) \o Rest(x, 1)
      BY <2>4
    <3>2. /\ AbstractLog!Joined(r) = Entries' \o q
          /\ Len(AbstractLog!Joined(r)) = Len(Entries) - 1
          /\ Len(contents') > Len(contents)
      BY <1>1, <1>3, <2>1, <2>4, <3>1, SpilledJoined
    <3>3. /\ Len(Entries) - 1 = Len(Entries') + Len(q)
          /\ Entries' = SubSeq(AbstractLog!Joined(r), 1, Len(Entries'))
      BY <1>2, <2>1, <3>2, ConcatProperties, PrefixOfConcat
    <3>4. /\ Len(contents') \in (Len(contents) + 1) .. (Len(Entries) - 1)
          /\ Len(Entries') \in Len(contents') .. (Len(Entries) - 1)
      BY <1>2, <2>2, <2>4, <3>2, <3>3
    <3> QED
      BY <2>4, <3>3, <3>4 DEF AbstractLog!LoseSome, Entries
  <2> QED
    BY <1>3, <2>3, <2>4 DEF Spilled
<1>4. ASSUME NEW c \in Commands, Unwritten' = Append(Unwritten, c), UNCHANGED <<contents, tail>>
      PROVE  AbstractLog!LogCommand(c)
  <2>1. PICK k \in Seq(Lines) : k = contents \o tail
    BY EntriesParts
  <2>2. PICK u \in Seq(Lines) : u = Unwritten
    BY EntriesParts
  <2>3. c \in Lines
    BY DEF Lines
  <2>4. k \o Append(u, c) = Append(k \o u, c)
    <3>1. Append(u, c) = u \o <<c>>
      BY <2>3, AppendIsConcat
    <3>2. k \o u \in Seq(Lines)
      BY ConcatProperties
    <3>3. Append(k \o u, c) = (k \o u) \o <<c>>
      BY <2>3, <3>2, AppendIsConcat
    <3>4. <<c>> \in Seq(Lines)
      BY <2>3
    <3>5. (k \o u) \o <<c>> = k \o (u \o <<c>>)
      BY <3>4, ConcatAssociative
    <3> QED
      BY <3>1, <3>3, <3>5
  <2>5. (contents' \o tail') \o Unwritten' = Append((contents \o tail) \o Unwritten, c)
    BY <1>4, <2>1, <2>2, <2>4
  <2> QED
    BY <1>4, <2>5 DEF AbstractLog!LogCommand
<1>5. ASSUME Ends PROVE AbstractLog!Crash
  BY <1>1, <1>5, EndRefines
<1> QED
  BY <1>3, <1>4, <1>5, StepOfFile DEF AbstractLog!LogNext

(***************************************************************************)
(* The double buffer, the flush thread and the buffered stream implement   *)
(* CommandLog, the log that replay relies on: over kills, failing writes   *)
(* and restarts.  That includes the line in which a process died and the   *)
(* one that is joined to it.                                               *)
(***************************************************************************)
THEOREM AofRefinesCommandLog == Spec => ImplementsCommandLog
<1>1. Init => AbstractLog!LogInit
  <2> SUFFICES ASSUME Init PROVE Entries = <<>> /\ Len(contents) = 0 /\ tail = <<>>
    BY DEF AbstractLog!LogInit, Entries
  <2>1. <<>> \o <<>> = <<>> /\ Rest(<<>>, 0) = <<>> /\ Len(<<>>) = 0
    BY EmptySeq, ConcatEmptySeq, RestEnds
  <2>2. Pending = <<>>
    BY <2>1 DEF Init, Pending, Rest
  <2> QED
    BY <2>1, <2>2 DEF Init, Entries, Unwritten
<1> QED
  BY <1>1, InitTypeInv, NextTypeInv, StepRefines, PTL DEF Spec, ImplementsCommandLog
=============================================================================
