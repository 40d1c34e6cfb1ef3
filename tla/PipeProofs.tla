----------------------------- MODULE PipeProofs -----------------------------
(***************************************************************************)
(* Proofs about Pipe, for any pipes and socket pairs, any number of        *)
(* processes, any capacity and any workload.                               *)
(*                                                                         *)
(* Below them, proofs about Tcp, for any number of CPUs, units, attempts   *)
(* and retries, any backlog and any order of segments.                     *)
(***************************************************************************)
EXTENDS Pipe, Tcp, ListLemmas, SequenceTheorems, FiniteSetTheorems, TLAPS

InCall == {"op", "loop", "wake", "down", "queued", "asleep", "ret"}
InOperation == InCall \ {"op"}

(* What the position of a process says of its call.                        *)
Exists(d, s) == IF s = "read" THEN rd[d] # None ELSE wr[d] # None
CallInv ==
    \A p \in Procs :
        /\ pc[p] = "user" => call[p].d = None
        /\ pc[p] \in InCall =>
              /\ call[p].d \in Descs /\ call[p].op \in Sides /\ Exists(call[p].d, call[p].op)
              /\ call[p].op = "read" => call[p].len # 0
              /\ call[p].op = "write" /\ pc[p] \notin {"wake", "ret"} => call[p].data # <<>>
        /\ pc[p] \in {"close", "closewake"} =>
              /\ call[p].d \in Descs /\ call[p].todo # {}
              /\ \A s \in call[p].todo : Exists(call[p].d, s)

(* operation_sem admits one call to a description.                         *)
HolderInv == \A p \in Procs : pc[p] \in InOperation => holder[call[p].d] = p

(* The descriptors being closed that an end still counts.                  *)
ReadClosers(d) == {p \in Procs : pc[p] = "close" /\ call[p].d = d /\ "read" \in call[p].todo}
WriteClosers(d) ==
    {p \in Procs : /\ call[p].d = d /\ "write" \in call[p].todo
                   /\ pc[p] = "close" \/ (pc[p] = "closewake" /\ "read" \in call[p].todo)}

CountInv ==
    \A d \in Descs :
        /\ rd[d] # None => readers[rd[d]] = descriptor_count[d] + Cardinality(ReadClosers(d))
        /\ wr[d] # None => writers[wr[d]] = descriptor_count[d] + Cardinality(WriteClosers(d))

(* The descriptions that keep a pipe.                                      *)
Alive(d) == descriptor_count[d] > 0 \/ Users(d) # {}
Keepers(x) == {d \in Descs : x \in {rd[d], wr[d]} /\ Alive(d)}
RefInv ==
    \A x \in Pipes :
        (\A d \in Descs : x \in {rd[d], wr[d]} => ~Duplex(d))
            => ref_count[x] = Cardinality(Keepers(x))

(* Somebody is about to wake side s of pipe x.                             *)
Announcing(x, s) ==
    \E q \in Procs :
        \/ pc[q] = "wake" /\ Target(q) = x /\ Side(q) # s
        \/ pc[q] = "closewake" /\ ClosingPipe(q) = x /\ ClosingSide(q) # s

(* Between its test of the ring and the semaphore's a call finds a token   *)
(* for what has happened since.                                            *)
WakeInv ==
    \A p \in Procs :
        (pc[p] \in {"down", "queued", "asleep"} /\ MayProceed(p)) =>
            \/ Announcing(Target(p), Side(p))
            \/ pc[p] = "down" /\ token[Target(p)][Side(p)] = 1
            \/ pc[p] # "down" /\ woke[p] # "no"

(* tail is where the next byte goes.                                       *)
RingInv == \A x \in Pipes : tail[x] = (head[x] + count[x]) % FS_PIPE_CAPACITY

PipeInv ==
    /\ TypeOK /\ CallInv /\ HolderInv /\ CountInv /\ RefInv /\ WakeInv /\ RingInv
-----------------------------------------------------------------------------
(* What remains of a sequence without its first n elements.                *)
LEMMA SuffixFacts ==
    ASSUME NEW S, NEW s \in Seq(S), NEW c \in Nat, Len(s) = c, NEW n \in 0 .. c
    PROVE  /\ SubSeq(s, n + 1, c) \in Seq(S)
           /\ Len(SubSeq(s, n + 1, c)) = c - n
           /\ \A i \in 1 .. c - n : SubSeq(s, n + 1, c)[i] = s[n + i]
<1>1. n \in Nat /\ n <= c /\ n + 1 \in Int /\ c \in Int
    OBVIOUS
<1>2. \A i \in n + 1 .. c : s[i] \in S
    BY <1>1, ElementOfSeq
<1> DEFINE t == SubSeq(s, n + 1, c)
<1>3. /\ t \in Seq(S)
      /\ Len(t) = IF n + 1 <= c THEN c - (n + 1) + 1 ELSE 0
      /\ \A i \in 1 .. c - (n + 1) + 1 : t[i] = s[(n + 1) + i - 1]
    BY <1>1, <1>2, SubSeqProperties
<1> HIDE DEF t
<1>4. Len(t) = c - n
    BY <1>1, <1>3
<1>5. ASSUME NEW i \in 1 .. c - n PROVE t[i] = s[n + i]
    <2>1. i \in 1 .. c - (n + 1) + 1 /\ (n + 1) + i - 1 = n + i
        BY <1>1
    <2> QED
        BY <1>3, <2>1
<1> QED
    BY <1>3, <1>4, <1>5 DEF t

(* The empty call.                                                         *)
LEMMA CallTypes == NoCall \in Arguments /\ NoCall.d = None
    BY DEF NoCall, Arguments, Sides

(* A call that goes on with other data, or with fewer ends to close.       *)
LEMMA CallUpdates ==
    ASSUME NEW c \in Arguments
    PROVE  /\ \A s \in Seq(Byte) :
                LET e == [c EXCEPT !.data = s, !.written = TRUE]
                IN  e \in Arguments /\ e.op = c.op /\ e.d = c.d /\ e.len = c.len /\ e.data = s
                    /\ e.todo = c.todo
           /\ \A t \in SUBSET Sides :
                LET e == [c EXCEPT !.todo = t]
                IN  e \in Arguments /\ e.op = c.op /\ e.d = c.d /\ e.todo = t
<1>1. ASSUME NEW s \in Seq(Byte)
      PROVE  LET e == [c EXCEPT !.data = s, !.written = TRUE]
             IN  e \in Arguments /\ e.op = c.op /\ e.d = c.d /\ e.len = c.len /\ e.data = s
                 /\ e.todo = c.todo
    BY DEF Arguments
<1>2. ASSUME NEW t \in SUBSET Sides
      PROVE  LET e == [c EXCEPT !.todo = t]
             IN  e \in Arguments /\ e.op = c.op /\ e.d = c.d /\ e.todo = t
    BY DEF Arguments
<1> QED
    BY <1>1, <1>2

(* Which steps touch the ring, the counters and the semaphores.            *)
LEMMA Frames ==
    ASSUME Next
    PROVE  /\ UNCHANGED scene
           /\ UNCHANGED ring \/ \E p \in Procs : ReadData(p) \/ WriteData(p)
           /\ \/ UNCHANGED ends
              \/ \E p \in Procs : OperationUp(p) \/ CloseEnd(p) \/ CloseWake(p)
              \/ \E p \in Procs, d \in Descs : Dup(p, d) \/ Close(p, d)
           /\ \/ UNCHANGED sems
              \/ \E p \in Procs : WakeOther(p) \/ Down(p) \/ DownCheck(p) \/ DownReturns(p)
                                    \/ Kill(p) \/ CloseWake(p)
<1>1. UNCHANGED scene
    BY DEF Next
<1>2. PICK p \in Procs :
        \/ Step(p) \/ OperationDown(p) \/ Kill(p) \/ SignalHandled(p)
        \/ \E d \in Descs :
            \/ Dup(p, d) \/ Close(p, d)
            \/ \E nb \in scene.modes :
                \/ \E n \in scene.lens["read"] : ReadCall(p, d, n, nb)
                \/ \E n \in scene.lens["write"] : \E s \in [1 .. n -> scene.bytes] : WriteCall(p, d, s, nb)
    BY DEF Next
<1>3. CASE \E d \in Descs, nb \in scene.modes :
                \/ \E n \in scene.lens["read"] : ReadCall(p, d, n, nb)
                \/ \E n \in scene.lens["write"] : \E s \in [1 .. n -> scene.bytes] : WriteCall(p, d, s, nb)
    BY <1>1, <1>3 DEF ReadCall, WriteCall
<1>4. CASE OperationDown(p) \/ SignalHandled(p) \/ ReadEmpty(p) \/ WriteBroken(p) \/ WriteFull(p)
    BY <1>1, <1>4 DEF OperationDown, SignalHandled, ReadEmpty, WriteBroken, WriteFull
<1>5. CASE ReadData(p) \/ WriteData(p)
    <2>1. UNCHANGED ends /\ UNCHANGED sems
        BY <1>5 DEF ReadData, WriteData
    <2> QED
        BY <1>1, <1>5, <2>1
<1>6. CASE OperationUp(p)
    <2>1. UNCHANGED ring /\ UNCHANGED sems
        BY <1>6 DEF OperationUp
    <2> QED
        BY <1>1, <1>6, <2>1
<1>7. CASE CloseEnd(p)
    <2>1. UNCHANGED ring /\ UNCHANGED sems
        BY <1>7 DEF CloseEnd
    <2> QED
        BY <1>1, <1>7, <2>1
<1>8. CASE \E d \in Descs : Dup(p, d) \/ Close(p, d)
    <2>1. UNCHANGED ring /\ UNCHANGED sems
        BY <1>8 DEF Dup, Close
    <2> QED
        BY <1>1, <1>8, <2>1
<1>9. CASE WakeOther(p) \/ Down(p) \/ DownCheck(p) \/ DownReturns(p) \/ Kill(p)
    <2>1. UNCHANGED ring /\ UNCHANGED ends
        BY <1>9 DEF WakeOther, Down, DownCheck, DownReturns, Kill
    <2> QED
        BY <1>1, <1>9, <2>1
<1>10. CASE CloseWake(p)
    <2>1. UNCHANGED ring
        BY <1>10 DEF CloseWake
    <2> QED
        BY <1>1, <1>10, <2>1
<1> QED
    BY <1>2, <1>3, <1>4, <1>5, <1>6, <1>7, <1>8, <1>9, <1>10 DEF Step
-----------------------------------------------------------------------------
(* Where the next byte of the ring is: positions wrap around once.         *)
LEMMA Wraps ==
    ASSUME NEW a \in Nat, a < 2 * FS_PIPE_CAPACITY
    PROVE  /\ a % FS_PIPE_CAPACITY = IF a < FS_PIPE_CAPACITY THEN a ELSE a - FS_PIPE_CAPACITY
           /\ a % FS_PIPE_CAPACITY \in 0 .. FS_PIPE_CAPACITY - 1
<1>1. FS_PIPE_CAPACITY \in Nat \ {0}
    BY PipeAssumption
<1>2. CASE a < FS_PIPE_CAPACITY
    BY <1>1, <1>2
<1>3. CASE a >= FS_PIPE_CAPACITY
    BY <1>1, <1>3
<1> QED
    BY <1>1, <1>2, <1>3

(* The two memcpys out of the ring take n bytes from head on.              *)
LEMMA CopyOutBytes ==
    ASSUME NEW b \in [0 .. FS_PIPE_CAPACITY - 1 -> Byte], NEW h \in 0 .. FS_PIPE_CAPACITY - 1,
           NEW n \in 0 .. FS_PIPE_CAPACITY
    PROVE  /\ CopyOut(b, h, n) \in [1 .. n -> Byte]
           /\ \A i \in 1 .. n : CopyOut(b, h, n)[i] = b[(h + i - 1) % FS_PIPE_CAPACITY]
<1> DEFINE C == FS_PIPE_CAPACITY
           first == Lesser(C - h, n)
<1>1. C \in Nat /\ C > 0 /\ h \in Nat /\ h < C /\ n \in Nat /\ n <= C
    BY PipeAssumption
<1>2. first \in Nat /\ (first = n \/ first = C - h) /\ first <= n /\ first <= C - h
    BY <1>1 DEF Lesser
<1>3. CopyOut(b, h, n) = [i \in 1 .. n |-> IF i <= first THEN b[h + i - 1] ELSE b[i - first - 1]]
    BY DEF CopyOut
<1> HIDE DEF first
<1>4. ASSUME NEW i \in 1 .. n
      PROVE  /\ CopyOut(b, h, n)[i] = b[(h + i - 1) % C]
             /\ CopyOut(b, h, n)[i] \in Byte
    <2>1. i \in Nat /\ i >= 1 /\ i <= n /\ h + i - 1 \in Nat /\ h + i - 1 < 2 * C
        BY <1>1
    <2>2. (h + i - 1) % C = IF h + i - 1 < C THEN h + i - 1 ELSE h + i - 1 - C
        <3> DEFINE a == h + i - 1
        <3>1. a \in Nat /\ a < 2 * C
            BY <2>1
        <3> HIDE DEF a
        <3>2. a % C = IF a < C THEN a ELSE a - C
            BY <3>1, Wraps
        <3> QED
            BY <1>1, <2>1, <3>2 DEF a
    <2>3. CASE i <= first
        <3>1. h + i - 1 < C /\ h + i - 1 \in 0 .. C - 1
            BY <1>1, <1>2, <2>1, <2>3
        <3> QED
            BY <1>3, <2>1, <2>2, <2>3, <3>1
    <2>4. CASE i > first
        <3>1. first = C - h
            BY <1>1, <1>2, <2>1, <2>4
        <3>2. i - first - 1 = h + i - 1 - C /\ h + i - 1 >= C /\ i - first - 1 \in 0 .. C - 1
            BY <1>1, <2>1, <2>4, <3>1
        <3>3. ~ (i <= first)
            BY <1>2, <2>1, <2>4
        <3>4. CopyOut(b, h, n)[i] = b[i - first - 1]
            BY <1>3, <3>3
        <3>5. (h + i - 1) % C = i - first - 1
            BY <1>1, <2>1, <2>2, <3>2
        <3> QED
            BY <3>2, <3>4, <3>5
    <2> QED
        BY <1>2, <2>1, <2>3, <2>4
<1>5. CopyOut(b, h, n) = [i \in 1 .. n |-> CopyOut(b, h, n)[i]]
    BY <1>3
<1> QED
    BY <1>4, <1>5

(* The two memcpys into the ring append s to the c bytes from head on.     *)
LEMMA CopyInBytes ==
    ASSUME NEW b \in [0 .. FS_PIPE_CAPACITY - 1 -> Byte], NEW h \in 0 .. FS_PIPE_CAPACITY - 1,
           NEW c \in 0 .. FS_PIPE_CAPACITY, NEW s \in Seq(Byte), Len(s) <= FS_PIPE_CAPACITY - c,
           NEW t, t = (h + c) % FS_PIPE_CAPACITY
    PROVE  /\ CopyIn(b, t, s) \in [0 .. FS_PIPE_CAPACITY - 1 -> Byte]
           /\ \A i \in 1 .. c : CopyIn(b, t, s)[(h + i - 1) % FS_PIPE_CAPACITY]
                                    = b[(h + i - 1) % FS_PIPE_CAPACITY]
           /\ \A k \in 1 .. Len(s) : CopyIn(b, t, s)[(h + c + k - 1) % FS_PIPE_CAPACITY] = s[k]
<1> DEFINE C == FS_PIPE_CAPACITY
           m == Len(s)
           first == Lesser(C - t, m)
           r == CopyIn(b, t, s)
<1>1. C \in Nat /\ C > 0 /\ h \in Nat /\ h < C /\ c \in Nat /\ c <= C /\ m \in Nat /\ m + c <= C
    BY PipeAssumption, LenProperties
<1>2. /\ t = IF h + c < C THEN h + c ELSE h + c - C
      /\ t \in 0 .. C - 1
    BY <1>1, Wraps
<1>3. first \in Nat /\ (first = m \/ first = C - t) /\ first <= m /\ first <= C - t
    <2>1. t \in Nat /\ t < C
        BY <1>1, <1>2
    <2> QED
        BY <1>1, <2>1 DEF Lesser
<1>4. r = [i \in 0 .. C - 1 |->
                IF i \in t .. t + first - 1 THEN s[i - t + 1]
                ELSE IF i < m - first THEN s[first + i + 1]
                ELSE b[i]]
    BY DEF CopyIn
<1>5. \A k \in 1 .. m : s[k] \in Byte
    BY ElementOfSeq
<1> HIDE DEF first, r, m
<1>6. ASSUME NEW i \in 0 .. C - 1 PROVE r[i] \in Byte
    <2>1. CASE i \in t .. t + first - 1
        <3>1. i - t + 1 \in 1 .. m
            BY <1>1, <1>2, <1>3, <2>1
        <3> QED
            BY <1>4, <1>5, <2>1, <3>1
    <2>2. CASE i \notin t .. t + first - 1 /\ i < m - first
        <3>1. first + i + 1 \in 1 .. m
            BY <1>1, <1>2, <1>3, <2>2
        <3> QED
            BY <1>4, <1>5, <2>2, <3>1
    <2>3. CASE i \notin t .. t + first - 1 /\ ~ (i < m - first)
        BY <1>4, <2>3
    <2> QED
        BY <2>1, <2>2, <2>3
<1>7. r \in [0 .. C - 1 -> Byte]
    <2>1. r = [i \in 0 .. C - 1 |-> r[i]]
        BY <1>4
    <2> QED
        BY <1>6, <2>1
<1>8. ASSUME NEW i \in 1 .. c PROVE r[(h + i - 1) % C] = b[(h + i - 1) % C]
    <2> DEFINE j == (h + i - 1) % C
    <2>1. i \in Nat /\ i >= 1 /\ i <= c /\ h + i - 1 \in Nat /\ h + i - 1 < 2 * C
        BY <1>1
    <2>2. /\ j = IF h + i - 1 < C THEN h + i - 1 ELSE h + i - 1 - C
          /\ j \in 0 .. C - 1
        <3> DEFINE a == h + i - 1
        <3>1. a \in Nat /\ a < 2 * C
            BY <2>1
        <3> HIDE DEF a
        <3>2. a % C = (IF a < C THEN a ELSE a - C) /\ a % C \in 0 .. C - 1
            BY <3>1, Wraps
        <3> QED
            BY <1>1, <2>1, <3>2 DEF a
    <2> HIDE DEF j
    <2>3. ~ (j \in t .. t + first - 1)
        BY <1>1, <1>2, <1>3, <2>1, <2>2
    <2>4. ~ (j < m - first)
        BY <1>1, <1>2, <1>3, <2>1, <2>2
    <2>5. r[j] = b[j]
        BY <1>4, <2>2, <2>3, <2>4
    <2> QED
        BY <2>5 DEF j
<1>9. ASSUME NEW k \in 1 .. m PROVE r[(h + c + k - 1) % C] = s[k]
    <2> DEFINE j == (h + c + k - 1) % C
    <2>1. k \in Nat /\ k >= 1 /\ k <= m /\ h + c + k - 1 \in Nat /\ h + c + k - 1 < 2 * C
        BY <1>1
    <2>2. /\ j = IF h + c + k - 1 < C THEN h + c + k - 1 ELSE h + c + k - 1 - C
          /\ j \in 0 .. C - 1
        <3> DEFINE a == h + c + k - 1
        <3>1. a \in Nat /\ a < 2 * C
            BY <2>1
        <3> HIDE DEF a
        <3>2. a % C = (IF a < C THEN a ELSE a - C) /\ a % C \in 0 .. C - 1
            BY <3>1, Wraps
        <3> QED
            BY <1>1, <2>1, <3>2 DEF a
    <2> HIDE DEF j
    <2>3. CASE k <= first
        <3>1. j \in t .. t + first - 1 /\ j - t + 1 = k
            BY <1>1, <1>2, <1>3, <2>1, <2>2, <2>3
        <3>2. r[j] = s[j - t + 1]
            BY <1>4, <2>2, <3>1
        <3> QED
            BY <3>1, <3>2 DEF j
    <2>4. CASE k > first
        <3>1. first = C - t
            BY <1>1, <1>2, <1>3, <2>1, <2>4
        <3>2. j = k - first - 1 /\ j < m - first /\ first + j + 1 = k
            BY <1>1, <1>2, <1>3, <2>1, <2>2, <2>4, <3>1
        <3>3. ~ (j \in t .. t + first - 1)
            BY <1>1, <1>2, <1>3, <2>1, <2>4, <3>1, <3>2
        <3>4. r[j] = s[first + j + 1]
            BY <1>4, <2>2, <3>2, <3>3
        <3> QED
            BY <3>2, <3>4 DEF j
    <2> QED
        BY <1>3, <2>1, <2>3, <2>4
<1> QED
    BY <1>7, <1>8, <1>9 DEF r, m

(* A call on an end works on a pipe.                                       *)
LEMMA TargetPipe ==
    ASSUME CallInv, NEW p \in Procs, pc[p] \in InCall
    PROVE  Target(p) \in Pipes /\ Side(p) \in Sides /\ call[p].d \in Descs
<1>1. call[p].d \in Descs /\ call[p].op \in Sides /\ Exists(call[p].d, call[p].op)
    BY DEF CallInv
<1> QED
    BY <1>1, PipeAssumption DEF Exists, Target, Side, Sides

(* The bytes in transit are a sequence of count bytes.                     *)
LEMMA ContentsBytes ==
    ASSUME TypeOK, NEW x \in Pipes
    PROVE  /\ Contents(x) \in Seq(Byte) /\ Len(Contents(x)) = count[x]
           /\ \A i \in 1 .. count[x] : Contents(x)[i] = buffer[x][(head[x] + i - 1) % FS_PIPE_CAPACITY]
<1> DEFINE C == FS_PIPE_CAPACITY
<1>1. /\ C \in Nat /\ C > 0 /\ head[x] \in Nat /\ head[x] < C
      /\ count[x] \in Nat /\ count[x] <= C /\ buffer[x] \in [0 .. C - 1 -> Byte]
    BY PipeAssumption DEF TypeOK
<1>2. ASSUME NEW i \in 1 .. count[x] PROVE buffer[x][(head[x] + i - 1) % C] \in Byte
    <2> DEFINE a == head[x] + i - 1
    <2>1. a \in Nat /\ a < 2 * C
        BY <1>1
    <2> HIDE DEF a
    <2>2. a % C \in 0 .. C - 1
        BY <2>1, Wraps
    <2>3. buffer[x][a % C] \in Byte
        BY <1>1, <2>2
    <2> QED
        BY <2>3 DEF a
<1>3. Contents(x) \in [1 .. count[x] -> Byte]
    BY <1>2 DEF Contents
<1>4. Contents(x) \in Seq(Byte)
    BY <1>1, <1>3, SeqDef
<1>5. Len(Contents(x)) = count[x]
    BY <1>1, <1>3, <1>4, LenProperties
<1> QED
    BY <1>4, <1>5 DEF Contents

(* pipe_read takes the oldest bytes and leaves the others in order.        *)
LEMMA ReadRing ==
    ASSUME TypeOK, CallInv, RingInv, NEW p \in Procs, ReadData(p)
    PROVE  /\ base' \in Seq(Byte) /\ head' \in [Pipes -> 0 .. FS_PIPE_CAPACITY - 1]
           /\ count' \in [Pipes -> 0 .. FS_PIPE_CAPACITY]
           /\ RingInv'
           /\ \E x \in Pipes, n \in Nat :
                /\ n >= 1 /\ n <= Len(Contents(x))
                /\ base' = SubSeq(Contents(x), 1, n)
                /\ Contents(x)' = SubSeq(Contents(x), n + 1, Len(Contents(x)))
                /\ \A y \in Pipes \ {x} : Contents(y)' = Contents(y)
<1> DEFINE C == FS_PIPE_CAPACITY
<1>0. PICK x \in Pipes : x = Target(p)
    <2>1. pc[p] \in InCall
        BY DEF ReadData, InCall
    <2> QED
        BY <2>1, TargetPipe
<1> DEFINE n == Lesser(call[p].len, count[x])
           h == head[x]
           c == count[x]
<1>1. x \in Pipes /\ call[p].len \in Nat \ {0} /\ c # 0
    <2>1. pc[p] \in InCall /\ call[p].op = "read" /\ c # 0
        BY <1>0 DEF ReadData, InCall
    <2>2. call[p] \in Arguments
        BY DEF TypeOK
    <2> QED
        BY <2>1, <2>2 DEF CallInv, Arguments
<1>2. /\ base' = CopyOut(buffer[x], h, n)
      /\ head' = [head EXCEPT ![x] = (h + n) % C]
      /\ count' = [count EXCEPT ![x] = c - n]
      /\ buffer' = buffer /\ tail' = tail
    BY <1>0 DEF ReadData, Advance
<1>3. /\ C \in Nat /\ C > 0 /\ h \in Nat /\ h < C /\ h \in 0 .. C - 1
      /\ c \in Nat /\ c <= C /\ c \in 0 .. C /\ buffer[x] \in [0 .. C - 1 -> Byte]
      /\ tail[x] = (h + c) % C
    BY <1>1, PipeAssumption DEF TypeOK, RingInv
<1>4. n \in Nat /\ n >= 1 /\ n <= c /\ n \in 0 .. C
    BY <1>1, <1>3 DEF Lesser
<1> HIDE DEF n, h, c
<1>5. (h + n) % C = (IF h + n < C THEN h + n ELSE h + n - C) /\ (h + n) % C \in 0 .. C - 1
    <2> DEFINE a == h + n
    <2>1. a \in Nat /\ a < 2 * C
        BY <1>3, <1>4
    <2> HIDE DEF a
    <2>2. a % C = (IF a < C THEN a ELSE a - C) /\ a % C \in 0 .. C - 1
        BY <2>1, Wraps
    <2>3. (h + n) % C \in 0 .. C - 1
        BY <2>2 DEF a
    <2>4. (h + n) % C = (IF h + n < C THEN h + n ELSE h + n - C)
        BY <1>3, <1>4, <2>2 DEF a
    <2> QED
        BY <2>3, <2>4
<1> DEFINE h2 == (h + n) % C
<1>6. h2 = (IF h + n < C THEN h + n ELSE h + n - C) /\ h2 \in 0 .. C - 1 /\ h2 \in Nat
    BY <1>3, <1>5
<1>7. /\ head' = [head EXCEPT ![x] = h2] /\ head'[x] = h2
      /\ count'[x] = c - n
      /\ \A y \in Pipes \ {x} : head'[y] = head[y] /\ count'[y] = count[y]
    BY <1>1, <1>2 DEF TypeOK, h, c
<1> HIDE DEF h2
<1>8. head' \in [Pipes -> 0 .. C - 1] /\ count' \in [Pipes -> 0 .. C]
    <2>1. c - n \in 0 .. C
        BY <1>3, <1>4
    <2> QED
        BY <1>1, <1>2, <1>6, <1>7, <2>1 DEF TypeOK
<1>9. base' \in [1 .. n -> Byte] /\ \A i \in 1 .. n : base'[i] = buffer[x][(h + i - 1) % C]
    BY <1>2, <1>3, <1>4, CopyOutBytes
<1>10. base' \in Seq(Byte) /\ Len(base') = n
    <2>1. base' \in Seq(Byte)
        BY <1>4, <1>9, SeqDef
    <2> QED
        BY <1>4, <1>9, <2>1, LenProperties
<1>11. ASSUME NEW i \in Nat, i >= 1, i <= c - n
       PROVE  (h2 + i - 1) % C = (h + (n + i) - 1) % C
    <2> DEFINE a == h2 + i - 1
               e == h + (n + i) - 1
    <2>1. a \in Nat /\ a < 2 * C /\ e \in Nat /\ e < 2 * C /\ (e = a \/ e = a + C)
        BY <1>3, <1>4, <1>6, <1>11
    <2>2. e = a + C => a < C
        BY <1>3, <1>4, <1>6, <1>11, <2>1
    <2> HIDE DEF a, e
    <2>3. a % C = (IF a < C THEN a ELSE a - C) /\ e % C = (IF e < C THEN e ELSE e - C)
        BY <2>1, Wraps
    <2>4. a % C = e % C
        BY <1>3, <2>1, <2>2, <2>3
    <2> QED
        BY <2>4 DEF a, e
<1>12. RingInv'
    <2>1. ASSUME NEW y \in Pipes \ {x} PROVE tail'[y] = (head'[y] + count'[y]) % C
        BY <1>2, <1>7, <2>1 DEF RingInv
    <2>2. (h2 + (c - n)) % C = (h + c) % C
        <3> DEFINE a == h2 + (c - n)
                   e == h + c
        <3>1. a \in Nat /\ a < 2 * C /\ e \in Nat /\ e < 2 * C /\ (e = a \/ (e = a + C /\ a < C))
            BY <1>3, <1>4, <1>6
        <3> HIDE DEF a, e
        <3>2. a % C = (IF a < C THEN a ELSE a - C) /\ e % C = (IF e < C THEN e ELSE e - C)
            BY <3>1, Wraps
        <3>3. a % C = e % C
            BY <1>3, <3>1, <3>2
        <3> QED
            BY <3>3 DEF a, e
    <2>3. tail'[x] = (head'[x] + count'[x]) % C
        BY <1>2, <1>3, <1>7, <2>2
    <2> QED
        BY <2>1, <2>3 DEF RingInv
<1>13. /\ Contents(x) \in Seq(Byte) /\ Len(Contents(x)) = c
       /\ \A i \in 1 .. c : Contents(x)[i] = buffer[x][(h + i - 1) % C]
    BY <1>1, ContentsBytes DEF h, c
<1>14. base' = SubSeq(Contents(x), 1, n)
    <2>1. /\ SubSeq(Contents(x), 1, n) \in Seq(Byte) /\ Len(SubSeq(Contents(x), 1, n)) = n
          /\ \A i \in 1 .. n : SubSeq(Contents(x), 1, n)[i] = Contents(x)[i]
        BY <1>3, <1>4, <1>13, SubSeqProperties
    <2>2. \A i \in 1 .. n : base'[i] = SubSeq(Contents(x), 1, n)[i]
        <3> TAKE i \in 1 .. n
        <3>1. i \in 1 .. c
            BY <1>3, <1>4
        <3>2. Contents(x)[i] = buffer[x][(h + i - 1) % C]
            BY <1>13, <3>1
        <3> QED
            BY <1>9, <2>1, <3>2
    <2> QED
        BY <1>10, <2>1, <2>2, SeqEqual
<1>15. Contents(x)' = SubSeq(Contents(x), n + 1, c)
    <2> DEFINE s == SubSeq(Contents(x), n + 1, c)
    <2>1. /\ s \in Seq(Byte) /\ Len(s) = c - n
          /\ \A i \in 1 .. c - n : s[i] = Contents(x)[n + i]
        <3>1. n \in 0 .. c /\ c \in Nat
            BY <1>3, <1>4
        <3> HIDE DEF c, n
        <3> QED
            BY <1>13, <3>1, SuffixFacts
    <2>2. Contents(x)' = [i \in 1 .. c - n |-> buffer[x][(h2 + i - 1) % C]]
        BY <1>2, <1>7 DEF Contents
    <2>3. ASSUME NEW i \in 1 .. c - n PROVE s[i] = buffer[x][(h2 + i - 1) % C]
        <3>1. i \in Nat /\ i >= 1 /\ i <= c - n /\ n + i \in 1 .. c
            BY <1>3, <1>4
        <3>2. s[i] = Contents(x)[n + i]
            BY <2>1
        <3>3. Contents(x)[n + i] = buffer[x][(h + (n + i) - 1) % C]
            BY <1>13, <3>1
        <3> QED
            BY <1>11, <3>1, <3>2, <3>3
    <2>4. s = [i \in 1 .. c - n |-> s[i]]
        BY <1>3, <1>4, <2>1, LenProperties
    <2> HIDE DEF s
    <2>5. s = [i \in 1 .. c - n |-> buffer[x][(h2 + i - 1) % C]]
        BY <2>3, <2>4
    <2> QED
        BY <2>2, <2>5 DEF s
<1>16. \A y \in Pipes \ {x} : Contents(y)' = Contents(y)
    BY <1>2, <1>7 DEF Contents
<1> QED
    BY <1>1, <1>4, <1>8, <1>10, <1>12, <1>13, <1>14, <1>15, <1>16

(* pipe_write appends a prefix of its data, as much as there is room for.  *)
LEMMA WriteRing ==
    ASSUME TypeOK, CallInv, RingInv, NEW p \in Procs, WriteData(p)
    PROVE  /\ buffer' \in [Pipes -> [0 .. FS_PIPE_CAPACITY - 1 -> Byte]]
           /\ tail' \in [Pipes -> 0 .. FS_PIPE_CAPACITY - 1]
           /\ count' \in [Pipes -> 0 .. FS_PIPE_CAPACITY]
           /\ SubSeq(call[p].data, Lesser(Len(call[p].data), FS_PIPE_CAPACITY - count[Target(p)]) + 1,
                     Len(call[p].data)) \in Seq(Byte)
           /\ RingInv'
           /\ \E x \in Pipes, n \in Nat : \E s \in [1 .. n -> Byte] :
                /\ n >= 1 /\ n <= FS_PIPE_CAPACITY - Len(Contents(x))
                /\ base' = base
                /\ Contents(x)' = Contents(x) \o s
                /\ \A y \in Pipes \ {x} : Contents(y)' = Contents(y)
<1> DEFINE C == FS_PIPE_CAPACITY
<1>0. PICK x \in Pipes : x = Target(p)
    <2>1. pc[p] \in InCall
        BY DEF WriteData, InCall
    <2> QED
        BY <2>1, TargetPipe
<1> DEFINE data == call[p].data
           n == Lesser(Len(data), C - count[x])
           h == head[x]
           c == count[x]
           t == tail[x]
           s == SubSeq(data, 1, n)
<1>1. data \in Seq(Byte) /\ data # <<>> /\ c < C
    <2>1. pc[p] \in InCall /\ pc[p] = "loop" /\ call[p].op = "write" /\ c < C
        BY <1>0 DEF WriteData, InCall
    <2>2. call[p] \in Arguments
        BY DEF TypeOK
    <2> QED
        BY <2>1, <2>2 DEF CallInv, Arguments
<1>2. /\ buffer' = [buffer EXCEPT ![x] = CopyIn(buffer[x], t, s)]
      /\ tail' = [tail EXCEPT ![x] = (t + n) % C]
      /\ count' = [count EXCEPT ![x] = c + n]
      /\ head' = head /\ base' = base
    BY <1>0 DEF WriteData, Advance
<1>3. /\ C \in Nat /\ C > 0 /\ h \in Nat /\ h < C /\ h \in 0 .. C - 1
      /\ c \in Nat /\ c < C /\ c \in 0 .. C /\ buffer[x] \in [0 .. C - 1 -> Byte]
      /\ t \in Nat /\ t < C /\ t = (h + c) % C
    BY <1>0, <1>1, PipeAssumption DEF TypeOK, RingInv
<1>4. Len(data) \in Nat /\ Len(data) >= 1
    <2>1. Len(data) \in Nat
        BY <1>1, LenProperties
    <2>2. Len(data) # 0
        BY <1>1, EmptySeq
    <2> QED
        BY <2>1, <2>2
<1>5. n \in Nat /\ n >= 1 /\ n <= Len(data) /\ n <= C - c
    BY <1>3, <1>4, SMTT(60) DEF Lesser
<1>6. SubSeq(data, n + 1, Len(data)) \in Seq(Byte)
    BY <1>1, <1>4, <1>5, SubSeqProperties
<1>7. s \in Seq(Byte) /\ Len(s) = n /\ s \in [1 .. n -> Byte]
    <2>1. s \in Seq(Byte) /\ Len(s) = n
        BY <1>1, <1>4, <1>5, SubSeqProperties
    <2> QED
        BY <2>1, LenProperties
<1> HIDE DEF n, s, data, c, h, t
<1> DEFINE b2 == CopyIn(buffer[x], t, s)
<1>8. /\ b2 \in [0 .. C - 1 -> Byte]
      /\ \A i \in 1 .. c : b2[(h + i - 1) % C] = buffer[x][(h + i - 1) % C]
      /\ \A k \in 1 .. n : b2[(h + c + k - 1) % C] = s[k]
    <2>1. Len(s) <= C - c
        BY <1>5, <1>7
    <2> QED
        BY <1>3, <1>7, <2>1, CopyInBytes
<1> HIDE DEF b2
<1>9. (t + n) % C = (h + (c + n)) % C /\ (t + n) % C \in 0 .. C - 1
    <2> DEFINE a == h + c
               d == t + n
               e == h + (c + n)
    <2>1. a \in Nat /\ a < 2 * C /\ d \in Nat /\ d < 2 * C /\ e \in Nat /\ e < 2 * C /\ e = a + n
        BY <1>3, <1>5
    <2>2. t = a % C /\ d = t + n
        BY <1>3
    <2> HIDE DEF a, d, e
    <2>3. a % C = (IF a < C THEN a ELSE a - C)
        BY <2>1, Wraps
    <2>4. d % C = (IF d < C THEN d ELSE d - C) /\ d % C \in 0 .. C - 1
        BY <2>1, Wraps
    <2>5. e % C = (IF e < C THEN e ELSE e - C)
        BY <2>1, Wraps
    <2>6. d % C = e % C
        BY <1>3, <1>5, <2>1, <2>2, <2>3, <2>4, <2>5
    <2> QED
        BY <2>4, <2>6 DEF d, e
<1>10. /\ buffer'[x] = b2 /\ count'[x] = c + n /\ tail'[x] = (t + n) % C
       /\ \A y \in Pipes \ {x} : buffer'[y] = buffer[y] /\ count'[y] = count[y] /\ tail'[y] = tail[y]
    BY <1>2 DEF TypeOK, b2
<1>11. buffer' \in [Pipes -> [0 .. C - 1 -> Byte]]
    BY <1>2, <1>8 DEF TypeOK, b2
<1>12. tail' \in [Pipes -> 0 .. C - 1]
    BY <1>2, <1>9 DEF TypeOK
<1>13. count' \in [Pipes -> 0 .. C]
    <2>1. c + n \in 0 .. C
        BY <1>3, <1>5
    <2> QED
        BY <1>2, <2>1 DEF TypeOK
<1>14. RingInv'
    <2>1. ASSUME NEW y \in Pipes \ {x} PROVE tail'[y] = (head'[y] + count'[y]) % C
        BY <1>2, <1>10, <2>1 DEF RingInv
    <2>2. tail'[x] = (head'[x] + count'[x]) % C
        BY <1>2, <1>9, <1>10 DEF h
    <2> QED
        BY <2>1, <2>2 DEF RingInv
<1>15. /\ Contents(x) \in Seq(Byte) /\ Len(Contents(x)) = c
       /\ \A i \in 1 .. c : Contents(x)[i] = buffer[x][(h + i - 1) % C]
    BY ContentsBytes DEF h, c
<1>16. Contents(x)' = Contents(x) \o s
    <2> DEFINE r == Contents(x) \o s
    <2>1. /\ r \in Seq(Byte) /\ Len(r) = c + n
          /\ \A i \in 1 .. c + n : r[i] = IF i <= c THEN Contents(x)[i] ELSE s[i - c]
        BY <1>7, <1>15, ConcatProperties
    <2> HIDE DEF r
    <2>2. Contents(x)' = [i \in 1 .. c + n |-> b2[(h + i - 1) % C]]
        BY <1>2, <1>10 DEF Contents, h
    <2>3. ASSUME NEW i \in 1 .. c + n PROVE r[i] = b2[(h + i - 1) % C]
        <3>1. CASE i <= c
            <4>1. i \in 1 .. c
                BY <1>3, <1>5, <3>1
            <4> QED
                BY <1>8, <1>15, <2>1, <3>1, <4>1
        <3>2. CASE i > c
            <4>1. i \in Nat /\ i - c \in 1 .. n /\ ~ (i <= c) /\ h + c + (i - c) - 1 = h + i - 1
                BY <1>3, <1>5, <3>2
            <4>2. r[i] = s[i - c]
                BY <2>1, <4>1
            <4>3. b2[(h + c + (i - c) - 1) % C] = s[i - c]
                BY <1>8, <4>1
            <4> QED
                BY <4>1, <4>2, <4>3
        <3> QED
            BY <1>3, <1>5, <3>1, <3>2
    <2>4. r = [i \in 1 .. c + n |-> r[i]]
        BY <1>3, <1>5, <2>1, LenProperties
    <2>5. r = [i \in 1 .. c + n |-> b2[(h + i - 1) % C]]
        BY <2>3, <2>4
    <2> QED
        BY <2>2, <2>5 DEF r
<1>17. \A y \in Pipes \ {x} : Contents(y)' = Contents(y)
    BY <1>2, <1>10 DEF Contents
<1>18. SubSeq(call[p].data, Lesser(Len(call[p].data), C - count[Target(p)]) + 1, Len(call[p].data)) \in Seq(Byte)
    BY <1>0, <1>6 DEF n, data
<1>19. n <= C - Len(Contents(x))
    BY <1>5, <1>15
<1> QED
    BY <1>0, <1>2, <1>5, <1>7, <1>11, <1>12, <1>13, <1>14, <1>16, <1>17, <1>18, <1>19
-----------------------------------------------------------------------------
(* The position of one process changes, and perhaps its call.              *)
ControlTypes ==
    /\ pc \in [Procs -> PCs] /\ call \in [Procs -> Arguments]
    /\ holder \in [Descs -> Procs \cup {None}]

Control == ControlTypes /\ CallInv /\ HolderInv

(* What CallInv says of one process.                                       *)
CallFits(at, c) ==
    /\ at = "user" => c.d = None
    /\ at \in InCall =>
          /\ c.d \in Descs /\ c.op \in Sides /\ Exists(c.d, c.op)
          /\ c.op = "read" => c.len # 0
          /\ c.op = "write" /\ at \notin {"wake", "ret"} => c.data # <<>>
    /\ at \in {"close", "closewake"} =>
          c.d \in Descs /\ c.todo # {} /\ \A s \in c.todo : Exists(c.d, s)

(* A process that moves to a place that suits its call, within or outside  *)
(* the section of operation_sem it was in, keeps the control invariant.    *)
LEMMA Moves ==
    ASSUME Control, NEW p \in Procs, NEW at \in PCs, NEW c \in Arguments,
           pc' = [pc EXCEPT ![p] = at], call' = [call EXCEPT ![p] = c], UNCHANGED holder,
           CallFits(at, c),
           at \in InOperation => holder[c.d] = p
    PROVE  Control'
<1>1. /\ pc'[p] = at /\ call'[p] = c
      /\ \A q \in Procs \ {p} : pc'[q] = pc[q] /\ call'[q] = call[q]
    BY DEF Control, ControlTypes
<1>2. ControlTypes'
    BY DEF Control, ControlTypes
<1>3. CallInv'
    <2> SUFFICES ASSUME NEW q \in Procs PROVE CallFits(pc'[q], call'[q])
        BY DEF CallInv, CallFits
    <2>1. CASE q = p
        BY <1>1, <2>1
    <2>2. CASE q # p
        BY <1>1, <2>2 DEF Control, CallInv, CallFits
    <2> QED
        BY <2>1, <2>2
<1>4. HolderInv'
    <2> SUFFICES ASSUME NEW q \in Procs, pc'[q] \in InOperation PROVE holder'[call'[q].d] = q
        BY DEF HolderInv
    <2>1. CASE q = p
        BY <1>1, <2>1
    <2>2. CASE q # p
        BY <1>1, <2>2 DEF Control, HolderInv
    <2> QED
        BY <2>1, <2>2
<1> QED
    BY <1>2, <1>3, <1>4 DEF Control

(* A process that goes on with the same call.                              *)
LEMMA MovesOn ==
    ASSUME Control, NEW p \in Procs, NEW at \in PCs,
           pc' = [pc EXCEPT ![p] = at], UNCHANGED <<call, holder>>,
           CallFits(at, call[p]),
           at \in InOperation => pc[p] \in InOperation
    PROVE  Control'
<1>1. call[p] \in Arguments /\ call' = [call EXCEPT ![p] = call[p]]
    BY DEF Control, ControlTypes
<1>2. at \in InOperation => holder[call[p].d] = p
    BY DEF Control, HolderInv
<1> QED
    BY <1>1, <1>2, Moves

(* The steps of a read or a write keep the control invariant.              *)
LEMMA CallSteps ==
    ASSUME Control, NEW p \in Procs,
           \/ ReadData(p) \/ ReadEmpty(p) \/ WriteBroken(p) \/ WriteFull(p) \/ WakeOther(p)
           \/ Down(p) \/ DownCheck(p) \/ DownReturns(p)
    PROVE  Control'
<1>1. CallFits(pc[p], call[p])
    BY DEF Control, CallInv, CallFits
<1>2. UNCHANGED <<call, holder>>
    BY DEF ReadData, ReadEmpty, WriteBroken, WriteFull, WakeOther, Down, DownCheck, DownReturns
<1>3. CASE ReadData(p)
    <2>1. pc[p] = "loop" /\ call[p].op = "read" /\ pc' = [pc EXCEPT ![p] = "wake"]
        BY <1>3 DEF ReadData, Goto
    <2> QED
        BY <1>1, <1>2, <2>1, MovesOn DEF CallFits, InCall, InOperation, PCs
<1>4. CASE ReadEmpty(p)
    <2>1. PICK at \in {"ret", "down"} : pc[p] = "loop" /\ call[p].op = "read" /\ pc' = [pc EXCEPT ![p] = at]
        BY <1>4 DEF ReadEmpty, Goto
    <2> QED
        BY <1>1, <1>2, <2>1, MovesOn DEF CallFits, InCall, InOperation, PCs
<1>5. CASE WriteBroken(p)
    <2>1. pc[p] = "loop" /\ pc' = [pc EXCEPT ![p] = "ret"]
        BY <1>5 DEF WriteBroken, Goto
    <2> QED
        BY <1>1, <1>2, <2>1, MovesOn DEF CallFits, InCall, InOperation, PCs
<1>6. CASE WriteFull(p)
    <2>1. PICK at \in {"ret", "down"} : pc[p] = "loop" /\ pc' = [pc EXCEPT ![p] = at]
        BY <1>6 DEF WriteFull, Goto
    <2> QED
        BY <1>1, <1>2, <2>1, MovesOn DEF CallFits, InCall, InOperation, PCs
<1>7. CASE WakeOther(p)
    <2>1. /\ pc[p] = "wake"
          /\ \/ pc' = [pc EXCEPT ![p] = "ret"]
             \/ pc' = [pc EXCEPT ![p] = "loop"] /\ call[p].op # "read" /\ call[p].data # <<>>
        BY <1>7 DEF WakeOther, Goto, Side
    <2>2. CASE pc' = [pc EXCEPT ![p] = "ret"]
        BY <1>1, <1>2, <2>1, <2>2, MovesOn DEF CallFits, InCall, InOperation, PCs
    <2>3. CASE pc' = [pc EXCEPT ![p] = "loop"] /\ call[p].op # "read" /\ call[p].data # <<>>
        BY <1>1, <1>2, <2>1, <2>3, MovesOn DEF CallFits, InCall, InOperation, PCs
    <2> QED
        BY <2>1, <2>2, <2>3
<1>8. CASE Down(p)
    <2>1. PICK at \in {"loop", "queued"} : pc[p] = "down" /\ pc' = [pc EXCEPT ![p] = at]
        BY <1>8 DEF Down, Goto
    <2> QED
        BY <1>1, <1>2, <2>1, MovesOn DEF CallFits, InCall, InOperation, PCs
<1>9. CASE DownCheck(p)
    <2>1. PICK at \in {"ret", "asleep"} : pc[p] = "queued" /\ pc' = [pc EXCEPT ![p] = at]
        BY <1>9 DEF DownCheck, Goto
    <2> QED
        BY <1>1, <1>2, <2>1, MovesOn DEF CallFits, InCall, InOperation, PCs
<1>10. CASE DownReturns(p)
    <2>1. PICK at \in {"loop", "ret"} : pc[p] = "asleep" /\ pc' = [pc EXCEPT ![p] = at]
        BY <1>10 DEF DownReturns, Goto
    <2> QED
        BY <1>1, <1>2, <2>1, MovesOn DEF CallFits, InCall, InOperation, PCs
<1> QED
    BY <1>3, <1>4, <1>5, <1>6, <1>7, <1>8, <1>9, <1>10

(* pipe_write goes on with what is left of its data.                       *)
LEMMA WriteDataControl ==
    ASSUME TypeOK, RingInv, Control, NEW p \in Procs, WriteData(p)
    PROVE  Control'
<1> DEFINE s == SubSeq(call[p].data,
                       Lesser(Len(call[p].data), FS_PIPE_CAPACITY - count[Target(p)]) + 1,
                       Len(call[p].data))
           c == [call[p] EXCEPT !.data = s, !.written = TRUE]
<1>1. call[p] \in Arguments /\ CallFits(pc[p], call[p])
    BY DEF Control, ControlTypes, CallInv, CallFits
<1>2. s \in Seq(Byte)
    BY WriteRing DEF Control
<1>3. /\ pc[p] = "loop" /\ call[p].op = "write" /\ pc' = [pc EXCEPT ![p] = "wake"]
      /\ UNCHANGED holder
    BY DEF WriteData, Goto
<1>4. call' = [call EXCEPT ![p] = c]
    <2>1. call' = [call EXCEPT ![p].data = s, ![p].written = TRUE]
        BY DEF WriteData
    <2> HIDE DEF s
    <2> QED
        BY <2>1 DEF Control, ControlTypes
<1> HIDE DEF s
<1>5. c \in Arguments /\ c.op = call[p].op /\ c.d = call[p].d /\ c.len = call[p].len
    BY <1>1, <1>2, CallUpdates
<1> HIDE DEF c
<1>6. holder[c.d] = p
    BY <1>3, <1>5 DEF Control, HolderInv, InOperation, InCall
<1>7. CallFits("wake", c)
    BY <1>1, <1>3, <1>5 DEF CallFits, InCall
<1>8. "wake" \in PCs
    BY DEF PCs
<1> QED
    BY <1>3, <1>4, <1>5, <1>6, <1>7, <1>8, Moves

(* The first steps of file_read and file_write.                            *)
LEMMA EnterSteps ==
    ASSUME TypeOK, Control, NEW p \in Procs, NEW d \in Descs, NEW nb \in BOOLEAN,
           \/ \E n \in Nat \ {0} : ReadCall(p, d, n, nb)
           \/ \E s \in Seq(Byte) : s # <<>> /\ WriteCall(p, d, s, nb)
    PROVE  Control'
<1>1. CASE \E n \in Nat \ {0} : ReadCall(p, d, n, nb)
    <2>1. PICK n \in Nat \ {0} : ReadCall(p, d, n, nb)
        BY <1>1
    <2> DEFINE c == [NoCall EXCEPT !.op = "read", !.d = d, !.len = n, !.nonblock = nb]
    <2>2. /\ pc' = [pc EXCEPT ![p] = "op"] /\ call' = [call EXCEPT ![p] = c] /\ UNCHANGED holder
          /\ rd[d] # None
        BY <2>1 DEF ReadCall, Goto
    <2>3. c \in Arguments /\ c.op = "read" /\ c.d = d /\ c.len = n
        <3>1. <<>> \in Seq(Byte)
            OBVIOUS
        <3> QED
            BY <3>1 DEF NoCall, Arguments, Sides
    <2> HIDE DEF c
    <2>4. CallFits("op", c) /\ "op" \in PCs /\ "op" \notin InOperation
        BY <2>2, <2>3 DEF CallFits, Exists, InCall, InOperation, Sides, PCs
    <2> QED
        BY <2>2, <2>3, <2>4, Moves
<1>2. CASE \E s \in Seq(Byte) : s # <<>> /\ WriteCall(p, d, s, nb)
    <2>1. PICK s \in Seq(Byte) : s # <<>> /\ WriteCall(p, d, s, nb)
        BY <1>2
    <2> DEFINE c == [NoCall EXCEPT !.op = "write", !.d = d, !.data = s, !.nonblock = nb]
    <2>2. /\ pc' = [pc EXCEPT ![p] = "op"] /\ call' = [call EXCEPT ![p] = c] /\ UNCHANGED holder
          /\ wr[d] # None
        BY <2>1 DEF WriteCall, Goto
    <2>3. c \in Arguments /\ c.op = "write" /\ c.d = d /\ c.data = s
        BY DEF NoCall, Arguments, Sides
    <2> HIDE DEF c
    <2>4. CallFits("op", c) /\ "op" \in PCs /\ "op" \notin InOperation
        BY <2>1, <2>2, <2>3 DEF CallFits, Exists, InCall, InOperation, Sides, PCs
    <2> QED
        BY <2>2, <2>3, <2>4, Moves
<1> QED
    BY <1>1, <1>2

(* down(&operation_sem) and up(&operation_sem).                            *)
LEMMA OperationSteps ==
    ASSUME Control, NEW p \in Procs, OperationDown(p) \/ OperationUp(p)
    PROVE  Control'
<1>1. CASE OperationDown(p)
    <2>1. /\ pc[p] = "op" /\ holder[call[p].d] = None /\ UNCHANGED call
          /\ holder' = [holder EXCEPT ![call[p].d] = p] /\ pc' = [pc EXCEPT ![p] = "loop"]
        BY <1>1 DEF OperationDown, Goto
    <2>2. call[p].d \in Descs
        BY <2>1 DEF Control, CallInv, InCall
    <2>3. ControlTypes'
        BY <2>1, <2>2 DEF Control, ControlTypes, PCs
    <2>4. CallInv'
        <3> SUFFICES ASSUME NEW q \in Procs PROVE CallFits(pc'[q], call'[q])
            BY DEF CallInv, CallFits
        <3>1. CallFits(pc[q], call[q])
            BY DEF Control, CallInv, CallFits
        <3>2. pc'[q] = IF q = p THEN "loop" ELSE pc[q]
            BY <2>1 DEF Control, ControlTypes
        <3> QED
            BY <2>1, <3>1, <3>2 DEF CallFits, InCall
    <2>5. HolderInv'
        <3> SUFFICES ASSUME NEW q \in Procs, pc'[q] \in InOperation PROVE holder'[call'[q].d] = q
            BY DEF HolderInv
        <3>1. CASE q = p
            BY <2>1, <2>2, <3>1 DEF Control, ControlTypes
        <3>2. CASE q # p
            <4>1. pc[q] \in InOperation
                BY <2>1, <3>2 DEF Control, ControlTypes
            <4>2. holder[call[q].d] = q /\ call[q].d \in Descs
                BY <4>1 DEF Control, HolderInv, CallInv, InOperation
            <4>3. call[q].d # call[p].d
                BY <2>1, <4>2, PipeAssumption
            <4> QED
                BY <2>1, <4>2, <4>3 DEF Control, ControlTypes
        <3> QED
            BY <3>1, <3>2
    <2> QED
        BY <2>3, <2>4, <2>5 DEF Control
<1>2. CASE OperationUp(p)
    <2>1. /\ pc[p] = "ret" /\ call' = [call EXCEPT ![p] = NoCall]
          /\ holder' = [holder EXCEPT ![call[p].d] = None] /\ pc' = [pc EXCEPT ![p] = "user"]
        BY <1>2 DEF OperationUp, Goto, Ends
    <2>2. call[p].d \in Descs /\ holder[call[p].d] = p
        BY <2>1 DEF Control, CallInv, HolderInv, InCall, InOperation
    <2>3. ControlTypes'
        BY <2>1, <2>2, CallTypes DEF Control, ControlTypes, PCs
    <2>4. /\ pc'[p] = "user" /\ call'[p] = NoCall
          /\ \A q \in Procs \ {p} : pc'[q] = pc[q] /\ call'[q] = call[q]
        BY <2>1 DEF Control, ControlTypes
    <2>5. CallInv'
        <3> SUFFICES ASSUME NEW q \in Procs PROVE CallFits(pc'[q], call'[q])
            BY DEF CallInv, CallFits
        <3>1. CallFits(pc[q], call[q])
            BY DEF Control, CallInv, CallFits
        <3>2. CallFits("user", NoCall)
            BY CallTypes DEF CallFits, InCall
        <3> QED
            BY <2>4, <3>1, <3>2
    <2>6. HolderInv'
        <3> SUFFICES ASSUME NEW q \in Procs, pc'[q] \in InOperation PROVE holder'[call'[q].d] = q
            BY DEF HolderInv
        <3>1. q # p
            BY <2>4 DEF InOperation, InCall
        <3>2. pc[q] \in InOperation /\ call'[q] = call[q]
            BY <2>4, <3>1
        <3>3. holder[call[q].d] = q /\ call[q].d \in Descs
            BY <3>2 DEF Control, HolderInv, CallInv, InOperation
        <3>4. call[q].d # call[p].d
            BY <2>2, <3>1, <3>3
        <3> QED
            BY <2>1, <3>2, <3>3, <3>4 DEF Control, ControlTypes
    <2> QED
        BY <2>3, <2>5, <2>6 DEF Control
<1> QED
    BY <1>1, <1>2

(* A closing process goes on to its next end, or is done.                  *)
LEMMA CloseNextEffect ==
    ASSUME Control, NEW p \in Procs, CloseNext(p)
    PROVE  LET left == call[p].todo \ {ClosingSide(p)}
               c == [call[p] EXCEPT !.todo = left] IN
           \/ /\ left = {}
              /\ pc' = [pc EXCEPT ![p] = "user"] /\ call' = [call EXCEPT ![p] = NoCall] /\ Ends(p)
           \/ /\ left # {} /\ pc' = [pc EXCEPT ![p] = "close"] /\ UNCHANGED ref_count
              /\ call' = [call EXCEPT ![p] = c]
              /\ c \in Arguments /\ c.op = call[p].op /\ c.d = call[p].d /\ c.todo = left
<1> DEFINE left == call[p].todo \ {ClosingSide(p)}
           c == [call[p] EXCEPT !.todo = left]
<1>1. call[p] \in Arguments /\ left \in SUBSET Sides
    BY DEF Control, ControlTypes, Arguments
<1>2. c \in Arguments /\ c.op = call[p].op /\ c.d = call[p].d /\ c.todo = left
    BY <1>1, CallUpdates
<1>3. CASE left = {} /\ Goto(p, "user") /\ Ends(p)
    BY <1>3 DEF Goto, Ends
<1>4. CASE left # {} /\ Goto(p, "close") /\ call' = [call EXCEPT ![p].todo = left] /\ UNCHANGED ref_count
    <2>1. call' = [call EXCEPT ![p] = c]
        BY <1>4 DEF Control, ControlTypes
    <2> QED
        BY <1>2, <1>4, <2>1 DEF Goto
<1> QED
    BY <1>3, <1>4 DEF CloseNext

(* The steps of a close.                                                   *)
LEMMA CloseSteps ==
    ASSUME Control, NEW p \in Procs,
           CloseEnd(p) \/ CloseWake(p) \/ \E d \in Descs : Close(p, d)
    PROVE  Control'
<1>1. call[p] \in Arguments /\ CallFits(pc[p], call[p])
    BY DEF Control, ControlTypes, CallInv, CallFits
<1>2. ASSUME pc[p] \in {"close", "closewake"}, CloseNext(p), UNCHANGED holder PROVE Control'
    <2> DEFINE left == call[p].todo \ {ClosingSide(p)}
               c == [call[p] EXCEPT !.todo = left]
    <2>1. CASE /\ left = {}
               /\ pc' = [pc EXCEPT ![p] = "user"] /\ call' = [call EXCEPT ![p] = NoCall] /\ Ends(p)
        <3>1. CallFits("user", NoCall) /\ "user" \in PCs /\ NoCall \in Arguments /\ "user" \notin InOperation
            BY CallTypes DEF CallFits, InCall, PCs, InOperation
        <3> QED
            BY <1>2, <2>1, <3>1, Moves
    <2>2. CASE /\ left # {} /\ pc' = [pc EXCEPT ![p] = "close"] /\ UNCHANGED ref_count
               /\ call' = [call EXCEPT ![p] = c]
               /\ c \in Arguments /\ c.op = call[p].op /\ c.d = call[p].d /\ c.todo = left
        <3>1. left \subseteq call[p].todo
            OBVIOUS
        <3> HIDE DEF c, left
        <3>2. CallFits("close", c) /\ "close" \in PCs /\ "close" \notin InOperation
            BY <1>1, <1>2, <2>2, <3>1 DEF CallFits, InCall, PCs, InOperation
        <3> QED
            BY <1>2, <2>2, <3>2, Moves
    <2> QED
        BY <1>2, <2>1, <2>2, CloseNextEffect
<1>3. CASE CloseEnd(p)
    <2>1. pc[p] = "close" /\ UNCHANGED holder
        BY <1>3 DEF CloseEnd
    <2>2. CASE CloseNext(p)
        BY <1>2, <2>1, <2>2
    <2>3. CASE Goto(p, "closewake") /\ UNCHANGED <<call, ref_count>>
        BY <1>1, <2>1, <2>3, MovesOn DEF Goto, CallFits, InCall, InOperation, PCs
    <2> QED
        BY <1>3, <2>2, <2>3 DEF CloseEnd
<1>4. CASE CloseWake(p)
    BY <1>2, <1>4 DEF CloseWake
<1>5. CASE \E d \in Descs : Close(p, d)
    <2>1. PICK d \in Descs : Close(p, d)
        BY <1>5
    <2> DEFINE t == {s \in Sides : (IF s = "read" THEN rd[d] ELSE wr[d]) # None}
               c == [NoCall EXCEPT !.d = d, !.todo = t]
    <2>2. pc' = [pc EXCEPT ![p] = "close"] /\ call' = [call EXCEPT ![p] = c] /\ UNCHANGED holder
        BY <2>1 DEF Close, Goto
    <2>3. t \in SUBSET Sides /\ t # {} /\ \A s \in t : Exists(d, s)
        BY PipeAssumption DEF EndsOK, Exists, Sides
    <2>4. c \in Arguments /\ c.d = d /\ c.todo = t
        <3>1. <<>> \in Seq(Byte)
            OBVIOUS
        <3> HIDE DEF t
        <3> QED
            BY <2>3, <3>1 DEF NoCall, Arguments, Sides
    <2> HIDE DEF c, t
    <2>5. CallFits("close", c) /\ "close" \in PCs /\ "close" \notin InOperation
        BY <2>3, <2>4 DEF CallFits, InCall, PCs, InOperation
    <2> QED
        BY <2>2, <2>4, <2>5, Moves
<1> QED
    BY <1>3, <1>4, <1>5

(* The next-state relation, one process at a time.                         *)
LEMMA NextCases ==
    ASSUME TypeOK, Next
    PROVE  \E p \in Procs :
        \/ Step(p) \/ OperationDown(p) \/ Kill(p) \/ SignalHandled(p)
        \/ \E d \in Descs :
            \/ Dup(p, d) \/ Close(p, d)
            \/ \E nb \in BOOLEAN :
                \/ \E n \in Nat \ {0} : ReadCall(p, d, n, nb)
                \/ \E s \in Seq(Byte) : s # <<>> /\ WriteCall(p, d, s, nb)
<1>1. SceneOK(scene)
    BY PipeAssumption DEF TypeOK
<1>2. scene.modes \subseteq BOOLEAN /\ scene.bytes \subseteq Byte
    BY <1>1 DEF SceneOK
<1>3. scene.lens["read"] \subseteq Nat \ {0} /\ scene.lens["write"] \subseteq Nat \ {0}
    BY <1>1 DEF SceneOK, Sides
<1>4. ASSUME NEW n \in scene.lens["write"], NEW s \in [1 .. n -> scene.bytes]
      PROVE  s \in Seq(Byte) /\ s # <<>>
    <2>1. n \in Nat /\ n # 0
        BY <1>3
    <2>2. s \in [1 .. n -> Byte]
        BY <1>2
    <2>3. s \in Seq(Byte)
        BY <2>1, <2>2, SeqDef
    <2>4. Len(s) = n
        BY <2>1, <2>2, <2>3, LenProperties
    <2> QED
        BY <2>1, <2>3, <2>4, EmptySeq
<1>5. PICK p \in Procs :
        \/ Step(p) \/ OperationDown(p) \/ Kill(p) \/ SignalHandled(p)
        \/ \E d \in Descs :
            \/ Dup(p, d) \/ Close(p, d)
            \/ \E nb \in scene.modes :
                \/ \E n \in scene.lens["read"] : ReadCall(p, d, n, nb)
                \/ \E n \in scene.lens["write"] : \E s \in [1 .. n -> scene.bytes] : WriteCall(p, d, s, nb)
    BY DEF Next
<1> QED
    BY <1>2, <1>3, <1>4, <1>5

(* Every step keeps the control invariant.                                 *)
LEMMA ControlStep ==
    ASSUME TypeOK, RingInv, Control, Next
    PROVE  Control'
<1>1. PICK p \in Procs :
        \/ Step(p) \/ OperationDown(p) \/ Kill(p) \/ SignalHandled(p)
        \/ \E d \in Descs :
            \/ Dup(p, d) \/ Close(p, d)
            \/ \E nb \in BOOLEAN :
                \/ \E n \in Nat \ {0} : ReadCall(p, d, n, nb)
                \/ \E s \in Seq(Byte) : s # <<>> /\ WriteCall(p, d, s, nb)
    BY NextCases
<1>2. CASE Kill(p) \/ SignalHandled(p) \/ \E d \in Descs : Dup(p, d)
    <2>1. UNCHANGED <<pc, call, holder>>
        BY <1>2 DEF Kill, SignalHandled, Dup
    <2> QED
        BY <2>1 DEF Control, ControlTypes, CallInv, HolderInv
<1>3. CASE Step(p)
    BY <1>3, CallSteps, WriteDataControl, OperationSteps, CloseSteps DEF Step
<1>4. CASE \E d \in Descs : Close(p, d)
    BY <1>4, CloseSteps
<1>5. CASE OperationDown(p)
    BY <1>5, OperationSteps
<1>6. CASE \E d \in Descs : \E nb \in BOOLEAN :
                \/ \E n \in Nat \ {0} : ReadCall(p, d, n, nb)
                \/ \E s \in Seq(Byte) : s # <<>> /\ WriteCall(p, d, s, nb)
    BY <1>6, EnterSteps
<1> QED
    BY <1>1, <1>2, <1>3, <1>4, <1>5, <1>6
-----------------------------------------------------------------------------
ClosingPcs == {"close", "closewake"}

(* All steps but those of a close leave the closing processes alone.       *)
LEMMA ClosersAlone ==
    ASSUME Control, NEW p \in Procs,
           \/ OperationUp(p) \/ ReadData(p) \/ ReadEmpty(p) \/ WriteBroken(p) \/ WriteData(p)
           \/ WriteFull(p) \/ WakeOther(p) \/ Down(p) \/ DownCheck(p) \/ DownReturns(p)
           \/ OperationDown(p) \/ Kill(p) \/ SignalHandled(p) \/ (\E d \in Descs : Dup(p, d))
           \/ \E d \in Descs : \E nb \in BOOLEAN :
                \/ \E n \in Nat \ {0} : ReadCall(p, d, n, nb)
                \/ \E s \in Seq(Byte) : s # <<>> /\ WriteCall(p, d, s, nb)
    PROVE  \A d \in Descs : ReadClosers(d)' = ReadClosers(d) /\ WriteClosers(d)' = WriteClosers(d)
<1>1. SUFFICES \A q \in Procs : pc[q] \in ClosingPcs \/ pc'[q] \in ClosingPcs
                    => pc'[q] = pc[q] /\ call'[q] = call[q]
    BY DEF ReadClosers, WriteClosers, ClosingPcs
<1>2. SUFFICES \/ UNCHANGED <<pc, call>>
               \/ /\ pc[p] \notin ClosingPcs
                  /\ \E at \in PCs \ ClosingPcs : pc' = [pc EXCEPT ![p] = at]
                  /\ \A q \in Procs \ {p} : call'[q] = call[q]
    BY DEF Control, ControlTypes
<1>3. CASE Kill(p) \/ SignalHandled(p) \/ \E d \in Descs : Dup(p, d)
    BY <1>3 DEF Kill, SignalHandled, Dup
<1>4. CASE OperationUp(p)
    BY <1>4 DEF OperationUp, Ends, Goto, ClosingPcs, PCs, Control, ControlTypes
<1>5. CASE ReadData(p) \/ ReadEmpty(p) \/ WriteBroken(p) \/ WriteFull(p)
    BY <1>5 DEF ReadData, ReadEmpty, WriteBroken, WriteFull, Goto, ClosingPcs, PCs
<1>6. CASE WriteData(p)
    <2>1. \A q \in Procs \ {p} : call'[q] = call[q]
        BY <1>6 DEF WriteData, Control, ControlTypes
    <2>2. pc[p] = "loop" /\ pc' = [pc EXCEPT ![p] = "wake"]
        BY <1>6 DEF WriteData, Goto
    <2> QED
        BY <2>1, <2>2 DEF ClosingPcs, PCs
<1>7. CASE WakeOther(p) \/ Down(p) \/ DownCheck(p) \/ DownReturns(p)
    BY <1>7 DEF WakeOther, Down, DownCheck, DownReturns, Goto, ClosingPcs, PCs
<1>8. CASE OperationDown(p)
    BY <1>8 DEF OperationDown, Goto, ClosingPcs, PCs
<1>9. CASE \E d \in Descs : \E nb \in BOOLEAN :
                \/ \E n \in Nat \ {0} : ReadCall(p, d, n, nb)
                \/ \E s \in Seq(Byte) : s # <<>> /\ WriteCall(p, d, s, nb)
    <2>1. \A q \in Procs \ {p} : call'[q] = call[q]
        BY <1>9 DEF ReadCall, WriteCall, Control, ControlTypes
    <2>2. pc[p] = "user" /\ pc' = [pc EXCEPT ![p] = "op"]
        BY <1>9 DEF ReadCall, WriteCall, Goto
    <2> QED
        BY <2>1, <2>2 DEF ClosingPcs, PCs
<1> QED
    BY <1>3, <1>4, <1>5, <1>6, <1>7, <1>8, <1>9

(* One element joins a finite set, leaves it, or neither.                  *)
LEMMA CountChange ==
    ASSUME NEW S, NEW T, IsFiniteSet(S), IsFiniteSet(T), NEW p, S \ {p} = T \ {p}
    PROVE  /\ Cardinality(S) \in Nat /\ Cardinality(T) \in Nat
           /\ (p \in S <=> p \in T) => Cardinality(T) = Cardinality(S)
           /\ p \in S /\ p \notin T => Cardinality(T) = Cardinality(S) - 1
           /\ p \notin S /\ p \in T => Cardinality(T) = Cardinality(S) + 1
           /\ p \in S => Cardinality(S) >= 1
<1>1. Cardinality(S) \in Nat /\ Cardinality(T) \in Nat
    BY FS_CardinalityType
<1>2. ASSUME p \in S <=> p \in T PROVE S = T
    BY <1>2
<1>3. ASSUME p \in S, p \notin T PROVE Cardinality(T) = Cardinality(S) - 1
    <2>1. T = S \ {p}
        BY <1>3
    <2> QED
        BY <1>3, <2>1, FS_RemoveElement
<1>4. ASSUME p \notin S, p \in T PROVE Cardinality(T) = Cardinality(S) + 1
    <2>1. T = S \cup {p}
        BY <1>4
    <2> QED
        BY <1>4, <2>1, FS_AddElement
<1>5. ASSUME p \in S PROVE Cardinality(S) >= 1
    <2>1. Cardinality(S \ {p}) = Cardinality(S) - 1
        BY <1>5, FS_RemoveElement
    <2>2. IsFiniteSet(S \ {p})
        BY FS_RemoveElement
    <2>3. Cardinality(S \ {p}) \in Nat
        BY <2>2, FS_CardinalityType
    <2> QED
        BY <1>1, <2>1, <2>3
<1> QED
    BY <1>1, <1>2, <1>3, <1>4, <1>5

(* The closing processes when one process moves.                           *)
LEMMA ClosersChange ==
    ASSUME NEW p \in Procs, NEW d \in Descs,
           \A q \in Procs \ {p} : pc'[q] = pc[q] /\ call'[q] = call[q]
    PROVE  /\ IsFiniteSet(ReadClosers(d)) /\ IsFiniteSet(ReadClosers(d)')
           /\ ReadClosers(d) \ {p} = ReadClosers(d)' \ {p}
           /\ IsFiniteSet(WriteClosers(d)) /\ IsFiniteSet(WriteClosers(d)')
           /\ WriteClosers(d) \ {p} = WriteClosers(d)' \ {p}
<1>1. /\ ReadClosers(d) \subseteq Procs /\ ReadClosers(d)' \subseteq Procs
      /\ WriteClosers(d) \subseteq Procs /\ WriteClosers(d)' \subseteq Procs
    BY DEF ReadClosers, WriteClosers
<1>2. /\ IsFiniteSet(ReadClosers(d)) /\ IsFiniteSet(ReadClosers(d)')
      /\ IsFiniteSet(WriteClosers(d)) /\ IsFiniteSet(WriteClosers(d)')
    BY <1>1, PipeAssumption, FS_Subset
<1>3. ReadClosers(d) \ {p} = ReadClosers(d)' \ {p}
    BY DEF ReadClosers
<1>4. WriteClosers(d) \ {p} = WriteClosers(d)' \ {p}
    BY DEF WriteClosers
<1> QED
    BY <1>2, <1>3, <1>4

EndTypes ==
    /\ readers \in [Pipes -> Nat] /\ writers \in [Pipes -> Nat]
    /\ descriptor_count \in [Descs -> 0 .. scene.dup]

(* dup and fork count every end of the description once more.              *)
LEMMA DupCount ==
    ASSUME TypeOK, Control, CountInv, NEW p \in Procs, NEW d \in Descs, Dup(p, d), UNCHANGED scene
    PROVE  CountInv' /\ EndTypes'
<1>1. /\ descriptor_count[d] \in 1 .. scene.dup - 1
      /\ descriptor_count' = [descriptor_count EXCEPT ![d] = @ + 1]
      /\ readers' = [x \in Pipes |-> IF x = rd[d] THEN readers[x] + 1 ELSE readers[x]]
      /\ writers' = [x \in Pipes |-> IF x = wr[d] THEN writers[x] + 1 ELSE writers[x]]
    BY DEF Dup, ReadersAfterDup, WritersAfterDup
<1>2. \A e \in Descs : ReadClosers(e)' = ReadClosers(e) /\ WriteClosers(e)' = WriteClosers(e)
    BY ClosersAlone
<1>3. scene.dup \in Nat
    BY PipeAssumption DEF TypeOK, SceneOK
<1>4. EndTypes'
    BY <1>1, <1>3, SMTT(60) DEF TypeOK, EndTypes
<1>5. ASSUME NEW e \in Descs
      PROVE  /\ rd[e] # None => readers'[rd[e]] = descriptor_count'[e] + Cardinality(ReadClosers(e)')
             /\ wr[e] # None => writers'[wr[e]] = descriptor_count'[e] + Cardinality(WriteClosers(e)')
    <2>1. /\ Cardinality(ReadClosers(e)) \in Nat /\ Cardinality(WriteClosers(e)) \in Nat
        <3>1. ReadClosers(e) \subseteq Procs /\ WriteClosers(e) \subseteq Procs
            BY DEF ReadClosers, WriteClosers
        <3> QED
            BY <3>1, PipeAssumption, FS_Subset, FS_CardinalityType
    <2>2. descriptor_count[e] \in Nat /\ descriptor_count'[e] = IF e = d THEN descriptor_count[d] + 1 ELSE descriptor_count[e]
        BY <1>1, <1>3 DEF TypeOK
    <2>3. ASSUME rd[e] # None
          PROVE  readers'[rd[e]] = descriptor_count'[e] + Cardinality(ReadClosers(e)')
        <3>1. rd[e] \in Pipes /\ readers[rd[e]] \in Nat
              /\ readers[rd[e]] = descriptor_count[e] + Cardinality(ReadClosers(e))
            BY <2>3, PipeAssumption DEF TypeOK, CountInv
        <3>2. rd[e] = rd[d] <=> e = d
            BY <2>3, PipeAssumption DEF EndsOK
        <3> QED
            BY <1>1, <1>2, <2>1, <2>2, <3>1, <3>2
    <2>4. ASSUME wr[e] # None
          PROVE  writers'[wr[e]] = descriptor_count'[e] + Cardinality(WriteClosers(e)')
        <3>1. wr[e] \in Pipes /\ writers[wr[e]] \in Nat
              /\ writers[wr[e]] = descriptor_count[e] + Cardinality(WriteClosers(e))
            BY <2>4, PipeAssumption DEF TypeOK, CountInv
        <3>2. wr[e] = wr[d] <=> e = d
            BY <2>4, PipeAssumption DEF EndsOK
        <3> QED
            BY <1>1, <1>2, <2>1, <2>2, <3>1, <3>2
    <2> QED
        BY <2>3, <2>4
<1> QED
    BY <1>4, <1>5 DEF CountInv

(* A close drops the descriptor, and owes each end one.                    *)
LEMMA CloseCount ==
    ASSUME TypeOK, Control, CountInv, NEW p \in Procs, NEW d \in Descs, Close(p, d), UNCHANGED scene
    PROVE  CountInv' /\ EndTypes'
<1> DEFINE t == {s \in Sides : (IF s = "read" THEN rd[d] ELSE wr[d]) # None}
           c == [NoCall EXCEPT !.d = d, !.todo = t]
<1>1. /\ pc[p] = "user" /\ descriptor_count[d] > 0
      /\ descriptor_count' = [descriptor_count EXCEPT ![d] = @ - 1]
      /\ call' = [call EXCEPT ![p] = c] /\ pc' = [pc EXCEPT ![p] = "close"]
      /\ UNCHANGED <<readers, writers>>
    BY DEF Close, Goto
<1>2. c.d = d /\ c.todo = t
    BY DEF NoCall
<1>3. ("read" \in t <=> rd[d] # None) /\ ("write" \in t <=> wr[d] # None)
    BY DEF Sides
<1> HIDE DEF c, t
<1>4. /\ pc'[p] = "close" /\ call'[p] = c
      /\ \A q \in Procs \ {p} : pc'[q] = pc[q] /\ call'[q] = call[q]
    BY <1>1 DEF Control, ControlTypes
<1>5. scene.dup \in Nat
    BY PipeAssumption DEF TypeOK, SceneOK
<1>6. EndTypes'
    BY <1>1, <1>5 DEF TypeOK, EndTypes
<1>7. ASSUME NEW e \in Descs
      PROVE  /\ rd[e] # None => readers'[rd[e]] = descriptor_count'[e] + Cardinality(ReadClosers(e)')
             /\ wr[e] # None => writers'[wr[e]] = descriptor_count'[e] + Cardinality(WriteClosers(e)')
    <2>1. /\ p \notin ReadClosers(e) /\ p \notin WriteClosers(e)
          /\ p \in ReadClosers(e)' <=> e = d /\ rd[d] # None
          /\ p \in WriteClosers(e)' <=> e = d /\ wr[d] # None
        BY <1>1, <1>2, <1>3, <1>4 DEF ReadClosers, WriteClosers
    <2>2. descriptor_count[e] \in Nat /\ descriptor_count'[e] = IF e = d THEN descriptor_count[d] - 1 ELSE descriptor_count[e]
        BY <1>1, <1>5 DEF TypeOK
    <2>3. ASSUME rd[e] # None
          PROVE  readers'[rd[e]] = descriptor_count'[e] + Cardinality(ReadClosers(e)')
        <3>1. readers[rd[e]] = descriptor_count[e] + Cardinality(ReadClosers(e))
            BY <2>3 DEF CountInv
        <3>2. /\ Cardinality(ReadClosers(e)) \in Nat
              /\ Cardinality(ReadClosers(e)') = IF e = d THEN Cardinality(ReadClosers(e)) + 1
                                                ELSE Cardinality(ReadClosers(e))
            BY <1>4, <2>1, <2>3, ClosersChange, CountChange
        <3> QED
            BY <1>1, <2>2, <3>1, <3>2
    <2>4. ASSUME wr[e] # None
          PROVE  writers'[wr[e]] = descriptor_count'[e] + Cardinality(WriteClosers(e)')
        <3>1. writers[wr[e]] = descriptor_count[e] + Cardinality(WriteClosers(e))
            BY <2>4 DEF CountInv
        <3>2. /\ Cardinality(WriteClosers(e)) \in Nat
              /\ Cardinality(WriteClosers(e)') = IF e = d THEN Cardinality(WriteClosers(e)) + 1
                                                 ELSE Cardinality(WriteClosers(e))
            BY <1>4, <2>1, <2>4, ClosersChange, CountChange
        <3> QED
            BY <1>1, <2>2, <3>1, <3>2
    <2> QED
        BY <2>3, <2>4
<1> QED
    BY <1>6, <1>7 DEF CountInv

(* A process that is done with the end it closes, or with the wake-up of   *)
(* the other side, has left the closers of that end.                       *)
LEMMA ClosersAfter ==
    ASSUME Control, NEW p \in Procs, NEW e \in Descs,
           \/ pc[p] = "close" /\ Goto(p, "closewake") /\ UNCHANGED call
           \/ pc[p] \in ClosingPcs /\ CloseNext(p)
    PROVE  /\ \A q \in Procs \ {p} : pc'[q] = pc[q] /\ call'[q] = call[q]
           /\ p \notin ReadClosers(e)'
           /\ p \in WriteClosers(e)' <=> call[p].d = e /\ call[p].todo = Sides
<1> DEFINE left == call[p].todo \ {ClosingSide(p)}
           c == [call[p] EXCEPT !.todo = left]
<1>1. call[p] \in Arguments /\ call[p].todo \subseteq Sides /\ call[p].todo # {}
    BY DEF Control, ControlTypes, CallInv, Arguments, ClosingPcs
<1>2. CASE pc[p] = "close" /\ Goto(p, "closewake") /\ UNCHANGED call
    BY <1>1, <1>2 DEF Goto, Control, ControlTypes, ReadClosers, WriteClosers, Sides
<1>3. CASE /\ left = {}
           /\ pc' = [pc EXCEPT ![p] = "user"] /\ call' = [call EXCEPT ![p] = NoCall] /\ Ends(p)
    <2>1. call[p].todo # Sides
        BY <1>3 DEF Sides, ClosingSide
    <2>2. /\ pc'[p] = "user"
          /\ \A q \in Procs \ {p} : pc'[q] = pc[q] /\ call'[q] = call[q]
        BY <1>3 DEF Control, ControlTypes
    <2> QED
        BY <2>1, <2>2 DEF ReadClosers, WriteClosers
<1>4. CASE /\ left # {} /\ pc' = [pc EXCEPT ![p] = "close"] /\ UNCHANGED ref_count
           /\ call' = [call EXCEPT ![p] = c]
           /\ c \in Arguments /\ c.op = call[p].op /\ c.d = call[p].d /\ c.todo = left
    <2>1. call[p].todo = Sides /\ left = {"write"}
        BY <1>1, <1>4 DEF Sides, ClosingSide
    <2> HIDE DEF c, left
    <2>2. /\ pc'[p] = "close" /\ call'[p] = c
          /\ \A q \in Procs \ {p} : pc'[q] = pc[q] /\ call'[q] = call[q]
        BY <1>4 DEF Control, ControlTypes
    <2> QED
        BY <1>4, <2>1, <2>2 DEF ReadClosers, WriteClosers
<1> QED
    BY <1>2, <1>3, <1>4, CloseNextEffect

(* pipe_endpoint_close takes one from the counter of the end it closes.    *)
LEMMA CloseEndCount ==
    ASSUME TypeOK, Control, CountInv, NEW p \in Procs, CloseEnd(p), UNCHANGED scene
    PROVE  CountInv' /\ EndTypes'
<1>1. PICK d \in Descs : d = call[p].d
    BY DEF CloseEnd, Control, CallInv
<1> DEFINE todo == call[p].todo
<1>2. /\ pc[p] = "close" /\ todo \subseteq Sides /\ todo # {}
      /\ \A s \in todo : Exists(d, s)
    BY <1>1 DEF CloseEnd, Control, ControlTypes, CallInv, Arguments
<1>3. \/ pc[p] = "close" /\ Goto(p, "closewake") /\ UNCHANGED call
      \/ pc[p] \in ClosingPcs /\ CloseNext(p)
    BY DEF CloseEnd, ClosingPcs
<1>4. /\ \A q \in Procs \ {p} : pc'[q] = pc[q] /\ call'[q] = call[q]
      /\ \A e \in Descs : /\ p \notin ReadClosers(e)'
                          /\ p \in WriteClosers(e)' <=> d = e /\ todo = Sides
    BY <1>1, <1>3, ClosersAfter
<1>5. \A e \in Descs : /\ p \in ReadClosers(e) <=> d = e /\ "read" \in todo
                       /\ p \in WriteClosers(e) <=> d = e /\ "write" \in todo
    BY <1>1, <1>2 DEF ReadClosers, WriteClosers
<1>6. UNCHANGED descriptor_count /\ descriptor_count \in [Descs -> Nat]
    <2>1. scene.dup \in Nat
        BY PipeAssumption DEF TypeOK, SceneOK
    <2> QED
        BY <2>1 DEF CloseEnd, TypeOK
<1>7. \A e \in Descs :
        /\ Cardinality(ReadClosers(e)) \in Nat
        /\ Cardinality(ReadClosers(e)') = IF d = e /\ "read" \in todo THEN Cardinality(ReadClosers(e)) - 1
                                          ELSE Cardinality(ReadClosers(e))
        /\ d = e /\ "read" \in todo => Cardinality(ReadClosers(e)) >= 1
    BY <1>4, <1>5, ClosersChange, CountChange
<1>8. \A e \in Descs :
        /\ Cardinality(WriteClosers(e)) \in Nat
        /\ Cardinality(WriteClosers(e)') =
                IF d = e /\ "write" \in todo /\ todo # Sides THEN Cardinality(WriteClosers(e)) - 1
                ELSE Cardinality(WriteClosers(e))
        /\ d = e /\ "write" \in todo => Cardinality(WriteClosers(e)) >= 1
    <2> TAKE e \in Descs
    <2>1. todo = Sides => "write" \in todo
        BY DEF Sides
    <2> QED
        BY <1>4, <1>5, <2>1, ClosersChange, CountChange
<1>9. CASE "read" \in todo
    <2>1. readers' = [readers EXCEPT ![rd[d]] = @ - 1] /\ UNCHANGED writers
        BY <1>1, <1>9 DEF CloseEnd, ClosingSide, ClosingPipe
    <2>2. rd[d] # None /\ rd[d] \in Pipes
        BY <1>2, <1>9, PipeAssumption DEF Exists
    <2>3. readers[rd[d]] = descriptor_count[d] + Cardinality(ReadClosers(d))
        BY <2>2 DEF CountInv
    <2>4. readers[rd[d]] \in Nat /\ readers[rd[d]] >= 1
        BY <1>6, <1>7, <1>9, <2>3
    <2>5. EndTypes'
        BY <1>6, <2>1, <2>2, <2>4 DEF TypeOK, EndTypes
    <2>6. todo = Sides \/ "write" \notin todo
        BY <1>2, <1>9 DEF Sides
    <2>7. ASSUME NEW e \in Descs, rd[e] # None
          PROVE  readers'[rd[e]] = descriptor_count'[e] + Cardinality(ReadClosers(e)')
        <3>1. rd[e] = rd[d] <=> e = d
            BY <2>7, PipeAssumption DEF EndsOK
        <3>2. rd[e] \in Pipes /\ readers[rd[e]] = descriptor_count[e] + Cardinality(ReadClosers(e))
            BY <2>7, PipeAssumption DEF CountInv
        <3>3. readers'[rd[e]] = IF e = d THEN readers[rd[e]] - 1 ELSE readers[rd[e]]
            BY <2>1, <3>1, <3>2 DEF TypeOK
        <3> QED
            BY <1>6, <1>7, <1>9, <3>2, <3>3
    <2>8. ASSUME NEW e \in Descs, wr[e] # None
          PROVE  writers'[wr[e]] = descriptor_count'[e] + Cardinality(WriteClosers(e)')
        BY <1>6, <1>8, <2>1, <2>6, <2>8 DEF CountInv
    <2> QED
        BY <2>5, <2>7, <2>8 DEF CountInv
<1>10. CASE "read" \notin todo
    <2>1. todo = {"write"} /\ todo # Sides
        BY <1>2, <1>10 DEF Sides
    <2>2. writers' = [writers EXCEPT ![wr[d]] = @ - 1] /\ UNCHANGED readers
        BY <1>1, <1>10 DEF CloseEnd, ClosingSide, ClosingPipe
    <2>3. wr[d] # None /\ wr[d] \in Pipes
        BY <1>2, <2>1, PipeAssumption DEF Exists
    <2>4. writers[wr[d]] = descriptor_count[d] + Cardinality(WriteClosers(d))
        BY <2>3 DEF CountInv
    <2>5. writers[wr[d]] \in Nat /\ writers[wr[d]] >= 1
        BY <1>6, <1>8, <2>1, <2>4
    <2>6. EndTypes'
        BY <1>6, <2>2, <2>3, <2>5 DEF TypeOK, EndTypes
    <2>7. ASSUME NEW e \in Descs, rd[e] # None
          PROVE  readers'[rd[e]] = descriptor_count'[e] + Cardinality(ReadClosers(e)')
        BY <1>6, <1>7, <1>10, <2>2, <2>7 DEF CountInv
    <2>8. ASSUME NEW e \in Descs, wr[e] # None
          PROVE  writers'[wr[e]] = descriptor_count'[e] + Cardinality(WriteClosers(e)')
        <3>1. wr[e] = wr[d] <=> e = d
            BY <2>8, PipeAssumption DEF EndsOK
        <3>2. wr[e] \in Pipes /\ writers[wr[e]] = descriptor_count[e] + Cardinality(WriteClosers(e))
            BY <2>8, PipeAssumption DEF CountInv
        <3>3. writers'[wr[e]] = IF e = d THEN writers[wr[e]] - 1 ELSE writers[wr[e]]
            BY <2>2, <3>1, <3>2 DEF TypeOK
        <3>4. Cardinality(WriteClosers(e)') = IF e = d THEN Cardinality(WriteClosers(e)) - 1
                                              ELSE Cardinality(WriteClosers(e))
            BY <1>8, <2>1
        <3> QED
            BY <1>6, <1>8, <3>2, <3>3, <3>4
    <2> QED
        BY <2>6, <2>7, <2>8 DEF CountInv
<1> QED
    BY <1>9, <1>10

(* The wake-up after the last close of an end changes no counter.          *)
LEMMA CloseWakeCount ==
    ASSUME TypeOK, Control, CountInv, NEW p \in Procs, CloseWake(p), UNCHANGED scene
    PROVE  CountInv' /\ EndTypes'
<1>1. pc[p] = "closewake" /\ pc[p] \in ClosingPcs /\ CloseNext(p)
    BY DEF CloseWake, ClosingPcs
<1>2. UNCHANGED <<readers, writers, descriptor_count>>
    BY DEF CloseWake
<1>3. call[p].todo \subseteq Sides
    BY DEF Control, ControlTypes, Arguments
<1>4. ASSUME NEW e \in Descs
      PROVE  /\ Cardinality(ReadClosers(e)') = Cardinality(ReadClosers(e))
             /\ Cardinality(WriteClosers(e)') = Cardinality(WriteClosers(e))
    <2>1. /\ \A q \in Procs \ {p} : pc'[q] = pc[q] /\ call'[q] = call[q]
          /\ p \notin ReadClosers(e)'
          /\ p \in WriteClosers(e)' <=> call[p].d = e /\ call[p].todo = Sides
        BY <1>1, ClosersAfter
    <2>2. p \notin ReadClosers(e)
        BY <1>1 DEF ReadClosers
    <2>3. p \in WriteClosers(e) <=> call[p].d = e /\ call[p].todo = Sides
        BY <1>1, <1>3 DEF WriteClosers, Sides
    <2> QED
        BY <2>1, <2>2, <2>3, ClosersChange, CountChange
<1>5. EndTypes'
    BY <1>2 DEF EndTypes, TypeOK
<1> QED
    BY <1>2, <1>4, <1>5 DEF CountInv

(* Every step keeps the counters exact.                                    *)
LEMMA CountStep ==
    ASSUME TypeOK, Control, CountInv, Next
    PROVE  CountInv' /\ EndTypes'
<1>1. UNCHANGED scene
    BY DEF Next
<1>2. PICK p \in Procs :
        \/ Step(p) \/ OperationDown(p) \/ Kill(p) \/ SignalHandled(p)
        \/ \E d \in Descs :
            \/ Dup(p, d) \/ Close(p, d)
            \/ \E nb \in BOOLEAN :
                \/ \E n \in Nat \ {0} : ReadCall(p, d, n, nb)
                \/ \E s \in Seq(Byte) : s # <<>> /\ WriteCall(p, d, s, nb)
    BY NextCases
<1>3. CASE \E d \in Descs : Dup(p, d)
    BY <1>1, <1>3, DupCount
<1>4. CASE \E d \in Descs : Close(p, d)
    BY <1>1, <1>4, CloseCount
<1>5. CASE CloseEnd(p)
    BY <1>1, <1>5, CloseEndCount
<1>6. CASE CloseWake(p)
    BY <1>1, <1>6, CloseWakeCount
<1>7. ASSUME \A d \in Descs : ReadClosers(d)' = ReadClosers(d) /\ WriteClosers(d)' = WriteClosers(d),
             UNCHANGED <<readers, writers, descriptor_count>>
      PROVE  CountInv' /\ EndTypes'
    BY <1>1, <1>7 DEF CountInv, EndTypes, TypeOK
<1>8. CASE \/ ReadData(p) \/ ReadEmpty(p) \/ WriteBroken(p) \/ WriteData(p) \/ WriteFull(p)
    <2>1. UNCHANGED <<readers, writers, descriptor_count>>
        BY <1>8 DEF ReadData, ReadEmpty, WriteBroken, WriteData, WriteFull, ends
    <2> QED
        BY <1>7, <1>8, <2>1, ClosersAlone
<1>9. CASE WakeOther(p) \/ Down(p) \/ DownCheck(p) \/ DownReturns(p) \/ OperationDown(p) \/ OperationUp(p)
            \/ Kill(p) \/ SignalHandled(p)
    <2>1. UNCHANGED <<readers, writers, descriptor_count>>
        BY <1>9 DEF WakeOther, Down, DownCheck, DownReturns, OperationDown, OperationUp, Kill,
                    SignalHandled, ends
    <2> QED
        BY <1>7, <1>9, <2>1, ClosersAlone
<1>10. CASE \E d \in Descs : \E nb \in BOOLEAN :
                \/ \E n \in Nat \ {0} : ReadCall(p, d, n, nb)
                \/ \E s \in Seq(Byte) : s # <<>> /\ WriteCall(p, d, s, nb)
    <2>1. UNCHANGED <<readers, writers, descriptor_count>>
        BY <1>10 DEF ReadCall, WriteCall, ends
    <2> QED
        BY <1>7, <1>10, <2>1, ClosersAlone
<1> QED
    BY <1>2, <1>3, <1>4, <1>5, <1>6, <1>8, <1>9, <1>10 DEF Step
-----------------------------------------------------------------------------
(* A step that neither revives nor ends a description keeps the references.*)
LEMMA RefSame ==
    ASSUME RefInv, UNCHANGED ref_count, \A e \in Descs : Alive(e)' <=> Alive(e)
    PROVE  RefInv'
<1>1. \A x \in Pipes : Keepers(x)' = Keepers(x)
    BY DEF Keepers
<1> QED
    BY <1>1 DEF RefInv

(* open_file_put at the end of a call: the last one puts the pipes.        *)
LEMMA RefEnds ==
    ASSUME TypeOK, Control, RefInv, NEW p \in Procs, call[p].d \in Descs,
           Ends(p), UNCHANGED descriptor_count
    PROVE  RefInv' /\ ref_count' \in [Pipes -> Int]
<1>1. PICK d \in Descs : d = call[p].d
    OBVIOUS
<1> DEFINE last == descriptor_count[d] = 0 /\ Users(d) = {p}
<1>2. /\ call' = [call EXCEPT ![p] = NoCall]
      /\ ref_count' = [x \in Pipes |-> IF last /\ x \in {rd[d], wr[d]} THEN ref_count[x] - 1 ELSE ref_count[x]]
    BY <1>1 DEF Ends
<1>3. /\ call'[p].d = None
      /\ \A q \in Procs \ {p} : call'[q] = call[q]
    BY <1>2, CallTypes DEF Control, ControlTypes
<1>4. /\ Users(d)' = Users(d) \ {p} /\ p \in Users(d)
      /\ \A e \in Descs \ {d} : Users(e)' = Users(e)
    BY <1>1, <1>3, PipeAssumption DEF Users
<1>5. descriptor_count[d] \in Nat /\ descriptor_count' = descriptor_count
    <2>1. scene.dup \in Nat
        BY PipeAssumption DEF TypeOK, SceneOK
    <2> QED
        BY <2>1 DEF TypeOK
<1>6. /\ Alive(d) /\ (Alive(d)' <=> ~last)
      /\ \A e \in Descs \ {d} : Alive(e)' <=> Alive(e)
    <2>1. Alive(d)
        BY <1>4 DEF Alive
    <2>2. Alive(d)' <=> ~last
        BY <1>4, <1>5 DEF Alive
    <2>3. \A e \in Descs \ {d} : Alive(e)' <=> Alive(e)
        BY <1>4, <1>5 DEF Alive
    <2> QED
        BY <2>1, <2>2, <2>3
<1> HIDE DEF last
<1>7. ref_count' \in [Pipes -> Int]
    BY <1>2 DEF TypeOK
<1>8. ASSUME NEW x \in Pipes, \A e \in Descs : x \in {rd[e], wr[e]} => ~Duplex(e)
      PROVE  ref_count'[x] = Cardinality(Keepers(x)')
    <2>1. ref_count[x] = Cardinality(Keepers(x))
        BY <1>8 DEF RefInv
    <2>2. CASE last /\ x \in {rd[d], wr[d]}
        <3>1. Keepers(x)' = Keepers(x) \ {d} /\ d \in Keepers(x)
            BY <1>6, <2>2 DEF Keepers
        <3>2. IsFiniteSet(Keepers(x))
            <4>1. Keepers(x) \subseteq Descs
                BY DEF Keepers
            <4> QED
                BY <4>1, PipeAssumption, FS_Subset
        <3>3. Cardinality(Keepers(x)') = Cardinality(Keepers(x)) - 1
            BY <3>1, <3>2, FS_RemoveElement
        <3> QED
            BY <1>2, <2>1, <2>2, <3>3
    <2>3. CASE ~ (last /\ x \in {rd[d], wr[d]})
        <3>1. Keepers(x)' = Keepers(x)
            BY <1>6, <2>3 DEF Keepers
        <3> QED
            BY <1>2, <2>1, <2>3, <3>1
    <2> QED
        BY <2>2, <2>3
<1> QED
    BY <1>7, <1>8 DEF RefInv

(* Every step keeps the references to a pipe exact.                        *)
LEMMA RefStep ==
    ASSUME TypeOK, Control, RefInv, Next
    PROVE  RefInv' /\ ref_count' \in [Pipes -> Int]
<1>1. PICK p \in Procs :
        \/ Step(p) \/ OperationDown(p) \/ Kill(p) \/ SignalHandled(p)
        \/ \E d \in Descs :
            \/ Dup(p, d) \/ Close(p, d)
            \/ \E nb \in BOOLEAN :
                \/ \E n \in Nat \ {0} : ReadCall(p, d, n, nb)
                \/ \E s \in Seq(Byte) : s # <<>> /\ WriteCall(p, d, s, nb)
    BY NextCases
<1>2. ref_count \in [Pipes -> Int] /\ descriptor_count \in [Descs -> Nat]
    <2>1. scene.dup \in Nat
        BY PipeAssumption DEF TypeOK, SceneOK
    <2> QED
        BY <2>1 DEF TypeOK
<1>3. ASSUME UNCHANGED ref_count, UNCHANGED descriptor_count,
             \A q \in Procs : call'[q].d = call[q].d
      PROVE  RefInv' /\ ref_count' \in [Pipes -> Int]
    <2>1. \A e \in Descs : Alive(e)' <=> Alive(e)
        BY <1>3 DEF Alive, Users
    <2> QED
        BY <1>2, <1>3, <2>1, RefSame
<1>4. ASSUME NEW d \in Descs, pc[p] = "user", descriptor_count[d] > 0, UNCHANGED ref_count,
             \A q \in Procs \ {p} : call'[q] = call[q], call'[p].d \in {None, d},
             \A e \in Descs \ {d} : descriptor_count'[e] = descriptor_count[e],
             descriptor_count'[d] > 0 \/ call'[p].d = d
      PROVE  RefInv' /\ ref_count' \in [Pipes -> Int]
    <2>1. call[p].d = None
        BY <1>4 DEF Control, CallInv
    <2>2. \A e \in Descs \ {d} : Users(e)' = Users(e)
        BY <1>4, <2>1, PipeAssumption DEF Users
    <2>3. Alive(d) /\ Alive(d)'
        BY <1>4 DEF Alive, Users
    <2>4. \A e \in Descs \ {d} : Alive(e)' <=> Alive(e)
        BY <1>4, <2>2 DEF Alive
    <2> QED
        BY <1>2, <1>4, <2>3, <2>4, RefSame
<1>5. CASE \/ ReadData(p) \/ ReadEmpty(p) \/ WriteBroken(p) \/ WriteFull(p) \/ WakeOther(p) \/ Down(p)
    BY <1>3, <1>5 DEF ReadData, ReadEmpty, WriteBroken, WriteFull, WakeOther, Down, ends
<1>6. CASE DownCheck(p) \/ DownReturns(p) \/ OperationDown(p) \/ Kill(p) \/ SignalHandled(p)
    BY <1>3, <1>6 DEF DownCheck, DownReturns, OperationDown, Kill, SignalHandled, ends
<1>7. CASE WriteData(p)
    <2>1. UNCHANGED ref_count /\ UNCHANGED descriptor_count
        BY <1>7 DEF WriteData, ends
    <2>2. \A q \in Procs : call'[q].d = call[q].d
        <3> TAKE q \in Procs
        <3>1. call[p] \in Arguments
            BY DEF Control, ControlTypes
        <3> DEFINE s == SubSeq(call[p].data,
                               Lesser(Len(call[p].data), FS_PIPE_CAPACITY - count[Target(p)]) + 1,
                               Len(call[p].data))
        <3>2. call' = [call EXCEPT ![p].data = s, ![p].written = TRUE]
            BY <1>7 DEF WriteData
        <3> HIDE DEF s
        <3> QED
            BY <3>1, <3>2 DEF Control, ControlTypes, Arguments
    <2> QED
        BY <1>3, <2>1, <2>2
<1>8. CASE \E d \in Descs : \E nb \in BOOLEAN :
                \/ \E n \in Nat \ {0} : ReadCall(p, d, n, nb)
                \/ \E s \in Seq(Byte) : s # <<>> /\ WriteCall(p, d, s, nb)
    <2>1. PICK d \in Descs : \E nb \in BOOLEAN :
                \/ \E n \in Nat \ {0} : ReadCall(p, d, n, nb)
                \/ \E s \in Seq(Byte) : s # <<>> /\ WriteCall(p, d, s, nb)
        BY <1>8
    <2>2. UNCHANGED ref_count /\ UNCHANGED descriptor_count /\ pc[p] = "user" /\ descriptor_count[d] > 0
        BY <2>1 DEF ReadCall, WriteCall, ends
    <2>3. call'[p].d = d /\ \A q \in Procs \ {p} : call'[q] = call[q]
        BY <2>1 DEF ReadCall, WriteCall, NoCall, Control, ControlTypes
    <2> QED
        BY <1>4, <2>2, <2>3
<1>9. CASE \E d \in Descs : Dup(p, d)
    <2>1. PICK d \in Descs : Dup(p, d)
        BY <1>9
    <2>2. /\ UNCHANGED ref_count /\ UNCHANGED call /\ pc[p] = "user"
          /\ descriptor_count[d] \in 1 .. scene.dup - 1
          /\ descriptor_count' = [descriptor_count EXCEPT ![d] = @ + 1]
        BY <2>1 DEF Dup
    <2>3. scene.dup \in Nat
        BY PipeAssumption DEF TypeOK, SceneOK
    <2>4. descriptor_count[d] > 0 /\ descriptor_count'[d] > 0
          /\ \A e \in Descs \ {d} : descriptor_count'[e] = descriptor_count[e]
        BY <1>2, <2>2, <2>3
    <2>5. call'[p].d = None
        BY <2>2 DEF Control, CallInv
    <2> QED
        BY <1>4, <2>2, <2>4, <2>5
<1>10. CASE \E d \in Descs : Close(p, d)
    <2>1. PICK d \in Descs : Close(p, d)
        BY <1>10
    <2>2. /\ UNCHANGED ref_count /\ pc[p] = "user" /\ descriptor_count[d] > 0
          /\ descriptor_count' = [descriptor_count EXCEPT ![d] = @ - 1]
        BY <2>1 DEF Close
    <2>3. call'[p].d = d /\ \A q \in Procs \ {p} : call'[q] = call[q]
        BY <2>1 DEF Close, NoCall, Control, ControlTypes
    <2>4. \A e \in Descs \ {d} : descriptor_count'[e] = descriptor_count[e]
        BY <1>2, <2>2
    <2> QED
        BY <1>4, <2>2, <2>3, <2>4
<1>11. CASE OperationUp(p)
    <2>1. pc[p] = "ret" /\ Ends(p) /\ UNCHANGED descriptor_count
        BY <1>11 DEF OperationUp
    <2>2. call[p].d \in Descs
        BY <2>1 DEF Control, CallInv, InCall
    <2> QED
        BY <2>1, <2>2, RefEnds
<1>12. ASSUME pc[p] \in ClosingPcs, CloseNext(p), UNCHANGED descriptor_count
       PROVE  RefInv' /\ ref_count' \in [Pipes -> Int]
    <2>1. call[p].d \in Descs
        BY <1>12 DEF Control, CallInv, ClosingPcs
    <2>2. CASE Ends(p)
        BY <1>12, <2>1, <2>2, RefEnds
    <2>3. CASE UNCHANGED ref_count /\ \E c : call' = [call EXCEPT ![p] = c] /\ c.d = call[p].d
        <3>1. \A q \in Procs : call'[q].d = call[q].d
            BY <2>3 DEF Control, ControlTypes
        <3> QED
            BY <1>3, <1>12, <2>3, <3>1
    <2> QED
        BY <1>12, <2>2, <2>3, CloseNextEffect
<1>13. CASE CloseEnd(p)
    <2>1. pc[p] \in ClosingPcs /\ UNCHANGED descriptor_count
        BY <1>13 DEF CloseEnd, ClosingPcs
    <2>2. CloseNext(p) \/ UNCHANGED <<call, ref_count>>
        BY <1>13 DEF CloseEnd
    <2> QED
        BY <1>3, <1>12, <2>1, <2>2
<1>14. CASE CloseWake(p)
    BY <1>12, <1>14 DEF CloseWake, ClosingPcs
<1> QED
    BY <1>1, <1>5, <1>6, <1>7, <1>8, <1>9, <1>10, <1>11, <1>13, <1>14 DEF Step
-----------------------------------------------------------------------------
Blocked == {"down", "queued", "asleep"}
Announcers == {"wake", "closewake"}

(* A blocked call knows of nothing it has missed.                          *)
Covered(p) ==
    \/ Announcing(Target(p), Side(p))
    \/ pc[p] = "down" /\ token[Target(p)][Side(p)] = 1
    \/ pc[p] # "down" /\ woke[p] # "no"

(* One call is inside a side of a pipe at a time.                          *)
LEMMA OneInside ==
    ASSUME Control, NEW p \in Procs, NEW q \in Procs,
           pc[p] \in InOperation, pc[q] \in InOperation, Target(p) = Target(q), Side(p) = Side(q)
    PROVE  p = q
<1>1. /\ call[p].d \in Descs /\ call[q].d \in Descs /\ call[p].op \in Sides /\ call[p].op = call[q].op
      /\ Exists(call[p].d, call[p].op) /\ Exists(call[q].d, call[q].op)
    BY DEF Control, CallInv, InOperation, Side
<1>2. call[p].d = call[q].d
    BY <1>1, PipeAssumption DEF Target, Exists, Sides, EndsOK
<1> QED
    BY <1>2 DEF Control, HolderInv

(* An announcement stays while the announcer does.                         *)
LEMMA StillAnnouncing ==
    ASSUME NEW x, NEW s, Announcing(x, s),
           \A q \in Procs : pc[q] \in Announcers => pc'[q] = pc[q] /\ call'[q] = call[q]
    PROVE  Announcing(x, s)'
<1>1. PICK q \in Procs :
        \/ pc[q] = "wake" /\ Target(q) = x /\ Side(q) # s
        \/ pc[q] = "closewake" /\ ClosingPipe(q) = x /\ ClosingSide(q) # s
    BY DEF Announcing
<1>2. pc'[q] = pc[q] /\ call'[q] = call[q]
    BY <1>1 DEF Announcers
<1>3. Target(q)' = Target(q) /\ Side(q)' = Side(q) /\ ClosingPipe(q)' = ClosingPipe(q)
      /\ ClosingSide(q)' = ClosingSide(q)
    BY <1>2 DEF Target, Side, ClosingPipe, ClosingSide
<1> QED
    BY <1>1, <1>2, <1>3 DEF Announcing

(* A step that leaves tokens alone and announces what it makes possible.   *)
LEMMA WakeFrame ==
    ASSUME Control, WakeInv, NEW p \in Procs, pc[p] \notin Announcers, UNCHANGED token,
           \A q \in Procs \ {p} : pc'[q] = pc[q] /\ call'[q] = call[q] /\ woke'[q] = woke[q],
           pc'[p] \in Blocked /\ MayProceed(p)' => Covered(p)',
           \A q \in Procs \ {p} : pc[q] \in Blocked /\ MayProceed(q)' /\ ~MayProceed(q)
                                        => Announcing(Target(q), Side(q))'
    PROVE  WakeInv'
<1> SUFFICES ASSUME NEW q \in Procs, pc'[q] \in Blocked, MayProceed(q)'
             PROVE  Covered(q)'
    BY DEF WakeInv, Blocked, Covered
<1>1. CASE q = p
    BY <1>1
<1>2. CASE q # p /\ ~MayProceed(q)
    BY <1>2 DEF Covered
<1>3. CASE q # p /\ MayProceed(q)
    <2>1. pc'[q] = pc[q] /\ call'[q] = call[q] /\ woke'[q] = woke[q]
        BY <1>3
    <2>2. Covered(q)
        BY <1>3, <2>1 DEF WakeInv, Blocked, Covered
    <2>3. PICK x, s : x = Target(q) /\ s = Side(q)
        OBVIOUS
    <2>4. Target(q)' = x /\ Side(q)' = s
        BY <2>1, <2>3 DEF Target, Side
    <2>5. Announcing(x, s) => Announcing(x, s)'
        BY StillAnnouncing
    <2> QED
        BY <2>1, <2>2, <2>3, <2>4, <2>5 DEF Covered
<1> QED
    BY <1>1, <1>2, <1>3

(* What a blocked call waits for changes only with the ring and the ends.  *)
LEMMA SameChance ==
    ASSUME UNCHANGED count, UNCHANGED readers, UNCHANGED writers, NEW q \in Procs, call'[q] = call[q]
    PROVE  MayProceed(q)' <=> MayProceed(q)
    BY DEF MayProceed, Target

(* Steps that touch neither ring, ends nor tokens.                         *)
LEMMA QuietWake ==
    ASSUME Control, WakeInv, NEW p \in Procs, pc[p] \notin Announcers,
           UNCHANGED token, UNCHANGED count, UNCHANGED readers, UNCHANGED writers,
           \A q \in Procs \ {p} : pc'[q] = pc[q] /\ call'[q] = call[q] /\ woke'[q] = woke[q],
           pc'[p] \in Blocked /\ MayProceed(p)' => Covered(p)'
    PROVE  WakeInv'
<1>1. \A q \in Procs \ {p} : MayProceed(q)' <=> MayProceed(q)
    BY SameChance
<1> QED
    BY <1>1, WakeFrame

(* The ring is tested and the semaphore is entered.                        *)
LEMMA WaitWake ==
    ASSUME TypeOK, Control, WakeInv, NEW p \in Procs,
           \/ ReadEmpty(p) \/ WriteFull(p) \/ WriteBroken(p) \/ OperationDown(p) \/ OperationUp(p)
           \/ DownCheck(p) \/ DownReturns(p)
           \/ \E d \in Descs : Close(p, d)
           \/ \E d \in Descs : \E nb \in BOOLEAN :
                \/ \E n \in Nat \ {0} : ReadCall(p, d, n, nb)
                \/ \E s \in Seq(Byte) : s # <<>> /\ WriteCall(p, d, s, nb)
    PROVE  WakeInv'
<1>1. UNCHANGED token /\ UNCHANGED count
    BY DEF ReadEmpty, WriteFull, WriteBroken, OperationDown, OperationUp, DownCheck, DownReturns, Close,
           ReadCall, WriteCall, ring, sems
<1>2. UNCHANGED readers /\ UNCHANGED writers
    BY DEF ReadEmpty, WriteFull, WriteBroken, OperationDown, OperationUp, DownCheck, DownReturns, Close,
           ReadCall, WriteCall, ends
<1>3. CASE ReadEmpty(p) \/ WriteFull(p)
    <2>1. PICK at \in {"ret", "down"} :
            pc[p] = "loop" /\ pc' = [pc EXCEPT ![p] = at] /\ UNCHANGED call /\ UNCHANGED woke
        BY <1>3 DEF ReadEmpty, WriteFull, Goto, sems
    <2>2. \A q \in Procs \ {p} : pc'[q] = pc[q] /\ call'[q] = call[q] /\ woke'[q] = woke[q]
        BY <2>1 DEF Control, ControlTypes
    <2>3. pc'[p] = at /\ call'[p] = call[p]
        BY <2>1 DEF Control, ControlTypes
    <2>4. at = "down" => ~MayProceed(p)
        BY <1>3, <2>1, <2>3, PipeAssumption DEF ReadEmpty, WriteFull, Goto, MayProceed, Eof
    <2>5. MayProceed(p)' <=> MayProceed(p)
        BY <1>1, <1>2, <2>3, SameChance
    <2>6. pc'[p] \in Blocked => at = "down"
        BY <2>3 DEF Blocked
    <2> QED
        BY <1>1, <1>2, <2>1, <2>2, <2>4, <2>5, <2>6, QuietWake DEF Announcers
<1>4. CASE DownCheck(p)
    <2>1. pc[p] = "queued" /\ UNCHANGED call
        BY <1>4 DEF DownCheck
    <2>2. \A q \in Procs \ {p} : pc'[q] = pc[q] /\ call'[q] = call[q] /\ woke'[q] = woke[q]
        BY <1>4 DEF DownCheck, Goto, Control, ControlTypes, TypeOK
    <2>3. \/ pc'[p] = "ret"
          \/ pc'[p] = "asleep" /\ woke' = woke
        BY <1>4 DEF DownCheck, Goto, Control, ControlTypes
    <2>4. ASSUME pc'[p] \in Blocked /\ MayProceed(p)' PROVE Covered(p)'
        <3>1. pc'[p] = "asleep" /\ woke' = woke
            BY <2>3, <2>4 DEF Blocked
        <3>2. MayProceed(p)
            BY <1>1, <1>2, <2>1, <2>4, SameChance
        <3>3. Announcing(Target(p), Side(p)) \/ woke[p] # "no"
            BY <2>1, <3>2 DEF WakeInv
        <3>4. PICK x, s : x = Target(p) /\ s = Side(p)
            OBVIOUS
        <3>5. Target(p)' = x /\ Side(p)' = s
            BY <2>1, <3>4 DEF Target, Side
        <3>6. Announcing(x, s) => Announcing(x, s)'
            BY <2>1, <2>2, StillAnnouncing DEF Announcers
        <3> QED
            BY <3>1, <3>3, <3>4, <3>5, <3>6 DEF Covered
    <2> QED
        BY <1>1, <1>2, <2>1, <2>2, <2>4, QuietWake DEF Announcers
<1>5. CASE \/ WriteBroken(p) \/ OperationDown(p) \/ OperationUp(p) \/ DownReturns(p)
           \/ \E d \in Descs : Close(p, d)
           \/ \E d \in Descs : \E nb \in BOOLEAN :
                \/ \E n \in Nat \ {0} : ReadCall(p, d, n, nb)
                \/ \E s \in Seq(Byte) : s # <<>> /\ WriteCall(p, d, s, nb)
    <2>1. pc[p] \notin Announcers
        BY <1>5, ZenonT(60) DEF WriteBroken, OperationDown, OperationUp, DownReturns, Close, ReadCall, WriteCall, Announcers
    <2>2. pc'[p] \notin Blocked /\ \A q \in Procs \ {p} : pc'[q] = pc[q]
        BY <1>5, ZenonT(60) DEF WriteBroken, OperationDown, OperationUp, DownReturns, Close, ReadCall, WriteCall, Goto,
                    Blocked, Control, ControlTypes
    <2>3. \A q \in Procs \ {p} : call'[q] = call[q]
        BY <1>5, ZenonT(60) DEF WriteBroken, OperationDown, OperationUp, DownReturns, Close, ReadCall, WriteCall, Ends,
                    Control, ControlTypes
    <2>4. \A q \in Procs \ {p} : woke'[q] = woke[q]
        BY <1>5 DEF WriteBroken, OperationDown, OperationUp, DownReturns, Close, ReadCall, WriteCall, sems, TypeOK
    <2> QED
        BY <1>1, <1>2, <2>1, <2>2, <2>3, <2>4, QuietWake, SMTT(60)
<1> QED
    BY <1>3, <1>4, <1>5, SMTT(60)

(* down_interruptible takes the token or queues.                           *)
LEMMA DownWake ==
    ASSUME TypeOK, Control, WakeInv, NEW p \in Procs, Down(p)
    PROVE  WakeInv'
<1>1. /\ pc[p] = "down" /\ UNCHANGED call /\ UNCHANGED woke
      /\ UNCHANGED count /\ UNCHANGED readers /\ UNCHANGED writers
    BY DEF Down, ring, ends
<1>2. PICK x \in Pipes, s \in Sides : x = Target(p) /\ s = Side(p)
    BY <1>1, TargetPipe DEF Control, InCall
<1>3. token[x][s] \in {0, 1} /\ token \in [Pipes -> [Sides -> {0, 1}]]
    BY DEF TypeOK
<1>4. CASE token[x][s] > 0
    <2>1. token' = [token EXCEPT ![x][s] = 0] /\ pc' = [pc EXCEPT ![p] = "loop"]
        BY <1>2, <1>4 DEF Down, Goto
    <2>2. pc'[p] = "loop" /\ \A q \in Procs \ {p} : pc'[q] = pc[q]
        BY <2>1 DEF Control, ControlTypes
    <2> SUFFICES ASSUME NEW q \in Procs, pc'[q] \in Blocked, MayProceed(q)'
                 PROVE  Covered(q)'
        BY DEF WakeInv, Blocked, Covered
    <2>3. q # p /\ pc[q] \in Blocked /\ pc'[q] = pc[q]
        BY <2>2 DEF Blocked
    <2>4. MayProceed(q)
        BY <1>1, SameChance
    <2>5. Covered(q)
        BY <2>3, <2>4 DEF WakeInv, Blocked, Covered
    <2>6. PICK y \in Pipes, z \in Sides : y = Target(q) /\ z = Side(q)
        BY <2>3, TargetPipe DEF Control, InCall, Blocked
    <2>7. Target(q)' = y /\ Side(q)' = z
        BY <1>1, <2>6 DEF Target, Side
    <2>8. Announcing(y, z) => Announcing(y, z)'
        BY <1>1, <2>2, StillAnnouncing DEF Announcers
    <2>9. y # x \/ z # s
        BY <1>1, <1>2, <2>3, <2>6, OneInside DEF Blocked, InOperation, InCall
    <2>10. token'[y][z] = token[y][z]
        BY <1>3, <2>1, <2>9
    <2> QED
        BY <1>1, <2>3, <2>5, <2>6, <2>7, <2>8, <2>10 DEF Covered
<1>5. CASE ~ (token[x][s] > 0)
    <2>1. UNCHANGED token /\ pc' = [pc EXCEPT ![p] = "queued"]
        BY <1>2, <1>5 DEF Down, Goto
    <2>2. pc'[p] = "queued" /\ \A q \in Procs \ {p} : pc'[q] = pc[q]
        BY <2>1 DEF Control, ControlTypes
    <2>3. ASSUME MayProceed(p)' PROVE Covered(p)'
        <3>1. MayProceed(p)
            BY <1>1, <2>3, SameChance
        <3>2. Announcing(x, s)
            BY <1>1, <1>2, <1>3, <1>5, <3>1 DEF WakeInv
        <3>3. Announcing(x, s)'
            BY <1>1, <2>2, <3>2, StillAnnouncing DEF Announcers
        <3>4. Target(p)' = x /\ Side(p)' = s
            BY <1>1, <1>2 DEF Target, Side
        <3> QED
            BY <3>3, <3>4 DEF Covered
    <2> QED
        BY <1>1, <2>1, <2>2, <2>3, QuietWake DEF Announcers
<1> QED
    BY <1>4, <1>5

(* Signals, and dup.                                                       *)
LEMMA SignalWake ==
    ASSUME TypeOK, Control, WakeInv, NEW p \in Procs,
           Kill(p) \/ SignalHandled(p) \/ \E d \in Descs : Dup(p, d)
    PROVE  WakeInv'
<1>1. UNCHANGED <<pc, call>> /\ UNCHANGED token /\ UNCHANGED count
    BY DEF Kill, SignalHandled, Dup, ring, sems
<1>2. \A q \in Procs : woke'[q] = woke[q] \/ woke'[q] = "signal"
    BY DEF Kill, SignalHandled, Dup, sems, TypeOK
<1>3. \A x \in Pipes : (readers'[x] = 0 => readers[x] = 0) /\ (writers'[x] = 0 => writers[x] = 0)
    <2>1. CASE Kill(p) \/ SignalHandled(p)
        BY <2>1 DEF Kill, SignalHandled, ends
    <2>2. CASE \E d \in Descs : Dup(p, d)
        BY <2>2 DEF Dup, ReadersAfterDup, WritersAfterDup, TypeOK
    <2> QED
        BY <2>1, <2>2
<1> SUFFICES ASSUME NEW q \in Procs, pc'[q] \in Blocked, MayProceed(q)'
             PROVE  Covered(q)'
    BY DEF WakeInv, Blocked, Covered
<1>4. PICK x \in Pipes, s \in Sides : x = Target(q) /\ s = Side(q)
    BY <1>1, TargetPipe DEF Control, InCall, Blocked
<1>5. Target(q)' = x /\ Side(q)' = s
    BY <1>1, <1>4 DEF Target, Side
<1>6. MayProceed(q)
    BY <1>1, <1>3, <1>4, <1>5 DEF MayProceed
<1>7. Covered(q)
    BY <1>1, <1>6 DEF WakeInv, Blocked, Covered
<1>8. Announcing(x, s) => Announcing(x, s)'
    BY <1>1, StillAnnouncing
<1> QED
    BY <1>1, <1>2, <1>4, <1>5, <1>7, <1>8 DEF Covered

(* Data moved or the last end closed: the actor now announces it.          *)
LEMMA MoveWake ==
    ASSUME TypeOK, Control, WakeInv, NEW p \in Procs, ReadData(p) \/ WriteData(p) \/ CloseEnd(p)
    PROVE  WakeInv'
<1>1. UNCHANGED token /\ UNCHANGED woke
    BY DEF ReadData, WriteData, CloseEnd, sems
<1>2. CASE ReadData(p) \/ WriteData(p)
    <2>1. PICK x \in Pipes, s \in Sides : x = Target(p) /\ s = Side(p)
        <3>1. pc[p] = "loop"
            BY <1>2 DEF ReadData, WriteData
        <3> QED
            BY <3>1, TargetPipe DEF Control, InCall
    <2>2. /\ pc[p] = "loop" /\ pc' = [pc EXCEPT ![p] = "wake"]
          /\ UNCHANGED readers /\ UNCHANGED writers
        BY <1>2 DEF ReadData, WriteData, Goto, ends
    <2>3. pc'[p] = "wake" /\ \A q \in Procs \ {p} : pc'[q] = pc[q]
        BY <2>2 DEF Control, ControlTypes
    <2>4. /\ call'[p].op = call[p].op /\ call'[p].d = call[p].d
          /\ \A q \in Procs \ {p} : call'[q] = call[q]
        <3>1. CASE ReadData(p)
            BY <3>1 DEF ReadData
        <3>2. CASE WriteData(p)
            <4>1. call[p] \in Arguments
                BY DEF Control, ControlTypes
            <4> DEFINE t == SubSeq(call[p].data,
                                   Lesser(Len(call[p].data), FS_PIPE_CAPACITY - count[Target(p)]) + 1,
                                   Len(call[p].data))
            <4>2. call' = [call EXCEPT ![p].data = t, ![p].written = TRUE]
                BY <3>2 DEF WriteData
            <4> HIDE DEF t
            <4> QED
                BY <4>1, <4>2 DEF Control, ControlTypes, Arguments
        <3> QED
            BY <1>2, <3>1, <3>2
    <2>5. Target(p)' = x /\ Side(p)' = s
        BY <2>1, <2>4 DEF Target, Side
    <2>6. PICK n \in Nat : \/ s = "read" /\ n <= count[x] /\ count' = [count EXCEPT ![x] = @ - n]
                           \/ s = "write" /\ count' = [count EXCEPT ![x] = @ + n]
        <3>1. count[x] \in Nat /\ count[x] <= FS_PIPE_CAPACITY /\ FS_PIPE_CAPACITY \in Nat
            BY PipeAssumption DEF TypeOK
        <3>2. CASE ReadData(p)
            <4>1. call[p].len \in Nat
                BY DEF Control, ControlTypes, Arguments
            <4>2. s = "read" /\ count' = [count EXCEPT ![x] = @ - Lesser(call[p].len, count[x])]
                BY <2>1, <3>2 DEF ReadData, Side
            <4>3. Lesser(call[p].len, count[x]) \in Nat /\ Lesser(call[p].len, count[x]) <= count[x]
                BY <3>1, <4>1 DEF Lesser
            <4> QED
                BY <4>2, <4>3
        <3>3. CASE WriteData(p)
            <4>1. Len(call[p].data) \in Nat
                BY LenProperties DEF Control, ControlTypes, Arguments
            <4> DEFINE n == Lesser(Len(call[p].data), FS_PIPE_CAPACITY - count[x])
            <4>2. s = "write" /\ count' = [count EXCEPT ![x] = @ + n]
                BY <2>1, <3>3 DEF WriteData, Side
            <4>3. n \in Nat
                BY <3>1, <4>1 DEF Lesser
            <4> QED
                BY <4>2, <4>3
        <3> QED
            BY <1>2, <3>2, <3>3
    <2>7. ASSUME NEW q \in Procs \ {p}, pc[q] \in Blocked, MayProceed(q)', ~MayProceed(q)
          PROVE  Announcing(Target(q), Side(q))'
        <3>1. PICK y \in Pipes, z \in Sides : y = Target(q) /\ z = Side(q)
            BY <2>7, TargetPipe DEF Control, InCall, Blocked
        <3>2. Target(q)' = y /\ Side(q)' = z
            BY <2>4, <2>7, <3>1 DEF Target, Side
        <3>3. /\ count[y] \in Nat /\ (y # x => count'[y] = count[y])
              /\ (s = "read" => count'[x] = count[x] - n /\ n <= count[x])
              /\ (s = "write" => count'[x] = count[x] + n)
            <4>1. count \in [Pipes -> Nat]
                BY PipeAssumption DEF TypeOK
            <4>2. CASE s = "read" /\ n <= count[x] /\ count' = [count EXCEPT ![x] = @ - n]
                BY <4>1, <4>2
            <4>3. CASE s = "write" /\ count' = [count EXCEPT ![x] = @ + n]
                BY <4>1, <4>3
            <4> QED
                BY <2>6, <4>2, <4>3
        <3>4. y = x /\ z # s
            <4>1. FS_PIPE_CAPACITY \in Nat /\ z = call[q].op /\ z = call'[q].op
                BY <3>1, <3>2, PipeAssumption DEF Side
            <4>2. IF z = "read" THEN ~ (count[y] > 0 \/ writers[y] = 0)
                  ELSE ~ (count[y] < FS_PIPE_CAPACITY \/ readers[y] = 0)
                BY <2>7, <3>1, <4>1 DEF MayProceed
            <4>3. IF z = "read" THEN count'[y] > 0 \/ writers[y] = 0
                  ELSE count'[y] < FS_PIPE_CAPACITY \/ readers[y] = 0
                BY <2>2, <2>7, <3>2, <4>1 DEF MayProceed
            <4>4. y = x
                BY <3>3, <4>2, <4>3
            <4>5. CASE s = "read" /\ z = "read"
                BY <3>3, <4>2, <4>3, <4>4, <4>5
            <4>6. CASE s = "write" /\ z = "write"
                BY <3>3, <4>1, <4>2, <4>3, <4>4, <4>6
            <4> QED
                BY <4>4, <4>5, <4>6 DEF Sides
        <3>5. Announcing(y, z)'
            BY <2>3, <2>5, <3>4 DEF Announcing
        <3> QED
            BY <3>2, <3>5
    <2> QED
        BY <1>1, <2>2, <2>3, <2>4, <2>7, WakeFrame DEF Announcers, Blocked
<1>3. CASE CloseEnd(p)
    <2>1. PICK d \in Descs : d = call[p].d
        BY <1>3 DEF CloseEnd, Control, CallInv
    <2>2. pc[p] = "close" /\ UNCHANGED count /\ call[p].todo \subseteq Sides /\ call[p].todo # {}
          /\ \A t \in call[p].todo : Exists(d, t)
        BY <1>3, <2>1 DEF CloseEnd, ring, Control, ControlTypes, CallInv, Arguments
    <2>3. PICK s \in Sides : s = ClosingSide(p)
        BY DEF ClosingSide, Sides
    <2>4. PICK x \in Pipes : x = ClosingPipe(p)
        BY <2>1, <2>2, PipeAssumption DEF ClosingPipe, ClosingSide, Exists, Sides
    <2>5. \/ pc[p] = "close" /\ Goto(p, "closewake") /\ UNCHANGED call
          \/ pc[p] \in ClosingPcs /\ CloseNext(p)
        BY <1>3 DEF CloseEnd, ClosingPcs
    <2>6. \A q \in Procs \ {p} : pc'[q] = pc[q] /\ call'[q] = call[q]
        BY <2>1, <2>5, ClosersAfter
    <2>7. pc'[p] \notin Blocked
        <3>1. CASE Goto(p, "closewake")
            BY <3>1 DEF Goto, Control, ControlTypes, Blocked
        <3>2. CASE CloseNext(p)
            BY <3>2 DEF CloseNext, Goto, Control, ControlTypes, Blocked
        <3> QED
            BY <2>5, <3>1, <3>2
    <2>8. /\ s = "read" => readers' = [readers EXCEPT ![x] = @ - 1] /\ writers' = writers
          /\ s = "write" => writers' = [writers EXCEPT ![x] = @ - 1] /\ readers' = readers
        BY <1>3, <2>3, <2>4 DEF CloseEnd, Sides
    <2>9. ASSUME \/ s = "read" /\ readers[x] = 1
                 \/ s = "write" /\ writers[x] = 1
          PROVE  pc'[p] = "closewake" /\ call' = call
        BY <1>3, <2>3, <2>4, <2>9 DEF CloseEnd, IsLast, Goto, Control, ControlTypes
    <2>10. ASSUME NEW q \in Procs \ {p}, pc[q] \in Blocked, MayProceed(q)', ~MayProceed(q)
          PROVE  Announcing(Target(q), Side(q))'
        <3>1. PICK y \in Pipes, z \in Sides : y = Target(q) /\ z = Side(q)
            BY <2>10, TargetPipe DEF Control, InCall, Blocked
        <3>2. Target(q)' = y /\ Side(q)' = z
            BY <2>6, <2>10, <3>1 DEF Target, Side
        <3>3. z = call[q].op /\ z = call'[q].op /\ readers \in [Pipes -> Nat] /\ writers \in [Pipes -> Nat]
            BY <3>1, <3>2 DEF Side, TypeOK
        <3>4. IF z = "read" THEN writers[y] # 0 /\ writers'[y] = 0 ELSE readers[y] # 0 /\ readers'[y] = 0
            BY <2>2, <2>10, <3>1, <3>2, <3>3 DEF MayProceed
        <3>5. CASE z = "read"
            <4>1. s = "write" /\ y = x /\ writers[x] = 1
                BY <2>8, <3>3, <3>4, <3>5 DEF Sides
            <4> QED
                BY <2>3, <2>4, <2>9, <3>2, <3>5, <4>1 DEF Announcing, ClosingPipe, ClosingSide
        <3>6. CASE z = "write"
            <4>1. s = "read" /\ y = x /\ readers[x] = 1
                BY <2>8, <3>3, <3>4, <3>6 DEF Sides
            <4> QED
                BY <2>3, <2>4, <2>9, <3>2, <3>6, <4>1 DEF Announcing, ClosingPipe, ClosingSide
        <3> QED
            BY <3>5, <3>6 DEF Sides
    <2> QED
        BY <1>1, <2>2, <2>6, <2>7, <2>10, WakeFrame DEF Announcers
<1> QED
    BY <1>2, <1>3

(* The wake-up of side s of pipe x: whoever is at that side gets the event *)
(* or finds the token, and nobody else loses anything.                     *)
LEMMA EventWake ==
    ASSUME TypeOK, Control, WakeInv, NEW p \in Procs, NEW x \in Pipes, NEW s \in Sides,
           UNCHANGED count, UNCHANGED readers, UNCHANGED writers, pc'[p] \notin Blocked,
           \A q \in Procs \ {p} : pc'[q] = pc[q] /\ call'[q] = call[q],
           \/ pc[p] = "wake" /\ Target(p) = x /\ s = Other(Side(p))
           \/ pc[p] = "closewake" /\ ClosingPipe(p) = x /\ s = Other(ClosingSide(p)),
           IF Sleepers(x, s) = {} THEN token' = TokenKept(x, s) ELSE UNCHANGED token,
           \A q \in Procs : woke'[q] = woke[q] \/ woke'[q] = "event",
           Sleepers(x, s) # {} => \E r \in Sleepers(x, s) : woke'[r] = "event"
    PROVE  WakeInv'
<1> SUFFICES ASSUME NEW q \in Procs, pc'[q] \in Blocked, MayProceed(q)'
             PROVE  Covered(q)'
    BY DEF WakeInv, Blocked, Covered
<1>1. q # p /\ pc'[q] = pc[q] /\ call'[q] = call[q] /\ pc[q] \in Blocked /\ pc[q] \in InOperation
    BY DEF Blocked, InOperation, InCall
<1>2. PICK y \in Pipes, z \in Sides : y = Target(q) /\ z = Side(q)
    BY <1>1, TargetPipe DEF Control, InOperation
<1>3. Target(q)' = y /\ Side(q)' = z
    BY <1>1, <1>2 DEF Target, Side
<1>4. MayProceed(q)
    BY <1>1, SameChance
<1>5. Covered(q)
    BY <1>1, <1>4 DEF WakeInv, Blocked, Covered
<1>6. token \in [Pipes -> [Sides -> {0, 1}]]
    BY DEF TypeOK
<1>7. token'[y][z] = token[y][z] \/ token'[y][z] = 1
    BY <1>6 DEF TokenKept
<1>8. CASE y = x /\ z = s
    <2>1. CASE pc[q] = "down"
        <3>1. Sleepers(x, s) = {}
            <4>1. SUFFICES ASSUME NEW r \in Sleepers(x, s) PROVE FALSE
                OBVIOUS
            <4>2. r \in Procs /\ pc[r] \in {"queued", "asleep"} /\ Target(r) = x /\ Side(r) = s
                BY <4>1 DEF Sleepers
            <4>3. r = q
                BY <1>1, <1>2, <1>8, <4>2, OneInside DEF InOperation, InCall
            <4> QED
                BY <2>1, <4>2, <4>3
        <3>2. token'[x][s] = 1
            BY <1>6, <3>1 DEF TokenKept
        <3> QED
            BY <1>1, <1>3, <1>8, <2>1, <3>2 DEF Covered
    <2>2. CASE pc[q] # "down" /\ woke[q] # "no"
        BY <1>1, <2>2 DEF Covered
    <2>3. CASE pc[q] # "down" /\ woke[q] = "no"
        <3>1. q \in Sleepers(x, s)
            BY <1>1, <1>2, <1>8, <2>3 DEF Sleepers, Blocked
        <3>2. PICK r \in Sleepers(x, s) : woke'[r] = "event"
            BY <3>1
        <3>3. r \in Procs /\ pc[r] \in {"queued", "asleep"} /\ Target(r) = x /\ Side(r) = s
            BY <3>2 DEF Sleepers
        <3>4. r = q
            BY <1>1, <1>2, <1>8, <3>3, OneInside DEF InOperation, InCall
        <3> QED
            BY <1>1, <2>3, <3>2, <3>4 DEF Covered
    <2> QED
        BY <2>1, <2>2, <2>3
<1>9. CASE ~ (y = x /\ z = s)
    <2>1. Announcing(y, z) => Announcing(y, z)'
        <3>1. SUFFICES ASSUME Announcing(y, z) PROVE Announcing(y, z)'
            OBVIOUS
        <3>2. PICK r \in Procs :
                \/ pc[r] = "wake" /\ Target(r) = y /\ Side(r) # z
                \/ pc[r] = "closewake" /\ ClosingPipe(r) = y /\ ClosingSide(r) # z
            BY <3>1 DEF Announcing
        <3>3. r # p
            <4>1. pc[p] = "wake" => Side(p) \in Sides
                BY TargetPipe DEF Control, InCall
            <4>2. ClosingSide(p) \in Sides
                BY DEF ClosingSide, Sides
            <4> QED
                BY <1>9, <3>2, <4>1, <4>2 DEF Other, Sides
        <3>4. pc'[r] = pc[r] /\ call'[r] = call[r]
            BY <3>3
        <3>5. /\ Target(r)' = Target(r) /\ Side(r)' = Side(r) /\ ClosingPipe(r)' = ClosingPipe(r)
              /\ ClosingSide(r)' = ClosingSide(r)
            BY <3>4 DEF Target, Side, ClosingPipe, ClosingSide
        <3> QED
            BY <3>2, <3>4, <3>5 DEF Announcing
    <2>2. woke[q] # "no" => woke'[q] # "no"
        OBVIOUS
    <2> QED
        BY <1>1, <1>2, <1>3, <1>5, <1>7, <2>1, <2>2 DEF Covered
<1> QED
    BY <1>8, <1>9

(* pipe_wake_readers, pipe_wake_writers and the wake-up of a last close.   *)
LEMMA WakeOtherWake ==
    ASSUME TypeOK, Control, WakeInv, NEW p \in Procs, WakeOther(p) \/ CloseWake(p)
    PROVE  WakeInv'
<1>1. UNCHANGED count /\ UNCHANGED readers /\ UNCHANGED writers
    BY DEF WakeOther, CloseWake, ring, ends
<1>2. CASE WakeOther(p)
    <2>1. PICK x \in Pipes, s \in Sides : pc[p] = "wake" /\ x = Target(p) /\ s = Other(Side(p))
        <3>1. pc[p] = "wake"
            BY <1>2 DEF WakeOther
        <3>2. Target(p) \in Pipes /\ Other(Side(p)) \in Sides
            BY <3>1, TargetPipe DEF Control, InCall, Other, Sides
        <3> QED
            BY <3>1, <3>2
    <2>2. sem_wake_event(x, s) /\ UNCHANGED call
        BY <1>2, <2>1 DEF WakeOther
    <2>3. pc'[p] \notin Blocked /\ \A q \in Procs \ {p} : pc'[q] = pc[q]
        BY <1>2 DEF WakeOther, Goto, Control, ControlTypes, Blocked
    <2>4. /\ IF Sleepers(x, s) = {} THEN token' = TokenKept(x, s) ELSE UNCHANGED token
          /\ \A q \in Procs : woke'[q] = woke[q] \/ woke'[q] = "event"
          /\ Sleepers(x, s) # {} => \E r \in Sleepers(x, s) : woke'[r] = "event"
        <3>1. CASE Sleepers(x, s) = {}
            BY <2>2, <3>1 DEF sem_wake_event
        <3>2. CASE Sleepers(x, s) # {}
            <4>1. UNCHANGED token
                BY <2>2, <3>2 DEF sem_wake_event
            <4>2. PICK r \in Sleepers(x, s) : woke' = [woke EXCEPT ![r] = "event"]
                BY <2>2, <3>2 DEF sem_wake_event
            <4>3. r \in Procs
                BY DEF Sleepers
            <4> QED
                BY <3>2, <4>1, <4>2, <4>3 DEF TypeOK
        <3> QED
            BY <3>1, <3>2
    <2> QED
        BY <1>1, <2>1, <2>2, <2>3, <2>4, EventWake
<1>3. CASE CloseWake(p)
    <2>1. pc[p] = "closewake" /\ CloseNext(p) /\ call[p].d \in Descs
        BY <1>3 DEF CloseWake, Control, CallInv
    <2>2. PICK s \in Sides : s = Other(ClosingSide(p))
        BY DEF Other, Sides
    <2>3. PICK x \in Pipes : x = ClosingPipe(p)
        <3>1. /\ call[p].todo \subseteq Sides /\ call[p].todo # {}
              /\ \A t \in call[p].todo : Exists(call[p].d, t)
            BY <2>1 DEF Control, ControlTypes, CallInv, Arguments
        <3> QED
            BY <2>1, <3>1, PipeAssumption DEF ClosingPipe, ClosingSide, Exists, Sides
    <2>4. \A q \in Procs \ {p} : pc'[q] = pc[q] /\ call'[q] = call[q]
        BY <2>1, ClosersAfter DEF ClosingPcs
    <2>5. pc'[p] \notin Blocked
        BY <2>1 DEF CloseNext, Goto, Control, ControlTypes, Blocked
    <2>6. /\ woke' = [q \in Procs |-> IF q \in Sleepers(x, s) THEN "event" ELSE woke[q]]
          /\ token' = IF Sleepers(x, s) = {} THEN TokenKept(x, s) ELSE token
        BY <1>3, <2>2, <2>3 DEF CloseWake
    <2>7. /\ IF Sleepers(x, s) = {} THEN token' = TokenKept(x, s) ELSE UNCHANGED token
          /\ \A q \in Procs : woke'[q] = woke[q] \/ woke'[q] = "event"
        BY <2>6
    <2>8. Sleepers(x, s) # {} => \E r \in Sleepers(x, s) : woke'[r] = "event"
        BY <2>6 DEF Sleepers
    <2> QED
        BY <1>1, <2>1, <2>2, <2>3, <2>4, <2>5, <2>7, <2>8, EventWake
<1> QED
    BY <1>2, <1>3

(* Every step keeps every wake-up.                                         *)
LEMMA WakeStep ==
    ASSUME TypeOK, Control, WakeInv, Next
    PROVE  WakeInv'
<1>1. PICK p \in Procs :
        \/ Step(p) \/ OperationDown(p) \/ Kill(p) \/ SignalHandled(p)
        \/ \E d \in Descs :
            \/ Dup(p, d) \/ Close(p, d)
            \/ \E nb \in BOOLEAN :
                \/ \E n \in Nat \ {0} : ReadCall(p, d, n, nb)
                \/ \E s \in Seq(Byte) : s # <<>> /\ WriteCall(p, d, s, nb)
    BY NextCases
<1>2. CASE Step(p)
    BY <1>2, WaitWake, DownWake, MoveWake, WakeOtherWake DEF Step
<1>3. CASE OperationDown(p) \/ \E d \in Descs : Close(p, d)
    BY <1>3, WaitWake
<1>4. CASE Kill(p) \/ SignalHandled(p) \/ \E d \in Descs : Dup(p, d)
    BY <1>4, SignalWake
<1>5. CASE \E d \in Descs : \E nb \in BOOLEAN :
                \/ \E n \in Nat \ {0} : ReadCall(p, d, n, nb)
                \/ \E s \in Seq(Byte) : s # <<>> /\ WriteCall(p, d, s, nb)
    BY <1>5, WaitWake
<1> QED
    BY <1>1, <1>2, <1>3, <1>4, <1>5
-----------------------------------------------------------------------------
(* Tokens, wake-ups and signals keep their types.                          *)
LEMMA SemTypeStep ==
    ASSUME TypeOK, Control, Next
    PROVE  /\ token' \in [Pipes -> [Sides -> {0, 1}]]
           /\ woke' \in [Procs -> {"no", "event", "signal"}]
           /\ sig' \in [Procs -> BOOLEAN]
<1>1. /\ token \in [Pipes -> [Sides -> {0, 1}]]
      /\ woke \in [Procs -> {"no", "event", "signal"}]
    BY DEF TypeOK
<1>2. \A x, s : TokenKept(x, s) \in [Pipes -> [Sides -> {0, 1}]]
    BY <1>1 DEF TokenKept
<1>3. PICK p \in Procs :
        \/ Step(p) \/ OperationDown(p) \/ Kill(p) \/ SignalHandled(p)
        \/ \E d \in Descs :
            \/ Dup(p, d) \/ Close(p, d)
            \/ \E nb \in BOOLEAN :
                \/ \E n \in Nat \ {0} : ReadCall(p, d, n, nb)
                \/ \E s \in Seq(Byte) : s # <<>> /\ WriteCall(p, d, s, nb)
    BY NextCases
<1>4. sig' \in [Procs -> BOOLEAN]
    <2>1. sig \in [Procs -> BOOLEAN] /\ \A q \in Procs : call[q].written \in BOOLEAN
        BY DEF TypeOK, Control, ControlTypes, Arguments
    <2>2. CASE WriteBroken(p)
        BY <2>1, <2>2 DEF WriteBroken
    <2>3. CASE Kill(p) \/ SignalHandled(p)
        BY <2>1, <2>3 DEF Kill, SignalHandled
    <2>4. CASE UNCHANGED sig
        BY <2>1, <2>4
    <2> QED
        BY <1>3, <2>2, <2>3, <2>4
            DEF Step, OperationUp, OperationDown, ReadData, ReadEmpty, WriteData, WriteFull, WakeOther, Down,
                DownCheck, DownReturns, CloseEnd, CloseWake, Dup, Close, ReadCall, WriteCall
<1>5. token' \in [Pipes -> [Sides -> {0, 1}]] /\ woke' \in [Procs -> {"no", "event", "signal"}]
    <2>1. CASE UNCHANGED sems
        BY <1>1, <2>1 DEF sems
    <2>2. ASSUME NEW q \in Procs, Down(q)
          PROVE  token' \in [Pipes -> [Sides -> {0, 1}]] /\ woke' \in [Procs -> {"no", "event", "signal"}]
        BY <1>1, <2>2 DEF Down
    <2>3. ASSUME NEW q \in Procs, DownCheck(q) \/ DownReturns(q) \/ Kill(q)
          PROVE  token' \in [Pipes -> [Sides -> {0, 1}]] /\ woke' \in [Procs -> {"no", "event", "signal"}]
        BY <1>1, <2>3 DEF DownCheck, DownReturns, Kill
    <2>4. ASSUME NEW q \in Procs, WakeOther(q)
          PROVE  token' \in [Pipes -> [Sides -> {0, 1}]] /\ woke' \in [Procs -> {"no", "event", "signal"}]
        <3>1. PICK x, s : sem_wake_event(x, s)
            BY <2>4 DEF WakeOther
        <3> QED
            BY <1>1, <1>2, <3>1 DEF sem_wake_event, Sleepers
    <2>5. ASSUME NEW q \in Procs, CloseWake(q)
          PROVE  token' \in [Pipes -> [Sides -> {0, 1}]] /\ woke' \in [Procs -> {"no", "event", "signal"}]
        BY <1>1, <1>2, <2>5 DEF CloseWake
    <2> QED
        BY <2>1, <2>2, <2>3, <2>4, <2>5, Frames
<1> QED
    BY <1>4, <1>5

(* The ring keeps its type and its shape, and moves bytes as a stream.     *)
LEMMA RingStep ==
    ASSUME TypeOK, CallInv, RingInv, Next
    PROVE  /\ buffer' \in [Pipes -> [0 .. FS_PIPE_CAPACITY - 1 -> Byte]]
           /\ head' \in [Pipes -> 0 .. FS_PIPE_CAPACITY - 1]
           /\ tail' \in [Pipes -> 0 .. FS_PIPE_CAPACITY - 1]
           /\ count' \in [Pipes -> 0 .. FS_PIPE_CAPACITY]
           /\ base' \in Seq(Byte) /\ RingInv'
<1>1. CASE UNCHANGED ring
    <2>1. UNCHANGED <<buffer, head, tail, count, base>>
        BY <1>1 DEF ring
    <2> QED
        BY <2>1 DEF TypeOK, RingInv
<1>2. ASSUME NEW p \in Procs, ReadData(p)
      PROVE  /\ buffer' \in [Pipes -> [0 .. FS_PIPE_CAPACITY - 1 -> Byte]]
             /\ head' \in [Pipes -> 0 .. FS_PIPE_CAPACITY - 1]
             /\ tail' \in [Pipes -> 0 .. FS_PIPE_CAPACITY - 1]
             /\ count' \in [Pipes -> 0 .. FS_PIPE_CAPACITY]
             /\ base' \in Seq(Byte) /\ RingInv'
    <2>1. UNCHANGED <<buffer, tail>>
        BY <1>2 DEF ReadData
    <2> QED
        BY <1>2, <2>1, ReadRing DEF TypeOK
<1>3. ASSUME NEW p \in Procs, WriteData(p)
      PROVE  /\ buffer' \in [Pipes -> [0 .. FS_PIPE_CAPACITY - 1 -> Byte]]
             /\ head' \in [Pipes -> 0 .. FS_PIPE_CAPACITY - 1]
             /\ tail' \in [Pipes -> 0 .. FS_PIPE_CAPACITY - 1]
             /\ count' \in [Pipes -> 0 .. FS_PIPE_CAPACITY]
             /\ base' \in Seq(Byte) /\ RingInv'
    <2>1. UNCHANGED <<head, base>>
        BY <1>3 DEF WriteData
    <2> QED
        BY <1>3, <2>1, WriteRing DEF TypeOK
<1> QED
    BY <1>1, <1>2, <1>3, Frames

(* A pipe or a socket pair starts empty, open and unused.                  *)
LEMMA PipeInit == Init => PipeInv
<1> SUFFICES ASSUME Init PROVE PipeInv
    OBVIOUS
<1>1. /\ FS_PIPE_CAPACITY \in Nat \ {0} /\ IsFiniteSet(Procs) /\ IsFiniteSet(Descs)
      /\ SceneOK(scene) /\ None \notin Descs
    BY PipeAssumption DEF Init
<1>2. /\ \A p \in Procs : pc[p] = "user" /\ call[p] = NoCall
      /\ \A d \in Descs : descriptor_count[d] = 1
    BY DEF Init
<1>3. \A x \in Pipes : /\ IsFiniteSet({d \in Descs : rd[d] = x}) /\ IsFiniteSet({d \in Descs : wr[d] = x})
                       /\ IsFiniteSet({d \in Descs : x \in {rd[d], wr[d]}})
    <2> TAKE x \in Pipes
    <2>1. /\ {d \in Descs : rd[d] = x} \subseteq Descs /\ {d \in Descs : wr[d] = x} \subseteq Descs
          /\ {d \in Descs : x \in {rd[d], wr[d]}} \subseteq Descs
        OBVIOUS
    <2> QED
        BY <1>1, <2>1, FS_Subset
<1>4. TypeOK
    <2>1. scene \in Scenes /\ head = [x \in Pipes |-> 0] /\ tail = head /\ count = head
        BY DEF Init
    <2>2. buffer \in [Pipes -> [0 .. FS_PIPE_CAPACITY - 1 -> Byte]]
        BY <1>1 DEF Init, SceneOK
    <2>3. readers \in [Pipes -> Nat] /\ writers \in [Pipes -> Nat]
        BY <1>3, FS_CardinalityType DEF Init
    <2>4. ref_count \in [Pipes -> Int]
        <3>1. \A x \in Pipes : PipeGets(x) \in Nat
            BY <1>3, FS_CardinalityType DEF PipeGets
        <3> QED
            BY <3>1 DEF Init
    <2>5. /\ token \in [Pipes -> [Sides -> {0, 1}]] /\ holder \in [Descs -> Procs \cup {None}]
          /\ pc \in [Procs -> PCs] /\ woke \in [Procs -> {"no", "event", "signal"}]
          /\ sig \in [Procs -> BOOLEAN] /\ base \in Seq(Byte)
        BY DEF Init, PCs
    <2>6. descriptor_count \in [Descs -> 0 .. scene.dup]
        BY <1>1 DEF Init, SceneOK
    <2>7. call \in [Procs -> Arguments]
        BY CallTypes DEF Init
    <2> QED
        BY <1>1, <2>1, <2>2, <2>3, <2>4, <2>5, <2>6, <2>7 DEF TypeOK
<1>5. CallInv /\ HolderInv
    BY <1>2, CallTypes DEF CallInv, HolderInv, InCall, InOperation
<1>6. CountInv
    <2> SUFFICES ASSUME NEW d \in Descs
                 PROVE  /\ rd[d] # None => readers[rd[d]] = descriptor_count[d] + Cardinality(ReadClosers(d))
                        /\ wr[d] # None => writers[wr[d]] = descriptor_count[d] + Cardinality(WriteClosers(d))
        BY DEF CountInv
    <2>1. ReadClosers(d) = {} /\ WriteClosers(d) = {} /\ Cardinality({}) = 0
        BY <1>2, FS_EmptySet DEF ReadClosers, WriteClosers
    <2>2. ASSUME rd[d] # None PROVE readers[rd[d]] = 1
        <3>1. rd[d] \in Pipes /\ {e \in Descs : rd[e] = rd[d]} = {d}
            BY <2>2, PipeAssumption DEF EndsOK
        <3>2. readers[rd[d]] = Cardinality({e \in Descs : rd[e] = rd[d]})
            BY <3>1 DEF Init
        <3> QED
            BY <3>1, <3>2, FS_Singleton
    <2>3. ASSUME wr[d] # None PROVE writers[wr[d]] = 1
        <3>1. wr[d] \in Pipes /\ {e \in Descs : wr[e] = wr[d]} = {d}
            BY <2>3, PipeAssumption DEF EndsOK
        <3>2. writers[wr[d]] = Cardinality({e \in Descs : wr[e] = wr[d]})
            BY <3>1 DEF Init
        <3> QED
            BY <3>1, <3>2, FS_Singleton
    <2> QED
        BY <1>2, <2>1, <2>2, <2>3
<1>7. RefInv
    <2> SUFFICES ASSUME NEW x \in Pipes, \A d \in Descs : x \in {rd[d], wr[d]} => ~Duplex(d)
                 PROVE  ref_count[x] = Cardinality(Keepers(x))
        BY DEF RefInv
    <2>1. Keepers(x) = {d \in Descs : x \in {rd[d], wr[d]}}
        BY <1>2 DEF Keepers, Alive
    <2>2. PipeGets(x) = Cardinality({d \in Descs : x \in {rd[d], wr[d]}})
        BY DEF PipeGets
    <2> QED
        BY <2>1, <2>2 DEF Init
<1>8. WakeInv
    BY <1>2 DEF WakeInv
<1>9. RingInv
    <2>1. 0 % FS_PIPE_CAPACITY = 0
        BY <1>1
    <2>2. \A x \in Pipes : tail[x] = 0 /\ head[x] = 0 /\ count[x] = 0
        BY DEF Init
    <2> QED
        BY <2>1, <2>2 DEF RingInv
<1> QED
    BY <1>4, <1>5, <1>6, <1>7, <1>8, <1>9 DEF PipeInv

(* Every state of every behaviour satisfies the invariant.                 *)
LEMMA PipeInvariant == Spec => []PipeInv
<1>1. PipeInv /\ [Next]_vars => PipeInv'
    <2> SUFFICES ASSUME PipeInv, [Next]_vars PROVE PipeInv'
        OBVIOUS
    <2>1. TypeOK /\ CallInv /\ HolderInv /\ CountInv /\ RefInv /\ WakeInv /\ RingInv
        BY DEF PipeInv
    <2>2. Control
        BY <2>1 DEF Control, ControlTypes, TypeOK
    <2>3. CASE Next
        <3>1. Control'
            BY <2>1, <2>2, <2>3, ControlStep
        <3>2. CountInv' /\ EndTypes'
            BY <2>1, <2>2, <2>3, CountStep
        <3>3. RefInv' /\ ref_count' \in [Pipes -> Int]
            BY <2>1, <2>2, <2>3, RefStep
        <3>4. WakeInv'
            BY <2>1, <2>2, <2>3, WakeStep
        <3>5. /\ token' \in [Pipes -> [Sides -> {0, 1}]]
              /\ woke' \in [Procs -> {"no", "event", "signal"}] /\ sig' \in [Procs -> BOOLEAN]
            BY <2>1, <2>2, <2>3, SemTypeStep
        <3>6. /\ buffer' \in [Pipes -> [0 .. FS_PIPE_CAPACITY - 1 -> Byte]]
              /\ head' \in [Pipes -> 0 .. FS_PIPE_CAPACITY - 1]
              /\ tail' \in [Pipes -> 0 .. FS_PIPE_CAPACITY - 1]
              /\ count' \in [Pipes -> 0 .. FS_PIPE_CAPACITY]
              /\ base' \in Seq(Byte) /\ RingInv'
            BY <2>1, <2>3, RingStep
        <3>7. scene' \in Scenes
            BY <2>1, <2>3 DEF Next, TypeOK
        <3>8. TypeOK'
            BY <3>1, <3>2, <3>3, <3>5, <3>6, <3>7 DEF TypeOK, Control, ControlTypes, EndTypes
        <3> QED
            BY <3>1, <3>2, <3>3, <3>4, <3>6, <3>8 DEF PipeInv, Control
    <2>4. CASE UNCHANGED vars
        <3>1. /\ UNCHANGED <<scene, buffer, head, tail, count, base, readers, writers, descriptor_count>>
              /\ UNCHANGED <<ref_count, token, woke, holder, pc, call, sig>>
            BY <2>4 DEF vars, ring, ends, sems
        <3>2. TypeOK' /\ CallInv' /\ HolderInv' /\ RingInv'
            BY <2>1, <3>1 DEF TypeOK, CallInv, HolderInv, RingInv
        <3>3. CountInv' /\ RefInv'
            <4>1. \A d \in Descs : ReadClosers(d)' = ReadClosers(d) /\ WriteClosers(d)' = WriteClosers(d)
                BY <3>1 DEF ReadClosers, WriteClosers
            <4>2. \A d \in Descs : Alive(d)' <=> Alive(d)
                BY <3>1 DEF Alive, Users
            <4>3. CountInv'
                BY <2>1, <3>1, <4>1 DEF CountInv
            <4> QED
                BY <2>1, <3>1, <4>2, <4>3, RefSame
        <3>4. WakeInv'
            BY <2>1, <3>1 DEF WakeInv, MayProceed, Announcing, Target, Side, ClosingPipe, ClosingSide
        <3> QED
            BY <3>2, <3>3, <3>4 DEF PipeInv
    <2> QED
        BY <2>3, <2>4
<1> QED
    BY <1>1, PipeInit, PTL DEF Spec

(* For any number of processes and any workload, the ring, the counters,   *)
(* the semaphores and the calls in progress are well typed: no position    *)
(* leaves the ring, and no counter of open ends goes below zero.           *)
THEOREM PipeTyped == Spec => []TypeOK
    BY PipeInvariant, PTL DEF PipeInv

(* No reader sleeps beside data or an end of file, and no writer beside    *)
(* room or a broken pipe, unless somebody is about to wake it: the token   *)
(* of sem_wake_event closes the window between the test of the ring and    *)
(* the semaphore, for any number of processes.                             *)
THEOREM WakeupsNotLost == Spec => []NoLostWakeup
<1>1. PipeInv => NoLostWakeup
    BY DEF PipeInv, WakeInv, NoLostWakeup, Announcing
<1> QED
    BY <1>1, PipeInvariant, PTL

(* The descriptors that an end of a pipe counts, in two parts.             *)
LEMMA WriteClosersSplit ==
    ASSUME TypeOK, CallInv, NEW d \in Descs
    PROVE  Cardinality(WriteClosers(d)) =
                Closing(d, "write")
                    + Cardinality({p \in Procs : pc[p] = "closewake" /\ call[p].d = d /\ call[p].todo = Sides})
<1> DEFINE A == {p \in Procs : pc[p] = "close" /\ call[p].d = d /\ "write" \in call[p].todo}
           B == {p \in Procs : pc[p] = "closewake" /\ call[p].d = d /\ call[p].todo = Sides}
<1>1. IsFiniteSet(A) /\ IsFiniteSet(B)
    <2>1. A \subseteq Procs /\ B \subseteq Procs
        OBVIOUS
    <2> QED
        BY <2>1, PipeAssumption, FS_Subset
<1>2. \A p \in Procs : call[p].todo \subseteq Sides
    BY DEF TypeOK, Arguments
<1>3. WriteClosers(d) = A \cup B
    BY <1>2 DEF WriteClosers, Sides
<1>4. A \cap B = {}
    OBVIOUS
<1>5. Cardinality(A \cup B) = Cardinality(A) + Cardinality(B) - Cardinality(A \cap B)
    BY <1>1, FS_Union
<1>6. Cardinality(A) \in Nat /\ Cardinality(B) \in Nat /\ Cardinality(A \cap B) = 0
    BY <1>1, <1>4, FS_CardinalityType, FS_EmptySet
<1> QED
    BY <1>3, <1>5, <1>6 DEF Closing

(* readers and writers are the descriptors open for the ends of a pipe,    *)
(* with those a close has still to take off, and no pipe made by file_pipe *)
(* is freed while a descriptor or a call in progress can reach it.         *)
THEOREM EndsAreCounted == Spec => []EndsCounted
<1>1. PipeInv => EndsCounted
    <2> SUFFICES ASSUME PipeInv, NEW d \in Descs
                 PROVE  /\ ~Duplex(d) => HasItsPipes(d)
                        /\ rd[d] # None => readers[rd[d]] = descriptor_count[d] + Closing(d, "read")
                        /\ wr[d] # None => writers[wr[d]] = descriptor_count[d] + Closing(d, "write")
                                + Cardinality({p \in Procs : pc[p] = "closewake" /\ call[p].d = d
                                                                /\ call[p].todo = Sides})
        BY DEF EndsCounted
    <2>1. TypeOK /\ CallInv /\ CountInv /\ RefInv
        BY DEF PipeInv
    <2>2. rd[d] # None => readers[rd[d]] = descriptor_count[d] + Closing(d, "read")
        BY <2>1 DEF CountInv, ReadClosers, Closing
    <2>3. ASSUME wr[d] # None
          PROVE  writers[wr[d]] = descriptor_count[d] + Closing(d, "write")
                                + Cardinality({p \in Procs : pc[p] = "closewake" /\ call[p].d = d
                                                                /\ call[p].todo = Sides})
        <3> DEFINE A == {p \in Procs : pc[p] = "close" /\ call[p].d = d /\ "write" \in call[p].todo}
                   B == {p \in Procs : pc[p] = "closewake" /\ call[p].d = d /\ call[p].todo = Sides}
        <3>1. writers[wr[d]] = descriptor_count[d] + Cardinality(WriteClosers(d))
            BY <2>1, <2>3 DEF CountInv
        <3>2. Cardinality(WriteClosers(d)) = Cardinality(A) + Cardinality(B)
            BY <2>1, WriteClosersSplit DEF Closing
        <3>3. Cardinality(A) \in Nat /\ Cardinality(B) \in Nat /\ descriptor_count[d] \in Nat
            <4>1. A \subseteq Procs /\ B \subseteq Procs
                OBVIOUS
            <4>2. Cardinality(A) \in Nat /\ Cardinality(B) \in Nat
                BY <4>1, PipeAssumption, FS_Subset, FS_CardinalityType
            <4>3. scene.dup \in Nat
                BY <2>1, PipeAssumption DEF TypeOK, SceneOK
            <4> QED
                BY <2>1, <4>2, <4>3 DEF TypeOK
        <3>4. Closing(d, "write") = Cardinality(A)
            BY DEF Closing
        <3> HIDE DEF A, B
        <3>5. writers[wr[d]] = descriptor_count[d] + Closing(d, "write") + Cardinality(B)
            BY <3>1, <3>2, <3>3, <3>4
        <3> QED
            BY <3>5 DEF B
    <2>4. ASSUME ~Duplex(d), Alive(d), NEW x \in {rd[d], wr[d]} \ {None} PROVE ref_count[x] > 0
        <3>1. x \in Pipes
            BY PipeAssumption
        <3>2. \A e \in Descs : x \in {rd[e], wr[e]} => ~Duplex(e)
            BY <2>4, PipeAssumption DEF EndsOK
        <3>3. d \in Keepers(x)
            BY <2>4 DEF Keepers
        <3>4. IsFiniteSet(Keepers(x))
            <4>1. Keepers(x) \subseteq Descs
                BY DEF Keepers
            <4> QED
                BY <4>1, PipeAssumption, FS_Subset
        <3>5. Cardinality(Keepers(x)) >= 1 /\ Cardinality(Keepers(x)) \in Nat
            BY <3>3, <3>4, CountChange
        <3> QED
            BY <2>1, <3>1, <3>2, <3>5 DEF RefInv
    <2> QED
        BY <2>2, <2>3, <2>4 DEF HasItsPipes, Alive
<1> QED
    BY <1>1, PipeInvariant, PTL

(* pipe_read and pipe_write implement a bounded byte stream: for every     *)
(* capacity and every size of calls, across wrap-around, partial writes,   *)
(* interrupted calls and closes, no byte is lost, repeated or reordered.   *)
THEOREM PipesAreStreams == Spec => ImplementsStream
<1>1. ASSUME Init PROVE Stream!Init
    <2>1. \A x \in Pipes : count[x] = 0
        BY <1>1 DEF Init
    <2>2. \A x \in Pipes : Contents(x) = <<>>
        BY <2>1 DEF Contents
    <2>3. base = <<>>
        BY <1>1 DEF Init
    <2> QED
        BY <2>2, <2>3 DEF Stream!Init
<1>2. ASSUME PipeInv, [Next]_vars PROVE [Stream!Next]_<<[x \in Pipes |-> Contents(x)], base>>
    <2> DEFINE stream == [x \in Pipes |-> Contents(x)]
    <2>1. TypeOK /\ CallInv /\ RingInv
        BY <1>2 DEF PipeInv
    <2>2. CASE UNCHANGED ring
        <3>1. UNCHANGED <<buffer, head, count, base>>
            BY <2>2 DEF ring
        <3>2. \A x \in Pipes : Contents(x)' = Contents(x)
            BY <3>1 DEF Contents
        <3> QED
            BY <3>1, <3>2
    <2>3. ASSUME NEW p \in Procs, ReadData(p) PROVE Stream!Next
        <3>1. PICK x \in Pipes, n \in Nat :
                /\ n >= 1 /\ n <= Len(Contents(x))
                /\ base' = SubSeq(Contents(x), 1, n)
                /\ Contents(x)' = SubSeq(Contents(x), n + 1, Len(Contents(x)))
                /\ \A y \in Pipes \ {x} : Contents(y)' = Contents(y)
            BY <2>1, <2>3, ReadRing
        <3>2. stream[x] = Contents(x)
            OBVIOUS
        <3>3. n \in 1 .. Len(stream[x])
            BY <2>1, <3>1, <3>2, ContentsBytes, LenProperties
        <3>4. stream' = [stream EXCEPT ![x] = SubSeq(@, n + 1, Len(@))]
            BY <3>1
        <3>5. Stream!Take(x)
            BY <3>1, <3>2, <3>3, <3>4 DEF Stream!Take
        <3> QED
            BY <3>5 DEF Stream!Next
    <2>4. ASSUME NEW p \in Procs, WriteData(p) PROVE Stream!Next
        <3>1. PICK x \in Pipes, n \in Nat : \E s \in [1 .. n -> Byte] :
                /\ n >= 1 /\ n <= FS_PIPE_CAPACITY - Len(Contents(x))
                /\ base' = base
                /\ Contents(x)' = Contents(x) \o s
                /\ \A y \in Pipes \ {x} : Contents(y)' = Contents(y)
            BY <2>1, <2>4, WriteRing
        <3>2. PICK s \in [1 .. n -> Byte] :
                /\ n >= 1 /\ n <= FS_PIPE_CAPACITY - Len(Contents(x))
                /\ base' = base
                /\ Contents(x)' = Contents(x) \o s
                /\ \A y \in Pipes \ {x} : Contents(y)' = Contents(y)
            BY <3>1
        <3>3. stream[x] = Contents(x)
            OBVIOUS
        <3>4. n \in 1 .. FS_PIPE_CAPACITY - Len(stream[x])
            <4>1. Len(Contents(x)) \in Nat /\ FS_PIPE_CAPACITY \in Nat
                BY <2>1, ContentsBytes, LenProperties, PipeAssumption
            <4> QED
                BY <3>2, <3>3, <4>1
        <3>5. stream' = [stream EXCEPT ![x] = @ \o s]
            BY <3>2
        <3>6. Stream!Put(x)
            BY <3>2, <3>4, <3>5 DEF Stream!Put
        <3> QED
            BY <3>6 DEF Stream!Next
    <2>5. CASE Next
        BY <2>2, <2>3, <2>4, <2>5, Frames
    <2>6. CASE UNCHANGED vars
        BY <2>2, <2>6 DEF vars
    <2> QED
        BY <1>2, <2>5, <2>6
<1> QED
    BY <1>1, <1>2, PipeInvariant, PTL DEF Spec, ImplementsStream, Stream!Spec

-----------------------------------------------------------------------------
(* Tcp: the types.                                                         *)
TxType == [seq : Numbers, ack : Numbers]
Owners == {"handshake", "queue", "app", "none"}
SocketType ==
    [state : States, closed : BOOLEAN, connected : BOOLEAN, owner : Owners,
     una : Numbers, nxt : Numbers, rcv : Numbers, eof : BOOLEAN, read_shutdown : BOOLEAN,
     write_shutdown : BOOLEAN, fin_sent : BOOLEAN, fin_pending : BOOLEAN,
     last : {"", "SYN", "SA", "FA"}, last_seq : Numbers, last_ack : Numbers, retry : 0 .. RETRY_LIMIT,
     tx : Seq(TxType), rx : Seq(Numbers), rd : Nat, isn : Numbers, irs : Numbers, fin : BOOLEAN,
     lost : SUBSET Numbers]
RestType ==
    [kind : PollKinds, x : Parties, fin : BOOLEAN, accept : BOOLEAN, unit : SUBSET Numbers,
     ack : BOOLEAN, fin_ack : Numbers]
RecordType == [kind : {"record"}, x : {"srv"}, isn : Numbers]
PutType == [kind : {"put"}, x : {"srv"}]
CallType == [at : Calls, closing : BOOLEAN, ack : Numbers]

SkTyped == sk \in [Parties -> SocketType] /\ \A x \in Parties : sk[x].rd <= Len(sk[x].rx)
WorkTyped == work \subseteq RestType \cup RecordType \cup PutType
LsnType ==
    {l \in [listening : BOOLEAN, count : Int, undo : Nat, failed : BOOLEAN] : l.failed => l.undo > 0}
RestTyped ==
    /\ lsn \in LsnType
    /\ calls \in [Parties -> CallType] /\ net \subseteq Segments
    /\ tries \in [Parties -> Nat]
Typed == SkTyped /\ WorkTyped /\ RestTyped

(* Sums of sequence numbers are sequence numbers.                          *)
LEMMA Modular ==
    /\ SEQ_MOD \in Nat \ {0} /\ 0 \in Numbers
    /\ \A a \in Int : a % SEQ_MOD \in Numbers
    /\ \A a \in Numbers, n \in Int : Plus(a, n) \in Numbers
<1>1. SEQ_MOD \in Nat \ {0}
    BY TcpAssumption
<1>2. \A M \in Nat \ {0}, a \in Int : a % M \in 0 .. M - 1
    OBVIOUS
<1>3. \A a \in Int : a % SEQ_MOD \in Numbers
    BY <1>1, <1>2 DEF Numbers
<1>4. \A a \in Numbers, n \in Int : a + n \in Int
    BY <1>1 DEF Numbers
<1> QED
    BY <1>1, <1>3, <1>4 DEF Plus, Numbers

(* Sequence numbers are integers.                                          *)
LEMMA NumbersInt == Numbers \subseteq Int
BY TcpAssumption DEF Numbers

(* A new socket is well typed.                                             *)
LEMMA NewTyped ==
    /\ NewSocket \in SocketType /\ NewSocket.state = "CLOSED" /\ NewSocket.owner = "app" /\ NewSocket.rd = 0
    /\ NewSocket.rx = <<>> /\ ~NewSocket.closed
<1>1. 0 \in Numbers /\ 0 \in 0 .. RETRY_LIMIT /\ 0 \in Nat
    BY Modular, TcpAssumption
<1>2. <<>> \in Seq(TxType) /\ <<>> \in Seq(Numbers) /\ {} \in SUBSET Numbers
    OBVIOUS
<1>3. "CLOSED" \in States
    BY DEF States
<1> QED
    BY <1>1, <1>2, <1>3 DEF NewSocket, SocketType, Owners

(* A free socket is well typed.                                            *)
LEMMA FreeTyped ==
    /\ NoSocket \in SocketType /\ NoSocket.state = "FREE" /\ NoSocket.owner = "app" /\ NoSocket.rd = 0
    /\ NoSocket.rx = <<>> /\ ~NoSocket.closed
<1> DEFINE s == NewSocket
<1>1. s \in SocketType /\ s.owner = "app" /\ s.rd = 0 /\ s.rx = <<>> /\ ~s.closed /\ "FREE" \in States
    BY NewTyped DEF States
<1>2. NoSocket = [s EXCEPT !.state = "FREE"]
    BY DEF NoSocket
<1> HIDE DEF s
<1> QED
    BY <1>1, <1>2 DEF SocketType
-----------------------------------------------------------------------------
(* The changes of a socket.                                                *)
Alike(s, t) == t.closed = s.closed /\ t.owner = s.owner /\ t.rd = s.rd /\ t.rx = s.rx
Keeps(s, t) == t \in SocketType /\ Alike(s, t)

(* Forgetting the recorded segment leaves the rest of the socket.          *)
LEMMA ForgottenTyped ==
    ASSUME NEW s \in SocketType
    PROVE  Keeps(s, Forgotten(s)) /\ Forgotten(s).state = s.state
<1>1. 0 \in Numbers /\ 0 \in 0 .. RETRY_LIMIT
    BY Modular, TcpAssumption
<1> QED
    BY <1>1 DEF Forgotten, SocketType, Keeps, Alike

(* Recording a control segment leaves the rest of the socket.              *)
LEMMA RecordedTyped ==
    ASSUME NEW s \in SocketType, NEW f \in {"SYN", "SA", "FA"}, NEW q \in Numbers, NEW a \in Numbers
    PROVE  Keeps(s, Recorded(s, f, q, a)) /\ Recorded(s, f, q, a).state = s.state
<1>1. 0 \in Numbers /\ 0 \in 0 .. RETRY_LIMIT
    BY Modular, TcpAssumption
<1> QED
    BY <1>1 DEF Recorded, SocketType, Keeps, Alike

(* What is left of the transmit queue after an acknowledgement is a        *)
(* transmit queue.                                                         *)
LEMMA UnackedTyped ==
    ASSUME NEW tx \in Seq(TxType), NEW a \in Int
    PROVE  Unacked(tx, a) \in Seq(TxType)
<1> DEFINE open == {i \in DOMAIN tx : Plus(tx[i].seq, 1) > a}
           k == CHOOSE i \in open : \A j \in open : i <= j
<1>1. open \subseteq Nat
    OBVIOUS
<1>2. ASSUME open # {} PROVE k \in 1 .. Len(tx)
    <2>1. \E i \in open : \A j \in open : i <= j
        <3> HIDE DEF open
        <3> QED
            BY <1>1, <1>2, Least
    <2>2. k \in open
        BY <2>1
    <2> QED
        BY <2>2
<1>3. Unacked(tx, a) = IF open = {} THEN <<>> ELSE SubSeq(tx, k, Len(tx))
    BY DEF Unacked
<1> HIDE DEF open, k
<1>4. \A j \in 1 .. Len(tx) : SubSeq(tx, j, Len(tx)) \in Seq(TxType)
    OBVIOUS
<1> QED
    BY <1>2, <1>3, <1>4

Acked(s, a, tx) == [s EXCEPT !.una = a, !.tx = tx]
Ended(s, fs, e, st) == [s EXCEPT !.fin_sent = fs, !.eof = e, !.state = st]

(* An acknowledgement changes una and the transmit queue alone.            *)
LEMMA AckedTyped ==
    ASSUME NEW s \in SocketType, NEW a \in Numbers, NEW tx \in Seq(TxType)
    PROVE  LET t == Acked(s, a, tx)
           IN  Keeps(s, t) /\ t.state = s.state /\ t.fin_sent = s.fin_sent /\ t.eof = s.eof
BY DEF Acked, SocketType, Keeps, Alike

(* The fields of a socket whose FIN is acknowledged.                       *)
LEMMA EndedTyped ==
    ASSUME NEW s \in SocketType, NEW fs \in BOOLEAN, NEW e \in BOOLEAN, NEW st \in States
    PROVE  LET t == Ended(s, fs, e, st)
           IN  Keeps(s, t) /\ t.state = st
BY ZenonT(60) DEF Ended, SocketType, Keeps, Alike

(* An acknowledgement moves a connection forward at most to CLOSED or      *)
(* FIN_WAIT_2.                                                             *)
LEMMA TakeAckTyped ==
    ASSUME NEW s \in SocketType, NEW m \in Segments
    PROVE  LET t == TakeAck(s, m)
           IN  Keeps(s, t) /\ (t.state # s.state => s.state \in Synchronised /\ t.state \in {"CLOSED", "FIN_WAIT_2"})
<1> DEFINE fa == s.fin_sent /\ m.ack >= s.nxt
           over == fa /\ s.state \in {"CLOSING", "LAST_ACK"}
           g == IF fa THEN Forgotten(s) ELSE s
           u == Unacked(s.tx, m.ack)
           st == IF over THEN "CLOSED" ELSE IF fa /\ g.state = "FIN_WAIT_1" THEN "FIN_WAIT_2" ELSE g.state
           fs == g.fin_sent /\ ~fa
           e == g.eof \/ over
           h == Acked(g, m.ack, u)
           t == Ended(h, fs, e, st)
<1>1. m.ack \in Numbers /\ m.ack \in Int /\ s.tx \in Seq(TxType)
    BY NumbersInt DEF Segments, SocketType
<1>2. u \in Seq(TxType)
    BY <1>1, UnackedTyped
<1>3. g \in SocketType /\ Alike(s, g) /\ g.state = s.state
    BY ForgottenTyped DEF Keeps, Alike
<1>4. g.tx = s.tx
    BY DEF Forgotten, SocketType
<1>5. TakeAck(s, m) = s \/ TakeAck(s, m) = t
    BY <1>4 DEF TakeAck, Acked, Ended
<1>6. {"CLOSED", "FIN_WAIT_2"} \subseteq States /\ {"CLOSING", "LAST_ACK", "FIN_WAIT_1"} \subseteq Synchronised
    BY DEF States, Synchronised
<1>7. over => s.state \in {"CLOSING", "LAST_ACK"}
    OBVIOUS
<1>8. fs \in BOOLEAN /\ e \in BOOLEAN
    BY Zenon
<1>9. g.state \in States
    BY <1>3 DEF SocketType
<1> HIDE DEF g, fa, over, u, fs, e
<1>10. st \in States /\ (st # g.state => s.state \in Synchronised /\ st \in {"CLOSED", "FIN_WAIT_2"})
    BY <1>3, <1>6, <1>7, <1>9
<1> HIDE DEF st
<1>11. Keeps(g, h)
    BY <1>1, <1>2, <1>3, AckedTyped, Zenon
<1>12. h \in SocketType
    BY <1>11 DEF Keeps
<1> HIDE DEF h
<1>13. Keeps(h, t) /\ t.state = st
    BY <1>8, <1>10, <1>12, EndedTyped, ZenonT(60)
<1> HIDE DEF t
<1> QED
    BY <1>3, <1>5, <1>10, <1>11, <1>13 DEF Keeps, Alike
-----------------------------------------------------------------------------
(* States in which a socket has no connection of its own yet.              *)
Early == {"FREE", "SYN_RECEIVED"}
Turns(s, t, st) == Keeps(s, t) /\ t.state = st /\ t.fin_sent = s.fin_sent

(* The states, by what a socket in them may do.                            *)
LEMMA StateFacts ==
    /\ States = {"FREE", "SYN_RECEIVED", "CLOSED", "SYN_SENT"} \cup Synchronised
    /\ Synchronised = {"ESTABLISHED", "CLOSE_WAIT", "FIN_WAIT_1", "FIN_WAIT_2", "CLOSING", "LAST_ACK"}
    /\ \A st \in Synchronised \cup {"CLOSED", "SYN_SENT"} : st \in States /\ st \notin Early
BY DEF States, Synchronised, Early

(* The fields that the proofs need most.                                   *)
LEMMA SocketFields ==
    ASSUME NEW s \in SocketType
    PROVE  /\ s.una \in Numbers /\ s.nxt \in Numbers /\ s.rcv \in Numbers /\ s.irs \in Numbers
           /\ s.tx \in Seq(TxType) /\ s.rx \in Seq(Numbers) /\ s.rd \in Nat /\ Len(s.rx) \in Nat
           /\ Plus(s.nxt, 1) \in Numbers /\ Plus(s.rcv, 1) \in Numbers /\ Plus(s.irs, 1) \in Numbers
<1>1. /\ s.una \in Numbers /\ s.nxt \in Numbers /\ s.rcv \in Numbers /\ s.irs \in Numbers
      /\ s.tx \in Seq(TxType) /\ s.rx \in Seq(Numbers) /\ s.rd \in Nat
    BY DEF SocketType
<1>2. \A q \in Seq(Numbers) : Len(q) \in Nat
    OBVIOUS
<1>3. 1 \in Int
    OBVIOUS
<1> QED
    BY <1>1, <1>2, <1>3, Modular, Zenon

(* Forgetting the recorded segment changes neither the state nor fin_sent. *)
LEMMA ForgottenTurns == ASSUME NEW s \in SocketType PROVE Turns(s, Forgotten(s), s.state)
<1>1. Forgotten(s).fin_sent = s.fin_sent
    BY DEF Forgotten, SocketType
<1> QED
    BY <1>1, ForgottenTyped DEF Turns

(* Recording a segment changes neither the state nor fin_sent.             *)
LEMMA RecordedTurns ==
    ASSUME NEW s \in SocketType, NEW f \in {"SYN", "SA", "FA"}, NEW q \in Numbers, NEW a \in Numbers
    PROVE  Turns(s, Recorded(s, f, q, a), s.state)
<1>1. Recorded(s, f, q, a).fin_sent = s.fin_sent
    BY DEF Recorded, SocketType
<1> QED
    BY <1>1, RecordedTyped DEF Turns

(* The handshake ends in ESTABLISHED.                                      *)
LEMMA EstablishedTyped ==
    ASSUME NEW s \in SocketType, NEW m \in Segments
    PROVE  Turns(s, Established(s, m), "ESTABLISHED")
<1> DEFINE g == Forgotten(s)
<1>1. g \in SocketType /\ Alike(s, g) /\ g.fin_sent = s.fin_sent
    BY ForgottenTurns DEF Keeps, Turns
<1>2. Established(s, m) = [g EXCEPT !.state = "ESTABLISHED", !.una = m.ack]
    BY DEF Established
<1>3. m.ack \in Numbers /\ "ESTABLISHED" \in States
    BY DEF Segments, States
<1> HIDE DEF g
<1> QED
    BY <1>1, <1>2, <1>3, ZenonT(60) DEF SocketType, Keeps, Alike, Turns

(* Taking the peer's first number leaves the rest of the socket.           *)
LEMMA PeeredTyped ==
    ASSUME NEW s \in SocketType, NEW r \in Numbers, NEW i \in Numbers
    PROVE  Turns(s, [s EXCEPT !.rcv = r, !.irs = i], s.state)
BY DEF SocketType, Keeps, Alike, Turns

(* Clearing fin_sent leaves the rest of the socket.                        *)
LEMMA FinlessTyped ==
    ASSUME NEW s \in SocketType
    PROVE  Keeps(s, [s EXCEPT !.fin_sent = FALSE]) /\ [s EXCEPT !.fin_sent = FALSE].state = s.state
BY DEF SocketType, Keeps, Alike

(* Setting fin_pending leaves the rest of the socket.                      *)
LEMMA PendingTyped ==
    ASSUME NEW s \in SocketType, NEW b \in BOOLEAN
    PROVE  Turns(s, [s EXCEPT !.fin_pending = b], s.state)
BY DEF SocketType, Keeps, Alike, Turns

(* A unit in order moves rcv_nxt and leaves the rest of the socket.        *)
LEMMA TakeDataTyped ==
    ASSUME NEW s \in SocketType, NEW m \in Segments
    PROVE  Turns(s, TakeData(s, m), s.state)
<1> DEFINE r == Plus(s.rcv, 1)
           l == IF s.read_shutdown THEN s.lost \cup {m.seq} ELSE s.lost
<1>1. r \in Numbers
    BY SocketFields
<1>2. l \in SUBSET Numbers
    BY DEF SocketType, Segments
<1> DEFINE t == [s EXCEPT !.rcv = r, !.lost = l]
<1>3. TakeData(s, m) = s \/ TakeData(s, m) = t
    BY DEF TakeData
<1> HIDE DEF r, l
<1>4. Turns(s, t, s.state)
    BY <1>1, <1>2 DEF SocketType, Keeps, Alike, Turns
<1>5. Turns(s, s, s.state)
    BY DEF Keeps, Alike, Turns
<1> QED
    BY <1>3, <1>4, <1>5

(* A FIN in order moves the connection to CLOSED, CLOSING or CLOSE_WAIT.   *)
LEMMA TakeFinTyped ==
    ASSUME NEW s \in SocketType, NEW m \in Segments
    PROVE  LET t == TakeFin(s, m)
           IN  /\ Keeps(s, t) /\ t.fin_sent = s.fin_sent
               /\ t.state = s.state \/ t.state \in {"CLOSED", "CLOSING", "CLOSE_WAIT"}
<1> DEFINE r == Plus(s.rcv, 1)
           st == CASE s.state \in {"CLOSED", "FIN_WAIT_2"} -> "CLOSED"
                   [] s.state \in {"FIN_WAIT_1", "CLOSING", "LAST_ACK"} -> "CLOSING"
                   [] OTHER -> "CLOSE_WAIT"
<1>1. r \in Numbers
    BY SocketFields
<1>2. st \in {"CLOSED", "CLOSING", "CLOSE_WAIT"} /\ st \in States
    BY DEF States
<1>3. TakeFin(s, m) = s \/ TakeFin(s, m) = [s EXCEPT !.rcv = r, !.eof = TRUE, !.fin = TRUE, !.state = st]
    BY DEF TakeFin
<1> HIDE DEF r, st
<1> QED
    BY <1>1, <1>2, <1>3, ZenonT(60) DEF SocketType, Keeps, Alike

(* The fields of a connection that was reset.                              *)
LEMMA DeadTyped ==
    ASSUME NEW s \in SocketType
    PROVE  LET t == [s EXCEPT !.state = "CLOSED", !.fin_sent = FALSE, !.eof = TRUE]
           IN  Keeps(s, t) /\ t.state = "CLOSED" /\ t.fin_sent = FALSE
BY DEF SocketType, Keeps, Alike, States

(* Numbering the FIN moves the connection to FIN_WAIT_1 or LAST_ACK.       *)
LEMMA FinNumberedTyped ==
    ASSUME NEW s \in SocketType
    PROVE  LET t == FinNumbered(s)
           IN  Keeps(s, t) /\ t.state \in {"FIN_WAIT_1", "LAST_ACK"}
<1> DEFINE n == Plus(s.nxt, 1)
           st == IF s.state = "ESTABLISHED" THEN "FIN_WAIT_1" ELSE "LAST_ACK"
<1>1. n \in Numbers /\ st \in States /\ st \in {"FIN_WAIT_1", "LAST_ACK"}
    <2>1. n \in Numbers
        BY SocketFields
    <2> QED
        BY <2>1 DEF States
<1>2. FinNumbered(s) = [s EXCEPT !.nxt = n, !.fin_sent = TRUE, !.fin_pending = FALSE, !.state = st]
    BY DEF FinNumbered
<1> HIDE DEF n, st
<1> QED
    BY <1>1, <1>2, ZenonT(60) DEF SocketType, Keeps, Alike

(* The number of a FIN is a number.                                        *)
LEMMA FinNumberTyped == ASSUME NEW s \in SocketType PROVE FinNumber(s) \in Numbers
<1>1. s.nxt \in Numbers
    BY SocketFields
<1>2. SEQ_MOD - 1 \in Int
    BY TcpAssumption
<1> QED
    BY <1>1, <1>2, Modular, Zenon DEF FinNumber

(* A FIN is taken back only on a connection.                               *)
LEMMA FinTakenBackTyped ==
    ASSUME NEW s \in SocketType
    PROVE  LET t == FinTakenBack(s)
           IN  t = s \/ (Keeps(s, t) /\ s.fin_sent /\ t.state \in {"CLOSE_WAIT", "ESTABLISHED"})
<1> DEFINE n == FinNumber(s)
           g == Forgotten(s)
           st == IF g.state = "LAST_ACK" THEN "CLOSE_WAIT" ELSE "ESTABLISHED"
           t == [g EXCEPT !.fin_sent = FALSE, !.nxt = n, !.state = st]
<1>1. n \in Numbers
    BY FinNumberTyped
<1>2. FinTakenBack(s) = s \/ (FinTakenBack(s) = t /\ s.fin_sent)
    BY DEF FinTakenBack
<1> HIDE DEF n
<1>3. Turns(s, g, s.state)
    BY ForgottenTurns
<1>4. st \in {"CLOSE_WAIT", "ESTABLISHED"} /\ st \in States
    BY DEF States
<1> HIDE DEF g, st
<1>5. g \in SocketType
    BY <1>3 DEF Turns, Keeps
<1>6. Keeps(g, t) /\ t.state = st
    BY <1>1, <1>4, <1>5 DEF SocketType, Keeps, Alike
<1> HIDE DEF t
<1>7. Keeps(s, t)
    BY <1>3, <1>6 DEF Turns, Keeps, Alike
<1> QED
    BY <1>2, <1>4, <1>6, <1>7
-----------------------------------------------------------------------------
(* The fields of an aborted socket.                                        *)
LEMMA AbortedTyped ==
    ASSUME NEW s \in SocketType
    PROVE  LET t == Aborted(s)
           IN  /\ t \in SocketType /\ t.state = "CLOSED" /\ t.closed /\ t.owner = s.owner
               /\ t.rd = s.rd /\ t.rx = s.rx /\ t.fin_sent = s.fin_sent
BY DEF Aborted, SocketType, States

(* Handing a socket over changes its owner alone.                          *)
LEMMA OwnedTyped ==
    ASSUME NEW s \in SocketType, NEW o \in Owners
    PROVE  LET t == [s EXCEPT !.owner = o]
           IN  /\ t \in SocketType /\ t.state = s.state /\ t.closed = s.closed /\ t.owner = o
               /\ t.rd = s.rd /\ t.rx = s.rx /\ t.fin_sent = s.fin_sent /\ t.rcv = s.rcv
BY DEF SocketType

(* Closing a socket sets closed alone.                                     *)
LEMMA DetachedTyped ==
    ASSUME NEW s \in SocketType
    PROVE  LET t == [s EXCEPT !.closed = TRUE]
           IN  /\ t \in SocketType /\ t.state = s.state /\ t.closed /\ t.owner = s.owner
               /\ t.rd = s.rd /\ t.rx = s.rx /\ t.fin_sent = s.fin_sent
BY DEF SocketType

(* A retry below the limit counts one.                                     *)
LEMMA RetriedTyped ==
    ASSUME NEW s \in SocketType, s.retry < RETRY_LIMIT
    PROVE  Turns(s, [s EXCEPT !.retry = @ + 1], s.state)
<1>1. s.retry + 1 \in 0 .. RETRY_LIMIT
    <2>1. s.retry \in 0 .. RETRY_LIMIT /\ RETRY_LIMIT \in Nat
        BY TcpAssumption DEF SocketType
    <2> QED
        BY <2>1
<1> DEFINE k == s.retry + 1
<1>2. [s EXCEPT !.retry = @ + 1] = [s EXCEPT !.retry = k]
    OBVIOUS
<1>3. k \in 0 .. RETRY_LIMIT
    BY <1>1
<1> HIDE DEF k
<1> QED
    BY <1>2, <1>3 DEF SocketType, Keeps, Alike, Turns

(* A connect that failed leaves the socket CLOSED.                         *)
LEMMA UnconnectedTyped ==
    ASSUME NEW s \in SocketType
    PROVE  Turns(s, [s EXCEPT !.state = "CLOSED", !.connected = FALSE], "CLOSED")
BY DEF SocketType, Keeps, Alike, Turns, States

(* A connect whose SYN was refused leaves the socket CLOSED.               *)
LEMMA RefusedTyped ==
    ASSUME NEW s \in SocketType
    PROVE  Turns(s, [s EXCEPT !.state = "CLOSED", !.eof = FALSE], "CLOSED")
BY DEF SocketType, Keeps, Alike, Turns, States

(* connect leaves the socket in SYN_SENT.                                  *)
LEMMA ConnectTyped ==
    ASSUME NEW s \in SocketType, NEW i \in Numbers
    PROVE  Turns(s, [s EXCEPT !.una = i, !.nxt = Plus(i, 1), !.rcv = 0, !.isn = i,
                              !.state = "SYN_SENT", !.eof = FALSE, !.connected = TRUE], "SYN_SENT")
<1> DEFINE g == [s EXCEPT !.una = i, !.nxt = Plus(i, 1), !.rcv = 0, !.isn = i]
           t == [g EXCEPT !.state = "SYN_SENT", !.eof = FALSE, !.connected = TRUE]
<1>1. Plus(i, 1) \in Numbers /\ 0 \in Numbers /\ "SYN_SENT" \in States
    BY Modular DEF States
<1>2. Turns(s, g, s.state)
    BY <1>1 DEF SocketType, Keeps, Alike, Turns
<1>3. g \in SocketType
    BY <1>2 DEF Turns, Keeps
<1>4. [s EXCEPT !.una = i, !.nxt = Plus(i, 1), !.rcv = 0, !.isn = i,
                !.state = "SYN_SENT", !.eof = FALSE, !.connected = TRUE] = t
    OBVIOUS
<1> HIDE DEF g
<1>5. Turns(g, t, "SYN_SENT")
    BY <1>1, <1>3 DEF SocketType, Keeps, Alike, Turns
<1> HIDE DEF t
<1>6. Turns(s, t, "SYN_SENT")
    BY <1>2, <1>5 DEF Turns, Keeps, Alike
<1> QED
    BY <1>4, <1>6

(* send numbers a unit and queues it for transmission.                     *)
LEMMA WrittenTyped ==
    ASSUME NEW s \in SocketType
    PROVE  Turns(s, [s EXCEPT !.nxt = Plus(@, 1), !.tx = Append(@, [seq |-> s.nxt, ack |-> s.rcv])], s.state)
<1> DEFINE n == Plus(s.nxt, 1)
           q == Append(s.tx, [seq |-> s.nxt, ack |-> s.rcv])
<1>1. n \in Numbers /\ s.nxt \in Numbers /\ s.rcv \in Numbers /\ s.tx \in Seq(TxType)
    BY SocketFields
<1>2. q \in Seq(TxType)
    <2>1. [seq |-> s.nxt, ack |-> s.rcv] \in TxType
        BY <1>1 DEF TxType
    <2> QED
        BY <1>1, <2>1
<1>3. [s EXCEPT !.nxt = Plus(@, 1), !.tx = Append(@, [seq |-> s.nxt, ack |-> s.rcv])] = [s EXCEPT !.nxt = n, !.tx = q]
    BY DEF SocketType
<1> HIDE DEF n, q
<1> QED
    BY <1>1, <1>2, <1>3, ZenonT(60) DEF SocketType, Keeps, Alike, Turns

(* recv takes a unit that is there.                                        *)
LEMMA ReadTyped ==
    ASSUME NEW s \in SocketType, Unread(s) > 0, s.rd <= Len(s.rx)
    PROVE  LET t == [s EXCEPT !.rd = @ + 1]
           IN  /\ t \in SocketType /\ t.state = s.state /\ t.closed = s.closed /\ t.owner = s.owner
               /\ t.rd <= Len(t.rx) /\ t.fin_sent = s.fin_sent
<1> DEFINE k == s.rd + 1
           n == Len(s.rx)
<1>1. s.rd \in Nat /\ n \in Nat
    BY SocketFields
<1>2. n - s.rd > 0
    BY DEF Unread
<1> HIDE DEF n
<1>3. k \in Nat /\ k <= n
    BY <1>1, <1>2
<1>4. [s EXCEPT !.rd = @ + 1] = [s EXCEPT !.rd = k]
    OBVIOUS
<1> HIDE DEF k
<1>5. LET t == [s EXCEPT !.rd = k]
      IN  /\ t \in SocketType /\ t.state = s.state /\ t.closed = s.closed /\ t.owner = s.owner
          /\ t.rd = k /\ t.rx = s.rx /\ t.fin_sent = s.fin_sent
    BY <1>3 DEF SocketType
<1> QED
    BY <1>3, <1>4, <1>5 DEF n

(* shutdown discards at most what is queued.                               *)
LEMMA ShutDownTyped ==
    ASSUME NEW s \in SocketType, NEW reading \in BOOLEAN, NEW writing \in BOOLEAN, s.rd <= Len(s.rx)
    PROVE  LET t == ShutDown(s, reading, writing)
           IN  /\ t \in SocketType /\ t.state = s.state /\ t.closed = s.closed /\ t.owner = s.owner
               /\ t.rd <= Len(t.rx) /\ t.fin_sent = s.fin_sent
<1> DEFINE a == s.read_shutdown \/ reading
           b == s.eof \/ reading
           k == IF reading THEN Len(s.rx) ELSE s.rd
           c == s.write_shutdown \/ writing
           t == [s EXCEPT !.read_shutdown = a, !.eof = b, !.rd = k, !.write_shutdown = c]
<1>1. ShutDown(s, reading, writing) = t
    BY DEF ShutDown, SocketType
<1>2. a \in BOOLEAN /\ b \in BOOLEAN /\ c \in BOOLEAN
    BY Zenon
<1>3. Len(s.rx) \in Nat /\ s.rd \in Nat
    BY SocketFields
<1>4. k \in Nat /\ k <= Len(s.rx)
    <2> DEFINE n == Len(s.rx)
    <2>1. n \in Nat /\ s.rd \in Nat /\ s.rd <= n /\ k = IF reading THEN n ELSE s.rd
        BY <1>3
    <2> HIDE DEF n, k
    <2>2. k \in Nat /\ k <= n
        BY <2>1
    <2> QED
        BY <2>2 DEF n
<1> HIDE DEF a, b, c, k
<1>5. /\ t \in SocketType /\ t.state = s.state /\ t.closed = s.closed /\ t.owner = s.owner
      /\ t.rd = k /\ t.rx = s.rx /\ t.fin_sent = s.fin_sent
    BY <1>2, <1>4, ZenonT(60) DEF SocketType
<1> HIDE DEF t
<1> QED
    BY <1>1, <1>4, <1>5

(* net_queue_packet adds to the end of the queue, or loses the unit.       *)
LEMMA QueuedTyped ==
    ASSUME NEW s \in SocketType, NEW unit \in SUBSET Numbers, unit # {}, NEW ok, s.rd <= Len(s.rx)
    PROVE  LET t == Queued(s, unit, ok)
           IN  /\ t \in SocketType /\ t.state = s.state /\ t.closed = s.closed /\ t.owner = s.owner
               /\ t.rd <= Len(t.rx) /\ t.fin_sent = s.fin_sent /\ t.rcv = s.rcv
<1> DEFINE l == s.lost \cup unit
           u == CHOOSE v \in unit : TRUE
           q == Append(s.rx, u)
           t1 == [s EXCEPT !.lost = l]
           t2 == [s EXCEPT !.rx = q]
<1>1. Queued(s, unit, ok) = t1 \/ Queued(s, unit, ok) = t2
    BY DEF Queued
<1>2. l \in SUBSET Numbers /\ s.rx \in Seq(Numbers) /\ s.rd \in Nat
    BY DEF SocketType
<1>3. u \in Numbers
    OBVIOUS
<1>4. q \in Seq(Numbers) /\ s.rd <= Len(q)
    <2> HIDE DEF u
    <2>2. q \in Seq(Numbers) /\ Len(q) = Len(s.rx) + 1 /\ Len(s.rx) \in Nat
        BY <1>2, <1>3
    <2> DEFINE n == Len(s.rx)
               k == Len(q)
    <2>3. k = n + 1 /\ n \in Nat /\ s.rd <= n /\ s.rd \in Nat
        BY <1>2, <2>2
    <2> HIDE DEF n, k, q
    <2>4. s.rd <= k
        BY <2>3
    <2> QED
        BY <2>2, <2>4 DEF k
<1> HIDE DEF l, u, q
<1>5. /\ t1 \in SocketType /\ t1.state = s.state /\ t1.closed = s.closed /\ t1.owner = s.owner
      /\ t1.rd = s.rd /\ t1.rx = s.rx /\ t1.fin_sent = s.fin_sent /\ t1.rcv = s.rcv
    BY <1>2 DEF SocketType
<1>6. /\ t2 \in SocketType /\ t2.state = s.state /\ t2.closed = s.closed /\ t2.owner = s.owner
      /\ t2.rd = s.rd /\ t2.rx = q /\ t2.fin_sent = s.fin_sent /\ t2.rcv = s.rcv
    BY <1>4 DEF SocketType
<1> HIDE DEF t1, t2
<1> QED
    BY <1>1, <1>4, <1>5, <1>6

(* The child that a SYN makes.                                             *)
LEMMA ChildTyped ==
    ASSUME NEW i \in Numbers, NEW r \in Numbers
    PROVE  LET t == [NewSocket EXCEPT !.state = "SYN_RECEIVED", !.connected = TRUE,
                                     !.owner = "handshake", !.una = i, !.nxt = Plus(i, 1),
                                     !.rcv = Plus(r, 1), !.isn = i, !.irs = r]
           IN  /\ t \in SocketType /\ t.state = "SYN_RECEIVED" /\ t.owner = "handshake" /\ ~t.closed
               /\ t.rd = 0 /\ t.rx = <<>> /\ ~t.fin_sent
<1> DEFINE s == NewSocket
           g == [s EXCEPT !.state = "SYN_RECEIVED", !.connected = TRUE, !.owner = "handshake", !.una = i]
           t == [g EXCEPT !.nxt = Plus(i, 1), !.rcv = Plus(r, 1), !.isn = i, !.irs = r]
<1>1. Plus(i, 1) \in Numbers /\ Plus(r, 1) \in Numbers /\ "SYN_RECEIVED" \in States
    BY Modular DEF States
<1>2. s \in SocketType /\ s.rd = 0 /\ s.rx = <<>> /\ ~s.closed /\ ~s.fin_sent
    BY NewTyped DEF NewSocket
<1>3. [NewSocket EXCEPT !.state = "SYN_RECEIVED", !.connected = TRUE,
                       !.owner = "handshake", !.una = i, !.nxt = Plus(i, 1),
                       !.rcv = Plus(r, 1), !.isn = i, !.irs = r] = t
    OBVIOUS
<1> HIDE DEF s
<1>4. /\ g \in SocketType /\ g.state = "SYN_RECEIVED" /\ g.owner = "handshake" /\ ~g.closed
      /\ g.rd = 0 /\ g.rx = <<>> /\ ~g.fin_sent
    BY <1>1, <1>2 DEF SocketType, Owners
<1> HIDE DEF g
<1>5. /\ t \in SocketType /\ t.state = "SYN_RECEIVED" /\ t.owner = "handshake" /\ ~t.closed
      /\ t.rd = 0 /\ t.rx = <<>> /\ ~t.fin_sent
    BY <1>1, <1>4 DEF SocketType
<1> HIDE DEF t
<1> QED
    BY <1>3, <1>5
-----------------------------------------------------------------------------
(* The invariant.  A socket by itself: a FIN is out only on a connection,  *)
(* a child in its handshake has not been given to a program, one that      *)
(* waits for accept has not been closed, and one that was rejected is past *)
(* its handshake.                                                          *)
Sound(s) ==
    /\ s \in SocketType /\ s.rd <= Len(s.rx)
    /\ s.fin_sent => s.state \notin Early
    /\ s.state = "SYN_RECEIVED" => s.owner = "handshake"
    /\ s.owner = "queue" => ~s.closed
    /\ s.owner = "none" => s.state \notin Early
Sockets ==
    /\ sk \in [Parties -> SocketType] /\ \A x \in Parties : Sound(sk[x])
    /\ sk["cli"].owner = "app"

(* A child that holds a backlog slot; the pollers that are to queue it, or *)
(* to close it because the listener is closed.                             *)
Slot(s) == s.state # "FREE" /\ ~s.closed /\ s.owner \in {"handshake", "queue"}
Waiting(s) == s.state \notin Early /\ ~s.closed /\ s.owner = "handshake"
Admission == Rest("srv", FALSE, TRUE, {}, TRUE)
Accepting(ws) == {w \in ws : w.kind = "reject" \/ (w.kind \in PollKinds /\ w.accept)}
Rejected(w, s) == w.kind = "reject" /\ w.x = "srv" /\ s.owner = "none"
Admitted ==
    \A w \in Accepting(work) : (w = Admission /\ Waiting(sk["srv"])) \/ Rejected(w, sk["srv"])

(* The socket of a call in progress stays that program's.                  *)
Owned(s) == s.state # "FREE" /\ s.owner = "app" /\ ~s.closed
Callers == \A x \in Parties : calls[x].at # "idle" => Owned(sk[x])

Listen == Sockets /\ BacklogExact /\ lsn.count <= BACKLOG /\ Admitted /\ Callers
Pollers == IsFiniteSet(work) /\ Cardinality(work) + lsn.undo <= CPUS
TcpInv == Listen /\ WorkTyped /\ RestTyped /\ Pollers

(* BacklogExact, said with Slot.                                           *)
LEMMA BacklogSlot ==
    BacklogExact <=> lsn.count = (IF Slot(sk["srv"]) THEN 1 ELSE 0) + lsn.undo
BY DEF BacklogExact, Slot

(* Set changes one socket.                                                 *)
LEMMA SetOne ==
    ASSUME sk \in [Parties -> SocketType], NEW x \in Parties, NEW t, Set(x, t)
    PROVE  sk'[x] = t /\ \A y \in Parties : y # x => sk'[y] = sk[y]
BY DEF Set

(* Setting one socket to a sound one keeps the sockets sound.              *)
LEMMA SetSockets ==
    ASSUME Sockets, NEW x \in Parties, NEW t, Set(x, t), Sound(t), x = "cli" => t.owner = "app"
    PROVE  Sockets'
<1>1. sk \in [Parties -> SocketType]
    BY DEF Sockets
<1>2. sk'[x] = t /\ \A y \in Parties : y # x => sk'[y] = sk[y]
    BY <1>1, SetOne
<1>3. sk' \in [Parties -> SocketType]
    BY <1>1 DEF Set, Sound
<1>4. \A y \in Parties : Sound(sk'[y])
    BY <1>2 DEF Sockets
<1>5. sk'["cli"].owner = "app"
    BY <1>2 DEF Sockets, Parties
<1> QED
    BY <1>3, <1>4, <1>5 DEF Sockets, Sound

(* A step that leaves the socket with whom it was.                         *)
Quiet(s, t) ==
    /\ Sound(t) /\ t.closed = s.closed /\ t.owner = s.owner
    /\ t.state = s.state \/ (s.state \notin Early /\ t.state \notin Early)
Calling == \A y \in Parties : calls'[y].at # "idle" => calls[y].at # "idle" \/ Owned(sk[y])

(* A quiet step of one socket keeps the listener's invariants.             *)
LEMMA QuietStep ==
    ASSUME Listen, NEW x \in Parties, NEW t, Set(x, t), Quiet(sk[x], t), lsn' = lsn,
           Accepting(work') \subseteq Accepting(work), Calling
    PROVE  Listen'
<1>1. sk \in [Parties -> SocketType]
    BY DEF Listen, Sockets
<1>2. sk'[x] = t /\ \A y \in Parties : y # x => sk'[y] = sk[y]
    BY <1>1, SetOne
<1>3. Sockets'
    <2>1. Sockets /\ Sound(t) /\ (x = "cli" => t.owner = "app")
        BY DEF Listen, Quiet, Sockets
    <2> QED
        BY <2>1, SetSockets
<1>4. \A y \in Parties : /\ Slot(sk'[y]) <=> Slot(sk[y])
                         /\ Waiting(sk[y]) => Waiting(sk'[y])
                         /\ Owned(sk[y]) => Owned(sk'[y])
                         /\ sk'[y].owner = sk[y].owner
    BY <1>2, Zenon DEF Quiet, Slot, Waiting, Owned, Early
<1>5. "srv" \in Parties
    BY DEF Parties
<1>6. BacklogExact'
    <2>1. BacklogExact' <=> lsn'.count = (IF Slot(sk'["srv"]) THEN 1 ELSE 0) + lsn'.undo
        BY DEF BacklogExact, Slot
    <2> QED
        BY <1>4, <1>5, <2>1, BacklogSlot DEF Listen
<1>7. Admitted'
    BY <1>4, <1>5 DEF Listen, Admitted, Rejected
<1>8. Callers'
    BY <1>4 DEF Listen, Callers, Calling
<1> QED
    BY <1>3, <1>6, <1>7, <1>8 DEF Listen

(* A step that changes no socket.                                          *)

(* So does a step that changes no socket.                                  *)
LEMMA StillStep ==
    ASSUME Listen, sk' = sk, lsn' = lsn, Accepting(work') \subseteq Accepting(work), Calling
    PROVE  Listen'
<1>1. Sockets' /\ BacklogExact' /\ (lsn.count <= BACKLOG)'
    BY DEF Listen, Sockets, BacklogExact
<1>2. Admitted' /\ Callers'
    BY DEF Listen, Admitted, Rejected, Callers, Calling
<1> QED
    BY <1>1, <1>2 DEF Listen

(* A socket that holds no slot goes, and with it its call.                 *)

(* So does the end of a socket without a slot.                             *)
LEMMA GoneStep ==
    ASSUME Listen, NEW x \in Parties, NEW t, Set(x, t), Sound(t), ~Slot(t), ~Slot(sk[x]),
           x = "cli" => t.owner = "app", lsn' = lsn, Accepting(work') \subseteq Accepting(work),
           \A y \in Parties : calls'[y].at # "idle" => y # x /\ calls[y].at # "idle",
           x = "srv" => \A w \in Accepting(work') : Rejected(w, t)
    PROVE  Listen'
<1>1. sk \in [Parties -> SocketType]
    BY DEF Listen, Sockets
<1>2. sk'[x] = t /\ \A y \in Parties : y # x => sk'[y] = sk[y]
    BY <1>1, SetOne
<1>3. Sockets'
    <2>1. Sockets
        BY DEF Listen
    <2> QED
        BY <2>1, SetSockets
<1>4. \A y \in Parties : Slot(sk'[y]) <=> Slot(sk[y])
    BY <1>2
<1>5. \A y \in Parties : Waiting(sk[y]) => y # x /\ Waiting(sk'[y])
    BY <1>2 DEF Waiting, Slot, Early
<1>6. "srv" \in Parties
    BY DEF Parties
<1>7. BacklogExact'
    <2>1. BacklogExact' <=> lsn'.count = (IF Slot(sk'["srv"]) THEN 1 ELSE 0) + lsn'.undo
        BY DEF BacklogExact, Slot
    <2> QED
        BY <1>4, <1>6, <2>1, BacklogSlot DEF Listen
<1>8. Admitted'
    BY <1>2, <1>6 DEF Listen, Admitted
<1>9. Callers'
    BY <1>2 DEF Listen, Callers
<1> QED
    BY <1>3, <1>7, <1>8, <1>9 DEF Listen

(* The child keeps its slot.                                               *)

(* So does a step of the child that keeps its slot and its poller.         *)
LEMMA SlotKeptStep ==
    ASSUME Listen, NEW t, Set("srv", t), Sound(t), Slot(sk["srv"]), Slot(t), lsn' = lsn, calls' = calls,
           \A w \in Accepting(work') : w = Admission /\ Waiting(t)
    PROVE  Listen'
<1>1. sk \in [Parties -> SocketType] /\ "srv" \in Parties
    BY DEF Listen, Sockets, Parties
<1>2. sk'["srv"] = t /\ \A y \in Parties : y # "srv" => sk'[y] = sk[y]
    BY <1>1, SetOne
<1>3. Sockets'
    <2>1. Sockets
        BY DEF Listen
    <2> QED
        BY <1>1, <2>1, SetSockets
<1>6. BacklogExact'
    <2>1. BacklogExact' <=> lsn'.count = (IF Slot(sk'["srv"]) THEN 1 ELSE 0) + lsn'.undo
        BY DEF BacklogExact, Slot
    <2> QED
        BY <1>2, <2>1, BacklogSlot DEF Listen
<1>7. Admitted'
    BY <1>2 DEF Admitted
<1>8. Callers'
    BY <1>2 DEF Listen, Callers, Owned, Slot
<1> QED
    BY <1>3, <1>6, <1>7, <1>8 DEF Listen

(* The child gives its slot back.                                          *)

(* So does a child that goes, or is accepted, with accept_count one less.  *)
LEMMA SlotFreedStep ==
    ASSUME Listen, RestTyped, NEW t, Set("srv", t), Sound(t), Slot(sk["srv"]), ~Slot(t), calls' = calls,
           lsn'.count = SlotFreed(lsn.count), lsn'.undo = lsn.undo,
           \A w \in Accepting(work') : Rejected(w, t)
    PROVE  Listen'
<1>1. sk \in [Parties -> SocketType] /\ "srv" \in Parties
    BY DEF Listen, Sockets, Parties
<1>2. sk'["srv"] = t /\ \A y \in Parties : y # "srv" => sk'[y] = sk[y]
    BY <1>1, SetOne
<1>3. Sockets'
    <2>1. Sockets
        BY DEF Listen
    <2> QED
        BY <1>1, <2>1, SetSockets
<1>4. lsn.count \in Int /\ lsn.undo \in Int /\ lsn.count <= BACKLOG /\ BACKLOG \in Int
    BY TcpAssumption DEF RestTyped, LsnType, Listen
<1>5. lsn.count = 1 + lsn.undo
    BY BacklogSlot DEF Listen
<1>6. lsn'.count = 0 + lsn'.undo /\ lsn'.count <= BACKLOG
    BY <1>4, <1>5 DEF SlotFreed
<1>7. BacklogExact'
    <2>1. BacklogExact' <=> lsn'.count = (IF Slot(sk'["srv"]) THEN 1 ELSE 0) + lsn'.undo
        BY DEF BacklogExact, Slot
    <2> QED
        BY <1>2, <1>6, <2>1
<1>8. Admitted'
    BY <1>2 DEF Admitted
<1>9. Callers'
    BY <1>2 DEF Listen, Callers, Owned, Slot
<1> QED
    BY <1>3, <1>6, <1>7, <1>8, <1>9 DEF Listen

(* So does a child that is given up, and leaves its slot to its poller.    *)
LEMMA SlotLostStep ==
    ASSUME Listen, RestTyped, NEW t, Set("srv", t), Sound(t), Slot(sk["srv"]), ~Slot(t), calls' = calls,
           lsn'.count = lsn.count, lsn'.undo = lsn.undo + 1,
           \A w \in Accepting(work') : Rejected(w, t)
    PROVE  Listen'
<1>1. sk \in [Parties -> SocketType] /\ "srv" \in Parties
    BY DEF Listen, Sockets, Parties
<1>2. sk'["srv"] = t /\ \A y \in Parties : y # "srv" => sk'[y] = sk[y]
    BY <1>1, SetOne
<1>3. Sockets'
    <2>1. Sockets
        BY DEF Listen
    <2> QED
        BY <1>1, <2>1, SetSockets
<1>4. lsn.count \in Int /\ lsn.undo \in Int /\ lsn.count <= BACKLOG /\ BACKLOG \in Int
    BY TcpAssumption DEF RestTyped, LsnType, Listen
<1>5. lsn.count = 1 + lsn.undo
    BY BacklogSlot DEF Listen
<1>6. lsn'.count = 0 + lsn'.undo /\ lsn'.count <= BACKLOG
    BY <1>4, <1>5
<1>7. BacklogExact'
    <2>1. BacklogExact' <=> lsn'.count = (IF Slot(sk'["srv"]) THEN 1 ELSE 0) + lsn'.undo
        BY DEF BacklogExact, Slot
    <2> QED
        BY <1>2, <1>6, <2>1
<1>8. Admitted'
    BY <1>2 DEF Admitted
<1>9. Callers'
    BY <1>2 DEF Listen, Callers, Owned, Slot
<1> QED
    BY <1>3, <1>6, <1>7, <1>8, <1>9 DEF Listen

(* A slot is taken for a new child.                                        *)

(* So does a new child, with accept_count one more.                        *)
LEMMA SlotTakenStep ==
    ASSUME Listen, RestTyped, NEW t, Set("srv", t), Sound(t), sk["srv"].state = "FREE", Slot(t), calls' = calls,
           lsn'.count = lsn.count + 1, lsn.count < BACKLOG, lsn'.undo = lsn.undo,
           Accepting(work') \subseteq Accepting(work)
    PROVE  Listen'
<1>1. sk \in [Parties -> SocketType] /\ "srv" \in Parties
    BY DEF Listen, Sockets, Parties
<1>2. sk'["srv"] = t /\ \A y \in Parties : y # "srv" => sk'[y] = sk[y]
    BY <1>1, SetOne
<1>3. Sockets'
    <2>1. Sockets
        BY DEF Listen
    <2> QED
        BY <1>1, <2>1, SetSockets
<1>4. lsn.count \in Int /\ lsn.undo \in Int /\ BACKLOG \in Int
    BY TcpAssumption DEF RestTyped, LsnType
<1>5. lsn.count = 0 + lsn.undo
    BY BacklogSlot DEF Listen, Slot
<1>6. lsn'.count = 1 + lsn'.undo /\ lsn'.count <= BACKLOG
    BY <1>4, <1>5
<1>7. BacklogExact'
    <2>1. BacklogExact' <=> lsn'.count = (IF Slot(sk'["srv"]) THEN 1 ELSE 0) + lsn'.undo
        BY DEF BacklogExact, Slot
    <2> QED
        BY <1>2, <1>6, <2>1
<1>8. Admitted'
    <2>1. sk["srv"].owner # "none"
        BY <1>1 DEF Listen, Sockets, Sound, Early
    <2> QED
        BY <2>1 DEF Listen, Admitted, Rejected, Waiting, Early
<1>9. Callers'
    BY <1>2 DEF Listen, Callers, Owned
<1> QED
    BY <1>3, <1>6, <1>7, <1>8, <1>9 DEF Listen

-----------------------------------------------------------------------------
(* What pollers have left to do.                                           *)

(* A poller starts on a free CPU.                                          *)
LEMMA WorkAdded ==
    ASSUME RestTyped, WorkTyped, Pollers, CpuFree, lsn'.undo = lsn.undo,
           NEW v \in RestType \cup RecordType \cup PutType, work' = work \cup {v}
    PROVE  WorkTyped' /\ Pollers'
<1>1. IsFiniteSet(work) /\ Cardinality(work) \in Nat
    BY FS_CardinalityType DEF Pollers
<1>2. IsFiniteSet(work') /\ (Cardinality(work') = Cardinality(work) \/ Cardinality(work') = Cardinality(work) + 1)
    BY <1>1, FS_AddElement
<1>3. Cardinality(work) + lsn.undo < CPUS /\ lsn.undo \in Nat /\ CPUS \in Nat
    BY TcpAssumption DEF CpuFree, RestTyped, LsnType
<1> DEFINE c == Cardinality(work)
           d == Cardinality(work')
<1>4. c \in Nat /\ (d = c \/ d = c + 1) /\ c + lsn.undo < CPUS
    BY <1>1, <1>2, <1>3
<1> HIDE DEF c, d
<1>5. d + lsn'.undo <= CPUS
    BY <1>3, <1>4
<1>6. Pollers'
    BY <1>2, <1>5 DEF Pollers, d
<1>7. WorkTyped'
    BY DEF WorkTyped
<1> QED
    BY <1>6, <1>7

(* A poller goes on, or is done.                                           *)
LEMMA WorkDone ==
    ASSUME RestTyped, WorkTyped, Pollers, lsn'.undo = lsn.undo, NEW w \in work, NEW ws,
           ws = {} \/ \E v \in RestType : ws = {v}, work' = (work \ {w}) \cup ws
    PROVE  WorkTyped' /\ Pollers'
<1> DEFINE W == work \ {w}
<1>1. IsFiniteSet(work) /\ Cardinality(work) \in Nat
    BY FS_CardinalityType DEF Pollers
<1>2. IsFiniteSet(W) /\ Cardinality(W) = Cardinality(work) - 1
    BY <1>1, FS_RemoveElement
<1> HIDE DEF W
<1>3. Cardinality(W) \in Nat
    BY <1>2, FS_CardinalityType
<1>4. CASE ws = {}
    <2>1. work' = W
        BY <1>4 DEF W
    <2>2. lsn.undo \in Nat /\ CPUS \in Nat /\ Cardinality(work) + lsn.undo <= CPUS
        BY TcpAssumption DEF RestTyped, LsnType, Pollers
    <2>3. Cardinality(W) + lsn.undo <= CPUS
        BY <1>1, <1>2, <2>2
    <2>4. WorkTyped'
        BY <2>1 DEF WorkTyped, W
    <2> QED
        BY <1>2, <2>1, <2>3, <2>4 DEF Pollers
<1>5. CASE \E v \in RestType : ws = {v}
    <2>1. PICK v \in RestType : ws = {v}
        BY <1>5
    <2>2. work' = W \cup {v}
        BY <2>1 DEF W
    <2>3. IsFiniteSet(work') /\ (Cardinality(work') = Cardinality(W) \/ Cardinality(work') = Cardinality(W) + 1)
        <3>1. IsFiniteSet(W)
            BY <1>2
        <3>2. IsFiniteSet(W \cup {v})
              /\ Cardinality(W \cup {v}) = IF v \in W THEN Cardinality(W) ELSE Cardinality(W) + 1
            BY <3>1, FS_AddElement, Zenon
        <3> QED
            BY <2>2, <3>2, Zenon
    <2>4. lsn.undo \in Nat /\ CPUS \in Nat /\ Cardinality(work) + lsn.undo <= CPUS
        BY TcpAssumption DEF RestTyped, LsnType, Pollers
    <2> DEFINE c == Cardinality(work)
               d == Cardinality(work')
               e == Cardinality(W)
    <2>5. c \in Nat /\ e \in Nat /\ e = c - 1 /\ (d = e \/ d = e + 1) /\ c + lsn.undo <= CPUS
        BY <1>1, <1>2, <1>3, <2>3, <2>4
    <2> HIDE DEF c, d, e
    <2>6. d + lsn.undo <= CPUS
        BY <2>4, <2>5
    <2>7. WorkTyped'
        BY <2>2 DEF WorkTyped, W
    <2> QED
        BY <2>3, <2>6, <2>7 DEF Pollers, d
<1> QED
    BY <1>4, <1>5

(* The pollers stay as they are.                                           *)
LEMMA WorkSame ==
    ASSUME WorkTyped, Pollers, work' = work, lsn' = lsn
    PROVE  WorkTyped' /\ Pollers'
BY DEF WorkTyped, Pollers

(* A change that keeps fin_sent is quiet when it enters or leaves neither  *)
(* FREE nor SYN_RECEIVED.                                                  *)
LEMMA SoundTurns ==
    ASSUME NEW s, Sound(s), NEW t, NEW st, Turns(s, t, st), st = s.state \/ (st \notin Early /\ s.state \notin Early)
    PROVE  Quiet(s, t)
BY DEF Turns, Keeps, Alike, Sound, Quiet, Early

(* Any change of a connection that leaves it one is quiet.                 *)
LEMMA SoundKeeps ==
    ASSUME NEW s, Sound(s), NEW t, Keeps(s, t), t.state \notin Early, s.state \notin Early
    PROVE  Quiet(s, t)
BY DEF Keeps, Alike, Sound, Quiet, Early
-----------------------------------------------------------------------------
(* What the actions share.                                                 *)

(* What Segment makes is a segment.                                        *)
LEMMA SegmentTyped ==
    ASSUME NEW x \in Parties, NEW f \in {"SYN", "SA", "ACK", "FA"}, NEW q \in Numbers, NEW a \in Numbers,
           NEW n \in {0, 1}
    PROVE  Segment(x, f, q, a, n) \in Segments
BY DEF Segment, Segments

(* The rest stays typed when only calls and segments change.               *)
LEMMA RestSame ==
    ASSUME RestTyped, lsn' = lsn, tries' = tries, calls' \in [Parties -> CallType], net' \subseteq Segments
    PROVE  RestTyped'
BY DEF RestTyped

(* The fields of a call.                                                   *)
LEMMA CallTyped ==
    ASSUME RestTyped, NEW x \in Parties
    PROVE  calls[x] \in CallType /\ calls[x].ack \in Numbers /\ calls[x].closing \in BOOLEAN
BY DEF RestTyped, CallType

(* A call goes on only on a socket that belongs to its program.            *)
LEMMA GoOnCalls ==
    ASSUME RestTyped, NEW x \in Parties, NEW c \in Calls, GoOn(x, c),
           c = "idle" \/ calls[x].at # "idle" \/ Owned(sk[x])
    PROVE  /\ calls' \in [Parties -> CallType] /\ Calling
           /\ calls'[x].at = c /\ \A y \in Parties : y # x => calls'[y] = calls[y]
<1>1. calls \in [Parties -> CallType]
    BY DEF RestTyped
<1>2. calls' \in [Parties -> CallType] /\ calls'[x].at = c /\ \A y \in Parties : y # x => calls'[y] = calls[y]
    BY <1>1 DEF GoOn, CallType
<1>3. Calling
    BY <1>2 DEF Calling
<1> QED
    BY <1>2, <1>3

(* The calls stay as they are.                                             *)
LEMMA CallsSame ==
    ASSUME RestTyped, calls' = calls
    PROVE  calls' \in [Parties -> CallType] /\ Calling
BY DEF RestTyped, Calling

(* A free socket is sound and holds no slot.                               *)
LEMMA NoSocketSound == Sound(NoSocket) /\ ~Slot(NoSocket) /\ NoSocket.owner = "app"
<1>1. NoSocket.fin_sent = FALSE
    BY DEF NoSocket, NewSocket
<1>2. Len(<<>>) = 0
    OBVIOUS
<1> QED
    BY <1>1, <1>2, FreeTyped DEF Sound, Slot

(* A released socket is sound and holds no slot.                           *)
LEMMA ReleasedSound ==
    ASSUME NEW x, NEW s, Sound(s), s.owner # "queue", NEW ws
    PROVE  LET t == Released(x, s, ws)
           IN  Sound(t) /\ ~Slot(t) /\ (s.owner = "app" => t.owner = "app")
<1> DEFINE u == [s EXCEPT !.closed = TRUE]
<1>1. Released(x, s, ws) = u \/ Released(x, s, ws) = NoSocket
    BY DEF Released
<1>2. s \in SocketType
    BY DEF Sound
<1>3. /\ u \in SocketType /\ u.state = s.state /\ u.closed /\ u.owner = s.owner
      /\ u.rd = s.rd /\ u.rx = s.rx /\ u.fin_sent = s.fin_sent
    BY <1>2, DetachedTyped
<1> HIDE DEF u
<1>4. Sound(u) /\ ~Slot(u)
    BY <1>3 DEF Sound, Slot
<1> QED
    BY <1>1, <1>3, <1>4, NoSocketSound

(* A socket that a poller has still to close is not freed.                 *)
LEMMA ReleasedRejects ==
    ASSUME NEW s \in SocketType, NEW ws, \A v \in Accepting(ws) : Rejected(v, s)
    PROVE  \A v \in Accepting(ws) : Rejected(v, Released("srv", s, ws))
<1> SUFFICES ASSUME NEW v \in Accepting(ws) PROVE Rejected(v, Released("srv", s, ws))
    OBVIOUS
<1>1. v \in ws /\ v.kind = "reject" /\ v.x = "srv" /\ s.owner = "none"
    BY DEF Accepting, Rejected
<1>2. Held("srv", ws)
    BY <1>1 DEF Held, PollKinds
<1>3. Released("srv", s, ws) = [s EXCEPT !.closed = TRUE]
    BY <1>2 DEF Released
<1>4. Released("srv", s, ws).owner = "none"
    BY <1>1, <1>3, DetachedTyped
<1> QED
    BY <1>1, <1>4 DEF Rejected

(* What the invariant says of one socket.                                  *)
LEMMA SockSound ==
    ASSUME TcpInv, NEW x \in Parties
    PROVE  /\ Sound(sk[x]) /\ sk[x] \in SocketType /\ sk[x].rd <= Len(sk[x].rx) /\ sk \in [Parties -> SocketType]
           /\ sk[x].state \in States /\ sk[x].rcv \in Numbers /\ sk[x].nxt \in Numbers /\ sk[x].fin_sent \in BOOLEAN
BY DEF TcpInv, Listen, Sockets, Sound, SocketType

(* The parts of the invariant.                                             *)
LEMMA Parts ==
    ASSUME TcpInv
    PROVE  Listen /\ WorkTyped /\ RestTyped /\ Pollers /\ net \subseteq Segments /\ "cli" \in Parties /\ "srv" \in Parties
BY DEF TcpInv, RestTyped, Parties

(* Only a child past its handshake has a poller that is to queue it.       *)
LEMMA OnlyRejects ==
    ASSUME TcpInv, ~Waiting(sk["srv"])
    PROVE  \A v \in Accepting(work) : Rejected(v, sk["srv"])
BY DEF TcpInv, Listen, Admitted

(* Only a child that was rejected has a poller that is to close it.        *)
LEMMA NoneAccepting ==
    ASSUME TcpInv, ~Waiting(sk["srv"]), sk["srv"].owner # "none"
    PROVE  Accepting(work) = {}
BY DEF TcpInv, Listen, Admitted, Rejected

(* The socket of a call in progress belongs to the program.                *)
LEMMA Caller ==
    ASSUME TcpInv, NEW x \in Parties, calls[x].at # "idle"
    PROVE  Owned(sk[x]) /\ sk[x].state \notin Early /\ sk[x].owner = "app" /\ ~Slot(sk[x])
<1>1. Owned(sk[x]) /\ Sound(sk[x])
    BY SockSound DEF TcpInv, Listen, Callers
<1> QED
    BY <1>1 DEF Owned, Sound, Early, Slot

(* A socket that a program owns is past its handshake and holds no slot.   *)
LEMMA Owner ==
    ASSUME TcpInv, NEW x \in Parties, Program(x)
    PROVE  sk[x].state \notin Early /\ ~Slot(sk[x]) /\ (~sk[x].closed => Owned(sk[x])) /\ sk[x].owner = "app"
<1>1. Sound(sk[x])
    BY SockSound
<1> QED
    BY <1>1 DEF Program, Owned, Sound, Early, Slot

(* A quiet step of socket x that leaves the listener and the pollers.      *)

(* A quiet step that leaves the listener and the pollers keeps the         *)
(* invariant.                                                              *)
LEMMA QuietAction ==
    ASSUME TcpInv, NEW x \in Parties, NEW t, Set(x, t), Quiet(sk[x], t), lsn' = lsn, work' = work,
           calls' \in [Parties -> CallType], Calling, net' \subseteq Segments, tries' \in [Parties -> Nat]
    PROVE  TcpInv'
<1>1. Listen /\ WorkTyped /\ RestTyped /\ Pollers
    BY Parts
<1>2. Listen'
    BY <1>1, QuietStep
<1>3. WorkTyped' /\ Pollers'
    BY <1>1, WorkSame
<1>4. RestTyped'
    BY <1>1 DEF RestTyped
<1> QED
    BY <1>2, <1>3, <1>4 DEF TcpInv

(* The same for a step that changes no socket.                             *)

(* So does a step that changes no socket.                                  *)
LEMMA StillAction ==
    ASSUME TcpInv, sk' = sk, lsn' = lsn, work' = work,
           calls' \in [Parties -> CallType], Calling, net' \subseteq Segments, tries' = tries
    PROVE  TcpInv'
<1>1. Listen /\ WorkTyped /\ RestTyped /\ Pollers
    BY Parts
<1>2. Listen'
    BY <1>1, StillStep
<1>3. WorkTyped' /\ Pollers'
    BY <1>1, WorkSame
<1>4. RestTyped'
    BY <1>1 DEF RestTyped
<1> QED
    BY <1>2, <1>3, <1>4 DEF TcpInv

(* A program's socket goes.                                                *)

(* So does the release of a program's socket.                              *)
LEMMA GoneAction ==
    ASSUME TcpInv, NEW x \in Parties, NEW s, Sound(s), s.owner = "app", ~Slot(sk[x]), sk[x].owner = "app",
           Set(x, Released(x, s, work)), lsn' = lsn, work' = work,
           calls' \in [Parties -> CallType], net' \subseteq Segments, tries' = tries,
           \A y \in Parties : calls'[y].at # "idle" => y # x /\ calls[y].at # "idle"
    PROVE  TcpInv'
<1> DEFINE t == Released(x, s, work)
<1>1. Listen /\ WorkTyped /\ RestTyped /\ Pollers
    BY Parts
<1>2. Sound(t) /\ ~Slot(t) /\ t.owner = "app"
    BY ReleasedSound
<1>3. Set(x, t)
    OBVIOUS
<1> HIDE DEF t
<1>7. x = "srv" => Accepting(work') = {}
    BY NoneAccepting DEF Waiting
<1>4. Listen'
    BY <1>1, <1>2, <1>3, <1>7, GoneStep
<1>5. WorkTyped' /\ Pollers'
    BY <1>1, WorkSame
<1>6. RestTyped'
    BY <1>1 DEF RestTyped
<1> QED
    BY <1>4, <1>5, <1>6 DEF TcpInv
-----------------------------------------------------------------------------
(* connect                                                                 *)

(* The initial number of an attempt.                                       *)
LEMMA IsnTyped ==
    ASSUME RestTyped, NEW x \in Parties, tries[x] < Len(Isns[x])
    PROVE  /\ Isns[x][tries[x] + 1] \in Numbers
           /\ tries' = [tries EXCEPT ![x] = @ + 1] => tries' \in [Parties -> Nat]
<1>1. Isns[x] \in Seq(Numbers) /\ tries[x] \in Nat
    BY TcpAssumption DEF RestTyped, Numbers
<1> DEFINE n == Len(Isns[x])
           k == tries[x]
<1>2. n \in Nat /\ k \in Nat /\ k < n
    BY <1>1
<1> HIDE DEF n, k
<1>3. k + 1 \in 1 .. n /\ k + 1 \in Nat
    BY <1>2
<1>4. \A j \in 1 .. n : Isns[x][j] \in Numbers
    BY <1>1 DEF n
<1>5. Isns[x][k + 1] \in Numbers
    BY <1>3, <1>4
<1>6. tries' = [tries EXCEPT ![x] = @ + 1] => tries' \in [Parties -> Nat]
    <2>1. tries \in [Parties -> Nat] /\ tries[x] + 1 \in Nat
        BY <1>3 DEF RestTyped, k
    <2> QED
        BY <2>1
<1> QED
    BY <1>5, <1>6 DEF k

(* Connect keeps the invariant.                                            *)
LEMMA ConnectSafe ==
    ASSUME TcpInv, Connect
    PROVE  TcpInv'
<1> DEFINE s == sk["cli"]
           i == Isns["cli"][tries["cli"] + 1]
           t == [s EXCEPT !.una = i, !.nxt = Plus(i, 1), !.rcv = 0, !.isn = i,
                          !.state = "SYN_SENT", !.eof = FALSE, !.connected = TRUE]
<1>1. /\ Program("cli") /\ ~sk["cli"].closed /\ tries["cli"] < Len(Isns["cli"])
      /\ tries' = [tries EXCEPT !["cli"] = @ + 1] /\ Set("cli", t)
      /\ net' = net \cup {Segment("cli", "SYN", i, 0, 0)} /\ GoOn("cli", "syn") /\ lsn' = lsn /\ work' = work
    BY DEF Connect, Send
<1>2. RestTyped /\ "cli" \in Parties /\ net \subseteq Segments
    BY Parts
<1>3. i \in Numbers /\ tries' \in [Parties -> Nat]
    BY <1>1, <1>2, IsnTyped
<1> HIDE DEF i
<1>4. Sound(s) /\ s \in SocketType /\ s.state \notin Early /\ Owned(s)
    BY <1>1, <1>2, Owner, SockSound
<1> HIDE DEF s
<1>5. Turns(s, t, "SYN_SENT")
    BY <1>3, <1>4, ConnectTyped
<1> HIDE DEF t
<1>6. Quiet(s, t)
    BY <1>4, <1>5, SoundTurns, StateFacts
<1>7. calls' \in [Parties -> CallType] /\ Calling
    <2>1. "syn" \in Calls /\ Owned(sk["cli"])
        BY <1>4 DEF Calls, s
    <2> QED
        BY <1>1, <1>2, <2>1, GoOnCalls
<1>8. net' \subseteq Segments
    <2>1. Segment("cli", "SYN", i, 0, 0) \in Segments
        BY <1>2, <1>3, Modular, SegmentTyped
    <2> QED
        BY <1>1, <1>2, <2>1
<1>9. Quiet(sk["cli"], t)
    BY <1>6 DEF s
<1> QED
    BY <1>1, <1>2, <1>3, <1>7, <1>8, <1>9, QuietAction

(* ConnectRefused keeps the invariant.                                     *)
LEMMA ConnectRefusedSafe ==
    ASSUME TcpInv, ConnectRefused
    PROVE  TcpInv'
<1> DEFINE s == sk["cli"]
           t == [s EXCEPT !.state = "CLOSED", !.eof = FALSE]
<1>1. /\ Program("cli") /\ tries["cli"] < Len(Isns["cli"])
      /\ tries' = [tries EXCEPT !["cli"] = @ + 1] /\ Set("cli", t)
      /\ net' = net /\ calls' = calls /\ lsn' = lsn /\ work' = work
    BY DEF ConnectRefused
<1>2. RestTyped /\ "cli" \in Parties /\ net \subseteq Segments
    BY Parts
<1>3. tries' \in [Parties -> Nat]
    BY <1>1, <1>2, IsnTyped
<1>4. Sound(s) /\ s \in SocketType /\ s.state \notin Early
    BY <1>1, <1>2, Owner, SockSound
<1>5. Turns(s, t, "CLOSED")
    BY <1>4, RefusedTyped
<1> HIDE DEF t
<1>6. Quiet(sk["cli"], t)
    BY <1>4, <1>5, SoundTurns, StateFacts
<1>7. calls' \in [Parties -> CallType] /\ Calling
    BY <1>1, <1>2, CallsSame
<1> QED
    BY <1>1, <1>2, <1>3, <1>6, <1>7, QuietAction

(* ConnectRecord keeps the invariant.                                      *)
LEMMA ConnectRecordSafe ==
    ASSUME TcpInv, ConnectRecord
    PROVE  TcpInv'
<1> DEFINE s == sk["cli"]
           t == Recorded(s, "SYN", s.isn, 0)
<1>1. /\ calls["cli"].at = "syn" /\ Set("cli", t) /\ GoOn("cli", "connecting")
      /\ lsn' = lsn /\ work' = work /\ net' = net /\ tries' = tries
    BY DEF ConnectRecord, At
<1>2. RestTyped /\ "cli" \in Parties /\ net \subseteq Segments
    BY Parts
<1>3. Sound(s) /\ s \in SocketType /\ s.isn \in Numbers /\ 0 \in Numbers
    BY <1>2, SockSound, Modular DEF SocketType
<1> HIDE DEF s
<1>4. Turns(s, t, s.state)
    BY <1>3, RecordedTurns
<1> HIDE DEF t
<1>5. Quiet(s, t)
    BY <1>3, <1>4, SoundTurns
<1>6. calls' \in [Parties -> CallType] /\ Calling
    <2>1. "connecting" \in Calls /\ calls["cli"].at # "idle"
        BY <1>1 DEF Calls
    <2> QED
        BY <1>1, <1>2, <2>1, GoOnCalls
<1>7. tries' \in [Parties -> Nat] /\ Quiet(sk["cli"], t)
    BY <1>1, <1>2, <1>5 DEF RestTyped, s
<1> QED
    BY <1>1, <1>2, <1>6, <1>7, QuietAction

(* ConnectReturn keeps the invariant.                                      *)
LEMMA ConnectReturnSafe ==
    ASSUME TcpInv, ConnectReturn
    PROVE  TcpInv'
<1>1. GoOn("cli", "idle") /\ UNCHANGED <<sk, lsn, work, net, tries>>
    BY DEF ConnectReturn
<1>2. RestTyped /\ "cli" \in Parties /\ net \subseteq Segments /\ "idle" \in Calls
    BY Parts DEF Calls
<1>3. calls' \in [Parties -> CallType] /\ Calling
    BY <1>1, <1>2, GoOnCalls
<1> QED
    BY <1>1, <1>2, <1>3, StillAction

(* ConnectTimeout keeps the invariant.                                     *)
LEMMA ConnectTimeoutSafe ==
    ASSUME TcpInv, ConnectTimeout
    PROVE  TcpInv'
<1> DEFINE s == sk["cli"]
           t == [s EXCEPT !.state = "CLOSED", !.connected = FALSE]
<1>1. /\ calls["cli"].at = "connecting" /\ Set("cli", t) /\ GoOn("cli", "idle")
      /\ lsn' = lsn /\ work' = work /\ net' = net /\ tries' = tries
    BY DEF ConnectTimeout, At
<1>2. RestTyped /\ "cli" \in Parties /\ net \subseteq Segments /\ "idle" \in Calls
    BY Parts DEF Calls
<1>3. Sound(s) /\ s \in SocketType /\ s.state \notin Early
    BY <1>1, <1>2, Caller, SockSound
<1>4. Turns(s, t, "CLOSED")
    BY <1>3, UnconnectedTyped
<1> HIDE DEF t
<1>5. Quiet(sk["cli"], t)
    BY <1>3, <1>4, SoundTurns, StateFacts
<1>6. calls' \in [Parties -> CallType] /\ Calling
    BY <1>1, <1>2, GoOnCalls
<1>7. tries' \in [Parties -> Nat]
    BY <1>1, <1>2 DEF RestTyped
<1> QED
    BY <1>1, <1>2, <1>5, <1>6, <1>7, QuietAction
-----------------------------------------------------------------------------
(* The listener.                                                           *)

(* Giving a slot back changes accept_count alone.                          *)
LEMMA LsnFreed ==
    ASSUME RestTyped, lsn' = [lsn EXCEPT !.count = SlotFreed(@)]
    PROVE  /\ lsn' \in LsnType
           /\ lsn'.count = SlotFreed(lsn.count) /\ lsn'.undo = lsn.undo
<1>1. lsn \in LsnType
    BY DEF RestTyped
<1>2. SlotFreed(lsn.count) \in Int
    BY <1>1 DEF SlotFreed, LsnType
<1> QED
    BY <1>1, <1>2 DEF LsnType

(* A child that goes with its slot keeps the invariant.                    *)
LEMMA FreedAction ==
    ASSUME TcpInv, NEW t, Set("srv", t), Sound(t), Slot(sk["srv"]), ~Slot(t), calls' = calls,
           lsn' \in LsnType,
           lsn'.count = SlotFreed(lsn.count), lsn'.undo = lsn.undo,
           \A w \in Accepting(work') : Rejected(w, t), WorkTyped', Pollers', net' = net, tries' = tries
    PROVE  TcpInv'
<1>1. Listen /\ RestTyped
    BY Parts
<1>2. Listen'
    BY <1>1, SlotFreedStep
<1>3. RestTyped'
    BY <1>1 DEF RestTyped
<1> QED
    BY <1>2, <1>3 DEF TcpInv

(* The pollers stay as they are when only accept_count changes.            *)
LEMMA WorkStays ==
    ASSUME TcpInv, work' = work, lsn'.undo = lsn.undo
    PROVE  WorkTyped' /\ Pollers'
BY DEF TcpInv, WorkTyped, Pollers

(* Accept keeps the invariant.                                             *)
LEMMA AcceptSafe ==
    ASSUME TcpInv, Accept
    PROVE  TcpInv'
<1> DEFINE s == sk["srv"]
           u == [s EXCEPT !.owner = "app"]
           t == IF s.state = "ESTABLISHED" THEN u ELSE Released("srv", u, work)
<1>1. /\ s.state # "FREE" /\ s.owner = "queue" /\ Set("srv", t)
      /\ lsn' = [lsn EXCEPT !.count = SlotFreed(@)]
      /\ calls' = calls /\ work' = work /\ net' = net /\ tries' = tries
    BY DEF Accept
<1>2. RestTyped /\ "srv" \in Parties
    BY Parts
<1>3. Sound(s) /\ s \in SocketType
    BY <1>2, SockSound
<1>4. Slot(s) /\ ~Waiting(s)
    BY <1>1, <1>3 DEF Sound, Slot, Waiting
<1>5. /\ u \in SocketType /\ u.state = s.state /\ u.closed = s.closed /\ u.owner = "app"
      /\ u.rd = s.rd /\ u.rx = s.rx /\ u.fin_sent = s.fin_sent
    BY <1>3, OwnedTyped DEF Owners
<1> HIDE DEF u
<1>6. Sound(u) /\ ~Slot(u)
    BY <1>1, <1>3, <1>5 DEF Sound, Slot
<1>7. Sound(Released("srv", u, work)) /\ ~Slot(Released("srv", u, work))
    BY <1>5, <1>6, ReleasedSound
<1>8. Sound(t) /\ ~Slot(t)
    BY <1>6, <1>7
<1> HIDE DEF t
<1>9. Accepting(work') = {}
    BY <1>1, <1>4, NoneAccepting
<1>10. /\ lsn' \in LsnType
       /\ lsn'.count = SlotFreed(lsn.count) /\ lsn'.undo = lsn.undo
    BY <1>1, <1>2, LsnFreed
<1>11. WorkTyped' /\ Pollers'
    BY <1>1, <1>10, WorkStays
<1> QED
    BY <1>1, <1>4, <1>8, <1>9, <1>10, <1>11, FreedAction

(* CloseListener keeps the invariant.                                      *)
LEMMA CloseListenerSafe ==
    ASSUME TcpInv, CloseListener
    PROVE  TcpInv'
<1> DEFINE s == sk["srv"]
           waits == s.state # "FREE" /\ s.owner = "queue"
           a == Aborted(s)
           u == [a EXCEPT !.owner = "app"]
           t == Released("srv", u, work)
<1>1. /\ lsn' = [lsn EXCEPT !.listening = FALSE, !.count = IF waits THEN SlotFreed(@) ELSE @]
      /\ Set("srv", IF waits THEN t ELSE s)
      /\ calls' = calls /\ work' = work /\ net' = net /\ tries' = tries
    BY DEF CloseListener
<1>2. RestTyped /\ "srv" \in Parties /\ net \subseteq Segments
    BY Parts
<1>3. Sound(s) /\ s \in SocketType
    BY <1>2, SockSound
<1>4. lsn \in LsnType /\ SlotFreed(lsn.count) \in Int
    BY <1>2 DEF RestTyped, LsnType, SlotFreed
<1>5. /\ a \in SocketType /\ a.state = "CLOSED" /\ a.closed /\ a.owner = s.owner
      /\ a.rd = s.rd /\ a.rx = s.rx /\ a.fin_sent = s.fin_sent
    BY <1>3, AbortedTyped
<1> HIDE DEF a
<1>6. /\ u \in SocketType /\ u.state = a.state /\ u.closed = a.closed /\ u.owner = "app"
      /\ u.rd = a.rd /\ u.rx = a.rx /\ u.fin_sent = a.fin_sent
    BY <1>5, OwnedTyped DEF Owners
<1> HIDE DEF u
<1>7. Sound(u)
    BY <1>3, <1>5, <1>6 DEF Sound, Early
<1>8. Sound(t) /\ ~Slot(t)
    BY <1>6, <1>7, ReleasedSound
<1> HIDE DEF t
<1>9. CASE waits
    <2>1. Slot(s) /\ ~Waiting(s)
        BY <1>3, <1>9 DEF Sound, Slot, Waiting
    <2>2. Accepting(work') = {}
        BY <1>1, <1>9, <2>1, NoneAccepting
    <2>3. Set("srv", t) /\ lsn' = [lsn EXCEPT !.listening = FALSE, !.count = SlotFreed(@)]
        BY <1>1, <1>9
    <2>4. /\ lsn' \in LsnType
          /\ lsn'.count = SlotFreed(lsn.count) /\ lsn'.undo = lsn.undo
        BY <1>4, <2>3 DEF LsnType
    <2>5. WorkTyped' /\ Pollers'
        BY <1>1, <2>4, WorkStays
    <2> QED
        BY <1>1, <1>8, <2>1, <2>2, <2>3, <2>4, <2>5, FreedAction
<1>10. CASE ~waits
    <2>1. sk' = sk
        <3>1. Set("srv", s) /\ sk \in [Parties -> SocketType]
            BY <1>1, <1>2, <1>10, SockSound
        <3> QED
            BY <1>2, <3>1 DEF Set
    <2>2. lsn' = [lsn EXCEPT !.listening = FALSE, !.count = @]
        BY <1>1, <1>10
    <2>3. /\ lsn' \in LsnType
          /\ lsn'.count = lsn.count /\ lsn'.undo = lsn.undo
        BY <1>4, <2>2 DEF LsnType
    <2>4. WorkTyped' /\ Pollers'
        BY <1>1, <2>3, WorkStays
    <2>5. RestTyped'
        BY <1>1, <1>2, <2>3 DEF RestTyped
    <2>6. Listen'
        <3>1. Listen
            BY Parts
        <3>2. Sockets' /\ BacklogExact' /\ lsn'.count <= BACKLOG
            BY <2>1, <2>3, <3>1 DEF Listen, Sockets, BacklogExact
        <3>3. Admitted' /\ Callers'
            BY <1>1, <2>1, <3>1 DEF Listen, Admitted, Callers
        <3> QED
            BY <3>2, <3>3 DEF Listen
    <2> QED
        BY <2>4, <2>5, <2>6 DEF TcpInv
<1> QED
    BY <1>9, <1>10

-----------------------------------------------------------------------------
(* net_receive_tcp_frame                                                   *)

(* What a poller has left to do is well typed.                             *)
LEMMA RestMade ==
    ASSUME NEW x \in Parties, NEW fin \in BOOLEAN, NEW accept \in BOOLEAN, NEW unit \in SUBSET Numbers,
           NEW ack \in BOOLEAN
    PROVE  LET w == Rest(x, fin, accept, unit, ack)
           IN  w \in RestType /\ w.kind = "rest" /\ w.accept = accept
<1>1. 0 \in Numbers /\ "rest" \in PollKinds
    BY Modular DEF PollKinds
<1> QED
    BY <1>1 DEF Rest, RestType

(* The peer of a side is a side.                                           *)
LEMMA PeerParty == \A x \in Parties : Peer(x) \in Parties
BY DEF Parties, Peer

(* A new poller that queues no child.                                      *)
LEMMA MoreWork ==
    ASSUME NEW v, v.kind # "reject", v.accept = FALSE \/ v.kind \notin PollKinds, work' = work \cup {v}
    PROVE  Accepting(work') \subseteq Accepting(work)
BY DEF Accepting

(* The SYN|ACK that ends connect keeps the invariant.                      *)
LEMMA HandshakeCliSafe ==
    ASSUME TcpInv, NEW m \in net, NEW x, x = Peer(m.from), CpuFree, sk[x].state = "SYN_SENT",
           Then(x, [Established(sk[x], m) EXCEPT !.rcv = Plus(m.seq, 1), !.irs = m.seq],
                {Rest(x, FALSE, FALSE, {}, TRUE)}),
           UNCHANGED <<lsn, calls, net, tries>>
    PROVE  TcpInv'
<1> DEFINE s == sk[x]
           g == Established(s, m)
           t == [g EXCEPT !.rcv = Plus(m.seq, 1), !.irs = m.seq]
           v == Rest(x, FALSE, FALSE, {}, TRUE)
<1>1. RestTyped /\ Listen /\ WorkTyped /\ Pollers /\ m \in Segments
    BY Parts
<1>2. x \in Parties /\ m.seq \in Numbers /\ Plus(m.seq, 1) \in Numbers
    BY <1>1, PeerParty, Modular DEF Segments
<1>3. Set(x, t) /\ work' = work \cup {v}
    BY DEF Then
<1>4. Sound(s) /\ s \in SocketType /\ s.state \notin Early
    BY <1>2, SockSound, StateFacts
<1> HIDE DEF s
<1>5. Turns(s, g, "ESTABLISHED")
    BY <1>1, <1>4, EstablishedTyped
<1> HIDE DEF g
<1>6. g \in SocketType
    BY <1>5 DEF Turns, Keeps
<1>7. Turns(g, t, g.state)
    BY <1>2, <1>6, PeeredTyped
<1> HIDE DEF t
<1>8. Turns(s, t, "ESTABLISHED")
    BY <1>5, <1>7 DEF Turns, Keeps, Alike
<1>9. "ESTABLISHED" \notin Early
    BY DEF Early
<1>10. Quiet(sk[x], t)
    BY <1>4, <1>8, <1>9, SoundTurns DEF s
<1>11. v \in RestType /\ v.accept = FALSE /\ v.kind = "rest"
    BY <1>2, RestMade
<1> HIDE DEF v
<1>12. Accepting(work') \subseteq Accepting(work)
    BY <1>3, <1>11, MoreWork
<1>13. calls' \in [Parties -> CallType] /\ Calling
    BY <1>1, CallsSame
<1>14. Listen'
    BY <1>1, <1>2, <1>3, <1>10, <1>12, <1>13, QuietStep
<1>15. WorkTyped' /\ Pollers'
    BY <1>1, <1>3, <1>11, WorkAdded
<1>16. RestTyped'
    BY <1>1 DEF RestTyped
<1> QED
    BY <1>14, <1>15, <1>16 DEF TcpInv

(* The ACK that ends a child's handshake keeps its slot, and leaves it to  *)
(* one poller to queue the child.                                          *)
LEMMA HandshakeSrvSafe ==
    ASSUME TcpInv, NEW m \in net, NEW x, x = Peer(m.from), CpuFree, sk[x].state = "SYN_RECEIVED", ~sk[x].closed,
           Then(x, [Established(sk[x], m) EXCEPT !.fin_sent = FALSE], {Rest(x, FALSE, TRUE, {}, TRUE)}),
           UNCHANGED <<lsn, calls, net, tries>>
    PROVE  TcpInv'
<1> DEFINE s == sk["srv"]
           g == Established(s, m)
           t == [g EXCEPT !.fin_sent = FALSE]
<1>1. RestTyped /\ Listen /\ WorkTyped /\ Pollers /\ m \in Segments /\ "srv" \in Parties
    BY Parts
<1>2. x \in Parties
    BY <1>1, PeerParty DEF Segments
<1>3. x = "srv" /\ s.owner = "handshake"
    <2>1. sk[x].owner = "handshake"
        BY <1>2, SockSound DEF Sound
    <2>2. sk["cli"].owner = "app"
        BY <1>1 DEF Listen, Sockets
    <2> QED
        BY <1>2, <2>1, <2>2 DEF Parties
<1>4. Set("srv", t) /\ work' = work \cup {Admission}
    BY <1>3 DEF Then, Admission
<1>5. Sound(s) /\ s \in SocketType /\ s.state = "SYN_RECEIVED" /\ ~s.closed
    BY <1>1, <1>3, SockSound
<1>6. Slot(s) /\ ~Waiting(s)
    BY <1>3, <1>5 DEF Slot, Waiting, Early
<1>7. Turns(s, g, "ESTABLISHED")
    BY <1>1, <1>5, EstablishedTyped
<1> HIDE DEF g
<1>8. g \in SocketType
    BY <1>7 DEF Turns, Keeps
<1>9. Keeps(g, t) /\ t.state = g.state
    BY <1>8, FinlessTyped
<1> HIDE DEF t
<1>10. Sound(t) /\ Waiting(t) /\ Slot(t)
    BY <1>3, <1>5, <1>7, <1>9 DEF Turns, Keeps, Alike, Sound, Waiting, Slot, Early
<1>11. Accepting(work) = {}
    BY <1>3, <1>6, NoneAccepting
<1>12. \A w \in Accepting(work') : w = Admission /\ Waiting(t)
    BY <1>4, <1>10, <1>11 DEF Accepting
<1>13. Listen'
    BY <1>1, <1>4, <1>6, <1>10, <1>12, SlotKeptStep
<1>14. Admission \in RestType
    BY <1>1, RestMade DEF Admission
<1>15. WorkTyped' /\ Pollers'
    BY <1>1, <1>4, <1>14, WorkAdded
<1>16. RestTyped'
    BY <1>1 DEF RestTyped
<1> QED
    BY <1>13, <1>15, <1>16 DEF TcpInv

(* ReceiveHandshake keeps the invariant.                                   *)
LEMMA ReceiveHandshakeSafe ==
    ASSUME TcpInv, NEW m \in net, ReceiveHandshake(m)
    PROVE  TcpInv'
<1> DEFINE x == Peer(m.from)
<1>1. CpuFree /\ ~sk[x].closed /\ UNCHANGED <<lsn, calls, net, tries>>
    BY DEF ReceiveHandshake
<1>2. \/ /\ sk[x].state = "SYN_SENT"
         /\ Then(x, [Established(sk[x], m) EXCEPT !.rcv = Plus(m.seq, 1), !.irs = m.seq],
                 {Rest(x, FALSE, FALSE, {}, TRUE)})
      \/ /\ sk[x].state = "SYN_RECEIVED"
         /\ Then(x, [Established(sk[x], m) EXCEPT !.fin_sent = FALSE], {Rest(x, FALSE, TRUE, {}, TRUE)})
    BY DEF ReceiveHandshake
<1> QED
    BY <1>1, <1>2, HandshakeCliSafe, HandshakeSrvSafe
(* ReceiveSynchronised keeps the invariant.                                *)
LEMMA ReceiveSynchronisedSafe ==
    ASSUME TcpInv, NEW m \in net, ReceiveSynchronised(m)
    PROVE  TcpInv'
<1> DEFINE x == Peer(m.from)
           s == sk[x]
           due == FinDue(s, m)
           k == TakeAck(s, m)
           b == k.fin_pending /\ ~due
           a == [k EXCEPT !.fin_pending = b]
           d == TakeData(a, m)
           f == TakeFin(d, m)
           unit == IF InOrder(a, m) /\ ~s.read_shutdown THEN {m.seq} ELSE {}
           ack == m.len = 1 \/ f.fin # d.fin
           w == Rest(x, due, FALSE, unit, ack)
<1>1. RestTyped /\ Listen /\ WorkTyped /\ Pollers /\ m \in Segments
    BY Parts, SMTT(60)
<1>2. /\ CpuFree /\ s.state \in Synchronised
      /\ Set(x, f) /\ (work' = work \cup {w} \/ work' = work)
      /\ UNCHANGED <<lsn, calls, net, tries>>
    BY DEF ReceiveSynchronised, Then
<1>3. x \in Parties /\ m.seq \in Numbers
    BY <1>1, PeerParty DEF Segments
<1>4. Sound(s) /\ s \in SocketType /\ s.state \notin Early
    BY <1>2, <1>3, SockSound, StateFacts
<1>5. w \in RestType /\ w.accept = FALSE /\ w.kind = "rest"
    <2>1. due \in BOOLEAN /\ ack \in BOOLEAN
        BY DEF FinDue
    <2>2. unit \in SUBSET Numbers
        BY <1>3
    <2> HIDE DEF due, ack, unit
    <2> QED
        BY <1>3, <2>1, <2>2, RestMade
<1>6. b \in BOOLEAN
    BY Zenon
<1> HIDE DEF w, s, b, due
<1>7. Keeps(s, k) /\ (k.state = s.state \/ k.state \notin Early)
    <2>1. Keeps(s, k) /\ (k.state # s.state => k.state \in {"CLOSED", "FIN_WAIT_2"})
        BY <1>1, <1>4, TakeAckTyped
    <2> QED
        BY <2>1 DEF Early
<1> HIDE DEF k
<1>8. k \in SocketType
    BY <1>7 DEF Keeps
<1>9. Turns(k, a, k.state)
    BY <1>6, <1>8, PendingTyped
<1> HIDE DEF a
<1>10. a \in SocketType
    BY <1>9 DEF Turns, Keeps
<1>11. Turns(a, d, a.state)
    BY <1>1, <1>10, TakeDataTyped
<1> HIDE DEF d
<1>12. d \in SocketType
    BY <1>11 DEF Turns, Keeps
<1>13. Keeps(d, f) /\ (f.state = d.state \/ f.state \in {"CLOSED", "CLOSING", "CLOSE_WAIT"})
    BY <1>1, <1>12, TakeFinTyped
<1> HIDE DEF f
<1>14. Keeps(s, f)
    BY <1>7, <1>9, <1>11, <1>13 DEF Turns, Keeps, Alike
<1>15. f.state \notin Early
    <2>1. d.state \notin Early
        BY <1>4, <1>7, <1>9, <1>11 DEF Turns
    <2> QED
        BY <1>13, <2>1 DEF Early
<1>16. Quiet(sk[x], f)
    BY <1>4, <1>14, <1>15, SoundKeeps DEF s
<1>17. Accepting(work') \subseteq Accepting(work)
    BY <1>2, <1>5, MoreWork
<1>18. Calling
    BY <1>1, <1>2, CallsSame
<1>19. Listen'
    BY <1>1, <1>2, <1>3, <1>16, <1>17, <1>18, QuietStep
<1>20. WorkTyped' /\ Pollers'
    BY <1>1, <1>2, <1>5, WorkAdded, WorkSame
<1>21. RestTyped'
    BY <1>1, <1>2 DEF RestTyped
<1> QED
    BY <1>19, <1>20, <1>21 DEF TcpInv

(* ReceiveReset keeps the invariant.                                       *)
LEMMA ReceiveResetSafe ==
    ASSUME TcpInv, NEW x \in Parties, ReceiveReset(x)
    PROVE  TcpInv'
<1> DEFINE s == sk[x]
           t == [s EXCEPT !.state = "CLOSED", !.fin_sent = FALSE, !.eof = TRUE]
<1>1. s.state \in Synchronised /\ Set(x, t) /\ UNCHANGED <<lsn, calls, work, net, tries>>
    BY DEF ReceiveReset
<1>2. RestTyped /\ net \subseteq Segments
    BY Parts
<1>3. Sound(s) /\ s \in SocketType /\ s.state \notin Early /\ "CLOSED" \notin Early
    BY <1>1, SockSound, StateFacts
<1>4. Keeps(s, t) /\ t.state = "CLOSED"
    BY <1>3, DeadTyped
<1> HIDE DEF t
<1>5. Quiet(sk[x], t)
    BY <1>3, <1>4, SoundKeeps
<1>6. calls' \in [Parties -> CallType] /\ Calling
    BY <1>1, <1>2, CallsSame
<1>7. tries' \in [Parties -> Nat]
    BY <1>1, <1>2 DEF RestTyped
<1> QED
    BY <1>1, <1>2, <1>5, <1>6, <1>7, QuietAction

(* ReceiveSyn keeps the invariant.                                         *)
LEMMA ReceiveSynSafe ==
    ASSUME TcpInv, NEW m \in net, ReceiveSyn(m)
    PROVE  TcpInv'
<1> DEFINE i == Isns["srv"][tries["srv"] + 1]
           t == [NewSocket EXCEPT !.state = "SYN_RECEIVED", !.connected = TRUE,
                                  !.owner = "handshake", !.una = i, !.nxt = Plus(i, 1),
                                  !.rcv = Plus(m.seq, 1), !.isn = i, !.irs = m.seq]
           v == [kind |-> "record", x |-> "srv", isn |-> i]
<1>1. /\ CpuFree /\ sk["srv"].state = "FREE" /\ lsn.count < BACKLOG /\ tries["srv"] < Len(Isns["srv"])
      /\ tries' = [tries EXCEPT !["srv"] = @ + 1] /\ Set("srv", t) /\ work' = work \cup {v}
      /\ net' = net \cup {Segment("srv", "SA", i, Plus(m.seq, 1), 0)}
      /\ lsn' = [lsn EXCEPT !.count = @ + 1] /\ calls' = calls
    BY DEF ReceiveSyn, NoChild, Then, Send
<1>2. RestTyped /\ Listen /\ WorkTyped /\ Pollers /\ m \in Segments /\ "srv" \in Parties /\ net \subseteq Segments
    BY Parts
<1>3. i \in Numbers /\ tries' \in [Parties -> Nat]
    BY <1>1, <1>2, IsnTyped
<1>4. m.seq \in Numbers /\ Plus(m.seq, 1) \in Numbers
    BY <1>2, Modular DEF Segments
<1> HIDE DEF i
<1>5. /\ t \in SocketType /\ t.state = "SYN_RECEIVED" /\ t.owner = "handshake" /\ ~t.closed
      /\ t.rd = 0 /\ t.rx = <<>> /\ ~t.fin_sent
    BY <1>3, <1>4, ChildTyped
<1> HIDE DEF t
<1>6. Sound(t) /\ Slot(t)
    <2>1. Len(<<>>) = 0
        OBVIOUS
    <2> QED
        BY <1>5, <2>1 DEF Sound, Slot
<1>7. v \in RecordType /\ v.kind = "record" /\ v.kind \notin PollKinds
    BY <1>3 DEF RecordType, PollKinds
<1> HIDE DEF v
<1>8. Accepting(work') \subseteq Accepting(work)
    BY <1>1, <1>7, MoreWork
<1>9. /\ lsn' \in LsnType
      /\ lsn'.count = lsn.count + 1 /\ lsn'.undo = lsn.undo
    <2>1. lsn \in LsnType /\ lsn.count + 1 \in Int
        BY <1>2 DEF RestTyped, LsnType
    <2> QED
        BY <1>1, <2>1 DEF LsnType
<1>10. Listen'
    BY <1>1, <1>2, <1>6, <1>8, <1>9, SlotTakenStep
<1>11. WorkTyped' /\ Pollers'
    BY <1>1, <1>2, <1>7, <1>9, WorkAdded
<1>12. net' \subseteq Segments
    <2>1. Segment("srv", "SA", i, Plus(m.seq, 1), 0) \in Segments
        BY <1>2, <1>3, <1>4, SegmentTyped
    <2> QED
        BY <1>1, <1>2, <2>1
<1>13. RestTyped'
    BY <1>1, <1>2, <1>3, <1>9, <1>12 DEF RestTyped
<1> QED
    BY <1>10, <1>11, <1>13 DEF TcpInv

(* The counts when a slot is taken or given back without a child.          *)

(* A slot taken or given back without a child keeps the invariant.         *)
LEMMA UndoStep ==
    ASSUME TcpInv, UNCHANGED <<sk, calls, net, tries>>, NEW k \in {1, -1}, lsn' \in LsnType,
           lsn'.count = lsn.count + k, lsn'.undo = lsn.undo + k, lsn'.count <= BACKLOG,
           Accepting(work') \subseteq Accepting(work), WorkTyped', Pollers'
    PROVE  TcpInv'
<1>1. Listen /\ RestTyped
    BY Parts
<1>2. lsn.count \in Int /\ lsn.undo \in Int
    BY <1>1 DEF RestTyped, LsnType
<1>3. BacklogExact'
    <2> DEFINE n == IF Slot(sk["srv"]) THEN 1 ELSE 0
    <2>1. lsn.count = n + lsn.undo /\ n \in Int
        BY <1>1, BacklogSlot DEF Listen
    <2>2. BacklogExact' <=> lsn'.count = n + lsn'.undo
        BY DEF BacklogExact, Slot
    <2> HIDE DEF n
    <2>3. lsn'.count = n + lsn'.undo
        BY <1>2, <2>1
    <2> QED
        BY <2>2, <2>3
<1>4. Sockets' /\ Admitted' /\ Callers'
    BY <1>1 DEF Listen, Sockets, Admitted, Rejected, Callers
<1>5. RestTyped'
    BY <1>1 DEF RestTyped
<1> QED
    BY <1>3, <1>4, <1>5 DEF TcpInv, Listen

(* The numbers that the listener and its pollers are counted in.           *)
LEMMA Counts ==
    ASSUME TcpInv
    PROVE  /\ lsn \in LsnType /\ IsFiniteSet(work) /\ Cardinality(work) \in Nat
           /\ lsn.count \in Int /\ lsn.undo \in Nat /\ lsn.failed \in BOOLEAN /\ (lsn.failed => lsn.undo > 0)
           /\ BACKLOG \in Int /\ CPUS \in Int /\ lsn.count <= BACKLOG /\ Cardinality(work) + lsn.undo <= CPUS
<1>1. lsn \in LsnType /\ IsFiniteSet(work) /\ lsn.count <= BACKLOG /\ Cardinality(work) + lsn.undo <= CPUS
    BY Parts DEF RestTyped, Pollers, Listen
<1> QED
    BY <1>1, TcpAssumption, FS_CardinalityType DEF LsnType

(* One more slot to give back, on a free CPU, changes no poller.           *)
LEMMA UndoMore ==
    ASSUME TcpInv, CpuFree, work' = work, lsn'.undo = lsn.undo + 1
    PROVE  WorkTyped' /\ Pollers'
<1> DEFINE c == Cardinality(work)
<1>1. c \in Nat /\ lsn.undo \in Nat /\ CPUS \in Int /\ c + lsn.undo < CPUS
    BY Counts DEF CpuFree
<1> HIDE DEF c
<1>2. c + (lsn.undo + 1) <= CPUS
    BY <1>1
<1>3. c + lsn'.undo <= CPUS
    BY <1>2
<1> QED
    BY <1>3, Parts DEF WorkTyped, Pollers, c

(* ReceiveSynFails keeps the invariant.                                    *)
LEMMA ReceiveSynFailsSafe ==
    ASSUME TcpInv, NEW m, NEW made \in BOOLEAN, ReceiveSynFails(m, made)
    PROVE  TcpInv'
<1>1. /\ CpuFree /\ lsn.count < BACKLOG
      /\ lsn' = [lsn EXCEPT !.count = @ + 1, !.undo = @ + 1, !.failed = made]
      /\ UNCHANGED <<sk, calls, work, net, tries>>
    BY DEF ReceiveSynFails
<1>2. lsn \in LsnType /\ lsn.count \in Int /\ lsn.undo \in Nat /\ BACKLOG \in Int
    BY Counts
<1>3. lsn.count + 1 \in Int /\ lsn.undo + 1 \in Nat /\ lsn.undo + 1 > 0 /\ lsn.count + 1 <= BACKLOG
    BY <1>1, <1>2
<1>4. lsn' \in LsnType /\ lsn'.count = lsn.count + 1 /\ lsn'.undo = lsn.undo + 1
    BY <1>1, <1>2, <1>3 DEF LsnType
<1>5. WorkTyped' /\ Pollers'
    BY <1>1, <1>4, UndoMore
<1> QED
    BY <1>1, <1>3, <1>4, <1>5, UndoStep

(* UndoSlot keeps the invariant.                                           *)
LEMMA UndoSlotSafe ==
    ASSUME TcpInv, UndoSlot
    PROVE  TcpInv'
<1>1. /\ lsn.undo > (IF lsn.failed THEN 1 ELSE 0) /\ lsn' = [lsn EXCEPT !.count = SlotFreed(@), !.undo = @ - 1]
      /\ UNCHANGED <<sk, calls, work, net, tries>>
    BY DEF UndoSlot
<1>2. /\ lsn \in LsnType /\ lsn.count \in Int /\ lsn.undo \in Nat /\ BACKLOG \in Int /\ lsn.count <= BACKLOG
      /\ CPUS \in Int /\ Cardinality(work) \in Nat /\ Cardinality(work) + lsn.undo <= CPUS
    BY Counts
<1>3. /\ SlotFreed(lsn.count) = lsn.count + (-1) /\ lsn.undo - 1 = lsn.undo + (-1)
      /\ lsn.count + (-1) \in Int /\ lsn.undo + (-1) \in Nat /\ lsn.count + (-1) <= BACKLOG
      /\ lsn.failed => lsn.undo + (-1) > 0
    BY <1>1, <1>2 DEF SlotFreed
<1>4. lsn' \in LsnType /\ lsn'.count = lsn.count + (-1) /\ lsn'.undo = lsn.undo + (-1)
    BY <1>1, <1>2, <1>3 DEF LsnType
<1>5. WorkTyped' /\ Pollers'
    <2> DEFINE c == Cardinality(work)
    <2>1. c + lsn.undo <= CPUS /\ c \in Nat
        BY <1>2
    <2> HIDE DEF c
    <2>2. c + lsn'.undo <= CPUS
        BY <1>2, <1>4, <2>1
    <2> QED
        BY <1>1, <2>2, Parts DEF WorkTyped, Pollers, c
<1> QED
    BY <1>1, <1>3, <1>4, <1>5, UndoStep

(* UndoFailed keeps the invariant.                                         *)
LEMMA UndoFailedSafe ==
    ASSUME TcpInv, UndoFailed
    PROVE  TcpInv'
<1> DEFINE v == [kind |-> "put", x |-> "srv"]
<1>1. /\ lsn.failed /\ lsn' = [lsn EXCEPT !.count = SlotFreed(@), !.undo = @ - 1, !.failed = FALSE]
      /\ work' = work \cup {v} /\ UNCHANGED <<sk, calls, net, tries>>
    BY DEF UndoFailed
<1>2. /\ lsn \in LsnType /\ lsn.count \in Int /\ lsn.undo \in Nat /\ lsn.undo > 0 /\ BACKLOG \in Int
      /\ lsn.count <= BACKLOG /\ CPUS \in Int /\ Cardinality(work) \in Nat /\ IsFiniteSet(work)
      /\ Cardinality(work) + lsn.undo <= CPUS
    BY <1>1, Counts
<1>3. /\ SlotFreed(lsn.count) = lsn.count + (-1) /\ lsn.undo - 1 = lsn.undo + (-1)
      /\ lsn.count + (-1) \in Int /\ lsn.undo + (-1) \in Nat /\ lsn.count + (-1) <= BACKLOG
    BY <1>2 DEF SlotFreed
<1>4. lsn' \in LsnType /\ lsn'.count = lsn.count + (-1) /\ lsn'.undo = lsn.undo + (-1)
    BY <1>1, <1>2, <1>3 DEF LsnType
<1>5. v \in PutType /\ v.kind # "reject" /\ v.kind \notin PollKinds
    BY DEF PutType, PollKinds
<1> HIDE DEF v
<1>6. Accepting(work') \subseteq Accepting(work)
    BY <1>1, <1>5, MoreWork
<1>7. IsFiniteSet(work') /\ (Cardinality(work') = Cardinality(work) \/ Cardinality(work') = Cardinality(work) + 1)
    BY <1>1, <1>2, FS_AddElement
<1>8. Cardinality(work') + lsn'.undo <= CPUS
    <2> DEFINE c == Cardinality(work)
               d == Cardinality(work')
    <2>1. c + lsn.undo <= CPUS /\ c \in Nat /\ (d = c \/ d = c + 1)
        BY <1>2, <1>7
    <2> HIDE DEF c, d
    <2>2. d + lsn'.undo <= CPUS
        BY <1>2, <1>4, <2>1
    <2> QED
        BY <2>2 DEF d
<1>9. WorkTyped' /\ Pollers'
    BY <1>1, <1>5, <1>7, <1>8, Parts DEF WorkTyped, Pollers
<1> QED
    BY <1>1, <1>3, <1>4, <1>6, <1>9, UndoStep
-----------------------------------------------------------------------------
(* The rest of net_receive_tcp_frame.                                      *)

(* What a poller has left to do, by its kind; only an admission queues a   *)
(* child, and only a child without an owner is rejected.                   *)
LEMMA PollerTyped ==
    ASSUME TcpInv, NEW w \in work
    PROVE  /\ w.kind = "record" => w \in RecordType
           /\ w.kind \in PollKinds => w \in RestType /\ w.accept \in BOOLEAN
           /\ w.kind \in PollKinds \ {"reject"} /\ w.accept => w = Admission /\ Waiting(sk["srv"])
           /\ w.kind = "reject" => Rejected(w, sk["srv"])
<1>1. w \in RestType \cup RecordType \cup PutType
    BY Parts DEF WorkTyped
<1>2. Admission.kind = "rest"
    BY DEF Admission, Rest
<1>3. w.kind \in PollKinds \ {"reject"} /\ w.accept => w = Admission /\ Waiting(sk["srv"])
    BY DEF TcpInv, Listen, Admitted, Accepting, Rejected
<1>4. w.kind = "reject" => Rejected(w, sk["srv"])
    BY <1>2 DEF TcpInv, Listen, Admitted, Accepting
<1> QED
    BY <1>1, <1>3, <1>4 DEF RestType, RecordType, PutType, PollKinds

(* The fields of an admission.                                             *)
LEMMA AdmissionFields ==
    /\ Admission.kind = "rest" /\ Admission.x = "srv" /\ Admission.fin = FALSE /\ Admission.accept = TRUE
    /\ Admission.unit = {} /\ Admission.ack = TRUE
BY DEF Admission, Rest

(* A step of a poller that is quiet for the socket keeps the invariant.    *)
LEMMA PollAction ==
    ASSUME TcpInv, NEW w \in work, NEW ws, ws = {} \/ \E v \in RestType : ws = {v} /\ ~v.accept /\ v.kind # "reject",
           NEW x \in Parties, NEW t, Set(x, t), Quiet(sk[x], t), work' = (work \ {w}) \cup ws,
           lsn' = lsn, calls' = calls, tries' = tries, net' \subseteq Segments
    PROVE  TcpInv'
<1>1. Listen /\ WorkTyped /\ RestTyped /\ Pollers
    BY Parts
<1>2. Accepting(work') \subseteq Accepting(work)
    BY DEF Accepting
<1>3. Calling
    BY <1>1, CallsSame
<1>4. Listen'
    BY <1>1, <1>2, <1>3, QuietStep
<1>5. WorkTyped' /\ Pollers'
    BY <1>1, WorkDone
<1>6. RestTyped'
    BY <1>1 DEF RestTyped
<1> QED
    BY <1>4, <1>5, <1>6 DEF TcpInv

(* RecordChild keeps the invariant.                                        *)
LEMMA RecordChildSafe ==
    ASSUME TcpInv, NEW w \in work, RecordChild(w)
    PROVE  TcpInv'
<1> DEFINE s == sk["srv"]
           r == Recorded(s, "SA", w.isn, Plus(s.irs, 1))
           t == IF s.state # "FREE" /\ s.isn = w.isn THEN r ELSE s
<1>1. w.kind = "record" /\ Set("srv", t) /\ work' = (work \ {w}) \cup {} /\ UNCHANGED <<lsn, calls, net, tries>>
    BY DEF RecordChild, Done
<1>2. "srv" \in Parties /\ net \subseteq Segments
    BY Parts
<1>3. Sound(s) /\ s \in SocketType /\ Plus(s.irs, 1) \in Numbers
    BY <1>2, SockSound, SocketFields
<1>4. w.isn \in Numbers
    BY <1>1, PollerTyped DEF RecordType
<1> HIDE DEF s
<1>5. Turns(s, r, s.state)
    BY <1>3, <1>4, RecordedTurns
<1> HIDE DEF r
<1>6. Quiet(s, r) /\ Quiet(s, s)
    BY <1>3, <1>5, SoundTurns DEF Quiet
<1>7. Quiet(sk["srv"], t)
    BY <1>6 DEF s
<1> HIDE DEF t
<1> QED
    BY <1>1, <1>2, <1>7, PollAction

(* PollFin keeps the invariant.                                            *)
LEMMA PollFinSafe ==
    ASSUME TcpInv, NEW w \in work, PollFin(w)
    PROVE  TcpInv'
<1> DEFINE s == sk[w.x]
           n == FinNumbered(s)
           v1 == [w EXCEPT !.kind = "finrec", !.fin_ack = s.rcv]
           v2 == [w EXCEPT !.fin = FALSE]
<1>1. w.kind = "rest" /\ w.fin /\ UNCHANGED <<lsn, calls, net, tries>>
    BY DEF PollFin
<1>2. \/ MaySendFin(s) /\ Set(w.x, n) /\ work' = (work \ {w}) \cup {v1}
      \/ Set(w.x, s) /\ work' = (work \ {w}) \cup {v2}
    BY DEF PollFin, Done
<1>3. w \in RestType /\ ~w.accept
    BY <1>1, PollerTyped, AdmissionFields DEF PollKinds
<1>4. w.x \in Parties /\ net \subseteq Segments
    BY <1>3, Parts DEF RestType
<1>5. Sound(s) /\ s \in SocketType /\ s.rcv \in Numbers
    BY <1>4, SockSound
<1> HIDE DEF s
<1>6. /\ v1 \in RestType /\ ~v1.accept /\ v1.kind # "reject"
      /\ v2 \in RestType /\ ~v2.accept /\ v2.kind # "reject"
    BY <1>1, <1>3, <1>5 DEF RestType, PollKinds
<1> HIDE DEF v1, v2
<1>7. CASE MaySendFin(s) /\ Set(w.x, n) /\ work' = (work \ {w}) \cup {v1}
    <2>1. s.state \notin Early
        BY <1>7 DEF MaySendFin, Early
    <2>2. Keeps(s, n) /\ n.state \notin Early
        BY <1>5, FinNumberedTyped DEF Early
    <2> HIDE DEF n
    <2>3. Quiet(sk[w.x], n)
        BY <1>5, <2>1, <2>2, SoundKeeps DEF s
    <2>4. {v1} = {} \/ \E v \in RestType : {v1} = {v} /\ ~v.accept /\ v.kind # "reject"
        BY <1>6
    <2> QED
        BY <1>1, <1>4, <1>7, <2>3, <2>4, PollAction
<1>8. CASE Set(w.x, s) /\ work' = (work \ {w}) \cup {v2}
    <2>1. Quiet(sk[w.x], s)
        BY <1>5 DEF s, Quiet
    <2>2. {v2} = {} \/ \E v \in RestType : {v2} = {v} /\ ~v.accept /\ v.kind # "reject"
        BY <1>6
    <2> QED
        BY <1>1, <1>4, <1>8, <2>1, <2>2, PollAction
<1> QED
    BY <1>2, <1>7, <1>8

(* The FIN is a segment.                                                   *)
LEMMA FinSegmentTyped ==
    ASSUME TcpInv, NEW x \in Parties, NEW a \in Numbers, NEW ok, Send(FinSegment(x, a, ok))
    PROVE  net' \subseteq Segments
<1>1. sk[x] \in SocketType /\ net \subseteq Segments
    BY SockSound, Parts
<1>2. FinNumber(sk[x]) \in Numbers
    BY <1>1, FinNumberTyped
<1>3. Segment(x, "FA", FinNumber(sk[x]), a, 0) \in Segments
    BY <1>2, SegmentTyped
<1> QED
    BY <1>1, <1>3 DEF Send, FinSegment

(* Recording a FIN is quiet.                                               *)
LEMMA FinRecordedQuiet ==
    ASSUME NEW s, Sound(s), NEW a \in Numbers
    PROVE  Quiet(s, FinRecorded(s, a))
<1> DEFINE t == FinRecorded(s, a)
<1>1. s \in SocketType
    BY DEF Sound
<1>2. Turns(s, t, s.state)
    BY <1>1, FinNumberTyped, RecordedTurns DEF FinRecorded
<1> HIDE DEF t
<1>3. Quiet(s, t)
    BY <1>2, SoundTurns
<1> QED
    BY <1>3 DEF t

(* Taking a FIN back is quiet.                                             *)
LEMMA FinTakenBackQuiet ==
    ASSUME NEW s, Sound(s)
    PROVE  Quiet(s, s) /\ Quiet(s, FinTakenBack(s))
<1> DEFINE t == FinTakenBack(s)
<1>1. s \in SocketType
    BY DEF Sound
<1>2. t = s \/ (Keeps(s, t) /\ s.fin_sent /\ t.state \in {"CLOSE_WAIT", "ESTABLISHED"})
    BY <1>1, FinTakenBackTyped
<1> HIDE DEF t
<1>3. Quiet(s, s)
    BY DEF Quiet
<1>4. CASE Keeps(s, t) /\ s.fin_sent /\ t.state \in {"CLOSE_WAIT", "ESTABLISHED"}
    <2>1. s.state \notin Early /\ t.state \notin Early
        BY <1>4 DEF Sound, Early
    <2>2. Quiet(s, t)
        BY <1>4, <2>1, SoundKeeps
    <2> QED
        BY <1>3, <2>2 DEF t
<1> QED
    BY <1>2, <1>3, <1>4 DEF t

(* PollFinRecord keeps the invariant.                                      *)
LEMMA PollFinRecordSafe ==
    ASSUME TcpInv, NEW w \in work, PollFinRecord(w)
    PROVE  TcpInv'
<1> DEFINE t == FinRecorded(sk[w.x], w.fin_ack)
           v1 == [w EXCEPT !.kind = "finsend"]
<1>1. /\ w.kind = "finrec" /\ Set(w.x, t) /\ work' = (work \ {w}) \cup {v1}
      /\ UNCHANGED <<lsn, calls, net, tries>>
    BY DEF PollFinRecord, Done
<1>2. w \in RestType /\ ~w.accept /\ net \subseteq Segments
    BY <1>1, PollerTyped, AdmissionFields, Parts DEF PollKinds
<1>3. w.x \in Parties /\ w.fin_ack \in Numbers
    BY <1>2 DEF RestType
<1>4. v1 \in RestType /\ ~v1.accept /\ v1.kind # "reject"
    BY <1>2 DEF RestType, PollKinds
<1> HIDE DEF v1
<1>5. Sound(sk[w.x])
    BY <1>3, SockSound
<1>6. Quiet(sk[w.x], t)
    BY <1>3, <1>5, FinRecordedQuiet
<1> HIDE DEF t
<1>7. {v1} = {} \/ \E v \in RestType : {v1} = {v} /\ ~v.accept /\ v.kind # "reject"
    BY <1>4
<1> QED
    BY <1>1, <1>2, <1>3, <1>6, <1>7, PollAction

(* PollFinSend keeps the invariant.                                        *)
LEMMA PollFinSendSafe ==
    ASSUME TcpInv, NEW w \in work, NEW ok \in BOOLEAN, PollFinSend(w, ok)
    PROVE  TcpInv'
<1> DEFINE t == FinSent(sk[w.x], ok)
           v1 == [w EXCEPT !.kind = "rest", !.fin = FALSE, !.fin_ack = 0]
<1>1. /\ w.kind = "finsend" /\ Set(w.x, t) /\ work' = (work \ {w}) \cup {v1}
      /\ Send(FinSegment(w.x, w.fin_ack, ok)) /\ UNCHANGED <<lsn, calls, tries>>
    BY DEF PollFinSend, Done
<1>2. w \in RestType /\ ~w.accept
    BY <1>1, PollerTyped, AdmissionFields DEF PollKinds
<1>3. w.x \in Parties /\ w.fin_ack \in Numbers /\ 0 \in Numbers
    BY <1>2, Modular DEF RestType
<1>4. v1 \in RestType /\ ~v1.accept /\ v1.kind # "reject"
    BY <1>2, <1>3 DEF RestType, PollKinds
<1> HIDE DEF v1
<1>5. Sound(sk[w.x])
    BY <1>3, SockSound
<1>6. Quiet(sk[w.x], t)
    BY <1>5, FinTakenBackQuiet DEF FinSent
<1> HIDE DEF t
<1>7. net' \subseteq Segments
    BY <1>1, <1>3, FinSegmentTyped
<1>8. {v1} = {} \/ \E v \in RestType : {v1} = {v} /\ ~v.accept /\ v.kind # "reject"
    BY <1>4
<1> QED
    BY <1>1, <1>3, <1>6, <1>7, <1>8, PollAction

(* PutChild keeps the invariant.                                           *)
LEMMA PutChildSafe ==
    ASSUME TcpInv, NEW w \in work, PutChild(w)
    PROVE  TcpInv'
<1>1. work' = (work \ {w}) \cup {} /\ UNCHANGED <<sk, lsn, calls, net, tries>>
    BY DEF PutChild
<1>2. Listen /\ WorkTyped /\ RestTyped /\ Pollers
    BY Parts
<1>3. Accepting(work') \subseteq Accepting(work) /\ Calling
    BY <1>1, <1>2, CallsSame DEF Accepting
<1>4. Listen'
    BY <1>1, <1>2, <1>3, StillStep
<1>5. WorkTyped' /\ Pollers'
    BY <1>1, <1>2, WorkDone
<1>6. RestTyped'
    BY <1>1, <1>2 DEF RestTyped
<1> QED
    BY <1>4, <1>5, <1>6 DEF TcpInv

(* PollAccept keeps the invariant: the child waits for accept, or loses    *)
(* its slot with the listener.                                             *)
LEMMA PollAcceptSafe ==
    ASSUME TcpInv, NEW w \in work, PollAccept(w)
    PROVE  TcpInv'
<1> DEFINE s == sk["srv"]
           q == [s EXCEPT !.owner = "queue"]
           n == [s EXCEPT !.owner = "none"]
           v1 == [w EXCEPT !.accept = FALSE]
           v2 == [w EXCEPT !.kind = "reject", !.accept = FALSE]
<1>1. w.kind = "rest" /\ w.accept /\ UNCHANGED <<calls, net, tries>>
    BY DEF PollAccept
<1>2. w = Admission /\ Waiting(s) /\ w.x = "srv" /\ w \in RestType
    BY <1>1, PollerTyped, AdmissionFields DEF PollKinds
<1>3. \/ Set("srv", q) /\ work' = (work \ {w}) \cup {v1} /\ lsn' = lsn
      \/ /\ Set("srv", n) /\ work' = (work \ {w}) \cup {v2}
         /\ lsn' = [lsn EXCEPT !.count = SlotFreed(@)]
    BY <1>2 DEF PollAccept, Done
<1>4. Listen /\ RestTyped /\ WorkTyped /\ Pollers /\ "srv" \in Parties
    BY Parts
<1>5. Sound(s) /\ s \in SocketType /\ s.owner = "handshake" /\ Slot(s) /\ ~s.closed /\ s.state \notin Early
    BY <1>2, <1>4, SockSound DEF Waiting, Slot, Early
<1>6. v1 \in RestType /\ ~v1.accept /\ v1.kind = "rest" /\ v2 \in RestType /\ v2.kind = "reject" /\ v2.x = "srv"
    BY <1>1, <1>2 DEF RestType, PollKinds
<1> HIDE DEF v1, v2
<1>7. Accepting(work) \subseteq {w}
    BY <1>2, <1>5 DEF TcpInv, Listen, Admitted, Rejected
<1>8. ASSUME NEW o \in {"queue", "none"}
      PROVE  LET t == [s EXCEPT !.owner = o]
             IN  Sound(t) /\ t.owner = o /\ (Slot(t) <=> o = "queue")
    <2> DEFINE t == [s EXCEPT !.owner = o]
    <2>1. /\ t \in SocketType /\ t.state = s.state /\ t.closed = s.closed /\ t.owner = o
          /\ t.rd = s.rd /\ t.rx = s.rx /\ t.fin_sent = s.fin_sent
        <3>1. o \in Owners
            BY DEF Owners
        <3> QED
            BY <1>5, <3>1, OwnedTyped
    <2> HIDE DEF t
    <2>2. Sound(t) /\ t.owner = o /\ (Slot(t) <=> o = "queue")
        BY <1>5, <2>1 DEF Sound, Slot, Early
    <2> QED
        BY <2>2 DEF t
<1>9. CASE Set("srv", q) /\ work' = (work \ {w}) \cup {v1} /\ lsn' = lsn
    <2>1. Sound(q) /\ Slot(q)
        BY <1>8
    <2> HIDE DEF q
    <2>2. Accepting(work') = {}
        BY <1>6, <1>7, <1>9 DEF Accepting
    <2>3. Listen'
        BY <1>1, <1>4, <1>5, <1>9, <2>1, <2>2, SlotKeptStep
    <2>4. WorkTyped' /\ Pollers'
        BY <1>4, <1>6, <1>9, WorkDone
    <2>5. RestTyped'
        BY <1>1, <1>4, <1>9 DEF RestTyped
    <2> QED
        BY <2>3, <2>4, <2>5 DEF TcpInv
<1>10. CASE /\ Set("srv", n) /\ work' = (work \ {w}) \cup {v2}
            /\ lsn' = [lsn EXCEPT !.count = SlotFreed(@)]
    <2>1. Sound(n) /\ ~Slot(n) /\ n.owner = "none"
        BY <1>8
    <2> HIDE DEF n
    <2>2. \A v \in Accepting(work') : Rejected(v, n)
        BY <1>6, <1>7, <1>10, <2>1 DEF Accepting, Rejected
    <2>3. /\ lsn' \in LsnType
          /\ lsn'.count = SlotFreed(lsn.count) /\ lsn'.undo = lsn.undo
        BY <1>4, <1>10, LsnFreed
    <2>4. WorkTyped' /\ Pollers'
        BY <1>4, <1>6, <1>10, <2>3, WorkDone
    <2> QED
        BY <1>1, <1>5, <1>10, <2>1, <2>2, <2>3, <2>4, FreedAction
<1> QED
    BY <1>3, <1>9, <1>10

(* A poller that leaves a socket without a slot, which goes with it.       *)
LEMMA PollGone ==
    ASSUME TcpInv, NEW w \in work, NEW x \in Parties, NEW s, Sound(s), s.owner = sk[x].owner, s.owner # "queue",
           ~Slot(sk[x]), calls[x].at = "idle", Set(x, Released(x, s, work \ {w})),
           work' = (work \ {w}) \cup {}, lsn' = lsn, calls' = calls, tries' = tries, net' \subseteq Segments
    PROVE  TcpInv'
<1> DEFINE r == Released(x, s, work \ {w})
<1>1. Listen /\ RestTyped /\ WorkTyped /\ Pollers /\ s \in SocketType
    BY Parts DEF Sound
<1>2. Sound(r) /\ ~Slot(r) /\ (s.owner = "app" => r.owner = "app")
    BY ReleasedSound
<1>3. Accepting(work') \subseteq Accepting(work) /\ work' = work \ {w}
    BY DEF Accepting
<1>4. x = "srv" => \A v \in Accepting(work') : Rejected(v, r)
    <2> HAVE x = "srv"
    <2>1. ~Waiting(sk["srv"])
        BY DEF Waiting, Slot, Early
    <2>2. \A v \in Accepting(work) : Rejected(v, sk["srv"])
        BY <2>1, OnlyRejects
    <2>3. \A v \in Accepting(work \ {w}) : Rejected(v, s)
        BY <1>3, <2>2 DEF Rejected
    <2> QED
        BY <1>1, <1>3, <2>3, ReleasedRejects
<1>5. x = "cli" => r.owner = "app"
    BY <1>1, <1>2 DEF Listen, Sockets
<1>6. Set(x, r)
    OBVIOUS
<1>7. \A y \in Parties : calls'[y].at # "idle" => y # x /\ calls[y].at # "idle"
    OBVIOUS
<1> HIDE DEF r
<1>8. Listen'
    BY <1>1, <1>2, <1>3, <1>4, <1>5, <1>6, <1>7, GoneStep
<1>9. WorkTyped' /\ Pollers'
    BY <1>1, WorkDone
<1>10. RestTyped'
    BY <1>1 DEF RestTyped
<1> QED
    BY <1>8, <1>9, <1>10 DEF TcpInv

(* PollReject keeps the invariant.                                         *)
LEMMA PollRejectSafe ==
    ASSUME TcpInv, NEW w \in work, PollReject(w)
    PROVE  TcpInv'
<1> DEFINE s == sk["srv"]
           a == Aborted(s)
<1>1. w.kind = "reject" /\ UNCHANGED <<lsn, calls, net, tries>>
    BY DEF PollReject
<1>2. w.x = "srv" /\ s.owner = "none"
    BY <1>1, PollerTyped DEF Rejected
<1>3. Set("srv", Released("srv", a, work \ {w})) /\ work' = (work \ {w}) \cup {}
    BY <1>2 DEF PollReject, Done
<1>4. Listen /\ net \subseteq Segments /\ "srv" \in Parties
    BY Parts
<1>5. Sound(s) /\ s \in SocketType /\ ~Slot(s)
    BY <1>2, <1>4, SockSound DEF Slot
<1>6. /\ a \in SocketType /\ a.state = "CLOSED" /\ a.closed /\ a.owner = s.owner
      /\ a.rd = s.rd /\ a.rx = s.rx /\ a.fin_sent = s.fin_sent
    BY <1>5, AbortedTyped
<1> HIDE DEF a
<1>7. Sound(a) /\ a.owner # "queue"
    BY <1>2, <1>5, <1>6 DEF Sound, Early
<1>8. calls["srv"].at = "idle"
    BY <1>2, <1>4 DEF Listen, Callers, Owned
<1> QED
    BY <1>1, <1>3, <1>4, <1>5, <1>6, <1>7, <1>8, PollGone

(* PollQueue keeps the invariant.                                          *)
LEMMA PollQueueSafe ==
    ASSUME TcpInv, NEW w \in work, NEW ok, PollQueue(w, ok)
    PROVE  TcpInv'
<1> DEFINE s == sk[w.x]
           t == Queued(s, w.unit, ok)
           v1 == [w EXCEPT !.unit = {}]
<1>1. /\ w.kind = "rest" /\ ~w.accept /\ w.unit # {} /\ Set(w.x, t) /\ work' = (work \ {w}) \cup {v1}
      /\ UNCHANGED <<lsn, calls, net, tries>>
    BY DEF PollQueue, Done
<1>2. w \in RestType /\ net \subseteq Segments
    BY <1>1, PollerTyped, Parts DEF PollKinds
<1>3. w.x \in Parties /\ w.unit \in SUBSET Numbers
    BY <1>2 DEF RestType
<1>4. v1 \in RestType /\ ~v1.accept /\ v1.kind # "reject"
    BY <1>1, <1>2 DEF RestType
<1> HIDE DEF v1
<1>5. Sound(s) /\ s \in SocketType /\ s.rd <= Len(s.rx)
    BY <1>3, SockSound
<1> HIDE DEF s
<1>6. /\ t \in SocketType /\ t.state = s.state /\ t.closed = s.closed /\ t.owner = s.owner
      /\ t.rd <= Len(t.rx) /\ t.fin_sent = s.fin_sent
    BY <1>1, <1>3, <1>5, QueuedTyped
<1> HIDE DEF t
<1>7. Quiet(sk[w.x], t)
    BY <1>5, <1>6 DEF Sound, Quiet, s
<1>8. {v1} = {} \/ \E v \in RestType : {v1} = {v} /\ ~v.accept /\ v.kind # "reject"
    BY <1>4
<1> QED
    BY <1>1, <1>2, <1>3, <1>7, <1>8, PollAction

(* PollAck keeps the invariant.                                            *)
LEMMA PollAckSafe ==
    ASSUME TcpInv, NEW w \in work, PollAck(w)
    PROVE  TcpInv'
<1> DEFINE s == sk[w.x]
           t == IF s.closed THEN Released(w.x, s, work \ {w}) ELSE s
<1>1. /\ w.kind = "rest" /\ Set(w.x, t) /\ work' = (work \ {w}) \cup {}
      /\ net' = net \cup (IF w.ack THEN {Segment(w.x, "ACK", 0, s.rcv, 0)} ELSE {})
      /\ UNCHANGED <<lsn, calls, tries>>
    BY DEF PollAck, Done, Send
<1>2. w \in RestType /\ Listen /\ net \subseteq Segments
    BY <1>1, PollerTyped, Parts DEF PollKinds
<1>3. w.x \in Parties
    BY <1>2 DEF RestType
<1>4. Sound(s) /\ s \in SocketType /\ s.rcv \in Numbers /\ 0 \in Numbers
    BY <1>3, SockSound, Modular
<1>5. net' \subseteq Segments
    <2>1. Segment(w.x, "ACK", 0, s.rcv, 0) \in Segments
        BY <1>3, <1>4, SegmentTyped
    <2> QED
        BY <1>1, <1>2, <2>1
<1>6. CASE ~s.closed
    <2>1. Set(w.x, s) /\ Quiet(sk[w.x], s)
        BY <1>1, <1>4, <1>6 DEF Quiet
    <2> HIDE DEF s, t
    <2>2. {} = {} \/ \E v \in RestType : {} = {v} /\ ~v.accept /\ v.kind # "reject"
        OBVIOUS
    <2> QED
        BY <1>1, <1>3, <1>5, <2>1, <2>2, PollAction
<1>7. CASE s.closed
    <2>1. s.owner # "queue" /\ ~Slot(s)
        BY <1>4, <1>7 DEF Sound, Slot
    <2>2. Set(w.x, Released(w.x, s, work \ {w}))
        BY <1>1, <1>7
    <2>3. calls[w.x].at = "idle"
        BY <1>2, <1>3, <1>7 DEF Listen, Callers, Owned
    <2> QED
        BY <1>1, <1>3, <1>4, <1>5, <2>1, <2>2, <2>3, PollGone
<1> QED
    BY <1>6, <1>7
-----------------------------------------------------------------------------
(* net_tcp_retransmit                                                      *)
LEMMA RetransmitDataSafe ==
    ASSUME TcpInv, NEW x \in Parties, RetransmitData(x)
    PROVE  TcpInv'
<1> DEFINE s == sk[x]
<1>1. /\ s.tx # <<>> /\ net' = net \cup {Segment(x, "ACK", s.tx[1].seq, s.tx[1].ack, 1)}
      /\ UNCHANGED <<sk, lsn, calls, work, tries>>
    BY DEF RetransmitData, Send
<1>2. RestTyped /\ net \subseteq Segments
    BY Parts
<1>3. s.tx \in Seq(TxType)
    BY SockSound DEF SocketType
<1>4. s.tx[1] \in TxType
    <2>1. \A q \in Seq(TxType) : q # <<>> => q[1] \in TxType
        OBVIOUS
    <2> QED
        BY <1>1, <1>3, <2>1
<1>5. s.tx[1].seq \in Numbers /\ s.tx[1].ack \in Numbers
    BY <1>4 DEF TxType
<1>6. Segment(x, "ACK", s.tx[1].seq, s.tx[1].ack, 1) \in Segments
    BY <1>5, SegmentTyped
<1>7. net' \subseteq Segments
    BY <1>1, <1>2, <1>6
<1>8. calls' \in [Parties -> CallType] /\ Calling
    BY <1>1, <1>2, CallsSame
<1> QED
    BY <1>1, <1>7, <1>8, StillAction

(* RetransmitControl keeps the invariant.                                  *)
LEMMA RetransmitControlSafe ==
    ASSUME TcpInv, NEW x \in Parties, RetransmitControl(x)
    PROVE  TcpInv'
<1> DEFINE s == sk[x]
           t == [s EXCEPT !.retry = @ + 1]
<1>1. /\ s.last # "" /\ s.retry < RETRY_LIMIT /\ Set(x, t)
      /\ net' = net \cup {Segment(x, s.last, s.last_seq, s.last_ack, 0)}
      /\ UNCHANGED <<lsn, calls, work, tries>>
    BY DEF RetransmitControl, Send
<1>2. RestTyped /\ net \subseteq Segments
    BY Parts
<1>3. Sound(s) /\ s \in SocketType
    BY SockSound
<1>4. s.last \in {"SYN", "SA", "FA"} /\ s.last_seq \in Numbers /\ s.last_ack \in Numbers
    BY <1>1, <1>3 DEF SocketType
<1> HIDE DEF s
<1>5. Turns(s, t, s.state)
    BY <1>1, <1>3, RetriedTyped
<1> HIDE DEF t
<1>6. Quiet(s, t)
    BY <1>3, <1>5, SoundTurns
<1>7. Segment(x, s.last, s.last_seq, s.last_ack, 0) \in Segments
    BY <1>4, SegmentTyped
<1>8. net' \subseteq Segments
    BY <1>1, <1>2, <1>7
<1>9. calls' \in [Parties -> CallType] /\ Calling
    BY <1>1, <1>2, CallsSame
<1>10. tries' \in [Parties -> Nat] /\ Quiet(sk[x], t)
    BY <1>1, <1>2, <1>6 DEF RestTyped, s
<1> QED
    BY <1>1, <1>8, <1>9, <1>10, QuietAction

(* GiveUp keeps the invariant.                                             *)
LEMMA GiveUpSafe ==
    ASSUME TcpInv, NEW x \in Parties, GiveUp(x)
    PROVE  TcpInv'
<1> DEFINE s == sk[x]
           g == Forgotten(s)
           t1 == [g EXCEPT !.state = "CLOSED", !.connected = FALSE]
           t3 == [g EXCEPT !.state = "CLOSED", !.fin_sent = FALSE, !.eof = TRUE]
<1>1. ~s.closed /\ UNCHANGED <<calls, work, net, tries>>
    BY DEF GiveUp
<1>2. \/ s.state = "SYN_SENT" /\ Set(x, t1) /\ lsn' = lsn
      \/ /\ s.state = "SYN_RECEIVED" /\ CpuFree /\ Set(x, Released(x, Aborted(g), work))
         /\ lsn' = [lsn EXCEPT !.undo = @ + 1]
      \/ s.state \in {"FIN_WAIT_1", "CLOSING", "LAST_ACK"} /\ Set(x, t3) /\ lsn' = lsn
    BY DEF GiveUp
<1>3. RestTyped /\ net \subseteq Segments
    BY Parts
<1>4. Sound(s) /\ s \in SocketType
    BY SockSound
<1>5. Turns(s, g, s.state)
    BY <1>4, ForgottenTurns
<1> HIDE DEF g
<1>6. g \in SocketType
    BY <1>5 DEF Turns, Keeps
<1>7. calls' \in [Parties -> CallType] /\ Calling /\ tries' \in [Parties -> Nat] /\ net' \subseteq Segments
    BY <1>1, <1>3, CallsSame DEF RestTyped
<1>8. CASE s.state = "SYN_SENT" /\ Set(x, t1) /\ lsn' = lsn
    <2>1. Turns(g, t1, "CLOSED")
        BY <1>6, UnconnectedTyped
    <2> HIDE DEF t1
    <2>2. Turns(s, t1, "CLOSED")
        BY <1>5, <2>1 DEF Turns, Keeps, Alike
    <2>3. "CLOSED" \notin Early /\ s.state \notin Early
        BY <1>8 DEF Early
    <2>4. Quiet(sk[x], t1)
        BY <1>4, <2>2, <2>3, SoundTurns
    <2> QED
        BY <1>1, <1>7, <1>8, <2>4, QuietAction
<1>9. CASE s.state \in {"FIN_WAIT_1", "CLOSING", "LAST_ACK"} /\ Set(x, t3) /\ lsn' = lsn
    <2>1. Keeps(g, t3) /\ t3.state = "CLOSED"
        BY <1>6, DeadTyped
    <2> HIDE DEF t3
    <2>2. Keeps(s, t3)
        BY <1>5, <2>1 DEF Turns, Keeps, Alike
    <2>3. t3.state \notin Early /\ s.state \notin Early
        BY <1>9, <2>1 DEF Early
    <2>4. Quiet(sk[x], t3)
        BY <1>4, <2>2, <2>3, SoundKeeps
    <2> QED
        BY <1>1, <1>7, <1>9, <2>4, QuietAction
<1>10. CASE /\ s.state = "SYN_RECEIVED" /\ CpuFree /\ Set(x, Released(x, Aborted(g), work))
            /\ lsn' = [lsn EXCEPT !.undo = @ + 1]
    <2> DEFINE a == Aborted(g)
               t2 == Released("srv", a, work)
    <2>1. s.owner = "handshake"
        BY <1>4, <1>10 DEF Sound
    <2>2. x = "srv"
        BY <2>1, Parts DEF Listen, Sockets, Parties
    <2>3. Set("srv", t2)
        BY <1>10, <2>2
    <2>4. Slot(sk["srv"]) /\ ~Waiting(sk["srv"])
        BY <1>1, <1>10, <2>1, <2>2 DEF Slot, Waiting, Early
    <2>5. /\ a \in SocketType /\ a.state = "CLOSED" /\ a.closed /\ a.owner = g.owner
          /\ a.rd = g.rd /\ a.rx = g.rx /\ a.fin_sent = g.fin_sent
        BY <1>6, AbortedTyped
    <2> HIDE DEF a
    <2>6. Sound(a) /\ a.owner # "queue"
        BY <1>4, <1>5, <2>1, <2>5 DEF Turns, Keeps, Alike, Sound, Early
    <2>7. Sound(t2) /\ ~Slot(t2)
        BY <2>6, ReleasedSound
    <2> HIDE DEF t2
    <2>8. Accepting(work') = {}
        BY <1>1, <2>1, <2>2, <2>4, NoneAccepting
    <2>9. lsn' \in LsnType /\ lsn'.count = lsn.count /\ lsn'.undo = lsn.undo + 1
        BY <1>10, Counts DEF LsnType
    <2>10. WorkTyped' /\ Pollers'
        BY <1>1, <1>10, <2>9, UndoMore
    <2>11. Listen'
        BY <1>1, <1>3, <2>3, <2>4, <2>7, <2>8, <2>9, Parts, SlotLostStep
    <2>12. RestTyped'
        BY <1>1, <1>3, <2>9 DEF RestTyped
    <2> QED
        BY <2>10, <2>11, <2>12 DEF TcpInv
<1> QED
    BY <1>2, <1>8, <1>9, <1>10

-----------------------------------------------------------------------------
(* send, recv, shutdown and close                                          *)

(* A step that changes neither state nor owner is quiet.                   *)
LEMMA SameQuiet ==
    ASSUME NEW s, Sound(s), NEW t, t \in SocketType, t.state = s.state, t.closed = s.closed, t.owner = s.owner,
           t.rd <= Len(t.rx), t.fin_sent = s.fin_sent
    PROVE  Quiet(s, t)
BY DEF Sound, Quiet

(* Write keeps the invariant.                                              *)
LEMMA WriteSafe ==
    ASSUME TcpInv, NEW x \in Parties, NEW ok, Write(x, ok)
    PROVE  TcpInv'
<1> DEFINE s == sk[x]
           t == [s EXCEPT !.nxt = Plus(@, 1), !.tx = Append(@, [seq |-> s.nxt, ack |-> s.rcv])]
<1>1. /\ Set(x, t) /\ net' = net \cup (IF ok THEN {Segment(x, "ACK", s.nxt, s.rcv, 1)} ELSE {})
      /\ UNCHANGED <<lsn, calls, work, tries>>
    BY DEF Write, Send
<1>2. RestTyped /\ net \subseteq Segments
    BY Parts
<1>3. Sound(s) /\ s \in SocketType /\ s.nxt \in Numbers /\ s.rcv \in Numbers
    BY SockSound
<1> HIDE DEF s
<1>4. Turns(s, t, s.state)
    BY <1>3, WrittenTyped
<1> HIDE DEF t
<1>5. Quiet(s, t)
    BY <1>3, <1>4, SoundTurns
<1>6. Segment(x, "ACK", s.nxt, s.rcv, 1) \in Segments
    BY <1>3, SegmentTyped
<1>7. net' \subseteq Segments
    BY <1>1, <1>2, <1>6
<1>8. calls' \in [Parties -> CallType] /\ Calling
    BY <1>1, <1>2, CallsSame
<1>9. tries' \in [Parties -> Nat] /\ Quiet(sk[x], t)
    BY <1>1, <1>2, <1>5 DEF RestTyped, s
<1> QED
    BY <1>1, <1>7, <1>8, <1>9, QuietAction

(* Read keeps the invariant.                                               *)
LEMMA ReadSafe ==
    ASSUME TcpInv, NEW x \in Parties, Read(x)
    PROVE  TcpInv'
<1> DEFINE s == sk[x]
           t == [s EXCEPT !.rd = @ + 1]
<1>1. Unread(s) > 0 /\ Set(x, t) /\ UNCHANGED <<lsn, calls, work, net, tries>>
    BY DEF Read
<1>2. RestTyped /\ net \subseteq Segments
    BY Parts
<1>3. Sound(s) /\ s \in SocketType /\ s.rd <= Len(s.rx)
    BY SockSound
<1> HIDE DEF s
<1>4. /\ t \in SocketType /\ t.state = s.state /\ t.closed = s.closed /\ t.owner = s.owner
      /\ t.rd <= Len(t.rx) /\ t.fin_sent = s.fin_sent
    BY <1>1, <1>3, ReadTyped
<1> HIDE DEF t
<1>5. Quiet(s, t)
    BY <1>3, <1>4, SameQuiet
<1>6. calls' \in [Parties -> CallType] /\ Calling
    BY <1>1, <1>2, CallsSame
<1>7. tries' \in [Parties -> Nat] /\ Quiet(sk[x], t)
    BY <1>1, <1>2, <1>5 DEF RestTyped, s
<1> QED
    BY <1>1, <1>2, <1>6, <1>7, QuietAction

(* shutdown is quiet until its FIN.                                        *)
LEMMA ShutDownQuiet ==
    ASSUME TcpInv, NEW x \in Parties, NEW reading \in BOOLEAN, NEW writing \in BOOLEAN
    PROVE  Quiet(sk[x], ShutDown(sk[x], reading, writing))
<1> DEFINE s == sk[x]
           t == ShutDown(s, reading, writing)
<1>1. Sound(s) /\ s \in SocketType /\ s.rd <= Len(s.rx)
    BY SockSound
<1> HIDE DEF s
<1>2. /\ t \in SocketType /\ t.state = s.state /\ t.closed = s.closed /\ t.owner = s.owner
      /\ t.rd <= Len(t.rx) /\ t.fin_sent = s.fin_sent
    BY <1>1, ShutDownTyped
<1> HIDE DEF t
<1>3. Quiet(s, t)
    BY <1>1, <1>2, SameQuiet
<1> QED
    BY <1>3 DEF s, t

(* Shutdown keeps the invariant.                                           *)
LEMMA ShutdownSafe ==
    ASSUME TcpInv, NEW x \in Parties, NEW reading \in BOOLEAN, NEW writing \in BOOLEAN, NEW n,
           Shutdown(x, reading, writing, n)
    PROVE  TcpInv'
<1> DEFINE t == ShutDown(sk[x], reading, writing)
           c == IF writing THEN "fin" ELSE "idle"
<1>1. /\ Program(x) /\ ~sk[x].closed /\ Set(x, t) /\ GoOn(x, c)
      /\ UNCHANGED <<lsn, work, net, tries>>
    BY DEF Shutdown
<1>2. RestTyped /\ net \subseteq Segments
    BY Parts
<1>3. Quiet(sk[x], t)
    BY ShutDownQuiet
<1>4. Owned(sk[x]) /\ c \in Calls
    BY <1>1, Owner DEF Calls
<1> HIDE DEF t, c
<1>5. calls' \in [Parties -> CallType] /\ Calling
    BY <1>1, <1>2, <1>4, GoOnCalls
<1>6. tries' \in [Parties -> Nat]
    BY <1>1, <1>2 DEF RestTyped
<1> QED
    BY <1>1, <1>2, <1>3, <1>5, <1>6, QuietAction

(* CloseSocket keeps the invariant.                                        *)
LEMMA CloseSocketSafe ==
    ASSUME TcpInv, NEW x \in Parties, CloseSocket(x)
    PROVE  TcpInv'
<1> DEFINE t == ShutDown(sk[x], TRUE, TRUE)
<1>1. calls[x].at = "idle" /\ Program(x) /\ ~sk[x].closed /\ UNCHANGED <<lsn, work, net, tries>>
    BY DEF CloseSocket, At
<1>2. \/ Set(x, t) /\ calls' = [calls EXCEPT ![x].at = "fin", ![x].closing = TRUE]
      \/ Set(x, Released(x, sk[x], work)) /\ calls' = calls
    BY DEF CloseSocket
<1>3. RestTyped /\ net \subseteq Segments /\ calls \in [Parties -> CallType]
    BY Parts DEF RestTyped
<1>4. Owned(sk[x]) /\ ~Slot(sk[x]) /\ sk[x].owner = "app" /\ Sound(sk[x])
    BY <1>1, Owner, SockSound
<1>5. CASE Set(x, t) /\ calls' = [calls EXCEPT ![x].at = "fin", ![x].closing = TRUE]
    <2>1. Quiet(sk[x], t)
        BY ShutDownQuiet
    <2> HIDE DEF t
    <2>2. calls' \in [Parties -> CallType] /\ \A y \in Parties : y # x => calls'[y] = calls[y]
        BY <1>3, <1>5 DEF CallType, Calls
    <2>3. Calling
        BY <1>4, <2>2 DEF Calling
    <2>4. tries' \in [Parties -> Nat]
        BY <1>1, <1>3 DEF RestTyped
    <2> QED
        BY <1>1, <1>3, <1>5, <2>1, <2>2, <2>3, <2>4, QuietAction
<1>6. CASE Set(x, Released(x, sk[x], work)) /\ calls' = calls
    <2>1. \A y \in Parties : calls'[y].at # "idle" => y # x /\ calls[y].at # "idle"
        BY <1>1, <1>6
    <2> QED
        BY <1>1, <1>3, <1>4, <1>6, <2>1, GoneAction
<1> QED
    BY <1>2, <1>5, <1>6

(* A call on a socket ends.                                                *)

(* A call that returns, and closes its socket if it is close, keeps the    *)
(* invariant.                                                              *)
LEMMA ReturnSafe ==
    ASSUME TcpInv, NEW x \in Parties, calls[x].at # "idle", NEW s, Quiet(sk[x], s), Return(x, s),
           lsn' = lsn, work' = work, tries' = tries, net' \subseteq Segments
    PROVE  TcpInv'
<1>1. RestTyped /\ calls \in [Parties -> CallType]
    BY Parts DEF RestTyped
<1>2. NoTcpCall \in CallType /\ NoTcpCall.at = "idle"
    BY Modular DEF NoTcpCall, CallType, Calls
<1>3. calls' = [calls EXCEPT ![x] = NoTcpCall]
    BY DEF Return
<1>4. /\ calls' \in [Parties -> CallType] /\ calls'[x].at = "idle"
      /\ \A y \in Parties : y # x => calls'[y] = calls[y]
    BY <1>1, <1>2, <1>3
<1>5. sk[x].owner = "app" /\ ~Slot(sk[x]) /\ Sound(s) /\ s.owner = "app"
    BY Caller DEF Quiet
<1>6. CASE calls[x].closing
    <2>1. Set(x, Released(x, s, work))
        BY <1>6 DEF Return
    <2>2. \A y \in Parties : calls'[y].at # "idle" => y # x /\ calls[y].at # "idle"
        BY <1>4
    <2> QED
        BY <1>4, <1>5, <2>1, <2>2, GoneAction
<1>7. CASE ~calls[x].closing
    <2>1. Set(x, s)
        BY <1>7 DEF Return
    <2>2. Calling
        BY <1>4 DEF Calling
    <2>3. tries' \in [Parties -> Nat]
        BY <1>1 DEF RestTyped
    <2> QED
        BY <1>4, <2>1, <2>2, <2>3, QuietAction
<1> QED
    BY <1>6, <1>7

(* FinTry keeps the invariant.                                             *)
LEMMA FinTrySafe ==
    ASSUME TcpInv, NEW x \in Parties, FinTry(x)
    PROVE  TcpInv'
<1> DEFINE s == sk[x]
           t == FinNumbered(s)
<1>1. calls[x].at # "idle" /\ UNCHANGED <<lsn, work, net, tries>>
    BY DEF FinTry, At
<1>2. \/ MaySendFin(s) /\ Set(x, t) /\ calls' = [calls EXCEPT ![x].at = "finrec", ![x].ack = s.rcv]
      \/ GoOn(x, "finwait") /\ sk' = sk
      \/ GoOn(x, "busy") /\ sk' = sk
      \/ Return(x, s)
    BY DEF FinTry
<1>3. RestTyped /\ net \subseteq Segments /\ calls \in [Parties -> CallType] /\ "finwait" \in Calls /\ "busy" \in Calls
    BY Parts DEF RestTyped, Calls
<1>4. Sound(s) /\ s \in SocketType /\ s.rcv \in Numbers
    BY SockSound
<1>5. CASE MaySendFin(s) /\ Set(x, t) /\ calls' = [calls EXCEPT ![x].at = "finrec", ![x].ack = s.rcv]
    <2>1. s.state \notin Early
        BY <1>5 DEF MaySendFin, Early
    <2>2. Keeps(s, t) /\ t.state \notin Early
        BY <1>4, FinNumberedTyped DEF Early
    <2> HIDE DEF t
    <2>3. Quiet(sk[x], t)
        BY <1>4, <2>1, <2>2, SoundKeeps
    <2> HIDE DEF s
    <2>4. calls' \in [Parties -> CallType] /\ \A y \in Parties : y # x => calls'[y] = calls[y]
        BY <1>3, <1>4, <1>5 DEF CallType, Calls
    <2>5. Calling
        BY <1>1, <2>4 DEF Calling
    <2>6. tries' \in [Parties -> Nat]
        BY <1>1, <1>3 DEF RestTyped
    <2> QED
        BY <1>1, <1>3, <1>5, <2>3, <2>4, <2>5, <2>6, QuietAction
<1>6. CASE sk' = sk /\ \E c \in {"finwait", "busy"} : GoOn(x, c)
    <2>1. PICK c \in {"finwait", "busy"} : GoOn(x, c)
        BY <1>6
    <2>2. calls' \in [Parties -> CallType] /\ Calling
        BY <1>1, <1>3, <2>1, GoOnCalls
    <2> QED
        BY <1>1, <1>3, <1>6, <2>2, StillAction
<1>7. CASE Return(x, s)
    <2>1. Quiet(sk[x], s)
        BY <1>4 DEF Quiet
    <2> QED
        BY <1>1, <1>3, <1>7, <2>1, ReturnSafe
<1> QED
    BY <1>2, <1>5, <1>6, <1>7

(* FinRecord keeps the invariant.                                          *)
LEMMA FinRecordSafe ==
    ASSUME TcpInv, NEW x \in Parties, FinRecord(x)
    PROVE  TcpInv'
<1> DEFINE t == FinRecorded(sk[x], calls[x].ack)
<1>1. /\ calls[x].at # "idle" /\ Set(x, t) /\ GoOn(x, "finsend") /\ UNCHANGED <<lsn, work, net, tries>>
    BY DEF FinRecord, At
<1>2. RestTyped /\ calls[x].ack \in Numbers /\ Sound(sk[x]) /\ net \subseteq Segments /\ "finsend" \in Calls
    BY Parts, CallTyped, SockSound DEF Calls
<1>3. Quiet(sk[x], t)
    BY <1>2, FinRecordedQuiet
<1> HIDE DEF t
<1>4. calls' \in [Parties -> CallType] /\ Calling
    BY <1>1, <1>2, GoOnCalls
<1>5. tries' \in [Parties -> Nat]
    BY <1>1, <1>2 DEF RestTyped
<1> QED
    BY <1>1, <1>2, <1>3, <1>4, <1>5, QuietAction

(* FinSend keeps the invariant.                                            *)
LEMMA FinSendSafe ==
    ASSUME TcpInv, NEW x \in Parties, NEW ok \in BOOLEAN, FinSend(x, ok)
    PROVE  TcpInv'
<1> DEFINE t == FinTakenBack(sk[x])
<1>1. /\ calls[x].at # "idle" /\ Send(FinSegment(x, calls[x].ack, ok)) /\ UNCHANGED <<lsn, work, tries>>
      /\ (sk' = sk /\ GoOn(x, "finwait")) \/ Return(x, t)
    BY DEF FinSend, At
<1>2. RestTyped /\ calls[x].ack \in Numbers /\ Sound(sk[x]) /\ "finwait" \in Calls
    BY Parts, CallTyped, SockSound DEF Calls
<1>3. net' \subseteq Segments
    BY <1>1, <1>2, FinSegmentTyped
<1>4. Quiet(sk[x], t)
    BY <1>2, FinTakenBackQuiet
<1> HIDE DEF t
<1>5. CASE sk' = sk /\ GoOn(x, "finwait")
    <2>1. calls' \in [Parties -> CallType] /\ Calling
        BY <1>1, <1>2, <1>5, GoOnCalls
    <2> QED
        BY <1>1, <1>3, <1>5, <2>1, StillAction
<1>6. CASE Return(x, t)
    BY <1>1, <1>3, <1>4, <1>6, ReturnSafe
<1> QED
    BY <1>1, <1>5, <1>6

(* FinLater keeps the invariant.                                           *)
LEMMA FinLaterSafe ==
    ASSUME TcpInv, NEW x \in Parties, FinLater(x)
    PROVE  TcpInv'
<1> DEFINE s == sk[x]
           b == s.fin_pending \/ ~s.fin_sent
           t == [s EXCEPT !.fin_pending = b]
<1>1. calls[x].at # "idle" /\ Return(x, t) /\ UNCHANGED <<lsn, work, net, tries>>
    BY DEF FinLater, At
<1>2. Sound(s) /\ s \in SocketType /\ net \subseteq Segments
    BY SockSound, Parts
<1>3. b \in BOOLEAN
    BY Zenon
<1> HIDE DEF b, s
<1>4. Turns(s, t, s.state)
    BY <1>2, <1>3, PendingTyped
<1> HIDE DEF t
<1>5. Quiet(s, t)
    BY <1>2, <1>4, SoundTurns
<1>6. Quiet(sk[x], t)
    BY <1>5 DEF s
<1> QED
    BY <1>1, <1>2, <1>6, ReturnSafe

(* FinTimeout keeps the invariant.                                         *)
LEMMA FinTimeoutSafe ==
    ASSUME TcpInv, NEW x \in Parties, FinTimeout(x)
    PROVE  TcpInv'
<1>1. calls[x].at # "idle" /\ Return(x, sk[x]) /\ UNCHANGED <<lsn, work, net, tries>>
    BY DEF FinTimeout, At
<1>2. Quiet(sk[x], sk[x]) /\ net \subseteq Segments
    BY SockSound, Parts DEF Quiet
<1> QED
    BY <1>1, <1>2, ReturnSafe
-----------------------------------------------------------------------------
(* The invariant holds at first.                                           *)
LEMMA TcpInitInv ==
    ASSUME TcpInit
    PROVE  TcpInv
<1>1. "cli" \in Parties /\ "srv" \in Parties /\ Parties = {"cli", "srv"}
    BY DEF Parties
<1>2. /\ sk = [x \in Parties |-> IF x = "cli" THEN NewSocket ELSE NoSocket]
      /\ lsn = [listening |-> TRUE, count |-> 0, undo |-> 0, failed |-> FALSE] /\ work = {} /\ net = {}
      /\ calls = [x \in Parties |-> NoTcpCall] /\ tries = [x \in Parties |-> 0]
    BY DEF TcpInit
<1>3. NewSocket \in SocketType /\ Sound(NewSocket) /\ NewSocket.owner = "app"
    <2>1. NewSocket.fin_sent = FALSE /\ Len(<<>>) = 0
        BY DEF NewSocket
    <2> QED
        BY <2>1, NewTyped DEF Sound
<1>4. NoSocket \in SocketType /\ Sound(NoSocket) /\ ~Slot(NoSocket)
    BY NoSocketSound, FreeTyped
<1>5. /\ sk \in [Parties -> SocketType] /\ \A x \in Parties : Sound(sk[x])
      /\ sk["cli"] = NewSocket /\ sk["srv"] = NoSocket
    BY <1>1, <1>2, <1>3, <1>4
<1>6. Sockets
    BY <1>3, <1>5 DEF Sockets
<1>7. BacklogExact /\ lsn.count <= BACKLOG /\ lsn.undo = 0
    <2>1. lsn.count = 0 /\ lsn.undo = 0 /\ BACKLOG \in Nat
        BY <1>2, TcpAssumption
    <2>2. lsn.count = (IF Slot(sk["srv"]) THEN 1 ELSE 0) + lsn.undo
        BY <1>4, <1>5, <2>1
    <2> QED
        BY <2>1, <2>2, BacklogSlot
<1>8. Admitted
    BY <1>2 DEF Admitted, Accepting
<1>9. NoTcpCall \in CallType /\ NoTcpCall.at = "idle"
    BY Modular DEF NoTcpCall, CallType, Calls
<1>10. Callers
    BY <1>2, <1>9 DEF Callers
<1>11. WorkTyped /\ Pollers
    <2>1. IsFiniteSet({}) /\ Cardinality({}) = 0 /\ CPUS \in Nat
        BY FS_EmptySet, TcpAssumption
    <2> QED
        BY <1>2, <1>7, <2>1 DEF WorkTyped, Pollers
<1>12. RestTyped
    BY <1>2, <1>9 DEF RestTyped, LsnType
<1> QED
    BY <1>6, <1>7, <1>8, <1>10, <1>11, <1>12 DEF TcpInv, Listen

(* Every step keeps the invariant.                                         *)
LEMMA TcpStepSafe ==
    ASSUME TcpInv, [TcpNext]_tcp_vars
    PROVE  TcpInv'
<1>1. CASE UNCHANGED tcp_vars
    <2>1. sk' = sk /\ lsn' = lsn /\ work' = work /\ calls' = calls /\ net' = net /\ tries' = tries
        BY <1>1 DEF tcp_vars
    <2>2. calls' \in [Parties -> CallType] /\ Calling /\ net' \subseteq Segments
        BY <2>1, Parts, CallsSame
    <2> QED
        BY <2>1, <2>2, StillAction
<1>2. CASE Connect \/ ConnectRefused \/ ConnectStep \/ Accept \/ CloseListener \/ UndoSlot \/ UndoFailed
    BY <1>2, ConnectSafe, ConnectRefusedSafe, ConnectRecordSafe, ConnectReturnSafe, ConnectTimeoutSafe,
       AcceptSafe, CloseListenerSafe, UndoSlotSafe, UndoFailedSafe DEF ConnectStep
<1>3. CASE Receive
    BY <1>3, ReceiveSynSafe, ReceiveSynFailsSafe, ReceiveHandshakeSafe, ReceiveSynchronisedSafe DEF Receive
<1>4. ASSUME NEW w \in work, PollStep(w)
      PROVE  TcpInv'
    <2>1. DeviceOk \subseteq BOOLEAN
        BY TcpAssumption
    <2> QED
        BY <1>4, <2>1, RecordChildSafe, PutChildSafe, PollFinSafe, PollFinRecordSafe, PollAcceptSafe,
           PollRejectSafe, PollAckSafe, PollFinSendSafe, PollQueueSafe DEF PollStep
<1>5. ASSUME NEW x \in Parties, Timer(x) \/ RetransmitData(x) \/ Read(x) \/ CloseSocket(x)
      PROVE  TcpInv'
    BY <1>5, RetransmitControlSafe, GiveUpSafe, RetransmitDataSafe, ReadSafe, CloseSocketSafe DEF Timer
<1>6. ASSUME NEW x \in Parties, CallStep(x) \/ \E ok \in DeviceOk : Write(x, ok)
      PROVE  TcpInv'
    <2>1. DeviceOk \subseteq BOOLEAN
        BY TcpAssumption
    <2> QED
        BY <1>6, <2>1, FinTrySafe, FinLaterSafe, FinTimeoutSafe, FinRecordSafe, FinSendSafe, WriteSafe DEF CallStep
<1>7. ASSUME NEW x \in Resets, ReceiveReset(x)
      PROVE  TcpInv'
    <2>1. x \in Parties
        BY TcpAssumption
    <2> QED
        BY <1>7, <2>1, ReceiveResetSafe
<1>8. ASSUME NEW how \in Shutdowns, Shutdown(how[1], how[2], how[3], how[4])
      PROVE  TcpInv'
    <2>1. how \in Parties \X BOOLEAN \X BOOLEAN \X Nat
        BY TcpAssumption
    <2>2. how[1] \in Parties /\ how[2] \in BOOLEAN /\ how[3] \in BOOLEAN
        BY <2>1
    <2> QED
        BY <1>8, <2>2, ShutdownSafe
<1> QED
    BY <1>1, <1>2, <1>3, <1>4, <1>5, <1>6, <1>7, <1>8 DEF TcpNext

(* TcpInv holds in every reachable state of Tcp: no order of segments,     *)
(* pollers, timers and calls breaks a part of it.                          *)
THEOREM TcpInvariant == TcpSpec => []TcpInv
<1>1. TcpInit => TcpInv
    BY TcpInitInv
<1>2. TcpInv /\ [TcpNext]_tcp_vars => TcpInv'
    BY TcpStepSafe
<1> QED
    BY <1>1, <1>2, PTL DEF TcpSpec

(* The invariant implies the types.                                        *)
LEMMA TcpInvTypes ==
    ASSUME TcpInv
    PROVE  TcpTypeOK
<1>1. Listen /\ WorkTyped /\ RestTyped /\ Pollers
    BY Parts
<1>2. ASSUME NEW x \in Parties
      PROVE  /\ sk[x].state \in States /\ {sk[x].una, sk[x].nxt, sk[x].rcv} \subseteq Numbers
             /\ sk[x].retry \in 0 .. RETRY_LIMIT /\ sk[x].rd \in 0 .. Len(sk[x].rx)
             /\ calls[x].at \in Calls /\ calls[x].closing \in BOOLEAN /\ calls[x].ack \in Numbers
    <2>1. sk[x] \in SocketType /\ sk[x].rd <= Len(sk[x].rx)
        BY SockSound
    <2>2. calls[x] \in CallType
        BY <1>1 DEF RestTyped
    <2>3. /\ sk[x].state \in States /\ sk[x].una \in Numbers /\ sk[x].nxt \in Numbers /\ sk[x].rcv \in Numbers
          /\ sk[x].retry \in 0 .. RETRY_LIMIT /\ sk[x].rd \in Nat /\ Len(sk[x].rx) \in Nat
        <3>1. sk[x].state \in States /\ sk[x].retry \in 0 .. RETRY_LIMIT
            BY <2>1 DEF SocketType
        <3> QED
            BY <2>1, <3>1, SocketFields
    <2>4. sk[x].rd \in 0 .. Len(sk[x].rx)
        BY <2>1, <2>3
    <2> QED
        BY <2>2, <2>3, <2>4 DEF CallType
<1>3. lsn.count \in 0 .. BACKLOG /\ lsn.undo \in Nat
    <2>1. lsn.count \in Int /\ lsn.undo \in Nat /\ lsn.count <= BACKLOG /\ BACKLOG \in Nat
        BY <1>1, TcpAssumption DEF RestTyped, LsnType, Listen
    <2>2. lsn.count = (IF Slot(sk["srv"]) THEN 1 ELSE 0) + lsn.undo
        BY <1>1, BacklogSlot DEF Listen
    <2>3. lsn.count = 1 + lsn.undo \/ lsn.count = 0 + lsn.undo
        BY <2>2
    <2> QED
        BY <2>1, <2>3
<1>4. \A w \in work : w.kind \in PollKinds \cup {"record", "put"} /\ w.x \in Parties
    BY <1>1 DEF WorkTyped, RestType, RecordType, PutType, Parties
<1> QED
    BY <1>1, <1>2, <1>3, <1>4 DEF TcpTypeOK, RestTyped, Pollers

(* The numbers of a socket stay below SEQ_MOD, what a program has read is  *)
(* never more than was queued, retries and accept_count stay within their  *)
(* limits, and no more CPUs poll than there are, for any number of         *)
(* attempts to connect, of segments and of CPUs.                           *)
THEOREM TcpTypes == TcpSpec => []TcpTypeOK
<1>1. TcpInv => TcpTypeOK
    BY TcpInvTypes
<1> QED
    BY <1>1, TcpInvariant, PTL

(* accept_count is exact on every path of the handshake: the child that    *)
(* is answered, queued, accepted, rejected by a closing listener, given up *)
(* by its timer or never made holds or gives back exactly its own slot.    *)
THEOREM TcpBacklog == TcpSpec => []BacklogExact
<1>1. TcpInv => BacklogExact
    BY DEF TcpInv, Listen
<1> QED
    BY <1>1, TcpInvariant, PTL
=============================================================================
