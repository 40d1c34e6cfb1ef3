-------------------------------- MODULE Pipe --------------------------------
(***************************************************************************)
(* Pipes and socket pairs (kern/fs/file.c): pipe_read and pipe_write over  *)
(* a ring buffer, blocking on two event semaphores, called by file_read    *)
(* and file_write with the open-file description's operation_sem held.     *)
(*                                                                         *)
(* A description d reads from rd[d] and writes to wr[d]; a pipe has one    *)
(* description for each end, a socket pair two that do both.  A step is a  *)
(* critical section of pipe->lock or of a semaphore.  The semaphores are   *)
(* those of module Semaphore, reduced to what their callers can tell: a    *)
(* token, and who sleeps, was woken or was interrupted.                    *)
(***************************************************************************)
EXTENDS Integers, Sequences, FiniteSets

CONSTANTS
    Procs, Pipes, Descs, None,
    rd, wr,         (* Descs -> Pipes or None                              *)
    FS_PIPE_CAPACITY,
    Byte,
    Scenes          (* the workloads considered, one record each           *)

Sides == {"read", "write"}

(* uses[p]: descriptions p has inherited; bytes, lens, modes: contents,    *)
(* sizes and O_NONBLOCK of its calls; dup: bound on the descriptors of one *)
(* description; signalled: processes that get signals.                     *)
SceneOK(u) ==
    /\ u.uses \in [Procs -> SUBSET Descs]
    /\ u.bytes \subseteq Byte /\ u.lens \in [Sides -> SUBSET (Nat \ {0})] /\ u.modes \subseteq BOOLEAN
    /\ u.dup \in Nat \ {0} /\ u.signalled \subseteq Procs

(* A pipe has one description for each end: file_pipe makes one that reads *)
(* and one that writes, file_socketpair_create two that do both.           *)
Duplex(d) == rd[d] # None /\ wr[d] # None

EndsOK ==
    /\ \A d \in Descs : rd[d] # None \/ wr[d] # None
    /\ \A d, e \in Descs : rd[d] = rd[e] /\ rd[d] # None => d = e
    /\ \A d, e \in Descs : wr[d] = wr[e] /\ wr[d] # None => d = e
    /\ \A d, e \in Descs : rd[d] = wr[e] /\ rd[d] # None => (Duplex(d) <=> Duplex(e))

ASSUME PipeAssumption ==
    /\ None \notin Procs \cup Pipes \cup Descs
    /\ IsFiniteSet(Procs) /\ IsFiniteSet(Descs)
    /\ rd \in [Descs -> Pipes \cup {None}] /\ wr \in [Descs -> Pipes \cup {None}]
    /\ EndsOK
    /\ FS_PIPE_CAPACITY \in Nat \ {0}
    /\ \A u \in Scenes : SceneOK(u)

VARIABLES
    scene,          (* which of Scenes this is; never changes              *)
    buffer, head, tail, count, readers, writers,
    ref_count,      (* references to the pipe; it is freed at 0            *)
    token,          (* value of read_sem and write_sem, per pipe           *)
    holder,         (* process holding operation_sem, per description      *)
    descriptor_count,
    pc, call,       (* position and arguments of the call in progress      *)
    woke,           (* what has made the semaphore's waiter runnable       *)
    sig,            (* signal_should_interrupt                             *)
    base            (* what the last pipe_read copied to its caller        *)

ring == <<buffer, head, tail, count, base>>
ends == <<readers, writers, descriptor_count, ref_count>>
sems == <<token, woke>>
vars == <<scene, ring, ends, sems, holder, pc, call, sig>>

NoCall ==
    [op |-> "none", d |-> None, len |-> 0, data |-> <<>>, written |-> FALSE, nonblock |-> FALSE,
     todo |-> {}]

Arguments ==
    [op : Sides \cup {"none"}, d : Descs \cup {None}, len : Nat, data : Seq(Byte),
     written : BOOLEAN, nonblock : BOOLEAN, todo : SUBSET Sides]

(* op: at down(&operation_sem); loop: before pipe->lock; wake: data moved, *)
(* the other side not yet woken; down: before the semaphore; queued: on    *)
(* its queue, before __down's signal check; asleep: in __down's schedule();*)
(* ret: before up(&operation_sem); close: ends (todo) still to be closed;  *)
(* closewake: the last descriptor is gone, the other side not yet woken.   *)
PCs == {"user", "op", "loop", "wake", "down", "queued", "asleep", "ret", "close", "closewake"}

TypeOK ==
    /\ scene \in Scenes
    /\ buffer \in [Pipes -> [0 .. FS_PIPE_CAPACITY - 1 -> Byte]]
    /\ head \in [Pipes -> 0 .. FS_PIPE_CAPACITY - 1] /\ tail \in [Pipes -> 0 .. FS_PIPE_CAPACITY - 1]
    /\ count \in [Pipes -> 0 .. FS_PIPE_CAPACITY]
    /\ readers \in [Pipes -> Nat] /\ writers \in [Pipes -> Nat] /\ ref_count \in [Pipes -> Int]
    /\ token \in [Pipes -> [Sides -> {0, 1}]]
    /\ holder \in [Descs -> Procs \cup {None}]
    /\ descriptor_count \in [Descs -> 0 .. scene.dup]
    /\ pc \in [Procs -> PCs]
    /\ call \in [Procs -> Arguments]
    /\ woke \in [Procs -> {"no", "event", "signal"}]
    /\ sig \in [Procs -> BOOLEAN]
    /\ base \in Seq(Byte)

(* pipe_gets made at creation: file_pipe makes one for each description,   *)
(* file_socketpair_create one in all.  The creator's own reference is put  *)
(* before the descriptors are installed.                                   *)
PipeGets(x) ==
    IF \E d \in Descs : x \in {rd[d], wr[d]} /\ Duplex(d) THEN 1
    ELSE Cardinality({d \in Descs : x \in {rd[d], wr[d]}})

(* file_pipe or file_socketpair: one descriptor for each description.      *)
Init ==
    /\ scene \in Scenes
    /\ \E b \in scene.bytes : buffer = [x \in Pipes |-> [i \in 0 .. FS_PIPE_CAPACITY - 1 |-> b]]
    /\ head = [x \in Pipes |-> 0] /\ tail = head /\ count = head
    /\ descriptor_count = [d \in Descs |-> 1]
    /\ readers = [x \in Pipes |-> Cardinality({d \in Descs : rd[d] = x})]
    /\ writers = [x \in Pipes |-> Cardinality({d \in Descs : wr[d] = x})]
    /\ ref_count = [x \in Pipes |-> PipeGets(x)]
    /\ token = [x \in Pipes |-> [s \in Sides |-> 0]]
    /\ holder = [d \in Descs |-> None]
    /\ pc = [p \in Procs |-> "user"]
    /\ call = [p \in Procs |-> NoCall]
    /\ woke = [p \in Procs |-> "no"]
    /\ sig = [p \in Procs |-> FALSE]
    /\ base = <<>>
-----------------------------------------------------------------------------
Goto(p, c) == pc' = [pc EXCEPT ![p] = c]

(* The pipe of p's call, and the side whose semaphore p waits on.          *)
Target(p) == IF call[p].op = "read" THEN rd[call[p].d] ELSE wr[call[p].d]
Side(p) == call[p].op
Other(s) == IF s = "read" THEN "write" ELSE "read"

Lesser(a, b) == IF a < b THEN a ELSE b

(* The two memcpys into and out of the ring.                               *)
CopyIn(b, t, s) ==
    LET first == Lesser(FS_PIPE_CAPACITY - t, Len(s))
    IN  [i \in 0 .. FS_PIPE_CAPACITY - 1 |->
            IF i \in t .. t + first - 1 THEN s[i - t + 1]
            ELSE IF i < Len(s) - first THEN s[first + i + 1]
            ELSE b[i]]

Bug_NoWrap(b, h, n) ==
    [i \in 1 .. n |-> b[Lesser(h + i - 1, FS_PIPE_CAPACITY - 1)]]
CopyOut(b, h, n) ==
    LET first == Lesser(FS_PIPE_CAPACITY - h, n)
    IN  [i \in 1 .. n |-> IF i <= first THEN b[h + i - 1] ELSE b[i - first - 1]]

(* head and tail after n bytes.                                            *)
Advance(h, n) == (h + n) % FS_PIPE_CAPACITY

(* Processes on the queue of side s of pipe x that nothing has woken yet.  *)
Sleepers(x, s) ==
    {p \in Procs : /\ pc[p] \in {"queued", "asleep"} /\ woke[p] = "no"
                   /\ Target(p) = x /\ Side(p) = s}

Bug_NoToken(x, s) == token
(* sem_wake_event and sem_wake_all keep one token if nobody is there.      *)
TokenKept(x, s) == [token EXCEPT ![x][s] = 1]

(* sem_wake_event: one sleeper.                                            *)
sem_wake_event(x, s) ==
    IF Sleepers(x, s) = {}
    THEN token' = TokenKept(x, s) /\ UNCHANGED woke
    ELSE /\ \E p \in Sleepers(x, s) : woke' = [woke EXCEPT ![p] = "event"]
         /\ UNCHANGED token

Users(d) == {p \in Procs : call[p].d = d}

(* A call in progress holds a reference to its description, whose last     *)
(* open_file_put makes a pipe_put for each of its ends.                    *)
Ends(p) ==
    LET d == call[p].d
        last == descriptor_count[d] = 0 /\ Users(d) = {p}
    IN  /\ call' = [call EXCEPT ![p] = NoCall]
        /\ ref_count' = [x \in Pipes |->
                IF last /\ x \in {rd[d], wr[d]} THEN ref_count[x] - 1 ELSE ref_count[x]]

(* What the code does with a freed pipe is undefined: the model ends where *)
(* a description in use has lost one, as the ends of a socket pair do.     *)
HasItsPipes(d) ==
    descriptor_count[d] > 0 \/ Users(d) # {}
        => \A x \in {rd[d], wr[d]} \ {None} : ref_count[x] > 0

Defined == \A d \in Descs : HasItsPipes(d)
-----------------------------------------------------------------------------
(* file_read and file_write hold a reference to the description, then its  *)
(* operation_sem, for the whole call.                                      *)
ReadCall(p, d, n, nb) ==
    /\ pc[p] = "user" /\ d \in scene.uses[p] /\ descriptor_count[d] > 0 /\ rd[d] # None
    /\ call' = [call EXCEPT ![p] = [NoCall EXCEPT !.op = "read", !.d = d, !.len = n, !.nonblock = nb]]
    /\ Goto(p, "op")
    /\ UNCHANGED <<ring, ends, sems, holder, sig>>

WriteCall(p, d, s, nb) ==
    /\ pc[p] = "user" /\ d \in scene.uses[p] /\ descriptor_count[d] > 0 /\ wr[d] # None
    /\ call' = [call EXCEPT ![p] = [NoCall EXCEPT !.op = "write", !.d = d, !.data = s, !.nonblock = nb]]
    /\ Goto(p, "op")
    /\ UNCHANGED <<ring, ends, sems, holder, sig>>

OperationDown(p) ==
    /\ pc[p] = "op" /\ holder[call[p].d] = None
    /\ holder' = [holder EXCEPT ![call[p].d] = p]
    /\ Goto(p, "loop")
    /\ UNCHANGED <<ring, ends, sems, call, sig>>

OperationUp(p) ==
    /\ pc[p] = "ret"
    /\ holder' = [holder EXCEPT ![call[p].d] = None]
    /\ Goto(p, "user") /\ Ends(p)
    /\ UNCHANGED <<ring, readers, writers, descriptor_count, sems, sig>>
-----------------------------------------------------------------------------
(* pipe_read, one turn of its loop under pipe->lock.                       *)
ReadData(p) ==
    LET x == Target(p)
        n == Lesser(call[p].len, count[x])
    IN  /\ pc[p] = "loop" /\ call[p].op = "read"
        /\ count[x] # 0
        /\ base' = CopyOut(buffer[x], head[x], n)
        /\ head' = [head EXCEPT ![x] = Advance(@, n)]
        /\ count' = [count EXCEPT ![x] = @ - n]
        /\ Goto(p, "wake")
        /\ UNCHANGED <<buffer, tail, ends, sems, holder, call, sig>>

Eof(x) == writers[x] = 0

(* Empty: EOF, -E_BUSY, or wait.                                           *)
ReadEmpty(p) ==
    LET x == Target(p) IN
    /\ pc[p] = "loop" /\ call[p].op = "read"
    /\ count[x] = 0
    /\ Goto(p, IF Eof(x) \/ call[p].nonblock THEN "ret" ELSE "down")
    /\ UNCHANGED <<ring, ends, sems, holder, call, sig>>

(* pipe_write, one turn of its loop under pipe->lock.  Without readers it  *)
(* returns what was written, or -E_PIPE after queueing SIGPIPE.            *)
WriteBroken(p) ==
    /\ pc[p] = "loop" /\ call[p].op = "write"
    /\ readers[Target(p)] = 0
    /\ sig' = [sig EXCEPT ![p] = @ \/ ~call[p].written]
    /\ Goto(p, "ret")
    /\ UNCHANGED <<ring, ends, sems, holder, call>>

WriteData(p) ==
    LET x == Target(p)
        n == Lesser(Len(call[p].data), FS_PIPE_CAPACITY - count[x])
    IN  /\ pc[p] = "loop" /\ call[p].op = "write"
        /\ readers[x] # 0 /\ count[x] < FS_PIPE_CAPACITY
        /\ buffer' = [buffer EXCEPT ![x] = CopyIn(@, tail[x], SubSeq(call[p].data, 1, n))]
        /\ tail' = [tail EXCEPT ![x] = Advance(@, n)]
        /\ count' = [count EXCEPT ![x] = @ + n]
        /\ call' = [call EXCEPT ![p].data = SubSeq(@, n + 1, Len(@)), ![p].written = TRUE]
        /\ Goto(p, "wake")
        /\ UNCHANGED <<head, base, ends, sems, holder, sig>>

WriteFull(p) ==
    LET x == Target(p) IN
    /\ pc[p] = "loop" /\ call[p].op = "write"
    /\ readers[x] # 0 /\ count[x] = FS_PIPE_CAPACITY
    /\ Goto(p, IF call[p].nonblock THEN "ret" ELSE "down")
    /\ UNCHANGED <<ring, ends, sems, holder, call, sig>>

(* pipe_wake_writers or pipe_wake_readers after the unlock; a read is then *)
(* done, a write goes on until its data is gone.                           *)
WakeOther(p) ==
    /\ pc[p] = "wake"
    /\ sem_wake_event(Target(p), Other(Side(p)))
    /\ Goto(p, IF Side(p) = "read" \/ call[p].data = <<>> THEN "ret" ELSE "loop")
    /\ UNCHANGED <<ring, ends, holder, call, sig>>
-----------------------------------------------------------------------------
(* down_interruptible(&pipe->read_sem) or (&pipe->write_sem).              *)
Down(p) ==
    LET x == Target(p) IN
    /\ pc[p] = "down"
    /\ IF token[x][Side(p)] > 0
       THEN token' = [token EXCEPT ![x][Side(p)] = 0] /\ Goto(p, "loop")
       ELSE Goto(p, "queued") /\ UNCHANGED token
    /\ UNCHANGED <<ring, ends, woke, holder, call, sig>>

(* __down's signal check before schedule(): it does not look at whether an *)
(* event has been handed over already.                                     *)
DownCheck(p) ==
    /\ pc[p] = "queued"
    /\ IF sig[p]
       THEN Goto(p, "ret") /\ woke' = [woke EXCEPT ![p] = "no"]
       ELSE Goto(p, "asleep") /\ UNCHANGED woke
    /\ UNCHANGED <<ring, ends, token, holder, call, sig>>

DownReturns(p) ==
    /\ pc[p] = "asleep" /\ woke[p] # "no"
    /\ Goto(p, IF woke[p] = "event" THEN "loop" ELSE "ret")
    /\ woke' = [woke EXCEPT ![p] = "no"]
    /\ UNCHANGED <<ring, ends, token, holder, call, sig>>

Kill(p) ==
    /\ p \in scene.signalled /\ ~sig[p]
    /\ sig' = [sig EXCEPT ![p] = TRUE]
    /\ woke' = [woke EXCEPT ![p] = IF pc[p] \in {"queued", "asleep"} /\ @ = "no" THEN "signal" ELSE @]
    /\ UNCHANGED <<ring, ends, token, holder, pc, call>>

SignalHandled(p) ==
    /\ pc[p] = "user" /\ sig[p]
    /\ sig' = [sig EXCEPT ![p] = FALSE]
    /\ UNCHANGED <<ring, ends, sems, holder, pc, call>>
-----------------------------------------------------------------------------
(* open_file_get_descriptor: dup and fork count the ends once more.        *)
Bug_DupKeepsReaders(d) == readers
ReadersAfterDup(d) == [x \in Pipes |-> IF x = rd[d] THEN readers[x] + 1 ELSE readers[x]]
WritersAfterDup(d) == [x \in Pipes |-> IF x = wr[d] THEN writers[x] + 1 ELSE writers[x]]

Dup(p, d) ==
    /\ pc[p] = "user" /\ d \in scene.uses[p]
    /\ descriptor_count[d] \in 1 .. scene.dup - 1
    /\ descriptor_count' = [descriptor_count EXCEPT ![d] = @ + 1]
    /\ readers' = ReadersAfterDup(d) /\ writers' = WritersAfterDup(d)
    /\ UNCHANGED <<ring, ref_count, sems, holder, pc, call, sig>>

(* open_file_drop_descriptor, then pipe_endpoint_close for each end: the   *)
(* counter under pipe->lock and, if it was the last, sem_wake_all.  The    *)
(* read end of a socket pair goes first.                                   *)
Close(p, d) ==
    /\ pc[p] = "user" /\ d \in scene.uses[p] /\ descriptor_count[d] > 0
    /\ descriptor_count' = [descriptor_count EXCEPT ![d] = @ - 1]
    /\ call' = [call EXCEPT ![p] = [NoCall EXCEPT !.d = d,
                    !.todo = {s \in Sides : (IF s = "read" THEN rd[d] ELSE wr[d]) # None}]]
    /\ Goto(p, "close")
    /\ UNCHANGED <<ring, readers, writers, ref_count, sems, holder, sig>>

ClosingSide(p) == IF "read" \in call[p].todo THEN "read" ELSE "write"
ClosingPipe(p) == IF ClosingSide(p) = "read" THEN rd[call[p].d] ELSE wr[call[p].d]

CloseNext(p) ==
    LET left == call[p].todo \ {ClosingSide(p)} IN
    \/ left = {} /\ Goto(p, "user") /\ Ends(p)
    \/ /\ left # {} /\ Goto(p, "close")
       /\ call' = [call EXCEPT ![p].todo = left]
       /\ UNCHANGED ref_count

IsLast(x, n) == n[x] = 1

CloseEnd(p) ==
    LET x == ClosingPipe(p)
        n == IF ClosingSide(p) = "read" THEN readers ELSE writers
        less == [n EXCEPT ![x] = @ - 1]
    IN  /\ pc[p] = "close"
        /\ IF ClosingSide(p) = "read"
           THEN readers' = less /\ UNCHANGED writers
           ELSE writers' = less /\ UNCHANGED readers
        /\ IF IsLast(x, n) THEN Goto(p, "closewake") /\ UNCHANGED <<call, ref_count>> ELSE CloseNext(p)
        /\ UNCHANGED <<ring, descriptor_count, sems, holder, sig>>

CloseWake(p) ==
    LET x == ClosingPipe(p)
        s == Other(ClosingSide(p))
    IN  /\ pc[p] = "closewake"
        /\ woke' = [q \in Procs |-> IF q \in Sleepers(x, s) THEN "event" ELSE woke[q]]
        /\ token' = IF Sleepers(x, s) = {} THEN TokenKept(x, s) ELSE token
        /\ CloseNext(p)
        /\ UNCHANGED <<ring, readers, writers, descriptor_count, holder, sig>>
-----------------------------------------------------------------------------
Step(p) ==
    \/ OperationUp(p) \/ ReadData(p) \/ ReadEmpty(p)
    \/ WriteBroken(p) \/ WriteData(p) \/ WriteFull(p) \/ WakeOther(p)
    \/ Down(p) \/ DownCheck(p) \/ DownReturns(p)
    \/ CloseEnd(p) \/ CloseWake(p)

Next ==
    /\ Defined
    /\ \E p \in Procs :
        \/ Step(p) \/ OperationDown(p) \/ Kill(p) \/ SignalHandled(p)
        \/ \E d \in Descs :
            \/ Dup(p, d) \/ Close(p, d)
            \/ \E nb \in scene.modes :
                \/ \E n \in scene.lens["read"] : ReadCall(p, d, n, nb)
                \/ \E n \in scene.lens["write"] : \E s \in [1 .. n -> scene.bytes] : WriteCall(p, d, s, nb)
    /\ UNCHANGED scene

Spec == Init /\ [][Next]_vars
-----------------------------------------------------------------------------
(* The bytes in the ring, oldest first.                                    *)
Contents(x) == [i \in 1 .. count[x] |-> buffer[x][(head[x] + i - 1) % FS_PIPE_CAPACITY]]

Stream == INSTANCE ByteStream WITH
    Capacity <- FS_PIPE_CAPACITY, stream <- [x \in Pipes |-> Contents(x)], delivered <- base

(* pipe_read and pipe_write implement a byte stream: across wrap-around,   *)
(* partial writes, interrupted calls and closes no byte is lost,           *)
(* duplicated or reordered.                                                *)
ImplementsStream == Stream!Spec

(* pipe_wake_readers: "Keep one event token if a writer races the reader   *)
(* between its empty-buffer check and semaphore wait setup": a process is  *)
(* never left asleep although its condition holds (data or EOF for a       *)
(* reader, room or a broken pipe for a writer), unless its waker is about  *)
(* to act.                                                                 *)
MayProceed(p) ==
    LET x == Target(p) IN
    IF call[p].op = "read" THEN count[x] > 0 \/ writers[x] = 0
    ELSE count[x] < FS_PIPE_CAPACITY \/ readers[x] = 0

NoLostWakeup ==
    \A p \in Procs :
        pc[p] \in {"queued", "asleep"} /\ woke[p] = "no" /\ MayProceed(p)
            => \E q \in Procs :
                \/ pc[q] = "wake" /\ Target(q) = Target(p) /\ Side(q) # Side(p)
                \/ pc[q] = "closewake" /\ ClosingPipe(q) = Target(p) /\ ClosingSide(q) # Side(p)

(* struct pipe: "Descriptor duplication changes the endpoint counters": a  *)
(* pipe's readers and writers are the open descriptors for its ends, so    *)
(* EOF and -E_PIPE are reported when, and only when, the last one is gone; *)
(* and what file_pipe has made is not freed while a descriptor or a call   *)
(* in progress can reach it.  For socket pairs this is PipesOutliveEnds.   *)
Closing(d, s) == Cardinality({p \in Procs : pc[p] = "close" /\ call[p].d = d /\ s \in call[p].todo})

EndsCounted ==
    \A d \in Descs :
        /\ ~Duplex(d) => HasItsPipes(d)
        /\ rd[d] # None => readers[rd[d]] = descriptor_count[d] + Closing(d, "read")
        /\ wr[d] # None => writers[wr[d]] = descriptor_count[d] + Closing(d, "write")
                                        + Cardinality({p \in Procs : pc[p] = "closewake" /\ call[p].d = d
                                                                /\ call[p].todo = Sides})

(* file_socketpair_create: "One reference for each endpoint": the pipes of *)
(* an end that has a descriptor, or a call in progress, are still there,   *)
(* whatever becomes of the other end.                                      *)
PipesOutliveEnds == \A d \in Descs : HasItsPipes(d)
=============================================================================
