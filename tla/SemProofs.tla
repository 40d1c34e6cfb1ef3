----------------------------- MODULE SemProofs -----------------------------
(***************************************************************************)
(* Proofs about Semaphore, for any finite set of processes and any uses.   *)
(***************************************************************************)
EXTENDS Semaphore, ListLemmas, FiniteSetTheorems

(* A linked node belongs to a waiting frame, once, and no waker has        *)
(* written its flags.                                                      *)
QueueInv ==
    /\ Distinct(queue)
    /\ \A q \in Procs : On(queue, q) => pc[q] \in WaitPcs /\ flags[q] = "INT"

(* A waker between its steps has a node, and runs an entry point of its.   *)
WakerInv ==
    \A u \in Procs :
        /\ pc[u] \in {"flag", "wake", "enq"} => popped[u] \in Procs
        /\ pc[u] \in WakePcs => op[u] \in use.ops[u] \cap {"up", "event", "all"}
        /\ pc[u] = "again" => op[u] = "all"

(* A waiting process runs one of the downs, and its wait state and its     *)
(* node's flags are that down's or say it has been woken.                  *)
WaiterInv ==
    \A p \in Procs : pc[p] \in WaitPcs =>
        /\ op[p] \in use.ops[p] \cap {"down", "down_interruptible"}
        /\ wait_state[p] \in {"0", Mode(op[p])}
        /\ flags[p] \in {"INT", "0", Mode(op[p])}
        /\ pc[p] = "early" => op[p] = "down_interruptible"

(* A frame a waker points into waits and is not linked any more; before    *)
(* the waker sets the flags nobody else has; one waker holds the lock; the *)
(* frame can only have returned underneath it from an interruptible wait.  *)
FrameInv ==
    /\ \A u \in Procs : alive[u] =>
          /\ popped[u] \in Procs
          /\ pc[popped[u]] \in WaitPcs
          /\ ~ On(queue, popped[u])
          /\ pc[u] = "flag" => flags[popped[u]] = "INT"
    /\ \A u, v \in Procs : pc[u] = "flag" /\ pc[v] = "flag" => u = v
    /\ \A u \in Procs : Running /\ pc[u] = "flag" /\ ~ alive[u] =>
          \E p \in Procs : "down_interruptible" \in use.ops[p]

SemInv == TypeOK /\ NoSleeperWithToken /\ QueueInv /\ WakerInv /\ WaiterInv /\ FrameInv
-----------------------------------------------------------------------------
(* What the use record holds.                                              *)
LEMMA UseFacts ==
    ASSUME TypeOK
    PROVE  use.v0 \in Nat /\ use.ops \in [Procs -> SUBSET EntryPoints]
BY SemAssumption DEF TypeOK, UseType

(* wait_current_del: the node is not linked afterwards, the others are as  *)
(* they were.                                                              *)
LEMMA UnlinkedFacts ==
    ASSUME queue \in Seq(Procs), Distinct(queue), NEW p \in Procs
    PROVE  /\ Unlinked(p) \in Seq(Procs) /\ Distinct(Unlinked(p))
           /\ \A q : On(Unlinked(p), q) <=> On(queue, q) /\ q # p
           /\ queue = <<>> => Unlinked(p) = <<>>
<1>1. CASE InQueue(p)
    <2>1. Position(p) \in 1 .. Len(queue) /\ queue[Position(p)] = p
        BY <1>1 DEF InQueue, Position
    <2>2. Unlinked(p) = RemoveAt(queue, Position(p))
        BY <1>1 DEF Unlinked
    <2>3. Unlinked(p) \in Seq(Procs)
        BY <2>1, <2>2, RemoveAtProps
    <2>4. Distinct(Unlinked(p)) /\ \A q : On(Unlinked(p), q) <=> On(queue, q) /\ q # p
        BY <2>1, <2>2, RemoveAtOn
    <2>5. queue # <<>>
        BY <2>1, EmptySeq
    <2> QED
        BY <2>3, <2>4, <2>5
<1>2. CASE ~ InQueue(p)
    <2>1. Unlinked(p) = queue
        BY <1>2 DEF Unlinked
    <2>2. ~ On(queue, p)
        BY <1>2 DEF InQueue, On
    <2> QED
        BY <2>1, <2>2
<1> QED
    BY <1>1, <1>2

(* The states the program starts in satisfy the invariant.                 *)
LEMMA SemInit == Init => SemInv
<1> SUFFICES ASSUME Init PROVE SemInv
    OBVIOUS
<1>1. TypeOK
    BY SemAssumption, EmptySeq DEF Init, TypeOK, UseType, WaitStates, PCs, EntryPoints
<1>2. NoSleeperWithToken
    BY DEF Init, NoSleeperWithToken
<1>3. QueueInv
    <2>1. Len(queue) = 0
        BY EmptySeq DEF Init
    <2> QED
        BY <2>1 DEF QueueInv, Distinct, On
<1>4. WakerInv /\ WaiterInv /\ FrameInv
    BY DEF Init, WakerInv, WaiterInv, FrameInv, WakePcs, WaitPcs
<1> QED
    BY <1>1, <1>2, <1>3, <1>4 DEF SemInv

(* The steps of a down that leave the wait queue alone.                    *)
LEMMA DownSteps ==
    ASSUME SemInv, NEW p \in Procs, NEW o \in EntryPoints, use' = use,
           \/ DownFast(p, o) \/ DownEarly(p) \/ DownNoSignal(p)
           \/ CallSchedule(p) \/ SwitchComplete(p) \/ Dispatch(p)
    PROVE  SemInv'
<1> USE DEF SemInv
<1>0. queue' = queue
    BY DEF DownFast, DownEarly, DownNoSignal, CallSchedule, SwitchComplete, Dispatch
<1>1. CASE DownFast(p, o)
    <2>1. TypeOK'
        BY <1>1, UseFacts DEF DownFast, TypeOK, HasToken, Held, procVars, wakerVars
    <2>2. NoSleeperWithToken'
        BY <1>1 DEF DownFast, TypeOK, NoSleeperWithToken, HasToken
    <2>3. QueueInv' /\ WakerInv' /\ WaiterInv' /\ FrameInv'
        BY <1>1 DEF DownFast, procVars, wakerVars, QueueInv, WakerInv, WaiterInv, FrameInv, Running, Mode
    <2> QED
        BY <2>1, <2>2, <2>3
<1>2. CASE DownEarly(p)
    <2>1. TypeOK'
        BY <1>2 DEF DownEarly, TypeOK, WaitStates, PCs, WaitPcs, procVars, wakerVars
    <2>2. NoSleeperWithToken'
        BY <1>2 DEF DownEarly, NoSleeperWithToken
    <2>3. QueueInv'
        BY <1>2 DEF DownEarly, QueueInv, TypeOK, WaitPcs, procVars, wakerVars
    <2>4. WakerInv'
        BY <1>2 DEF DownEarly, WakerInv, TypeOK, WakePcs, WaitPcs, procVars, wakerVars
    <2>5. WaiterInv'
        BY <1>2 DEF DownEarly, WaiterInv, TypeOK, WaitPcs, WaitStates, Mode, procVars, wakerVars, Interrupts
    <2>6. FrameInv'
        BY <1>2 DEF DownEarly, FrameInv, TypeOK, WaitPcs, Running, procVars, wakerVars
    <2> QED
        BY <2>1, <2>2, <2>3, <2>4, <2>5, <2>6
<1>3. CASE DownNoSignal(p)
    <2>1. TypeOK'
        BY <1>3 DEF DownNoSignal, TypeOK, WaitStates, PCs, WaitPcs, procVars, wakerVars
    <2>2. NoSleeperWithToken'
        BY <1>3 DEF DownNoSignal, NoSleeperWithToken
    <2>3. QueueInv'
        BY <1>3 DEF DownNoSignal, QueueInv, TypeOK, WaitPcs, procVars, wakerVars
    <2>4. WakerInv'
        BY <1>3 DEF DownNoSignal, WakerInv, TypeOK, WakePcs, WaitPcs, procVars, wakerVars
    <2>5. WaiterInv'
        BY <1>3 DEF DownNoSignal, WaiterInv, TypeOK, WaitPcs, WaitStates, Mode, procVars, wakerVars, Interrupts
    <2>6. FrameInv'
        BY <1>3 DEF DownNoSignal, FrameInv, TypeOK, WaitPcs, Running, procVars, wakerVars
    <2> QED
        BY <2>1, <2>2, <2>3, <2>4, <2>5, <2>6
<1>4. CASE CallSchedule(p)
    <2>1. TypeOK'
        BY <1>4 DEF CallSchedule, TypeOK, WaitStates, PCs, WaitPcs, procVars, wakerVars
    <2>2. NoSleeperWithToken'
        BY <1>4 DEF CallSchedule, NoSleeperWithToken
    <2>3. QueueInv'
        BY <1>4 DEF CallSchedule, QueueInv, TypeOK, WaitPcs, procVars, wakerVars
    <2>4. WakerInv'
        BY <1>4 DEF CallSchedule, WakerInv, TypeOK, WakePcs, WaitPcs, procVars, wakerVars
    <2>5. WaiterInv'
        BY <1>4 DEF CallSchedule, WaiterInv, TypeOK, WaitPcs, WaitStates, Mode, procVars, wakerVars
    <2>6. FrameInv'
        <3>1. /\ pc' \in {[pc EXCEPT ![p] = "asleep"], [pc EXCEPT ![p] = "del"]}
              /\ pc[p] = "sched" /\ UNCHANGED <<alive, popped, queue, flags>>
            BY <1>4 DEF CallSchedule, wakerVars
        <3>2. \A u \in Procs : pc'[u] = "flag" <=> pc[u] = "flag"
            BY <3>1 DEF TypeOK
        <3>3. \A u \in Procs : pc[u] \in WaitPcs => pc'[u] \in WaitPcs
            BY <3>1 DEF TypeOK, WaitPcs
        <3>4. Running
            BY <1>4 DEF CallSchedule
        <3> QED
            BY <3>1, <3>2, <3>3, <3>4 DEF FrameInv, TypeOK
    <2> QED
        BY <2>1, <2>2, <2>3, <2>4, <2>5, <2>6
<1>5. CASE SwitchComplete(p)
    <2>1. TypeOK'
        BY <1>5 DEF SwitchComplete, TypeOK, WaitStates, PCs, WaitPcs, procVars, wakerVars
    <2>2. NoSleeperWithToken'
        BY <1>5 DEF SwitchComplete, NoSleeperWithToken
    <2>3. QueueInv'
        BY <1>5 DEF SwitchComplete, QueueInv, TypeOK, WaitPcs, procVars, wakerVars
    <2>4. WakerInv'
        BY <1>5 DEF SwitchComplete, WakerInv, TypeOK, WakePcs, WaitPcs, procVars, wakerVars
    <2>5. WaiterInv'
        BY <1>5 DEF SwitchComplete, WaiterInv, TypeOK, WaitPcs, WaitStates, Mode, procVars, wakerVars
    <2>6. FrameInv'
        BY <1>5 DEF SwitchComplete, FrameInv, TypeOK, WaitPcs, Running, procVars, wakerVars
    <2> QED
        BY <2>1, <2>2, <2>3, <2>4, <2>5, <2>6
<1>6. CASE Dispatch(p)
    <2>1. TypeOK'
        BY <1>6 DEF Dispatch, TypeOK, WaitStates, PCs, WaitPcs, procVars, wakerVars
    <2>2. NoSleeperWithToken'
        BY <1>6 DEF Dispatch, NoSleeperWithToken
    <2>3. QueueInv'
        BY <1>6 DEF Dispatch, QueueInv, TypeOK, WaitPcs, procVars, wakerVars
    <2>4. WakerInv'
        BY <1>6 DEF Dispatch, WakerInv, TypeOK, WakePcs, WaitPcs, procVars, wakerVars
    <2>5. WaiterInv'
        BY <1>6 DEF Dispatch, WaiterInv, TypeOK, WaitPcs, WaitStates, Mode, procVars, wakerVars
    <2>6. FrameInv'
        BY <1>6 DEF Dispatch, FrameInv, TypeOK, WaitPcs, Running, procVars, wakerVars
    <2> QED
        BY <2>1, <2>2, <2>3, <2>4, <2>5, <2>6
<1> QED
    BY <1>1, <1>2, <1>3, <1>4, <1>5, <1>6

(* __down links its node and publishes the wait state.                     *)
LEMMA DownWaitStep ==
    ASSUME SemInv, NEW p \in Procs, NEW o \in EntryPoints, use' = use, DownWait(p, o)
    PROVE  SemInv'
<1> USE DEF SemInv
<1>1. /\ pc[p] = "ready" /\ o \in use.ops[p] \cap {"down", "down_interruptible"}
      /\ value = 0 /\ value' = value /\ Running
      /\ UNCHANGED <<where, sig, late, popped, alive, woke, held>>
      /\ queue' = Append(queue, p)
      /\ pc' = [pc EXCEPT ![p] = "queued"]
      /\ flags' = [flags EXCEPT ![p] = "INT"]
      /\ op' = [op EXCEPT ![p] = o]
      /\ wait_state' = [wait_state EXCEPT ![p] = Mode(o)]
      /\ state' = [state EXCEPT ![p] = "SLEEPING"]
    BY DEF DownWait, Starts, MustWait, wait_init, wakerVars
<1>2. ~ On(queue, p)
    BY <1>1 DEF QueueInv, WaitPcs
<1>3. /\ queue' \in Seq(Procs) /\ Distinct(queue')
      /\ \A q : On(queue', q) <=> On(queue, q) \/ q = p
    BY <1>1, <1>2, AppendOn DEF QueueInv, TypeOK
<1>4. TypeOK'
    BY <1>1, <1>3 DEF TypeOK, WaitStates, PCs, WaitPcs, Mode
<1>5. NoSleeperWithToken'
    BY <1>1 DEF NoSleeperWithToken
<1>6. QueueInv'
    BY <1>1, <1>3 DEF QueueInv, TypeOK, WaitPcs
<1>7. WakerInv'
    BY <1>1 DEF WakerInv, TypeOK, WakePcs
<1>8. WaiterInv'
    BY <1>1 DEF WaiterInv, TypeOK, WaitPcs, Mode
<1>9. FrameInv'
    BY <1>1, <1>3 DEF FrameInv, TypeOK, WaitPcs
<1> QED
    BY <1>4, <1>5, <1>6, <1>7, <1>8, <1>9

(* __down returns: the node leaves the queue and the frame is gone.        *)
LEMMA ReturnSteps ==
    ASSUME SemInv, NEW p \in Procs, use' = use, DownReturn(p) \/ DownEarlyReturn(p)
    PROVE  SemInv'
<1> USE DEF SemInv
<1>1. /\ pc[p] \in {"del", "early"} /\ value' = value /\ Running
      /\ UNCHANGED <<state, wait_state, where, sig, late, flags, op, popped, woke>>
      /\ queue' = Unlinked(p)
      /\ alive' = FrameGone(p)
    BY DEF DownReturn, DownEarlyReturn, procVars
<1>2. \/ pc' = [pc EXCEPT ![p] = "ready"] /\ op[p] = "down_interruptible"
      \/ pc' = [pc EXCEPT ![p] = "ready"] /\ op[p] = "down" /\ flags[p] # "INT"
      \/ pc' = [pc EXCEPT ![p] = "panic"]
    <2>1. op[p] \in {"down", "down_interruptible"}
        BY <1>1 DEF WaiterInv, WaitPcs
    <2>2. CASE DownReturn(p)
        <3>1. pc' = [pc EXCEPT ![p] =
                IF op[p] = "down" /\ DownResult(p) # "0" THEN "panic" ELSE "ready"]
            BY <2>2 DEF DownReturn
        <3>2. CASE op[p] = "down" /\ DownResult(p) # "0"
            BY <3>1, <3>2
        <3>3. CASE ~ (op[p] = "down" /\ DownResult(p) # "0")
            <4>1. op[p] = "down" => flags[p] # "INT"
                BY <3>3 DEF DownResult, Mode
            <4> QED
                BY <2>1, <3>1, <3>3, <4>1
        <3> QED
            BY <3>2, <3>3
    <2>3. CASE DownEarlyReturn(p)
        BY <2>3 DEF DownEarlyReturn, WaiterInv, WaitPcs
    <2> QED
        BY <2>2, <2>3
<1>3. /\ queue' \in Seq(Procs) /\ Distinct(queue')
      /\ \A q : On(queue', q) <=> On(queue, q) /\ q # p
      /\ queue = <<>> => queue' = <<>>
    BY <1>1, UnlinkedFacts DEF QueueInv, TypeOK
<1>4. TypeOK'
    <2>1. held' \in [Procs -> Int]
        BY DEF DownReturn, DownEarlyReturn, Held, TypeOK
    <2>2. alive' \in [Procs -> BOOLEAN]
        BY <1>1 DEF FrameGone, TypeOK
    <2>3. pc' \in [Procs -> PCs]
        BY <1>2 DEF PCs, TypeOK
    <2> QED
        BY <1>1, <1>3, <2>1, <2>2, <2>3 DEF TypeOK
<1>5. NoSleeperWithToken'
    BY <1>1, <1>3 DEF NoSleeperWithToken
<1>6. QueueInv'
    BY <1>1, <1>2, <1>3 DEF QueueInv, TypeOK, WaitPcs
<1>7. WakerInv'
    BY <1>1, <1>2 DEF WakerInv, TypeOK, WakePcs
<1>8. WaiterInv'
    BY <1>1, <1>2 DEF WaiterInv, TypeOK, WaitPcs
<1>9. FrameInv'
    <2>0. \A q \in Procs : q # p => pc'[q] = pc[q]
        BY <1>2 DEF TypeOK
    <2>1. \A u \in Procs : pc'[u] = "flag" <=> pc[u] = "flag"
        BY <1>1, <1>2 DEF TypeOK
    <2>2. \A u \in Procs : alive'[u] <=> alive[u] /\ popped[u] # p
        BY <1>1 DEF FrameGone
    <2>3. ASSUME NEW u \in Procs, alive'[u]
          PROVE  /\ popped'[u] \in Procs /\ pc'[popped'[u]] \in WaitPcs
                 /\ ~ On(queue', popped'[u])
                 /\ pc'[u] = "flag" => flags'[popped'[u]] = "INT"
        <3>1. alive[u] /\ popped[u] # p /\ popped[u] \in Procs
            BY <2>2, <2>3 DEF FrameInv
        <3>2. pc'[popped[u]] = pc[popped[u]]
            BY <2>0, <3>1
        <3> QED
            BY <1>1, <1>3, <2>1, <3>1, <3>2 DEF FrameInv
    <2>4. ASSUME NEW u \in Procs, Running', pc'[u] = "flag", ~ alive'[u]
          PROVE  \E r \in Procs : "down_interruptible" \in use'.ops[r]
        <3>1. pc[u] = "flag"
            BY <2>1, <2>4
        <3>2. CASE ~ alive[u]
            BY <1>1, <3>1, <3>2 DEF FrameInv
        <3>3. CASE alive[u]
            <4>1. popped[u] = p /\ flags[p] = "INT"
                BY <2>2, <2>4, <3>1, <3>3 DEF FrameInv
            <4>2. pc'[p] # "panic"
                BY <2>4 DEF Running
            <4>3. op[p] = "down_interruptible"
                BY <1>2, <4>1, <4>2 DEF TypeOK
            <4> QED
                BY <1>1, <4>3 DEF WaiterInv, WaitPcs
        <3> QED
            BY <3>2, <3>3
    <2>5. \A u, v \in Procs : pc'[u] = "flag" /\ pc'[v] = "flag" => u = v
        BY <2>1 DEF FrameInv
    <2> QED
        BY <2>3, <2>4, <2>5 DEF FrameInv
<1> QED
    BY <1>4, <1>5, <1>6, <1>7, <1>8, <1>9

(* The critical section of a waker, whichever of the three it is: it finds *)
(* no valid waiter and may deposit a token, or it takes one node.          *)
LEMMA PopSteps ==
    ASSUME SemInv, NEW u \in Procs, NEW o \in {"up", "event", "all"}, NEW again \in BOOLEAN,
           use' = use, o \in use.ops[u], pc[u] \in {"ready", "again"}, Running, LockFree,
           op' = [op EXCEPT ![u] = o], held' \in [Procs -> Int],
           UNCHANGED <<flags, state, wait_state, where, sig, late>>,
           PopNode(u, o, again)
    PROVE  SemInv'
<1> USE DEF SemInv
<1>1. CASE /\ queue' = <<>> /\ value' = Deposit(o, again)
           /\ pc' = [pc EXCEPT ![u] = "ready"]
           /\ UNCHANGED <<popped, alive, woke>>
    <2>1. queue' \in Seq(Procs) /\ Distinct(queue') /\ \A q : ~ On(queue', q)
        <3>1. Len(queue') = 0 /\ queue' \in Seq(Procs)
            BY <1>1, EmptySeq
        <3> QED
            BY <3>1 DEF Distinct, On
    <2>2. value' \in Nat
        BY <1>1 DEF Deposit, TypeOK
    <2>3. TypeOK'
        BY <1>1, <2>1, <2>2 DEF TypeOK, PCs, EntryPoints
    <2>4. NoSleeperWithToken' /\ QueueInv'
        BY <1>1, <2>1 DEF NoSleeperWithToken, QueueInv
    <2>5. WakerInv' /\ WaiterInv'
        BY <1>1 DEF WakerInv, WaiterInv, TypeOK, WakePcs, WaitPcs
    <2>6. FrameInv'
        BY <1>1, <2>1 DEF FrameInv, TypeOK, WaitPcs, LockFree
    <2> QED
        BY <2>3, <2>4, <2>5, <2>6
<1>2. ASSUME NEW i \in DOMAIN queue,
             queue' = SubSeq(queue, i + 1, Len(queue)), value' = value,
             popped' = [popped EXCEPT ![u] = queue[i]],
             alive' = [alive EXCEPT ![u] = TRUE],
             woke' = [woke EXCEPT ![u] = again],
             pc' = [pc EXCEPT ![u] = "flag"]
      PROVE  SemInv'
    <2>1. i \in 1 .. Len(queue) /\ queue[i] \in Procs /\ On(queue, queue[i])
        BY LenProperties, ElementOfSeq DEF TypeOK, On
    <2>2. /\ queue' \in Seq(Procs) /\ Distinct(queue')
          /\ \A q : On(queue', q) => On(queue, q) /\ q # queue[i]
        BY <1>2, <2>1, SuffixOn DEF QueueInv, TypeOK
    <2>3. queue # <<>> /\ ~ (value > 0)
        BY <2>1, EmptySeq DEF NoSleeperWithToken
    <2>4. pc[queue[i]] \in WaitPcs /\ flags[queue[i]] = "INT" /\ queue[i] # u
        BY <2>1 DEF QueueInv, WaitPcs
    <2>5. TypeOK'
        BY <1>2, <2>1, <2>2 DEF TypeOK, PCs, WakePcs, EntryPoints
    <2>6. NoSleeperWithToken'
        BY <1>2, <2>3 DEF NoSleeperWithToken
    <2>7. QueueInv'
        BY <1>2, <2>2 DEF QueueInv, TypeOK, WaitPcs
    <2>8. WakerInv' /\ WaiterInv'
        BY <1>2, <2>1 DEF WakerInv, WaiterInv, TypeOK, WakePcs, WaitPcs
    <2>9. FrameInv'
        BY <1>2, <2>1, <2>2, <2>4, ZenonT(60) DEF FrameInv, TypeOK, WaitPcs, LockFree
    <2> QED
        BY <2>5, <2>6, <2>7, <2>8, <2>9
<1> QED
    BY <1>1, <1>2 DEF PopNode

(* The wakers' critical sections are PopSteps.                             *)
LEMMA WakeSteps ==
    ASSUME SemInv, NEW u \in Procs, NEW o \in EntryPoints, use' = use,
           Wake(u, o) \/ WakeAllAgain(u)
    PROVE  SemInv'
<1>1. CASE Wake(u, o)
    <2>1. /\ o \in {"up", "event", "all"} /\ o \in use.ops[u] /\ pc[u] \in {"ready", "again"}
          /\ Running /\ LockFree /\ op' = [op EXCEPT ![u] = o] /\ PopNode(u, o, FALSE)
          /\ UNCHANGED <<flags, state, wait_state, where, sig, late>>
        BY <1>1 DEF Wake, Starts, procVars
    <2>2. held' \in [Procs -> Int]
        BY <1>1 DEF Wake, Held, SemInv, TypeOK
    <2> QED
        BY <2>1, <2>2, PopSteps
<1>2. CASE WakeAllAgain(u)
    <2>1. /\ "all" \in use.ops[u] /\ pc[u] \in {"ready", "again"}
          /\ Running /\ LockFree /\ op[u] = "all" /\ op' = op /\ PopNode(u, "all", TRUE)
          /\ UNCHANGED <<flags, state, wait_state, where, sig, late>>
        BY <1>2 DEF WakeAllAgain, procVars, SemInv, WakerInv, WakePcs
    <2>2. op' = [op EXCEPT ![u] = "all"] /\ held' \in [Procs -> Int]
        BY <1>2, <2>1 DEF WakeAllAgain, SemInv, TypeOK
    <2> QED
        BY <2>1, <2>2, PopSteps
<1> QED
    BY <1>1, <1>2

(* The steps after the choice of a waiter, which leave the queue alone.    *)
LEMMA HandSteps ==
    ASSUME SemInv, NEW u \in Procs, use' = use,
           WakeFlag(u) \/ WakeProc(u) \/ WakeEnqueue(u)
    PROVE  SemInv'
<1> USE DEF SemInv
<1>0. queue' = queue /\ value' = value /\ popped[u] \in Procs /\ Running /\ held' = held
      /\ op' = op /\ late' = late /\ sig' = sig
    BY DEF WakeFlag, WakeProc, WakeEnqueue, WakerInv, procVars
<1>1. CASE WakeFlag(u)
    <2>1. TypeOK'
        BY <1>0, <1>1 DEF WakeFlag, TypeOK, WaitStates, PCs, WakePcs, procVars, wakerVars
    <2>2. NoSleeperWithToken'
        BY <1>0 DEF NoSleeperWithToken
    <2>3. QueueInv'
        BY <1>0, <1>1 DEF WakeFlag, QueueInv, FrameInv, TypeOK, WaitPcs, procVars, wakerVars
    <2>4. WakerInv'
        BY <1>0, <1>1 DEF WakeFlag, WakerInv, TypeOK, WakePcs, procVars, wakerVars
    <2>5. WaiterInv'
        BY <1>0, <1>1 DEF WakeFlag, WaiterInv, TypeOK, WaitPcs, procVars, wakerVars
    <2>6. FrameInv'
        BY <1>0, <1>1 DEF WakeFlag, FrameInv, TypeOK, WaitPcs, procVars, wakerVars
    <2> QED
        BY <2>1, <2>2, <2>3, <2>4, <2>5, <2>6
<1>2. CASE WakeProc(u)
    <2>1. TypeOK'
        BY <1>0, <1>2 DEF WakeProc, TypeOK, WaitStates, PCs, WakePcs, procVars, wakerVars
    <2>2. NoSleeperWithToken'
        BY <1>0 DEF NoSleeperWithToken
    <2>3. QueueInv'
        BY <1>0, <1>2 DEF WakeProc, QueueInv, FrameInv, TypeOK, WaitPcs, procVars, wakerVars
    <2>4. WakerInv'
        BY <1>0, <1>2 DEF WakeProc, WakerInv, TypeOK, WakePcs, procVars, wakerVars
    <2>5. WaiterInv'
        BY <1>0, <1>2 DEF WakeProc, WaiterInv, TypeOK, WaitPcs, procVars, wakerVars
    <2>6. FrameInv'
        BY <1>0, <1>2 DEF WakeProc, FrameInv, TypeOK, WaitPcs, procVars, wakerVars
    <2> QED
        BY <2>1, <2>2, <2>3, <2>4, <2>5, <2>6
<1>3. CASE WakeEnqueue(u)
    <2>1. TypeOK'
        BY <1>0, <1>3 DEF WakeEnqueue, TypeOK, WaitStates, PCs, WakePcs, procVars, wakerVars, Enqueue
    <2>2. NoSleeperWithToken'
        BY <1>0 DEF NoSleeperWithToken
    <2>3. QueueInv'
        BY <1>0, <1>3 DEF WakeEnqueue, QueueInv, FrameInv, TypeOK, WaitPcs, procVars, wakerVars
    <2>4. WakerInv'
        BY <1>0, <1>3 DEF WakeEnqueue, WakerInv, TypeOK, WakePcs, procVars, wakerVars
    <2>5. WaiterInv'
        BY <1>0, <1>3 DEF WakeEnqueue, WaiterInv, TypeOK, WaitPcs, procVars, wakerVars
    <2>6. FrameInv'
        BY <1>0, <1>3 DEF WakeEnqueue, FrameInv, TypeOK, WaitPcs, procVars, wakerVars
    <2> QED
        BY <2>1, <2>2, <2>3, <2>4, <2>5, <2>6
<1> QED
    BY <1>1, <1>2, <1>3

(* Signals, and the calls of wakeup_proc somebody still owed.              *)
LEMMA SignalSteps ==
    ASSUME SemInv, NEW p \in Procs, use' = use,
           Kill(p) \/ LateWake(p) \/ SignalDelivered(p)
    PROVE  SemInv'
<1> USE DEF SemInv
<1>1. /\ UNCHANGED <<value, queue, flags, pc, op, popped, alive, woke, held>> /\ Running
      /\ wait_state' \in {wait_state, [wait_state EXCEPT ![p] = "0"]}
    BY DEF Kill, LateWake, SignalDelivered, wakerVars, TypeOK
<1>2. TypeOK'
    <2>1. state' \in [Procs -> {"RUNNABLE", "SLEEPING"}] /\ late' \subseteq Procs
        BY DEF Kill, LateWake, SignalDelivered, TypeOK
    <2>2. sig' \in [Procs -> BOOLEAN]
        BY DEF Kill, LateWake, SignalDelivered, TypeOK
    <2>3. where' \in [Procs -> {"cpu", "switching", "off", "rq"}]
        <3>1. CASE where' = where
            BY <3>1 DEF TypeOK
        <3>2. CASE LateWake(p)
            BY <3>2 DEF LateWake, TypeOK
        <3> QED
            BY <3>1, <3>2 DEF Kill, SignalDelivered
    <2> QED
        BY <1>1, <2>1, <2>2, <2>3 DEF TypeOK, WaitStates
<1>3. NoSleeperWithToken' /\ QueueInv' /\ WakerInv' /\ FrameInv'
    BY <1>1 DEF NoSleeperWithToken, QueueInv, WakerInv, FrameInv, Running
<1>4. WaiterInv'
    BY <1>1 DEF WaiterInv, TypeOK, Mode
<1> QED
    BY <1>2, <1>3, <1>4

(* Every state of every behaviour satisfies the invariant.                 *)
LEMMA SemInvariant == Spec => []SemInv
<1>1. SemInv /\ [Next]_vars => SemInv'
    <2> SUFFICES ASSUME SemInv, [Next]_vars PROVE SemInv'
        OBVIOUS
    <2>1. CASE UNCHANGED vars
        BY <2>1 DEF vars, moving, SemInv, TypeOK, NoSleeperWithToken, QueueInv, WakerInv,
                    WaiterInv, FrameInv, Running, Mode
    <2>2. CASE Next
        <3>0. use' = use
            BY <2>2 DEF Next
        <3>1. ASSUME NEW p \in Procs, NEW o \in EntryPoints,
                     DownFast(p, o) \/ DownWait(p, o) \/ Wake(p, o)
              PROVE  SemInv'
            BY <3>0, <3>1, DownSteps, DownWaitStep, WakeSteps
        <3>2. ASSUME NEW p \in Procs, DownStep(p) \/ WakeStep(p)
              PROVE  SemInv'
            <4>1. "up" \in EntryPoints
                BY DEF EntryPoints
            <4> QED
                BY <3>0, <3>2, <4>1, DownSteps, ReturnSteps, WakeSteps, HandSteps DEF DownStep, WakeStep
        <3>3. ASSUME NEW p \in Procs, Kill(p) \/ LateWake(p) \/ SignalDelivered(p)
              PROVE  SemInv'
            BY <3>0, <3>3, SignalSteps
        <3>4. CASE Panicked
            BY <2>1, <3>4 DEF Panicked
        <3> QED
            BY <2>2, <3>1, <3>2, <3>3, <3>4 DEF Next
    <2> QED
        BY <2>1, <2>2
<1> QED
    BY <1>1, SemInit, PTL DEF Spec
-----------------------------------------------------------------------------
(* The variables of the semaphore and of its users have their types.       *)
THEOREM SemTyped == Spec => []TypeOK
BY SemInvariant, PTL DEF SemInv

(* Nobody sleeps on a semaphore that has a token.                          *)
THEOREM TokensAreTaken == Spec => []NoSleeperWithToken
BY SemInvariant, PTL DEF SemInv

(* The queue never links a node of a __down frame that has returned, and   *)
(* links no node twice.                                                    *)
THEOREM QueueIsLive == Spec => []QueuedFramesLive
<1>1. SemInv => QueuedFramesLive
    <2> SUFFICES ASSUME SemInv PROVE QueuedFramesLive
        OBVIOUS
    <2>1. DOMAIN queue = 1 .. Len(queue) /\ \A i \in DOMAIN queue : queue[i] \in Procs
        BY LenProperties, ElementOfSeq DEF SemInv, TypeOK
    <2> QED
        BY <2>1 DEF SemInv, QueueInv, QueuedFramesLive, On, Distinct
<1> QED
    BY <1>1, SemInvariant, PTL

(* A semaphore that only carries events never holds two of them.           *)
THEOREM EventsAreBounded == Spec => []EventsBounded
<1>1. Init => EventsBounded
    BY DEF Init, EventsBounded
<1>2. SemInv /\ EventsBounded /\ [Next]_vars => EventsBounded'
    <2> SUFFICES ASSUME SemInv, EventsBounded, [Next]_vars,
                        use.v0 <= 1, \A p \in Procs : "up" \notin use.ops[p]
                 PROVE  value' <= 1
        BY DEF EventsBounded, Next, vars
    <2>0. value \in Nat /\ value <= 1
        BY DEF EventsBounded, SemInv, TypeOK
    <2>1. ASSUME NEW u \in Procs, NEW o \in {"event", "all"}, NEW a \in BOOLEAN, PopNode(u, o, a)
          PROVE  value' <= 1
        BY <2>0, <2>1 DEF PopNode, Deposit
    <2>2. ASSUME NEW p \in Procs, NEW o \in EntryPoints, DownFast(p, o)
          PROVE  value' <= 1
        BY <2>0, <2>2 DEF DownFast
    <2>3. ASSUME NEW p \in Procs, NEW o \in EntryPoints, Wake(p, o)
          PROVE  value' <= 1
        <3>1. o \in {"event", "all"} /\ PopNode(p, o, FALSE)
            BY <2>3 DEF Wake, Starts
        <3> QED
            BY <2>1, <3>1
    <2>4. ASSUME NEW p \in Procs, WakeAllAgain(p)
          PROVE  value' <= 1
        <3>1. PopNode(p, "all", TRUE)
            BY <2>4 DEF WakeAllAgain
        <3> QED
            BY <2>1, <3>1
    <2>5. ASSUME NEW p \in Procs, NEW o \in EntryPoints,
                 \/ DownWait(p, o) \/ DownStep(p) \/ WakeFlag(p) \/ WakeProc(p) \/ WakeEnqueue(p)
                 \/ Kill(p) \/ LateWake(p) \/ SignalDelivered(p)
          PROVE  value' = value
        BY <2>5 DEF DownWait, DownStep, DownEarly, DownNoSignal, CallSchedule, SwitchComplete,
                    Dispatch, DownReturn, DownEarlyReturn, WakeFlag, WakeProc, WakeEnqueue,
                    Kill, LateWake, SignalDelivered
    <2>6. CASE UNCHANGED vars
        BY <2>0, <2>6 DEF vars, moving
    <2>7. "up" \in EntryPoints
        BY DEF EntryPoints
    <2>8. CASE Next
        BY <2>0, <2>2, <2>3, <2>4, <2>5, <2>6, <2>7, <2>8 DEF Next, WakeStep, Panicked
    <2> QED
        BY <2>6, <2>8
<1> QED
    BY <1>1, <1>2, SemInvariant, PTL DEF Spec
-----------------------------------------------------------------------------
(* The sets of tokens on their way are finite.                             *)
LEMMA OnTheirWay ==
    /\ IsFiniteSet(Handed) /\ Cardinality(Handed) \in Nat
    /\ IsFiniteSet(InFlight) /\ Cardinality(InFlight) \in Nat
<1>1. Handed \subseteq Procs /\ InFlight \subseteq Procs
    BY DEF Handed, InFlight
<1> QED
    BY <1>1, SemAssumption, FS_Subset, FS_CardinalityType

(* A set with one element more ...                                         *)
LEMMA OneMore ==
    ASSUME NEW S, IsFiniteSet(S), NEW x, x \notin S
    PROVE  Cardinality(S \cup {x}) = Cardinality(S) + 1
BY FS_AddElement

(* ... and with one element less.                                          *)
LEMMA OneLess ==
    ASSUME NEW S, IsFiniteSet(S), NEW x \in S
    PROVE  Cardinality(S \ {x}) = Cardinality(S) - 1 /\ Cardinality(S) > 0
<1>1. Cardinality(S \ {x}) = Cardinality(S) - 1 /\ IsFiniteSet(S \ {x})
    BY FS_RemoveElement
<1>2. Cardinality(S \ {x}) \in Nat /\ Cardinality(S) \in Nat
    BY <1>1, FS_CardinalityType
<1> QED
    BY <1>1, <1>2

(* The steps that move no token.                                           *)
LEMMA SilentSteps ==
    ASSUME SemInv, NEW p \in Procs, NEW o \in EntryPoints, use' = use,
           \/ DownWait(p, o) \/ DownEarly(p) \/ DownNoSignal(p) \/ CallSchedule(p)
           \/ SwitchComplete(p) \/ Dispatch(p) \/ WakeProc(p) \/ WakeEnqueue(p)
           \/ Kill(p) \/ LateWake(p) \/ SignalDelivered(p)
    PROVE  Tokens' = Tokens /\ held' = held
<1> USE DEF SemInv
<1>1. value' = value /\ held' = held
    BY DEF DownWait, DownEarly, DownNoSignal, CallSchedule, SwitchComplete, Dispatch, WakeProc,
           WakeEnqueue, Kill, LateWake, SignalDelivered
<1>2. \A q \in Procs : (pc'[q] \in WaitPcs /\ flags'[q] # "INT") <=> (pc[q] \in WaitPcs /\ flags[q] # "INT")
    <2>1. CASE DownWait(p, o)
        BY <2>1 DEF DownWait, Starts, wait_init, TypeOK, WaitPcs
    <2>2. CASE \/ DownEarly(p) \/ DownNoSignal(p) \/ Dispatch(p) \/ WakeProc(p) \/ WakeEnqueue(p)
        BY <2>2 DEF DownEarly, DownNoSignal, Dispatch, WakeProc, WakeEnqueue, TypeOK, WaitPcs
    <2>3. CASE SwitchComplete(p) \/ Kill(p) \/ LateWake(p) \/ SignalDelivered(p)
        BY <2>3 DEF SwitchComplete, Kill, LateWake, SignalDelivered
    <2>4. CASE CallSchedule(p)
        BY <2>4 DEF CallSchedule, TypeOK, WaitPcs
    <2> QED
        BY <2>1, <2>2, <2>3, <2>4
<1>3. \A q \in Procs : pc'[q] = "flag" <=> pc[q] = "flag"
    <2>1. CASE \/ DownWait(p, o) \/ DownEarly(p) \/ DownNoSignal(p) \/ Dispatch(p)
        BY <2>1 DEF DownWait, Starts, DownEarly, DownNoSignal, Dispatch, TypeOK
    <2>2. CASE SwitchComplete(p) \/ Kill(p) \/ LateWake(p) \/ SignalDelivered(p)
        BY <2>2 DEF SwitchComplete, Kill, LateWake, SignalDelivered
    <2>3. CASE CallSchedule(p) \/ WakeProc(p)
        BY <2>3 DEF CallSchedule, WakeProc, TypeOK
    <2>4. CASE WakeEnqueue(p)
        BY <2>4 DEF WakeEnqueue, TypeOK
    <2> QED
        BY <2>1, <2>2, <2>3, <2>4
<1>4. Handed' = Handed /\ InFlight' = InFlight
    BY <1>2, <1>3 DEF Handed, InFlight
<1> QED
    BY <1>1, <1>4 DEF Tokens, Counted

(* Taking a token: the fast path of a down.                                *)
LEMMA FastTakes ==
    ASSUME SemInv, NEW p \in Procs, NEW o \in EntryPoints, use' = use, DownFast(p, o)
    PROVE  \/ Tokens > 0 /\ Tokens' = Tokens - 1 /\ held' = [held EXCEPT ![p] = @ + 1]
           \/ Tokens' = Tokens /\ held' = held
<1>1. Handed' = Handed /\ InFlight' = InFlight /\ value > 0 /\ value' = value - 1
    BY DEF DownFast, HasToken, Handed, InFlight
<1>2. value \in Nat /\ held \in [Procs -> Int] /\ held' = Held(p, 1)
    BY DEF DownFast, SemInv, TypeOK
<1>3. CASE Counted
    <2>1. held' = [held EXCEPT ![p] = @ + 1]
        BY <1>2, <1>3 DEF Held
    <2> QED
        BY <1>1, <1>2, <1>3, <2>1, OnTheirWay DEF Tokens, Counted
<1>4. CASE ~ Counted
    BY <1>2, <1>4 DEF Tokens, Counted, Held
<1> QED
    BY <1>3, <1>4

(* A down that waited returns: it has the token it was handed, or none.    *)
LEMMA ReturnTakes ==
    ASSUME SemInv, NEW p \in Procs, use' = use, DownReturn(p)
    PROVE  \/ Tokens > 0 /\ Tokens' = Tokens - 1 /\ held' = [held EXCEPT ![p] = @ + 1]
           \/ Tokens' = Tokens /\ held' = held
<1>1. /\ pc[p] = "del" /\ value' = value /\ flags' = flags
      /\ held' = Held(p, IF DownResult(p) = "0" THEN 1 ELSE 0)
      /\ \A q \in Procs \ {p} : pc'[q] = pc[q]
      /\ pc'[p] \in {"ready", "panic"}
    BY DEF DownReturn, SemInv, TypeOK
<1>2. value \in Nat /\ held \in [Procs -> Int]
    BY DEF SemInv, TypeOK
<1>3. InFlight' = InFlight
    BY <1>1 DEF InFlight
<1>4. Handed' = Handed \ {p}
    BY <1>1 DEF Handed, WaitPcs
<1>5. flags[p] \in {"INT", "0", Mode(op[p])}
    BY <1>1 DEF SemInv, WaiterInv, WaitPcs
<1>6. CASE ~ Counted
    <2>1. \A d : Held(p, d) = held
        BY <1>2, <1>6 DEF Held
    <2> QED
        BY <1>1, <1>6, <2>1 DEF Tokens, Counted
<1>7. CASE Counted /\ flags[p] = "INT"
    <2>1. p \notin Handed
        BY <1>7 DEF Handed
    <2>2. DownResult(p) # "0"
        BY <1>7 DEF DownResult, Mode
    <2>3. held' = held
        BY <1>1, <1>2, <2>2 DEF Held
    <2>4. Handed' = Handed
        BY <1>4, <2>1
    <2> QED
        BY <1>1, <1>3, <2>3, <2>4 DEF Tokens, Counted
<1>8. CASE Counted /\ flags[p] # "INT"
    <2>1. p \in Handed
        BY <1>1, <1>8 DEF Handed, WaitPcs
    <2>2. DownResult(p) = "0"
        BY <1>5, <1>8 DEF DownResult
    <2>3. held' = [held EXCEPT ![p] = @ + 1]
        BY <1>1, <1>2, <1>8, <2>2 DEF Held
    <2>4. Cardinality(Handed') = Cardinality(Handed) - 1 /\ Cardinality(Handed) > 0
        BY <1>4, <2>1, OneLess, OnTheirWay
    <2>5. Counted'
        BY <1>8 DEF Counted
    <2>6. Cardinality(InFlight') = Cardinality(InFlight)
        BY <1>3
    <2>7. /\ Tokens = value + Cardinality(Handed) + Cardinality(InFlight)
          /\ Tokens' = value' + Cardinality(Handed') + Cardinality(InFlight')
        BY <1>8, <2>5 DEF Tokens
    <2>8. Tokens > 0 /\ Tokens' = Tokens - 1
        BY <1>1, <1>2, <2>4, <2>6, <2>7, OnTheirWay
    <2> QED
        BY <2>3, <2>8
<1> QED
    BY <1>6, <1>7, <1>8

(* The early return of an interrupted down drops the token, if any.        *)
LEMMA EarlyDrops ==
    ASSUME SemInv, NEW p \in Procs, use' = use, DownEarlyReturn(p)
    PROVE  \/ Tokens > 0 /\ p \in Interruptible /\ Tokens' = Tokens - 1 /\ held' = held
           \/ Tokens' = Tokens /\ held' = held
<1>1. /\ pc[p] = "early" /\ value' = value /\ flags' = flags /\ held' = held
      /\ \A q \in Procs \ {p} : pc'[q] = pc[q]
      /\ pc'[p] = "ready"
    BY DEF DownEarlyReturn, SemInv, TypeOK
<1>2. value \in Nat /\ p \in Interruptible
    BY <1>1 DEF SemInv, TypeOK, WaiterInv, WaitPcs, Interruptible
<1>3. InFlight' = InFlight
    BY <1>1 DEF InFlight
<1>4. Handed' = Handed \ {p}
    BY <1>1 DEF Handed, WaitPcs
<1>5. Counted' <=> Counted
    BY DEF Counted
<1>6. CASE p \notin Handed
    <2>1. Handed' = Handed
        BY <1>4, <1>6
    <2> QED
        BY <1>1, <1>3, <1>5, <2>1 DEF Tokens
<1>7. CASE p \in Handed
    <2>1. Cardinality(Handed') = Cardinality(Handed) - 1 /\ Cardinality(Handed) > 0
        BY <1>4, <1>7, OneLess, OnTheirWay
    <2>2. Cardinality(InFlight') = Cardinality(InFlight)
        BY <1>3
    <2> QED
        BY <1>1, <1>2, <1>5, <2>1, <2>2, OnTheirWay DEF Tokens
<1> QED
    BY <1>6, <1>7

(* Giving a token: an up adds it to the value or has a node to hand it to. *)
LEMMA UpGives ==
    ASSUME SemInv, NEW u \in Procs, NEW o \in EntryPoints, use' = use, Wake(u, o)
    PROVE  \/ Tokens' = Tokens + 1 /\ held' = [held EXCEPT ![u] = @ - 1]
           \/ Tokens' = Tokens /\ held' = held
<1>1. /\ pc[u] = "ready" /\ flags' = flags /\ held' = Held(u, -1)
      /\ o \in use.ops[u] \cap {"up", "event", "all"} /\ PopNode(u, o, FALSE)
    BY DEF Wake, Starts
<1>2. value \in Nat /\ held \in [Procs -> Int]
    BY DEF SemInv, TypeOK
<1>3. Counted' <=> Counted
    BY DEF Counted
<1>4. CASE ~ Counted
    BY <1>1, <1>2, <1>3, <1>4 DEF Tokens, Held
<1>5. CASE Counted
    <2>1. o = "up"
        BY <1>1, <1>5 DEF Counted
    <2>2. held' = [held EXCEPT ![u] = @ - 1]
        BY <1>1, <1>2, <1>5 DEF Held
    <2>3. CASE value' = Deposit(o, FALSE) /\ pc' = [pc EXCEPT ![u] = "ready"]
        <3>1. value' = value + 1
            BY <2>1, <2>3 DEF Deposit
        <3>2. Handed' = Handed /\ InFlight' = InFlight
            BY <1>1, <2>3 DEF Handed, InFlight, SemInv, TypeOK
        <3> QED
            BY <1>2, <1>3, <1>5, <2>2, <3>1, <3>2, OnTheirWay DEF Tokens
    <2>4. CASE value' = value /\ pc' = [pc EXCEPT ![u] = "flag"]
        <3>1. Handed' = Handed
            BY <1>1, <2>4 DEF Handed, SemInv, TypeOK, WaitPcs
        <3>2. InFlight' = InFlight \cup {u} /\ u \notin InFlight
            BY <1>1, <2>4 DEF InFlight, SemInv, TypeOK
        <3>3. Cardinality(InFlight') = Cardinality(InFlight) + 1
            BY <3>2, OneMore, OnTheirWay
        <3>4. Cardinality(Handed') = Cardinality(Handed)
            BY <3>1
        <3> QED
            BY <1>2, <1>3, <1>5, <2>2, <2>4, <3>3, <3>4, OnTheirWay DEF Tokens
    <2> QED
        BY <1>1, <2>3, <2>4 DEF PopNode
<1> QED
    BY <1>4, <1>5

(* The waker writes the flags: the token goes from its hands into the      *)
(* waiter's, or is lost if the waiter has been interrupted meanwhile.      *)
LEMMA FlagHands ==
    ASSUME SemInv, NEW u \in Procs, use' = use, WakeFlag(u)
    PROVE  \/ \E r \in Interruptible : Tokens > 0 /\ Tokens' = Tokens - 1 /\ held' = held
           \/ Tokens' = Tokens /\ held' = held
<1>1. /\ pc[u] = "flag" /\ value' = value /\ held' = held /\ Running
      /\ pc' = [pc EXCEPT ![u] = "wake"]
      /\ flags' = IF alive[u] THEN [flags EXCEPT ![popped[u]] = wait_state[popped[u]]] ELSE flags
    BY DEF WakeFlag
<1>2. value \in Nat /\ pc \in [Procs -> PCs] /\ flags \in [Procs -> WaitStates \cup {"INT"}]
      /\ wait_state \in [Procs -> WaitStates]
    BY DEF SemInv, TypeOK
<1>3. InFlight' = InFlight \ {u} /\ u \in InFlight
    BY <1>1, <1>2 DEF InFlight
<1>4. /\ Cardinality(InFlight') = Cardinality(InFlight) - 1 /\ Cardinality(InFlight) > 0
    BY <1>3, OneLess, OnTheirWay
<1>5. Counted' <=> Counted
    BY DEF Counted
<1>6. CASE alive[u]
    <2>1. /\ popped[u] \in Procs /\ pc[popped[u]] \in WaitPcs /\ flags[popped[u]] = "INT"
          /\ popped[u] # u
        BY <1>1, <1>6 DEF SemInv, FrameInv, WaitPcs
    <2>2. wait_state[popped[u]] # "INT"
        BY <1>2, <2>1 DEF WaitStates
    <2>3. Handed' = Handed \cup {popped[u]} /\ popped[u] \notin Handed
        BY <1>1, <1>2, <1>6, <2>1, <2>2 DEF Handed, WaitPcs
    <2>4. Cardinality(Handed') = Cardinality(Handed) + 1
        BY <2>3, OneMore, OnTheirWay
    <2> QED
        BY <1>1, <1>2, <1>4, <1>5, <2>4, OnTheirWay DEF Tokens
<1>7. CASE ~ alive[u]
    <2>1. PICK r \in Procs : "down_interruptible" \in use.ops[r]
        BY <1>1, <1>7 DEF SemInv, FrameInv
    <2>2. Handed' = Handed
        BY <1>1, <1>2, <1>7 DEF Handed, WaitPcs
    <2>3. r \in Interruptible
        BY <2>1 DEF Interruptible
    <2>4. Cardinality(Handed') = Cardinality(Handed)
        BY <2>2
    <2> QED
        BY <1>1, <1>2, <1>4, <1>5, <2>3, <2>4, OnTheirWay DEF Tokens
<1> QED
    BY <1>6, <1>7

(* Every step is a step of the counting semaphore or changes nothing.      *)
LEMMA CountingStep ==
    ASSUME SemInv, [Next]_vars
    PROVE  [Abstract!Next]_<<Tokens, held, Interruptible>>
<1> USE DEF Abstract!Next, Abstract!Take, Abstract!Give, Abstract!Drop
<1>1. CASE UNCHANGED vars
    BY <1>1 DEF vars, moving, Tokens, Counted, Handed, InFlight, Interruptible
<1>2. CASE Next
    <2>1. use' = use /\ Interruptible' = Interruptible
        BY <1>2 DEF Next, Interruptible
    <2>2. ASSUME NEW p \in Procs, NEW o \in EntryPoints, DownFast(p, o)
          PROVE  [Abstract!Next]_<<Tokens, held, Interruptible>>
        BY <2>1, <2>2, FastTakes
    <2>3. ASSUME NEW p \in Procs, NEW o \in EntryPoints, Wake(p, o)
          PROVE  [Abstract!Next]_<<Tokens, held, Interruptible>>
        BY <2>1, <2>3, UpGives
    <2>4. ASSUME NEW p \in Procs, DownReturn(p)
          PROVE  [Abstract!Next]_<<Tokens, held, Interruptible>>
        BY <2>1, <2>4, ReturnTakes
    <2>5. ASSUME NEW p \in Procs, DownEarlyReturn(p)
          PROVE  [Abstract!Next]_<<Tokens, held, Interruptible>>
        BY <2>1, <2>5, EarlyDrops
    <2>6. ASSUME NEW p \in Procs, WakeFlag(p)
          PROVE  [Abstract!Next]_<<Tokens, held, Interruptible>>
        BY <2>1, <2>6, FlagHands DEF Interruptible
    <2>7. ASSUME NEW p \in Procs, WakeAllAgain(p)
          PROVE  [Abstract!Next]_<<Tokens, held, Interruptible>>
        <3>1. held' = held /\ "all" \in use.ops[p]
            BY <2>7 DEF WakeAllAgain, SemInv, WakerInv, WakePcs
        <3>2. ~ Counted /\ ~ Counted'
            BY <2>1, <3>1 DEF Counted
        <3> QED
            BY <2>1, <3>1, <3>2 DEF Tokens
    <2>8. ASSUME NEW p \in Procs, NEW o \in EntryPoints,
                 \/ DownWait(p, o) \/ DownEarly(p) \/ DownNoSignal(p) \/ CallSchedule(p)
                 \/ SwitchComplete(p) \/ Dispatch(p) \/ WakeProc(p) \/ WakeEnqueue(p)
                 \/ Kill(p) \/ LateWake(p) \/ SignalDelivered(p)
          PROVE  [Abstract!Next]_<<Tokens, held, Interruptible>>
        BY <2>1, <2>8, SilentSteps
    <2>9. "up" \in EntryPoints
        BY DEF EntryPoints
    <2> QED
        BY <1>1, <1>2, <2>2, <2>3, <2>4, <2>5, <2>6, <2>7, <2>8, <2>9
           DEF Next, DownStep, WakeStep, Panicked
<1> QED
    BY <1>1, <1>2

(* down and up implement a counting semaphore: tokens are neither made nor *)
(* lost, whatever the interleaving of wakers, waiters, context switches    *)
(* and signals, except by a process that chose to be interruptible.        *)
THEOREM SemaphoreCounts == Spec => ImplementsCounting
<1>1. Init => Abstract!Init
    <2> SUFFICES ASSUME Init PROVE Abstract!Init
        OBVIOUS
    <2>1. value \in Nat
        BY SemInit DEF SemInv, TypeOK
    <2>2. Tokens \in Nat
        BY <2>1, OnTheirWay DEF Tokens
    <2> QED
        BY <2>2 DEF Init, Abstract!Init, Interruptible
<1> QED
    BY <1>1, CountingStep, SemInvariant, PTL DEF Spec, ImplementsCounting, Abstract!Spec
=============================================================================
