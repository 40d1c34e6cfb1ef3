----------------------------- MODULE ProcProofs -----------------------------
(***************************************************************************)
(* Proofs about ProcLife, for any finite set of processes, and at the end  *)
(* about PidAlloc, for every MAX_PID > MAX_PROCESS.                        *)
(***************************************************************************)
EXTENDS ProcLife, PidAlloc, ListLemmas, FiniteSetTheorems

(* Who sleeps and who is dead agrees with where the process stands; only   *)
(* a process on a CPU owes anybody a wakeup_proc.                          *)
StateInv ==
    /\ \A p \in Procs :
          /\ wait_state[p] = "CHILD" <=> state[p] = "SLEEPING"
          /\ state[p] = "SLEEPING" => pc[p] = "slept"
          /\ pc[p] = "dead" <=> state[p] = "ZOMBIE"
          /\ parent[p] # p
          /\ where[p] # "cpu" => owed[p] = {}
          /\ state[p] = "FREE" => pc[p] = "user"
    /\ state[init] \notin {"FREE", "ZOMBIE"}

Forking == {p \in Procs : pc[p] = "forking"}

(* nr_process counts idle, the processes that exist and the reserved ones. *)
ProcessesCounted ==
    nr_process = 1 + Cardinality(Live) + Cardinality(Forking)

(* The list of the children of p is s: cptr points to its first element,   *)
(* optr to the next one and yptr to the one before.                        *)
Elem(s, i) == IF i \in 1 .. Len(s) THEN s[i] ELSE None
Chain(s, p) ==
    /\ Distinct(s)
    /\ cptr[p] = Elem(s, 1)
    /\ \A i \in 1 .. Len(s) : optr[s[i]] = Elem(s, i + 1) /\ yptr[s[i]] = Elem(s, i - 1)
    /\ \A q \in Procs : On(s, q) <=> q \in Live \ {init} /\ parent[q] = p

ListInv == \A p \in Live : \E s \in Seq(Procs) : Chain(s, p)

(* No CPU and no run queue holds a freed process, movable or not.          *)
FreedOff == \A p \in Procs : state[p] = "FREE" => OffCpu(p)

LifeInv ==
    /\ TypeOK /\ ProcessesCounted
    /\ ~broken => StateInv /\ FreedOff
    /\ ParentCanWait /\ ListInv /\ NoZombieUnnoticed
-----------------------------------------------------------------------------
(* The walk along cptr and optr finds the list the pointers form.          *)
LEMMA WalkFindsList ==
    ASSUME NEW p \in Procs, NEW s \in Seq(Procs), Chain(s, p)
    PROVE  ChildList(p) = s
<1> DEFINE N == Cardinality(Procs)
           Pre(n) == IF n <= Len(s) THEN SubSeq(s, 1, n) ELSE s
           More(t) == LET q == IF t = <<>> THEN cptr[p] ELSE optr[t[Len(t)]]
                      IN  IF q = None THEN t ELSE Append(t, q)
           IsWalk(f) == f = [n \in 0 .. N |-> IF n = 0 THEN <<>> ELSE More(f[n - 1])]
           w == [n \in 0 .. N |-> Pre(n)]
<1>1. N \in Nat /\ Len(s) \in Nat /\ Len(s) <= N
    BY ProcLifeAssumption, FS_CardinalityType, DistinctLength, LenProperties DEF Chain
<1>2. \A i \in 1 .. Len(s) : s[i] \in Procs /\ s[i] # None
    BY ElementOfSeq, ProcLifeAssumption
<1>3. ASSUME NEW n \in 0 .. Len(s)
      PROVE  /\ SubSeq(s, 1, n) \in Seq(Procs) /\ Len(SubSeq(s, 1, n)) = n
             /\ \A i \in 1 .. n : SubSeq(s, 1, n)[i] = s[i]
    <2>1. 1 \in Int /\ n \in Int /\ (\A i \in 1 .. n : s[i] \in Procs)
        BY <1>1, <1>2
    <2>2. SubSeq(s, 1, n) \in Seq(Procs) /\ Len(SubSeq(s, 1, n)) = n
        BY <1>1, <2>1, SubSeqProperties
    <2>3. \A i \in 1 .. n : SubSeq(s, 1, n)[i] = s[i]
        BY <1>1, <2>1, SubSeqProperties
    <2> QED
        BY <2>2, <2>3
<1>4. SubSeq(s, 1, 0) = <<>>
    <2>1. 0 \in 0 .. Len(s)
        BY <1>1
    <2> QED
        BY <2>1, <1>3, EmptySeq
<1>5. SubSeq(s, 1, Len(s)) = s
    <2>1. Len(s) \in 0 .. Len(s)
        BY <1>1
    <2> QED
        BY <2>1, <1>3, SeqEqual
<1>6. Pre(0) = <<>>
    BY <1>1, <1>4
<1>16. ASSUME NEW n \in Nat, n >= Len(s) PROVE Pre(n) = s
    <2>1. CASE n = Len(s)
        BY <1>1, <1>5, <2>1
    <2>2. CASE n # Len(s)
        BY <1>1, <1>16, <2>2
    <2> QED
        BY <2>1, <2>2
<1>7. ASSUME NEW n \in Nat
      PROVE  More(Pre(n)) = Pre(n + 1)
    <2>1. CASE n < Len(s)
        <3> DEFINE t == SubSeq(s, 1, n)
        <3>1. t \in Seq(Procs) /\ Len(t) = n /\ \A i \in 1 .. n : t[i] = s[i]
            BY <1>1, <1>3, <2>1
        <3>2. Pre(n) = t /\ Pre(n + 1) = SubSeq(s, 1, n + 1)
            BY <1>1, <2>1
        <3> HIDE DEF t
        <3>3. (IF t = <<>> THEN cptr[p] ELSE optr[t[Len(t)]]) = s[n + 1]
            <4>1. CASE n = 0
                <5>1. t = <<>>
                    BY <3>1, <4>1, EmptySeq
                <5> QED
                    BY <1>1, <2>1, <4>1, <5>1 DEF Chain, Elem
            <4>2. CASE n # 0
                <5>1. t # <<>> /\ t[Len(t)] = s[n] /\ n \in 1 .. Len(s) /\ n + 1 \in 1 .. Len(s)
                    BY <1>1, <2>1, <3>1, <4>2, EmptySeq
                <5>2. optr[s[n]] = s[n + 1]
                    BY <5>1 DEF Chain, Elem
                <5> QED
                    BY <5>1, <5>2
            <4> QED
                BY <4>1, <4>2
        <3>4. s[n + 1] # None /\ s[n + 1] \in Procs
            BY <1>1, <1>2, <2>1
        <3>5. More(t) = Append(t, s[n + 1])
            BY <3>3, <3>4
        <3>6. Append(t, s[n + 1]) = SubSeq(s, 1, n + 1)
            <4>1. n + 1 \in 0 .. Len(s)
                BY <1>1, <2>1
            <4>2. /\ SubSeq(s, 1, n + 1) \in Seq(Procs) /\ Len(SubSeq(s, 1, n + 1)) = n + 1
                  /\ \A i \in 1 .. n + 1 : SubSeq(s, 1, n + 1)[i] = s[i]
                BY <1>3, <4>1
            <4>3. /\ Append(t, s[n + 1]) \in Seq(Procs) /\ Len(Append(t, s[n + 1])) = n + 1
                  /\ \A i \in 1 .. n : Append(t, s[n + 1])[i] = s[i]
                  /\ Append(t, s[n + 1])[n + 1] = s[n + 1]
                BY <3>1, <3>4, AppendProperties
            <4>4. \A i \in 1 .. n + 1 : Append(t, s[n + 1])[i] = SubSeq(s, 1, n + 1)[i]
                BY <4>2, <4>3
            <4> HIDE DEF t
            <4> QED
                BY <4>2, <4>3, <4>4, SeqEqual
        <3> QED
            BY <3>2, <3>5, <3>6
    <2>2. CASE n >= Len(s)
        <3>1. Pre(n) = s /\ Pre(n + 1) = s
            <4>1. n + 1 \in Nat /\ n + 1 >= Len(s)
                BY <1>1, <2>2
            <4> HIDE DEF Pre
            <4> QED
                BY <1>16, <2>2, <4>1
        <3>2. (IF s = <<>> THEN cptr[p] ELSE optr[s[Len(s)]]) = None
            <4>1. CASE Len(s) = 0
                BY <4>1, EmptySeq DEF Chain, Elem
            <4>2. CASE Len(s) # 0
                <5>1. s # <<>> /\ Len(s) \in 1 .. Len(s) /\ Len(s) + 1 \notin 1 .. Len(s)
                    BY <1>1, <4>2, EmptySeq
                <5> QED
                    BY <5>1 DEF Chain, Elem
            <4> QED
                BY <4>1, <4>2
        <3> QED
            BY <3>1, <3>2
    <2>3. n < Len(s) \/ n >= Len(s)
        BY <1>1
    <2> HIDE DEF Pre, More
    <2> QED
        BY <2>1, <2>2, <2>3
<1> HIDE DEF Pre, More
<1>8. IsWalk(w)
    <2>1. ASSUME NEW n \in 0 .. N
          PROVE  Pre(n) = IF n = 0 THEN <<>> ELSE More(w[n - 1])
        <3>1. CASE n = 0
            BY <1>6, <3>1
        <3>2. CASE n # 0
            <4>1. n - 1 \in 0 .. N /\ n - 1 \in Nat /\ (n - 1) + 1 = n
                BY <1>1, <3>2
            <4>2. More(Pre(n - 1)) = Pre(n)
                BY <1>7, <4>1
            <4> QED
                BY <3>2, <4>1, <4>2
        <3> QED
            BY <3>1, <3>2
    <2> QED
        BY <2>1
<1> DEFINE g == CHOOSE f : IsWalk(f)
<1> HIDE DEF w, N
<1>9. IsWalk(g)
    BY <1>8
<1>10. ChildList(p) = g[N]
    BY DEF ChildList, More, N
<1> HIDE DEF g
<1> DEFINE S == {n \in Nat : n <= N => g[n] = Pre(n)}
<1>11. 0 \in S
    BY <1>1, <1>6, <1>9
<1>12. ASSUME NEW n \in Nat, n \in S PROVE n + 1 \in S
    <2>1. CASE n + 1 <= N
        <3>1. n + 1 \in 0 .. N /\ n + 1 # 0 /\ (n + 1) - 1 = n /\ g[n] = Pre(n)
            BY <1>1, <1>12, <2>1
        <3>2. g[n + 1] = More(g[n])
            BY <1>9, <3>1
        <3>3. g[n + 1] = Pre(n + 1)
            BY <1>7, <3>1, <3>2
        <3> QED
            BY <3>3
    <2>2. CASE ~ (n + 1 <= N)
        BY <2>2
    <2> QED
        BY <2>1, <2>2
<1> HIDE DEF S
<1>13. Nat \subseteq S
    BY <1>11, <1>12, Induct
<1>14. g[N] = Pre(N)
    BY <1>1, <1>13 DEF S
<1>15. Pre(N) = s
    BY <1>1, <1>16
<1> QED
    BY <1>10, <1>14, <1>15
-----------------------------------------------------------------------------
(* The types of the links, one by one.                                     *)
LEMMA LinkTypes ==
    ASSUME TypeOK
    PROVE  /\ parent \in [Procs -> Procs \cup {None}] /\ cptr \in [Procs -> Procs \cup {None}]
           /\ optr \in [Procs -> Procs \cup {None}] /\ yptr \in [Procs -> Procs \cup {None}]
           /\ arg \in [Procs -> Procs \cup {None}]
BY DEF TypeOK

(* The counts are numbers.                                                 *)
LEMMA CountTypes ==
    /\ IsFiniteSet(Live) /\ Cardinality(Live) \in Nat
    /\ IsFiniteSet(Forking) /\ Cardinality(Forking) \in Nat
<1>1. Live \subseteq Procs /\ Forking \subseteq Procs
    BY DEF Live, Forking
<1> QED
    BY <1>1, ProcLifeAssumption, FS_Subset, FS_CardinalityType

(* The system starts in a state that satisfies the invariant.              *)
LEMMA LifeInit == Init => LifeInv
<1> SUFFICES ASSUME Init PROVE LifeInv
    OBVIOUS
<1> USE ProcLifeAssumption
<1>1. TypeOK
    <2>1. \A f \in {parent, cptr, optr, yptr, arg} : f \in [Procs -> Procs \cup {None}]
        BY DEF Init
    <2>2. \A p \in Procs : owed[p] \in SUBSET Procs
        BY DEF Init
    <2>3. owed \in [Procs -> SUBSET Procs]
        BY <2>2 DEF Init
    <2>4. cpu_owed \subseteq Procs /\ broken \in BOOLEAN
        BY DEF Init
    <2>7. nr_process \in 0 .. MAX_PROCESS
        BY DEF Init
    <2>5. /\ state \in [Procs -> {"FREE", "UNINIT", "RUNNABLE", "SLEEPING", "ZOMBIE"}]
          /\ where \in [Procs -> {"cpu", "switching", "off"}]
        BY DEF Init
    <2>8. on_cpu \in [Procs -> BOOLEAN] /\ queued \in [Procs -> BOOLEAN] /\ late \subseteq Procs
        BY DEF Init
    <2>6. /\ wait_state \in [Procs -> {"0", "CHILD"}] /\ sig \in [Procs -> BOOLEAN]
          /\ pc \in [Procs -> PCs]
        BY DEF Init, PCs
    <2> QED
        BY <2>1, <2>3, <2>4, <2>5, <2>6, <2>7, <2>8 DEF TypeOK
<1>2. StateInv /\ FreedOff
    BY DEF Init, StateInv, FreedOff, OffCpu
<1>3. Live = {init} /\ Forking = {}
    BY DEF Init, Live, Forking
<1>4. ProcessesCounted
    <2>1. Cardinality(Live) = 1 /\ Cardinality(Forking) = 0
        BY <1>3, FS_Singleton, FS_EmptySet
    <2> QED
        BY <2>1 DEF Init, ProcessesCounted
<1>5. ParentCanWait
    BY <1>3 DEF ParentCanWait
<1>6. ListInv
    <2>1. <<>> \in Seq(Procs) /\ Len(<<>>) = 0
        BY EmptySeq
    <2>2. Chain(<<>>, init)
        BY <1>3, <2>1 DEF Init, Chain, Distinct, On, Elem
    <2> QED
        BY <1>3, <2>1, <2>2 DEF ListInv
<1>7. NoZombieUnnoticed
    BY DEF Init, NoZombieUnnoticed
<1> QED
    BY <1>1, <1>2, <1>4, <1>5, <1>6, <1>7 DEF LifeInv

(* Steps that leave the family links alone, and nobody dies or is freed.   *)
LEMMA FamilyUntouched ==
    ASSUME LifeInv, links' = links,
           \A p \in Procs : /\ state'[p] = "FREE" <=> state[p] = "FREE"
                            /\ state'[p] = "ZOMBIE" <=> state[p] = "ZOMBIE"
    PROVE  ParentCanWait' /\ ListInv' /\ Live' = Live
<1>1. Live' = Live
    BY DEF Live
<1>2. parent' = parent /\ cptr' = cptr /\ optr' = optr /\ yptr' = yptr
    BY DEF links
<1>3. ListInv'
    <2>1. ASSUME NEW s \in Seq(Procs), NEW p \in Procs, Chain(s, p) PROVE Chain(s, p)'
        BY <1>1, <1>2, <2>1 DEF Chain, Elem
    <2> SUFFICES ASSUME NEW p \in Live PROVE \E s \in Seq(Procs) : Chain(s, p)'
        BY <1>1 DEF ListInv
    <2>2. PICK s \in Seq(Procs) : Chain(s, p)
        BY DEF LifeInv, ListInv
    <2>3. p \in Procs
        BY DEF Live
    <2> QED
        BY <2>1, <2>2, <2>3
<1>4. ParentCanWait'
    BY <1>1, <1>2 DEF LifeInv, ParentCanWait, Live
<1> QED
    BY <1>1, <1>3, <1>4

(* A step that neither reserves nor frees a slot keeps the count.          *)
LEMMA CountUntouched ==
    ASSUME LifeInv, nr_process' = nr_process, Live' = Live, Forking' = Forking
    PROVE  ProcessesCounted'
BY DEF LifeInv, ProcessesCounted

(* do_fork's reservation, and the path that gives it back.                 *)
LEMMA ReserveSteps ==
    ASSUME LifeInv, NEW p \in Procs, ForkReserve(p) \/ ForkFail(p)
    PROVE  LifeInv'
<1> USE DEF LifeInv
<1>0. ~broken /\ StateInv /\ FreedOff
    BY DEF ForkReserve, ForkFail, At
<1> USE <1>0
<1>1. /\ UNCHANGED <<state, parent, cptr, optr, yptr, wait_state, where, on_cpu, queued, late, sig, arg, owed, cpu_owed, broken>>
      /\ pc \in [Procs -> PCs] /\ nr_process \in 0 .. MAX_PROCESS
    BY DEF ForkReserve, ForkFail, links, run, TypeOK
<1>2. /\ UNCHANGED links
      /\ \A q \in Procs : /\ state'[q] = "FREE" <=> state[q] = "FREE"
                          /\ state'[q] = "ZOMBIE" <=> state[q] = "ZOMBIE"
    BY <1>1 DEF links
<1>3. ParentCanWait' /\ ListInv' /\ Live' = Live
    BY <1>2, FamilyUntouched
<1>4. ProcessesCounted' /\ nr_process' \in 0 .. MAX_PROCESS
    <2>1. CASE ForkReserve(p)
        <3>1. /\ pc[p] = "user" /\ nr_process < MAX_PROCESS /\ nr_process' = nr_process + 1
              /\ pc' = [pc EXCEPT ![p] = "forking"]
            BY <2>1 DEF ForkReserve, At, Goto, MayFork
        <3>2. Forking' = Forking \cup {p} /\ p \notin Forking
            BY <1>1, <3>1 DEF Forking
        <3>3. Cardinality(Forking') = Cardinality(Forking) + 1
            BY <3>2, CountTypes, FS_AddElement
        <3>4. Cardinality(Live') = Cardinality(Live)
            BY <1>3
        <3> QED
            BY <1>1, <3>1, <3>3, <3>4, CountTypes, ProcLifeAssumption DEF ProcessesCounted
    <2>2. CASE ForkFail(p)
        <3>1. /\ pc[p] = "forking" /\ nr_process' = nr_process - 1
              /\ pc' = [pc EXCEPT ![p] = "user"]
            BY <2>2 DEF ForkFail, At, Goto, Released
        <3>2. Forking' = Forking \ {p} /\ p \in Forking
            BY <1>1, <3>1 DEF Forking
        <3>3. Cardinality(Forking') = Cardinality(Forking) - 1
            BY <3>2, CountTypes, FS_RemoveElement
        <3>4. Cardinality(Live') = Cardinality(Live)
            BY <1>3
        <3> QED
            BY <1>1, <3>1, <3>3, <3>4, CountTypes, ProcLifeAssumption DEF ProcessesCounted
    <2> QED
        BY <2>1, <2>2
<1>5. TypeOK'
    <2>1. pc' \in [Procs -> PCs]
        BY <1>1 DEF ForkReserve, ForkFail, Goto, PCs
    <2> QED
        BY <1>1, <1>4, <2>1 DEF TypeOK
<1>6. StateInv'
    BY <1>1 DEF ForkReserve, ForkFail, Goto, At, StateInv, FreedOff, OffCpu
<1>7. FreedOff' /\ NoZombieUnnoticed'
    BY <1>1 DEF FreedOff, OffCpu, NoZombieUnnoticed, WaitsFor, Reapable
<1> QED
    BY <1>3, <1>4, <1>5, <1>6, <1>7

(* The steps of do_wait and of a handler that only move the process, its   *)
(* argument or its pending signal.                                         *)
LEMMA MoveSteps ==
    ASSUME LifeInv, NEW p \in Procs, NEW a \in Procs \cup {None},
           \/ WaitBegin(p, a) \/ WaitInterrupted(p) \/ WaitNoSignal(p)
           \/ WaitReturns(p) \/ SignalHandled(p)
    PROVE  LifeInv'
<1> USE DEF LifeInv
<1>0. ~broken /\ StateInv /\ FreedOff
    BY DEF WaitBegin, WaitInterrupted, WaitNoSignal, WaitReturns, SignalHandled, At
<1> USE <1>0
<1>1. /\ UNCHANGED <<state, parent, cptr, optr, yptr, wait_state, where, on_cpu, queued, late, owed, cpu_owed, nr_process, broken>>
      /\ \A q \in Procs : /\ state'[q] = "FREE" <=> state[q] = "FREE"
                          /\ state'[q] = "ZOMBIE" <=> state[q] = "ZOMBIE"
      /\ pc[p] \in {"user", "wait", "scan"} /\ where[p] = "cpu"
    BY DEF WaitBegin, WaitInterrupted, WaitNoSignal, WaitReturns, SignalHandled, At, links, run
<1>2. /\ pc' = pc \/ pc' = [pc EXCEPT ![p] = "wait"] \/ pc' = [pc EXCEPT ![p] = "scan"]
         \/ pc' = [pc EXCEPT ![p] = "user"]
      /\ arg' = arg \/ arg' = [arg EXCEPT ![p] = a] \/ arg' = [arg EXCEPT ![p] = None]
      /\ sig' = sig \/ sig' = [sig EXCEPT ![p] = FALSE]
    BY DEF WaitBegin, WaitInterrupted, WaitNoSignal, WaitReturns, SignalHandled, Goto, WaitDone
<1>3. ParentCanWait' /\ ListInv' /\ Live' = Live
    BY <1>1, FamilyUntouched DEF links
<1>4. TypeOK'
    <2>1. arg' \in [Procs -> Procs \cup {None}]
        BY <1>2, LinkTypes
    <2>2. pc' \in [Procs -> PCs]
        BY <1>2 DEF TypeOK, PCs
    <2>3. sig' \in [Procs -> BOOLEAN]
        BY <1>2 DEF TypeOK
    <2> QED
        BY <1>1, <2>1, <2>2, <2>3 DEF TypeOK
<1>5. ProcessesCounted'
    <2>1. Forking' = Forking
        BY <1>1, <1>2 DEF Forking, TypeOK
    <2> QED
        BY <1>1, <1>3, <2>1, CountUntouched
<1>6. StateInv' /\ FreedOff'
    BY <1>1, <1>2 DEF StateInv, FreedOff, OffCpu, TypeOK
<1>7. NoZombieUnnoticed'
    <2>1. wait_state[p] # "CHILD"
        BY <1>1 DEF StateInv
    <2>2. \A q \in Procs : q # p => arg'[q] = arg[q]
        BY <1>2, LinkTypes
    <2> QED
        BY <1>1, <2>1, <2>2 DEF NoZombieUnnoticed, WaitsFor, Reapable
<1> QED
    BY <1>1, <1>3, <1>4, <1>5, <1>6, <1>7

(* do_wait(0) walks all the children, do_wait(pid) looks at that child.    *)
LEMMA CandidatesComplete ==
    ASSUME LifeInv, NEW p \in Live, NEW c \in Procs, WaitsFor(p, c), c # init
    PROVE  \E i \in DOMAIN Candidates(p) : Candidates(p)[i] = c
<1> p \in Procs
    BY DEF Live
<1>1. CASE arg[p] = None
    <2>1. PICK s \in Seq(Procs) : Chain(s, p)
        BY DEF LifeInv, ListInv
    <2>2. Candidates(p) = s
        BY <1>1, <2>1, WalkFindsList DEF Candidates
    <2>3. On(s, c)
        BY <2>1 DEF Chain, WaitsFor, Live
    <2>4. DOMAIN s = 1 .. Len(s)
        BY LenProperties
    <2> QED
        BY <2>2, <2>3, <2>4 DEF On
<1>2. CASE arg[p] = c
    <2>1. c # None
        BY ProcLifeAssumption
    <2>2. Candidates(p) = <<c>>
        BY <1>2, <2>1 DEF Candidates, WaitsFor
    <2> QED
        BY <2>2
<1> QED
    BY <1>1, <1>2 DEF WaitsFor

(* do_wait goes to sleep: it has just seen that no child is reapable.      *)
LEMMA SleepStep ==
    ASSUME LifeInv, NEW p \in Procs, WaitSleep(p)
    PROVE  LifeInv'
<1> USE DEF LifeInv
<1>0. ~broken /\ StateInv /\ FreedOff
    BY DEF WaitSleep, At
<1> USE <1>0
<1>1. /\ UNCHANGED <<parent, cptr, optr, yptr, where, on_cpu, queued, late, sig, arg, owed, cpu_owed, nr_process, broken>>
      /\ pc[p] = "scan" /\ where[p] = "cpu"
      /\ state' = [state EXCEPT ![p] = "SLEEPING"]
      /\ wait_state' = [wait_state EXCEPT ![p] = "CHILD"]
      /\ pc' = [pc EXCEPT ![p] = "slept"]
      /\ \A i \in DOMAIN Candidates(p) : ~ Reapable(Candidates(p)[i])
    BY DEF WaitSleep, At, Goto, links, run
<1>2. state[p] \notin {"FREE", "ZOMBIE"}
    BY <1>1 DEF StateInv, FreedOff, OffCpu
<1>3. \A q \in Procs : /\ state'[q] = "FREE" <=> state[q] = "FREE"
                       /\ state'[q] = "ZOMBIE" <=> state[q] = "ZOMBIE"
    BY <1>1, <1>2 DEF TypeOK
<1>4. ParentCanWait' /\ ListInv' /\ Live' = Live
    <2>1. links' = links
        BY <1>1 DEF links
    <2> HIDE DEF LifeInv
    <2> QED
        BY <1>3, <2>1, FamilyUntouched
<1>5. TypeOK'
    <2>1. pc' \in [Procs -> PCs]
        BY <1>1 DEF TypeOK, PCs
    <2> QED
        BY <1>1, <2>1 DEF TypeOK
<1>6. ProcessesCounted'
    <2>1. Forking' = Forking
        BY <1>1 DEF Forking, TypeOK
    <2> QED
        BY <1>1, <1>4, <2>1, CountUntouched
<1>7. StateInv' /\ FreedOff'
    BY <1>1, <1>2 DEF StateInv, FreedOff, OffCpu, TypeOK
<1>8. NoZombieUnnoticed'
    <2> SUFFICES ASSUME NEW q \in Procs, NEW c \in Procs,
                        (wait_state[q] = "CHILD")', WaitsFor(q, c)', Reapable(c)'
                 PROVE  q \in cpu_owed' \/ \E k \in Procs : q \in owed'[k]
        BY DEF NoZombieUnnoticed
    <2>1. WaitsFor(q, c) /\ Reapable(c) /\ c # init
        BY <1>1, <1>3 DEF WaitsFor, Reapable, StateInv
    <2>2. CASE q = p
        <3>1. p \in Live
            BY <1>2 DEF Live
        <3>2. \E i \in DOMAIN Candidates(p) : Candidates(p)[i] = c
            BY <2>1, <2>2, <3>1, CandidatesComplete
        <3> QED
            BY <1>1, <2>1, <3>2
    <2>3. CASE q # p
        BY <1>1, <2>1, <2>3 DEF NoZombieUnnoticed, TypeOK
    <2> QED
        BY <2>2, <2>3
<1> QED
    BY <1>4, <1>5, <1>6, <1>7, <1>8

(* schedule(), the end of a switch, and the pick of a queued process.      *)
LEMMA SwitchSteps ==
    ASSUME LifeInv, NEW p \in Procs,
           CallSchedule(p) \/ SwitchComplete(p) \/ SwitchCompleteLate(p) \/ Dispatch(p)
    PROVE  LifeInv'
<1> USE DEF LifeInv
<1>0. ~broken /\ StateInv /\ FreedOff
    BY DEF CallSchedule, SwitchComplete, SwitchCompleteLate, Dispatch, At
<1> USE <1>0
<1>1. /\ UNCHANGED <<state, parent, cptr, optr, yptr, wait_state, sig, arg, owed, nr_process>>
      /\ \A q \in Procs : /\ state'[q] = "FREE" <=> state[q] = "FREE"
                          /\ state'[q] = "ZOMBIE" <=> state[q] = "ZOMBIE"
    BY DEF CallSchedule, SwitchComplete, SwitchCompleteLate, Retires, Dispatch, links
<1>2. ParentCanWait' /\ ListInv' /\ Live' = Live
    BY <1>1, FamilyUntouched DEF links
<1>3. CASE CallSchedule(p)
    <2>1. /\ where[p] = "cpu" /\ pc[p] \in {"user", "slept", "dead"} /\ owed[p] = {} /\ cpu_owed' = cpu_owed
          /\ UNCHANGED <<on_cpu, late, broken>>
          /\ \/ state[p] = "RUNNABLE" /\ pc[p] = "slept" /\ pc' = [pc EXCEPT ![p] = "wait"] /\ UNCHANGED <<where, queued>>
             \/ /\ pc' = pc /\ where' = [where EXCEPT ![p] = "switching"]
                /\ queued' = [queued EXCEPT ![p] = @ \/ state[p] = "RUNNABLE"]
        BY <1>3 DEF CallSchedule, At, Goto
    <2>2. TypeOK'
        <3>1. pc' \in [Procs -> PCs] /\ where' \in [Procs -> {"cpu", "switching", "off"}]
            BY <2>1 DEF TypeOK, PCs
        <3>2. queued' \in [Procs -> BOOLEAN]
            BY <2>1 DEF TypeOK
        <3> QED
            BY <1>1, <2>1, <3>1, <3>2 DEF TypeOK
    <2>3. ProcessesCounted'
        <3>1. Forking' = Forking
            BY <2>1 DEF Forking, TypeOK
        <3> QED
            BY <1>1, <1>2, <3>1, CountUntouched
    <2>4. StateInv'
        BY <1>1, <2>1 DEF StateInv, TypeOK
    <2>6. FreedOff'
        BY <1>1, <2>1 DEF FreedOff, OffCpu, TypeOK
    <2>5. NoZombieUnnoticed'
        BY <1>1, <2>1 DEF NoZombieUnnoticed, WaitsFor, Reapable, TypeOK
    <2> QED
        BY <1>2, <2>2, <2>3, <2>4, <2>5, <2>6
<1>4. CASE SwitchComplete(p) \/ SwitchCompleteLate(p)
    <2>1. /\ where[p] = "switching" \/ p \in late
          /\ pc' = pc /\ UNCHANGED <<queued, broken>>
          /\ where' = where \/ (where[p] = "switching" /\ where' = [where EXCEPT ![p] = "off"])
          /\ late' \subseteq late
          /\ on_cpu' = [on_cpu EXCEPT ![p] = FALSE]
          /\ cpu_owed' = cpu_owed \cup SwitchWakes(p)
        BY <1>4 DEF SwitchComplete, SwitchCompleteLate, Retires
    <2>2. TypeOK'
        <3>1. where' \in [Procs -> {"cpu", "switching", "off"}] /\ on_cpu' \in [Procs -> BOOLEAN]
            BY <2>1 DEF TypeOK
        <3>2. cpu_owed' \subseteq Procs /\ late' \subseteq Procs
            BY <2>1 DEF TypeOK, SwitchWakes
        <3> QED
            BY <1>1, <2>1, <3>1, <3>2 DEF TypeOK
    <2>3. ProcessesCounted'
        <3>1. Forking' = Forking
            BY <2>1 DEF Forking
        <3> QED
            BY <1>1, <1>2, <3>1, CountUntouched
    <2>4. StateInv'
        BY <1>1, <2>1 DEF StateInv, TypeOK
    <2>6. FreedOff'
        BY <1>1, <2>1 DEF FreedOff, OffCpu, TypeOK
    <2>5. NoZombieUnnoticed'
        BY <1>1, <2>1 DEF NoZombieUnnoticed, WaitsFor, Reapable, TypeOK, SwitchWakes
    <2> QED
        BY <1>2, <2>2, <2>3, <2>4, <2>5, <2>6
<1>5. CASE Dispatch(p)
    <2>1. /\ queued[p] /\ cpu_owed' = cpu_owed
          /\ where' = [where EXCEPT ![p] = "cpu"] /\ on_cpu' = [on_cpu EXCEPT ![p] = TRUE]
          /\ queued' = [queued EXCEPT ![p] = FALSE]
          /\ late' = late \/ late' = late \cup {p}
          /\ broken' \in BOOLEAN /\ (~broken' => state[p] = "RUNNABLE")
          /\ \/ pc[p] = "slept" /\ pc' = [pc EXCEPT ![p] = "wait"]
             \/ pc' = pc
        BY <1>5 DEF Dispatch, Goto, TypeOK
    <2>2. TypeOK'
        <3>1. pc' \in [Procs -> PCs] /\ where' \in [Procs -> {"cpu", "switching", "off"}]
            BY <2>1 DEF TypeOK, PCs
        <3>2. on_cpu' \in [Procs -> BOOLEAN] /\ queued' \in [Procs -> BOOLEAN] /\ late' \subseteq Procs
            BY <2>1 DEF TypeOK
        <3> QED
            BY <1>1, <2>1, <3>1, <3>2 DEF TypeOK
    <2>3. ProcessesCounted'
        <3>1. Forking' = Forking
            BY <2>1 DEF Forking, TypeOK
        <3> QED
            BY <1>1, <1>2, <3>1, CountUntouched
    <2>4. ASSUME ~broken' PROVE StateInv'
        BY <1>1, <2>1, <2>4 DEF StateInv, TypeOK
    <2>6. FreedOff'
        BY <1>1, <2>1 DEF FreedOff, OffCpu, TypeOK
    <2>5. NoZombieUnnoticed'
        BY <1>1, <2>1 DEF NoZombieUnnoticed, WaitsFor, Reapable, TypeOK
    <2> QED
        BY <1>2, <2>2, <2>3, <2>4, <2>5, <2>6
<1> QED
    BY <1>3, <1>4, <1>5

(* wakeup_proc(q), whoever calls it, with the bookkeeping of the call.     *)
LEMMA WakeSteps ==
    ASSUME LifeInv, NEW p \in Procs, NEW q \in Procs, OwedWake(p, q) \/ CpuWake(q)
    PROVE  LifeInv'
<1> USE DEF LifeInv
<1>0. ~broken /\ StateInv /\ FreedOff
    BY DEF OwedWake, CpuWake
<1> USE <1>0
<1>1. /\ UNCHANGED <<parent, cptr, optr, yptr, sig, arg, nr_process>>
      /\ broken' \in BOOLEAN
      /\ \/ cpu_owed' = cpu_owed \ {q} /\ owed' = owed /\ pc' = pc
         \/ /\ cpu_owed' = cpu_owed /\ owed' = [owed EXCEPT ![p] = @ \ {q}]
            /\ pc' = [pc EXCEPT ![p] = IF @ = "killing" THEN "user" ELSE @]
      /\ WakeupProc(q)
    BY DEF OwedWake, CpuWake, WakeupProc, links
<1>2. /\ state' \in [Procs -> {"FREE", "UNINIT", "RUNNABLE", "SLEEPING", "ZOMBIE"}]
      /\ \A r \in Procs : r # q => state'[r] = state[r]
      /\ state[q] \in {"UNINIT", "SLEEPING", "RUNNABLE"} => state'[q] = "RUNNABLE"
      /\ state[q] \in {"FREE", "ZOMBIE"} => state'[q] = state[q]
    BY <1>1 DEF WakeupProc, TypeOK
<1>3. /\ wait_state' \in [Procs -> {"0", "CHILD"}]
      /\ \A r \in Procs : r # q => wait_state'[r] = wait_state[r]
      /\ wait_state'[q] = IF state[q] \in {"UNINIT", "SLEEPING"} THEN "0" ELSE wait_state[q]
    BY <1>1 DEF WakeupProc, WaitStateCleared, TypeOK
<1>4. /\ queued' \in [Procs -> BOOLEAN] /\ UNCHANGED <<where, on_cpu, late>>
      /\ \A r \in Procs : r # q \/ state[q] = "FREE" => queued'[r] = queued[r]
    BY <1>1 DEF WakeupProc, TypeOK
<1>5. wait_state'[q] # "CHILD"
    BY <1>3 DEF StateInv, TypeOK
<1>6. /\ pc' \in [Procs -> PCs]
      /\ \A r \in Procs : pc'[r] = pc[r] \/ (pc[r] = "killing" /\ pc'[r] = "user")
    BY <1>1 DEF TypeOK, PCs
<1>7. /\ owed' \in [Procs -> SUBSET Procs] /\ cpu_owed' \subseteq Procs
      /\ \A r \in Procs : owed'[r] \subseteq owed[r]
      /\ \A r \in Procs \ {q} : r \in cpu_owed => r \in cpu_owed'
      /\ \A k \in Procs : \A r \in Procs \ {q} : r \in owed[k] => r \in owed'[k]
    BY <1>1 DEF TypeOK
<1>8. \A r \in Procs : /\ state'[r] = "FREE" <=> state[r] = "FREE"
                       /\ state'[r] = "ZOMBIE" <=> state[r] = "ZOMBIE"
    BY <1>2 DEF TypeOK
<1>9. ParentCanWait' /\ ListInv' /\ Live' = Live
    <2>1. links' = links
        BY <1>1 DEF links
    <2> HIDE DEF LifeInv
    <2> QED
        BY <1>8, <2>1, FamilyUntouched
<1>10. TypeOK'
    BY <1>1, <1>2, <1>3, <1>4, <1>6, <1>7 DEF TypeOK
<1>11. ProcessesCounted'
    <2>1. Forking' = Forking
        BY <1>6 DEF Forking
    <2> QED
        BY <1>1, <1>9, <2>1, CountUntouched
<1>12. StateInv'
    <2>1. ASSUME NEW r \in Procs
          PROVE  /\ wait_state'[r] = "CHILD" <=> state'[r] = "SLEEPING"
                 /\ state'[r] = "SLEEPING" => pc'[r] = "slept"
                 /\ pc'[r] = "dead" <=> state'[r] = "ZOMBIE"
        BY <1>2, <1>3, <1>5, <1>6, <1>8 DEF StateInv, TypeOK
    <2>2. ASSUME NEW r \in Procs
          PROVE  /\ parent'[r] # r
                 /\ where'[r] # "cpu" => owed'[r] = {}
                 /\ state'[r] = "FREE" => pc'[r] = "user"
        BY <1>1, <1>2, <1>4, <1>6, <1>7, <1>8 DEF StateInv, TypeOK
    <2>3. state'[init] \notin {"FREE", "ZOMBIE"}
        BY <1>8, ProcLifeAssumption DEF StateInv
    <2> QED
        BY <2>1, <2>2, <2>3 DEF StateInv
<1>13. FreedOff'
    BY <1>4, <1>8 DEF FreedOff, OffCpu
<1>14. NoZombieUnnoticed'
    <2> SUFFICES ASSUME NEW r \in Procs, NEW c \in Procs,
                        (wait_state[r] = "CHILD")', WaitsFor(r, c)', Reapable(c)'
                 PROVE  r \in cpu_owed' \/ \E k \in Procs : r \in owed'[k]
        BY DEF NoZombieUnnoticed
    <2>1. r # q /\ wait_state[r] = "CHILD" /\ WaitsFor(r, c)
        BY <1>1, <1>3, <1>5, <1>8 DEF WaitsFor
    <2>2. Reapable(c)
        BY <1>4, <1>8 DEF Reapable
    <2> QED
        BY <1>7, <2>1, <2>2 DEF NoZombieUnnoticed
<1> QED
    BY <1>9, <1>10, <1>11, <1>12, <1>13, <1>14

(* do_kill_signal.                                                         *)
LEMMA KillStep ==
    ASSUME LifeInv, NEW p \in Procs, NEW q \in Procs, Kill(p, q)
    PROVE  LifeInv'
<1> USE DEF LifeInv
<1>0. ~broken /\ StateInv /\ FreedOff
    BY DEF Kill, At
<1> USE <1>0
<1>1. /\ UNCHANGED <<parent, cptr, optr, yptr, where, on_cpu, queued, late, arg, cpu_owed, nr_process, broken>>
      /\ where[p] = "cpu" /\ pc[p] = "user" /\ owed[p] = {}
      /\ state[q] \notin {"FREE", "ZOMBIE"}
      /\ sig' = [sig EXCEPT ![q] = TRUE]
    BY DEF Kill, At, links, run
<1>2. CASE wait_state[q] = "CHILD"
    <2>1. /\ state' = [state EXCEPT ![q] = "RUNNABLE"]
          /\ wait_state' = [wait_state EXCEPT ![q] = "0"]
          /\ owed' = [owed EXCEPT ![p] = {q}]
          /\ pc' = [pc EXCEPT ![p] = "killing"]
        BY <1>2 DEF Kill
    <2>2. \A r \in Procs : /\ state'[r] = "FREE" <=> state[r] = "FREE"
                           /\ state'[r] = "ZOMBIE" <=> state[r] = "ZOMBIE"
        BY <1>1, <2>1 DEF TypeOK
    <2>3. ParentCanWait' /\ ListInv' /\ Live' = Live
        <3>1. links' = links
            BY <1>1 DEF links
        <3> HIDE DEF LifeInv
        <3> QED
            BY <2>2, <3>1, FamilyUntouched
    <2>4. TypeOK'
        <3>1. pc' \in [Procs -> PCs]
            BY <2>1 DEF TypeOK, PCs
        <3>2. sig' \in [Procs -> BOOLEAN]
            BY <1>1 DEF TypeOK
        <3>3. owed' \in [Procs -> SUBSET Procs]
            BY <2>1 DEF TypeOK
        <3> QED
            BY <1>1, <2>1, <3>1, <3>2, <3>3 DEF TypeOK
    <2>5. ProcessesCounted'
        <3>1. Forking' = Forking
            BY <1>1, <2>1 DEF Forking, TypeOK
        <3> QED
            BY <1>1, <2>3, <3>1, CountUntouched
    <2>6. StateInv' /\ FreedOff'
        BY <1>1, <2>1 DEF StateInv, FreedOff, OffCpu, TypeOK
    <2>7. NoZombieUnnoticed'
        <3>1. \A r \in Procs \ {q} : wait_state'[r] = wait_state[r]
            BY <2>1 DEF TypeOK
        <3>2. wait_state'[q] # "CHILD"
            BY <2>1 DEF TypeOK
        <3>3. \A k \in Procs : \A r \in Procs : r \in owed[k] => r \in owed'[k]
            BY <1>1, <2>1 DEF TypeOK
        <3> QED
            BY <1>1, <2>2, <3>1, <3>2, <3>3 DEF NoZombieUnnoticed, WaitsFor, Reapable
    <2> QED
        BY <2>3, <2>4, <2>5, <2>6, <2>7
<1>3. CASE wait_state[q] # "CHILD"
    <2>1. state' = state /\ wait_state' = wait_state /\ owed' = owed /\ pc' = pc
        BY <1>1, <1>3 DEF Kill, TypeOK
    <2>2. ParentCanWait' /\ ListInv' /\ Live' = Live
        <3>1. links' = links
            BY <1>1 DEF links
        <3> HIDE DEF LifeInv
        <3> QED
            BY <2>1, <3>1, FamilyUntouched
    <2>3. TypeOK'
        <3>1. sig' \in [Procs -> BOOLEAN]
            BY <1>1 DEF TypeOK
        <3> QED
            BY <1>1, <2>1, <3>1 DEF TypeOK
    <2>4. ProcessesCounted'
        <3>1. Forking' = Forking
            BY <2>1 DEF Forking
        <3> QED
            BY <1>1, <2>2, <3>1, CountUntouched
    <2>5. StateInv' /\ FreedOff' /\ NoZombieUnnoticed'
        BY <1>1, <2>1 DEF StateInv, FreedOff, OffCpu, NoZombieUnnoticed, WaitsFor, Reapable
    <2> QED
        BY <2>2, <2>3, <2>4, <2>5
<1> QED
    BY <1>2, <1>3

(* What a list of children says about a process and its neighbours.        *)
LEMMA ChainFacts ==
    ASSUME LifeInv, NEW p \in Live, NEW s \in Seq(Procs), Chain(s, p)
    PROVE  /\ Len(s) \in Nat /\ p \in Procs
           /\ \A i \in 1 .. Len(s) : /\ s[i] \in Live \ {init} /\ s[i] \in Procs
                                     /\ s[i] # None /\ parent[s[i]] = p
<1>1. \A i \in 1 .. Len(s) : s[i] \in Procs /\ On(s, s[i])
    BY ElementOfSeq DEF On
<1>2. \A i \in 1 .. Len(s) : s[i] \in Live \ {init} /\ parent[s[i]] = p
    BY <1>1 DEF Chain
<1> QED
    BY <1>1, <1>2, LenProperties, ProcLifeAssumption DEF Live

(* The list of another family survives a step that changes none of its     *)
(* pointers and neither adds to nor takes from it.                         *)
LEMMA ChainSame ==
    ASSUME NEW p \in Procs, NEW s \in Seq(Procs), Chain(s, p),
           cptr'[p] = cptr[p],
           \A i \in 1 .. Len(s) : optr'[s[i]] = optr[s[i]] /\ yptr'[s[i]] = yptr[s[i]],
           \A q \in Procs : (q \in Live' \ {init} /\ parent'[q] = p) <=> (q \in Live \ {init} /\ parent[q] = p)
    PROVE  Chain(s, p)'
BY DEF Chain, Elem

(* do_fork puts the child at the head of its parent's list.                *)
LEMMA ForkLists ==
    ASSUME LifeInv, NEW p \in Procs, NEW c \in Procs, ForkLink(p, c)
    PROVE  ListInv' /\ ParentCanWait' /\ Live' = Live \cup {c}
<1>1. /\ state[c] = "FREE" /\ where[p] = "cpu" /\ pc[p] = "forking"
      /\ state' = [state EXCEPT ![c] = "UNINIT"]
      /\ parent' = [parent EXCEPT ![c] = p]
      /\ optr' = [optr EXCEPT ![c] = cptr[p]]
      /\ yptr' = [q \in Procs |-> IF q = c THEN None ELSE IF q = cptr[p] THEN c ELSE yptr[q]]
      /\ cptr' = [cptr EXCEPT ![p] = c, ![c] = None]
      /\ ~broken
    BY DEF ForkLink, At, run
<1>2. /\ state \in [Procs -> {"FREE", "UNINIT", "RUNNABLE", "SLEEPING", "ZOMBIE"}]
      /\ parent \in [Procs -> Procs \cup {None}] /\ cptr \in [Procs -> Procs \cup {None}]
      /\ optr \in [Procs -> Procs \cup {None}] /\ yptr \in [Procs -> Procs \cup {None}]
    BY LinkTypes DEF LifeInv, TypeOK
<1>3. state[p] \notin {"FREE", "ZOMBIE"} /\ p # c /\ c # init /\ init \in Procs /\ None \notin Procs
    BY <1>1, ProcLifeAssumption DEF LifeInv, StateInv, FreedOff, OffCpu
<1>4. Live' = Live \cup {c} /\ c \notin Live /\ p \in Live
    BY <1>1, <1>2, <1>3 DEF Live
<1>5. \A q \in Procs : q \in Live \ {init} => parent[q] # c
    BY <1>1 DEF LifeInv, ParentCanWait, Live
<1>6. ParentCanWait'
    <2> SUFFICES ASSUME NEW q \in Live' \ {init}
                 PROVE  parent'[q] \in Live' /\ state'[parent'[q]] # "ZOMBIE"
        BY DEF ParentCanWait
    <2>1. CASE q = c
        BY <1>1, <1>2, <1>3, <1>4, <2>1
    <2>2. CASE q # c
        <3>1. q \in Live \ {init} /\ q \in Procs
            BY <1>4, <2>2 DEF Live
        <3>2. parent'[q] = parent[q] /\ parent[q] # c /\ parent[q] \in Live /\ state[parent[q]] # "ZOMBIE"
            BY <1>1, <1>2, <1>5, <2>2, <3>1 DEF LifeInv, ParentCanWait
        <3>3. state'[parent[q]] = state[parent[q]]
            BY <1>1, <1>2, <3>2 DEF Live
        <3> QED
            BY <1>4, <3>2, <3>3
    <2> QED
        BY <2>1, <2>2
<1>7. PICK s \in Seq(Procs) : Chain(s, p)
    BY <1>4 DEF LifeInv, ListInv
<1>8. /\ Len(s) \in Nat
      /\ \A i \in 1 .. Len(s) : s[i] \in Live /\ s[i] \in Procs /\ s[i] # c /\ s[i] # None
    BY <1>4, <1>7, ChainFacts
<1> DEFINE k == 0
           t == InsertAt(s, k + 1, c)
<1>k. k = 0 /\ k \in 0 .. Len(s)
    BY <1>8
<1> HIDE DEF k
<1>9. t \in Seq(Procs) /\ Len(t) = Len(s) + 1
    BY <1>k, InsertAtProps
<1>16. \A i \in 1 .. Len(s) + 1 : t[i] = IF i <= k THEN s[i] ELSE IF i = k + 1 THEN c ELSE s[i - 1]
    BY <1>k, InsertAtProps
<1>10. Distinct(t) /\ \A q : On(t, q) <=> On(s, q) \/ q = c
    <2>1. Distinct(s) /\ ~ On(s, c)
        BY <1>7, <1>8 DEF Chain, On
    <2> QED
        BY <1>k, <2>1, InsertAtOn
<1> HIDE DEF t
<1>11. t[1] = c /\ \A i \in 2 .. Len(t) : t[i] = s[i - 1]
    BY <1>8, <1>9, <1>16, <1>k
<1>12. Chain(t, p)'
    <2>1. cptr'[p] = c
        BY <1>1, <1>2, <1>3
    <2>2. optr'[c] = Elem(t, 2) /\ yptr'[c] = Elem(t, 0)
        <3>1. optr'[c] = cptr[p] /\ yptr'[c] = None
            BY <1>1, <1>2
        <3>2. cptr[p] = Elem(s, 1)
            BY <1>7 DEF Chain
        <3> QED
            BY <1>8, <1>9, <1>11, <3>1, <3>2 DEF Elem
    <2>3. ASSUME NEW i \in 2 .. Len(t)
          PROVE  optr'[t[i]] = Elem(t, i + 1) /\ yptr'[t[i]] = Elem(t, i - 1)
        <3>1. i - 1 \in 1 .. Len(s) /\ t[i] = s[i - 1] /\ s[i - 1] # c /\ s[i - 1] \in Procs
            BY <1>8, <1>9, <1>11
        <3>2. optr'[t[i]] = optr[s[i - 1]]
            BY <1>1, <1>2, <3>1
        <3>3. optr[s[i - 1]] = Elem(s, i) /\ yptr[s[i - 1]] = Elem(s, (i - 1) - 1)
            BY <1>7, <3>1, SMTT(60) DEF Chain
        <3>4. Elem(s, i) = Elem(t, i + 1)
            BY <1>8, <1>9, <1>11 DEF Elem
        <3>5. CASE i = 2
            <4>1. cptr[p] = s[1]
                BY <1>7, <3>1, <3>5 DEF Chain, Elem
            <4>2. yptr'[t[i]] = c
                BY <1>1, <3>1, <3>5, <4>1
            <4>3. Elem(t, i - 1) = c
                BY <1>8, <1>9, <1>11, <3>5 DEF Elem
            <4> QED
                BY <3>2, <3>3, <3>4, <4>2, <4>3
        <3>6. CASE i # 2
            <4>1. cptr[p] # s[i - 1]
                BY <1>7, <1>8, <3>1, <3>6 DEF Chain, Elem, Distinct
            <4>2. yptr'[t[i]] = yptr[s[i - 1]]
                BY <1>1, <3>1, <4>1
            <4>3. Elem(s, (i - 1) - 1) = Elem(t, i - 1)
                BY <1>8, <1>9, <1>11, <3>6 DEF Elem
            <4> QED
                BY <3>2, <3>3, <3>4, <4>2, <4>3
        <3> QED
            BY <3>5, <3>6
    <2>4. \A q \in Procs : On(t, q) <=> q \in Live' \ {init} /\ parent'[q] = p
        <3>1. \A q \in Procs : On(s, q) <=> q \in Live \ {init} /\ parent[q] = p
            BY <1>7 DEF Chain
        <3>2. \A q \in Procs : q # c => parent'[q] = parent[q]
            BY <1>1, <1>2
        <3>3. parent'[c] = p
            BY <1>1, <1>2
        <3> QED
            BY <1>3, <1>4, <1>10, <3>1, <3>2, <3>3
    <2>5. cptr'[p] = Elem(t, 1)
        BY <1>8, <1>9, <1>11, <2>1 DEF Elem
    <2>6. \A i \in 1 .. Len(t) : optr'[t[i]] = Elem(t, i + 1) /\ yptr'[t[i]] = Elem(t, i - 1)
        <3> TAKE i \in 1 .. Len(t)
        <3>1. CASE i = 1
            BY <1>11, <2>2, <3>1
        <3>2. CASE i # 1
            <4>1. i \in 2 .. Len(t)
                BY <3>2
            <4> QED
                BY <2>3, <4>1
        <3> QED
            BY <3>1, <3>2
    <2> QED
        BY <1>10, <2>4, <2>5, <2>6 DEF Chain, Elem
<1>13. <<>> \in Seq(Procs) /\ Chain(<<>>, c)'
    <2>1. cptr'[c] = None
        BY <1>1, <1>2, <1>3
    <2>2. \A q \in Procs : ~ (q \in Live' \ {init} /\ parent'[q] = c)
        BY <1>1, <1>2, <1>3, <1>4, <1>5
    <2>3. <<>> \in Seq(Procs) /\ Len(<<>>) = 0
        BY EmptySeq
    <2> QED
        BY <2>1, <2>2, <2>3 DEF Chain, Distinct, On, Elem
<1>14. ASSUME NEW q \in Live, q # p
       PROVE  \E u \in Seq(Procs) : Chain(u, q)'
    <2>1. PICK u \in Seq(Procs) : Chain(u, q)
        BY DEF LifeInv, ListInv
    <2>2. /\ q \in Procs /\ q # c
          /\ \A i \in 1 .. Len(u) : u[i] \in Live /\ u[i] \in Procs /\ u[i] # c /\ parent[u[i]] = q
        BY <1>4, <2>1, ChainFacts
    <2>3. \A i \in 1 .. Len(u) : u[i] # cptr[p]
        <3>1. cptr[p] # None => 1 \in 1 .. Len(s) /\ cptr[p] = s[1] /\ parent[s[1]] = p
            BY <1>4, <1>7, ChainFacts DEF Chain, Elem
        <3> QED
            BY <1>3, <1>14, <2>2, <3>1
    <2>4. cptr'[q] = cptr[q]
        BY <1>1, <1>2, <1>14, <2>2
    <2>5. \A i \in 1 .. Len(u) : optr'[u[i]] = optr[u[i]] /\ yptr'[u[i]] = yptr[u[i]]
        BY <1>1, <1>2, <2>2, <2>3
    <2>6. \A r \in Procs : (r \in Live' \ {init} /\ parent'[r] = q) <=> (r \in Live \ {init} /\ parent[r] = q)
        BY <1>1, <1>2, <1>4, <1>14
    <2> QED
        BY <2>1, <2>2, <2>4, <2>5, <2>6, ChainSame
<1>15. ListInv'
    <2> SUFFICES ASSUME NEW q \in Live' PROVE \E u \in Seq(Procs) : Chain(u, q)'
        BY DEF ListInv
    <2> QED
        BY <1>4, <1>9, <1>12, <1>13, <1>14
<1> QED
    BY <1>4, <1>6, <1>15

(* do_fork links the child.                                                *)
LEMMA ForkLinkStep ==
    ASSUME LifeInv, NEW p \in Procs, NEW c \in Procs, ForkLink(p, c)
    PROVE  LifeInv'
<1> USE DEF LifeInv
<1>0. ~broken /\ StateInv /\ FreedOff
    BY DEF ForkLink, At
<1> USE <1>0
<1>1. /\ state[c] = "FREE" /\ where[p] = "cpu" /\ pc[p] = "forking" /\ owed[p] = {}
      /\ state' = [state EXCEPT ![c] = "UNINIT"]
      /\ parent' = [parent EXCEPT ![c] = p]
      /\ optr' = [optr EXCEPT ![c] = cptr[p]]
      /\ yptr' = [q \in Procs |-> IF q = c THEN None ELSE IF q = cptr[p] THEN c ELSE yptr[q]]
      /\ cptr' = [cptr EXCEPT ![p] = c, ![c] = None]
      /\ sig' = [sig EXCEPT ![c] = FALSE]
      /\ pc' = [pc EXCEPT ![p] = "user", ![c] = "user"]
      /\ owed' = [owed EXCEPT ![p] = {c}]
      /\ UNCHANGED <<wait_state, where, on_cpu, queued, late, arg, cpu_owed, nr_process, broken>>
    BY DEF ForkLink, At, run
<1>2. ListInv' /\ ParentCanWait' /\ Live' = Live \cup {c}
    BY ForkLists
<1>3. state[p] \notin {"FREE", "ZOMBIE", "SLEEPING"} /\ p # c /\ c # init /\ init \in Procs
    BY <1>1, ProcLifeAssumption DEF StateInv, FreedOff, OffCpu
<1>4. TypeOK'
    <2>1. /\ parent' \in [Procs -> Procs \cup {None}] /\ cptr' \in [Procs -> Procs \cup {None}]
          /\ optr' \in [Procs -> Procs \cup {None}]
        BY <1>1, LinkTypes
    <2>2. yptr' \in [Procs -> Procs \cup {None}]
        BY <1>1, LinkTypes
    <2>3. pc' \in [Procs -> PCs]
        BY <1>1 DEF TypeOK, PCs
    <2>4. sig' \in [Procs -> BOOLEAN]
        BY <1>1 DEF TypeOK
    <2>5. owed' \in [Procs -> SUBSET Procs]
        BY <1>1 DEF TypeOK
    <2>6. state' \in [Procs -> {"FREE", "UNINIT", "RUNNABLE", "SLEEPING", "ZOMBIE"}]
        BY <1>1 DEF TypeOK
    <2> QED
        BY <1>1, <2>1, <2>2, <2>3, <2>4, <2>5, <2>6 DEF TypeOK
<1>5. ProcessesCounted'
    <2>1. Forking' = Forking \ {p} /\ p \in Forking
        BY <1>1 DEF Forking, TypeOK, StateInv
    <2>2. Cardinality(Forking') = Cardinality(Forking) - 1
        BY <2>1, CountTypes, FS_RemoveElement
    <2>3. c \notin Live
        BY <1>1 DEF Live
    <2>4. Cardinality(Live') = Cardinality(Live) + 1
        BY <1>2, <2>3, CountTypes, FS_AddElement
    <2> QED
        BY <1>1, <2>2, <2>4, CountTypes DEF ProcessesCounted
<1>6. StateInv'
    BY <1>1, <1>3 DEF StateInv, TypeOK, FreedOff, OffCpu
<1>7. FreedOff'
    BY <1>1 DEF FreedOff, OffCpu, TypeOK
<1>8. NoZombieUnnoticed'
    <2> SUFFICES ASSUME NEW r \in Procs, NEW d \in Procs,
                        (wait_state[r] = "CHILD")', WaitsFor(r, d)', Reapable(d)'
                 PROVE  r \in cpu_owed' \/ \E k \in Procs : r \in owed'[k]
        BY DEF NoZombieUnnoticed
    <2>1. d # c /\ wait_state[r] = "CHILD" /\ WaitsFor(r, d) /\ Reapable(d)
        BY <1>1 DEF WaitsFor, Reapable, TypeOK
    <2>2. \A k \in Procs : r \in owed[k] => r \in owed'[k]
        BY <1>1 DEF TypeOK
    <2> QED
        BY <1>1, <2>1, <2>2 DEF NoZombieUnnoticed
<1> QED
    BY <1>2, <1>4, <1>5, <1>6, <1>7, <1>8

(* do_wait only looks at children of the caller.                           *)
LEMMA CandidatesSound ==
    ASSUME LifeInv, NEW p \in Live, NEW i \in DOMAIN Candidates(p)
    PROVE  Candidates(p)[i] \in Live /\ parent[Candidates(p)[i]] = p
<1> p \in Procs
    BY DEF Live
<1>1. CASE arg[p] = None
    <2>1. PICK s \in Seq(Procs) : Chain(s, p)
        BY DEF LifeInv, ListInv
    <2>2. Candidates(p) = s
        BY <1>1, <2>1, WalkFindsList DEF Candidates
    <2>3. i \in 1 .. Len(s)
        BY <2>2, LenProperties
    <2> QED
        BY <2>1, <2>2, <2>3, ChainFacts
<1>2. CASE arg[p] # None
    <2>1. arg[p] \in Procs
        BY <1>2, LinkTypes DEF LifeInv
    <2>2. parent[arg[p]] = p /\ state[arg[p]] # "FREE" /\ Candidates(p) = <<arg[p]>>
        BY <1>2 DEF Candidates
    <2>3. i = 1
        BY <2>2
    <2> QED
        BY <2>1, <2>2, <2>3 DEF Live
<1> QED
    BY <1>1, <1>2

(* remove_links takes the child out of its parent's list.                  *)
LEMMA ReapLists ==
    ASSUME LifeInv, ~broken, NEW p \in Live, NEW c \in Live, parent[c] = p, state[c] = "ZOMBIE",
           state' = [state EXCEPT ![c] = "FREE"],
           optr' = [q \in Procs |-> IF q = c THEN None
                                    ELSE IF yptr[c] = q THEN optr[c] ELSE optr[q]],
           yptr' = [q \in Procs |-> IF q = c THEN None
                                    ELSE IF optr[c] = q THEN yptr[c] ELSE yptr[q]],
           cptr' = IF yptr[c] = None THEN [cptr EXCEPT ![parent[c]] = optr[c]] ELSE cptr,
           parent' = [parent EXCEPT ![c] = None]
    PROVE  ListInv' /\ ParentCanWait' /\ Live' = Live \ {c}
<1>1. /\ state \in [Procs -> {"FREE", "UNINIT", "RUNNABLE", "SLEEPING", "ZOMBIE"}]
      /\ parent \in [Procs -> Procs \cup {None}] /\ cptr \in [Procs -> Procs \cup {None}]
      /\ optr \in [Procs -> Procs \cup {None}] /\ yptr \in [Procs -> Procs \cup {None}]
    BY LinkTypes DEF LifeInv, TypeOK
<1>2. c \in Procs /\ p \in Procs /\ c # init /\ init \in Procs /\ None \notin Procs
    BY ProcLifeAssumption DEF LifeInv, StateInv, Live
<1>3. Live' = Live \ {c}
    BY <1>1, <1>2 DEF Live
<1>4. \A q \in Live \ {init} : parent[q] # c
    BY DEF LifeInv, ParentCanWait
<1>5. p # c
    BY <1>2, <1>4
<1>6. ParentCanWait'
    <2> SUFFICES ASSUME NEW q \in Live' \ {init}
                 PROVE  parent'[q] \in Live' /\ state'[parent'[q]] # "ZOMBIE"
        BY DEF ParentCanWait
    <2>1. q \in Live \ {init} /\ q # c /\ q \in Procs
        BY <1>3 DEF Live
    <2>2. parent'[q] = parent[q] /\ parent[q] # c /\ parent[q] \in Live /\ state[parent[q]] # "ZOMBIE"
        BY <1>1, <1>4, <2>1 DEF LifeInv, ParentCanWait
    <2>3. state'[parent[q]] = state[parent[q]]
        BY <1>1, <2>2 DEF Live
    <2> QED
        BY <1>3, <2>2, <2>3
<1>7. PICK s \in Seq(Procs) : Chain(s, p)
    BY DEF LifeInv, ListInv
<1>8. /\ Len(s) \in Nat
      /\ \A i \in 1 .. Len(s) : s[i] \in Live /\ s[i] \in Procs /\ s[i] # None /\ parent[s[i]] = p
    BY <1>7, ChainFacts
<1>9. PICK k \in 1 .. Len(s) : s[k] = c
    BY <1>2, <1>7 DEF Chain, On
<1>10. optr[c] = Elem(s, k + 1) /\ yptr[c] = Elem(s, k - 1) /\ Distinct(s) /\ cptr[p] = Elem(s, 1)
    BY <1>7, <1>9 DEF Chain
<1> DEFINE t == RemoveAt(s, k)
<1>11. t \in Seq(Procs) /\ Len(t) = Len(s) - 1
    BY RemoveAtProps
<1>12. \A i \in 1 .. Len(s) - 1 : t[i] = IF i < k THEN s[i] ELSE s[i + 1]
    BY RemoveAtProps
<1>13. Distinct(t) /\ \A q : On(t, q) <=> On(s, q) /\ q # c
    BY <1>9, <1>10, RemoveAtOn
<1> HIDE DEF t
<1>14. Chain(t, p)'
    <2>1. cptr'[p] = Elem(t, 1)
        <3>1. CASE k = 1
            <4>1. yptr[c] = None
                BY <1>10, <3>1 DEF Elem
            <4>2. cptr'[p] = Elem(s, 2)
                BY <1>1, <1>2, <1>10, <3>1, <4>1
            <4>3. Elem(s, 2) = Elem(t, 1)
                BY <1>8, <1>11, <1>12, <3>1 DEF Elem
            <4> QED
                BY <4>2, <4>3
        <3>2. CASE k # 1
            <4>1. yptr[c] # None
                BY <1>8, <1>10, <3>2 DEF Elem
            <4>2. cptr'[p] = Elem(s, 1)
                BY <1>10, <4>1
            <4>3. Elem(s, 1) = Elem(t, 1)
                BY <1>8, <1>11, <1>12, <3>2 DEF Elem
            <4> QED
                BY <4>2, <4>3
        <3> QED
            BY <3>1, <3>2
    <2>2. ASSUME NEW i \in 1 .. Len(t)
          PROVE  optr'[t[i]] = Elem(t, i + 1) /\ yptr'[t[i]] = Elem(t, i - 1)
        <3> DEFINE j == IF i < k THEN i ELSE i + 1
        <3>1. j \in 1 .. Len(s) /\ j # k /\ t[i] = s[j]
            BY <1>8, <1>11, <1>12
        <3>2. s[j] # c /\ s[j] \in Procs
            BY <1>8, <1>9, <1>10, <3>1 DEF Distinct
        <3>3. optr[s[j]] = Elem(s, j + 1) /\ yptr[s[j]] = Elem(s, j - 1)
            BY <1>7, <3>1 DEF Chain
        <3>4. yptr[c] = s[j] <=> j = k - 1
            BY <1>8, <1>10, <3>1 DEF Elem, Distinct
        <3>5. optr[c] = s[j] <=> j = k + 1
            BY <1>8, <1>10, <3>1 DEF Elem, Distinct
        <3>6. optr'[t[i]] = IF j = k - 1 THEN Elem(s, k + 1) ELSE Elem(s, j + 1)
            BY <1>10, <3>1, <3>2, <3>3, <3>4
        <3>7. yptr'[t[i]] = IF j = k + 1 THEN Elem(s, k - 1) ELSE Elem(s, j - 1)
            BY <1>10, <3>1, <3>2, <3>3, <3>5
        <3>8. Elem(t, i + 1) = IF j = k - 1 THEN Elem(s, k + 1) ELSE Elem(s, j + 1)
            <4>1. CASE i + 1 < k
                BY <1>8, <1>11, <1>12, <4>1 DEF Elem
            <4>2. CASE i + 1 = k
                BY <1>8, <1>11, <1>12, <4>2 DEF Elem
            <4>3. CASE i + 1 > k
                BY <1>8, <1>11, <1>12, <4>3 DEF Elem
            <4> QED
                BY <1>8, <4>1, <4>2, <4>3
        <3>9. Elem(t, i - 1) = IF j = k + 1 THEN Elem(s, k - 1) ELSE Elem(s, j - 1)
            BY <1>8, <1>11, <1>12 DEF Elem
        <3> QED
            BY <3>6, <3>7, <3>8, <3>9
    <2>3. \A q \in Procs : On(t, q) <=> q \in Live' \ {init} /\ parent'[q] = p
        <3>1. \A q \in Procs : On(s, q) <=> q \in Live \ {init} /\ parent[q] = p
            BY <1>7 DEF Chain
        <3>2. \A q \in Procs : q # c => parent'[q] = parent[q]
            BY <1>1
        <3> QED
            BY <1>3, <1>13, <3>1, <3>2
    <2> QED
        BY <1>13, <2>1, <2>2, <2>3 DEF Chain, Elem
<1>15. ASSUME NEW q \in Live, q # p, q # c
       PROVE  \E u \in Seq(Procs) : Chain(u, q)'
    <2>1. PICK u \in Seq(Procs) : Chain(u, q)
        BY DEF LifeInv, ListInv
    <2>2. /\ q \in Procs
          /\ \A i \in 1 .. Len(u) : u[i] \in Live /\ u[i] \in Procs /\ parent[u[i]] = q
        BY <2>1, ChainFacts
    <2>3. \A i \in 1 .. Len(u) : u[i] # c /\ u[i] # optr[c] /\ u[i] # yptr[c]
        <3>1. /\ optr[c] # None => optr[c] \in Procs /\ parent[optr[c]] = p
              /\ yptr[c] # None => yptr[c] \in Procs /\ parent[yptr[c]] = p
            BY <1>8, <1>10 DEF Elem
        <3> QED
            BY <1>2, <1>15, <2>2, <3>1
    <2>4. cptr'[q] = cptr[q]
        BY <1>1, <1>15, <2>2
    <2>5. \A i \in 1 .. Len(u) : optr'[u[i]] = optr[u[i]] /\ yptr'[u[i]] = yptr[u[i]]
        BY <1>1, <2>2, <2>3
    <2>6. \A r \in Procs : (r \in Live' \ {init} /\ parent'[r] = q) <=> (r \in Live \ {init} /\ parent[r] = q)
        BY <1>1, <1>2, <1>3, <1>15
    <2> QED
        BY <2>1, <2>2, <2>4, <2>5, <2>6, ChainSame
<1>16. ListInv'
    <2> SUFFICES ASSUME NEW q \in Live' PROVE \E u \in Seq(Procs) : Chain(u, q)'
        BY DEF ListInv
    <2> QED
        BY <1>3, <1>11, <1>14, <1>15
<1> QED
    BY <1>3, <1>6, <1>16

(* do_wait reaps a child.                                                  *)
LEMMA ReapStep ==
    ASSUME LifeInv, NEW p \in Procs, WaitReap(p)
    PROVE  LifeInv'
<1> USE DEF LifeInv
<1>0. ~broken /\ StateInv /\ FreedOff
    BY DEF WaitReap, At
<1> USE <1>0
<1>1. /\ pc[p] = "scan" /\ where[p] = "cpu"
      /\ arg' = [arg EXCEPT ![p] = None]
      /\ nr_process' = nr_process - 1
      /\ UNCHANGED <<wait_state, where, on_cpu, queued, late, owed, cpu_owed>>
    BY DEF WaitReap, At, Released, run
<1>2. PICK i \in DOMAIN Candidates(p) :
        /\ Reapable(Candidates(p)[i])
        /\ LET c == Candidates(p)[i] IN
           /\ state' = [state EXCEPT ![c] = "FREE"]
           /\ optr' = [q \in Procs |-> IF q = c THEN None
                                       ELSE IF yptr[c] = q THEN optr[c] ELSE optr[q]]
           /\ yptr' = [q \in Procs |-> IF q = c THEN None
                                       ELSE IF optr[c] = q THEN yptr[c] ELSE yptr[q]]
           /\ cptr' = IF yptr[c] = None THEN [cptr EXCEPT ![parent[c]] = optr[c]] ELSE cptr
           /\ parent' = [parent EXCEPT ![c] = None]
           /\ sig' = [sig EXCEPT ![c] = FALSE]
           /\ pc' = [pc EXCEPT ![p] = "user", ![c] = "user"]
           /\ broken' = ~OffCpu(c)
    BY DEF WaitReap
<1> DEFINE c == Candidates(p)[i]
<1>3. p \in Live
    BY <1>1 DEF FreedOff, OffCpu, Live
<1>4. c \in Live /\ parent[c] = p /\ c \in Procs
    BY <1>3, CandidatesSound DEF Live
<1>5. /\ state[c] = "ZOMBIE" /\ broken' = ~OffCpu(c)
      /\ state' = [state EXCEPT ![c] = "FREE"]
      /\ optr' = [q \in Procs |-> IF q = c THEN None
                                  ELSE IF yptr[c] = q THEN optr[c] ELSE optr[q]]
      /\ yptr' = [q \in Procs |-> IF q = c THEN None
                                  ELSE IF optr[c] = q THEN yptr[c] ELSE yptr[q]]
      /\ cptr' = IF yptr[c] = None THEN [cptr EXCEPT ![parent[c]] = optr[c]] ELSE cptr
      /\ parent' = [parent EXCEPT ![c] = None]
      /\ sig' = [sig EXCEPT ![c] = FALSE]
      /\ pc' = [pc EXCEPT ![p] = "user", ![c] = "user"]
    BY <1>2 DEF Reapable
<1> HIDE DEF c
<1>6. ListInv' /\ ParentCanWait' /\ Live' = Live \ {c}
    BY <1>3, <1>4, <1>5, ReapLists
<1>7. /\ c # init /\ c # p /\ pc[c] = "dead" /\ init \in Procs
      /\ state[p] \notin {"FREE", "ZOMBIE", "SLEEPING"} /\ broken' \in BOOLEAN
    BY <1>1, <1>4, <1>5, ProcLifeAssumption DEF StateInv, TypeOK, FreedOff, OffCpu
<1>8. ProcessesCounted' /\ nr_process' \in 0 .. MAX_PROCESS
    <2>1. Forking' = Forking
        BY <1>1, <1>5, <1>7 DEF Forking, TypeOK
    <2>2. Cardinality(Live') = Cardinality(Live) - 1
        BY <1>4, <1>6, CountTypes, FS_RemoveElement
    <2>3. Cardinality(Forking') = Cardinality(Forking)
        BY <2>1
    <2>4. nr_process \in 0 .. MAX_PROCESS /\ MAX_PROCESS \in Nat
        BY ProcLifeAssumption DEF TypeOK
    <2> QED
        BY <1>1, <2>2, <2>3, <2>4, CountTypes DEF ProcessesCounted
<1>9. TypeOK'
    <2>1. /\ parent' \in [Procs -> Procs \cup {None}] /\ arg' \in [Procs -> Procs \cup {None}]
        BY <1>1, <1>5, LinkTypes
    <2>2. cptr' \in [Procs -> Procs \cup {None}]
        BY <1>4, <1>5, LinkTypes
    <2>3. /\ optr' \in [Procs -> Procs \cup {None}] /\ yptr' \in [Procs -> Procs \cup {None}]
        BY <1>4, <1>5, LinkTypes
    <2>4. pc' \in [Procs -> PCs]
        BY <1>5 DEF TypeOK, PCs
    <2>5. sig' \in [Procs -> BOOLEAN]
        BY <1>5 DEF TypeOK
    <2>6. state' \in [Procs -> {"FREE", "UNINIT", "RUNNABLE", "SLEEPING", "ZOMBIE"}]
        BY <1>5 DEF TypeOK
    <2> QED
        BY <1>1, <1>7, <1>8, <2>1, <2>2, <2>3, <2>4, <2>5, <2>6 DEF TypeOK
<1>10. StateInv'
    BY <1>1, <1>4, <1>5, <1>7, ProcLifeAssumption DEF StateInv, TypeOK
<1>12. ASSUME ~broken' PROVE FreedOff'
    BY <1>1, <1>5, <1>12 DEF FreedOff, OffCpu, TypeOK
<1>11. NoZombieUnnoticed'
    <2> SUFFICES ASSUME NEW r \in Procs, NEW d \in Procs,
                        (wait_state[r] = "CHILD")', WaitsFor(r, d)', Reapable(d)'
                 PROVE  r \in cpu_owed' \/ \E k \in Procs : r \in owed'[k]
        BY DEF NoZombieUnnoticed
    <2>1. wait_state[r] = "CHILD" /\ r # p
        BY <1>1, <1>7 DEF StateInv
    <2>2. d # c /\ WaitsFor(r, d) /\ Reapable(d)
        BY <1>1, <1>4, <1>5, <2>1, LinkTypes DEF WaitsFor, Reapable, TypeOK
    <2> QED
        BY <1>1, <2>1, <2>2 DEF NoZombieUnnoticed
<1> QED
    BY <1>6, <1>8, <1>9, <1>10, <1>11, <1>12

(* The processes do_exit wakes.                                            *)
Wakes(p) == {q \in Procs : Woken(q) /\ (q = parent[p] \/ (q = init /\ OrphanZombie(p)))}

(* The reparenting loop of do_exit: the children of p go, last one first,  *)
(* to the head of init's list.                                             *)
LEMMA ExitLists ==
    ASSUME LifeInv, ~broken, NEW p \in Live, p # init, NEW s \in Seq(Procs), Chain(s, p),
           Live' = Live,
           \A q \in Procs : q # p => (state'[q] = "ZOMBIE" <=> state[q] = "ZOMBIE"),
           parent' = [q \in Procs |-> IF On(s, q) THEN init ELSE parent[q]],
           optr' = SpliceOptr(s), yptr' = SpliceYptr(s),
           cptr' = [cptr EXCEPT ![p] = None, ![init] = Head0(s, @)]
    PROVE  ListInv' /\ ParentCanWait'
<1>1. /\ parent \in [Procs -> Procs \cup {None}] /\ cptr \in [Procs -> Procs \cup {None}]
      /\ optr \in [Procs -> Procs \cup {None}] /\ yptr \in [Procs -> Procs \cup {None}]
    BY LinkTypes DEF LifeInv, TypeOK
<1>2. init \in Procs /\ None \notin Procs /\ init \in Live /\ state[init] # "ZOMBIE" /\ p \in Procs
    BY ProcLifeAssumption DEF LifeInv, StateInv, Live
<1>3. /\ Len(s) \in Nat /\ DOMAIN s = 1 .. Len(s) /\ Distinct(s)
      /\ \A i \in 1 .. Len(s) : s[i] \in Live \ {init} /\ s[i] \in Procs /\ s[i] # None /\ parent[s[i]] = p
      /\ s = <<>> <=> Len(s) = 0
    <2>1. Len(s) \in Nat /\ DOMAIN s = 1 .. Len(s)
        BY LenProperties
    <2>2. s = <<>> <=> Len(s) = 0
        BY EmptySeq
    <2>3. Distinct(s)
        BY DEF Chain
    <2>4. \A i \in 1 .. Len(s) :
             s[i] \in Live \ {init} /\ s[i] \in Procs /\ s[i] # None /\ parent[s[i]] = p
        BY ChainFacts
    <2> QED
        BY <2>1, <2>2, <2>3, <2>4
<1>4. \A q \in Procs : On(s, q) <=> q \in Live \ {init} /\ parent[q] = p
    BY DEF Chain
<1>5. ParentCanWait'
    <2> SUFFICES ASSUME NEW q \in Live \ {init}
                 PROVE  parent'[q] \in Live /\ state'[parent'[q]] # "ZOMBIE"
        BY DEF ParentCanWait
    <2>0. q \in Procs
        BY DEF Live
    <2>1. CASE On(s, q)
        BY <1>2, <2>0, <2>1
    <2>2. CASE ~ On(s, q)
        <3>1. parent'[q] = parent[q] /\ parent[q] # p
            BY <1>4, <2>0, <2>2
        <3>2. parent[q] \in Live /\ state[parent[q]] # "ZOMBIE" /\ parent[q] \in Procs
            BY DEF LifeInv, ParentCanWait, Live
        <3> QED
            BY <3>1, <3>2
    <2> QED
        BY <2>1, <2>2
<1>6. PICK v \in Seq(Procs) : Chain(v, init)
    BY <1>2 DEF LifeInv, ListInv
<1>7. /\ Len(v) \in Nat /\ Distinct(v) /\ cptr[init] = Elem(v, 1)
      /\ \A i \in 1 .. Len(v) : v[i] \in Live \ {init} /\ v[i] \in Procs /\ v[i] # None /\ parent[v[i]] = init
      /\ \A i \in 1 .. Len(v) : optr[v[i]] = Elem(v, i + 1) /\ yptr[v[i]] = Elem(v, i - 1)
    BY <1>2, <1>6, ChainFacts DEF Chain
<1>8. \A i \in 1 .. Len(s), j \in 1 .. Len(v) : s[i] # v[j]
    BY <1>3, <1>7
<1>9. ASSUME NEW i \in 1 .. Len(s)
      PROVE  /\ optr'[s[i]] = IF i = 1 THEN Elem(v, 1) ELSE s[i - 1]
             /\ yptr'[s[i]] = IF i = Len(s) THEN None ELSE s[i + 1]
    <2>1. (CHOOSE j \in DOMAIN s : s[j] = s[i]) = i
        BY <1>3 DEF Distinct
    <2>2. s[i] \in Procs /\ \E j \in DOMAIN s : s[j] = s[i]
        BY <1>3
    <2>3. optr'[s[i]] = IF i = 1 THEN cptr[init] ELSE s[i - 1]
        BY <2>1, <2>2 DEF SpliceOptr
    <2>4. yptr'[s[i]] = IF i = Len(s) THEN None ELSE s[i + 1]
        BY <2>1, <2>2 DEF SpliceYptr
    <2> QED
        BY <1>7, <2>3, <2>4
<1>10. ASSUME NEW q \in Procs, ~ On(s, q)
       PROVE  /\ optr'[q] = optr[q]
              /\ yptr'[q] = IF s # <<>> /\ q = cptr[init] THEN s[1] ELSE yptr[q]
    <2>1. ~ \E j \in DOMAIN s : s[j] = q
        BY <1>3, <1>10 DEF On
    <2>2. optr'[q] = optr[q]
        BY <2>1 DEF SpliceOptr
    <2>3. yptr'[q] = IF s # <<>> /\ q = cptr[init] THEN s[1] ELSE yptr[q]
        BY <2>1 DEF SpliceYptr
    <2> QED
        BY <2>2, <2>3
<1> DEFINE n == Len(s)
           m == Len(v)
           t == [i \in 1 .. n + m |-> IF i <= n THEN s[n + 1 - i] ELSE v[i - n]]
<1>11. n \in Nat /\ m \in Nat
    BY <1>3, <1>7
<1>12. t \in Seq(Procs) /\ Len(t) = n + m
    <2>1. ASSUME NEW i \in 1 .. n + m
          PROVE  (IF i <= n THEN s[n + 1 - i] ELSE v[i - n]) \in Procs
        <3>1. CASE i <= n
            <4>1. n + 1 - i \in 1 .. Len(s)
                BY <1>11, <3>1
            <4> QED
                BY <1>3, <3>1, <4>1
        <3>2. CASE ~ (i <= n)
            <4>1. i - n \in 1 .. Len(v)
                BY <1>11, <3>2
            <4> QED
                BY <1>7, <3>2, <4>1
        <3> QED
            BY <3>1, <3>2
    <2>2. t \in [1 .. n + m -> Procs] /\ n + m \in Nat /\ DOMAIN t = 1 .. n + m
        BY <1>11, <2>1
    <2> HIDE DEF t
    <2>3. t \in Seq(Procs)
        BY <2>2, SeqDef
    <2>4. Len(t) \in Nat /\ 1 .. Len(t) = 1 .. n + m
        BY <2>2, <2>3, LenProperties
    <2>5. Len(t) = n + m
        <3>1. CASE Len(t) < n + m
            <4>1. n + m \in 1 .. n + m /\ n + m \notin 1 .. Len(t)
                BY <2>2, <2>4, <3>1
            <4> QED
                BY <2>4, <4>1
        <3>2. CASE Len(t) > n + m
            <4>1. Len(t) \in 1 .. Len(t) /\ Len(t) \notin 1 .. n + m
                BY <2>2, <2>4, <3>2
            <4> QED
                BY <2>4, <4>1
        <3> QED
            BY <2>2, <2>4, <3>1, <3>2
    <2> QED
        BY <2>3, <2>5
<1>13. /\ \A i \in 1 .. n : t[i] = s[n + 1 - i]
       /\ \A i \in 1 .. m : t[n + i] = v[i]
    <2>1. \A i \in 1 .. n : t[i] = s[n + 1 - i]
        BY <1>11
    <2>2. ASSUME NEW i \in 1 .. m PROVE t[n + i] = v[i]
        <3>1. n + i \in 1 .. n + m /\ ~ (n + i <= n) /\ (n + i) - n = i
            BY <1>11
        <3> QED
            BY <3>1
    <2> QED
        BY <2>1, <2>2
<1> HIDE DEF t
<1>14. \A i \in 1 .. n + m : \/ i \in 1 .. n /\ n + 1 - i \in 1 .. n
                             \/ i - n \in 1 .. m /\ i = n + (i - n)
    BY <1>11
<1>21. ASSUME NEW i \in 1 .. n + m, i \notin 1 .. n
       PROVE  i - n \in 1 .. m /\ t[i] = v[i - n]
    <2>1. i - n \in 1 .. m /\ n + (i - n) = i
        BY <1>11, <1>21
    <2>2. t[n + (i - n)] = v[i - n]
        BY <1>13, <2>1
    <2> QED
        BY <2>1, <2>2
<1>22. ASSUME NEW i \in 1 .. n
       PROVE  n + 1 - i \in 1 .. n /\ t[i] = s[n + 1 - i]
    BY <1>11, <1>13
<1>15. Distinct(t)
    <2> SUFFICES ASSUME NEW i \in 1 .. n + m, NEW j \in 1 .. n + m, t[i] = t[j]
                 PROVE  i = j
        BY <1>12 DEF Distinct
    <2>1. CASE i \in 1 .. n /\ j \in 1 .. n
        BY <1>3, <1>11, <1>13, <1>14, <2>1 DEF Distinct
    <2>2. CASE i \in 1 .. n /\ j \notin 1 .. n
        BY <1>8, <1>21, <1>22, <2>2
    <2>3. CASE i \notin 1 .. n /\ j \in 1 .. n
        BY <1>8, <1>21, <1>22, <2>3
    <2>4. CASE i \notin 1 .. n /\ j \notin 1 .. n
        <3>1. i - n \in 1 .. m /\ j - n \in 1 .. m /\ t[i] = v[i - n] /\ t[j] = v[j - n]
            BY <1>11, <1>13, <1>14, <2>4
        <3>2. i - n = j - n
            BY <1>7, <3>1 DEF Distinct
        <3> QED
            BY <1>11, <3>2
    <2> QED
        BY <2>1, <2>2, <2>3, <2>4
<1>16. ASSUME NEW q PROVE On(t, q) <=> On(s, q) \/ On(v, q)
    <2>1. ASSUME On(t, q) PROVE On(s, q) \/ On(v, q)
        <3>1. PICK i \in 1 .. n + m : t[i] = q
            BY <1>12, <2>1 DEF On
        <3>2. CASE i \in 1 .. n
            BY <1>22, <3>1, <3>2 DEF On
        <3>3. CASE i \notin 1 .. n
            BY <1>21, <3>1, <3>3 DEF On
        <3> QED
            BY <3>2, <3>3
    <2>2. ASSUME On(s, q) PROVE On(t, q)
        <3>1. PICK i \in 1 .. n : s[i] = q
            BY <2>2 DEF On
        <3>2. n + 1 - i \in 1 .. n /\ n + 1 - i \in 1 .. n + m /\ n + 1 - (n + 1 - i) = i
            BY <1>11
        <3>3. t[n + 1 - i] = q
            BY <1>13, <3>1, <3>2
        <3> QED
            BY <1>12, <3>2, <3>3 DEF On
    <2>3. ASSUME On(v, q) PROVE On(t, q)
        <3>1. PICK i \in 1 .. m : v[i] = q
            BY <2>3 DEF On
        <3>2. n + i \in 1 .. n + m /\ t[n + i] = q
            BY <1>11, <1>13, <3>1
        <3> QED
            BY <1>12, <3>2 DEF On
    <2> QED
        BY <2>1, <2>2, <2>3
<1>17. Chain(t, init)'
    <2>1. cptr'[init] = Elem(t, 1)
        <3>1. cptr'[init] = Head0(s, cptr[init])
            BY <1>1, <1>2
        <3>2. CASE n = 0
            <4>1. Elem(t, 1) = Elem(v, 1)
                BY <1>11, <1>12, <1>13, <3>2 DEF Elem
            <4> QED
                BY <1>3, <1>7, <3>1, <3>2, <4>1 DEF Head0
        <3>3. CASE n # 0
            <4>1. 1 \in 1 .. n + m /\ 1 \in 1 .. n /\ n + 1 - 1 = n
                BY <1>11, <3>3
            <4>2. Elem(t, 1) = s[n]
                BY <1>12, <1>13, <4>1 DEF Elem
            <4> QED
                BY <1>3, <3>1, <3>3, <4>2 DEF Head0
        <3> QED
            BY <3>2, <3>3
    <2>2. ASSUME NEW i \in 1 .. n
          PROVE  optr'[t[i]] = Elem(t, i + 1) /\ yptr'[t[i]] = Elem(t, i - 1)
        <3> DEFINE j == n + 1 - i
        <3>1. j \in 1 .. n /\ t[i] = s[j]
            BY <1>11, <1>13
        <3>2. /\ optr'[t[i]] = IF j = 1 THEN Elem(v, 1) ELSE s[j - 1]
              /\ yptr'[t[i]] = IF j = n THEN None ELSE s[j + 1]
            BY <1>9, <3>1
        <3>3. Elem(t, i + 1) = IF j = 1 THEN Elem(v, 1) ELSE s[j - 1]
            <4>1. CASE j = 1
                <5>1. i + 1 = n + 1 /\ (n + 1 \in 1 .. n + m <=> 1 \in 1 .. m)
                    BY <1>11, <4>1
                <5> QED
                    BY <1>12, <1>13, <4>1, <5>1 DEF Elem
            <4>2. CASE j # 1
                <5>1. i + 1 \in 1 .. n /\ i + 1 \in 1 .. n + m /\ n + 1 - (i + 1) = j - 1
                    BY <1>11, <3>1, <4>2
                <5> QED
                    BY <1>12, <1>13, <4>2, <5>1 DEF Elem
            <4> QED
                BY <4>1, <4>2
        <3>4. Elem(t, i - 1) = IF j = n THEN None ELSE s[j + 1]
            <4>1. CASE j = n
                <5>1. i - 1 \notin 1 .. n + m
                    BY <1>11, <4>1
                <5> QED
                    BY <1>12, <4>1, <5>1 DEF Elem
            <4>2. CASE j # n
                <5>1. i - 1 \in 1 .. n /\ i - 1 \in 1 .. n + m /\ n + 1 - (i - 1) = j + 1
                    BY <1>11, <3>1, <4>2
                <5> QED
                    BY <1>12, <1>13, <4>2, <5>1 DEF Elem
            <4> QED
                BY <4>1, <4>2
        <3> QED
            BY <3>2, <3>3, <3>4
    <2>3. ASSUME NEW i \in 1 .. m
          PROVE  optr'[t[n + i]] = Elem(t, n + i + 1) /\ yptr'[t[n + i]] = Elem(t, n + i - 1)
        <3>1. t[n + i] = v[i] /\ v[i] \in Procs
            BY <1>7, <1>13
        <3>2. ~ On(s, v[i])
            BY <1>8 DEF On
        <3>3. optr'[v[i]] = Elem(v, i + 1)
            BY <1>7, <1>10, <3>1, <3>2
        <3>4. Elem(v, i + 1) = Elem(t, n + i + 1)
            <4>1. CASE i = m
                BY <1>11, <1>12, <4>1 DEF Elem
            <4>2. CASE i # m
                <5>1. i + 1 \in 1 .. m /\ n + (i + 1) \in 1 .. n + m /\ n + (i + 1) = n + i + 1
                    BY <1>11, <4>2
                <5>2. t[n + (i + 1)] = v[i + 1]
                    BY <1>13, <5>1
                <5> QED
                    BY <1>12, <5>1, <5>2 DEF Elem
            <4> QED
                BY <4>1, <4>2
        <3>5. yptr'[v[i]] = Elem(t, n + i - 1)
            <4>1. yptr'[v[i]] = IF s # <<>> /\ v[i] = cptr[init] THEN s[1] ELSE yptr[v[i]]
                BY <1>10, <3>1, <3>2
            <4>2. CASE i = 1
                <5>1. v[i] = cptr[init] /\ yptr[v[i]] = None
                    BY <1>7, <4>2 DEF Elem
                <5>2. CASE n = 0
                    <6>1. n + i - 1 \notin 1 .. n + m
                        BY <4>2, <5>2
                    <6> QED
                        BY <1>3, <1>12, <4>1, <5>1, <5>2, <6>1 DEF Elem
                <5>3. CASE n # 0
                    <6>1. n + i - 1 = n /\ n \in 1 .. n + m /\ n \in 1 .. n /\ n + 1 - n = 1
                        BY <1>11, <4>2, <5>3
                    <6>2. Elem(t, n + i - 1) = s[1]
                        BY <1>12, <1>13, <6>1 DEF Elem
                    <6> QED
                        BY <1>3, <4>1, <5>1, <5>3, <6>2
                <5> QED
                    BY <5>2, <5>3
            <4>3. CASE i # 1
                <5>1. v[i] # cptr[init]
                    BY <1>7, <4>3 DEF Elem, Distinct
                <5>2. yptr[v[i]] = v[i - 1]
                    BY <1>7, <4>3 DEF Elem
                <5>3. i - 1 \in 1 .. m /\ n + (i - 1) = n + i - 1 /\ n + i - 1 \in 1 .. n + m
                    BY <1>11, <4>3
                <5>4. t[n + (i - 1)] = v[i - 1]
                    BY <1>13, <5>3
                <5> QED
                    BY <1>12, <4>1, <5>1, <5>2, <5>3, <5>4 DEF Elem
            <4> QED
                BY <4>2, <4>3
        <3> QED
            BY <3>1, <3>3, <3>4, <3>5
    <2>4. \A i \in 1 .. Len(t) : optr'[t[i]] = Elem(t, i + 1) /\ yptr'[t[i]] = Elem(t, i - 1)
        <3> SUFFICES ASSUME NEW i \in 1 .. n + m
                     PROVE  optr'[t[i]] = Elem(t, i + 1) /\ yptr'[t[i]] = Elem(t, i - 1)
            BY <1>12
        <3>1. CASE i \in 1 .. n
            BY <2>2, <3>1
        <3>2. CASE i \notin 1 .. n
            <4>1. i - n \in 1 .. m /\ n + (i - n) = i
                BY <1>11, <3>2
            <4>2. /\ optr'[t[n + (i - n)]] = Elem(t, n + (i - n) + 1)
                  /\ yptr'[t[n + (i - n)]] = Elem(t, n + (i - n) - 1)
                BY <2>3, <4>1
            <4> QED
                BY <4>1, <4>2
        <3> QED
            BY <3>1, <3>2
    <2>5. \A q \in Procs : On(t, q) <=> q \in Live' \ {init} /\ parent'[q] = init
        <3>1. \A q \in Procs : On(v, q) <=> q \in Live \ {init} /\ parent[q] = init
            BY <1>6 DEF Chain
        <3> QED
            BY <1>4, <1>16, <3>1
    <2> QED
        BY <1>15, <2>1, <2>4, <2>5 DEF Chain, Elem
<1>18. <<>> \in Seq(Procs) /\ Chain(<<>>, p)'
    <2>1. cptr'[p] = None
        BY <1>1, <1>2
    <2>2. \A q \in Procs : ~ (q \in Live' \ {init} /\ parent'[q] = p)
        BY <1>4
    <2>3. <<>> \in Seq(Procs) /\ Len(<<>>) = 0
        BY EmptySeq
    <2> QED
        BY <2>1, <2>2, <2>3 DEF Chain, Distinct, On, Elem
<1>19. ASSUME NEW q \in Live, q # p, q # init
       PROVE  \E u \in Seq(Procs) : Chain(u, q)'
    <2>1. PICK u \in Seq(Procs) : Chain(u, q)
        BY DEF LifeInv, ListInv
    <2>2. /\ q \in Procs
          /\ \A i \in 1 .. Len(u) : u[i] \in Live /\ u[i] \in Procs /\ parent[u[i]] = q
        BY <2>1, ChainFacts
    <2>3. \A i \in 1 .. Len(u) : ~ On(s, u[i]) /\ u[i] # cptr[init]
        <3>1. cptr[init] # None => parent[cptr[init]] = init
            BY <1>7 DEF Elem
        <3> QED
            BY <1>2, <1>4, <1>19, <2>2, <3>1
    <2>4. cptr'[q] = cptr[q]
        BY <1>1, <1>19, <2>2
    <2>5. \A i \in 1 .. Len(u) : optr'[u[i]] = optr[u[i]] /\ yptr'[u[i]] = yptr[u[i]]
        BY <1>10, <2>2, <2>3
    <2>6. \A r \in Procs : (r \in Live' \ {init} /\ parent'[r] = q) <=> (r \in Live \ {init} /\ parent[r] = q)
        BY <1>4, <1>19
    <2> QED
        BY <2>1, <2>2, <2>4, <2>5, <2>6, ChainSame
<1>20. ListInv'
    <2> SUFFICES ASSUME NEW q \in Live PROVE \E u \in Seq(Procs) : Chain(u, q)'
        BY DEF ListInv
    <2> QED
        BY <1>12, <1>17, <1>18, <1>19
<1> QED
    BY <1>5, <1>20

(* do_exit.                                                                *)
LEMMA ExitStep ==
    ASSUME LifeInv, NEW p \in Procs, Exit(p)
    PROVE  LifeInv'
<1> USE DEF LifeInv
<1>0. ~broken /\ StateInv /\ FreedOff
    BY DEF Exit, At
<1> USE <1>0
<1>1. /\ pc[p] = "user" /\ where[p] = "cpu" /\ owed[p] = {} /\ p # init
      /\ sig' = sig \/ (parent[p] \in Killable /\ sig' = [sig EXCEPT ![parent[p]] = TRUE])
      /\ state' = [q \in Procs |-> IF q = p THEN "ZOMBIE" ELSE IF q \in Wakes(p) THEN "RUNNABLE" ELSE state[q]]
      /\ wait_state' = [q \in Procs |-> IF q \in Wakes(p) THEN "0" ELSE wait_state[q]]
      /\ parent' = Adopted(p)
      /\ optr' = SpliceOptr(NewChildren(p))
      /\ yptr' = SpliceYptr(NewChildren(p))
      /\ cptr' = [cptr EXCEPT ![p] = None, ![init] = Head0(NewChildren(p), @)]
      /\ owed' = [owed EXCEPT ![p] = Wakes(p)]
      /\ pc' = [pc EXCEPT ![p] = "dead"]
      /\ UNCHANGED <<where, on_cpu, queued, late, arg, cpu_owed, nr_process, broken>>
    BY DEF Exit, At, Goto, Wakes, run
<1>2. p \in Live
    BY <1>1 DEF FreedOff, OffCpu, Live
<1>3. PICK s \in Seq(Procs) : Chain(s, p)
    BY <1>2 DEF ListInv
<1>4. NewChildren(p) = s
    BY <1>3, WalkFindsList DEF NewChildren
<1>5. /\ Len(s) \in Nat /\ DOMAIN s = 1 .. Len(s)
      /\ \A i \in 1 .. Len(s) : s[i] \in Live \ {init} /\ s[i] \in Procs
    BY <1>2, <1>3, ChainFacts, LenProperties
<1>6. parent' = [q \in Procs |-> IF On(s, q) THEN init ELSE parent[q]]
    BY <1>1, <1>4, <1>5 DEF Adopted, On
<1>7. \A q \in Wakes(p) : q \in Procs /\ wait_state[q] = "CHILD" /\ state[q] = "SLEEPING" /\ q # p
    BY <1>1 DEF Wakes, Woken, StateInv
<1>8. /\ init \in Procs /\ None \notin Procs
      /\ state \in [Procs -> {"FREE", "UNINIT", "RUNNABLE", "SLEEPING", "ZOMBIE"}]
      /\ state[p] \notin {"FREE", "SLEEPING"}
    BY <1>1, ProcLifeAssumption DEF TypeOK, FreedOff, OffCpu, StateInv
<1>9. Live' = Live
    BY <1>1, <1>7, <1>8 DEF Live
<1>10. \A q \in Procs : q # p => (state'[q] = "ZOMBIE" <=> state[q] = "ZOMBIE")
    BY <1>1, <1>7
<1>11. ListInv' /\ ParentCanWait'
    <2> HIDE DEF LifeInv
    <2>1. optr' = SpliceOptr(s) /\ yptr' = SpliceYptr(s)
        BY <1>1, <1>4
    <2>2. cptr' = [cptr EXCEPT ![p] = None, ![init] = Head0(s, @)]
        BY <1>1, <1>4
    <2> QED
        BY <1>1, <1>2, <1>3, <1>6, <1>9, <1>10, <2>1, <2>2, ExitLists
<1>12. TypeOK'
    <2>1. parent' \in [Procs -> Procs \cup {None}]
        BY <1>6, <1>8, LinkTypes
    <2>2. cptr' \in [Procs -> Procs \cup {None}]
        <3>1. Head0(s, cptr[init]) \in Procs \cup {None}
            <4>1. CASE s = <<>>
                BY <1>8, <4>1, LinkTypes DEF Head0
            <4>2. CASE s # <<>>
                <5>1. Len(s) \in 1 .. Len(s)
                    BY <1>5, <4>2, EmptySeq
                <5> QED
                    BY <1>5, <4>2, <5>1 DEF Head0
            <4> QED
                BY <4>1, <4>2
        <3> QED
            BY <1>1, <1>4, <1>8, <3>1, LinkTypes
    <2>3. optr' \in [Procs -> Procs \cup {None}]
        <3>0. SpliceOptr(s) = [q \in Procs |-> SpliceOptr(s)[q]] /\ optr' = SpliceOptr(s)
            BY <1>1, <1>4 DEF SpliceOptr
        <3> SUFFICES ASSUME NEW q \in Procs PROVE SpliceOptr(s)[q] \in Procs \cup {None}
            BY <3>0
        <3>1. CASE \E i \in DOMAIN s : s[i] = q
            <4> DEFINE k == CHOOSE j \in DOMAIN s : s[j] = q
            <4>1. k \in 1 .. Len(s)
                BY <1>5, <3>1
            <4>2. SpliceOptr(s)[q] = IF k = 1 THEN cptr[init] ELSE s[k - 1]
                BY <3>1 DEF SpliceOptr
            <4> HIDE DEF k
            <4> QED
                BY <1>5, <1>8, <4>1, <4>2, LinkTypes
        <3>2. CASE ~ \E i \in DOMAIN s : s[i] = q
            BY <3>2, LinkTypes DEF SpliceOptr
        <3> QED
            BY <3>1, <3>2
    <2>4. yptr' \in [Procs -> Procs \cup {None}]
        <3>0. SpliceYptr(s) = [q \in Procs |-> SpliceYptr(s)[q]] /\ yptr' = SpliceYptr(s)
            BY <1>1, <1>4 DEF SpliceYptr
        <3> SUFFICES ASSUME NEW q \in Procs PROVE SpliceYptr(s)[q] \in Procs \cup {None}
            BY <3>0
        <3>1. CASE \E i \in DOMAIN s : s[i] = q
            <4> DEFINE k == CHOOSE j \in DOMAIN s : s[j] = q
            <4>1. k \in 1 .. Len(s)
                BY <1>5, <3>1
            <4>2. SpliceYptr(s)[q] = IF k = Len(s) THEN None ELSE s[k + 1]
                BY <3>1 DEF SpliceYptr
            <4> HIDE DEF k
            <4>3. ASSUME k # Len(s) PROVE k + 1 \in 1 .. Len(s)
                <5>1. Len(s) \in Nat /\ k \in Nat /\ k >= 1 /\ k <= Len(s)
                    BY <1>5, <4>1
                <5> QED
                    BY <4>3, <5>1
            <4> QED
                BY <1>5, <4>2, <4>3
        <3>2. CASE ~ \E i \in DOMAIN s : s[i] = q
            <4>1. SpliceYptr(s)[q] = IF s # <<>> /\ q = cptr[init] THEN s[1] ELSE yptr[q]
                BY <3>2 DEF SpliceYptr
            <4>2. s # <<>> => s[1] \in Procs
                BY <1>5, EmptySeq
            <4> QED
                BY <4>1, <4>2, LinkTypes
        <3> QED
            BY <3>1, <3>2
    <2>5. sig' \in [Procs -> BOOLEAN]
        BY <1>1 DEF TypeOK
    <2>6. pc' \in [Procs -> PCs]
        BY <1>1 DEF TypeOK, PCs
    <2>7. state' \in [Procs -> {"FREE", "UNINIT", "RUNNABLE", "SLEEPING", "ZOMBIE"}]
        BY <1>1, <1>8
    <2>8. wait_state' \in [Procs -> {"0", "CHILD"}]
        BY <1>1 DEF TypeOK
    <2>9. owed' \in [Procs -> SUBSET Procs]
        BY <1>1, <1>7 DEF TypeOK
    <2> QED
        BY <1>1, <2>1, <2>2, <2>3, <2>4, <2>5, <2>6, <2>7, <2>8, <2>9, SMTT(60) DEF TypeOK
<1>13. ProcessesCounted'
    <2>1. Forking' = Forking
        BY <1>1 DEF Forking, TypeOK
    <2> QED
        BY <1>1, <1>9, <2>1, CountUntouched
<1>14. StateInv'
    <2>1. ASSUME NEW r \in Procs
          PROVE  /\ wait_state'[r] = "CHILD" <=> state'[r] = "SLEEPING"
                 /\ state'[r] = "SLEEPING" => pc'[r] = "slept"
                 /\ pc'[r] = "dead" <=> state'[r] = "ZOMBIE"
        BY <1>1, <1>7, <1>8 DEF StateInv, TypeOK
    <2>2. ASSUME NEW r \in Procs
          PROVE  /\ where'[r] # "cpu" => owed'[r] = {}
                 /\ state'[r] = "FREE" => pc'[r] = "user"
        BY <1>1, <1>7, <1>8 DEF StateInv, TypeOK
    <2>4. ASSUME NEW r \in Procs PROVE parent'[r] # r
        <3>1. ~ On(s, init)
            BY <1>5 DEF On
        <3> QED
            BY <1>6, <3>1 DEF StateInv
    <2>3. state'[init] \notin {"FREE", "ZOMBIE"}
        BY <1>1, <1>8 DEF StateInv
    <2> QED
        BY <2>1, <2>2, <2>3, <2>4 DEF StateInv
<1>15. FreedOff'
    BY <1>1, <1>7 DEF FreedOff, OffCpu
<1>16. NoZombieUnnoticed'
    <2> SUFFICES ASSUME NEW r \in Procs, NEW d \in Procs,
                        (wait_state[r] = "CHILD")', WaitsFor(r, d)', Reapable(d)'
                 PROVE  r \in cpu_owed' \/ \E k \in Procs : r \in owed'[k]
        BY DEF NoZombieUnnoticed
    <2>1. wait_state[r] = "CHILD" /\ r \notin Wakes(p)
        BY <1>1
    <2>0. d # p
        <3> SUFFICES ASSUME d = p PROVE FALSE
            OBVIOUS
        <3>1. ~ On(s, p)
            BY <1>3 DEF Chain, StateInv
        <3>2. r = parent[p]
            BY <1>6, <3>1 DEF WaitsFor
        <3> QED
            BY <2>1, <3>2 DEF Wakes, Woken
    <2>2. d # p /\ state[d] = "ZOMBIE" /\ Reapable(d)
        BY <1>1, <1>10, <2>0 DEF Reapable
    <2>3. ~ On(s, d)
        <3> SUFFICES ASSUME On(s, d) PROVE FALSE
            OBVIOUS
        <3>1. r = init
            BY <1>6 DEF WaitsFor
        <3>2. OrphanZombie(p)
            BY <1>4, <1>5, <2>2 DEF OrphanZombie, On
        <3> QED
            BY <2>1, <3>1, <3>2 DEF Wakes, Woken
    <2>4. WaitsFor(r, d)
        BY <1>1, <1>6, <2>2, <2>3 DEF WaitsFor
    <2>5. \A k \in Procs : r \in owed[k] => r \in owed'[k]
        BY <1>1 DEF TypeOK
    <2> QED
        BY <1>1, <2>1, <2>2, <2>4, <2>5 DEF NoZombieUnnoticed
<1> QED
    BY <1>11, <1>12, <1>13, <1>14, <1>15, <1>16

(* Every state of every behaviour satisfies the invariant.                 *)
LEMMA LifeInvariant == Spec => []LifeInv
<1>1. LifeInv /\ [Next]_vars => LifeInv'
    <2> SUFFICES ASSUME LifeInv, [Next]_vars PROVE LifeInv'
        OBVIOUS
    <2>1. CASE UNCHANGED vars
        <3>1. UNCHANGED <<state, parent, cptr, optr, yptr, wait_state, where, on_cpu, queued, late, sig, pc, arg, owed,
                          cpu_owed, nr_process, broken>>
            BY <2>1 DEF vars, links, run
        <3>2. ParentCanWait' /\ ListInv' /\ Live' = Live
            <4>1. links' = links
                BY <3>1 DEF links
            <4> QED
                BY <3>1, <4>1, FamilyUntouched
        <3>3. ProcessesCounted'
            BY <3>1, <3>2, CountUntouched DEF Forking
        <3>4. TypeOK' /\ NoZombieUnnoticed'
            BY <3>1 DEF LifeInv, TypeOK, NoZombieUnnoticed, WaitsFor, Reapable
        <3>5. ~broken' => StateInv' /\ FreedOff'
            BY <3>1 DEF LifeInv, StateInv, FreedOff, OffCpu
        <3> QED
            BY <3>2, <3>3, <3>4, <3>5 DEF LifeInv
    <2>2. ASSUME NEW p \in Procs,
                 \/ ForkReserve(p) \/ ForkStep(p) \/ Exit(p)
                 \/ WaitStep(p) \/ CallSchedule(p) \/ SwitchComplete(p) \/ SwitchCompleteLate(p) \/ Dispatch(p)
                 \/ SignalHandled(p) \/ CpuWake(p)
          PROVE  LifeInv'
        <3>1. CASE ForkReserve(p) \/ ForkStep(p)
            BY <3>1, ReserveSteps, ForkLinkStep DEF ForkStep
        <3>2. CASE Exit(p)
            BY <3>2, ExitStep
        <3>3. CASE WaitStep(p) \/ SignalHandled(p)
            <4>1. None \in Procs \cup {None}
                OBVIOUS
            <4> QED
                BY <3>3, <4>1, MoveSteps, SleepStep, ReapStep DEF WaitStep
        <3>4. CASE CallSchedule(p) \/ SwitchComplete(p) \/ SwitchCompleteLate(p) \/ Dispatch(p)
            BY <3>4, SwitchSteps
        <3>5. CASE CpuWake(p)
            BY <3>5, WakeSteps
        <3> QED
            BY <2>2, <3>1, <3>2, <3>3, <3>4, <3>5
    <2>3. ASSUME NEW p \in Procs, NEW q \in Procs, OwedWake(p, q) \/ Kill(p, q)
          PROVE  LifeInv'
        BY <2>3, WakeSteps, KillStep
    <2>4. ASSUME NEW p \in Procs, NEW a \in Procs \cup {None}, WaitBegin(p, a)
          PROVE  LifeInv'
        BY <2>4, MoveSteps
    <2>5. CASE Corrupted
        BY <2>1, <2>5 DEF Corrupted
    <2> QED
        BY <2>1, <2>2, <2>3, <2>4, <2>5 DEF Next
<1> QED
    BY <1>1, LifeInit, PTL DEF Spec
-----------------------------------------------------------------------------
(* The variables of the process table have their types; nr_process never   *)
(* leaves its bounds, however forks, failed forks and reaping interleave.  *)
THEOREM LifeTyped == Spec => []TypeOK
BY LifeInvariant, PTL DEF LifeInv

(* nr_process is exact: no path of do_fork or do_wait leaks or returns a   *)
(* slot twice.                                                             *)
THEOREM SlotsCounted == Spec => []ProcessesCounted
BY LifeInvariant, PTL DEF LifeInv

(* Of a process that keeps to one CPU, on_cpu says what proc.h says of it, *)
(* and it is queued only when it is runnable.                              *)
HomeInv ==
    \A p \in Procs \ Movable :
          /\ p \notin late
          /\ on_cpu[p] <=> where[p] # "off"
          /\ where[p] = "cpu" => ~queued[p]
          /\ queued[p] => state[p] = "RUNNABLE"
          /\ state[p] = "FREE" => OffCpu(p)

(* The steps of a process, or of a CPU that leaves or takes it.            *)
LEMMA HomeStep ==
    ASSUME LifeInv, HomeInv, Next PROVE HomeInv'
<1> USE DEF HomeInv, LifeInv
<1>1. ASSUME NEW p \in Procs,
             \/ ForkReserve(p) \/ ForkFail(p) \/ WaitInterrupted(p) \/ WaitNoSignal(p) \/ WaitReturns(p)
             \/ SignalHandled(p) \/ \E a \in Procs \cup {None} : WaitBegin(p, a)
      PROVE  HomeInv'
    <2>1. UNCHANGED <<state, where, on_cpu, queued, late>>
        BY <1>1 DEF ForkReserve, ForkFail, WaitInterrupted, WaitNoSignal, WaitReturns, SignalHandled, WaitBegin, run
    <2> QED
        BY <2>1 DEF OffCpu
<1>2. ASSUME NEW p \in Procs, NEW c \in Procs, ForkLink(p, c) PROVE HomeInv'
    BY <1>2 DEF ForkLink, run, OffCpu, TypeOK
<1>3. ASSUME NEW p \in Procs, Exit(p) PROVE HomeInv'
    <2>1. /\ where[p] = "cpu" /\ ~broken /\ StateInv
          /\ UNCHANGED <<where, on_cpu, queued, late>>
          /\ state' = [q \in Procs |-> IF q = p THEN "ZOMBIE" ELSE IF q \in Wakes(p) THEN "RUNNABLE" ELSE state[q]]
        BY <1>3 DEF Exit, At, Wakes, run
    <2>2. \A q \in Wakes(p) : state[q] = "SLEEPING"
        BY <2>1 DEF Wakes, Woken, StateInv
    <2> QED
        BY <2>1, <2>2 DEF OffCpu
<1>4. ASSUME NEW p \in Procs, WaitSleep(p) PROVE HomeInv'
    BY <1>4 DEF WaitSleep, At, run, OffCpu, TypeOK
<1>5. ASSUME NEW p \in Procs, WaitReap(p) PROVE HomeInv'
    <2>1. UNCHANGED <<where, on_cpu, queued, late>> /\ where[p] = "cpu" /\ ~broken
        BY <1>5 DEF WaitReap, At, run
    <2>2. PICK i \in DOMAIN Candidates(p) :
            Reapable(Candidates(p)[i]) /\ state' = [state EXCEPT ![Candidates(p)[i]] = "FREE"]
        BY <1>5 DEF WaitReap
    <2>3. p \in Live
        BY <2>1 DEF FreedOff, OffCpu, Live
    <2>4. Candidates(p)[i] \in Procs
        BY <2>3, CandidatesSound DEF Live
    <2> DEFINE c == Candidates(p)[i]
    <2>5. c \in Procs /\ state[c] = "ZOMBIE" /\ ~on_cpu[c] /\ state' = [state EXCEPT ![c] = "FREE"]
        BY <2>2, <2>4 DEF Reapable
    <2> HIDE DEF c
    <2>6. c \notin Movable => OffCpu(c)
        BY <2>5 DEF OffCpu
    <2> QED
        BY <2>1, <2>5, <2>6 DEF OffCpu, TypeOK
<1>6. ASSUME NEW p \in Procs, CallSchedule(p) PROVE HomeInv'
    BY <1>6 DEF CallSchedule, At, OffCpu, TypeOK
<1>7. ASSUME NEW p \in Procs, SwitchComplete(p) \/ SwitchCompleteLate(p) PROVE HomeInv'
    BY <1>7 DEF SwitchComplete, SwitchCompleteLate, Retires, OffCpu, TypeOK
<1>8. ASSUME NEW p \in Procs, Dispatch(p) PROVE HomeInv'
    BY <1>8 DEF Dispatch, OffCpu, TypeOK
<1>9. ASSUME NEW q \in Procs, WakeupProc(q) PROVE HomeInv'
    BY <1>9 DEF WakeupProc, OffCpu, TypeOK
<1>10. ASSUME NEW p \in Procs, NEW q \in Procs, Kill(p, q) PROVE HomeInv'
    BY <1>10 DEF Kill, run, OffCpu, TypeOK
<1>11. CASE Corrupted
    BY <1>11 DEF Corrupted, vars, run, OffCpu
<1> QED
    BY <1>1, <1>2, <1>3, <1>4, <1>5, <1>6, <1>7, <1>8, <1>9, <1>10, <1>11
    DEF Next, ForkStep, WaitStep, OwedWake, CpuWake

(* Of the processes that keep to one CPU, whatever the others do: no CPU   *)
(* is on the kernel stack of one that do_wait has freed, and no run queue  *)
(* links it.  Of a process that may be stolen it is not so: a CPU runs it  *)
(* while the one it left has yet to clear its on_cpu (Sched,               *)
(* ExecutingHasOnCpu).                                                     *)
THEOREM FreedAreOffCpu == Spec => []FreedIsOffCpu
<1>1. Init => HomeInv
    BY ProcLifeAssumption DEF Init, HomeInv, OffCpu
<1>2. LifeInv /\ HomeInv /\ [Next]_vars => HomeInv'
    <2>1. ASSUME HomeInv, UNCHANGED vars PROVE HomeInv'
        BY <2>1 DEF HomeInv, OffCpu, vars, run
    <2> QED
        BY <2>1, HomeStep
<1>3. HomeInv => FreedIsOffCpu
    BY DEF HomeInv, FreedIsOffCpu
<1> QED
    BY <1>1, <1>2, <1>3, LifeInvariant, PTL DEF Spec

(* Every process has a parent that lives and can still call do_wait.       *)
THEOREM ParentsCanWait == Spec => []ParentCanWait
BY LifeInvariant, PTL DEF LifeInv

(* A process asleep in do_wait with a child it could reap is about to be   *)
(* woken.                                                                  *)
THEOREM ZombiesNoticed == Spec => []NoZombieUnnoticed
BY LifeInvariant, PTL DEF LifeInv

(* cptr, optr and yptr always form, for every process, the list of exactly *)
(* its children: fork, reparenting in do_exit and removal in do_wait keep  *)
(* it so.                                                                  *)
THEOREM ListsAreExact == Spec => []ChildListsExact
<1>1. LifeInv => ChildListsExact
    <2> SUFFICES ASSUME LifeInv, NEW p \in Live
                 PROVE  LET s == ChildList(p) IN
                        /\ {s[i] : i \in DOMAIN s} = {q \in Live \ {init} : parent[q] = p}
                        /\ \A i \in DOMAIN s : yptr[s[i]] = IF i = 1 THEN None ELSE s[i - 1]
                        /\ Len(s) = Cardinality({s[i] : i \in DOMAIN s})
        BY DEF ChildListsExact
    <2>1. PICK s \in Seq(Procs) : Chain(s, p)
        BY DEF LifeInv, ListInv
    <2>2. p \in Procs /\ ChildList(p) = s
        BY <2>1, WalkFindsList DEF Live
    <2>3. Len(s) \in Nat /\ DOMAIN s = 1 .. Len(s) /\ Distinct(s)
        BY <2>1, LenProperties DEF Chain
    <2>4. {s[i] : i \in DOMAIN s} = {q \in Live \ {init} : parent[q] = p}
        <3>1. \A i \in DOMAIN s : s[i] \in Live \ {init} /\ parent[s[i]] = p
            BY <2>1, <2>3, ChainFacts
        <3>2. \A q \in Live \ {init} : parent[q] = p => \E i \in DOMAIN s : s[i] = q
            BY <2>1, <2>3 DEF Chain, On, Live
        <3> QED
            BY <3>1, <3>2
    <2>5. \A i \in DOMAIN s : yptr[s[i]] = IF i = 1 THEN None ELSE s[i - 1]
        BY <2>1, <2>3 DEF Chain, Elem
    <2>6. Len(s) = Cardinality({s[i] : i \in DOMAIN s})
        BY <2>3, DistinctCount
    <2> QED
        BY <2>2, <2>4, <2>5, <2>6
<1> QED
    BY <1>1, LifeInvariant, PTL
-----------------------------------------------------------------------------
(* get_pid.  The inductive invariant says what the scan has established so *)
(* far: no entry it has passed lies in last_pid .. next_safe - 1.  Between *)
(* calls that is the promise of the cache (SafeWindow) for the whole list; *)
(* when get_pid returns it also covers last_pid itself.                    *)

(* Entry q is outside last_pid .. next_safe - 1.                           *)
Clear(q) == q < last_pid \/ q >= next_safe

ScanInv ==
    /\ pid_pc # "idle" => last_pid < next_safe
    /\ pid_pc = "scan" => \A j \in 1 .. le : Clear(proc_list[j])
    /\ pid_pc = "done" => \A j \in 1 .. Len(proc_list) : Clear(proc_list[j])
    /\ pid_pc # "idle" => Len(proc_list) + 2 <= MAX_PROCESS
    /\ pid_pc = "idle" => le = 0

PidInv == PidTypeOK /\ PidsUnique /\ SafeWindow /\ ScanInv

-----------------------------------------------------------------------------
(* remove_links: the list without its k-th entry.                          *)
LEMMA RemoveEntryFacts ==
    ASSUME NEW S, NEW s \in Seq(S), NEW k \in 1 .. Len(s)
    PROVE  /\ RemoveEntry(s, k) \in Seq(S)
           /\ Len(RemoveEntry(s, k)) = Len(s) - 1
           /\ \A j \in 1 .. Len(s) - 1 : RemoveEntry(s, k)[j] = IF j < k THEN s[j] ELSE s[j + 1]
<1>1. Len(s) \in Nat /\ Len(s) >= 1 /\ Len(s) - 1 \in Nat
  OBVIOUS
<1>2. \A j \in 1 .. Len(s) - 1 : (IF j < k THEN s[j] ELSE s[j + 1]) \in S
  OBVIOUS
<1>3. RemoveEntry(s, k) \in [1 .. Len(s) - 1 -> S]
  BY <1>2 DEF RemoveEntry
<1>4. RemoveEntry(s, k) \in Seq(S) /\ Len(RemoveEntry(s, k)) = Len(s) - 1
  BY <1>1, <1>3
<1>. QED
  BY <1>4 DEF RemoveEntry

(* set_links: the new process goes to the head.                            *)
LEMMA PushFacts ==
    ASSUME NEW S, NEW s \in Seq(S), NEW e \in S
    PROVE  /\ <<e>> \o s \in Seq(S)
           /\ Len(<<e>> \o s) = Len(s) + 1
           /\ \A j \in 1 .. Len(s) + 1 : (<<e>> \o s)[j] = IF j = 1 THEN e ELSE s[j - 1]
OBVIOUS

(* The allocator starts in a state that satisfies the invariant.           *)
LEMMA PidInvInit == PidInit => PidInv
BY PidAssumption DEF PidInit, PidInv, PidTypeOK, PidsUnique, SafeWindow, ScanInv, Pids

(* Every step of the allocator keeps it.                                   *)
LEMMA PidInvStep == PidInv /\ [PidNext]_pid_vars => PidInv'
<1>. SUFFICES ASSUME PidInv, [PidNext]_pid_vars PROVE PidInv'
  OBVIOUS
<1>. USE PidAssumption DEF PidInv, PidTypeOK, Pids
<1>1. CASE GetPid
  <2>1. PidTypeOK'
    BY <1>1 DEF GetPid, NeedsScan
  <2>2. PidsUnique' /\ SafeWindow'
    BY <1>1 DEF GetPid, PidsUnique, SafeWindow
  <2>3. ScanInv'
    BY <1>1, SMTT(60) DEF GetPid, NeedsScan, PidMayFork, SafeWindow, ScanInv, Clear
  <2>. QED BY <2>1, <2>2, <2>3
<1>2. CASE ScanTaken
  <2>1. PidTypeOK'
    BY <1>2, SMTT(60) DEF ScanTaken, Restarted
  <2>2. PidsUnique' /\ SafeWindow'
    BY <1>2 DEF ScanTaken, PidsUnique, SafeWindow
  <2>3. ScanInv'
    BY <1>2, SMTT(60) DEF ScanTaken, Restarted, ScanInv, Clear
  <2>. QED BY <2>1, <2>2, <2>3
<1>3. CASE ScanOther
  <2>0. proc_list[le + 1] \in 1 .. MAX_PID - 1
    BY <1>3 DEF ScanOther
  <2>1. PidTypeOK'
    BY <1>3, <2>0, SMTT(60) DEF ScanOther, Narrowed
  <2>2. PidsUnique' /\ SafeWindow'
    BY <1>3 DEF ScanOther, PidsUnique, SafeWindow
  <2>3. ScanInv'
    BY <1>3, <2>0, SMTT(60) DEF ScanOther, Narrowed, ScanInv, Clear
  <2>. QED BY <2>1, <2>2, <2>3
<1>4. CASE ScanEnd
  BY <1>4 DEF ScanEnd, PidsUnique, SafeWindow, ScanInv, Clear
<1>5. CASE Publish
  <2>1. last_pid \in Pids /\ last_pid < next_safe
    BY <1>5 DEF Publish, ScanInv
  <2>2. /\ proc_list' \in Seq(Pids) /\ Len(proc_list') = Len(proc_list) + 1
        /\ \A j \in 1 .. Len(proc_list') : proc_list'[j] = IF j = 1 THEN last_pid ELSE proc_list[j - 1]
    BY <1>5, <2>1, PushFacts DEF Publish
  <2>3. PidTypeOK'
    BY <1>5, <2>2 DEF Publish, ScanInv
  <2>4. \A j \in 1 .. Len(proc_list) : Clear(proc_list[j]) /\ proc_list[j] # last_pid
    BY <1>5, <2>1, SMTT(60) DEF Publish, ScanInv, Clear
  <2>5. PidsUnique'
    <3>. SUFFICES ASSUME NEW j \in 1 .. Len(proc_list'), NEW k \in 1 .. Len(proc_list'),
                         proc_list'[j] = proc_list'[k]
                  PROVE  j = k
      BY DEF PidsUnique
    <3>1. CASE j = 1 /\ k # 1
      <4>1. k - 1 \in 1 .. Len(proc_list) /\ proc_list[k - 1] = last_pid
        BY <2>2, <3>1, SMTT(60)
      <4>. QED BY <2>4, <4>1
    <3>2. CASE j # 1 /\ k = 1
      <4>1. j - 1 \in 1 .. Len(proc_list) /\ proc_list[j - 1] = last_pid
        BY <2>2, <3>2, SMTT(60)
      <4>. QED BY <2>4, <4>1
    <3>3. CASE j # 1 /\ k # 1
      <4>1. /\ j - 1 \in 1 .. Len(proc_list) /\ k - 1 \in 1 .. Len(proc_list)
            /\ proc_list[j - 1] = proc_list[k - 1]
        <5>1. proc_list'[j] = proc_list[j - 1] /\ proc_list'[k] = proc_list[k - 1]
          BY <2>2, <3>3
        <5>2. j - 1 \in 1 .. Len(proc_list) /\ k - 1 \in 1 .. Len(proc_list)
          BY <2>2, <3>3
        <5>. QED BY <5>1, <5>2
      <4>2. j - 1 = k - 1
        BY <4>1 DEF PidsUnique
      <4>. QED BY <4>2
    <3>. QED BY <3>1, <3>2, <3>3
  <2>6. SafeWindow'
    <3>. SUFFICES ASSUME NEW j \in 1 .. Len(proc_list')
                  PROVE  proc_list'[j] <= last_pid' \/ proc_list'[j] >= next_safe'
      BY DEF SafeWindow
    <3>0. last_pid' = last_pid /\ next_safe' = next_safe
      BY <1>5 DEF Publish
    <3>. HIDE DEF Pids, PidTypeOK, PidInv
    <3>1. CASE j = 1
      <4>1. proc_list'[j] = last_pid /\ last_pid \in Int
        BY <2>1, <2>2, <3>1 DEF Pids
      <4>. QED BY <3>0, <4>1
    <3>2. CASE j # 1
      <4>1. Len(proc_list) \in Nat
        BY DEF PidInv, PidTypeOK
      <4>2. j - 1 \in 1 .. Len(proc_list)
        BY <2>2, <3>2, <4>1
      <4>3. proc_list'[j] = proc_list[j - 1]
        BY <2>2, <3>2
      <4>4. proc_list[j - 1] <= last_pid \/ proc_list[j - 1] >= next_safe
        <5>1. proc_list[j - 1] \in Int /\ last_pid \in Int
          BY <4>2, SMTT(60) DEF PidInv, PidTypeOK, Pids
        <5>2. Clear(proc_list[j - 1])
          BY <2>4, <4>2
        <5>. QED BY <5>1, <5>2 DEF Clear
      <4>. QED BY <3>0, <4>3, <4>4
    <3>. QED BY <3>1, <3>2
  <2>7. ScanInv'
    BY <1>5 DEF Publish, ScanInv
  <2>. QED BY <2>3, <2>5, <2>6, <2>7
<1>6. ASSUME NEW k \in 1 .. Len(proc_list), Reap(k) PROVE PidInv'
  <2>1. /\ proc_list' \in Seq(Pids) /\ Len(proc_list') = Len(proc_list) - 1
        /\ \A j \in 1 .. Len(proc_list') : proc_list'[j] = IF j < k THEN proc_list[j] ELSE proc_list[j + 1]
    <3>1. proc_list' = RemoveEntry(proc_list, k)
      BY <1>6 DEF Reap
    <3>2. proc_list \in Seq(Pids)
      OBVIOUS
    <3>. HIDE DEF Pids, PidTypeOK, PidInv
    <3>. QED BY <3>1, <3>2, RemoveEntryFacts
  <2>2. PidTypeOK'
    BY <1>6, <2>1, SMTT(60) DEF Reap, ScanInv
  <2>. DEFINE old(j) == IF j < k THEN j ELSE j + 1
  <2>3. \A j \in 1 .. Len(proc_list') :
            old(j) \in 1 .. Len(proc_list) /\ proc_list'[j] = proc_list[old(j)]
    <3>. HIDE DEF Pids, PidTypeOK, PidInv
    <3>. TAKE j \in 1 .. Len(proc_list')
    <3>1. old(j) \in 1 .. Len(proc_list)
      <4>1. Len(proc_list) \in Nat /\ Len(proc_list') = Len(proc_list) - 1
        BY <2>1 DEF PidInv, PidTypeOK
      <4>. QED BY <4>1
    <3>2. CASE j < k
      BY <2>1, <3>2
    <3>3. CASE ~(j < k)
      BY <2>1, <3>3
    <3>. QED BY <3>1, <3>2, <3>3
  <2>4. \A i, j \in 1 .. Len(proc_list') : old(i) = old(j) => i = j
    <3>. HIDE DEF Pids, PidTypeOK, PidInv
    <3>1. Len(proc_list') \in Int
      BY <2>1
    <3>. QED BY <3>1
  <2>. HIDE DEF old
  <2>5. PidsUnique'
    BY <2>3, <2>4 DEF PidsUnique
  <2>6. SafeWindow'
    BY <1>6, <2>3 DEF Reap, SafeWindow
  <2>7. ScanInv'
    BY <1>6 DEF Reap, ScanInv
  <2>. QED BY <2>2, <2>5, <2>6, <2>7
<1>7. CASE UNCHANGED pid_vars
  BY <1>7 DEF pid_vars, PidsUnique, SafeWindow, ScanInv, Clear
<1>. QED
  BY <1>1, <1>2, <1>3, <1>4, <1>5, <1>6, <1>7 DEF PidNext, Scan

(* The pids of the processes in proc_list are different, at every moment,  *)
(* for every number of processes and ids with MAX_PID > MAX_PROCESS.       *)
THEOREM UniquePids == PidSpec => []PidsUnique
<1>1. PidInv => PidsUnique
  BY DEF PidInv
<1>. QED
  BY <1>1, PidInvInit, PidInvStep, PTL DEF PidSpec

(* Between calls of get_pid nobody holds an id that the cache next_safe    *)
(* declares free.                                                          *)
THEOREM CacheIsSafe == PidSpec => [](PidTypeOK /\ SafeWindow)
<1>1. PidInv => PidTypeOK /\ SafeWindow
  BY DEF PidInv
<1>. QED
  BY <1>1, PidInvInit, PidInvStep, PTL DEF PidSpec
=============================================================================
