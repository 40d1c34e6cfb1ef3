------------------------------ MODULE VmProofs ------------------------------
(***************************************************************************)
(* Proofs about Vm, for any number of CPUs, address spaces, pages and      *)
(* frames.                                                                 *)
(***************************************************************************)
EXTENDS Vm, ListLemmas, FiniteSetTheorems, TLAPS

Shooting == {"spin", "scan", "wait"}
Holding == {"clear", "unlock", "insert", "remove", "map", "copy", "unmap"}
Steps == Holding \cup Shooting \cup {"user", "fault", "killed", "publish", "leave", "drop", "undo"}

(* Where the kernel code of a CPU stands, or goes on after the shootdown.  *)
Stands(o) == IF o.at \in Shooting THEN o.back ELSE o.at
Copying == {"insert", "remove", "map"}

Mms == MMS \cup {Boot}
OpType == [at : Steps, back : Steps, va : Nat, write : BOOLEAN, p : BOOLEAN, off : BOOLEAN,
           f : Frames \cup {NoFrame}, to : Mms, on : Cpus \cup {NoCpu},
           todo : SUBSET PAGES, cpus : SUBSET Cpus]
PteType == [kind : {"no", "present", "hidden"}, f : Frames, w : BOOLEAN, cow : BOOLEAN]
EntryType == [va : PAGES, f : Frames, w : BOOLEAN]
ReqType == [mm : Mms, va : Nat]

OpTyped == op \in [Cpus -> OpType]
PtTyped == pt \in [MMS -> [PAGES -> PteType]]
RestTyped ==
    /\ vma \in [MMS -> [PAGES -> {"no", "rw", "r", "none"}]] /\ mem \in [MMS -> [PAGES -> Values]]
    /\ lock \in [MMS -> Cpus \cup {NoCpu}]
    /\ free \subseteq Frames /\ content \in [Frames -> Values] /\ ref \in [Frames -> Int]
    /\ task \in [Cpus -> Mms] /\ loaded \in [Cpus -> Mms] /\ pub \in [Cpus -> Mms]
    /\ tlb \in [Cpus -> SUBSET EntryType]
    /\ tlb_lock \in Cpus \cup {NoCpu} /\ req \in [Cpus -> ReqType]
Shape == OpTyped /\ PtTyped /\ RestTyped

(* What the record of kernel code holds at each step.                      *)
OpOK(c, o) ==
    /\ o.at = "user" => o = NoOp
    /\ o.at \in Shooting => o.back \in {"clear", "unlock", "map", "copy", "drop", "undo"} /\ o.va \in PAGES
    /\ o.f # NoFrame <=> Stands(o) \in Copying
    /\ o.to # Boot <=> Stands(o) \in {"copy", "undo"}
    /\ o.on # NoCpu <=> Stands(o) \in {"copy", "undo"}
    /\ Stands(o) \in {"copy", "undo"} => ~o.off
    /\ Stands(o) \in Copying \cup {"fault", "clear", "unmap"} => o.va \in PAGES
    /\ o.at \in {"scan", "wait"} => c \notin o.cpus
    /\ o.at = "wait" => o.cpus # {}
OpInv == \A c \in Cpus : OpOK(c, op[c])

(* CR3, what is published of it, and the TLB.                              *)
Cr3OK(c) ==
    /\ task[c] = Boot => At(c, "user") /\ loaded[c] = Boot
    /\ loaded[c] \in {task[c], Boot}
    /\ loaded[c] = Boot \/ At(c, "publish") => tlb[c] = {}
    /\ Stands(op[c]) \in {"leave", "drop"} => loaded[c] = Boot
    /\ Stands(op[c]) \in Holding \cup {"fault", "killed", "undo"} => loaded[c] = task[c]
    /\ Stands(op[c]) \notin {"publish", "leave"} => pub[c] = loaded[c]
    /\ Stands(op[c]) = "drop" => \A d \in Cpus : task[d] = task[c] => d = c
Cr3Inv == \A c \in Cpus : Cr3OK(c)

(* lock_mm is held by the one CPU that is in a locked step.                *)
LockInv ==
    /\ \A c \in Cpus : Stands(op[c]) \in Holding => lock[task[c]] = c
    /\ \A m \in MMS : lock[m] # NoCpu => Stands(op[lock[m]]) \in Holding /\ task[lock[m]] = m

(* The child of a fork in progress is known to nobody.                     *)
ForkInv ==
    \A c \in Cpus :
        /\ op[c].to # Boot => \A d \in Cpus : task[d] # op[c].to /\ (d # c => op[d].to # op[c].to)
        /\ op[c].on # NoCpu =>
              task[op[c].on] = Boot /\ \A d \in Cpus : d # c => op[d].on # op[c].on

Control == Shape /\ OpInv /\ Cr3Inv /\ LockInv /\ ForkInv

(* smp_tlb_lock, and the request its holder waits for.                     *)
IpiInv ==
    \A c \in Cpus :
        /\ tlb_lock = c <=> op[c].at \in {"scan", "wait"}
        /\ At(c, "wait") =>
              req[Min(op[c].cpus)] \in {NoReq, [mm |-> Target(c), va |-> op[c].va]}

(* A translation is what the page table says, or a shootdown is on its way *)
(* to the CPU that has it.                                                 *)
Current(m, e) ==
    /\ Pte(m, e.va).kind = "present" /\ Pte(m, e.va).f = e.f
    /\ e.w => Pte(m, e.va).w
Pending(c, d, va) ==
    /\ op[c].va = va /\ c # d
    /\ \/ At(c, "spin")
       \/ At(c, "scan") /\ d \in op[c].cpus
       \/ At(c, "wait") /\ d \in op[c].cpus /\ (d = Min(op[c].cpus) => req[d] # NoReq)
TlbInv ==
    \A d \in Cpus : \A e \in tlb[d] :
        \/ Current(loaded[d], e)
        \/ lock[loaded[d]] # NoCpu /\ Pending(lock[loaded[d]], d, e.va)

(* What the page table holds at each step.                                 *)
Empty(m, va) == pt[m][va].kind = "no"
PagesOK(c) ==
    /\ Stands(op[c]) = "copy" => \A va \in op[c].todo : Empty(op[c].to, va)
    /\ Stands(op[c]) = "undo" => \A va \in PAGES : va \in op[c].todo \/ Empty(op[c].to, va)
    /\ Stands(op[c]) = "drop" => \A va \in PAGES : va \in op[c].todo \/ Empty(task[c], va)
    /\ Stands(op[c]) = "map" => Empty(task[c], op[c].va)
    /\ op[c].at \in {"insert", "remove"} =>
          Pte(task[c], op[c].va).kind = "present" /\ Pte(task[c], op[c].va).cow
    /\ Stands(op[c]) = "clear" => Pte(task[c], op[c].va).kind = "present"
    /\ At(c, "unmap") => ~Empty(task[c], op[c].va)
Used(m) == \E c \in Cpus : task[c] = m \/ op[c].to = m
PagesInv ==
    /\ \A m \in MMS : Used(m) \/ \A va \in PAGES : Empty(m, va)
    /\ \A c \in Cpus : PagesOK(c)

(* The frame that an entry keeps, and the one a CPU has in its hand.       *)
Kept(m, va) == ~Empty(m, va) /\ ~Removed(m, va)
Frame(m, va) == IF Kept(m, va) THEN pt[m][va].f ELSE NoFrame
HandInv ==
    \A c \in Cpus : op[c].f # NoFrame =>
        /\ \A d \in Cpus : op[d].f = op[c].f => d = c
        /\ \A m \in MMS, va \in PAGES : Frame(m, va) # op[c].f
-----------------------------------------------------------------------------
USE DEF At, Step, Goto, Pte, SetPte, Stands, Shooting, Holding, Copying

(* The lowest of some CPUs, pages or frames.                               *)
LEMMA MinIn ==
    ASSUME NEW T, T \subseteq Nat, T # {}
    PROVE  Min(T) \in T /\ \A y \in T : Min(T) <= y
    BY Least DEF Min

(* CPUs, frames and what is outside them.                                  *)
LEMMA Numbers ==
    /\ CPUS \in Nat /\ FRAMES \in Nat /\ VALUES \in Nat
    /\ Cpus \subseteq Nat /\ Frames \subseteq Nat /\ PAGES \subseteq Nat
    /\ NoCpu \notin Cpus /\ NoFrame \notin Frames /\ Boot \notin MMS
    BY VmAssumption DEF Cpus, Frames, NoCpu, NoFrame

(* There is a frame for every page.                                        *)
LEMMA SomeFrame ==
    ASSUME NEW va \in PAGES
    PROVE  0 \in Frames
<1>1. Cardinality(PAGES) \in Nat /\ Cardinality(PAGES) # 0
    BY VmAssumption, FS_EmptySet, FS_CardinalityType
<1> QED
    BY <1>1, VmAssumption DEF Frames

(* A page table entry written.                                             *)
LEMMA PteStepTyped ==
    ASSUME PtTyped, NEW m \in MMS, NEW va \in PAGES, NEW e \in PteType, SetPte(m, va, e)
    PROVE  PtTyped'
    BY DEF PtTyped

(* Kernel code runs for a task.                                            *)
LEMMA Serves ==
    ASSUME Control, NEW c \in Cpus, InUser(c) \/ ~At(c, "user")
    PROVE  task[c] \in MMS
    BY DEF Control, Cr3Inv, Cr3OK, Shape, RestTyped, Mms, InUser

(* The entries of a page table.                                            *)
LEMMA EntryTyped ==
    ASSUME PtTyped, NEW m \in MMS, NEW va \in PAGES
    PROVE  /\ pt[m][va] \in PteType /\ pt[m][va].f \in Frames
           /\ pt[m][va].kind \in {"no", "present", "hidden"}
           /\ pt[m][va].w \in BOOLEAN /\ pt[m][va].cow \in BOOLEAN
    BY DEF PtTyped, PteType

(* User code, and the record a fault handler starts with.                  *)
LEMMA NoOpTyped ==
    NoOp \in OpType
    BY Numbers DEF NoOp, OpType, Steps, Mms

(* The record of a fault handler.                                          *)
LEMMA HandlingTyped ==
    ASSUME NEW c \in Cpus, op[c] \in OpType
    PROVE  Handling(c) \in OpType
    BY NoOpTyped DEF Handling, OpType

(* The CPU c goes on at o, in a step that takes, keeps or gives back the   *)
(* lock of its address space and loads no CR3.                             *)
Within == Holding \cup {"fault", "killed", "undo"}
LockMoves(c, o) ==
    IF Stands(op[c]) \in Holding
    THEN lock' = IF Stands(o) \in Holding THEN lock ELSE [lock EXCEPT ![task[c]] = NoCpu]
    ELSE IF Stands(o) \in Holding
    THEN lock[task[c]] = NoCpu /\ lock' = [lock EXCEPT ![task[c]] = c]
    ELSE lock' = lock
Shrinks == \A d \in Cpus : tlb'[d] \subseteq tlb[d]
Moves(c, o) ==
    /\ Step(c, o) /\ LockMoves(c, o) /\ Shrinks /\ UNCHANGED <<task, loaded, pub>>
    /\ \/ (InUser(c) \/ Stands(op[c]) \in Within) /\ Stands(o) \in Within \cup {"user"}
       \/ Stands(op[c]) = "drop" /\ Stands(o) = "drop"
    /\ o.to \in {op[c].to, Boot} /\ o.on \in {op[c].on, NoCpu}

(* Such a step keeps control in order.                                     *)
LEMMA MoveControl ==
    ASSUME Control, NEW c \in Cpus, NEW o \in OpType, OpOK(c, o), Moves(c, o)
    PROVE  OpTyped' /\ OpInv' /\ Cr3Inv' /\ LockInv' /\ ForkInv'
<1>1. /\ OpTyped' /\ op'[c] = o /\ \A d \in Cpus : d # c => op'[d] = op[d]
      /\ task' = task /\ loaded' = loaded /\ pub' = pub
      /\ task[c] \in MMS /\ loaded[c] = IF Stands(op[c]) = "drop" THEN Boot ELSE task[c]
      /\ pub[c] = loaded[c]
    BY Serves DEF Control, Shape, OpTyped, Moves, Within, Cr3Inv, Cr3OK, InUser, OpInv, OpOK
<1>2. OpInv'
    BY <1>1 DEF Control, OpInv
<1>3. Cr3Inv'
    <2>1. Cr3OK(c)'
        <3>1. task[c] # Boot /\ tlb'[c] \subseteq tlb[c] /\ o.at # "publish"
            BY <1>1, Numbers DEF Moves, Within, Shrinks
        <3>2. CASE Stands(op[c]) = "drop" /\ Stands(o) = "drop"
            BY <1>1, <3>1, <3>2 DEF Control, Cr3Inv, Cr3OK
        <3>3. CASE (InUser(c) \/ Stands(op[c]) \in Within) /\ Stands(o) \in Within \cup {"user"}
            <4>1. loaded[c] = task[c] /\ Stands(o) \notin {"drop", "leave", "publish"}
                BY <1>1, <3>3 DEF Within, InUser
            <4> QED
                BY <1>1, <3>1, <4>1 DEF Control, Cr3Inv, Cr3OK
        <3> QED
            BY <3>2, <3>3 DEF Moves
    <2>2. ASSUME NEW d \in Cpus, d # c PROVE Cr3OK(d)'
        BY <1>1, <2>2 DEF Control, Moves, Cr3Inv, Cr3OK, Shrinks
    <2> QED
        BY <2>1, <2>2 DEF Cr3Inv
<1>4. LockInv'
    BY <1>1, Numbers DEF Control, LockInv, Moves, LockMoves, Shape, RestTyped, Cr3Inv, Cr3OK,
       Mms
<1>5. ForkInv'
    BY <1>1 DEF Control, ForkInv, Moves
<1> QED
    BY <1>1, <1>2, <1>3, <1>4, <1>5

(* What exit_mmap does to one page.                                        *)
LEMMA UnmappedTyped ==
    ASSUME Shape, NEW m \in MMS, NEW va \in PAGES, Unmapped(m, va)
    PROVE  /\ PtTyped' /\ vma' \in [MMS -> [PAGES -> {"no", "rw", "r", "none"}]]
           /\ mem' \in [MMS -> [PAGES -> Values]]
           /\ free' \subseteq Frames /\ ref' \in [Frames -> Int]
<1>1. NoPte \in PteType /\ 0 \in Values
    BY SomeFrame, Numbers DEF NoPte, PteType, Values
<1>2. PtTyped'
    BY <1>1, PteStepTyped DEF Unmapped, Shape
<1>3. vma' \in [MMS -> [PAGES -> {"no", "rw", "r", "none"}]] /\ mem' \in [MMS -> [PAGES -> Values]]
    BY <1>1 DEF Unmapped, Shape, RestTyped
<1>4. free' \subseteq Frames /\ ref' \in [Frames -> Int]
    BY EntryTyped DEF Unmapped, Drop, Shape, RestTyped
<1> QED
    BY <1>2, <1>3, <1>4

(* A fault that is refused.                                                *)
LEMMA FaultRefusedControl ==
    ASSUME Control, NEW c \in Cpus, FaultRefused(c)
    PROVE  Control'
<1> DEFINE o == [Handling(c) EXCEPT !.at = "killed"]
<1>1. task[c] \in MMS /\ op[c] \in OpType /\ OpOK(c, op[c])
    BY Serves DEF FaultRefused, Finds, Control, Shape, OpTyped, OpInv
<1>2. o \in OpType
    BY <1>1, HandlingTyped, Numbers DEF Finds, OpType, Steps, OpOK
<1>3. OpOK(c, o)
    BY <1>1, Numbers DEF FaultRefused, Finds, Handling, LockFree, NoOp, OpType, OpOK
<1>4. Moves(c, o)
    BY <1>1, Numbers DEF FaultRefused, Finds, Handling, frames, cr3s, ipis, LockFree, NoOp,
       Moves, LockMoves, Shrinks, Within, OpType, OpOK, RestTyped, Shape, Control
<1>5. PtTyped'
    BY DEF FaultRefused, PtTyped, Shape, Control
<1>6. RestTyped'
    BY <1>1, Numbers, EntryTyped DEF FaultRefused, Finds, Sole, frames, cr3s, ipis, LockFree,
       Legal, RestTyped, OpType, OpOK, EntryType, ReqType, Mms, Shape, Control
<1> QED
    BY <1>2, <1>3, <1>4, <1>5, <1>6, MoveControl DEF Control, Shape

(* A page filled.                                                          *)
LEMMA FaultFillControl ==
    ASSUME Control, NEW c \in Cpus, FaultFill(c)
    PROVE  Control'
<1> DEFINE o == [Handling(c) EXCEPT !.at = "spin", !.back = "clear"]
<1>1. task[c] \in MMS /\ op[c] \in OpType /\ OpOK(c, op[c])
    BY Serves DEF FaultFill, Finds, Control, Shape, OpTyped, OpInv
<1>2. Min(free) \in free
    BY <1>1, MinIn, Numbers DEF FaultFill, Finds, Control, Shape, RestTyped, OpType, OpOK
<1>3. o \in OpType
    BY <1>1, <1>2, HandlingTyped, Numbers DEF Finds, OpType, Steps, OpOK
<1>4. OpOK(c, o)
    BY <1>1, <1>2, Numbers DEF FaultFill, Finds, Locked, Invalidate, Handling, LockFree,
       NoOp, OpType, OpOK
<1>5. Moves(c, o)
    BY <1>1, <1>2, Numbers DEF FaultFill, Finds, Locked, Invalidate, Handling, cr3s, ipis,
       LockFree, NoOp, Moves, LockMoves, Shrinks, Within, OpType, OpOK, RestTyped, Shape,
       Control
<1>6. PtTyped'
    BY <1>1, <1>2, Numbers, SomeFrame, EntryTyped, PteStepTyped DEF FaultFill, Finds, Locked,
       Present, cr3s, ipis, LockFree, Legal, PteType, OpType, OpOK, Mms, RestTyped, Shape,
       Control
<1>7. RestTyped'
    BY <1>1, <1>2, Numbers, EntryTyped DEF FaultFill, Finds, Locked, Present, Invalidate,
       cr3s, ipis, LockFree, Legal, RestTyped, OpType, OpOK, EntryType, ReqType, Mms, Shape,
       Control
<1> QED
    BY <1>3, <1>4, <1>5, <1>6, <1>7, MoveControl DEF Control, Shape

(* The memset.                                                             *)
LEMMA FaultClearControl ==
    ASSUME Control, NEW c \in Cpus, FaultClear(c)
    PROVE  Control'
<1> DEFINE o == [op[c] EXCEPT !.at = "unlock"]
<1>1. task[c] \in MMS /\ op[c] \in OpType /\ OpOK(c, op[c])
    BY Serves DEF FaultClear, Control, Shape, OpTyped, OpInv
<1>2. o \in OpType
    BY <1>1, Numbers DEF FaultClear, OpType, Steps, OpOK
<1>3. OpOK(c, o)
    BY <1>1, Numbers DEF FaultClear, OpType, OpOK
<1>4. Moves(c, o)
    BY <1>1, Numbers DEF FaultClear, cr3s, ipis, Moves, LockMoves, Shrinks, Within, OpType,
       OpOK, RestTyped, Shape, Control
<1>5. PtTyped'
    BY DEF FaultClear, PtTyped, Shape, Control
<1>6. RestTyped'
    BY <1>1, Numbers, EntryTyped DEF FaultClear, cr3s, ipis, Values, RestTyped, OpType, OpOK,
       EntryType, ReqType, Mms, Shape, Control
<1> QED
    BY <1>2, <1>3, <1>4, <1>5, <1>6, MoveControl DEF Control, Shape

(* The last sharer of a page.                                              *)
LEMMA FaultOwnControl ==
    ASSUME Control, NEW c \in Cpus, FaultOwn(c)
    PROVE  Control'
<1> DEFINE o == [Handling(c) EXCEPT !.at = "spin", !.back = "unlock"]
<1>1. task[c] \in MMS /\ op[c] \in OpType /\ OpOK(c, op[c])
    BY Serves DEF FaultOwn, Finds, Control, Shape, OpTyped, OpInv
<1>2. o \in OpType
    BY <1>1, HandlingTyped, Numbers, ZenonT(60) DEF Finds, OpType, Steps, OpOK
<1>3. OpOK(c, o)
    BY <1>1, Numbers DEF FaultOwn, Finds, Locked, Invalidate, Handling, LockFree, NoOp,
       OpType, OpOK
<1>4. Moves(c, o)
    BY <1>1, Numbers DEF FaultOwn, Finds, Locked, Invalidate, Handling, frames, cr3s, ipis,
       LockFree, NoOp, Moves, LockMoves, Shrinks, Within, OpType, OpOK, RestTyped, Shape,
       Control
<1>5. PtTyped'
    BY <1>1, Numbers, SomeFrame, EntryTyped, PteStepTyped DEF FaultOwn, Finds, Sole, Locked,
       Present, frames, cr3s, ipis, LockFree, Legal, PteType, OpType, OpOK, Mms, RestTyped,
       Shape, Control
<1>6. RestTyped'
    BY <1>1, Numbers, EntryTyped DEF FaultOwn, Finds, Sole, Locked, Present, Invalidate,
       frames, cr3s, ipis, LockFree, Legal, RestTyped, OpType, OpOK, EntryType, ReqType, Mms,
       Shape, Control
<1> QED
    BY <1>2, <1>3, <1>4, <1>5, <1>6, MoveControl DEF Control, Shape

(* A copy on write.                                                        *)
LEMMA FaultCopyControl ==
    ASSUME Control, NEW c \in Cpus, FaultCopy(c)
    PROVE  Control'
<1> DEFINE o == [Handling(c) EXCEPT !.at = "insert", !.f = Min(free)]
<1>1. task[c] \in MMS /\ op[c] \in OpType /\ OpOK(c, op[c])
    BY Serves DEF FaultCopy, Finds, Control, Shape, OpTyped, OpInv
<1>2. Min(free) \in free
    BY <1>1, MinIn, Numbers DEF FaultCopy, Finds, Control, Shape, RestTyped, OpType, OpOK
<1>3. o \in OpType
    BY <1>1, <1>2, HandlingTyped, Numbers, ZenonT(60) DEF Finds, OpType, Steps, OpOK, Control, Shape,
       RestTyped
<1>4. OpOK(c, o)
    BY <1>1, <1>2, Numbers DEF FaultCopy, Finds, Locked, Handling, LockFree, NoOp, OpType,
       OpOK, Control, Shape, RestTyped
<1>5. Moves(c, o)
    BY <1>1, <1>2, Numbers DEF FaultCopy, Finds, Locked, Handling, cr3s, ipis, LockFree,
       NoOp, Moves, LockMoves, Shrinks, Within, OpType, OpOK, RestTyped, Shape, Control
<1>6. PtTyped'
    BY DEF FaultCopy, PtTyped, Shape, Control
<1>7. RestTyped'
    BY <1>1, <1>2, Numbers, EntryTyped DEF FaultCopy, Finds, Sole, Locked, cr3s, ipis,
       LockFree, Legal, RestTyped, OpType, OpOK, EntryType, ReqType, Mms, Shape, Control
<1> QED
    BY <1>3, <1>4, <1>5, <1>6, <1>7, MoveControl DEF Control, Shape

(* page_insert.                                                            *)
LEMMA FaultInsertControl ==
    ASSUME Control, NEW c \in Cpus, FaultInsert(c)
    PROVE  Control'
<1> DEFINE o == [op[c] EXCEPT !.at = "remove"]
<1>1. task[c] \in MMS /\ op[c] \in OpType /\ OpOK(c, op[c])
    BY Serves DEF FaultInsert, Control, Shape, OpTyped, OpInv
<1>2. o \in OpType
    BY <1>1, Numbers DEF FaultInsert, OpType, Steps, OpOK
<1>3. OpOK(c, o)
    BY <1>1, Numbers DEF FaultInsert, OpType, OpOK
<1>4. Moves(c, o)
    BY <1>1, Numbers DEF FaultInsert, cr3s, ipis, Moves, LockMoves, Shrinks, Within, OpType,
       OpOK, RestTyped, Shape, Control
<1>5. PtTyped'
    BY SMTT(60) DEF FaultInsert, PtTyped, Shape, Control
<1>6. RestTyped'
    BY <1>1, Numbers, EntryTyped DEF FaultInsert, cr3s, ipis, RestTyped, OpType, OpOK,
       EntryType, ReqType, Mms, Shape, Control
<1> QED
    BY <1>2, <1>3, <1>4, <1>5, <1>6, MoveControl DEF Control, Shape

(* Its page_remove_pte.                                                    *)
LEMMA FaultRemoveControl ==
    ASSUME Control, NEW c \in Cpus, FaultRemove(c)
    PROVE  Control'
<1> DEFINE o == [op[c] EXCEPT !.at = "spin", !.back = "map"]
<1>1. task[c] \in MMS /\ op[c] \in OpType /\ OpOK(c, op[c])
    BY Serves DEF FaultRemove, Control, Shape, OpTyped, OpInv
<1>2. o \in OpType
    BY <1>1, Numbers DEF FaultRemove, OpType, Steps, OpOK
<1>3. OpOK(c, o)
    BY <1>1, Numbers DEF FaultRemove, Invalidate, OpType, OpOK
<1>4. Moves(c, o)
    BY <1>1, Numbers DEF FaultRemove, Invalidate, frames, cr3s, ipis, Moves, LockMoves,
       Shrinks, Within, OpType, OpOK, RestTyped, Shape, Control
<1>5. PtTyped'
    BY <1>1, Numbers, SomeFrame, EntryTyped, PteStepTyped DEF FaultRemove, NoPte, frames,
       cr3s, ipis, PteType, OpType, OpOK, Mms, RestTyped, Shape, Control
<1>6. RestTyped'
    BY <1>1, Numbers, EntryTyped DEF FaultRemove, Invalidate, frames, cr3s, ipis, RestTyped,
       OpType, OpOK, EntryType, ReqType, Mms, Shape, Control
<1> QED
    BY <1>2, <1>3, <1>4, <1>5, <1>6, MoveControl DEF Control, Shape

(* Its entry.                                                              *)
LEMMA FaultMapControl ==
    ASSUME Control, NEW c \in Cpus, FaultMap(c)
    PROVE  Control'
<1> DEFINE o == [[op[c] EXCEPT !.f = NoFrame] EXCEPT !.at = "spin", !.back = "unlock"]
<1>1. task[c] \in MMS /\ op[c] \in OpType /\ OpOK(c, op[c])
    BY Serves DEF FaultMap, Control, Shape, OpTyped, OpInv
<1>2. o \in OpType
    BY <1>1, Numbers DEF FaultMap, OpType, Steps, OpOK
<1>3. OpOK(c, o)
    BY <1>1, Numbers DEF FaultMap, Invalidate, OpType, OpOK
<1>4. Moves(c, o)
    BY <1>1, Numbers DEF FaultMap, Invalidate, frames, cr3s, ipis, Moves, LockMoves, Shrinks,
       Within, OpType, OpOK, RestTyped, Shape, Control
<1>5. PtTyped'
    BY <1>1, Numbers, SomeFrame, EntryTyped, PteStepTyped DEF FaultMap, Present, frames,
       cr3s, ipis, PteType, OpType, OpOK, Mms, RestTyped, Shape, Control
<1>6. RestTyped'
    BY <1>1, Numbers, EntryTyped DEF FaultMap, Present, Invalidate, frames, cr3s, ipis,
       RestTyped, OpType, OpOK, EntryType, ReqType, Mms, Shape, Control
<1> QED
    BY <1>2, <1>3, <1>4, <1>5, <1>6, MoveControl DEF Control, Shape

(* unlock_mm.                                                              *)
LEMMA UnlockMmControl ==
    ASSUME Control, NEW c \in Cpus, UnlockMm(c)
    PROVE  Control'
<1> DEFINE o == NoOp
<1>1. task[c] \in MMS /\ op[c] \in OpType /\ OpOK(c, op[c])
    BY Serves DEF UnlockMm, Control, Shape, OpTyped, OpInv
<1>2. o \in OpType
    BY <1>1, NoOpTyped, Numbers DEF OpType, Steps, OpOK
<1>3. OpOK(c, o)
    BY <1>1, Numbers DEF UnlockMm, Unlocked, NoOp, OpType, OpOK
<1>4. Moves(c, o)
    BY <1>1, Numbers DEF UnlockMm, Unlocked, NoOp, frames, cr3s, ipis, Moves, LockMoves,
       Shrinks, Within, OpType, OpOK, RestTyped, Shape, Control
<1>5. PtTyped'
    BY DEF UnlockMm, PtTyped, Shape, Control
<1>6. RestTyped'
    BY <1>1, Numbers, EntryTyped DEF UnlockMm, Unlocked, frames, cr3s, ipis, RestTyped,
       OpType, OpOK, EntryType, ReqType, Mms, Shape, Control
<1> QED
    BY <1>2, <1>3, <1>4, <1>5, <1>6, MoveControl DEF Control, Shape

(* The shootdown starts.                                                   *)
LEMMA TlbLockControl ==
    ASSUME Control, NEW c \in Cpus, TlbLock(c)
    PROVE  Control'
<1> DEFINE o == [op[c] EXCEPT !.at = "scan", !.cpus = Cpus \ {c}]
<1>1. task[c] \in MMS /\ op[c] \in OpType /\ OpOK(c, op[c])
    BY Serves DEF TlbLock, Control, Shape, OpTyped, OpInv
<1>2. o \in OpType
    BY <1>1, Numbers DEF TlbLock, OpType, Steps, OpOK
<1>3. OpOK(c, o)
    BY <1>1, Numbers DEF TlbLock, OpType, OpOK
<1>4. Moves(c, o)
    BY <1>1, Numbers DEF TlbLock, frames, cr3s, Moves, LockMoves, Shrinks, Within, OpType,
       OpOK, RestTyped, Shape, Control
<1>5. PtTyped'
    BY DEF TlbLock, PtTyped, Shape, Control
<1>6. RestTyped'
    BY <1>1, Numbers, EntryTyped DEF TlbLock, frames, cr3s, RestTyped, OpType, OpOK,
       EntryType, ReqType, Mms, Shape, Control
<1> QED
    BY <1>2, <1>3, <1>4, <1>5, <1>6, MoveControl DEF Control, Shape

(* A request, or a CPU passed over.                                        *)
LEMMA TlbSendControl ==
    ASSUME Control, NEW c \in Cpus, TlbSend(c)
    PROVE  Control'
<1> DEFINE o == IF pub[Min(op[c].cpus)] = Target(c) THEN [op[c] EXCEPT !.at = "wait"]
                ELSE [op[c] EXCEPT !.cpus = @ \ {Min(op[c].cpus)}]
<1>1. task[c] \in MMS /\ op[c] \in OpType /\ OpOK(c, op[c])
    BY Serves DEF TlbSend, Control, Shape, OpTyped, OpInv
<1>2. Min(op[c].cpus) \in op[c].cpus
    BY <1>1, MinIn, Numbers DEF TlbSend, Control, Shape, RestTyped, OpType, OpOK
<1>3. o \in OpType
    BY <1>1, <1>2, Numbers DEF TlbSend, OpType, Steps, OpOK
<1>4. OpOK(c, o)
    BY <1>1, <1>2, Numbers DEF TlbSend, OpType, OpOK
<1>5. Moves(c, o)
    BY <1>1, <1>2, Numbers DEF TlbSend, frames, cr3s, Moves, LockMoves, Shrinks, Within,
       OpType, OpOK, RestTyped, Shape, Control
<1>6. PtTyped'
    BY DEF TlbSend, PtTyped, Shape, Control
<1>7. req' \in [Cpus -> ReqType]
    <2>1. [mm |-> Target(c), va |-> op[c].va] \in ReqType
        BY <1>1 DEF OpType, ReqType, Mms, Target
    <2> QED
        BY <2>1 DEF TlbSend, Control, Shape, RestTyped
<1>8. RestTyped'
    BY <1>7 DEF TlbSend, frames, cr3s, RestTyped, Shape, Control
<1> QED
    BY <1>3, <1>4, <1>5, <1>6, <1>8, MoveControl DEF Control, Shape

(* A request that is not delivered.                                        *)
LEMMA TlbSendFailsControl ==
    ASSUME Control, NEW c \in Cpus, TlbSendFails(c)
    PROVE  Control'
<1> DEFINE o == [op[c] EXCEPT !.cpus = @ \ {Min(op[c].cpus)}]
<1>1. task[c] \in MMS /\ op[c] \in OpType /\ OpOK(c, op[c])
    BY Serves DEF TlbSendFails, Control, Shape, OpTyped, OpInv
<1>2. Min(op[c].cpus) \in op[c].cpus
    BY <1>1, MinIn, Numbers DEF TlbSendFails, Control, Shape, RestTyped, OpType, OpOK
<1>3. o \in OpType
    BY <1>1, <1>2, Numbers DEF TlbSendFails, OpType, Steps, OpOK
<1>4. OpOK(c, o)
    BY <1>1, <1>2, Numbers DEF TlbSendFails, OpType, OpOK
<1>5. Moves(c, o)
    BY <1>1, <1>2, Numbers DEF TlbSendFails, frames, cr3s, Moves, LockMoves, Shrinks, Within,
       OpType, OpOK, RestTyped, Shape, Control
<1>6. PtTyped'
    BY DEF TlbSendFails, PtTyped, Shape, Control
<1>7. req' \in [Cpus -> ReqType]
    <2>1. NoReq \in ReqType
        BY DEF NoReq, ReqType, Mms
    <2> QED
        BY <2>1 DEF TlbSendFails, Control, Shape, RestTyped
<1>8. RestTyped'
    BY <1>7 DEF TlbSendFails, frames, cr3s, RestTyped, Shape, Control
<1> QED
    BY <1>3, <1>4, <1>5, <1>6, <1>8, MoveControl DEF Control, Shape

(* An answer.                                                              *)
LEMMA TlbAcknowledgedControl ==
    ASSUME Control, NEW c \in Cpus, TlbAcknowledged(c)
    PROVE  Control'
<1> DEFINE o == [op[c] EXCEPT !.at = "scan", !.cpus = @ \ {Min(op[c].cpus)}]
<1>1. task[c] \in MMS /\ op[c] \in OpType /\ OpOK(c, op[c])
    BY Serves DEF TlbAcknowledged, Control, Shape, OpTyped, OpInv
<1>2. Min(op[c].cpus) \in op[c].cpus
    BY <1>1, MinIn, Numbers DEF TlbAcknowledged, Control, Shape, RestTyped, OpType, OpOK
<1>3. o \in OpType
    BY <1>1, <1>2, Numbers DEF TlbAcknowledged, OpType, Steps, OpOK
<1>4. OpOK(c, o)
    BY <1>1, <1>2, Numbers DEF TlbAcknowledged, OpType, OpOK
<1>5. Moves(c, o)
    BY <1>1, <1>2, Numbers DEF TlbAcknowledged, NoReq, frames, cr3s, ipis, Moves, LockMoves,
       Shrinks, Within, OpType, OpOK, RestTyped, Shape, Control
<1>6. PtTyped'
    BY DEF TlbAcknowledged, PtTyped, Shape, Control
<1>7. RestTyped'
    BY <1>1, <1>2, Numbers, EntryTyped DEF TlbAcknowledged, NoReq, frames, cr3s, ipis,
       RestTyped, OpType, OpOK, EntryType, ReqType, Mms, Shape, Control
<1> QED
    BY <1>3, <1>4, <1>5, <1>6, <1>7, MoveControl DEF Control, Shape

(* The shootdown ends.                                                     *)
LEMMA TlbUnlockControl ==
    ASSUME Control, NEW c \in Cpus, TlbUnlock(c)
    PROVE  Control'
<1> DEFINE o == [op[c] EXCEPT !.at = op[c].back, !.back = "user"]
<1>1. task[c] \in MMS /\ op[c] \in OpType /\ OpOK(c, op[c])
    BY Serves DEF TlbUnlock, Control, Shape, OpTyped, OpInv
<1>2. o \in OpType
    BY <1>1, Numbers DEF TlbUnlock, OpType, Steps, OpOK
<1>3. OpOK(c, o)
    BY <1>1, Numbers DEF TlbUnlock, OpType, OpOK
<1>4. Moves(c, o)
    BY <1>1, Numbers DEF TlbUnlock, frames, cr3s, Moves, LockMoves, Shrinks, Within, OpType,
       OpOK, RestTyped, Shape, Control
<1>5. PtTyped'
    BY DEF TlbUnlock, PtTyped, Shape, Control
<1>6. RestTyped'
    BY <1>1, Numbers, EntryTyped DEF TlbUnlock, frames, cr3s, RestTyped, OpType, OpOK,
       EntryType, ReqType, Mms, Shape, Control
<1> QED
    BY <1>2, <1>3, <1>4, <1>5, <1>6, MoveControl DEF Control, Shape

(* copy_range: a page turns COW.                                           *)
LEMMA CopyProtectControl ==
    ASSUME Control, NEW c \in Cpus, CopyProtect(c)
    PROVE  Control'
<1> DEFINE o == [[op[c] EXCEPT !.va = Min(op[c].todo)] EXCEPT !.at = "spin", !.back = "copy"]
<1>1. task[c] \in MMS /\ op[c] \in OpType /\ OpOK(c, op[c])
    BY Serves DEF CopyProtect, Control, Shape, OpTyped, OpInv
<1>2. Min(op[c].todo) \in op[c].todo
    BY <1>1, MinIn, Numbers DEF CopyProtect, Control, Shape, RestTyped, OpType, OpOK
<1>3. o \in OpType
    BY <1>1, <1>2, Numbers DEF CopyProtect, OpType, Steps, OpOK
<1>4. OpOK(c, o)
    BY <1>1, <1>2, Numbers DEF CopyProtect, Invalidate, OpType, OpOK
<1>5. Moves(c, o)
    BY <1>1, <1>2, Numbers DEF CopyProtect, Invalidate, frames, cr3s, ipis, Moves, LockMoves,
       Shrinks, Within, OpType, OpOK, RestTyped, Shape, Control
<1>6. PtTyped'
    BY <1>1, <1>2, Numbers, SomeFrame, EntryTyped, PteStepTyped, ZenonT(60) DEF CopyProtect, frames,
       cr3s, ipis, PteType, OpType, OpOK, Mms, RestTyped, Shape, Control
<1>7. RestTyped'
    BY <1>1, <1>2, Numbers, EntryTyped DEF CopyProtect, Invalidate, frames, cr3s, ipis,
       RestTyped, OpType, OpOK, EntryType, ReqType, Mms, Shape, Control
<1> QED
    BY <1>3, <1>4, <1>5, <1>6, <1>7, MoveControl DEF Control, Shape

(* copy_range: a page is shared.                                           *)
LEMMA CopyShareControl ==
    ASSUME Control, NEW c \in Cpus, CopyShare(c)
    PROVE  Control'
<1> DEFINE o == [op[c] EXCEPT !.todo = @ \ {Min(op[c].todo)}]
<1>1. task[c] \in MMS /\ op[c] \in OpType /\ OpOK(c, op[c])
    BY Serves DEF CopyShare, Control, Shape, OpTyped, OpInv
<1>2. Min(op[c].todo) \in op[c].todo
    BY <1>1, MinIn, Numbers DEF CopyShare, Control, Shape, RestTyped, OpType, OpOK
<1>3. o \in OpType
    BY <1>1, <1>2, Numbers DEF CopyShare, OpType, Steps, OpOK
<1>4. OpOK(c, o)
    BY <1>1, <1>2, Numbers DEF CopyShare, OpType, OpOK
<1>5. Moves(c, o)
    BY <1>1, <1>2, Numbers DEF CopyShare, cr3s, ipis, Moves, LockMoves, Shrinks, Within,
       OpType, OpOK, RestTyped, Shape, Control
<1>6. PtTyped'
    BY <1>1, <1>2, Numbers, SomeFrame, EntryTyped, PteStepTyped DEF CopyShare, Shared, cr3s,
       ipis, PteType, OpType, OpOK, Mms, RestTyped, Shape, Control
<1>7. RestTyped'
    BY <1>1, <1>2, Numbers, EntryTyped DEF CopyShare, Shared, cr3s, ipis, Values, RestTyped,
       OpType, OpOK, EntryType, ReqType, Mms, Shape, Control
<1> QED
    BY <1>3, <1>4, <1>5, <1>6, <1>7, MoveControl DEF Control, Shape

(* exit_mmap of a failed child.                                            *)
LEMMA ForkUndoControl ==
    ASSUME Control, NEW c \in Cpus, ForkUndo(c)
    PROVE  Control'
<1> DEFINE va == Min(op[c].todo)
           q == [op[c] EXCEPT !.va = va, !.todo = @ \ {va}]
           o == IF op[c].todo = {} THEN NoOp ELSE IF Empty(op[c].to, va) THEN q
                ELSE [q EXCEPT !.at = "spin", !.back = "undo"]
<1>1. task[c] \in MMS /\ op[c] \in OpType /\ OpOK(c, op[c])
    BY Serves DEF ForkUndo, Control, Shape, OpTyped, OpInv
<1>2. op[c].todo # {} => Min(op[c].todo) \in op[c].todo
    BY <1>1, MinIn, Numbers DEF OpType
<1>3. o \in OpType
    <2>1. CASE op[c].todo = {}
        BY <2>1, NoOpTyped
    <2>2. CASE op[c].todo # {}
        <3>1. q \in OpType
            BY <1>1, <1>2, <2>2, Numbers DEF OpType
        <3> HIDE DEF q
        <3>2. [q EXCEPT !.at = "spin", !.back = "undo"] \in OpType
            BY <3>1 DEF OpType, Steps
        <3> QED
            BY <2>2, <3>1, <3>2
    <2> QED
        BY <2>1, <2>2
<1>4. OpOK(c, o)
    BY <1>1, <1>2, Numbers DEF ForkUndo, NoOp, OpType, OpOK
<1>5. Moves(c, o)
    <2>1. op' = [op EXCEPT ![c] = o] /\ UNCHANGED <<task, loaded, pub, lock>>
        BY DEF ForkUndo, UnmapNext, Invalidate, Empty, cr3s
    <2>2. Shrinks
        BY <1>1 DEF ForkUndo, UnmapNext, Invalidate, Shrinks, RestTyped, Shape, Control
    <2>3. /\ Stands(o) \in {"undo", "user"} /\ Stands(op[c]) = "undo"
          /\ o.to \in {op[c].to, Boot} /\ o.on \in {op[c].on, NoCpu}
        BY <1>1 DEF ForkUndo, NoOp, OpType
    <2> HIDE DEF o
    <2> QED
        BY <2>1, <2>2, <2>3 DEF Moves, LockMoves, Within
<1>6. CASE op[c].todo = {}
    <2>1. PtTyped' /\ RestTyped'
        BY <1>6 DEF ForkUndo, cr3s, ipis, PtTyped, RestTyped, Shape, Control
    <2> QED
        BY <2>1, <1>3, <1>4, <1>5, MoveControl DEF Control, Shape
<1>7. CASE op[c].todo # {}
    <2>1. va \in PAGES /\ op[c].to \in MMS /\ Unmapped(op[c].to, va)
        BY <1>1, <1>2, <1>7 DEF ForkUndo, UnmapNext, OpType, OpOK, Mms
    <2>2. PtTyped' /\ vma' \in [MMS -> [PAGES -> {"no", "rw", "r", "none"}]]
             /\ mem' \in [MMS -> [PAGES -> Values]] /\ free' \subseteq Frames /\ ref' \in [Frames -> Int]
        BY <2>1, UnmappedTyped DEF Control
    <2>3. tlb' \in [Cpus -> SUBSET EntryType]
        BY <1>7 DEF ForkUndo, UnmapNext, Invalidate, RestTyped, Shape, Control
    <2> HIDE DEF va
    <2>4. RestTyped'
        BY <2>2, <2>3 DEF ForkUndo, cr3s, ipis, RestTyped, Shape, Control
    <2> QED
        BY <2>2, <2>4, <1>3, <1>4, <1>5, MoveControl DEF Control, Shape
<1> QED
    BY <1>6, <1>7

(* The entry of an unmapped page.                                          *)
LEMMA UnmapClearControl ==
    ASSUME Control, NEW c \in Cpus, UnmapClear(c)
    PROVE  Control'
<1> DEFINE o == [op[c] EXCEPT !.at = "spin", !.back = "unlock"]
<1>1. task[c] \in MMS /\ op[c] \in OpType /\ OpOK(c, op[c])
    BY Serves DEF UnmapClear, Control, Shape, OpTyped, OpInv
<1>2. o \in OpType
    BY <1>1, Numbers DEF UnmapClear, OpType, Steps, OpOK
<1>3. OpOK(c, o)
    BY <1>1, Numbers DEF UnmapClear, Invalidate, OpType, OpOK
<1>4. Moves(c, o)
    BY <1>1, Numbers DEF UnmapClear, Invalidate, frames, cr3s, ipis, Moves, LockMoves,
       Shrinks, Within, OpType, OpOK, RestTyped, Shape, Control
<1>5. PtTyped'
    BY <1>1, Numbers, SomeFrame, EntryTyped, PteStepTyped DEF UnmapClear, NoPte, frames,
       cr3s, ipis, PteType, OpType, OpOK, Mms, RestTyped, Shape, Control
<1>6. RestTyped'
    BY <1>1, Numbers, EntryTyped DEF UnmapClear, Invalidate, frames, cr3s, ipis, Values,
       RestTyped, OpType, OpOK, EntryType, ReqType, Mms, Shape, Control
<1> QED
    BY <1>2, <1>3, <1>4, <1>5, <1>6, MoveControl DEF Control, Shape

(* A fork that fails.                                                      *)
LEMMA ForkFailsControl ==
    ASSUME Control, NEW c \in Cpus, ForkFails(c)
    PROVE  Control'
<1> DEFINE o == [op[c] EXCEPT !.at = "undo", !.todo = PAGES]
<1>1. task[c] \in MMS /\ op[c] \in OpType /\ OpOK(c, op[c])
    BY Serves DEF ForkFails, Control, Shape, OpTyped, OpInv
<1>2. o \in OpType
    BY <1>1, Numbers DEF ForkFails, OpType, Steps, OpOK
<1>3. OpOK(c, o)
    BY <1>1, Numbers DEF ForkFails, Unlocked, OpType, OpOK
<1>4. Moves(c, o)
    BY <1>1, Numbers DEF ForkFails, Unlocked, frames, cr3s, ipis, Moves, LockMoves, Shrinks,
       Within, OpType, OpOK, RestTyped, Shape, Control
<1>5. PtTyped'
    BY DEF ForkFails, PtTyped, Shape, Control
<1>6. RestTyped'
    BY <1>1, Numbers, EntryTyped DEF ForkFails, Unlocked, frames, cr3s, ipis, RestTyped,
       OpType, OpOK, EntryType, ReqType, Mms, Shape, Control
<1> QED
    BY <1>2, <1>3, <1>4, <1>5, <1>6, MoveControl DEF Control, Shape

(* munmap.                                                                 *)
LEMMA UnmapControl ==
    ASSUME Control, NEW c \in Cpus, NEW va \in PAGES, Unmap(c, va)
    PROVE  Control'
<1> DEFINE o == [NoOp EXCEPT !.at = "unmap", !.va = va]
<1>1. task[c] \in MMS /\ op[c] \in OpType /\ OpOK(c, op[c])
    BY Serves DEF Unmap, InUser, Control, Shape, OpTyped, OpInv
<1>2. o \in OpType
    BY <1>1, NoOpTyped, Numbers DEF OpType, Steps, OpOK
<1>3. OpOK(c, o)
    BY <1>1, Numbers DEF Unmap, InUser, Locked, NoOp, LockFree, OpType, OpOK
<1>4. Moves(c, o)
    BY <1>1, Numbers DEF Unmap, InUser, Locked, NoOp, cr3s, ipis, LockFree, Moves, LockMoves,
       Shrinks, Within, OpType, OpOK, RestTyped, Shape, Control
<1>5. PtTyped'
    BY DEF Unmap, PtTyped, Shape, Control
<1>6. RestTyped'
    BY <1>1, Numbers, EntryTyped DEF Unmap, InUser, Locked, Drop, cr3s, ipis, LockFree,
       RestTyped, OpType, OpOK, EntryType, ReqType, Mms, Shape, Control
<1> QED
    BY <1>2, <1>3, <1>4, <1>5, <1>6, MoveControl DEF Control, Shape

(* A page fault.                                                           *)
LEMMA FaultControl ==
    ASSUME Control, NEW c \in Cpus, NEW va \in PAGES, NEW write \in BOOLEAN, Fault(c, va, write)
    PROVE  Control'
<1> DEFINE b == (IF Entry(c, va) = {} THEN Walk(task[c], va) ELSE Entry(c, va)) # {}
           o == [NoOp EXCEPT !.at = "fault", !.va = va, !.write = write, !.p = b]
<1>1. task[c] \in MMS /\ op[c] \in OpType /\ OpOK(c, op[c])
    BY Serves DEF Fault, InUser, Control, Shape, OpTyped, OpInv
<1>2. o \in OpType
    <2>1. b \in BOOLEAN
        OBVIOUS
    <2> HIDE DEF b
    <2> QED
        BY <2>1, NoOpTyped, Numbers DEF OpType, Steps
<1>3. OpOK(c, o)
    BY <1>1, Numbers DEF Fault, InUser, NoOp, OpType, OpOK
<1>4. Moves(c, o)
    BY <1>1, Numbers DEF Fault, Entry, Walk, InUser, May, NoOp, frames, cr3s, ipis, Moves,
       LockMoves, Shrinks, Within, OpType, OpOK, RestTyped, Shape, Control
<1>5. PtTyped'
    BY DEF Fault, PtTyped, Shape, Control
<1>6. RestTyped'
    BY <1>1, Numbers, EntryTyped DEF Fault, Entry, Walk, InUser, May, frames, cr3s, ipis,
       RestTyped, OpType, OpOK, EntryType, ReqType, Mms, Shape, Control
<1> QED
    BY <1>2, <1>3, <1>4, <1>5, <1>6, MoveControl DEF Control, Shape
(* Steps that touch nothing but memory, or that drop translations.         *)
LEMMA StillControl ==
    ASSUME Control, UNCHANGED <<op, lock, task, loaded, pub>>, Shrinks, PtTyped', RestTyped'
    PROVE  Control'
<1>1. OpTyped' /\ OpInv'
    BY DEF Control, Shape, OpTyped, OpInv
<1>2. Cr3Inv'
    BY DEF Control, Cr3Inv, Cr3OK, Shrinks
<1>3. LockInv' /\ ForkInv'
    BY DEF Control, LockInv, ForkInv
<1> QED
    BY <1>1, <1>2, <1>3 DEF Control, Shape

(* mprotect.                                                               *)
LEMMA MprotectControl ==
    ASSUME Control, NEW c \in Cpus, NEW va \in PAGES, NEW prot \in Prots, Mprotect(c, va, prot)
    PROVE  Control'
<1> DEFINE o == [[NoOp EXCEPT !.va = va] EXCEPT !.at = "spin", !.back = "unlock"]
           m == task[c]
           none == Pte(m, va).kind = "no" \/ (Pte(m, va).kind = "hidden" /\ prot = "none")
<1>1. task[c] \in MMS /\ op[c] \in OpType /\ OpOK(c, op[c]) /\ InUser(c)
    BY Serves DEF Mprotect, Control, Shape, OpTyped, OpInv
<1>2. vma' \in [MMS -> [PAGES -> {"no", "rw", "r", "none"}]]
    BY <1>1, VmAssumption DEF Mprotect, Control, Shape, RestTyped
<1>3. CASE none
    <2>1. UNCHANGED <<pt, lock, tlb, op>>
        BY <1>3 DEF Mprotect
    <2>2. PtTyped' /\ RestTyped' /\ Shrinks /\ UNCHANGED <<task, loaded, pub>>
        BY <2>1, <1>2 DEF Mprotect, Control, Shape, PtTyped, RestTyped, frames, cr3s, ipis,
           Shrinks
    <2> QED
        BY <2>1, <2>2, StillControl
<1>4. CASE ~none
    <2>1. Locked(c, m) /\ SetPte(m, va, Protected(Pte(m, va), prot))
             /\ Invalidate(c, [NoOp EXCEPT !.va = va], m, "unlock")
        BY <1>4 DEF Mprotect
    <2>2. o \in OpType
        BY NoOpTyped, Numbers DEF OpType, Steps
    <2>3. OpOK(c, o)
        BY Numbers DEF NoOp, OpOK
    <2>4. Moves(c, o)
        BY <1>1, <2>1, Numbers DEF Mprotect, Invalidate, Locked, LockFree, NoOp, cr3s,
           InUser, Moves,
           LockMoves, Shrinks, Within, OpType, OpOK, RestTyped, Shape, Control
    <2>5. Protected(Pte(m, va), prot) \in PteType
        BY <1>1, EntryTyped DEF Protected, Restored, Present, PteType, Control, Shape
    <2>6. PtTyped'
        BY <1>1, <2>1, <2>5, PteStepTyped DEF Control, Shape
    <2>7. RestTyped'
        BY <1>1, <1>2, <2>1 DEF Mprotect, Invalidate, Locked, frames, cr3s, ipis, RestTyped,
           EntryType, Shape, Control
    <2> QED
        BY <2>2, <2>3, <2>4, <2>6, <2>7, MoveControl DEF Control, Shape
<1> QED
    BY <1>3, <1>4

(* mmap.                                                                   *)
LEMMA MapControl ==
    ASSUME Control, NEW c \in Cpus, NEW va \in PAGES, Map(c, va)
    PROVE  Control'
<1>1. task[c] \in MMS
    BY Serves DEF Map
<1>2. PtTyped' /\ RestTyped' /\ Shrinks
    BY <1>1 DEF Map, Control, Shape, PtTyped, RestTyped, frames, cr3s, ipis, Shrinks
<1> QED
    BY <1>2, StillControl DEF Map, cr3s

(* A store of user code.                                                   *)
LEMMA StoreControl ==
    ASSUME Control, NEW c \in Cpus, NEW va \in PAGES, NEW v \in Values, Store(c, va, v)
    PROVE  Control'
<1>1. task[c] \in MMS
    BY Serves DEF Store
<1>2. PtTyped' /\ Shrinks
    BY DEF Store, Control, Shape, PtTyped, Shrinks
<1>3. RestTyped'
    BY <1>1 DEF Store, Entry, Control, Shape, RestTyped, EntryType, cr3s, ipis
<1> QED
    BY <1>2, <1>3, StillControl DEF Store, cr3s

(* smp_handle_tlb_ipi.                                                     *)
LEMMA TlbIpiControl ==
    ASSUME Control, NEW d \in Cpus, TlbIpi(d)
    PROVE  Control'
<1>1. PtTyped' /\ Shrinks
    BY DEF TlbIpi, Control, Shape, PtTyped, RestTyped, Shrinks
<1>2. NoReq \in ReqType
    BY DEF NoReq, ReqType, Mms
<1>3. RestTyped'
    BY <1>2 DEF TlbIpi, Control, Shape, RestTyped, frames, cr3s
<1> QED
    BY <1>1, <1>3, StillControl DEF TlbIpi, cr3s

(* A TLB entry loaded.                                                     *)
LEMMA LoadControl ==
    ASSUME Control, NEW c \in Cpus, NEW va \in PAGES, Load(c, va)
    PROVE  Control'
<1>1. task[c] \in MMS
    BY Serves DEF Load
<1>2. Walk(task[c], va) \subseteq EntryType
    BY <1>1, EntryTyped DEF Walk, EntryType, Control, Shape
<1>3. PtTyped' /\ OpTyped'
    BY DEF Load, Control, Shape, PtTyped, OpTyped
<1>4. RestTyped'
    BY <1>2 DEF Load, Control, Shape, RestTyped, frames, cr3s, ipis
<1>5. OpInv' /\ LockInv' /\ ForkInv'
    BY DEF Load, cr3s, Control, OpInv, LockInv, ForkInv
<1>6. Cr3Inv'
    BY <1>1, Numbers DEF Load, InUser, cr3s, Control, Cr3Inv, Cr3OK, Shape, RestTyped
<1> QED
    BY <1>3, <1>4, <1>5, <1>6 DEF Control, Shape

(* fork, before the first page is copied.                                  *)
LEMMA ForkControl ==
    ASSUME Control, NEW c \in Cpus, NEW m \in MMS, NEW d \in Cpus, Fork(c, m, d)
    PROVE  Control'
<1> DEFINE o == [NoOp EXCEPT !.at = "copy", !.to = m, !.on = d, !.todo = PAGES]
<1>1. task[c] \in MMS
    BY Serves DEF Fork
<1>2. o \in OpType
    BY NoOpTyped DEF OpType, Steps, Mms
<1>3. OpOK(c, o)
    BY Numbers DEF NoOp, OpOK
<1>4. op' = [op EXCEPT ![c] = o]
    BY DEF Fork
<1>5. PtTyped' /\ OpTyped'
    BY <1>2, <1>4 DEF Fork, Control, Shape, PtTyped, OpTyped
<1>6. RestTyped'
    BY <1>1 DEF Fork, Locked, Control, Shape, RestTyped, frames, cr3s, ipis
<1>7. OpInv'
    BY <1>3, <1>4 DEF Control, OpInv, Shape, OpTyped
<1>8. Cr3Inv'
    BY <1>4 DEF Fork, InUser, NoOp, cr3s, Control, Cr3Inv, Cr3OK, Shape, OpTyped
<1>9. LockInv'
    BY <1>1, <1>4, Numbers DEF Fork, Locked, LockFree, InUser, NoOp, cr3s, Control, LockInv,
       Cr3Inv, Cr3OK,
       Shape, OpTyped, RestTyped, Mms
<1>10. ForkInv'
    <2>1. o.to = m /\ o.on = d
        BY DEF NoOp
    <2>2. op'[c] = o /\ \A x \in Cpus : x # c => op'[x] = op[x]
        BY <1>4 DEF Control, Shape, OpTyped
    <2>3. /\ \A x \in Cpus : task[x] # m /\ op[x].to # m /\ op[x].on # d
          /\ task[d] = Boot /\ task' = task
        BY DEF Fork, Unused, Vacant, Tasks, cr3s
    <2> HIDE DEF o
    <2> QED
        BY <2>1, <2>2, <2>3 DEF Control, ForkInv
<1> QED
    BY <1>5, <1>6, <1>7, <1>8, <1>9, <1>10 DEF Control, Shape

(* fork is done: the child may run.                                        *)
LEMMA ForkDoneControl ==
    ASSUME Control, NEW c \in Cpus, ForkDone(c)
    PROVE  Control'
<1>1. task[c] \in MMS /\ op[c] \in OpType /\ OpOK(c, op[c])
    BY Serves DEF ForkDone, Control, Shape, OpTyped, OpInv
<1>2. op[c].to \in MMS /\ op[c].on \in Cpus /\ op[c].on # c
    BY <1>1, Numbers DEF ForkDone, OpType, OpOK, Mms, Control, ForkInv
<1>3. OpOK(c, NoOp)
    BY Numbers DEF NoOp, OpOK
<1>4. /\ op'[c] = NoOp /\ \A x \in Cpus : x # c => op'[x] = op[x]
      /\ task'[op[c].on] = op[c].to /\ \A x \in Cpus : x # op[c].on => task'[x] = task[x]
      /\ loaded' = loaded /\ pub' = pub /\ tlb' = tlb
    BY <1>2 DEF ForkDone, Control, Shape, OpTyped, RestTyped
<1>5. PtTyped' /\ OpTyped'
    BY <1>4, NoOpTyped DEF ForkDone, Control, Shape, PtTyped, OpTyped
<1>6. RestTyped'
    BY <1>1, <1>2 DEF ForkDone, Unlocked, Control, Shape, RestTyped, frames, ipis, Mms
<1>7. OpInv'
    BY <1>3, <1>4 DEF Control, OpInv
<1>8. /\ task[op[c].on] = Boot /\ loaded[op[c].on] = Boot /\ At(op[c].on, "user")
      /\ \A x \in Cpus : task[x] # op[c].to
    BY <1>2, Numbers DEF Control, ForkInv, Cr3Inv, Cr3OK
<1>9. Cr3Inv'
    <2>1. NoOp.at = "user"
        BY DEF NoOp
    <2>2. ASSUME NEW x \in Cpus PROVE Cr3OK(x)'
        BY <1>1, <1>2, <1>4, <1>8, <2>1, Numbers DEF ForkDone, Control, Cr3Inv, Cr3OK
    <2> QED
        BY <2>2 DEF Cr3Inv
<1>10. LockInv'
    <2>1. NoOp.at = "user"
        BY DEF NoOp
    <2>2. /\ lock[task[c]] = c /\ lock'[task[c]] = NoCpu
          /\ \A m \in MMS : m # task[c] => lock'[m] = lock[m]
        <3>1. Stands(op[c]) = "copy"
            BY DEF ForkDone
        <3>2. lock[task[c]] = c
            BY <3>1 DEF Control, LockInv
        <3>3. lock' = [lock EXCEPT ![task[c]] = NoCpu] /\ lock \in [MMS -> Cpus \cup {NoCpu}]
            BY DEF ForkDone, Unlocked, Control, Shape, RestTyped
        <3> QED
            BY <1>1, <3>2, <3>3
    <2>3. ASSUME NEW x \in Cpus, Stands(op'[x]) \in Holding PROVE lock'[task'[x]] = x
        BY <1>1, <1>2, <1>4, <1>8, <2>1, <2>2, <2>3, Serves, Numbers DEF Control, LockInv
    <2>4. ASSUME NEW m \in MMS, lock'[m] # NoCpu
          PROVE  Stands(op'[lock'[m]]) \in Holding /\ task'[lock'[m]] = m
        <3>1. m # task[c] /\ lock'[m] = lock[m] /\ lock[m] \in Cpus
            BY <2>2, <2>4 DEF Control, Shape, RestTyped
        <3>2. Stands(op[lock[m]]) \in Holding /\ task[lock[m]] = m /\ lock[m] # c
            BY <2>4, <3>1 DEF Control, LockInv
        <3> QED
            BY <1>4, <1>8, <3>1, <3>2, Numbers
    <2> QED
        BY <2>3, <2>4 DEF LockInv
<1>11. ForkInv'
    <2>1. NoOp.to = Boot /\ NoOp.on = NoCpu
        BY DEF NoOp
    <2>2. ASSUME NEW x \in Cpus, op'[x].to # Boot
          PROVE  \A d \in Cpus : task'[d] # op'[x].to /\ (d # x => op'[d].to # op'[x].to)
        BY <1>2, <1>4, <1>8, <2>1, <2>2, Numbers DEF Control, ForkInv
    <2>3. ASSUME NEW x \in Cpus, op'[x].on # NoCpu
          PROVE  task'[op'[x].on] = Boot /\ \A d \in Cpus : d # x => op'[d].on # op'[x].on
        <3>1. x # c /\ op'[x] = op[x]
            BY <1>4, <2>1, <2>3
        <3>2. op[x].on \in Cpus
            BY <2>3, <3>1 DEF Control, Shape, OpTyped, OpType
        <3> QED
            BY <1>2, <1>4, <2>1, <2>3, <3>1, <3>2 DEF Control, ForkInv
    <2> QED
        BY <2>2, <2>3 DEF ForkInv
<1> QED
    BY <1>5, <1>6, <1>7, <1>9, <1>10, <1>11 DEF Control, Shape

(* proc_run: CR3 loaded, ...                                               *)
LEMMA SwitchControl ==
    ASSUME Control, NEW c \in Cpus, NEW from, NEW to,
           <<from, to>> \in {<<task[c], Boot>>, <<Boot, task[c]>>}, Switch(c, from, to)
    PROVE  Control'
<1> DEFINE o == [NoOp EXCEPT !.at = "publish", !.off = TRUE]
<1>1. o \in OpType
    BY NoOpTyped DEF OpType, Steps
<1>2. OpOK(c, o)
    BY Numbers DEF NoOp, OpOK
<1>3. task[c] \in Mms /\ to \in Mms
    BY DEF Control, Shape, RestTyped, Mms
<1>4. PtTyped' /\ OpTyped'
    BY <1>1 DEF Switch, Control, Shape, PtTyped, OpTyped
<1>5. RestTyped'
    BY <1>3 DEF Switch, Control, Shape, RestTyped, frames, ipis
<1>6. OpInv'
    BY <1>2 DEF Switch, Control, OpInv, Shape, OpTyped
<1>7. Cr3Inv'
    BY DEF Switch, NoOp, Control, Cr3Inv, Cr3OK, Shape, OpTyped, RestTyped
<1>8. LockInv' /\ ForkInv'
    BY Numbers DEF Switch, NoOp, Control, LockInv, ForkInv, Shape, OpTyped, RestTyped
<1> QED
    BY <1>4, <1>5, <1>6, <1>7, <1>8 DEF Control, Shape

(* ... from task to task, ...                                              *)
LEMMA SwitchToControl ==
    ASSUME Control, NEW c \in Cpus, NEW e \in Cpus, SwitchTo(c, e)
    PROVE  Control'
<1> DEFINE o == [NoOp EXCEPT !.at = "publish", !.off = TRUE]
<1>1. o \in OpType
    BY NoOpTyped DEF OpType, Steps
<1>2. OpOK(c, o) /\ o.at = "publish" /\ o.to = Boot /\ o.on = NoCpu
    BY Numbers DEF NoOp, OpOK
<1>3. task[c] \in MMS /\ task[e] \in MMS /\ c # e
    BY DEF SwitchTo, InUser, Control, Shape, RestTyped, Mms
<1>4. PtTyped' /\ OpTyped'
    BY <1>1 DEF SwitchTo, Control, Shape, PtTyped, OpTyped
<1>5. RestTyped'
    BY <1>3 DEF SwitchTo, Control, Shape, RestTyped, frames, ipis, Mms
<1>6. /\ op'[c] = o /\ \A x \in Cpus : x # c => op'[x] = op[x]
      /\ task'[c] = task[e] /\ task'[e] = task[c]
      /\ \A x \in Cpus \ {c, e} : task'[x] = task[x]
      /\ loaded'[c] = task[e] /\ \A x \in Cpus : x # c => loaded'[x] = loaded[x]
      /\ tlb'[c] = {} /\ \A x \in Cpus : x # c => tlb'[x] = tlb[x]
      /\ pub' = pub /\ lock' = lock
      /\ At(c, "user") /\ At(e, "user") /\ loaded[e] = Boot
    BY <1>3 DEF SwitchTo, InUser, Control, Shape, OpTyped, RestTyped
<1>7. OpInv'
    BY <1>2, <1>6 DEF Control, OpInv
<1> HIDE DEF o
<1>8. Cr3Inv'
    <2>1. Cr3OK(c)' /\ Cr3OK(e)'
        BY <1>2, <1>3, <1>6, Numbers DEF Control, Cr3Inv, Cr3OK
    <2>2. ASSUME NEW d \in Cpus \ {c, e} PROVE Cr3OK(d)'
        BY <1>3, <1>6, Numbers DEF Control, Cr3Inv, Cr3OK
    <2> QED
        BY <2>1, <2>2 DEF Cr3Inv
<1>9. LockInv'
    <2>1. ASSUME NEW x \in Cpus, Stands(op'[x]) \in Holding PROVE lock'[task'[x]] = x
        BY <1>2, <1>6, <2>1 DEF Control, LockInv
    <2>2. ASSUME NEW m \in MMS, lock'[m] # NoCpu
          PROVE  Stands(op'[lock'[m]]) \in Holding /\ task'[lock'[m]] = m
        BY <1>2, <1>6, <2>2 DEF Control, LockInv, Shape, RestTyped
    <2> QED
        BY <2>1, <2>2 DEF LockInv
<1>10. ForkInv'
    <2>1. ASSUME NEW x \in Cpus, op'[x].to # Boot
          PROVE  \A d \in Cpus : task'[d] # op'[x].to /\ (d # x => op'[d].to # op'[x].to)
        BY <1>2, <1>6, <2>1 DEF Control, ForkInv
    <2>2. ASSUME NEW x \in Cpus, op'[x].on # NoCpu
          PROVE  task'[op'[x].on] = Boot /\ \A d \in Cpus : d # x => op'[d].on # op'[x].on
        <3>1. x # c /\ op'[x] = op[x]
            BY <1>2, <1>6, <2>2
        <3>2. op[x].on \in Cpus /\ task[op[x].on] = Boot
            BY <2>2, <3>1 DEF Control, Shape, OpTyped, OpType, ForkInv
        <3> QED
            BY <1>2, <1>3, <1>6, <2>2, <3>1, <3>2, Numbers DEF Control, ForkInv
    <2> QED
        BY <2>1, <2>2 DEF ForkInv
<1> QED
    BY <1>4, <1>5, <1>7, <1>8, <1>9, <1>10 DEF Control, Shape

(* ... then published.                                                     *)
LEMMA PublishControl ==
    ASSUME Control, NEW c \in Cpus, Publish(c)
    PROVE  Control'
<1>1. OpOK(c, NoOp)
    BY Numbers DEF NoOp, OpOK
<1>2. PtTyped' /\ OpTyped'
    BY NoOpTyped DEF Publish, Control, Shape, PtTyped, OpTyped
<1>3. RestTyped'
    BY DEF Publish, Control, Shape, RestTyped, frames, ipis
<1>4. OpInv'
    BY <1>1 DEF Publish, Control, OpInv, Shape, OpTyped
<1>5. Cr3Inv'
    BY DEF Publish, NoOp, Control, Cr3Inv, Cr3OK, Shape, OpTyped, RestTyped
<1>6. LockInv' /\ ForkInv'
    BY Numbers DEF Publish, NoOp, Control, LockInv, ForkInv, Shape, OpTyped, RestTyped
<1> QED
    BY <1>2, <1>3, <1>4, <1>5, <1>6 DEF Control, Shape

(* An address space with one task.                                         *)
LEMMA OneTask ==
    ASSUME NEW m, Cardinality(Tasks(m)) = 1, NEW c \in Cpus, task[c] = m
    PROVE  \A d \in Cpus : task[d] = m => d = c
<1>1. IsFiniteSet(Cpus)
    BY Numbers, FS_Interval DEF Cpus
<1>2. IsFiniteSet(Tasks(m))
    BY <1>1, FS_Subset DEF Tasks
<1>3. PICK x : Tasks(m) = {x}
    BY <1>2, FS_Singleton
<1> QED
    BY <1>3 DEF Tasks

(* A CPU whose task is gone.                                               *)
LEMMA LeaveControl ==
    ASSUME Control, NEW c \in Cpus, op[c].at \in {"leave", "drop"},
           task' = [task EXCEPT ![c] = Boot], pub' = [pub EXCEPT ![c] = Boot],
           op' = [op EXCEPT ![c] = NoOp], UNCHANGED <<loaded, tlb, lock>>
    PROVE  Cr3Inv' /\ LockInv' /\ ForkInv'
<1>1. NoOp.at = "user" /\ NoOp.to = Boot /\ NoOp.on = NoCpu
    BY DEF NoOp
<1>2. /\ op'[c] = NoOp /\ \A x \in Cpus : x # c => op'[x] = op[x]
      /\ task'[c] = Boot /\ \A x \in Cpus : x # c => task'[x] = task[x]
      /\ pub'[c] = Boot /\ \A x \in Cpus : x # c => pub'[x] = pub[x]
      /\ task[c] \in MMS /\ loaded[c] = Boot
    BY Serves DEF Control, Shape, OpTyped, RestTyped, Cr3Inv, Cr3OK
<1>3. Cr3Inv'
    <2>1. Cr3OK(c)'
        BY <1>1, <1>2 DEF Control, Cr3Inv, Cr3OK
    <2>2. ASSUME NEW d \in Cpus, d # c PROVE Cr3OK(d)'
        <3>1. Stands(op[d]) = "drop" => task[d] \in MMS
            BY Serves DEF Control, OpInv, OpOK
        <3> QED
            BY <1>2, <2>2, <3>1, Numbers DEF Control, Cr3Inv, Cr3OK
    <2> QED
        BY <2>1, <2>2 DEF Cr3Inv
<1>4. LockInv'
    BY <1>1, <1>2, Numbers DEF Control, LockInv, Shape, RestTyped
<1>5. ForkInv'
    <2>1. ASSUME NEW x \in Cpus, op'[x].to # Boot
          PROVE  \A d \in Cpus : task'[d] # op'[x].to /\ (d # x => op'[d].to # op'[x].to)
        BY <1>1, <1>2, <2>1 DEF Control, ForkInv
    <2>2. ASSUME NEW x \in Cpus, op'[x].on # NoCpu
          PROVE  task'[op'[x].on] = Boot /\ \A d \in Cpus : d # x => op'[d].on # op'[x].on
        <3>1. x # c /\ op'[x] = op[x]
            BY <1>1, <1>2, <2>2
        <3>2. op[x].on \in Cpus
            BY <2>2, <3>1 DEF Control, Shape, OpTyped, OpType
        <3> QED
            BY <1>1, <1>2, <2>2, <3>1, <3>2 DEF Control, ForkInv
    <2> QED
        BY <2>1, <2>2 DEF ForkInv
<1> QED
    BY <1>3, <1>4, <1>5

(* do_exit leaves the address space, ...                                   *)
LEMMA ExitControl ==
    ASSUME Control, NEW c \in Cpus, Exit(c)
    PROVE  Control'
<1> DEFINE o == [op[c] EXCEPT !.at = "leave"]
<1>1. op[c] \in OpType /\ OpOK(c, op[c]) /\ task[c] \in MMS
    BY Serves DEF Exit, Control, Shape, OpTyped, OpInv
<1>2. o \in OpType
    BY <1>1 DEF OpType, Steps
<1>3. OpOK(c, o)
    BY <1>1, Numbers DEF Exit, InUser, NoOp, OpOK, OpType
<1>4. PtTyped' /\ OpTyped'
    BY <1>2 DEF Exit, Control, Shape, PtTyped, OpTyped
<1>5. RestTyped'
    BY DEF Exit, Control, Shape, RestTyped, frames, ipis, Mms
<1>6. OpInv'
    BY <1>3 DEF Exit, Control, OpInv, Shape, OpTyped
<1>7. Cr3Inv'
    BY <1>1, Numbers DEF Exit, InUser, Control, Cr3Inv, Cr3OK, Shape, OpTyped, OpType, RestTyped
<1>8. LockInv' /\ ForkInv'
    BY <1>1, Numbers DEF Exit, InUser, Control, LockInv, ForkInv, Shape, OpTyped, OpType,
       RestTyped
<1> QED
    BY <1>4, <1>5, <1>6, <1>7, <1>8 DEF Control, Shape

(* ... drops its count of it, ...                                          *)
LEMMA ExitCountControl ==
    ASSUME Control, NEW c \in Cpus, ExitCount(c)
    PROVE  Control'
<1> DEFINE o == [op[c] EXCEPT !.at = "drop", !.todo = PAGES]
<1>1. op[c] \in OpType /\ OpOK(c, op[c]) /\ task[c] \in MMS /\ loaded[c] = Boot
    BY Serves DEF ExitCount, Control, Shape, OpTyped, OpInv, Cr3Inv, Cr3OK
<1>2. o \in OpType /\ o.at = "drop" /\ o.to = op[c].to /\ o.on = op[c].on
    BY <1>1 DEF OpType, Steps
<1>3. OpOK(c, o) /\ OpOK(c, NoOp) /\ NoOp.at = "user" /\ NoOp.to = Boot /\ NoOp.on = NoCpu
    BY <1>1, Numbers DEF ExitCount, NoOp, OpOK, OpType
<1>4. CASE Single(task[c])
    <2>1. task' = task /\ op' = [op EXCEPT ![c] = o]
        BY <1>4 DEF ExitCount
    <2>2. PtTyped' /\ OpTyped'
        BY <1>2, <2>1 DEF ExitCount, Control, Shape, PtTyped, OpTyped
    <2>3. RestTyped'
        BY <2>1 DEF ExitCount, Control, Shape, RestTyped, frames, ipis, Mms
    <2>4. op'[c] = o /\ \A x \in Cpus : x # c => op'[x] = op[x]
        BY <2>1 DEF Control, Shape, OpTyped
    <2>5. OpInv'
        BY <1>3, <2>4 DEF Control, OpInv
    <2>6. \A d \in Cpus : task[d] = task[c] => d = c
        BY <1>4, OneTask DEF Single
    <2> HIDE DEF o
    <2>7. Cr3Inv'
        BY <1>1, <1>2, <2>1, <2>4, <2>6, Numbers DEF ExitCount, Control, Cr3Inv, Cr3OK,
           Shape, RestTyped
    <2>8. LockInv' /\ ForkInv'
        BY <1>2, <2>1, <2>4, Numbers DEF ExitCount, Control, LockInv, ForkInv, Shape, RestTyped
    <2> QED
        BY <2>2, <2>3, <2>5, <2>7, <2>8 DEF Control, Shape
<1>5. CASE ~Single(task[c])
    <2>1. task' = [task EXCEPT ![c] = Boot] /\ op' = [op EXCEPT ![c] = NoOp]
        BY <1>5 DEF ExitCount
    <2>2. PtTyped' /\ OpTyped'
        BY NoOpTyped, <2>1 DEF ExitCount, Control, Shape, PtTyped, OpTyped
    <2>3. RestTyped'
        BY <2>1 DEF ExitCount, Control, Shape, RestTyped, frames, ipis, Mms
    <2>4. op'[c] = NoOp /\ \A x \in Cpus : x # c => op'[x] = op[x]
        BY <2>1 DEF Control, Shape, OpTyped
    <2>5. OpInv'
        BY <1>3, <2>4 DEF Control, OpInv
    <2>6. Cr3Inv' /\ LockInv' /\ ForkInv'
        BY <1>1, <1>3, <2>1, <2>4, <2>3, LeaveControl DEF ExitCount
    <2> QED
        BY <2>2, <2>3, <2>5, <2>6 DEF Control, Shape
<1> QED
    BY <1>4, <1>5

(* ... and, the last one, empties it.                                      *)
LEMMA ExitDropControl ==
    ASSUME Control, NEW c \in Cpus, ExitDrop(c)
    PROVE  Control'
<1> DEFINE va == Min(op[c].todo)
           q == [op[c] EXCEPT !.va = va, !.todo = @ \ {va}]
           o == IF Empty(task[c], va) THEN q ELSE [q EXCEPT !.at = "spin", !.back = "drop"]
<1>1. op[c] \in OpType /\ OpOK(c, op[c]) /\ task[c] \in MMS /\ loaded[c] = Boot /\ pub[c] = Boot
    BY Serves DEF ExitDrop, Control, Shape, OpTyped, OpInv, Cr3Inv, Cr3OK
<1>2. OpOK(c, NoOp) /\ NoOp.at = "user" /\ NoOp.to = Boot /\ NoOp.on = NoCpu
    BY Numbers DEF NoOp, OpOK
<1>3. CASE op[c].todo = {}
    <2>1. /\ task' = [task EXCEPT ![c] = Boot] /\ op' = [op EXCEPT ![c] = NoOp]
          /\ UNCHANGED <<ref, free, pt, vma, mem, lock, content, loaded, pub, tlb, tlb_lock, req>>
        BY <1>3 DEF ExitDrop, ipis
    <2>2. PtTyped' /\ OpTyped'
        BY NoOpTyped, <2>1 DEF Control, Shape, PtTyped, OpTyped
    <2>3. RestTyped'
        BY <2>1 DEF Control, Shape, RestTyped, Mms
    <2>4. op'[c] = NoOp /\ \A x \in Cpus : x # c => op'[x] = op[x]
        BY <2>1 DEF Control, Shape, OpTyped
    <2>5. OpInv'
        BY <1>2, <2>4 DEF Control, OpInv
    <2>6. pub' = [pub EXCEPT ![c] = Boot]
        BY <2>1, <1>1 DEF Control, Shape, RestTyped
    <2>7. Cr3Inv' /\ LockInv' /\ ForkInv'
        BY <1>1, <1>2, <2>1, <2>4, <2>6, LeaveControl DEF ExitDrop
    <2> QED
        BY <2>2, <2>3, <2>5, <2>7 DEF Control, Shape
<1>4. CASE op[c].todo # {}
    <2>1. /\ task' = task /\ op' = [op EXCEPT ![c] = o] /\ Unmapped(task[c], va)
          /\ UNCHANGED <<lock, content, loaded, pub, tlb, tlb_lock, req>>
        BY <1>1, <1>4, Numbers DEF ExitDrop, UnmapNext, Invalidate, Empty, ipis
    <2>2. va \in PAGES
        BY <1>1, <1>4, MinIn, Numbers DEF OpType
    <2>3. o \in OpType /\ Stands(o) = "drop" /\ o.to = op[c].to /\ o.on = op[c].on
        BY <1>1, <2>2, Numbers DEF OpType, ExitDrop, Steps
    <2>4. OpOK(c, o)
        BY <1>1, <2>2 DEF ExitDrop, OpOK, OpType
    <2>5. PtTyped' /\ vma' \in [MMS -> [PAGES -> {"no", "rw", "r", "none"}]]
             /\ mem' \in [MMS -> [PAGES -> Values]] /\ free' \subseteq Frames /\ ref' \in [Frames -> Int]
        BY <1>1, <2>1, <2>2, UnmappedTyped DEF Control
    <2>6. OpTyped' /\ RestTyped'
        BY <2>1, <2>3, <2>5 DEF Control, Shape, RestTyped, OpTyped
    <2> HIDE DEF o, va
    <2>9. Moves(c, o)
        BY <2>1, <2>3 DEF Moves, LockMoves, Shrinks, ExitDrop
    <2> QED
        BY <2>3, <2>4, <2>5, <2>6, <2>9, MoveControl DEF Control, Shape
<1> QED
    BY <1>3, <1>4
-----------------------------------------------------------------------------
(* The frames of the first address space: page after page.                 *)
Below(va) == {u \in PAGES : u < va}

(* The pages below a page are finitely many.                               *)
LEMMA BelowFinite ==
    ASSUME NEW va \in PAGES
    PROVE  /\ IsFiniteSet(Below(va)) /\ FirstFrame(va) = Cardinality(Below(va))
           /\ FirstFrame(va) \in Nat
           /\ IsFiniteSet(Below(va) \cup {va}) /\ Cardinality(Below(va) \cup {va}) = FirstFrame(va) + 1
<1>1. IsFiniteSet(Below(va)) /\ Cardinality(Below(va)) \in Nat
    BY VmAssumption, FS_Subset, FS_CardinalityType DEF Below
<1>2. va \notin Below(va)
    BY Numbers DEF Below
<1>3. FirstFrame(va) = Cardinality(Below(va))
    BY DEF FirstFrame, Below
<1> HIDE DEF Below
<1>4. IsFiniteSet(Below(va) \cup {va}) /\ Cardinality(Below(va) \cup {va}) = Cardinality(Below(va)) + 1
    BY <1>1, <1>2, FS_AddElement
<1> QED
    BY <1>1, <1>3, <1>4

(* Different pages have different frames, below the number of pages.       *)
LEMMA FirstFrameRank ==
    ASSUME NEW va \in PAGES
    PROVE  /\ FirstFrame(va) \in Frames /\ FirstFrame(va) < Cardinality(PAGES)
           /\ \A u \in PAGES : FirstFrame(u) = FirstFrame(va) => u = va
<1>1. Cardinality(PAGES) \in Nat
    BY VmAssumption, FS_CardinalityType
<1>2. FirstFrame(va) + 1 <= Cardinality(PAGES)
    <2>1. Below(va) \cup {va} \in SUBSET PAGES
        BY DEF Below
    <2>2. Cardinality(Below(va) \cup {va}) <= Cardinality(PAGES)
        BY <2>1, VmAssumption, FS_Subset
    <2> QED
        BY <2>2, BelowFinite
<1>3. \A u, w \in PAGES : u < w => FirstFrame(u) < FirstFrame(w)
    <2> TAKE u, w \in PAGES
    <2> HAVE u < w
    <2>1. u \in Nat /\ w \in Nat /\ \A x \in PAGES : x \in Nat
        BY Numbers
    <2>2. \A x \in PAGES : x < u => x < w
        BY <2>1
    <2>3. Below(u) \cup {u} \in SUBSET Below(w)
        BY <2>2 DEF Below
    <2>4. Cardinality(Below(u) \cup {u}) <= Cardinality(Below(w))
        BY <2>3, FS_Subset, BelowFinite
    <2>5. FirstFrame(u) \in Nat /\ FirstFrame(w) \in Nat /\ FirstFrame(u) + 1 <= FirstFrame(w)
        BY <2>4, BelowFinite
    <2> QED
        BY <2>5
<1>4. ASSUME NEW u \in PAGES, FirstFrame(u) = FirstFrame(va) PROVE u = va
    <2>1. u \in Nat /\ va \in Nat /\ FirstFrame(u) \in Nat
        BY Numbers, BelowFinite
    <2> QED
        BY <1>3, <1>4, <2>1
<1>5. FirstFrame(va) \in Nat
    BY BelowFinite
<1> QED
    BY <1>1, <1>2, <1>4, <1>5, VmAssumption DEF Frames

(* The first state.                                                        *)
LEMMA InitControl ==
    ASSUME Init
    PROVE  Control
<1>1. OpTyped
    BY NoOpTyped DEF Init, OpTyped
<1>2. PtTyped
    BY FirstFrameRank, SomeFrame DEF Init, PtTyped, PteType, Present, NoPte
<1>3. task \in [Cpus -> Mms]
    BY VmAssumption DEF Init, Mms
<1>4. NoReq \in ReqType /\ 0 \in Values
    BY Numbers DEF NoReq, ReqType, Mms, Values
<1>5. RestTyped
    BY <1>3, <1>4, Numbers DEF Init, RestTyped, Frames
<1>6. OpInv
    BY Numbers DEF Init, OpInv, OpOK, NoOp
<1>7. Cr3Inv
    BY <1>3 DEF Init, Cr3Inv, Cr3OK, NoOp, Mms
<1>8. LockInv /\ ForkInv
    BY DEF Init, LockInv, ForkInv, NoOp
<1> QED
    BY <1>1, <1>2, <1>5, <1>6, <1>7, <1>8 DEF Control, Shape

(* Every step keeps control in order.                                      *)
LEMMA NextControl ==
    ASSUME Control, Next
    PROVE  Control'
<1>1. PICK c \in Cpus :
        \/ KernelStep(c) \/ TlbIpi(c) \/ ForkFails(c) \/ Call(c)
        \/ /\ c \in Idlers
           /\ Switch(c, task[c], Boot) \/ \E e \in Cpus : SwitchTo(c, e)
        \/ Switch(c, Boot, task[c])
        \/ \E va \in PAGES : Access(c, va)
    BY DEF Next
<1>2. ASSUME FaultStep(c) PROVE Control'
    BY <1>2, FaultRefusedControl, FaultFillControl, FaultClearControl, FaultOwnControl,
       FaultCopyControl,
       FaultInsertControl, FaultRemoveControl, FaultMapControl, UnlockMmControl DEF FaultStep
<1>3. ASSUME TlbStep(c) PROVE Control'
    BY <1>3, TlbLockControl, TlbSendControl, TlbSendFailsControl, TlbAcknowledgedControl,
       TlbUnlockControl DEF TlbStep
<1>4. ASSUME CopyStep(c) PROVE Control'
    BY <1>4, CopyProtectControl, CopyShareControl, ForkDoneControl, ForkUndoControl DEF CopyStep
<1>5. ASSUME KernelStep(c) PROVE Control'
    BY <1>2, <1>3, <1>4, <1>5, UnmapClearControl, PublishControl, ExitControl, ExitCountControl,
       ExitDropControl DEF KernelStep
<1>6. ASSUME Call(c) PROVE Control'
    BY <1>6, ForkControl, UnmapControl, MapControl, MprotectControl, ExitControl DEF Call
<1>7. ASSUME NEW va \in PAGES, Access(c, va) PROVE Control'
    BY <1>7, LoadControl, StoreControl, FaultControl DEF Access
<1>8. ASSUME Switch(c, task[c], Boot) \/ Switch(c, Boot, task[c]) PROVE Control'
    BY <1>8, SwitchControl
<1> QED
    BY <1>1, <1>5, <1>6, <1>7, <1>8, TlbIpiControl, ForkFailsControl, SwitchToControl

(* Control does not depend on anything but the variables.                  *)
LEMMA StutterControl ==
    ASSUME Control, UNCHANGED vars
    PROVE  Control'
<1>1. PtTyped' /\ RestTyped' /\ Shrinks
    BY DEF vars, Control, Shape, PtTyped, RestTyped, Shrinks
<1> QED
    BY <1>1, StillControl DEF vars
-----------------------------------------------------------------------------
(* The shootdown, when no answer is given up on.                           *)
Shoots == Control /\ IpiInv /\ TlbInv
Asking == {"scan", "wait"}

(* A step of a CPU that does not hold smp_tlb_lock and asks nobody.        *)
Asks(c, o) ==
    /\ Step(c, o) /\ op[c].at \notin Asking /\ o.at \notin Asking
    /\ UNCHANGED <<tlb_lock, req>>
    /\ \A d \in Cpus : op[d].at \in Asking => task'[d] = task[d]

(* It leaves the requests as they are.                                     *)
LEMMA AsksIpi ==
    ASSUME Control, IpiInv, NEW c \in Cpus, NEW o, Asks(c, o)
    PROVE  IpiInv'
<1>1. op'[c] = o /\ \A d \in Cpus : d # c => op'[d] = op[d]
    BY DEF Asks, Control, Shape, OpTyped
<1>2. \A d \in Cpus : tlb_lock' = d <=> op'[d].at \in {"scan", "wait"}
    BY <1>1 DEF Asks, Asking, IpiInv
<1>3. ASSUME NEW x \in Cpus, op'[x].at = "wait"
      PROVE  req'[Min(op'[x].cpus)] \in {NoReq, [mm |-> Target(x)', va |-> op'[x].va]}
    <2>1. x # c /\ op'[x] = op[x] /\ task'[x] = task[x] /\ req' = req
        BY <1>1, <1>3 DEF Asks, Asking
    <2>2. Target(x)' = Target(x)
        BY <2>1 DEF Target
    <2>3. req[Min(op[x].cpus)] \in {NoReq, [mm |-> Target(x), va |-> op[x].va]}
        BY <1>3, <2>1 DEF IpiInv
    <2> QED
        BY <2>1, <2>2, <2>3
<1> QED
    BY <1>2, <1>3 DEF IpiInv

(* A step of a CPU that is not in a shootdown, and that leaves alone the   *)
(* page tables with translations in some TLB.                              *)
Leaves(c, o) ==
    /\ Step(c, o) /\ op[c].at \notin Shooting /\ req' = req
    /\ \A d \in Cpus :
          \/ tlb'[d] = {}
          \/ tlb'[d] \subseteq tlb[d] /\ loaded'[d] = loaded[d] /\ pt'[loaded[d]] = pt[loaded[d]]
    /\ \A m \in MMS : lock[m] \notin {NoCpu, c} => lock'[m] = lock[m]

(* It leaves every translation current or about to be shot down.           *)
LEMMA LeavesTlb ==
    ASSUME Control, TlbInv, NEW c \in Cpus, NEW o, Leaves(c, o)
    PROVE  TlbInv'
<1> SUFFICES ASSUME NEW d \in Cpus, NEW e \in tlb'[d]
             PROVE  \/ Current(loaded[d], e)'
                    \/ lock'[loaded'[d]] # NoCpu /\ Pending(lock[loaded[d]], d, e.va)'
    BY DEF TlbInv
<1>1. op'[c] = o /\ \A x \in Cpus : x # c => op'[x] = op[x]
    BY DEF Leaves, Control, Shape, OpTyped
<1>2. e \in tlb[d] /\ loaded'[d] = loaded[d] /\ pt'[loaded[d]] = pt[loaded[d]]
    BY DEF Leaves
<1>3. loaded[d] \in MMS
    BY <1>2 DEF Control, Cr3Inv, Cr3OK, Shape, RestTyped, Mms
<1>4. CASE Current(loaded[d], e)
    BY <1>2, <1>4 DEF Current
<1>5. CASE lock[loaded[d]] # NoCpu /\ Pending(lock[loaded[d]], d, e.va)
    <2> DEFINE x == lock[loaded[d]]
    <2>1. x \in Cpus /\ op[x].at \in Shooting /\ x # c
        BY <1>3, <1>5 DEF Pending, Control, Shape, RestTyped, Leaves
    <2>2. lock'[loaded[d]] = x /\ op'[x] = op[x] /\ req' = req
        BY <1>1, <1>3, <1>5, <2>1 DEF Leaves
    <2> HIDE DEF x
    <2>3. lock'[loaded'[d]] = x /\ x # NoCpu /\ Pending(x, d, e.va)
        BY <1>2, <1>5, <2>1, <2>2, Numbers DEF x
    <2>4. op'[x].va = e.va /\ x # d
             /\ \/ op'[x].at = "spin"
                \/ op'[x].at = "scan" /\ d \in op'[x].cpus
                \/ op'[x].at = "wait" /\ d \in op'[x].cpus /\ (d = Min(op'[x].cpus) => req'[d] # NoReq)
        BY <2>2, <2>3 DEF Pending
    <2> QED
        BY <2>3, <2>4 DEF Pending
<1> QED
    BY <1>2, <1>4, <1>5 DEF TlbInv

(* tlb_invalidate, by a CPU that holds the lock of its address space or    *)
(* takes it: from now on a shootdown is on its way to everybody else.      *)
Starts(c, o, m, va) ==
    /\ Step(c, o) /\ o.at = "spin" /\ o.va = va
    /\ m = task[c] /\ loaded[c] = m /\ va \in PAGES /\ m \in MMS
    /\ lock[m] = NoCpu \/ (lock[m] = c /\ op[c].at \notin Shooting)
    /\ lock'[m] = c /\ \A n \in MMS : n # m => lock'[n] = lock[n]
    /\ \A n \in MMS, u \in PAGES : n # m \/ u # va => pt'[n][u] = pt[n][u]
    /\ tlb' = [tlb EXCEPT ![c] = {e \in @ : e.va # va}]
    /\ UNCHANGED <<loaded, req>>

(* The step that starts a shootdown: who has the page is to be asked.      *)
LEMMA StartsTlb ==
    ASSUME Control, TlbInv, NEW c \in Cpus, NEW o, NEW m, NEW va, Starts(c, o, m, va)
    PROVE  TlbInv'
<1> SUFFICES ASSUME NEW d \in Cpus, NEW e \in tlb'[d]
             PROVE  \/ Current(loaded[d], e)'
                    \/ lock'[loaded'[d]] # NoCpu /\ Pending(lock[loaded[d]], d, e.va)'
    BY DEF TlbInv
<1>1. op'[c] = o /\ \A x \in Cpus : x # c => op'[x] = op[x]
    BY DEF Starts, Control, Shape, OpTyped
<1>2. e \in tlb[d] /\ (d = c => e.va # va) /\ loaded' = loaded
    BY DEF Starts, Control, Shape, RestTyped
<1>3. loaded[d] \in MMS /\ e.va \in PAGES
    BY <1>2 DEF Control, Cr3Inv, Cr3OK, Shape, RestTyped, Mms, EntryType
<1>4. /\ \A n \in MMS, u \in PAGES : n # m \/ u # va => pt'[n][u] = pt[n][u]
      /\ lock'[m] = c /\ \A n \in MMS : n # m => lock'[n] = lock[n]
    BY DEF Starts
<1>5. CASE loaded[d] = m
    <2>1. lock[m] = NoCpu \/ ~Pending(lock[m], d, e.va)
        BY DEF Starts, Pending
    <2>2. Current(m, e)
        BY <1>2, <1>5, <2>1 DEF TlbInv
    <2>3. CASE e.va # va
        BY <1>2, <1>3, <1>4, <1>5, <2>2, <2>3 DEF Current
    <2>4. CASE e.va = va
        <3>1. d # c /\ o.at = "spin" /\ o.va = va
            BY <1>2, <2>4 DEF Starts
        <3> QED
            BY <1>1, <1>2, <1>4, <1>5, <2>4, <3>1, Numbers DEF Pending
    <2> QED
        BY <2>3, <2>4
<1>6. CASE loaded[d] # m
    <2>1. pt'[loaded[d]][e.va] = pt[loaded[d]][e.va] /\ lock'[loaded[d]] = lock[loaded[d]]
        BY <1>3, <1>4, <1>6
    <2>2. CASE Current(loaded[d], e)
        BY <1>2, <2>1, <2>2 DEF Current
    <2>3. CASE lock[loaded[d]] # NoCpu /\ Pending(lock[loaded[d]], d, e.va)
        <3>1. PICK x \in Cpus : x = lock[loaded[d]]
            BY <1>3, <2>3 DEF Control, Shape, RestTyped
        <3>2. x # c
            BY <1>3, <1>6, <2>3, <3>1 DEF Starts, Control, LockInv
        <3>3. op'[x] = op[x] /\ req' = req /\ lock'[loaded'[d]] = x /\ x # NoCpu /\ Pending(x, d, e.va)
            BY <1>1, <1>2, <2>1, <2>3, <3>1, <3>2, Numbers DEF Starts
        <3>4. op'[x].va = e.va /\ x # d
             /\ \/ op'[x].at = "spin"
                \/ op'[x].at = "scan" /\ d \in op'[x].cpus
                \/ op'[x].at = "wait" /\ d \in op'[x].cpus /\ (d = Min(op'[x].cpus) => req'[d] # NoReq)
            BY <3>3 DEF Pending
        <3> QED
            BY <3>3, <3>4 DEF Pending
    <2> QED
        BY <1>2, <2>2, <2>3 DEF TlbInv
<1> QED
    BY <1>5, <1>6

(* A fault that is refused.                                                *)
LEMMA FaultRefusedShoots ==
    ASSUME Shoots, NEW c \in Cpus, FaultRefused(c)
    PROVE  IpiInv' /\ TlbInv'
<1> DEFINE o == [Handling(c) EXCEPT !.at = "killed"]
<1>1. task[c] \in MMS /\ op[c] \in OpType /\ OpOK(c, op[c])
    BY Serves DEF FaultRefused, Finds, Shoots, Control, Shape, OpTyped, OpInv
<1>2. Asks(c, o)
    BY <1>1 DEF FaultRefused, Finds, Handling, cr3s, ipis, NoOp, Asks, Asking, OpType, OpOK
<1>3. Leaves(c, o)
    BY <1>1, Numbers DEF FaultRefused, Finds, Handling, cr3s, ipis, LockFree, NoOp, Leaves,
       Shoots, Control, Shape, RestTyped, PtTyped, Cr3Inv, Cr3OK, ForkInv, LockInv, OpType,
       OpOK, Mms
<1> QED
    BY <1>2, <1>3, AsksIpi, LeavesTlb DEF Shoots

(* A page filled.                                                          *)
LEMMA FaultFillShoots ==
    ASSUME Shoots, NEW c \in Cpus, FaultFill(c)
    PROVE  IpiInv' /\ TlbInv'
<1> DEFINE o == [Handling(c) EXCEPT !.at = "spin", !.back = "clear"]
<1>1. task[c] \in MMS /\ op[c] \in OpType /\ OpOK(c, op[c])
    BY Serves DEF FaultFill, Finds, Shoots, Control, Shape, OpTyped, OpInv
<1>2. Asks(c, o)
    BY <1>1 DEF FaultFill, Finds, Invalidate, Handling, cr3s, ipis, NoOp, Asks, Asking,
       OpType, OpOK
<1>3. /\ loaded[c] = task[c] /\ op[c].va \in PAGES
      /\ lock[task[c]] = NoCpu \/ (lock[task[c]] = c /\ op[c].at \notin Shooting)
    BY <1>1 DEF FaultFill, Finds, Locked, LockFree, Shoots, Control, Cr3Inv, Cr3OK, LockInv,
       OpOK
<1>4. lock'[task[c]] = c /\ \A n \in MMS : n # task[c] => lock'[n] = lock[n]
    BY <1>1, <1>3 DEF FaultFill, Locked, LockFree, Shoots, Control, LockInv, Shape, RestTyped
<1>5. \A n \in MMS, u \in PAGES : n # task[c] \/ u # op[c].va => pt'[n][u] = pt[n][u]
    BY <1>1, <1>3 DEF FaultFill, Shoots, Control, Shape, PtTyped
<1>6. Step(c, o) /\ o.at = "spin" /\ o.va = op[c].va
    BY <1>1 DEF FaultFill, Invalidate, Handling, NoOp, OpType
<1>7. tlb' = [tlb EXCEPT ![c] = {e \in @ : e.va # op[c].va}] /\ UNCHANGED <<loaded, req>>
    BY <1>1, <1>3 DEF FaultFill, Invalidate, Handling, NoOp, cr3s, ipis, OpType
<1>8. Starts(c, o, task[c], op[c].va)
    BY <1>1, <1>3, <1>4, <1>5, <1>6, <1>7 DEF Starts
<1> QED
    BY <1>2, <1>8, AsksIpi, StartsTlb DEF Shoots

(* The memset.                                                             *)
LEMMA FaultClearShoots ==
    ASSUME Shoots, NEW c \in Cpus, FaultClear(c)
    PROVE  IpiInv' /\ TlbInv'
<1> DEFINE o == [op[c] EXCEPT !.at = "unlock"]
<1>1. task[c] \in MMS /\ op[c] \in OpType /\ OpOK(c, op[c])
    BY Serves DEF FaultClear, Shoots, Control, Shape, OpTyped, OpInv
<1>2. Asks(c, o)
    BY <1>1 DEF FaultClear, cr3s, ipis, Asks, Asking, OpType, OpOK
<1>3. Leaves(c, o)
    BY <1>1, Numbers DEF FaultClear, cr3s, ipis, Leaves, Shoots, Control, Shape, RestTyped,
       PtTyped, Cr3Inv, Cr3OK, ForkInv, LockInv, OpType, OpOK, Mms
<1> QED
    BY <1>2, <1>3, AsksIpi, LeavesTlb DEF Shoots

(* The last sharer of a page.                                              *)
LEMMA FaultOwnShoots ==
    ASSUME Shoots, NEW c \in Cpus, FaultOwn(c)
    PROVE  IpiInv' /\ TlbInv'
<1> DEFINE o == [Handling(c) EXCEPT !.at = "spin", !.back = "unlock"]
<1>1. task[c] \in MMS /\ op[c] \in OpType /\ OpOK(c, op[c])
    BY Serves DEF FaultOwn, Finds, Shoots, Control, Shape, OpTyped, OpInv
<1>2. Asks(c, o)
    BY <1>1 DEF FaultOwn, Finds, Invalidate, Handling, cr3s, ipis, NoOp, Asks, Asking,
       OpType, OpOK
<1>3. /\ loaded[c] = task[c] /\ op[c].va \in PAGES
      /\ lock[task[c]] = NoCpu \/ (lock[task[c]] = c /\ op[c].at \notin Shooting)
    BY <1>1 DEF FaultOwn, Finds, Locked, LockFree, Shoots, Control, Cr3Inv, Cr3OK, LockInv, OpOK
<1>4. lock'[task[c]] = c /\ \A n \in MMS : n # task[c] => lock'[n] = lock[n]
    BY <1>1, <1>3 DEF FaultOwn, Locked, LockFree, Shoots, Control, LockInv, Shape, RestTyped
<1>5. \A n \in MMS, u \in PAGES : n # task[c] \/ u # op[c].va => pt'[n][u] = pt[n][u]
    BY <1>1, <1>3 DEF FaultOwn, Shoots, Control, Shape, PtTyped
<1>6. Step(c, o) /\ o.at = "spin" /\ o.va = op[c].va
    BY <1>1 DEF FaultOwn, Invalidate, Handling, NoOp, OpType
<1>7. tlb' = [tlb EXCEPT ![c] = {e \in @ : e.va # op[c].va}] /\ UNCHANGED <<loaded, req>>
    BY <1>1, <1>3 DEF FaultOwn, Invalidate, Handling, NoOp, cr3s, ipis, OpType
<1>8. Starts(c, o, task[c], op[c].va)
    BY <1>1, <1>3, <1>4, <1>5, <1>6, <1>7 DEF Starts
<1> QED
    BY <1>2, <1>8, AsksIpi, StartsTlb DEF Shoots

(* A copy on write.                                                        *)
LEMMA FaultCopyShoots ==
    ASSUME Shoots, NEW c \in Cpus, FaultCopy(c)
    PROVE  IpiInv' /\ TlbInv'
<1> DEFINE o == [Handling(c) EXCEPT !.at = "insert", !.f = Min(free)]
<1>1. task[c] \in MMS /\ op[c] \in OpType /\ OpOK(c, op[c])
    BY Serves DEF FaultCopy, Finds, Shoots, Control, Shape, OpTyped, OpInv
<1>2. Asks(c, o)
    BY <1>1 DEF FaultCopy, Finds, Handling, cr3s, ipis, NoOp, Asks, Asking, OpType, OpOK
<1>3. Leaves(c, o)
    BY <1>1, Numbers DEF FaultCopy, Finds, Locked, Handling, cr3s, ipis, LockFree, NoOp,
       Leaves, Shoots, Control, Shape, RestTyped, PtTyped, Cr3Inv, Cr3OK, ForkInv, LockInv,
       OpType, OpOK, Mms
<1> QED
    BY <1>2, <1>3, AsksIpi, LeavesTlb DEF Shoots

(* page_insert.                                                            *)
LEMMA FaultInsertShoots ==
    ASSUME Shoots, NEW c \in Cpus, FaultInsert(c)
    PROVE  IpiInv' /\ TlbInv'
<1> DEFINE o == [op[c] EXCEPT !.at = "remove"]
<1>1. task[c] \in MMS /\ op[c] \in OpType /\ OpOK(c, op[c])
    BY Serves DEF FaultInsert, Shoots, Control, Shape, OpTyped, OpInv
<1>2. Asks(c, o)
    BY <1>1 DEF FaultInsert, cr3s, ipis, Asks, Asking, OpType, OpOK
<1>3. Leaves(c, o)
    BY <1>1, Numbers DEF FaultInsert, cr3s, ipis, Leaves, Shoots, Control, Shape, RestTyped,
       PtTyped, Cr3Inv, Cr3OK, ForkInv, LockInv, OpType, OpOK, Mms
<1> QED
    BY <1>2, <1>3, AsksIpi, LeavesTlb DEF Shoots

(* Its page_remove_pte.                                                    *)
LEMMA FaultRemoveShoots ==
    ASSUME Shoots, NEW c \in Cpus, FaultRemove(c)
    PROVE  IpiInv' /\ TlbInv'
<1> DEFINE o == [op[c] EXCEPT !.at = "spin", !.back = "map"]
<1>1. task[c] \in MMS /\ op[c] \in OpType /\ OpOK(c, op[c])
    BY Serves DEF FaultRemove, Shoots, Control, Shape, OpTyped, OpInv
<1>2. Asks(c, o)
    BY <1>1 DEF FaultRemove, Invalidate, cr3s, ipis, Asks, Asking, OpType, OpOK
<1>3. /\ loaded[c] = task[c] /\ op[c].va \in PAGES
      /\ lock[task[c]] = NoCpu \/ (lock[task[c]] = c /\ op[c].at \notin Shooting)
    BY <1>1 DEF FaultRemove, Shoots, Control, Cr3Inv, Cr3OK, LockInv, OpOK
<1>4. lock'[task[c]] = c /\ \A n \in MMS : n # task[c] => lock'[n] = lock[n]
    BY <1>1, <1>3 DEF FaultRemove, Shoots, Control, LockInv, Shape, RestTyped
<1>5. \A n \in MMS, u \in PAGES : n # task[c] \/ u # op[c].va => pt'[n][u] = pt[n][u]
    BY <1>1, <1>3 DEF FaultRemove, Shoots, Control, Shape, PtTyped
<1>6. Step(c, o) /\ o.at = "spin" /\ o.va = op[c].va
    BY <1>1 DEF FaultRemove, Invalidate, OpType
<1>7. tlb' = [tlb EXCEPT ![c] = {e \in @ : e.va # op[c].va}] /\ UNCHANGED <<loaded, req>>
    BY <1>1, <1>3 DEF FaultRemove, Invalidate, cr3s, ipis, OpType
<1>8. Starts(c, o, task[c], op[c].va)
    BY <1>1, <1>3, <1>4, <1>5, <1>6, <1>7 DEF Starts
<1> QED
    BY <1>2, <1>8, AsksIpi, StartsTlb DEF Shoots

(* Its entry.                                                              *)
LEMMA FaultMapShoots ==
    ASSUME Shoots, NEW c \in Cpus, FaultMap(c)
    PROVE  IpiInv' /\ TlbInv'
<1> DEFINE o == [[op[c] EXCEPT !.f = NoFrame] EXCEPT !.at = "spin", !.back = "unlock"]
<1>1. task[c] \in MMS /\ op[c] \in OpType /\ OpOK(c, op[c])
    BY Serves DEF FaultMap, Shoots, Control, Shape, OpTyped, OpInv
<1>2. Asks(c, o)
    BY <1>1 DEF FaultMap, Invalidate, cr3s, ipis, Asks, Asking, OpType, OpOK
<1>3. /\ loaded[c] = task[c] /\ op[c].va \in PAGES
      /\ lock[task[c]] = NoCpu \/ (lock[task[c]] = c /\ op[c].at \notin Shooting)
    BY <1>1 DEF FaultMap, Shoots, Control, Cr3Inv, Cr3OK, LockInv, OpOK
<1>4. lock'[task[c]] = c /\ \A n \in MMS : n # task[c] => lock'[n] = lock[n]
    BY <1>1, <1>3 DEF FaultMap, Shoots, Control, LockInv, Shape, RestTyped
<1>5. \A n \in MMS, u \in PAGES : n # task[c] \/ u # op[c].va => pt'[n][u] = pt[n][u]
    BY <1>1, <1>3 DEF FaultMap, Shoots, Control, Shape, PtTyped
<1>6. Step(c, o) /\ o.at = "spin" /\ o.va = op[c].va
    BY <1>1 DEF FaultMap, Invalidate, OpType
<1>7. tlb' = [tlb EXCEPT ![c] = {e \in @ : e.va # op[c].va}] /\ UNCHANGED <<loaded, req>>
    BY <1>1, <1>3 DEF FaultMap, Invalidate, cr3s, ipis, OpType
<1>8. Starts(c, o, task[c], op[c].va)
    BY <1>1, <1>3, <1>4, <1>5, <1>6, <1>7 DEF Starts
<1> QED
    BY <1>2, <1>8, AsksIpi, StartsTlb DEF Shoots

(* unlock_mm.                                                              *)
LEMMA UnlockMmShoots ==
    ASSUME Shoots, NEW c \in Cpus, UnlockMm(c)
    PROVE  IpiInv' /\ TlbInv'
<1> DEFINE o == NoOp
<1>1. task[c] \in MMS /\ op[c] \in OpType /\ OpOK(c, op[c])
    BY Serves DEF UnlockMm, Shoots, Control, Shape, OpTyped, OpInv
<1>2. Asks(c, o)
    BY <1>1 DEF UnlockMm, NoOp, cr3s, ipis, Asks, Asking, OpType, OpOK
<1>3. Leaves(c, o)
    <2>1. Stands(op[c]) = "unlock"
        BY DEF UnlockMm
    <2>2. lock[task[c]] = c
        BY <2>1 DEF Shoots, Control, LockInv
    <2>3. lock' = [lock EXCEPT ![task[c]] = NoCpu] /\ lock \in [MMS -> Cpus \cup {NoCpu}]
        BY DEF UnlockMm, Unlocked, Shoots, Control, Shape, RestTyped
    <2>4. Step(c, o) /\ UNCHANGED <<pt, loaded, tlb, req>>
        BY DEF UnlockMm, cr3s, ipis
    <2> HIDE DEF o
    <2> QED
        BY <1>1, <2>2, <2>3, <2>4 DEF UnlockMm, Leaves
<1> QED
    BY <1>2, <1>3, AsksIpi, LeavesTlb DEF Shoots

(* copy_range: a page turns COW.                                           *)
LEMMA CopyProtectShoots ==
    ASSUME Shoots, NEW c \in Cpus, CopyProtect(c)
    PROVE  IpiInv' /\ TlbInv'
<1> DEFINE o == [[op[c] EXCEPT !.va = Min(op[c].todo)] EXCEPT !.at = "spin", !.back = "copy"]
<1>1. task[c] \in MMS /\ op[c] \in OpType /\ OpOK(c, op[c])
    BY Serves DEF CopyProtect, Shoots, Control, Shape, OpTyped, OpInv
<1>2. Asks(c, o)
    BY <1>1 DEF CopyProtect, Invalidate, cr3s, ipis, Asks, Asking, OpType, OpOK
<1>3. /\ loaded[c] = task[c] /\ Min(op[c].todo) \in PAGES
      /\ lock[task[c]] = NoCpu \/ (lock[task[c]] = c /\ op[c].at \notin Shooting)
    BY <1>1, MinIn, Numbers DEF CopyProtect, Shoots, Control, Cr3Inv, Cr3OK, LockInv, OpOK,
       OpType
<1>4. lock'[task[c]] = c /\ \A n \in MMS : n # task[c] => lock'[n] = lock[n]
    BY <1>1, <1>3 DEF CopyProtect, Shoots, Control, LockInv, Shape, RestTyped
<1>5. \A n \in MMS, u \in PAGES : n # task[c] \/ u # Min(op[c].todo) => pt'[n][u] = pt[n][u]
    BY <1>1, <1>3 DEF CopyProtect, Shoots, Control, Shape, PtTyped
<1>6. Step(c, o) /\ o.at = "spin" /\ o.va = Min(op[c].todo)
    BY <1>1 DEF CopyProtect, Invalidate, OpType
<1>7. tlb' = [tlb EXCEPT ![c] = {e \in @ : e.va # Min(op[c].todo)}] /\ UNCHANGED <<loaded, req>>
    BY <1>1, <1>3 DEF CopyProtect, Invalidate, cr3s, ipis, OpType
<1>8. Starts(c, o, task[c], Min(op[c].todo))
    BY <1>1, <1>3, <1>4, <1>5, <1>6, <1>7 DEF Starts
<1> QED
    BY <1>2, <1>8, AsksIpi, StartsTlb DEF Shoots

(* copy_range: a page is shared.                                           *)
LEMMA CopyShareShoots ==
    ASSUME Shoots, NEW c \in Cpus, CopyShare(c)
    PROVE  IpiInv' /\ TlbInv'
<1> DEFINE o == [op[c] EXCEPT !.todo = @ \ {Min(op[c].todo)}]
<1>1. task[c] \in MMS /\ op[c] \in OpType /\ OpOK(c, op[c])
    BY Serves DEF CopyShare, Shoots, Control, Shape, OpTyped, OpInv
<1>2. Asks(c, o)
    BY <1>1 DEF CopyShare, cr3s, ipis, Asks, Asking, OpType, OpOK
<1>3. Leaves(c, o)
    BY <1>1, Numbers DEF CopyShare, cr3s, ipis, Leaves, Shoots, Control, Shape, RestTyped,
       PtTyped, Cr3Inv, Cr3OK, ForkInv, LockInv, OpType, OpOK, Mms
<1> QED
    BY <1>2, <1>3, AsksIpi, LeavesTlb DEF Shoots

(* exit_mmap of a failed child.                                            *)
LEMMA ForkUndoShoots ==
    ASSUME Shoots, NEW c \in Cpus, ForkUndo(c)
    PROVE  IpiInv' /\ TlbInv'
<1> DEFINE va == Min(op[c].todo)
           q == [op[c] EXCEPT !.va = va, !.todo = @ \ {va}]
           o == IF op[c].todo = {} THEN NoOp ELSE IF Empty(op[c].to, va) THEN q
                ELSE [q EXCEPT !.at = "spin", !.back = "undo"]
<1>1. task[c] \in MMS /\ op[c] \in OpType /\ OpOK(c, op[c])
    BY Serves DEF ForkUndo, Shoots, Control, Shape, OpTyped, OpInv
<1>2. /\ op' = [op EXCEPT ![c] = o] /\ UNCHANGED <<task, loaded, lock, tlb_lock, req>>
      /\ o.at \in {"undo", "spin", "user"}
    BY <1>1 DEF ForkUndo, UnmapNext, Invalidate, Empty, NoOp, cr3s, ipis, OpType
<1>3. tlb' = tlb /\ \A m \in MMS : m # op[c].to => pt'[m] = pt[m]
    <2>1. loaded[c] # op[c].to
        BY <1>1, Numbers DEF ForkUndo, Shoots, Control, Cr3Inv, Cr3OK, ForkInv, OpOK
    <2> QED
        BY <2>1 DEF ForkUndo, UnmapNext, Invalidate, Unmapped, Shoots, Control, Shape, PtTyped
<1> HIDE DEF o
<1>4. Asks(c, o)
    BY <1>2 DEF ForkUndo, Asks, Asking
<1>5. \A d \in Cpus : tlb[d] = {} \/ (loaded[d] \in MMS /\ loaded[d] # op[c].to)
    BY <1>1, Numbers DEF ForkUndo, Shoots, Control, Cr3Inv, Cr3OK, ForkInv, OpOK, Shape,
       RestTyped, Mms
<1>6. Leaves(c, o)
    BY <1>2, <1>3, <1>5 DEF ForkUndo, Leaves
<1> QED
    BY <1>4, <1>6, AsksIpi, LeavesTlb DEF Shoots

(* The entry of an unmapped page.                                          *)
LEMMA UnmapClearShoots ==
    ASSUME Shoots, NEW c \in Cpus, UnmapClear(c)
    PROVE  IpiInv' /\ TlbInv'
<1> DEFINE o == [op[c] EXCEPT !.at = "spin", !.back = "unlock"]
<1>1. task[c] \in MMS /\ op[c] \in OpType /\ OpOK(c, op[c])
    BY Serves DEF UnmapClear, Shoots, Control, Shape, OpTyped, OpInv
<1>2. Asks(c, o)
    BY <1>1 DEF UnmapClear, Invalidate, cr3s, ipis, Asks, Asking, OpType, OpOK
<1>3. /\ loaded[c] = task[c] /\ op[c].va \in PAGES
      /\ lock[task[c]] = NoCpu \/ (lock[task[c]] = c /\ op[c].at \notin Shooting)
    BY <1>1 DEF UnmapClear, Shoots, Control, Cr3Inv, Cr3OK, LockInv, OpOK
<1>4. lock'[task[c]] = c /\ \A n \in MMS : n # task[c] => lock'[n] = lock[n]
    BY <1>1, <1>3 DEF UnmapClear, Shoots, Control, LockInv, Shape, RestTyped
<1>5. \A n \in MMS, u \in PAGES : n # task[c] \/ u # op[c].va => pt'[n][u] = pt[n][u]
    BY <1>1, <1>3 DEF UnmapClear, Shoots, Control, Shape, PtTyped
<1>6. Step(c, o) /\ o.at = "spin" /\ o.va = op[c].va
    BY <1>1 DEF UnmapClear, Invalidate, OpType
<1>7. tlb' = [tlb EXCEPT ![c] = {e \in @ : e.va # op[c].va}] /\ UNCHANGED <<loaded, req>>
    BY <1>1, <1>3 DEF UnmapClear, Invalidate, cr3s, ipis, OpType
<1>8. Starts(c, o, task[c], op[c].va)
    BY <1>1, <1>3, <1>4, <1>5, <1>6, <1>7 DEF Starts
<1> QED
    BY <1>2, <1>8, AsksIpi, StartsTlb DEF Shoots

(* A fork that fails.                                                      *)
LEMMA ForkFailsShoots ==
    ASSUME Shoots, NEW c \in Cpus, ForkFails(c)
    PROVE  IpiInv' /\ TlbInv'
<1> DEFINE o == [op[c] EXCEPT !.at = "undo", !.todo = PAGES]
<1>1. task[c] \in MMS /\ op[c] \in OpType /\ OpOK(c, op[c])
    BY Serves DEF ForkFails, Shoots, Control, Shape, OpTyped, OpInv
<1>2. Asks(c, o)
    BY <1>1 DEF ForkFails, cr3s, ipis, Asks, Asking, OpType, OpOK
<1>3. Leaves(c, o)
    <2>1. Stands(op[c]) = "copy"
        BY DEF ForkFails
    <2>2. lock[task[c]] = c
        BY <2>1 DEF Shoots, Control, LockInv
    <2>3. lock' = [lock EXCEPT ![task[c]] = NoCpu] /\ lock \in [MMS -> Cpus \cup {NoCpu}]
        BY DEF ForkFails, Unlocked, Shoots, Control, Shape, RestTyped
    <2>4. Step(c, o) /\ UNCHANGED <<pt, loaded, tlb, req>>
        BY DEF ForkFails, cr3s, ipis
    <2> HIDE DEF o
    <2> QED
        BY <1>1, <2>2, <2>3, <2>4 DEF ForkFails, Leaves
<1> QED
    BY <1>2, <1>3, AsksIpi, LeavesTlb DEF Shoots

(* munmap.                                                                 *)
LEMMA UnmapShoots ==
    ASSUME Shoots, NEW c \in Cpus, NEW va \in PAGES, Unmap(c, va)
    PROVE  IpiInv' /\ TlbInv'
<1> DEFINE o == [NoOp EXCEPT !.at = "unmap", !.va = va]
<1>1. task[c] \in MMS /\ op[c] \in OpType /\ OpOK(c, op[c])
    BY Serves DEF Unmap, InUser, Shoots, Control, Shape, OpTyped, OpInv
<1>2. Asks(c, o)
    BY <1>1 DEF Unmap, InUser, NoOp, cr3s, ipis, Asks, Asking, OpType, OpOK
<1>3. Leaves(c, o)
    BY <1>1, Numbers DEF Unmap, InUser, Locked, NoOp, cr3s, ipis, LockFree, Leaves, Shoots,
       Control, Shape, RestTyped, PtTyped, Cr3Inv, Cr3OK, ForkInv, LockInv, OpType, OpOK, Mms
<1> QED
    BY <1>2, <1>3, AsksIpi, LeavesTlb DEF Shoots

(* A page fault.                                                           *)
LEMMA FaultShoots ==
    ASSUME Shoots, NEW c \in Cpus, NEW va \in PAGES, NEW write \in BOOLEAN, Fault(c, va, write)
    PROVE  IpiInv' /\ TlbInv'
<1> DEFINE o == [NoOp EXCEPT !.at = "fault", !.va = va, !.write = write,
                             !.p = (IF Entry(c, va) = {} THEN Walk(task[c], va) ELSE Entry(c, va)) # {}]
<1>1. task[c] \in MMS /\ op[c] \in OpType /\ OpOK(c, op[c])
    BY Serves DEF Fault, InUser, Shoots, Control, Shape, OpTyped, OpInv
<1>2. Asks(c, o)
    BY <1>1 DEF Fault, InUser, NoOp, cr3s, ipis, Asks, Asking, OpType, OpOK
<1>3. Leaves(c, o)
    BY <1>1, Numbers DEF Fault, InUser, NoOp, cr3s, ipis, Leaves, Shoots, Control, Shape,
       RestTyped, PtTyped, Cr3Inv, Cr3OK, ForkInv, LockInv, OpType, OpOK, Mms
<1> QED
    BY <1>2, <1>3, AsksIpi, LeavesTlb DEF Shoots
(* What stays where it is.                                                 *)
LEMMA StandStill ==
    ASSUME Control, op' = op, NEW c \in Cpus
    PROVE  Step(c, op[c])
    BY DEF Control, Shape, OpTyped

(* fork, at its start ...                                                  *)
LEMMA ForkShoots ==
    ASSUME Shoots, NEW c \in Cpus, NEW m \in MMS, NEW d \in Cpus, Fork(c, m, d)
    PROVE  IpiInv' /\ TlbInv'
<1> DEFINE o == [NoOp EXCEPT !.at = "copy", !.to = m, !.on = d, !.todo = PAGES]
<1>1. Asks(c, o)
    BY DEF Fork, InUser, NoOp, cr3s, ipis, Asks, Asking
<1>2. Leaves(c, o)
    BY Serves DEF Fork, InUser, Locked, LockFree, cr3s, ipis, Leaves, Shoots, Control, Shape,
       RestTyped
<1> QED
    BY <1>1, <1>2, AsksIpi, LeavesTlb DEF Shoots

(* ... and at its end.                                                     *)
LEMMA ForkDoneShoots ==
    ASSUME Shoots, NEW c \in Cpus, ForkDone(c)
    PROVE  IpiInv' /\ TlbInv'
<1>1. op[c].on \in Cpus /\ task[op[c].on] = Boot /\ loaded[op[c].on] = Boot /\ At(op[c].on, "user")
    BY Numbers DEF ForkDone, Shoots, Control, Shape, OpTyped, OpType, OpInv, OpOK, ForkInv,
       Cr3Inv, Cr3OK
<1>2. Asks(c, NoOp)
    BY <1>1 DEF ForkDone, NoOp, ipis, Asks, Asking, Shoots, Control, Shape, RestTyped
<1>3. Leaves(c, NoOp)
    BY Serves, Numbers DEF ForkDone, Unlocked, ipis, Leaves, Shoots, Control, Shape,
       RestTyped, LockInv
<1> QED
    BY <1>2, <1>3, AsksIpi, LeavesTlb DEF Shoots

(* proc_run loads CR3 ...                                                  *)
LEMMA SwitchShoots ==
    ASSUME Shoots, NEW c \in Cpus, NEW from, NEW to,
           <<from, to>> \in {<<task[c], Boot>>, <<Boot, task[c]>>}, Switch(c, from, to)
    PROVE  IpiInv' /\ TlbInv'
<1> DEFINE o == [NoOp EXCEPT !.at = "publish", !.off = TRUE]
<1>1. Asks(c, o)
    BY DEF Switch, NoOp, ipis, Asks, Asking, Shoots, Control, Shape, RestTyped
<1>2. Leaves(c, o)
    BY DEF Switch, ipis, Leaves, Shoots, Control, Shape, RestTyped
<1> QED
    BY <1>1, <1>2, AsksIpi, LeavesTlb DEF Shoots

(* ... from task to task, ...                                              *)
LEMMA SwitchToShoots ==
    ASSUME Shoots, NEW c \in Cpus, NEW e \in Cpus, SwitchTo(c, e)
    PROVE  IpiInv' /\ TlbInv'
<1> DEFINE o == [NoOp EXCEPT !.at = "publish", !.off = TRUE]
<1>1. Asks(c, o)
    BY DEF SwitchTo, InUser, NoOp, ipis, Asks, Asking, Shoots, Control, Shape, RestTyped
<1>2. Leaves(c, o)
    BY DEF SwitchTo, InUser, ipis, Leaves, Shoots, Control, Shape, RestTyped
<1> QED
    BY <1>1, <1>2, AsksIpi, LeavesTlb DEF Shoots

(* ... and publishes it.                                                   *)
LEMMA PublishShoots ==
    ASSUME Shoots, NEW c \in Cpus, Publish(c)
    PROVE  IpiInv' /\ TlbInv'
<1>1. Asks(c, NoOp)
    BY DEF Publish, NoOp, ipis, Asks, Asking
<1>2. Leaves(c, NoOp)
    BY DEF Publish, ipis, Leaves
<1> QED
    BY <1>1, <1>2, AsksIpi, LeavesTlb DEF Shoots

(* do_exit.                                                                *)
LEMMA ExitShoots ==
    ASSUME Shoots, NEW c \in Cpus, Exit(c)
    PROVE  IpiInv' /\ TlbInv'
<1> DEFINE o == [op[c] EXCEPT !.at = "leave"]
<1>1. Asks(c, o)
    BY DEF Exit, InUser, ipis, Asks, Asking, Shoots, Control, Shape, RestTyped, OpTyped, OpType
<1>2. Leaves(c, o)
    BY DEF Exit, InUser, ipis, Leaves, Shoots, Control, Shape, RestTyped
<1> QED
    BY <1>1, <1>2, AsksIpi, LeavesTlb DEF Shoots

(* mm_count_dec.                                                           *)
LEMMA ExitCountShoots ==
    ASSUME Shoots, NEW c \in Cpus, ExitCount(c)
    PROVE  IpiInv' /\ TlbInv'
<1> DEFINE o == IF Single(task[c]) THEN [op[c] EXCEPT !.at = "drop", !.todo = PAGES] ELSE NoOp
<1>1. loaded[c] = Boot
    BY DEF ExitCount, Shoots, Control, Cr3Inv, Cr3OK
<1>2. Step(c, o) /\ \A d \in Cpus : d # c => task'[d] = task[d]
    BY DEF ExitCount, Shoots, Control, Shape, RestTyped
<1>3. o.at \in {"drop", "user"}
    BY DEF NoOp, Shoots, Control, Shape, OpTyped, OpType
<1> HIDE DEF o
<1>4. Asks(c, o)
    BY <1>1, <1>2, <1>3 DEF ExitCount, ipis, Asks, Asking
<1>5. Leaves(c, o)
    BY <1>2 DEF ExitCount, ipis, Leaves
<1> QED
    BY <1>4, <1>5, AsksIpi, LeavesTlb DEF Shoots

(* exit_mmap: the last task is gone from its page table.                   *)
LEMMA ExitDropShoots ==
    ASSUME Shoots, NEW c \in Cpus, ExitDrop(c)
    PROVE  IpiInv' /\ TlbInv'
<1> DEFINE va == Min(op[c].todo)
           q == [op[c] EXCEPT !.va = va, !.todo = @ \ {va}]
           o == IF op[c].todo = {} THEN NoOp ELSE IF Empty(task[c], va) THEN q
                ELSE [q EXCEPT !.at = "spin", !.back = "drop"]
<1>1. task[c] \in MMS /\ loaded[c] = Boot /\ \A d \in Cpus : loaded[d] # task[c]
    BY Serves, Numbers DEF ExitDrop, Shoots, Control, Cr3Inv, Cr3OK
<1>2. Step(c, o) /\ \A d \in Cpus : d # c => task'[d] = task[d]
    BY DEF ExitDrop, UnmapNext, Invalidate, Empty, Shoots, Control, Shape, RestTyped
<1>3. o.at \in {"drop", "user", "spin"} /\ tlb' = tlb
    BY <1>1 DEF ExitDrop, UnmapNext, Invalidate, NoOp, Shoots, Control, Shape, OpTyped, OpType
<1>4. \A m \in MMS : m # task[c] => pt'[m] = pt[m]
    BY <1>1 DEF ExitDrop, UnmapNext, Unmapped, Shoots, Control, Shape, PtTyped
<1> HIDE DEF o
<1>5. Asks(c, o)
    BY <1>1, <1>2, <1>3 DEF ExitDrop, ipis, Asks, Asking
<1>6. \A d \in Cpus : tlb'[d] = {} \/ (tlb'[d] = tlb[d] /\ pt'[loaded[d]] = pt[loaded[d]])
    BY <1>1, <1>3, <1>4 DEF ExitDrop, Shoots, Control, Cr3Inv, Cr3OK, Shape, RestTyped, Mms
<1>7. Leaves(c, o)
    BY <1>2, <1>3, <1>6 DEF ExitDrop, ipis, Leaves
<1> QED
    BY <1>5, <1>7, AsksIpi, LeavesTlb DEF Shoots

(* mmap, and a store of user code.                                         *)
LEMMA MapShoots ==
    ASSUME Shoots, NEW c \in Cpus, NEW va \in PAGES, Map(c, va)
    PROVE  IpiInv' /\ TlbInv'
<1>1. Asks(c, op[c]) /\ Leaves(c, op[c])
    BY StandStill DEF Map, InUser, cr3s, ipis, Asks, Asking, Leaves, Shoots
<1> QED
    BY <1>1, AsksIpi, LeavesTlb DEF Shoots

(* User code writes.                                                       *)
LEMMA StoreShoots ==
    ASSUME Shoots, NEW c \in Cpus, NEW va \in PAGES, NEW v \in Values, Store(c, va, v)
    PROVE  IpiInv' /\ TlbInv'
<1>1. Asks(c, op[c]) /\ Leaves(c, op[c])
    BY StandStill DEF Store, InUser, cr3s, ipis, Asks, Asking, Leaves, Shoots
<1> QED
    BY <1>1, AsksIpi, LeavesTlb DEF Shoots

(* mprotect.                                                               *)
LEMMA MprotectShoots ==
    ASSUME Shoots, NEW c \in Cpus, NEW va \in PAGES, NEW prot \in Prots, Mprotect(c, va, prot)
    PROVE  IpiInv' /\ TlbInv'
<1> DEFINE o == [[NoOp EXCEPT !.va = va] EXCEPT !.at = "spin", !.back = "unlock"]
           m == task[c]
           none == Pte(m, va).kind = "no" \/ (Pte(m, va).kind = "hidden" /\ prot = "none")
<1>1. task[c] \in MMS /\ InUser(c)
    BY Serves DEF Mprotect, Shoots
<1>2. CASE none
    <2>1. UNCHANGED <<pt, lock, tlb, op, task, loaded, tlb_lock, req>>
        BY <1>2 DEF Mprotect, cr3s, ipis
    <2>2. Asks(c, op[c]) /\ Leaves(c, op[c])
        BY <1>1, <2>1, StandStill DEF InUser, Asks, Asking, Leaves, Shoots
    <2> QED
        BY <2>2, AsksIpi, LeavesTlb DEF Shoots
<1>3. CASE ~none
    <2>1. /\ Locked(c, m) /\ SetPte(m, va, Protected(Pte(m, va), prot))
          /\ Invalidate(c, [NoOp EXCEPT !.va = va], m, "unlock")
          /\ UNCHANGED <<task, loaded, tlb_lock, req>>
        BY <1>3 DEF Mprotect, cr3s, ipis
    <2>2. Step(c, o) /\ o.at = "spin" /\ o.va = va
        BY <2>1 DEF Invalidate, NoOp
    <2>3. Asks(c, o)
        BY <1>1, <2>1, <2>2 DEF InUser, Asks, Asking
    <2>4. tlb' = [tlb EXCEPT ![c] = {e \in @ : e.va # va}]
        BY <1>1, <2>1 DEF Invalidate, NoOp, InUser
    <2>5. \A n \in MMS, u \in PAGES : n # m \/ u # va => pt'[n][u] = pt[n][u]
        BY <1>1, <2>1 DEF Shoots, Control, Shape, PtTyped
    <2>6. Starts(c, o, m, va)
        BY <1>1, <2>1, <2>2, <2>4, <2>5 DEF Starts, Locked, LockFree, InUser, Shoots,
           Control, Shape, RestTyped
    <2> QED
        BY <2>3, <2>6, AsksIpi, StartsTlb DEF Shoots
<1> QED
    BY <1>2, <1>3

(* A translation is loaded from the page table as it is.                   *)
LEMMA LoadShoots ==
    ASSUME Shoots, NEW c \in Cpus, NEW va \in PAGES, Load(c, va)
    PROVE  IpiInv' /\ TlbInv'
<1>1. Asks(c, op[c])
    BY StandStill DEF Load, InUser, cr3s, ipis, Asks, Asking, Shoots
<1>2. ASSUME NEW d \in Cpus, NEW e \in tlb'[d]
      PROVE  Current(loaded[d], e) \/ (lock[loaded[d]] # NoCpu /\ Pending(lock[loaded[d]], d, e.va))
    <2>1. e \in tlb[d] \/ (d = c /\ e \in Walk(task[c], va) /\ loaded[c] = task[c])
        BY DEF Load, InUser, Shoots, Control, Shape, RestTyped
    <2>2. e \in Walk(task[c], va) => Current(task[c], e)
        BY DEF Walk, Current
    <2> QED
        BY <2>1, <2>2 DEF Shoots, TlbInv
<1>3. UNCHANGED <<pt, lock, loaded, op, req>>
    BY DEF Load, cr3s, ipis
<1>4. TlbInv'
    BY <1>2, <1>3 DEF TlbInv, Current, Pending
<1> QED
    BY <1>1, <1>4, AsksIpi DEF Shoots

(* One CPU at a time waits for answers.                                    *)
LEMMA OneAsks ==
    ASSUME IpiInv, NEW c \in Cpus, op[c].at \in Asking
    PROVE  tlb_lock = c /\ \A x \in Cpus : op[x].at \in Asking <=> x = c
    BY DEF IpiInv, Asking

(* Under lock_mm a shootdown is about the address space of the task.       *)
LEMMA LocksTarget ==
    ASSUME Control, NEW c \in Cpus, op[c].at \in Shooting, lock[task[c]] = c
    PROVE  Target(c) = task[c]
<1>1. task[c] \in MMS
    BY Serves
<1>2. Stands(op[c]) \in Holding
    BY <1>1, Numbers DEF Control, LockInv
<1> QED
    BY <1>2 DEF Target

(* A step of the shootdown of CPU c, which goes on at o.                   *)
Walks(c, o) ==
    /\ Step(c, o) /\ op[c].at \in Shooting /\ UNCHANGED <<pt, lock, loaded, tlb>>
    /\ \A d \in Cpus : req[d] # NoReq => req'[d] # NoReq
    /\ \A d \in Cpus, e \in EntryType :
          e \in tlb[d] /\ loaded[d] = task[c] /\ lock[task[c]] = c /\ Pending(c, d, e.va) =>
              \/ Current(task[c], e)
              \/ /\ o.va = op[c].va /\ d \in o.cpus /\ o.at \in {"scan", "wait"}
                 /\ o.at = "wait" /\ d = Min(o.cpus) => req'[d] # NoReq

(* The shootdown passes only CPUs without a stale translation.             *)
LEMMA WalksTlb ==
    ASSUME Control, TlbInv, NEW c \in Cpus, NEW o, Walks(c, o)
    PROVE  TlbInv'
<1> SUFFICES ASSUME NEW d \in Cpus, NEW e \in tlb'[d]
             PROVE  \/ Current(loaded[d], e)'
                    \/ lock'[loaded'[d]] # NoCpu /\ Pending(lock[loaded[d]], d, e.va)'
    BY DEF TlbInv
<1>1. op'[c] = o /\ \A x \in Cpus : x # c => op'[x] = op[x]
    BY DEF Walks, Control, Shape, OpTyped
<1>2. e \in tlb[d] /\ UNCHANGED <<pt, lock, loaded>>
    BY DEF Walks
<1>3. loaded[d] \in MMS /\ e \in EntryType
    BY <1>2 DEF Control, Cr3Inv, Cr3OK, Shape, RestTyped, Mms
<1>4. CASE Current(loaded[d], e)
    BY <1>2, <1>4 DEF Current
<1>5. CASE lock[loaded[d]] # NoCpu /\ Pending(lock[loaded[d]], d, e.va)
    <2>1. PICK x \in Cpus : x = lock[loaded[d]] /\ task[x] = loaded[d]
        BY <1>3, <1>5 DEF Control, LockInv, Shape, RestTyped
    <2>2. lock'[loaded'[d]] = x /\ x # NoCpu /\ Pending(x, d, e.va)
        BY <1>2, <1>5, <2>1, Numbers
    <2>3. CASE x = c
        <3>1. \/ Current(loaded[d], e)
              \/ /\ o.va = e.va /\ d \in o.cpus /\ o.at \in {"scan", "wait"} /\ c # d
                 /\ o.at = "wait" /\ d = Min(o.cpus) => req'[d] # NoReq
            BY <1>2, <1>3, <2>1, <2>2, <2>3 DEF Walks, Pending
        <3>2. op'[x] = o
            BY <1>1, <2>3
        <3> QED
            BY <1>4, <2>2, <2>3, <3>1, <3>2 DEF Pending
    <2>4. CASE x # c
        <3>1. op'[x] = op[x] /\ (req[d] # NoReq => req'[d] # NoReq)
            BY <1>1, <2>4 DEF Walks
        <3> QED
            BY <2>2, <3>1 DEF Pending
    <2> QED
        BY <2>3, <2>4
<1> QED
    BY <1>2, <1>4, <1>5 DEF TlbInv

(* smp_tlb_lock is taken: everybody else is on the list.                   *)
LEMMA TlbLockShoots ==
    ASSUME Shoots, NEW c \in Cpus, TlbLock(c)
    PROVE  IpiInv' /\ TlbInv'
<1> DEFINE o == [op[c] EXCEPT !.at = "scan", !.cpus = Cpus \ {c}]
<1>1. o.at = "scan" /\ o.cpus = Cpus \ {c} /\ o.va = op[c].va
    BY DEF Shoots, Control, Shape, OpTyped, OpType
<1>2. op'[c] = o /\ \A x \in Cpus : x # c => op'[x] = op[x]
    BY DEF TlbLock, Shoots, Control, Shape, OpTyped
<1>3. \A x \in Cpus : op[x].at \notin {"scan", "wait"}
    BY Numbers DEF TlbLock, Shoots, IpiInv
<1> HIDE DEF o
<1>4. IpiInv'
    BY <1>1, <1>2, <1>3 DEF TlbLock, IpiInv
<1>5. Walks(c, o)
    BY <1>1 DEF TlbLock, cr3s, Walks, Pending, o
<1> QED
    BY <1>4, <1>5, WalksTlb DEF Shoots

(* A request to the next CPU on the list; a CPU that has published another *)
(* page table has no translations of this one.                             *)
LEMMA TlbSendShoots ==
    ASSUME Shoots, NEW c \in Cpus, TlbSend(c)
    PROVE  IpiInv' /\ TlbInv'
<1> DEFINE n == Min(op[c].cpus)
<1>1. op[c] \in OpType /\ op[c].cpus \subseteq Cpus /\ n \in op[c].cpus /\ n \in Cpus
    BY MinIn, Numbers DEF TlbSend, Shoots, Control, Shape, OpTyped, OpType
<1>2. Target(c) # Boot
    BY <1>1, Serves, Numbers DEF TlbSend, Target, Shoots, Control, OpInv, OpOK
<1>3. tlb_lock = c /\ \A x \in Cpus : op[x].at \in {"scan", "wait"} <=> x = c
    BY OneAsks DEF TlbSend, Shoots, Asking
<1>4. CASE pub[n] = Target(c)
    <2> DEFINE o == [op[c] EXCEPT !.at = "wait"]
               r == [mm |-> Target(c), va |-> op[c].va]
    <2>1. /\ o.at = "wait" /\ o.cpus = op[c].cpus /\ o.va = op[c].va
          /\ o.back = op[c].back /\ o.to = op[c].to
        BY <1>1 DEF OpType
    <2>2. op' = [op EXCEPT ![c] = o] /\ req' = [req EXCEPT ![n] = r]
        BY <1>4 DEF TlbSend
    <2>3. op'[c] = o /\ \A x \in Cpus : x # c => op'[x] = op[x]
        BY <2>2 DEF Shoots, Control, Shape, OpTyped
    <2>4. req'[n] = r /\ r # NoReq /\ \A x \in Cpus : x # n => req'[x] = req[x]
        BY <1>1, <1>2, <2>2, Numbers DEF NoReq, Shoots, Control, Shape, RestTyped
    <2>5. UNCHANGED <<task, loaded, tlb_lock>>
        BY DEF TlbSend, cr3s
    <2>6. Target(c)' = Target(c)
        BY <2>1, <2>3, <2>5 DEF Target
    <2> HIDE DEF o
    <2>7. req'[Min(op'[c].cpus)] = [mm |-> Target(c)', va |-> op'[c].va]
        BY <2>1, <2>3, <2>4, <2>6
    <2>8. IpiInv'
        BY <1>3, <2>1, <2>3, <2>5, <2>7 DEF IpiInv
    <2> HIDE DEF r, n
    <2>9. Walks(c, o)
        BY <2>1, <2>2, <2>4 DEF TlbSend, cr3s, Walks, Pending, n
    <2> QED
        BY <2>8, <2>9, WalksTlb DEF Shoots
<1>5. CASE pub[n] # Target(c)
    <2> DEFINE o == [op[c] EXCEPT !.cpus = @ \ {n}]
    <2>1. o.at = "scan" /\ o.cpus = op[c].cpus \ {n} /\ o.va = op[c].va
        BY <1>1 DEF OpType, TlbSend
    <2>2. op' = [op EXCEPT ![c] = o] /\ req' = req
        BY <1>5 DEF TlbSend
    <2>3. op'[c] = o /\ \A x \in Cpus : x # c => op'[x] = op[x]
        BY <2>2 DEF Shoots, Control, Shape, OpTyped
    <2>4. loaded[n] = task[c] /\ lock[task[c]] = c => tlb[n] = {}
        <3> SUFFICES ASSUME loaded[n] = task[c], lock[task[c]] = c PROVE tlb[n] = {}
            OBVIOUS
        <3>1. pub[n] # loaded[n]
            BY <1>5, LocksTarget DEF TlbSend, Shoots
        <3> QED
            BY <1>1, <3>1 DEF Shoots, Control, Cr3Inv, Cr3OK, OpInv, OpOK
    <2> HIDE DEF o, n
    <2>5. IpiInv'
        BY <1>3, <2>1, <2>2, <2>3 DEF TlbSend, IpiInv
    <2>6. Walks(c, o)
        BY <2>1, <2>2, <2>4 DEF TlbSend, cr3s, Walks, Pending
    <2> QED
        BY <2>5, <2>6, WalksTlb DEF Shoots
<1> QED
    BY <1>4, <1>5

(* A CPU that is given up on because it spins for smp_tlb_lock with        *)
(* interrupts off has no translation that the shootdown is about.          *)
LEMMA StuckClean ==
    ASSUME Control, NEW c \in Cpus, NEW d \in Cpus, c # d, Stuck(d),
           loaded[d] = task[c], lock[task[c]] = c
    PROVE  tlb[d] = {}
<1>1. CASE Stands(op[d]) \in Holding
    <2>1. loaded[d] = task[d] /\ lock[task[d]] = d
        BY <1>1 DEF Control, Cr3Inv, Cr3OK, LockInv
    <2> QED
        BY <2>1
<1>2. CASE Stands(op[d]) = "drop"
    BY <1>2 DEF Control, Cr3Inv, Cr3OK
<1>3. Stands(op[d]) \in Holding \cup {"drop"}
    BY DEF Stuck, Control, OpInv, OpOK
<1> QED
    BY <1>1, <1>2, <1>3

(* A shootdown went on without the answer of a CPU that is not stuck.      *)
Slipped == "ipi" \in slips

(* An answer: the CPU has no translation left that the page table has not. *)
LEMMA TlbAcknowledgedShoots ==
    ASSUME ~Slipped', Shoots, NEW c \in Cpus, TlbAcknowledged(c)
    PROVE  IpiInv' /\ TlbInv'
<1> DEFINE n == Min(op[c].cpus)
           o == [op[c] EXCEPT !.at = "scan", !.cpus = @ \ {n}]
<1>1. n \in Cpus /\ n # c
    BY MinIn, Numbers DEF TlbAcknowledged, Shoots, Control, Shape, OpTyped, OpType, OpInv, OpOK
<1>2. o.at = "scan" /\ o.cpus = op[c].cpus \ {n} /\ o.va = op[c].va /\ op' = [op EXCEPT ![c] = o]
    BY DEF TlbAcknowledged, Shoots, Control, Shape, OpTyped, OpType
<1>3. op'[c] = o /\ \A x \in Cpus : x # c => op'[x] = op[x]
    BY <1>2 DEF Shoots, Control, Shape, OpTyped
<1>4. tlb_lock = c /\ \A x \in Cpus : op[x].at \in {"scan", "wait"} <=> x = c
    BY OneAsks DEF TlbAcknowledged, Shoots, Asking
<1>5. req[n] = NoReq \/ (loaded[n] = task[c] /\ lock[task[c]] = c => tlb[n] = {})
    BY <1>1, StuckClean DEF TlbAcknowledged, Slipped, Shoots
<1> HIDE DEF o
<1>6. IpiInv'
    BY <1>2, <1>3, <1>4 DEF TlbAcknowledged, ipis, IpiInv
<1> HIDE DEF n
<1>7. Walks(c, o)
    BY <1>2, <1>5 DEF TlbAcknowledged, cr3s, ipis, Walks, Pending, n
<1> QED
    BY <1>6, <1>7, WalksTlb DEF Shoots

(* Everybody has been dealt with.                                          *)
LEMMA TlbUnlockShoots ==
    ASSUME Shoots, NEW c \in Cpus, TlbUnlock(c)
    PROVE  IpiInv' /\ TlbInv'
<1> DEFINE o == [op[c] EXCEPT !.at = op[c].back, !.back = "user"]
<1>1. o.at \notin {"scan", "wait"} /\ op' = [op EXCEPT ![c] = o]
    BY DEF TlbUnlock, Shoots, Control, Shape, OpTyped, OpType, OpInv, OpOK
<1>2. op'[c] = o /\ \A x \in Cpus : x # c => op'[x] = op[x]
    BY <1>1 DEF Shoots, Control, Shape, OpTyped
<1>3. tlb_lock = c /\ \A x \in Cpus : op[x].at \in {"scan", "wait"} <=> x = c
    BY OneAsks DEF TlbUnlock, Shoots, Asking
<1> HIDE DEF o
<1>4. IpiInv'
    BY <1>1, <1>2, <1>3, Numbers DEF TlbUnlock, IpiInv
<1>5. Walks(c, o)
    BY <1>1 DEF TlbUnlock, cr3s, Walks, Pending
<1> QED
    BY <1>4, <1>5, WalksTlb DEF Shoots

(* The request is served: the translation is dropped.                      *)
LEMMA TlbIpiShoots ==
    ASSUME Shoots, NEW d \in Cpus, TlbIpi(d)
    PROVE  IpiInv' /\ TlbInv'
<1>1. req' = [req EXCEPT ![d] = NoReq] /\ UNCHANGED <<pt, lock, loaded, task, op, tlb_lock>>
    BY DEF TlbIpi, cr3s
<1>2. \A x \in Cpus : req'[x] = IF x = d THEN NoReq ELSE req[x]
    BY <1>1 DEF Shoots, Control, Shape, RestTyped
<1>3. IpiInv'
    <2>1. ASSUME NEW x \in Cpus, op'[x].at = "wait"
          PROVE  req'[Min(op'[x].cpus)] \in {NoReq, [mm |-> Target(x)', va |-> op'[x].va]}
        <3>1. Min(op[x].cpus) \in Cpus /\ Target(x)' = Target(x) /\ op' = op
            BY <1>1, <2>1, MinIn, Numbers DEF Target, Shoots, Control, Shape, OpTyped, OpType,
               OpInv, OpOK
        <3>2. req[Min(op[x].cpus)] \in {NoReq, [mm |-> Target(x), va |-> op[x].va]}
            BY <2>1, <3>1 DEF Shoots, IpiInv
        <3> QED
            BY <1>2, <3>1, <3>2
    <2>2. \A x \in Cpus : tlb_lock' = x <=> op'[x].at \in {"scan", "wait"}
        BY <1>1 DEF Shoots, IpiInv
    <2> QED
        BY <2>1, <2>2 DEF IpiInv
<1>4. ASSUME NEW x \in Cpus, NEW e \in tlb'[x]
      PROVE  \/ Current(loaded[x], e)'
             \/ lock'[loaded'[x]] # NoCpu /\ Pending(lock[loaded[x]], x, e.va)'
    <2>1. e \in tlb[x] /\ (x = d /\ loaded[d] = req[d].mm => e.va # req[d].va)
        BY DEF TlbIpi, Shoots, Control, Shape, RestTyped
    <2>2. loaded[x] \in MMS
        BY <2>1 DEF Shoots, Control, Cr3Inv, Cr3OK, Shape, RestTyped, Mms
    <2>3. CASE Current(loaded[x], e)
        BY <1>1, <2>3 DEF Current
    <2>4. CASE lock[loaded[x]] # NoCpu /\ Pending(lock[loaded[x]], x, e.va)
        <3>1. PICK y \in Cpus : y = lock[loaded[x]] /\ task[y] = loaded[x]
            BY <2>2, <2>4 DEF Shoots, Control, LockInv, Shape, RestTyped
        <3>2. Pending(y, x, e.va)
            BY <2>4, <3>1
        <3>3. ~(At(y, "wait") /\ x = Min(op[y].cpus) /\ x = d)
            <4> SUFFICES ASSUME At(y, "wait"), x = Min(op[y].cpus), x = d PROVE FALSE
                OBVIOUS
            <4>1. req[d] = [mm |-> task[y], va |-> op[y].va]
                BY <3>1, LocksTarget DEF TlbIpi, Shoots, IpiInv
            <4>2. loaded[d] = req[d].mm /\ e.va = req[d].va
                BY <3>1, <3>2, <4>1 DEF Pending
            <4> QED
                BY <2>1, <4>2
        <3>4. Pending(y, x, e.va)'
            BY <1>1, <1>2, <3>2, <3>3 DEF Pending
        <3> QED
            BY <1>1, <3>1, <3>4, Numbers
    <2> QED
        BY <2>1, <2>3, <2>4 DEF Shoots, TlbInv
<1> QED
    BY <1>3, <1>4 DEF TlbInv

(* Every step keeps the promise of the shootdown.                          *)
LEMMA NextShoots ==
    ASSUME ~Slipped', Shoots, Next
    PROVE  IpiInv' /\ TlbInv'
<1>1. PICK c \in Cpus :
        \/ KernelStep(c) \/ TlbIpi(c) \/ ForkFails(c) \/ Call(c)
        \/ /\ c \in Idlers
           /\ Switch(c, task[c], Boot) \/ \E e \in Cpus : SwitchTo(c, e)
        \/ Switch(c, Boot, task[c])
        \/ \E va \in PAGES : Access(c, va)
    BY DEF Next
<1> DEFINE Goal == IpiInv' /\ TlbInv'
<1>2. ASSUME FaultStep(c) PROVE Goal
    BY <1>2, FaultRefusedShoots, FaultFillShoots, FaultClearShoots, FaultOwnShoots,
       FaultCopyShoots,
       FaultInsertShoots, FaultRemoveShoots, FaultMapShoots, UnlockMmShoots DEF FaultStep
<1>3. ASSUME TlbStep(c) PROVE Goal
    BY <1>3, TlbLockShoots, TlbSendShoots, TlbAcknowledgedShoots, TlbUnlockShoots DEF TlbStep,
       TlbSendFails, Slipped
<1>4. ASSUME CopyStep(c) PROVE Goal
    BY <1>4, CopyProtectShoots, CopyShareShoots, ForkDoneShoots, ForkUndoShoots DEF CopyStep
<1>5. ASSUME KernelStep(c) PROVE Goal
    BY <1>2, <1>3, <1>4, <1>5, UnmapClearShoots, PublishShoots, ExitShoots, ExitCountShoots,
       ExitDropShoots DEF KernelStep
<1>6. ASSUME Call(c) PROVE Goal
    BY <1>6, ForkShoots, UnmapShoots, MapShoots, MprotectShoots, ExitShoots DEF Call
<1>7. ASSUME NEW va \in PAGES, Access(c, va) PROVE Goal
    BY <1>7, LoadShoots, StoreShoots, FaultShoots DEF Access
<1>8. ASSUME Switch(c, task[c], Boot) \/ Switch(c, Boot, task[c]) PROVE Goal
    BY <1>8, SwitchShoots
<1> QED
    BY <1>1, <1>5, <1>6, <1>7, <1>8, TlbIpiShoots, ForkFailsShoots, SwitchToShoots

(* The first state has no translations.                                    *)
LEMMA InitShoots ==
    ASSUME Init
    PROVE  IpiInv /\ TlbInv
    BY Numbers DEF Init, NoOp, IpiInv, TlbInv

(* Nothing changes but by a step.                                          *)
LEMMA StutterShoots ==
    ASSUME IpiInv /\ TlbInv, UNCHANGED vars
    PROVE  IpiInv' /\ TlbInv'
    BY DEF vars, IpiInv, TlbInv, Current, Pending, Target

(* What has slipped stays so.                                              *)
LEMMA NextSlipped ==
    ASSUME Slipped, Next
    PROVE  Slipped'
<1>1. PICK c \in Cpus :
        \/ KernelStep(c) \/ TlbIpi(c) \/ ForkFails(c) \/ Call(c)
        \/ /\ c \in Idlers
           /\ Switch(c, task[c], Boot) \/ \E e \in Cpus : SwitchTo(c, e)
        \/ Switch(c, Boot, task[c])
        \/ \E va \in PAGES : Access(c, va)
    BY DEF Next
<1>2. ASSUME FaultStep(c) PROVE Slipped'
    BY <1>2 DEF FaultStep, FaultRefused, FaultFill, FaultClear, FaultOwn, FaultCopy, FaultInsert,
       FaultRemove, FaultMap, UnlockMm, ipis, Slipped
<1>3. ASSUME TlbStep(c) PROVE Slipped'
    BY <1>3 DEF TlbStep, TlbLock, TlbSend, TlbSendFails, TlbAcknowledged, TlbUnlock, Slipped
<1>4. ASSUME CopyStep(c) PROVE Slipped'
    BY <1>4 DEF CopyStep, CopyProtect, CopyShare, ForkDone, ForkUndo, ipis, Slipped
<1>5. ASSUME KernelStep(c) PROVE Slipped'
    BY <1>2, <1>3, <1>4, <1>5 DEF KernelStep, UnmapClear, Publish, Exit, ExitCount, ExitDrop,
       ipis, Slipped
<1>6. ASSUME Call(c) PROVE Slipped'
    BY <1>6 DEF Call, Fork, Unmap, Map, Mprotect, Exit, ipis, Slipped
<1>7. ASSUME NEW va \in PAGES, Access(c, va) PROVE Slipped'
    BY <1>7 DEF Access, Load, Store, Fault, ipis, Slipped
<1> QED
    BY <1>1, <1>5, <1>6, <1>7 DEF TlbIpi, ForkFails, Switch, SwitchTo, ipis, Slipped

(* The shootdown keeps its invariant until it slips.                       *)
LEMMA ShootsInvariant == Spec => [](Control /\ (Slipped \/ Shoots))
<1> DEFINE Inv == Control /\ (Slipped \/ Shoots)
<1>1. Init => Inv
    BY InitControl, InitShoots DEF Shoots
<1>2. Inv /\ [Next]_vars => Inv'
    <2> SUFFICES ASSUME Inv, [Next]_vars PROVE Inv'
        OBVIOUS
    <2>1. CASE Next
        <3>1. Control'
            BY <2>1, NextControl
        <3>2. CASE Slipped'
            BY <3>1, <3>2
        <3>3. CASE ~Slipped'
            BY <2>1, <3>1, <3>3, NextSlipped, NextShoots DEF Shoots
        <3> QED
            BY <3>2, <3>3
    <2>2. CASE UNCHANGED vars
        BY <2>2, StutterControl, StutterShoots DEF Shoots, Slipped, vars
    <2> QED
        BY <2>1, <2>2
<1> QED
    BY <1>1, <1>2, PTL DEF Spec

(* smp_tlb_shootdown: until it goes on without an answer, for an IPI that  *)
(* is refused or late, every translation that a CPU holds of an unlocked   *)
(* page table is current, whoever faulted, forked, unmapped, switched or   *)
(* exited meanwhile, and even where two CPUs wait for each other until the *)
(* timeout parts them.                                                     *)
THEOREM VmTranslations == Spec => []TranslationsCurrent
<1>1. Slipped \/ Shoots => TranslationsCurrent
    BY DEF Shoots, TlbInv, Current, TranslationsCurrent, Slipped
<1> QED
    BY <1>1, ShootsInvariant, PTL
-----------------------------------------------------------------------------
(* exit_mmap on the next page: where it goes on.                           *)
NextOp(c, m, back) ==
    LET va == Min(op[c].todo)
        q == [op[c] EXCEPT !.va = va, !.todo = @ \ {va}]
    IN  IF Empty(m, va) THEN q ELSE [q EXCEPT !.at = "spin", !.back = back]

(* It still stands in the same loop.                                       *)
LEMMA NextOpIs ==
    ASSUME NEW c \in Cpus, NEW m, op[c] \in OpType, OpOK(c, op[c]), NEW back \in {"drop", "undo"},
           At(c, back), UnmapNext(c, m, back)
    PROVE  LET o == NextOp(c, m, back)
           IN  /\ Step(c, o) /\ Stands(o) = back /\ o.at \in {back, "spin"}
               /\ o.to = op[c].to /\ o.on = op[c].on /\ o.f = op[c].f /\ o.f = NoFrame
               /\ o.todo = op[c].todo \ {Min(op[c].todo)}
<1>1. op[c].f = NoFrame
    BY DEF OpOK
<1> QED
    BY <1>1 DEF NextOp, UnmapNext, Invalidate, Empty, OpType

(* Whose page table a step may write: that of the CPU's own task, under    *)
(* its lock or as the last user, or that of the child it forks.            *)
Owns(c, m) ==
    \/ m = op[c].to
    \/ m = task[c] /\ (lock[m] \in {NoCpu, c} \/ At(c, "drop"))
Writes(c) == \A m \in MMS : pt'[m] = pt[m] \/ Owns(c, m)

(* Nobody else relies on such a page table.                                *)
LEMMA OwnsAlone ==
    ASSUME Control, NEW c \in Cpus, NEW d \in Cpus, d # c, NEW m \in MMS, Owns(c, m)
    PROVE  /\ op[d].to # m
           /\ Stands(op[d]) \in Holding \cup {"drop"} => task[d] # m
    BY Numbers DEF Owns, Control, ForkInv, LockInv, Cr3Inv, Cr3OK

(* A step of CPU c that goes on at o.                                      *)
Keeps(c, o) ==
    /\ Step(c, o) /\ Writes(c)
    /\ \A d \in Cpus : d # c => task'[d] = task[d] \/ task[d] = Boot
    /\ \A m \in MMS : task[c] = m \/ op[c].to = m => Used(m)' \/ \A va \in PAGES : Empty(m, va)'

(* Such a step keeps the page tables in order.                             *)
LEMMA KeepsPages ==
    ASSUME Control, PagesInv, NEW c \in Cpus, NEW o, Keeps(c, o), PagesOK(c)'
    PROVE  PagesInv'
<1>1. op'[c] = o /\ \A x \in Cpus : x # c => op'[x] = op[x]
    BY DEF Keeps, Control, Shape, OpTyped
<1>2. ASSUME NEW d \in Cpus, d # c PROVE PagesOK(d)'
    <2>1. op'[d] = op[d] /\ (task'[d] = task[d] \/ task[d] = Boot)
        BY <1>1, <1>2 DEF Keeps
    <2>2. CASE At(d, "user")
        BY <2>1, <2>2 DEF PagesOK
    <2>3. CASE ~At(d, "user")
        <3>1. task'[d] = task[d] /\ task[d] \in MMS
            BY <2>1, <2>3, Serves, Numbers
        <3>2. Stands(op[d]) \in Holding \cup {"drop"} => pt'[task[d]] = pt[task[d]]
            BY <1>2, <3>1, OwnsAlone DEF Keeps, Writes
        <3>3. op[d].to # Boot => op[d].to \in MMS /\ pt'[op[d].to] = pt[op[d].to]
            BY <1>2, OwnsAlone DEF Keeps, Writes, Control, Shape, OpTyped, OpType, Mms
        <3>4. PagesOK(d) /\ OpOK(d, op[d])
            BY DEF PagesInv, Control, OpInv
        <3> QED
            BY <2>1, <3>1, <3>2, <3>3, <3>4 DEF PagesOK, OpOK, Empty
    <2> QED
        BY <2>2, <2>3
<1>3. ASSUME NEW m \in MMS PROVE Used(m)' \/ \A va \in PAGES : Empty(m, va)'
    <2>1. CASE task[c] = m \/ op[c].to = m
        BY <2>1 DEF Keeps
    <2>2. CASE ~(task[c] = m \/ op[c].to = m)
        <3>1. pt'[m] = pt[m]
            BY <2>2 DEF Keeps, Writes, Owns
        <3>2. Used(m) => Used(m)'
            BY <1>1, <2>2, Numbers DEF Used, Keeps
        <3> QED
            BY <3>1, <3>2 DEF PagesInv, Empty
    <2> QED
        BY <2>1, <2>2
<1> QED
    BY <1>2, <1>3 DEF PagesInv

(* A CPU that keeps its task and its child keeps them in use.              *)
LEMMA StillUsed ==
    ASSUME NEW c \in Cpus, task'[c] = task[c], op[c].to = Boot \/ op'[c].to = op[c].to
    PROVE  \A m \in MMS : task[c] = m \/ op[c].to = m => Used(m)' \/ \A va \in PAGES : Empty(m, va)'
<1>1. SUFFICES ASSUME NEW m \in MMS, task[c] = m \/ op[c].to = m PROVE Used(m)'
    OBVIOUS
<1>2. task'[c] = m \/ op'[c].to = m
    BY <1>1, Numbers
<1> QED
    BY <1>2 DEF Used

(* An entry written to such a page table.                                  *)
LEMMA WritesOwn ==
    ASSUME Control, NEW c \in Cpus, NEW m \in MMS, NEW va, NEW e, SetPte(m, va, e), Owns(c, m)
    PROVE  Writes(c)
    BY DEF Writes, Control, Shape, PtTyped


(* A fault that is refused.                                                *)
LEMMA FaultRefusedPages ==
    ASSUME Control, PagesInv, NEW c \in Cpus, FaultRefused(c)
    PROVE  PagesInv'
<1> DEFINE o == [Handling(c) EXCEPT !.at = "killed"]
<1>1. task[c] \in MMS /\ op[c] \in OpType /\ OpOK(c, op[c]) /\ PagesOK(c)
    BY Serves DEF FaultRefused, Finds, Control, Shape, OpTyped, OpInv, PagesInv
<1>2. op'[c] = o /\ Step(c, o) /\ task' = task
    BY <1>1 DEF FaultRefused, cr3s, Control, Shape, OpTyped
<1>3. Writes(c)
    BY SMTT(60) DEF FaultRefused, Writes
<1>4. PagesOK(c)'
    BY <1>1, <1>2, ZenonT(60) DEF FaultRefused, Finds, Handling, NoOp, PagesOK, Empty, OpType, OpOK
<1>5. op[c].to = Boot \/ op'[c].to = op[c].to
    BY <1>1, <1>2, Numbers DEF FaultRefused, Finds, Handling, NoOp, OpOK, OpType
<1>6. Keeps(c, o)
    BY <1>2, <1>3, <1>5, StillUsed DEF Keeps
<1> QED
    BY <1>4, <1>6, KeepsPages

(* A page filled.                                                          *)
LEMMA FaultFillPages ==
    ASSUME Control, PagesInv, NEW c \in Cpus, FaultFill(c)
    PROVE  PagesInv'
<1> DEFINE o == [Handling(c) EXCEPT !.at = "spin", !.back = "clear"]
<1>1. task[c] \in MMS /\ op[c] \in OpType /\ OpOK(c, op[c]) /\ PagesOK(c)
    BY Serves DEF FaultFill, Finds, Control, Shape, OpTyped, OpInv, PagesInv
<1>2. op'[c] = o /\ Step(c, o) /\ task' = task
    BY <1>1 DEF FaultFill, Invalidate, cr3s, Control, Shape, OpTyped
<1>3. Writes(c)
    <2>1. Owns(c, task[c])
        BY <1>1 DEF FaultFill, Finds, Locked, LockFree, Owns, LockInv, Control
    <2>2. SetPte(task[c], op[c].va, Present(Min(free), vma[task[c]][op[c].va] = "rw", FALSE))
        BY DEF FaultFill, Finds, Locked, LockFree
    <2> QED
        BY <1>1, <2>1, <2>2, WritesOwn
<1>4. PagesOK(c)'
    BY <1>1, <1>2 DEF FaultFill, Finds, Present, Handling, Legal, NoOp, PagesOK, Empty,
       OpType, OpOK, ForkInv, Mms, Control, Shape, PtTyped
<1>5. op[c].to = Boot \/ op'[c].to = op[c].to
    BY <1>1, <1>2, Numbers DEF FaultFill, Finds, Handling, NoOp, OpOK, OpType
<1>6. Keeps(c, o)
    BY <1>2, <1>3, <1>5, StillUsed DEF Keeps
<1> QED
    BY <1>4, <1>6, KeepsPages

(* The memset.                                                             *)
LEMMA FaultClearPages ==
    ASSUME Control, PagesInv, NEW c \in Cpus, FaultClear(c)
    PROVE  PagesInv'
<1> DEFINE o == [op[c] EXCEPT !.at = "unlock"]
<1>1. task[c] \in MMS /\ op[c] \in OpType /\ OpOK(c, op[c]) /\ PagesOK(c)
    BY Serves DEF FaultClear, Control, Shape, OpTyped, OpInv, PagesInv
<1>2. op'[c] = o /\ Step(c, o) /\ task' = task
    BY <1>1 DEF FaultClear, cr3s, Control, Shape, OpTyped
<1>3. Writes(c)
    BY DEF FaultClear, Writes
<1>4. PagesOK(c)'
    BY <1>1, <1>2 DEF FaultClear, PagesOK, Empty, OpType, OpOK
<1>5. op[c].to = Boot \/ op'[c].to = op[c].to
    BY <1>1, <1>2, Numbers DEF FaultClear, OpOK, OpType
<1>6. Keeps(c, o)
    BY <1>2, <1>3, <1>5, StillUsed DEF Keeps
<1> QED
    BY <1>4, <1>6, KeepsPages

(* The last sharer of a page.                                              *)
LEMMA FaultOwnPages ==
    ASSUME Control, PagesInv, NEW c \in Cpus, FaultOwn(c)
    PROVE  PagesInv'
<1> DEFINE o == [Handling(c) EXCEPT !.at = "spin", !.back = "unlock"]
<1>1. task[c] \in MMS /\ op[c] \in OpType /\ OpOK(c, op[c]) /\ PagesOK(c)
    BY Serves DEF FaultOwn, Finds, Control, Shape, OpTyped, OpInv, PagesInv
<1>2. op'[c] = o /\ Step(c, o) /\ task' = task
    BY <1>1 DEF FaultOwn, Invalidate, cr3s, Control, Shape, OpTyped
<1>3. Writes(c)
    <2>1. Owns(c, task[c])
        BY <1>1 DEF FaultOwn, Finds, Locked, LockFree, Owns, LockInv, Control
    <2>2. SetPte(task[c], op[c].va, Present(Pte(task[c], op[c].va).f, TRUE, FALSE))
        BY SMTT(60) DEF FaultOwn, Finds, Locked, LockFree
    <2> QED
        BY <1>1, <2>1, <2>2, WritesOwn
<1>4. PagesOK(c)'
    BY <1>1, <1>2 DEF FaultOwn, Finds, Present, Handling, Legal, NoOp, PagesOK, Empty,
       OpType, OpOK, ForkInv, Mms, Control, Shape, PtTyped
<1>5. op[c].to = Boot \/ op'[c].to = op[c].to
    BY <1>1, <1>2, Numbers DEF FaultOwn, Finds, Handling, NoOp, OpOK, OpType
<1>6. Keeps(c, o)
    BY <1>2, <1>3, <1>5, StillUsed DEF Keeps
<1> QED
    BY <1>4, <1>6, KeepsPages

(* A copy on write.                                                        *)
LEMMA FaultCopyPages ==
    ASSUME Control, PagesInv, NEW c \in Cpus, FaultCopy(c)
    PROVE  PagesInv'
<1> DEFINE o == [Handling(c) EXCEPT !.at = "insert", !.f = Min(free)]
<1>1. task[c] \in MMS /\ op[c] \in OpType /\ OpOK(c, op[c]) /\ PagesOK(c)
    BY Serves DEF FaultCopy, Finds, Control, Shape, OpTyped, OpInv, PagesInv
<1>2. op'[c] = o /\ Step(c, o) /\ task' = task
    BY <1>1 DEF FaultCopy, cr3s, Control, Shape, OpTyped
<1>3. Writes(c)
    BY SMTT(60) DEF FaultCopy, Writes
<1>4. PagesOK(c)'
    BY <1>1, <1>2 DEF FaultCopy, Finds, Handling, NoOp, PagesOK, Empty, OpType, OpOK
<1>5. op[c].to = Boot \/ op'[c].to = op[c].to
    BY <1>1, <1>2, Numbers DEF FaultCopy, Finds, Handling, NoOp, OpOK, OpType
<1>6. Keeps(c, o)
    BY <1>2, <1>3, <1>5, StillUsed DEF Keeps
<1> QED
    BY <1>4, <1>6, KeepsPages

(* page_insert.                                                            *)
LEMMA FaultInsertPages ==
    ASSUME Control, PagesInv, NEW c \in Cpus, FaultInsert(c)
    PROVE  PagesInv'
<1> DEFINE o == [op[c] EXCEPT !.at = "remove"]
<1>1. task[c] \in MMS /\ op[c] \in OpType /\ OpOK(c, op[c]) /\ PagesOK(c)
    BY Serves DEF FaultInsert, Control, Shape, OpTyped, OpInv, PagesInv
<1>2. op'[c] = o /\ Step(c, o) /\ task' = task
    BY <1>1 DEF FaultInsert, cr3s, Control, Shape, OpTyped
<1>3. Writes(c)
    BY DEF FaultInsert, Writes
<1>4. PagesOK(c)'
    BY <1>1, <1>2 DEF FaultInsert, PagesOK, Empty, OpType, OpOK
<1>5. op[c].to = Boot \/ op'[c].to = op[c].to
    BY <1>1, <1>2, Numbers DEF FaultInsert, OpOK, OpType
<1>6. Keeps(c, o)
    BY <1>2, <1>3, <1>5, StillUsed DEF Keeps
<1> QED
    BY <1>4, <1>6, KeepsPages

(* Its page_remove_pte.                                                    *)
LEMMA FaultRemovePages ==
    ASSUME Control, PagesInv, NEW c \in Cpus, FaultRemove(c)
    PROVE  PagesInv'
<1> DEFINE o == [op[c] EXCEPT !.at = "spin", !.back = "map"]
<1>1. task[c] \in MMS /\ op[c] \in OpType /\ OpOK(c, op[c]) /\ PagesOK(c)
    BY Serves DEF FaultRemove, Control, Shape, OpTyped, OpInv, PagesInv
<1>2. op'[c] = o /\ Step(c, o) /\ task' = task
    BY <1>1 DEF FaultRemove, Invalidate, cr3s, Control, Shape, OpTyped
<1>3. Writes(c)
    BY <1>1 DEF FaultRemove, Writes, Owns, LockInv, Control, Shape, PtTyped, OpType, OpOK
<1>4. PagesOK(c)'
    BY <1>1, <1>2 DEF FaultRemove, NoPte, PagesOK, Empty, OpType, OpOK, ForkInv, Mms,
       Control, Shape, PtTyped
<1>5. op[c].to = Boot \/ op'[c].to = op[c].to
    BY <1>1, <1>2, Numbers DEF FaultRemove, OpOK, OpType
<1>6. Keeps(c, o)
    BY <1>2, <1>3, <1>5, StillUsed DEF Keeps
<1> QED
    BY <1>4, <1>6, KeepsPages

(* Its entry.                                                              *)
LEMMA FaultMapPages ==
    ASSUME Control, PagesInv, NEW c \in Cpus, FaultMap(c)
    PROVE  PagesInv'
<1> DEFINE o == [[op[c] EXCEPT !.f = NoFrame] EXCEPT !.at = "spin", !.back = "unlock"]
<1>1. task[c] \in MMS /\ op[c] \in OpType /\ OpOK(c, op[c]) /\ PagesOK(c)
    BY Serves DEF FaultMap, Control, Shape, OpTyped, OpInv, PagesInv
<1>2. op'[c] = o /\ Step(c, o) /\ task' = task
    BY <1>1 DEF FaultMap, Invalidate, cr3s, Control, Shape, OpTyped
<1>3. Writes(c)
    <2>1. Owns(c, task[c])
        BY <1>1 DEF FaultMap, Owns, LockInv, Control
    <2>2. SetPte(task[c], op[c].va, Present(op[c].f, TRUE, FALSE))
        BY DEF FaultMap
    <2> QED
        BY <1>1, <2>1, <2>2, WritesOwn
<1>4. PagesOK(c)'
    BY <1>1, <1>2 DEF FaultMap, Present, PagesOK, Empty, OpType, OpOK, ForkInv, Mms, Control,
       Shape, PtTyped
<1>5. op[c].to = Boot \/ op'[c].to = op[c].to
    BY <1>1, <1>2, Numbers DEF FaultMap, OpOK, OpType
<1>6. Keeps(c, o)
    BY <1>2, <1>3, <1>5, StillUsed DEF Keeps
<1> QED
    BY <1>4, <1>6, KeepsPages

(* unlock_mm.                                                              *)
LEMMA UnlockMmPages ==
    ASSUME Control, PagesInv, NEW c \in Cpus, UnlockMm(c)
    PROVE  PagesInv'
<1> DEFINE o == NoOp
<1>1. task[c] \in MMS /\ op[c] \in OpType /\ OpOK(c, op[c]) /\ PagesOK(c)
    BY Serves DEF UnlockMm, Control, Shape, OpTyped, OpInv, PagesInv
<1>2. op'[c] = o /\ Step(c, o) /\ task' = task
    BY <1>1 DEF UnlockMm, cr3s, Control, Shape, OpTyped
<1>3. Writes(c)
    BY DEF UnlockMm, Writes
<1>4. PagesOK(c)'
    BY <1>1, <1>2 DEF UnlockMm, NoOp, PagesOK, Empty, OpType, OpOK
<1>5. op[c].to = Boot \/ op'[c].to = op[c].to
    BY <1>1, <1>2, Numbers DEF UnlockMm, NoOp, OpOK, OpType
<1>6. Keeps(c, o)
    BY <1>2, <1>3, <1>5, StillUsed DEF Keeps
<1> QED
    BY <1>4, <1>6, KeepsPages

(* The shootdown starts.                                                   *)
LEMMA TlbLockPages ==
    ASSUME Control, PagesInv, NEW c \in Cpus, TlbLock(c)
    PROVE  PagesInv'
<1> DEFINE o == [op[c] EXCEPT !.at = "scan", !.cpus = Cpus \ {c}]
<1>1. task[c] \in MMS /\ op[c] \in OpType /\ OpOK(c, op[c]) /\ PagesOK(c)
    BY Serves DEF TlbLock, Control, Shape, OpTyped, OpInv, PagesInv
<1>2. op'[c] = o /\ Step(c, o) /\ task' = task
    BY <1>1 DEF TlbLock, cr3s, Control, Shape, OpTyped
<1>3. Writes(c)
    BY DEF TlbLock, Writes
<1>4. PagesOK(c)'
    BY <1>1, <1>2 DEF TlbLock, PagesOK, Empty, OpType, OpOK
<1>5. op[c].to = Boot \/ op'[c].to = op[c].to
    BY <1>1, <1>2, Numbers DEF TlbLock, OpOK, OpType
<1>6. Keeps(c, o)
    BY <1>2, <1>3, <1>5, StillUsed DEF Keeps
<1> QED
    BY <1>4, <1>6, KeepsPages

(* A request, or a CPU passed over.                                        *)
LEMMA TlbSendPages ==
    ASSUME Control, PagesInv, NEW c \in Cpus, TlbSend(c)
    PROVE  PagesInv'
<1> DEFINE o == IF pub[Min(op[c].cpus)] = Target(c) THEN [op[c] EXCEPT !.at = "wait"]
                ELSE [op[c] EXCEPT !.cpus = @ \ {Min(op[c].cpus)}]
<1>1. task[c] \in MMS /\ op[c] \in OpType /\ OpOK(c, op[c]) /\ PagesOK(c)
    BY Serves DEF TlbSend, Control, Shape, OpTyped, OpInv, PagesInv
<1>2. op'[c] = o /\ Step(c, o) /\ task' = task
    BY <1>1 DEF TlbSend, cr3s, Control, Shape, OpTyped
<1>3. Writes(c)
    BY DEF TlbSend, Writes
<1>4. PagesOK(c)'
    BY <1>1, <1>2 DEF TlbSend, PagesOK, Empty, OpType, OpOK
<1>5. op[c].to = Boot \/ op'[c].to = op[c].to
    BY <1>1, <1>2, Numbers DEF TlbSend, OpOK, OpType
<1>6. Keeps(c, o)
    BY <1>2, <1>3, <1>5, StillUsed DEF Keeps
<1> QED
    BY <1>4, <1>6, KeepsPages

(* A request that is not delivered.                                        *)
LEMMA TlbSendFailsPages ==
    ASSUME Control, PagesInv, NEW c \in Cpus, TlbSendFails(c)
    PROVE  PagesInv'
<1> DEFINE o == [op[c] EXCEPT !.cpus = @ \ {Min(op[c].cpus)}]
<1>1. task[c] \in MMS /\ op[c] \in OpType /\ OpOK(c, op[c]) /\ PagesOK(c)
    BY Serves DEF TlbSendFails, Control, Shape, OpTyped, OpInv, PagesInv
<1>2. op'[c] = o /\ Step(c, o) /\ task' = task
    BY <1>1 DEF TlbSendFails, cr3s, Control, Shape, OpTyped
<1>3. Writes(c)
    BY DEF TlbSendFails, Writes
<1>4. PagesOK(c)'
    BY <1>1, <1>2 DEF TlbSendFails, PagesOK, Empty, OpType, OpOK
<1>5. op[c].to = Boot \/ op'[c].to = op[c].to
    BY <1>1, <1>2, Numbers DEF TlbSendFails, OpOK, OpType
<1>6. Keeps(c, o)
    BY <1>2, <1>3, <1>5, StillUsed DEF Keeps
<1> QED
    BY <1>4, <1>6, KeepsPages

(* An answer.                                                              *)
LEMMA TlbAcknowledgedPages ==
    ASSUME Control, PagesInv, NEW c \in Cpus, TlbAcknowledged(c)
    PROVE  PagesInv'
<1> DEFINE o == [op[c] EXCEPT !.at = "scan", !.cpus = @ \ {Min(op[c].cpus)}]
<1>1. task[c] \in MMS /\ op[c] \in OpType /\ OpOK(c, op[c]) /\ PagesOK(c)
    BY Serves DEF TlbAcknowledged, Control, Shape, OpTyped, OpInv, PagesInv
<1>2. op'[c] = o /\ Step(c, o) /\ task' = task
    BY <1>1 DEF TlbAcknowledged, cr3s, Control, Shape, OpTyped
<1>3. Writes(c)
    BY DEF TlbAcknowledged, Writes
<1>4. PagesOK(c)'
    BY <1>1, <1>2 DEF TlbAcknowledged, PagesOK, Empty, OpType, OpOK
<1>5. op[c].to = Boot \/ op'[c].to = op[c].to
    BY <1>1, <1>2, Numbers DEF TlbAcknowledged, OpOK, OpType
<1>6. Keeps(c, o)
    BY <1>2, <1>3, <1>5, StillUsed DEF Keeps
<1> QED
    BY <1>4, <1>6, KeepsPages

(* The shootdown ends.                                                     *)
LEMMA TlbUnlockPages ==
    ASSUME Control, PagesInv, NEW c \in Cpus, TlbUnlock(c)
    PROVE  PagesInv'
<1> DEFINE o == [op[c] EXCEPT !.at = op[c].back, !.back = "user"]
<1>1. task[c] \in MMS /\ op[c] \in OpType /\ OpOK(c, op[c]) /\ PagesOK(c)
    BY Serves DEF TlbUnlock, Control, Shape, OpTyped, OpInv, PagesInv
<1>2. op'[c] = o /\ Step(c, o) /\ task' = task
    BY <1>1 DEF TlbUnlock, cr3s, Control, Shape, OpTyped
<1>3. Writes(c)
    BY DEF TlbUnlock, Writes
<1>4. PagesOK(c)'
    BY <1>1, <1>2 DEF TlbUnlock, PagesOK, Empty, OpType, OpOK
<1>5. op[c].to = Boot \/ op'[c].to = op[c].to
    BY <1>1, <1>2, Numbers DEF TlbUnlock, OpOK, OpType
<1>6. Keeps(c, o)
    BY <1>2, <1>3, <1>5, StillUsed DEF Keeps
<1> QED
    BY <1>4, <1>6, KeepsPages

(* copy_range: a page turns COW.                                           *)
LEMMA CopyProtectPages ==
    ASSUME Control, PagesInv, NEW c \in Cpus, CopyProtect(c)
    PROVE  PagesInv'
<1> DEFINE o == [[op[c] EXCEPT !.va = Min(op[c].todo)] EXCEPT !.at = "spin", !.back = "copy"]
<1>1. task[c] \in MMS /\ op[c] \in OpType /\ OpOK(c, op[c]) /\ PagesOK(c)
    BY Serves DEF CopyProtect, Control, Shape, OpTyped, OpInv, PagesInv
<1>2. Min(op[c].todo) \in op[c].todo /\ Min(op[c].todo) \in PAGES
    BY <1>1, MinIn, Numbers DEF CopyProtect, OpType
<1>3. op'[c] = o /\ Step(c, o) /\ task' = task
    BY <1>1, <1>2 DEF CopyProtect, Invalidate, cr3s, Control, Shape, OpTyped
<1>4. Writes(c)
    BY <1>1, <1>2 DEF CopyProtect, Writes, Owns, LockInv, Control, Shape, PtTyped, OpType, OpOK
<1>5. PagesOK(c)'
    BY <1>1, <1>2, <1>3 DEF CopyProtect, PagesOK, Empty, OpType, OpOK, ForkInv, Mms, Control,
       Shape, PtTyped
<1>6. op[c].to = Boot \/ op'[c].to = op[c].to
    BY <1>1, <1>2, <1>3, Numbers DEF CopyProtect, OpOK, OpType
<1>7. Keeps(c, o)
    BY <1>3, <1>4, <1>6, StillUsed DEF Keeps
<1> QED
    BY <1>5, <1>7, KeepsPages

(* copy_range: a page is shared.                                           *)
LEMMA CopySharePages ==
    ASSUME Control, PagesInv, NEW c \in Cpus, CopyShare(c)
    PROVE  PagesInv'
<1> DEFINE o == [op[c] EXCEPT !.todo = @ \ {Min(op[c].todo)}]
<1>1. task[c] \in MMS /\ op[c] \in OpType /\ OpOK(c, op[c]) /\ PagesOK(c)
    BY Serves DEF CopyShare, Control, Shape, OpTyped, OpInv, PagesInv
<1>2. Min(op[c].todo) \in op[c].todo /\ Min(op[c].todo) \in PAGES
    BY <1>1, MinIn, Numbers DEF CopyShare, OpType
<1>3. op'[c] = o /\ Step(c, o) /\ task' = task
    BY <1>1, <1>2 DEF CopyShare, cr3s, Control, Shape, OpTyped
<1>4. Writes(c)
    BY <1>1, <1>2, SMTT(60) DEF CopyShare, Writes, Owns, LockInv, Control, Shape, PtTyped, OpType, OpOK
<1>5. PagesOK(c)'
    BY <1>1, <1>2, <1>3 DEF CopyShare, PagesOK, Empty, OpType, OpOK, ForkInv, Mms, Control,
       Shape, PtTyped
<1>6. op[c].to = Boot \/ op'[c].to = op[c].to
    BY <1>1, <1>2, <1>3, Numbers DEF CopyShare, OpOK, OpType
<1>7. Keeps(c, o)
    BY <1>3, <1>4, <1>6, StillUsed DEF Keeps
<1> QED
    BY <1>5, <1>7, KeepsPages

(* The entry of an unmapped page.                                          *)
LEMMA UnmapClearPages ==
    ASSUME Control, PagesInv, NEW c \in Cpus, UnmapClear(c)
    PROVE  PagesInv'
<1> DEFINE o == [op[c] EXCEPT !.at = "spin", !.back = "unlock"]
<1>1. task[c] \in MMS /\ op[c] \in OpType /\ OpOK(c, op[c]) /\ PagesOK(c)
    BY Serves DEF UnmapClear, Control, Shape, OpTyped, OpInv, PagesInv
<1>2. op'[c] = o /\ Step(c, o) /\ task' = task
    BY <1>1 DEF UnmapClear, Invalidate, cr3s, Control, Shape, OpTyped
<1>3. Writes(c)
    BY <1>1 DEF UnmapClear, Writes, Owns, LockInv, Control, Shape, PtTyped, OpType, OpOK
<1>4. PagesOK(c)'
    BY <1>1, <1>2 DEF UnmapClear, NoPte, PagesOK, Empty, OpType, OpOK, ForkInv, Mms, Control,
       Shape, PtTyped
<1>5. op[c].to = Boot \/ op'[c].to = op[c].to
    BY <1>1, <1>2, Numbers DEF UnmapClear, OpOK, OpType
<1>6. Keeps(c, o)
    BY <1>2, <1>3, <1>5, StillUsed DEF Keeps
<1> QED
    BY <1>4, <1>6, KeepsPages

(* proc_run: the new CR3 is published.                                     *)
LEMMA PublishPages ==
    ASSUME Control, PagesInv, NEW c \in Cpus, Publish(c)
    PROVE  PagesInv'
<1> DEFINE o == NoOp
<1>1. op[c] \in OpType /\ OpOK(c, op[c]) /\ PagesOK(c)
    BY Serves DEF Publish, Control, Shape, OpTyped, OpInv, PagesInv
<1>2. op'[c] = o /\ Step(c, o) /\ task' = task
    BY <1>1 DEF Publish, Control, Shape, OpTyped
<1>3. Writes(c)
    BY DEF Publish, Writes
<1>4. PagesOK(c)'
    BY <1>1, <1>2 DEF Publish, NoOp, PagesOK, Empty, OpType, OpOK
<1>5. op[c].to = Boot \/ op'[c].to = op[c].to
    BY <1>1, <1>2, Numbers DEF Publish, NoOp, OpOK, OpType
<1>6. Keeps(c, o)
    BY <1>2, <1>3, <1>5, StillUsed DEF Keeps
<1> QED
    BY <1>4, <1>6, KeepsPages

(* do_exit.                                                                *)
LEMMA ExitPages ==
    ASSUME Control, PagesInv, NEW c \in Cpus, Exit(c)
    PROVE  PagesInv'
<1> DEFINE o == [op[c] EXCEPT !.at = "leave"]
<1>1. task[c] \in MMS /\ op[c] \in OpType /\ OpOK(c, op[c]) /\ PagesOK(c)
    BY Serves DEF Exit, InUser, Control, Shape, OpTyped, OpInv, PagesInv
<1>2. op'[c] = o /\ Step(c, o) /\ task' = task
    BY <1>1 DEF Exit, Control, Shape, OpTyped
<1>3. Writes(c)
    BY DEF Exit, Writes
<1>4. PagesOK(c)'
    BY <1>1, <1>2 DEF Exit, InUser, PagesOK, Empty, OpType, OpOK
<1>5. op[c].to = Boot \/ op'[c].to = op[c].to
    BY <1>1, <1>2, Numbers DEF Exit, InUser, OpOK, OpType
<1>6. Keeps(c, o)
    BY <1>2, <1>3, <1>5, StillUsed DEF Keeps
<1> QED
    BY <1>4, <1>6, KeepsPages

(* A fork that fails.                                                      *)
LEMMA ForkFailsPages ==
    ASSUME Control, PagesInv, NEW c \in Cpus, ForkFails(c)
    PROVE  PagesInv'
<1> DEFINE o == [op[c] EXCEPT !.at = "undo", !.todo = PAGES]
<1>1. task[c] \in MMS /\ op[c] \in OpType /\ OpOK(c, op[c]) /\ PagesOK(c)
    BY Serves DEF ForkFails, Control, Shape, OpTyped, OpInv, PagesInv
<1>2. op'[c] = o /\ Step(c, o) /\ task' = task
    BY <1>1 DEF ForkFails, cr3s, Control, Shape, OpTyped
<1>3. Writes(c)
    BY DEF ForkFails, Writes
<1>4. PagesOK(c)'
    BY <1>1, <1>2 DEF ForkFails, PagesOK, Empty, OpType, OpOK
<1>5. op[c].to = Boot \/ op'[c].to = op[c].to
    BY <1>1, <1>2, Numbers DEF ForkFails, OpOK, OpType
<1>6. Keeps(c, o)
    BY <1>2, <1>3, <1>5, StillUsed DEF Keeps
<1> QED
    BY <1>4, <1>6, KeepsPages

(* fork.                                                                   *)
LEMMA ForkPages ==
    ASSUME Control, PagesInv, NEW c \in Cpus, NEW m \in MMS, NEW d \in Cpus, Fork(c, m, d)
    PROVE  PagesInv'
<1> DEFINE o == [NoOp EXCEPT !.at = "copy", !.to = m, !.on = d, !.todo = PAGES]
<1>1. task[c] \in MMS /\ op[c] \in OpType /\ OpOK(c, op[c]) /\ PagesOK(c)
    BY Serves DEF Fork, InUser, Control, Shape, OpTyped, OpInv, PagesInv
<1>2. op'[c] = o /\ Step(c, o) /\ task' = task
    BY <1>1 DEF Fork, cr3s, Control, Shape, OpTyped
<1>3. Writes(c)
    BY DEF Fork, Writes
<1>4. PagesOK(c)'
    <2>1. ~Used(m) /\ pt' = pt
        BY DEF Fork, Unused, Used, Tasks
    <2>2. \A va \in PAGES : Empty(m, va)'
        BY <2>1 DEF PagesInv, Empty
    <2>3. o.at = "copy" /\ o.to = m /\ o.todo = PAGES
        BY DEF NoOp
    <2> QED
        BY <1>2, <2>2, <2>3 DEF PagesOK
<1>5. op[c].to = Boot \/ op'[c].to = op[c].to
    BY <1>1, <1>2, Numbers DEF Fork, InUser, NoOp, OpOK, OpType
<1>6. Keeps(c, o)
    BY <1>2, <1>3, <1>5, StillUsed DEF Keeps
<1> QED
    BY <1>4, <1>6, KeepsPages

(* munmap.                                                                 *)
LEMMA UnmapPages ==
    ASSUME Control, PagesInv, NEW c \in Cpus, NEW va \in PAGES, Unmap(c, va)
    PROVE  PagesInv'
<1> DEFINE o == [NoOp EXCEPT !.at = "unmap", !.va = va]
<1>1. task[c] \in MMS /\ op[c] \in OpType /\ OpOK(c, op[c]) /\ PagesOK(c)
    BY Serves DEF Unmap, InUser, Control, Shape, OpTyped, OpInv, PagesInv
<1>2. op'[c] = o /\ Step(c, o) /\ task' = task
    BY <1>1 DEF Unmap, cr3s, Control, Shape, OpTyped
<1>3. Writes(c)
    BY DEF Unmap, Writes
<1>4. PagesOK(c)'
    BY <1>1, <1>2 DEF Unmap, InUser, NoOp, PagesOK, Empty, OpType, OpOK
<1>5. op[c].to = Boot \/ op'[c].to = op[c].to
    BY <1>1, <1>2, Numbers DEF Unmap, InUser, NoOp, OpOK, OpType
<1>6. Keeps(c, o)
    BY <1>2, <1>3, <1>5, StillUsed DEF Keeps
<1> QED
    BY <1>4, <1>6, KeepsPages

(* mmap.                                                                   *)
LEMMA MapPages ==
    ASSUME Control, PagesInv, NEW c \in Cpus, NEW va \in PAGES, Map(c, va)
    PROVE  PagesInv'
<1> DEFINE o == op[c]
<1>1. task[c] \in MMS /\ op[c] \in OpType /\ OpOK(c, op[c]) /\ PagesOK(c)
    BY Serves DEF Map, InUser, Control, Shape, OpTyped, OpInv, PagesInv
<1>2. op'[c] = o /\ Step(c, o) /\ task' = task
    BY <1>1, StandStill DEF Map, cr3s, Control, Shape, OpTyped
<1>3. Writes(c)
    BY DEF Map, Writes
<1>4. PagesOK(c)'
    BY <1>1, <1>2 DEF Map, InUser, PagesOK, Empty, OpType, OpOK
<1>5. op[c].to = Boot \/ op'[c].to = op[c].to
    BY <1>1, <1>2, Numbers DEF Map, InUser, OpOK, OpType
<1>6. Keeps(c, o)
    BY <1>2, <1>3, <1>5, StillUsed DEF Keeps
<1> QED
    BY <1>4, <1>6, KeepsPages

(* proc_run: CR3 is loaded.                                                *)
LEMMA SwitchPages ==
    ASSUME Control, PagesInv, NEW c \in Cpus, NEW from, NEW to,
           <<from, to>> \in {<<task[c], Boot>>, <<Boot, task[c]>>}, Switch(c, from, to)
    PROVE  PagesInv'
<1> DEFINE o == [NoOp EXCEPT !.at = "publish", !.off = TRUE]
<1>1. op[c] \in OpType /\ OpOK(c, op[c]) /\ PagesOK(c)
    BY Serves DEF Switch, Control, Shape, OpTyped, OpInv, PagesInv
<1>2. op'[c] = o /\ Step(c, o) /\ task' = task
    BY <1>1 DEF Switch, Control, Shape, OpTyped
<1>3. Writes(c)
    BY DEF Switch, Writes
<1>4. PagesOK(c)'
    BY <1>1, <1>2 DEF Switch, NoOp, PagesOK, Empty, OpType, OpOK
<1>5. op[c].to = Boot \/ op'[c].to = op[c].to
    BY <1>1, <1>2, Numbers DEF Switch, NoOp, OpOK, OpType
<1>6. Keeps(c, o)
    BY <1>2, <1>3, <1>5, StillUsed DEF Keeps
<1> QED
    BY <1>4, <1>6, KeepsPages

(* proc_run from task to task.                                             *)
LEMMA SwitchToPages ==
    ASSUME Control, PagesInv, NEW c \in Cpus, NEW e \in Cpus, SwitchTo(c, e)
    PROVE  PagesInv'
<1> DEFINE o == [NoOp EXCEPT !.at = "publish", !.off = TRUE]
<1>1. o.at = "publish" /\ o.to = Boot /\ pt' = pt /\ op[c].to = Boot
    BY DEF SwitchTo, InUser, NoOp, Control, OpInv, OpOK
<1>2. op'[c] = o /\ \A x \in Cpus : x # c => op'[x] = op[x]
    BY DEF SwitchTo, Control, Shape, OpTyped
<1>3. /\ task'[e] = task[c] /\ task'[c] = task[e] /\ At(e, "user") /\ c # e
      /\ \A x \in Cpus \ {c, e} : task'[x] = task[x]
    BY DEF SwitchTo, InUser, Control, Shape, RestTyped
<1> HIDE DEF o
<1>4. ASSUME NEW x \in Cpus PROVE PagesOK(x)'
    <2>1. CASE x = c
        BY <1>1, <1>2, <2>1 DEF PagesOK
    <2>2. CASE x = e
        BY <1>2, <1>3, <2>2 DEF PagesOK
    <2>3. CASE x \notin {c, e}
        BY <1>1, <1>2, <1>3, <2>3 DEF PagesInv, PagesOK, Empty
    <2> QED
        BY <2>1, <2>2, <2>3
<1>5. ASSUME NEW m \in MMS, Used(m) PROVE Used(m)'
    <2>1. PICK x \in Cpus : task[x] = m \/ op[x].to = m
        BY <1>5 DEF Used
    <2>2. CASE x = c
        BY <1>1, <1>3, <2>1, <2>2, Numbers DEF Used
    <2>3. CASE x = e
        BY <1>2, <1>3, <2>1, <2>3 DEF Used
    <2>4. CASE x \notin {c, e}
        BY <1>2, <1>3, <2>1, <2>4 DEF Used
    <2> QED
        BY <2>2, <2>3, <2>4
<1> QED
    BY <1>1, <1>4, <1>5 DEF PagesInv, Empty

(* A TLB entry loaded.                                                     *)
LEMMA LoadPages ==
    ASSUME Control, PagesInv, NEW c \in Cpus, NEW va \in PAGES, Load(c, va)
    PROVE  PagesInv'
<1> DEFINE o == op[c]
<1>1. task[c] \in MMS /\ op[c] \in OpType /\ OpOK(c, op[c]) /\ PagesOK(c)
    BY Serves DEF Load, InUser, Control, Shape, OpTyped, OpInv, PagesInv
<1>2. op'[c] = o /\ Step(c, o) /\ task' = task
    BY <1>1, StandStill DEF Load, cr3s, Control, Shape, OpTyped
<1>3. Writes(c)
    BY DEF Load, Writes
<1>4. PagesOK(c)'
    BY <1>1, <1>2 DEF Load, InUser, PagesOK, Empty, OpType, OpOK
<1>5. op[c].to = Boot \/ op'[c].to = op[c].to
    BY <1>1, <1>2, Numbers DEF Load, InUser, OpOK, OpType
<1>6. Keeps(c, o)
    BY <1>2, <1>3, <1>5, StillUsed DEF Keeps
<1> QED
    BY <1>4, <1>6, KeepsPages

(* A store.                                                                *)
LEMMA StorePages ==
    ASSUME Control, PagesInv, NEW c \in Cpus, NEW va \in PAGES, NEW v \in Values, Store(c, va, v)
    PROVE  PagesInv'
<1> DEFINE o == op[c]
<1>1. task[c] \in MMS /\ op[c] \in OpType /\ OpOK(c, op[c]) /\ PagesOK(c)
    BY Serves DEF Store, InUser, Control, Shape, OpTyped, OpInv, PagesInv
<1>2. op'[c] = o /\ Step(c, o) /\ task' = task
    BY <1>1, StandStill DEF Store, cr3s, Control, Shape, OpTyped
<1>3. Writes(c)
    BY DEF Store, Writes
<1>4. PagesOK(c)'
    BY <1>1, <1>2 DEF Store, InUser, PagesOK, Empty, OpType, OpOK
<1>5. op[c].to = Boot \/ op'[c].to = op[c].to
    BY <1>1, <1>2, Numbers DEF Store, InUser, OpOK, OpType
<1>6. Keeps(c, o)
    BY <1>2, <1>3, <1>5, StillUsed DEF Keeps
<1> QED
    BY <1>4, <1>6, KeepsPages

(* A page fault.                                                           *)
LEMMA FaultPages ==
    ASSUME Control, PagesInv, NEW c \in Cpus, NEW va \in PAGES, NEW write \in BOOLEAN,
           Fault(c, va, write)
    PROVE  PagesInv'
<1> DEFINE o == [NoOp EXCEPT !.at = "fault", !.va = va, !.write = write,
                             !.p = (IF Entry(c, va) = {} THEN Walk(task[c], va) ELSE Entry(c, va)) # {}]
<1>1. task[c] \in MMS /\ op[c] \in OpType /\ OpOK(c, op[c]) /\ PagesOK(c)
    BY Serves DEF Fault, InUser, Control, Shape, OpTyped, OpInv, PagesInv
<1>2. op'[c] = o /\ Step(c, o) /\ task' = task
    BY <1>1 DEF Fault, cr3s, Control, Shape, OpTyped
<1>3. Writes(c)
    BY DEF Fault, Writes
<1>4. PagesOK(c)'
    BY <1>1, <1>2 DEF Fault, InUser, NoOp, PagesOK, Empty, OpType, OpOK
<1>5. op[c].to = Boot \/ op'[c].to = op[c].to
    BY <1>1, <1>2, Numbers DEF Fault, InUser, NoOp, OpOK, OpType
<1>6. Keeps(c, o)
    BY <1>2, <1>3, <1>5, StillUsed DEF Keeps
<1> QED
    BY <1>4, <1>6, KeepsPages
(* What leaves page tables, kernel code and tasks alone.                   *)
LEMMA PagesStay ==
    ASSUME PagesInv, UNCHANGED <<pt, op, task>>
    PROVE  PagesInv'
    BY DEF PagesInv, PagesOK, Used, Empty

(* An answer to a shootdown.                                               *)
LEMMA TlbIpiPages ==
    ASSUME PagesInv, NEW c \in Cpus, TlbIpi(c)
    PROVE  PagesInv'
    BY PagesStay DEF TlbIpi, cr3s

(* The child of a fork gets its CPU.                                       *)
LEMMA ForkDonePages ==
    ASSUME Control, PagesInv, NEW c \in Cpus, ForkDone(c)
    PROVE  PagesInv'
<1> DEFINE d == op[c].on
<1>1. task[c] \in MMS /\ op[c] \in OpType /\ OpOK(c, op[c])
    BY Serves DEF ForkDone, Control, Shape, OpTyped, OpInv
<1>2. op'[c] = NoOp /\ Step(c, NoOp)
    BY <1>1 DEF ForkDone, Control, Shape, OpTyped
<1>3. d \in Cpus /\ task[d] = Boot /\ d # c
    BY <1>1, Numbers DEF ForkDone, OpOK, OpType, Control, ForkInv
<1>4. task'[d] = op[c].to /\ \A x \in Cpus : x # d => task'[x] = task[x]
    BY <1>3 DEF ForkDone, Control, Shape, RestTyped
<1>5. PagesOK(c)'
    BY <1>2 DEF PagesOK, NoOp
<1>6. Writes(c)
    BY DEF ForkDone, Writes
<1>7. \A x \in Cpus : x # c => task'[x] = task[x] \/ task[x] = Boot
    BY <1>3, <1>4
<1>8. \A m \in MMS : task[c] = m \/ op[c].to = m => Used(m)'
    BY <1>3, <1>4 DEF Used
<1>9. Keeps(c, NoOp)
    BY <1>2, <1>6, <1>7, <1>8 DEF Keeps
<1> QED
    BY <1>5, <1>9, KeepsPages

(* A fork that failed is taken back page by page.                          *)
LEMMA ForkUndoPages ==
    ASSUME Control, PagesInv, NEW c \in Cpus, ForkUndo(c)
    PROVE  PagesInv'
<1> DEFINE va == Min(op[c].todo)
           m == op[c].to
<1>1. task[c] \in MMS /\ op[c] \in OpType /\ OpOK(c, op[c]) /\ PagesOK(c)
    BY Serves DEF ForkUndo, Control, Shape, OpTyped, OpInv, PagesInv
<1>2. task' = task /\ At(c, "undo") /\ m \in MMS /\ op[c].todo \subseteq PAGES
    BY <1>1 DEF ForkUndo, cr3s, OpOK, OpType, Mms
<1>3. CASE op[c].todo = {}
    <2>1. op'[c] = NoOp /\ Step(c, NoOp) /\ pt' = pt
        BY <1>3 DEF ForkUndo, Control, Shape, OpTyped
    <2>2. \A u \in PAGES : pt'[m][u].kind = "no"
        BY <1>1, <1>2, <1>3, <2>1 DEF PagesOK, Empty
    <2>3. task'[c] = task[c]
        BY <1>2
    <2>4. \A n \in MMS : task[c] = n \/ op[c].to = n => Used(n)' \/ \A u \in PAGES : Empty(n, u)'
        BY <2>2, <2>3 DEF Used, Empty
    <2>5. Keeps(c, NoOp)
        BY <1>2, <2>1, <2>4 DEF Keeps, Writes
    <2>6. PagesOK(c)'
        BY <2>1 DEF PagesOK, NoOp
    <2> QED
        BY <2>5, <2>6, KeepsPages
<1>4. CASE op[c].todo # {}
    <2> DEFINE o == NextOp(c, m, "undo")
    <2>0. UnmapNext(c, m, "undo")
        BY <1>4 DEF ForkUndo
    <2>1. op'[c] = o /\ Step(c, o) /\ SetPte(m, va, NoPte)
        <3>1. Step(c, o)
            BY <1>1, <1>2, <2>0, NextOpIs
        <3> HIDE DEF o
        <3> QED
            BY <1>4, <2>0, <3>1 DEF ForkUndo, UnmapNext, Unmapped, Control, Shape, OpTyped
    <2>2. va \in op[c].todo /\ va \in PAGES
        BY <1>2, <1>4, MinIn, Numbers
    <2>3. Writes(c)
        BY <1>2, <2>1, WritesOwn DEF Owns
    <2>4. Stands(o) = "undo" /\ o.to = m /\ o.todo = op[c].todo \ {va} /\ o.at \in {"undo", "spin"}
        BY <1>1, <1>2, <2>0, NextOpIs
    <2> HIDE DEF o
    <2>5. pt'[m][va].kind = "no" /\ \A u \in PAGES : u # va => pt'[m][u] = pt[m][u]
        BY <1>2, <2>1, <2>2 DEF Control, Shape, PtTyped, NoPte
    <2>6. PagesOK(c)'
        BY <1>1, <1>2, <2>1, <2>4, <2>5 DEF PagesOK, Empty
    <2>7. Keeps(c, o)
        BY <1>2, <2>1, <2>3, <2>4, StillUsed DEF Keeps
    <2> QED
        BY <2>6, <2>7, KeepsPages
<1> QED
    BY <1>3, <1>4

(* An address space that is not one task's has another task.               *)
LEMMA NotSingle ==
    ASSUME NEW c \in Cpus, ~Single(task[c])
    PROVE  \E d \in Cpus : d # c /\ task[d] = task[c]
<1>1. SUFFICES ASSUME \A d \in Cpus : task[d] = task[c] => d = c PROVE FALSE
    OBVIOUS
<1>2. Tasks(task[c]) = {c}
    BY <1>1 DEF Tasks
<1> QED
    BY <1>2, FS_Singleton DEF Single

(* mm_count_dec.                                                           *)
LEMMA ExitCountPages ==
    ASSUME Control, PagesInv, NEW c \in Cpus, ExitCount(c)
    PROVE  PagesInv'
<1>1. task[c] \in MMS /\ op[c] \in OpType /\ OpOK(c, op[c]) /\ At(c, "leave")
    BY Serves DEF ExitCount, Control, Shape, OpTyped, OpInv
<1>2. op[c].to = Boot /\ Writes(c)
    BY <1>1 DEF OpOK, Writes, ExitCount
<1>3. CASE Single(task[c])
    <2> DEFINE o == [op[c] EXCEPT !.at = "drop", !.todo = PAGES]
    <2>1. op'[c] = o /\ Step(c, o) /\ task' = task
        BY <1>3 DEF ExitCount, Control, Shape, OpTyped
    <2>2. o.at = "drop" /\ o.to = Boot /\ o.todo = PAGES
        BY <1>1, <1>2 DEF OpType
    <2>3. PagesOK(c)'
        BY <2>1, <2>2 DEF PagesOK
    <2>4. Keeps(c, o)
        BY <1>2, <2>1, <2>2, StillUsed DEF Keeps
    <2> QED
        BY <2>3, <2>4, KeepsPages
<1>4. CASE ~Single(task[c])
    <2>1. op'[c] = NoOp /\ Step(c, NoOp) /\ \A x \in Cpus : x # c => task'[x] = task[x]
        BY <1>4 DEF ExitCount, Control, Shape, OpTyped, RestTyped
    <2>2. PagesOK(c)'
        BY <2>1 DEF PagesOK, NoOp
    <2>3. \E d \in Cpus : task'[d] = task[c]
        BY <1>4, <2>1, NotSingle
    <2>4. \A n \in MMS : task[c] = n \/ op[c].to = n => Used(n)'
        BY <1>2, <2>3, Numbers DEF Used
    <2>5. Keeps(c, NoOp)
        BY <1>2, <2>1, <2>4 DEF Keeps
    <2> QED
        BY <2>2, <2>5, KeepsPages
<1> QED
    BY <1>3, <1>4

(* exit_mmap, page by page.                                                *)
LEMMA ExitDropPages ==
    ASSUME Control, PagesInv, NEW c \in Cpus, ExitDrop(c)
    PROVE  PagesInv'
<1> DEFINE va == Min(op[c].todo)
           m == task[c]
<1>1. m \in MMS /\ op[c] \in OpType /\ OpOK(c, op[c]) /\ PagesOK(c)
    BY Serves DEF ExitDrop, Control, Shape, OpTyped, OpInv, PagesInv
<1>2. At(c, "drop") /\ op[c].to = Boot /\ op[c].todo \subseteq PAGES
    BY <1>1 DEF ExitDrop, OpOK, OpType
<1>3. CASE op[c].todo = {}
    <2>1. op'[c] = NoOp /\ Step(c, NoOp) /\ pt' = pt /\ \A x \in Cpus : x # c => task'[x] = task[x]
        BY <1>3 DEF ExitDrop, Control, Shape, OpTyped, RestTyped
    <2>2. \A u \in PAGES : pt'[m][u].kind = "no"
        BY <1>1, <1>2, <1>3, <2>1 DEF PagesOK, Empty
    <2>3. \A n \in MMS : task[c] = n \/ op[c].to = n => \A u \in PAGES : Empty(n, u)'
        BY <1>2, <2>2, Numbers DEF Empty
    <2>5. Keeps(c, NoOp)
        BY <2>1, <2>3 DEF Keeps, Writes
    <2>4. PagesOK(c)'
        BY <2>1 DEF PagesOK, NoOp
    <2> QED
        BY <2>4, <2>5, KeepsPages
<1>4. CASE op[c].todo # {}
    <2> DEFINE o == NextOp(c, m, "drop")
    <2>0. UnmapNext(c, m, "drop")
        BY <1>4 DEF ExitDrop
    <2>1. op'[c] = o /\ Step(c, o) /\ SetPte(m, va, NoPte) /\ task' = task
        <3>1. Step(c, o)
            BY <1>1, <1>2, <2>0, NextOpIs
        <3> HIDE DEF o
        <3> QED
            BY <1>4, <2>0, <3>1 DEF ExitDrop, UnmapNext, Unmapped, Control, Shape, OpTyped
    <2>2. va \in op[c].todo /\ va \in PAGES
        BY <1>2, <1>4, MinIn, Numbers
    <2>3. Writes(c)
        BY <1>1, <1>2, <2>1, WritesOwn DEF Owns
    <2>4. Stands(o) = "drop" /\ o.to = Boot /\ o.todo = op[c].todo \ {va} /\ o.at \in {"drop", "spin"}
        BY <1>1, <1>2, <2>0, NextOpIs
    <2> HIDE DEF o
    <2>5. pt'[m][va].kind = "no" /\ \A u \in PAGES : u # va => pt'[m][u] = pt[m][u]
        BY <1>1, <2>1, <2>2 DEF Control, Shape, PtTyped, NoPte
    <2>6. PagesOK(c)'
        BY <1>1, <1>2, <2>1, <2>4, <2>5 DEF PagesOK, Empty
    <2>7. Keeps(c, o)
        BY <1>2, <2>1, <2>3, <2>4, StillUsed DEF Keeps
    <2> QED
        BY <2>6, <2>7, KeepsPages
<1> QED
    BY <1>3, <1>4

(* mprotect.                                                               *)
LEMMA MprotectPages ==
    ASSUME Control, PagesInv, NEW c \in Cpus, NEW va \in PAGES, NEW prot \in Prots,
           Mprotect(c, va, prot)
    PROVE  PagesInv'
<1> DEFINE m == task[c]
           o == [[NoOp EXCEPT !.va = va] EXCEPT !.at = "spin", !.back = "unlock"]
           none == Pte(m, va).kind = "no" \/ (Pte(m, va).kind = "hidden" /\ prot = "none")
<1>1. m \in MMS /\ op[c] \in OpType /\ OpOK(c, op[c]) /\ InUser(c) /\ task' = task
    BY Serves DEF Mprotect, Control, Shape, OpTyped, OpInv, cr3s
<1>2. CASE none
    BY <1>2, PagesStay DEF Mprotect, cr3s
<1>3. CASE ~none
    <2>1. Locked(c, m) /\ SetPte(m, va, Protected(Pte(m, va), prot))
             /\ Invalidate(c, [NoOp EXCEPT !.va = va], m, "unlock")
        BY <1>3 DEF Mprotect
    <2>2. op'[c] = o /\ Step(c, o)
        BY <2>1 DEF Invalidate, Control, Shape, OpTyped
    <2>3. Writes(c)
        BY <1>1, <2>1, WritesOwn DEF Owns, Locked, LockFree
    <2>4. PagesOK(c)'
        BY <2>2 DEF PagesOK, NoOp
    <2>5. op[c].to = Boot
        BY <1>1 DEF InUser, OpOK, NoOp
    <2>6. Keeps(c, o)
        BY <1>1, <2>2, <2>3, <2>5, StillUsed DEF Keeps
    <2> QED
        BY <2>4, <2>6, KeepsPages
<1> QED
    BY <1>2, <1>3

(* At the start only the first address space is in use.                    *)
LEMMA InitPages ==
    ASSUME Init
    PROVE  PagesInv
<1>1. \A c \in Cpus : PagesOK(c)
    BY DEF Init, NoOp, PagesOK
<1>2. PICK c \in FirstTasks : TRUE
    BY VmAssumption
<1>4. c \in Cpus /\ task[c] = FirstMm
    BY VmAssumption DEF Init
<1>3. \A m \in MMS : m = FirstMm \/ \A va \in PAGES : Empty(m, va)
    BY DEF Init, NoPte, Empty
<1> QED
    BY <1>1, <1>3, <1>4 DEF PagesInv, Used

(* Every step keeps the page tables in order.                              *)
LEMMA NextPages ==
    ASSUME Control, PagesInv, Next
    PROVE  PagesInv'
<1>1. PICK c \in Cpus :
        \/ KernelStep(c) \/ TlbIpi(c) \/ ForkFails(c) \/ Call(c)
        \/ /\ c \in Idlers
           /\ Switch(c, task[c], Boot) \/ \E e \in Cpus : SwitchTo(c, e)
        \/ Switch(c, Boot, task[c])
        \/ \E va \in PAGES : Access(c, va)
    BY DEF Next
<1>2. ASSUME FaultStep(c) PROVE PagesInv'
    BY <1>2, FaultRefusedPages, FaultFillPages, FaultClearPages, FaultOwnPages, FaultCopyPages,
       FaultInsertPages, FaultRemovePages, FaultMapPages, UnlockMmPages DEF FaultStep
<1>3. ASSUME TlbStep(c) PROVE PagesInv'
    BY <1>3, TlbLockPages, TlbSendPages, TlbSendFailsPages, TlbAcknowledgedPages, TlbUnlockPages
       DEF TlbStep
<1>4. ASSUME CopyStep(c) PROVE PagesInv'
    BY <1>4, CopyProtectPages, CopySharePages, ForkDonePages, ForkUndoPages DEF CopyStep
<1>5. ASSUME KernelStep(c) PROVE PagesInv'
    BY <1>2, <1>3, <1>4, <1>5, UnmapClearPages, PublishPages, ExitPages, ExitCountPages,
       ExitDropPages DEF KernelStep
<1>6. ASSUME Call(c) PROVE PagesInv'
    BY <1>6, ForkPages, UnmapPages, MapPages, MprotectPages, ExitPages DEF Call
<1>7. ASSUME NEW va \in PAGES, Access(c, va) PROVE PagesInv'
    BY <1>7, LoadPages, StorePages, FaultPages DEF Access
<1>8. ASSUME Switch(c, task[c], Boot) \/ Switch(c, Boot, task[c]) PROVE PagesInv'
    BY <1>8, SwitchPages
<1> QED
    BY <1>1, <1>5, <1>6, <1>7, <1>8, TlbIpiPages, ForkFailsPages, SwitchToPages

-----------------------------------------------------------------------------
(* The accounts of frames: who keeps one in a page table, and who has one  *)
(* in its hand that it has counted.                                        *)
One(p) == IF p THEN 1 ELSE 0
Hold(c) == IF op[c].at = "insert" THEN NoFrame ELSE op[c].f
Keepers(f) == {x \in MMS \X PAGES : Frame(x[1], x[2]) = f}
Holders(f) == {c \in Cpus : Hold(c) = f}

RefExact == \A f \in Frames : ref[f] = Cardinality(Keepers(f)) + Cardinality(Holders(f))
FreeExact == \A f \in Frames : f \in free <=> ref[f] = 0 /\ \A c \in Cpus : op[c].f # f
Accounted == RefExact /\ FreeExact /\ HandInv

SameBut(A, B, x) == A \ {x} = B \ {x}

(* One element more or less.                                               *)
LEMMA OneChange ==
    ASSUME NEW A, NEW B, NEW x, IsFiniteSet(A), IsFiniteSet(B), SameBut(A, B, x)
    PROVE  /\ Cardinality(A) \in Nat /\ Cardinality(B) \in Nat
           /\ Cardinality(B) = Cardinality(A) + One(x \in B) - One(x \in A)
<1>1. /\ Cardinality(A \ {x}) = IF x \in A THEN Cardinality(A) - 1 ELSE Cardinality(A)
      /\ Cardinality(B \ {x}) = IF x \in B THEN Cardinality(B) - 1 ELSE Cardinality(B)
    BY FS_RemoveElement
<1>2. Cardinality(A) \in Nat /\ Cardinality(B) \in Nat
    BY FS_CardinalityType
<1>3. Cardinality(A \ {x}) = Cardinality(B \ {x})
    BY DEF SameBut
<1> QED
    BY <1>1, <1>2, <1>3 DEF One

(* Keepers and holders are finitely many.                                  *)
LEMMA KeepersFinite ==
    ASSUME NEW f
    PROVE  /\ IsFiniteSet(Keepers(f)) /\ IsFiniteSet(Holders(f))
           /\ IsFiniteSet(Keepers(f)') /\ IsFiniteSet(Holders(f)')
           /\ Cardinality(Keepers(f)) \in Nat /\ Cardinality(Holders(f)) \in Nat
           /\ Cardinality(Keepers(f)) <= Cardinality(MMS) * Cardinality(PAGES)
<1>1. IsFiniteSet(MMS \X PAGES) /\ Cardinality(MMS \X PAGES) = Cardinality(MMS) * Cardinality(PAGES)
    BY VmAssumption, FS_Product
<1>2. IsFiniteSet(Cpus)
    BY Numbers, FS_Interval DEF Cpus
<1>3. Keepers(f) \in SUBSET (MMS \X PAGES) /\ Keepers(f)' \in SUBSET (MMS \X PAGES)
    BY DEF Keepers
<1>4. Holders(f) \in SUBSET Cpus /\ Holders(f)' \in SUBSET Cpus
    BY DEF Holders
<1> QED
    BY <1>1, <1>2, <1>3, <1>4, FS_Subset, FS_CardinalityType

(* A step that changes the frame of one page, what one CPU holds, and the  *)
(* counts by just that.                                                    *)
Accounts(c, m, va) ==
    /\ \A n \in MMS, u \in PAGES : (n = m /\ u = va) \/ Frame(n, u)' = Frame(n, u)
    /\ \A d \in Cpus : d # c => op'[d] = op[d]
    /\ \A f \in Frames :
          ref'[f] = ref[f] + One(Frame(m, va)' = f) - One(Frame(m, va) = f)
                           + One(Hold(c)' = f) - One(Hold(c) = f)

(* Then the counts stay exact.                                             *)
LEMMA AccountsRef ==
    ASSUME RefExact, NEW c \in Cpus, NEW m \in MMS, NEW va \in PAGES, Accounts(c, m, va)
    PROVE  RefExact'
<1> SUFFICES ASSUME NEW f \in Frames
             PROVE  ref'[f] = Cardinality(Keepers(f)') + Cardinality(Holders(f)')
    BY DEF RefExact
<1> DEFINE x == <<m, va>>
<1>1. SameBut(Keepers(f), Keepers(f)', x)
    <2>1. ASSUME NEW y \in MMS \X PAGES, y # x PROVE Frame(y[1], y[2])' = Frame(y[1], y[2])
        <3>1. PICK n \in MMS, u \in PAGES : y = <<n, u>>
            OBVIOUS
        <3>2. Frame(n, u)' = Frame(n, u)
            BY <2>1, <3>1 DEF Accounts
        <3> QED
            BY <3>1, <3>2
    <2> QED
        BY <2>1 DEF SameBut, Keepers
<1>2. x \in Keepers(f) <=> Frame(m, va) = f
    BY DEF Keepers
<1>3. x \in Keepers(f)' <=> Frame(m, va)' = f
    BY DEF Keepers
<1>4. SameBut(Holders(f), Holders(f)', c)
    BY DEF SameBut, Holders, Hold, Accounts
<1>5. (c \in Holders(f) <=> Hold(c) = f) /\ (c \in Holders(f)' <=> Hold(c)' = f)
    BY DEF Holders
<1>6. /\ Cardinality(Keepers(f)) \in Nat /\ Cardinality(Keepers(f)') \in Nat
      /\ Cardinality(Keepers(f)') = Cardinality(Keepers(f)) + One(x \in Keepers(f)') - One(x \in Keepers(f))
    <2> HIDE DEF x
    <2> QED
        BY <1>1, KeepersFinite, OneChange
<1>7. /\ Cardinality(Holders(f)) \in Nat /\ Cardinality(Holders(f)') \in Nat
      /\ Cardinality(Holders(f)') = Cardinality(Holders(f)) + One(c \in Holders(f)') - One(c \in Holders(f))
    BY <1>4, KeepersFinite, OneChange
<1>8. /\ One(x \in Keepers(f)') = One(Frame(m, va)' = f) /\ One(x \in Keepers(f)) = One(Frame(m, va) = f)
      /\ One(c \in Holders(f)') = One(Hold(c)' = f) /\ One(c \in Holders(f)) = One(Hold(c) = f)
    BY <1>2, <1>3, <1>5 DEF One
<1>9. \A p : One(p) \in Nat
    BY DEF One
<1>10. ref[f] = Cardinality(Keepers(f)) + Cardinality(Holders(f))
    BY DEF RefExact
<1>11. ref'[f] = ref[f] + One(Frame(m, va)' = f) - One(Frame(m, va) = f)
                        + One(Hold(c)' = f) - One(Hold(c) = f)
    BY DEF Accounts
<1> HIDE DEF x
<1> QED
    BY <1>6, <1>7, <1>8, <1>9, <1>10, <1>11

(* What is kept or held is counted; what is not counted is neither.        *)
LEMMA CountedFrames ==
    ASSUME Accounted, NEW f \in Frames
    PROVE  /\ ref[f] \in Nat
           /\ \A m \in MMS, va \in PAGES : Frame(m, va) = f => ref[f] >= 1 /\ f \notin free
           /\ \A c \in Cpus : Hold(c) = f => ref[f] >= 1
           /\ \A c \in Cpus : op[c].f = f => f \notin free
<1>1. /\ ref[f] = Cardinality(Keepers(f)) + Cardinality(Holders(f))
      /\ Cardinality(Keepers(f)) \in Nat /\ Cardinality(Holders(f)) \in Nat
    BY KeepersFinite DEF Accounted, RefExact
<1>2. ASSUME NEW m \in MMS, NEW va \in PAGES, Frame(m, va) = f PROVE Cardinality(Keepers(f)) # 0
    <2>1. <<m, va>> \in Keepers(f)
        BY <1>2 DEF Keepers
    <2> QED
        BY <2>1, KeepersFinite, FS_EmptySet
<1>3. ASSUME NEW c \in Cpus, Hold(c) = f PROVE Cardinality(Holders(f)) # 0
    <2>1. c \in Holders(f)
        BY <1>3 DEF Holders
    <2> QED
        BY <2>1, KeepersFinite, FS_EmptySet
<1>4. f \in free <=> ref[f] = 0 /\ \A c \in Cpus : op[c].f # f
    BY DEF Accounted, FreeExact
<1> QED
    BY <1>1, <1>2, <1>3, <1>4
-----------------------------------------------------------------------------
(* Which entries are as good as gone.                                      *)
Going == {"remove", "unmap"}
Calm(c, o) ==
    /\ Step(c, o) /\ op[c].at \notin Going /\ o.at \notin Going
    /\ \A d \in Cpus : d # c => task'[d] = task[d] \/ task[d] = Boot
SameEntry(n, u) == pt'[n][u].f = pt[n][u].f /\ (pt'[n][u].kind = "no" <=> pt[n][u].kind = "no")

(* Such a step takes no entry away, and puts none back.                    *)
LEMMA CalmRemoved ==
    ASSUME Control, NEW c \in Cpus, NEW o, Calm(c, o), NEW n \in MMS, NEW u \in PAGES
    PROVE  Removed(n, u)' <=> Removed(n, u)
<1>1. op'[c] = o /\ \A d \in Cpus : d # c => op'[d] = op[d]
    BY DEF Calm, Control, Shape, OpTyped
<1>2. ASSUME NEW d \in Cpus, op[d].at \in Going PROVE d # c /\ task'[d] = task[d]
    BY <1>2, Serves, Numbers DEF Calm, Going
<1>3. ASSUME NEW d \in Cpus, op'[d].at \in Going PROVE d # c /\ op'[d] = op[d]
    BY <1>1, <1>3 DEF Calm
<1> QED
    BY <1>1, <1>2, <1>3 DEF Removed, Tasks, Going

(* Nor does a page get another frame.                                      *)
LEMMA CalmFrame ==
    ASSUME Control, NEW c \in Cpus, NEW o, Calm(c, o), NEW n \in MMS, NEW u \in PAGES,
           SameEntry(n, u)
    PROVE  Frame(n, u)' = Frame(n, u)
<1>1. Removed(n, u)' <=> Removed(n, u)
    BY CalmRemoved
<1>2. Kept(n, u)' <=> Kept(n, u)
    BY <1>1 DEF Kept, Empty, SameEntry
<1> QED
    BY <1>2 DEF Frame, SameEntry

(* Nobody else removes an entry from a page table that a CPU may write.    *)
LEMMA NotRemoved ==
    ASSUME Control, NEW c \in Cpus, NEW m \in MMS, NEW va \in PAGES,
           Owns(c, m), op[c].at \notin Going
    PROVE  ~Removed(m, va)
<1> SUFFICES ASSUME NEW d \in Cpus, task[d] = m, op[d].at \in Going PROVE FALSE
    BY DEF Removed, Tasks, Going
<1>1. d # c
    OBVIOUS
<1> QED
    BY <1>1, OwnsAlone DEF Going

(* Steps of which the accounts see nothing.                                *)
Silent(c, o) ==
    /\ Calm(c, o) /\ UNCHANGED <<ref, free>>
    /\ op[c].at # "insert" /\ o.at # "insert" /\ o.f = op[c].f
    /\ \A n \in MMS, u \in PAGES : SameEntry(n, u)

(* Nothing that the counts depend on changes.                              *)
LEMMA SameAccounts ==
    ASSUME Accounted, UNCHANGED <<ref, free>>,
           \A d \in Cpus : Hold(d)' = Hold(d) /\ op'[d].f = op[d].f,
           \A n \in MMS, u \in PAGES : Frame(n, u)' = Frame(n, u)
    PROVE  Accounted'
<1>1. ASSUME NEW f \in Frames PROVE Keepers(f)' = Keepers(f) /\ Holders(f)' = Holders(f)
    BY DEF Keepers, Holders
<1>2. RefExact'
    BY <1>1 DEF RefExact, Accounted
<1>3. FreeExact'
    BY DEF FreeExact, Accounted
<1>4. HandInv'
    BY DEF HandInv, Accounted
<1> QED
    BY <1>2, <1>3, <1>4 DEF Accounted

(* Such a step changes none of it.                                         *)
LEMMA SilentAccounts ==
    ASSUME Control, Accounted, NEW c \in Cpus, NEW o, Silent(c, o)
    PROVE  Accounted'
<1>1. op'[c] = o /\ \A d \in Cpus : d # c => op'[d] = op[d]
    BY DEF Silent, Calm, Control, Shape, OpTyped
<1>2. \A d \in Cpus : Hold(d)' = Hold(d) /\ op'[d].f = op[d].f
    BY <1>1 DEF Silent, Hold
<1>3. \A n \in MMS, u \in PAGES : Frame(n, u)' = Frame(n, u)
    BY CalmFrame DEF Silent
<1> QED
    BY <1>2, <1>3, SameAccounts DEF Silent

(* A fault that is refused.                                                *)
LEMMA FaultRefusedAccounts ==
    ASSUME Control, PagesInv, Accounted, NEW c \in Cpus, FaultRefused(c)
    PROVE  Accounted'
<1> DEFINE o == [Handling(c) EXCEPT !.at = "killed"]
<1>1. task[c] \in MMS /\ op[c] \in OpType /\ OpOK(c, op[c]) /\ PagesOK(c)
    BY Serves DEF FaultRefused, Finds, Control, Shape, OpTyped, OpInv, PagesInv
<1>2. Step(c, o) /\ UNCHANGED <<ref, free, task>>
    BY DEF FaultRefused, Finds, frames, cr3s
<1>3. /\ op[c].at \notin Going /\ op[c].at # "insert" /\ o.at \notin Going /\ o.at # "insert"
      /\ o.f = op[c].f
    BY <1>1 DEF FaultRefused, Finds, Going, OpOK, OpType, Handling, NoOp
<1>4. \A n \in MMS, u \in PAGES : SameEntry(n, u)
    BY DEF FaultRefused, Finds, SameEntry
<1> HIDE DEF o
<1>5. Silent(c, o)
    BY <1>2, <1>3, <1>4 DEF Silent, Calm
<1> QED
    BY <1>5, SilentAccounts

(* The memset.                                                             *)
LEMMA FaultClearAccounts ==
    ASSUME Control, PagesInv, Accounted, NEW c \in Cpus, FaultClear(c)
    PROVE  Accounted'
<1> DEFINE o == [op[c] EXCEPT !.at = "unlock"]
<1>1. task[c] \in MMS /\ op[c] \in OpType /\ OpOK(c, op[c]) /\ PagesOK(c)
    BY Serves DEF FaultClear, Control, Shape, OpTyped, OpInv, PagesInv
<1>2. Step(c, o) /\ UNCHANGED <<ref, free, task>>
    BY DEF FaultClear, frames, cr3s
<1>3. /\ op[c].at \notin Going /\ op[c].at # "insert" /\ o.at \notin Going /\ o.at # "insert"
      /\ o.f = op[c].f
    BY <1>1 DEF FaultClear, Going, OpOK, OpType
<1>4. \A n \in MMS, u \in PAGES : SameEntry(n, u)
    BY DEF FaultClear, SameEntry
<1> HIDE DEF o
<1>5. Silent(c, o)
    BY <1>2, <1>3, <1>4 DEF Silent, Calm
<1> QED
    BY <1>5, SilentAccounts

(* The last sharer of a page.                                              *)
LEMMA FaultOwnAccounts ==
    ASSUME Control, PagesInv, Accounted, NEW c \in Cpus, FaultOwn(c)
    PROVE  Accounted'
<1> DEFINE o == [Handling(c) EXCEPT !.at = "spin", !.back = "unlock"]
<1>1. task[c] \in MMS /\ op[c] \in OpType /\ OpOK(c, op[c]) /\ PagesOK(c)
    BY Serves DEF FaultOwn, Finds, Control, Shape, OpTyped, OpInv, PagesInv
<1>2. Step(c, o) /\ UNCHANGED <<ref, free, task>>
    BY DEF FaultOwn, Finds, Invalidate, frames, cr3s
<1>3. /\ op[c].at \notin Going /\ op[c].at # "insert" /\ o.at \notin Going /\ o.at # "insert"
      /\ o.f = op[c].f
    BY <1>1 DEF FaultOwn, Finds, Going, OpOK, OpType, Handling, NoOp
<1>4. \A n \in MMS, u \in PAGES : SameEntry(n, u)
    BY <1>1 DEF FaultOwn, Finds, SameEntry, Present, Control, Shape, PtTyped, PteType,
       PagesOK, Empty, OpOK
<1> HIDE DEF o
<1>5. Silent(c, o)
    BY <1>2, <1>3, <1>4 DEF Silent, Calm
<1> QED
    BY <1>5, SilentAccounts

(* unlock_mm.                                                              *)
LEMMA UnlockMmAccounts ==
    ASSUME Control, PagesInv, Accounted, NEW c \in Cpus, UnlockMm(c)
    PROVE  Accounted'
<1> DEFINE o == NoOp
<1>1. task[c] \in MMS /\ op[c] \in OpType /\ OpOK(c, op[c]) /\ PagesOK(c)
    BY Serves DEF UnlockMm, Control, Shape, OpTyped, OpInv, PagesInv
<1>2. Step(c, o) /\ UNCHANGED <<ref, free, task>>
    BY DEF UnlockMm, frames, cr3s
<1>3. /\ op[c].at \notin Going /\ op[c].at # "insert" /\ o.at \notin Going /\ o.at # "insert"
      /\ o.f = op[c].f
    BY <1>1 DEF UnlockMm, Going, OpOK, OpType, NoOp
<1>4. \A n \in MMS, u \in PAGES : SameEntry(n, u)
    BY DEF UnlockMm, SameEntry
<1> HIDE DEF o
<1>5. Silent(c, o)
    BY <1>2, <1>3, <1>4 DEF Silent, Calm
<1> QED
    BY <1>5, SilentAccounts

(* The shootdown starts.                                                   *)
LEMMA TlbLockAccounts ==
    ASSUME Control, PagesInv, Accounted, NEW c \in Cpus, TlbLock(c)
    PROVE  Accounted'
<1> DEFINE o == [op[c] EXCEPT !.at = "scan", !.cpus = Cpus \ {c}]
<1>1. task[c] \in MMS /\ op[c] \in OpType /\ OpOK(c, op[c]) /\ PagesOK(c)
    BY Serves DEF TlbLock, Control, Shape, OpTyped, OpInv, PagesInv
<1>2. Step(c, o) /\ UNCHANGED <<ref, free, task>>
    BY DEF TlbLock, frames, cr3s
<1>3. /\ op[c].at \notin Going /\ op[c].at # "insert" /\ o.at \notin Going /\ o.at # "insert"
      /\ o.f = op[c].f
    BY <1>1 DEF TlbLock, Going, OpOK, OpType
<1>4. \A n \in MMS, u \in PAGES : SameEntry(n, u)
    BY DEF TlbLock, SameEntry
<1> HIDE DEF o
<1>5. Silent(c, o)
    BY <1>2, <1>3, <1>4 DEF Silent, Calm
<1> QED
    BY <1>5, SilentAccounts

(* A request, or a CPU passed over.                                        *)
LEMMA TlbSendAccounts ==
    ASSUME Control, PagesInv, Accounted, NEW c \in Cpus, TlbSend(c)
    PROVE  Accounted'
<1> DEFINE o == IF pub[Min(op[c].cpus)] = Target(c) THEN [op[c] EXCEPT !.at = "wait"]
                ELSE [op[c] EXCEPT !.cpus = @ \ {Min(op[c].cpus)}]
<1>1. task[c] \in MMS /\ op[c] \in OpType /\ OpOK(c, op[c]) /\ PagesOK(c)
    BY Serves DEF TlbSend, Control, Shape, OpTyped, OpInv, PagesInv
<1>2. Step(c, o) /\ UNCHANGED <<ref, free, task>>
    BY DEF TlbSend, frames, cr3s
<1>3. /\ op[c].at \notin Going /\ op[c].at # "insert" /\ o.at \notin Going /\ o.at # "insert"
      /\ o.f = op[c].f
    BY <1>1 DEF TlbSend, Going, OpOK, OpType
<1>4. \A n \in MMS, u \in PAGES : SameEntry(n, u)
    BY DEF TlbSend, SameEntry
<1> HIDE DEF o
<1>5. Silent(c, o)
    BY <1>2, <1>3, <1>4 DEF Silent, Calm
<1> QED
    BY <1>5, SilentAccounts

(* An IPI that is not delivered.                                           *)
LEMMA TlbSendFailsAccounts ==
    ASSUME Control, PagesInv, Accounted, NEW c \in Cpus, TlbSendFails(c)
    PROVE  Accounted'
<1> DEFINE o == [op[c] EXCEPT !.cpus = @ \ {Min(op[c].cpus)}]
<1>1. task[c] \in MMS /\ op[c] \in OpType /\ OpOK(c, op[c]) /\ PagesOK(c)
    BY Serves DEF TlbSendFails, Control, Shape, OpTyped, OpInv, PagesInv
<1>2. Step(c, o) /\ UNCHANGED <<ref, free, task>>
    BY DEF TlbSendFails, frames, cr3s
<1>3. /\ op[c].at \notin Going /\ op[c].at # "insert" /\ o.at \notin Going /\ o.at # "insert"
      /\ o.f = op[c].f
    BY <1>1 DEF TlbSendFails, Going, OpOK, OpType
<1>4. \A n \in MMS, u \in PAGES : SameEntry(n, u)
    BY DEF TlbSendFails, SameEntry
<1> HIDE DEF o
<1>5. Silent(c, o)
    BY <1>2, <1>3, <1>4 DEF Silent, Calm
<1> QED
    BY <1>5, SilentAccounts

(* An answer.                                                              *)
LEMMA TlbAcknowledgedAccounts ==
    ASSUME Control, PagesInv, Accounted, NEW c \in Cpus, TlbAcknowledged(c)
    PROVE  Accounted'
<1> DEFINE o == [op[c] EXCEPT !.at = "scan", !.cpus = @ \ {Min(op[c].cpus)}]
<1>1. task[c] \in MMS /\ op[c] \in OpType /\ OpOK(c, op[c]) /\ PagesOK(c)
    BY Serves DEF TlbAcknowledged, Control, Shape, OpTyped, OpInv, PagesInv
<1>2. Step(c, o) /\ UNCHANGED <<ref, free, task>>
    BY DEF TlbAcknowledged, frames, cr3s
<1>3. /\ op[c].at \notin Going /\ op[c].at # "insert" /\ o.at \notin Going /\ o.at # "insert"
      /\ o.f = op[c].f
    BY <1>1 DEF TlbAcknowledged, Going, OpOK, OpType
<1>4. \A n \in MMS, u \in PAGES : SameEntry(n, u)
    BY DEF TlbAcknowledged, SameEntry
<1> HIDE DEF o
<1>5. Silent(c, o)
    BY <1>2, <1>3, <1>4 DEF Silent, Calm
<1> QED
    BY <1>5, SilentAccounts

(* The shootdown ends.                                                     *)
LEMMA TlbUnlockAccounts ==
    ASSUME Control, PagesInv, Accounted, NEW c \in Cpus, TlbUnlock(c)
    PROVE  Accounted'
<1> DEFINE o == [op[c] EXCEPT !.at = op[c].back, !.back = "user"]
<1>1. task[c] \in MMS /\ op[c] \in OpType /\ OpOK(c, op[c]) /\ PagesOK(c)
    BY Serves DEF TlbUnlock, Control, Shape, OpTyped, OpInv, PagesInv
<1>2. Step(c, o) /\ UNCHANGED <<ref, free, task>>
    BY DEF TlbUnlock, frames, cr3s
<1>3. /\ op[c].at \notin Going /\ op[c].at # "insert" /\ o.at \notin Going /\ o.at # "insert"
      /\ o.f = op[c].f
    BY <1>1 DEF TlbUnlock, Going, OpOK, OpType
<1>4. \A n \in MMS, u \in PAGES : SameEntry(n, u)
    BY DEF TlbUnlock, SameEntry
<1> HIDE DEF o
<1>5. Silent(c, o)
    BY <1>2, <1>3, <1>4 DEF Silent, Calm
<1> QED
    BY <1>5, SilentAccounts

(* copy_range: a page turns COW.                                           *)
LEMMA CopyProtectAccounts ==
    ASSUME Control, PagesInv, Accounted, NEW c \in Cpus, CopyProtect(c)
    PROVE  Accounted'
<1> DEFINE o == [[op[c] EXCEPT !.va = Min(op[c].todo)] EXCEPT !.at = "spin", !.back = "copy"]
<1>1. task[c] \in MMS /\ op[c] \in OpType /\ OpOK(c, op[c]) /\ PagesOK(c)
    BY Serves DEF CopyProtect, Control, Shape, OpTyped, OpInv, PagesInv
<1>2. Step(c, o) /\ UNCHANGED <<ref, free, task>>
    BY DEF CopyProtect, Invalidate, frames, cr3s
<1>3. /\ op[c].at \notin Going /\ op[c].at # "insert" /\ o.at \notin Going /\ o.at # "insert"
      /\ o.f = op[c].f
    BY <1>1 DEF CopyProtect, Going, OpOK, OpType
<1>4. \A n \in MMS, u \in PAGES : SameEntry(n, u)
    BY <1>1 DEF CopyProtect, SameEntry, Present, Control, Shape, PtTyped, PteType, PagesOK,
       Empty, OpOK
<1> HIDE DEF o
<1>5. Silent(c, o)
    BY <1>2, <1>3, <1>4 DEF Silent, Calm
<1> QED
    BY <1>5, SilentAccounts

(* proc_run: the new CR3 is published.                                     *)
LEMMA PublishAccounts ==
    ASSUME Control, PagesInv, Accounted, NEW c \in Cpus, Publish(c)
    PROVE  Accounted'
<1> DEFINE o == NoOp
<1>1. op[c] \in OpType /\ OpOK(c, op[c]) /\ PagesOK(c)
    BY Serves DEF Publish, Control, Shape, OpTyped, OpInv, PagesInv
<1>2. Step(c, o) /\ UNCHANGED <<ref, free, task>>
    BY DEF Publish, frames, cr3s
<1>3. /\ op[c].at \notin Going /\ op[c].at # "insert" /\ o.at \notin Going /\ o.at # "insert"
      /\ o.f = op[c].f
    BY <1>1 DEF Publish, Going, OpOK, OpType, NoOp
<1>4. \A n \in MMS, u \in PAGES : SameEntry(n, u)
    BY DEF Publish, SameEntry
<1> HIDE DEF o
<1>5. Silent(c, o)
    BY <1>2, <1>3, <1>4 DEF Silent, Calm
<1> QED
    BY <1>5, SilentAccounts

(* do_exit.                                                                *)
LEMMA ExitAccounts ==
    ASSUME Control, PagesInv, Accounted, NEW c \in Cpus, Exit(c)
    PROVE  Accounted'
<1> DEFINE o == [op[c] EXCEPT !.at = "leave"]
<1>1. task[c] \in MMS /\ op[c] \in OpType /\ OpOK(c, op[c]) /\ PagesOK(c)
    BY Serves DEF Exit, InUser, Control, Shape, OpTyped, OpInv, PagesInv
<1>2. Step(c, o) /\ UNCHANGED <<ref, free, task>>
    BY DEF Exit, InUser, frames, cr3s
<1>3. /\ op[c].at \notin Going /\ op[c].at # "insert" /\ o.at \notin Going /\ o.at # "insert"
      /\ o.f = op[c].f
    BY <1>1 DEF Exit, InUser, Going, OpOK, OpType
<1>4. \A n \in MMS, u \in PAGES : SameEntry(n, u)
    BY DEF Exit, InUser, SameEntry
<1> HIDE DEF o
<1>5. Silent(c, o)
    BY <1>2, <1>3, <1>4 DEF Silent, Calm
<1> QED
    BY <1>5, SilentAccounts

(* A fork that fails.                                                      *)
LEMMA ForkFailsAccounts ==
    ASSUME Control, PagesInv, Accounted, NEW c \in Cpus, ForkFails(c)
    PROVE  Accounted'
<1> DEFINE o == [op[c] EXCEPT !.at = "undo", !.todo = PAGES]
<1>1. task[c] \in MMS /\ op[c] \in OpType /\ OpOK(c, op[c]) /\ PagesOK(c)
    BY Serves DEF ForkFails, Control, Shape, OpTyped, OpInv, PagesInv
<1>2. Step(c, o) /\ UNCHANGED <<ref, free, task>>
    BY DEF ForkFails, frames, cr3s
<1>3. /\ op[c].at \notin Going /\ op[c].at # "insert" /\ o.at \notin Going /\ o.at # "insert"
      /\ o.f = op[c].f
    BY <1>1 DEF ForkFails, Going, OpOK, OpType
<1>4. \A n \in MMS, u \in PAGES : SameEntry(n, u)
    BY DEF ForkFails, SameEntry
<1> HIDE DEF o
<1>5. Silent(c, o)
    BY <1>2, <1>3, <1>4 DEF Silent, Calm
<1> QED
    BY <1>5, SilentAccounts

(* fork.                                                                   *)
LEMMA ForkAccounts ==
    ASSUME Control, PagesInv, Accounted, NEW c \in Cpus, NEW m \in MMS, NEW d \in Cpus,
           Fork(c, m, d)
    PROVE  Accounted'
<1> DEFINE o == [NoOp EXCEPT !.at = "copy", !.to = m, !.on = d, !.todo = PAGES]
<1>1. task[c] \in MMS /\ op[c] \in OpType /\ OpOK(c, op[c]) /\ PagesOK(c)
    BY Serves DEF Fork, InUser, Control, Shape, OpTyped, OpInv, PagesInv
<1>2. Step(c, o) /\ UNCHANGED <<ref, free, task>>
    BY DEF Fork, InUser, frames, cr3s
<1>3. /\ op[c].at \notin Going /\ op[c].at # "insert" /\ o.at \notin Going /\ o.at # "insert"
      /\ o.f = op[c].f
    BY <1>1 DEF Fork, InUser, Going, OpOK, OpType, NoOp
<1>4. \A n \in MMS, u \in PAGES : SameEntry(n, u)
    BY DEF Fork, InUser, SameEntry
<1> HIDE DEF o
<1>5. Silent(c, o)
    BY <1>2, <1>3, <1>4 DEF Silent, Calm
<1> QED
    BY <1>5, SilentAccounts

(* mmap.                                                                   *)
LEMMA MapAccounts ==
    ASSUME Control, PagesInv, Accounted, NEW c \in Cpus, NEW va \in PAGES, Map(c, va)
    PROVE  Accounted'
<1> DEFINE o == op[c]
<1>1. task[c] \in MMS /\ op[c] \in OpType /\ OpOK(c, op[c]) /\ PagesOK(c)
    BY Serves DEF Map, InUser, Control, Shape, OpTyped, OpInv, PagesInv
<1>2. Step(c, o) /\ UNCHANGED <<ref, free, task>>
    BY StandStill DEF Map, InUser, frames, cr3s
<1>3. /\ op[c].at \notin Going /\ op[c].at # "insert" /\ o.at \notin Going /\ o.at # "insert"
      /\ o.f = op[c].f
    BY <1>1 DEF Map, InUser, Going, OpOK, OpType
<1>4. \A n \in MMS, u \in PAGES : SameEntry(n, u)
    BY DEF Map, InUser, SameEntry
<1> HIDE DEF o
<1>5. Silent(c, o)
    BY <1>2, <1>3, <1>4 DEF Silent, Calm
<1> QED
    BY <1>5, SilentAccounts

(* proc_run: CR3 is loaded.                                                *)
LEMMA SwitchAccounts ==
    ASSUME Control, PagesInv, Accounted, NEW c \in Cpus, NEW from, NEW to,
           <<from, to>> \in {<<task[c], Boot>>, <<Boot, task[c]>>}, Switch(c, from, to)
    PROVE  Accounted'
<1> DEFINE o == [NoOp EXCEPT !.at = "publish", !.off = TRUE]
<1>1. op[c] \in OpType /\ OpOK(c, op[c]) /\ PagesOK(c)
    BY Serves DEF Switch, Control, Shape, OpTyped, OpInv, PagesInv
<1>2. Step(c, o) /\ UNCHANGED <<ref, free, task>>
    BY DEF Switch, frames, cr3s
<1>3. /\ op[c].at \notin Going /\ op[c].at # "insert" /\ o.at \notin Going /\ o.at # "insert"
      /\ o.f = op[c].f
    BY <1>1 DEF Switch, Going, OpOK, OpType, NoOp
<1>4. \A n \in MMS, u \in PAGES : SameEntry(n, u)
    BY DEF Switch, SameEntry
<1> HIDE DEF o
<1>5. Silent(c, o)
    BY <1>2, <1>3, <1>4 DEF Silent, Calm
<1> QED
    BY <1>5, SilentAccounts

(* From task to task: neither CPU is removing an entry.                    *)
LEMMA SwitchToAccounts ==
    ASSUME Control, PagesInv, Accounted, NEW c \in Cpus, NEW e \in Cpus, SwitchTo(c, e)
    PROVE  Accounted'
<1> DEFINE o == [NoOp EXCEPT !.at = "publish", !.off = TRUE]
<1>1. o.at = "publish" /\ o.f = NoFrame /\ op[c].at = "user" /\ op[c].f = NoFrame
    BY DEF SwitchTo, InUser, NoOp, Control, OpInv, OpOK
<1>2. op'[c] = o /\ \A x \in Cpus : x # c => op'[x] = op[x]
    BY DEF SwitchTo, Control, Shape, OpTyped
<1>3. op[e].at = "user" /\ c # e /\ \A x \in Cpus \ {c, e} : task'[x] = task[x]
    BY DEF SwitchTo, InUser, At, Control, Shape, RestTyped
<1>4. UNCHANGED <<ref, free, pt>>
    BY DEF SwitchTo, frames
<1> HIDE DEF o
<1>5. \A x \in Cpus : Hold(x)' = Hold(x) /\ op'[x].f = op[x].f
    BY <1>1, <1>2 DEF Hold
<1>6. ASSUME NEW n \in MMS, NEW u \in PAGES PROVE Removed(n, u)' <=> Removed(n, u)
    BY <1>1, <1>2, <1>3 DEF Removed, Tasks
<1>7. \A n \in MMS, u \in PAGES : Frame(n, u)' = Frame(n, u)
    BY <1>4, <1>6 DEF Frame, Kept, Empty
<1> QED
    BY <1>4, <1>5, <1>7, SameAccounts

(* A TLB entry loaded.                                                     *)
LEMMA LoadAccounts ==
    ASSUME Control, PagesInv, Accounted, NEW c \in Cpus, NEW va \in PAGES, Load(c, va)
    PROVE  Accounted'
<1> DEFINE o == op[c]
<1>1. task[c] \in MMS /\ op[c] \in OpType /\ OpOK(c, op[c]) /\ PagesOK(c)
    BY Serves DEF Load, InUser, Control, Shape, OpTyped, OpInv, PagesInv
<1>2. Step(c, o) /\ UNCHANGED <<ref, free, task>>
    BY StandStill DEF Load, InUser, frames, cr3s
<1>3. /\ op[c].at \notin Going /\ op[c].at # "insert" /\ o.at \notin Going /\ o.at # "insert"
      /\ o.f = op[c].f
    BY <1>1 DEF Load, InUser, Going, OpOK, OpType
<1>4. \A n \in MMS, u \in PAGES : SameEntry(n, u)
    BY DEF Load, InUser, SameEntry
<1> HIDE DEF o
<1>5. Silent(c, o)
    BY <1>2, <1>3, <1>4 DEF Silent, Calm
<1> QED
    BY <1>5, SilentAccounts

(* A store.                                                                *)
LEMMA StoreAccounts ==
    ASSUME Control, PagesInv, Accounted, NEW c \in Cpus, NEW va \in PAGES, NEW v \in Values,
           Store(c, va, v)
    PROVE  Accounted'
<1> DEFINE o == op[c]
<1>1. task[c] \in MMS /\ op[c] \in OpType /\ OpOK(c, op[c]) /\ PagesOK(c)
    BY Serves DEF Store, InUser, Control, Shape, OpTyped, OpInv, PagesInv
<1>2. Step(c, o) /\ UNCHANGED <<ref, free, task>>
    BY StandStill DEF Store, InUser, frames, cr3s
<1>3. /\ op[c].at \notin Going /\ op[c].at # "insert" /\ o.at \notin Going /\ o.at # "insert"
      /\ o.f = op[c].f
    BY <1>1 DEF Store, InUser, Going, OpOK, OpType
<1>4. \A n \in MMS, u \in PAGES : SameEntry(n, u)
    BY DEF Store, InUser, SameEntry
<1> HIDE DEF o
<1>5. Silent(c, o)
    BY <1>2, <1>3, <1>4 DEF Silent, Calm
<1> QED
    BY <1>5, SilentAccounts

(* A page fault.                                                           *)
LEMMA FaultAccounts ==
    ASSUME Control, PagesInv, Accounted, NEW c \in Cpus, NEW va \in PAGES, NEW write \in BOOLEAN,
           Fault(c, va, write)
    PROVE  Accounted'
<1> DEFINE o == [NoOp EXCEPT !.at = "fault", !.va = va, !.write = write,
                             !.p = (IF Entry(c, va) = {} THEN Walk(task[c], va) ELSE Entry(c, va)) # {}]
<1>1. task[c] \in MMS /\ op[c] \in OpType /\ OpOK(c, op[c]) /\ PagesOK(c)
    BY Serves DEF Fault, InUser, Control, Shape, OpTyped, OpInv, PagesInv
<1>2. Step(c, o) /\ UNCHANGED <<ref, free, task>>
    BY DEF Fault, InUser, frames, cr3s
<1>3. /\ op[c].at \notin Going /\ op[c].at # "insert" /\ o.at \notin Going /\ o.at # "insert"
      /\ o.f = op[c].f
    BY <1>1 DEF Fault, InUser, Going, OpOK, OpType, NoOp
<1>4. \A n \in MMS, u \in PAGES : SameEntry(n, u)
    BY DEF Fault, InUser, SameEntry
<1> HIDE DEF o
<1>5. Silent(c, o)
    BY <1>2, <1>3, <1>4 DEF Silent, Calm
<1> QED
    BY <1>5, SilentAccounts

(* An answer to a shootdown.                                               *)
LEMMA TlbIpiAccounts ==
    ASSUME Control, PagesInv, Accounted, NEW c \in Cpus, TlbIpi(c)
    PROVE  Accounted'
    BY SameAccounts DEF TlbIpi, frames, cr3s, Hold, Frame, Kept, Empty, Removed, Tasks

(* The child of a fork gets its CPU.                                       *)
LEMMA ForkDoneAccounts ==
    ASSUME Control, PagesInv, Accounted, NEW c \in Cpus, ForkDone(c)
    PROVE  Accounted'
<1>1. task[c] \in MMS /\ op[c] \in OpType /\ OpOK(c, op[c]) /\ op[c].on \in Cpus /\ task[op[c].on] = Boot
    BY Serves, Numbers DEF ForkDone, Control, Shape, OpTyped, OpInv, OpOK, OpType, ForkInv
<1>2. \A d \in Cpus : d # c => task'[d] = task[d] \/ task[d] = Boot
    BY <1>1 DEF ForkDone, Control, Shape, RestTyped
<1>3. Calm(c, NoOp) /\ UNCHANGED <<ref, free, pt>> /\ op[c].at # "insert"
    BY <1>2 DEF ForkDone, Calm, Going, NoOp, frames
<1>4. NoOp.f = op[c].f /\ NoOp.at # "insert"
    BY <1>1 DEF NoOp, OpOK, ForkDone
<1>5. Silent(c, NoOp)
    BY <1>3, <1>4 DEF Silent, SameEntry
<1> QED
    BY <1>5, SilentAccounts

(* mm_count_dec.                                                           *)
LEMMA ExitCountAccounts ==
    ASSUME Control, PagesInv, Accounted, NEW c \in Cpus, ExitCount(c)
    PROVE  Accounted'
<1>1. op[c] \in OpType /\ OpOK(c, op[c]) /\ At(c, "leave") /\ op[c].f = NoFrame
    BY DEF ExitCount, Control, Shape, OpTyped, OpInv, OpOK
<1>2. \A d \in Cpus : d # c => task'[d] = task[d]
    BY DEF ExitCount, Control, Shape, RestTyped
<1>3. \E o : Step(c, o) /\ o.at \notin Going /\ o.at # "insert" /\ o.f = NoFrame
    <2>1. CASE Single(task[c])
        <3> DEFINE o == [op[c] EXCEPT !.at = "drop", !.todo = PAGES]
        <3>1. Step(c, o)
            BY <2>1 DEF ExitCount
        <3>2. o.at \notin Going /\ o.at # "insert" /\ o.f = NoFrame
            BY <1>1 DEF OpType, Going
        <3> QED
            BY <3>1, <3>2
    <2>2. CASE ~Single(task[c])
        <3>1. Step(c, NoOp)
            BY <2>2 DEF ExitCount
        <3>2. NoOp.at \notin Going /\ NoOp.at # "insert" /\ NoOp.f = NoFrame
            BY DEF NoOp, Going
        <3> QED
            BY <3>1, <3>2
    <2> QED
        BY <2>1, <2>2
<1>4. PICK o : Step(c, o) /\ o.at \notin Going /\ o.at # "insert" /\ o.f = NoFrame
    BY <1>3
<1>5. UNCHANGED <<ref, free, pt>>
    BY DEF ExitCount, frames
<1>6. Silent(c, o)
    BY <1>1, <1>2, <1>4, <1>5 DEF Silent, Calm, SameEntry, Going
<1> QED
    BY <1>6, SilentAccounts

(* mprotect.                                                               *)
LEMMA MprotectAccounts ==
    ASSUME Control, PagesInv, Accounted, NEW c \in Cpus, NEW va \in PAGES, NEW prot \in Prots,
           Mprotect(c, va, prot)
    PROVE  Accounted'
<1> DEFINE o == [[NoOp EXCEPT !.va = va] EXCEPT !.at = "spin", !.back = "unlock"]
           none == Pte(task[c], va).kind = "no" \/ (Pte(task[c], va).kind = "hidden" /\ prot = "none")
<1>1. task[c] \in MMS /\ OpOK(c, op[c]) /\ InUser(c) /\ UNCHANGED <<ref, free, task>>
    BY Serves DEF Mprotect, Control, OpInv, frames, cr3s
<1>2. CASE none
    <2>1. UNCHANGED <<pt, op>>
        BY <1>2 DEF Mprotect
    <2> QED
        BY <1>1, <2>1, SameAccounts DEF Hold, Frame, Kept, Empty, Removed, Tasks
<1>3. CASE ~none
    <2>1. SetPte(task[c], va, Protected(Pte(task[c], va), prot)) /\ Step(c, o)
        BY <1>3 DEF Mprotect, Invalidate
    <2>2. \A n \in MMS, u \in PAGES : SameEntry(n, u)
        BY <1>1, <1>3, <2>1 DEF SameEntry, Protected, Restored, Present, Control, Shape,
           PtTyped, PteType
    <2>3. op[c].at = "user" /\ op[c].f = o.f /\ o.at = "spin"
        BY <1>1 DEF InUser, OpOK, NoOp
    <2> HIDE DEF o
    <2>4. Silent(c, o)
        BY <1>1, <2>1, <2>2, <2>3 DEF Silent, Calm, Going
    <2> QED
        BY <2>4, SilentAccounts
<1> QED
    BY <1>2, <1>3

(* A step that takes an entry away for good, or is about to, touches no    *)
(* other entry.                                                            *)
Aims(c, o, m, va) ==
    /\ Step(c, o) /\ task' = task
    /\ op[c].at \in Going => task[c] = m /\ op[c].va = va
    /\ o.at \in Going => task[c] = m /\ o.va = va

(* The other pages keep their frames.                                      *)
LEMMA ElseFrame ==
    ASSUME Control, NEW c \in Cpus, NEW o, NEW m \in MMS, NEW va \in PAGES, Aims(c, o, m, va),
           NEW n \in MMS, NEW u \in PAGES, ~(n = m /\ u = va), SameEntry(n, u)
    PROVE  Frame(n, u)' = Frame(n, u)
<1>1. op'[c] = o /\ \A d \in Cpus : d # c => op'[d] = op[d]
    BY DEF Aims, Control, Shape, OpTyped
<1>2. Removed(n, u)' <=> Removed(n, u)
    BY <1>1 DEF Removed, Tasks, Going, Aims
<1>3. Kept(n, u)' <=> Kept(n, u)
    BY <1>2 DEF Kept, Empty, SameEntry
<1> QED
    BY <1>3 DEF Frame, SameEntry

(* An entry that is as good as gone goes.                                  *)
Clears(c) == SetPte(task[c], op[c].va, NoPte)

(* The entry that was given up is cleared: the counts know already.        *)
LEMMA GoneAccounts ==
    ASSUME Control, Accounted, NEW c \in Cpus, NEW o, Step(c, o), UNCHANGED <<task, ref, free>>,
           op[c].at \in Going, o.at \notin Going, o.at # "insert", o.f = op[c].f,
           task[c] \in MMS, op[c].va \in PAGES, Clears(c)
    PROVE  Accounted'
<1>1. PICK m \in MMS, va \in PAGES : m = task[c] /\ va = op[c].va
    OBVIOUS
<1>2. op'[c] = o /\ \A d \in Cpus : d # c => op'[d] = op[d]
    BY DEF Control, Shape, OpTyped
<1>3. pt'[m][va].kind = "no" /\ \A n \in MMS, u \in PAGES : (n = m /\ u = va) \/ SameEntry(n, u)
    BY <1>1 DEF Clears, SameEntry, NoPte, Control, Shape, PtTyped
<1>4. ASSUME NEW n \in MMS, NEW u \in PAGES, ~(n = m /\ u = va) PROVE Frame(n, u)' = Frame(n, u)
    <2>1. SameEntry(n, u) /\ Aims(c, o, m, va)
        BY <1>1, <1>3, <1>4 DEF Aims
    <2> QED
        BY <1>4, <2>1, ElseFrame
<1>5. Frame(m, va) = NoFrame /\ Frame(m, va)' = NoFrame
    BY <1>1, <1>3 DEF Frame, Kept, Removed, Tasks, Going, Empty
<1>6. \A n \in MMS, u \in PAGES : Frame(n, u)' = Frame(n, u)
    BY <1>4, <1>5
<1>7. \A d \in Cpus : Hold(d)' = Hold(d) /\ op'[d].f = op[d].f
    BY <1>2 DEF Hold, Going
<1> QED
    BY <1>6, <1>7, SameAccounts

(* page_remove_pte of a page that is copied.                               *)
LEMMA FaultRemoveAccounts ==
    ASSUME Control, PagesInv, Accounted, NEW c \in Cpus, FaultRemove(c)
    PROVE  Accounted'
<1> DEFINE o == [op[c] EXCEPT !.at = "spin", !.back = "map"]
<1>1. task[c] \in MMS /\ op[c] \in OpType /\ OpOK(c, op[c])
    BY Serves DEF FaultRemove, Control, Shape, OpTyped, OpInv
<1>2. Step(c, o) /\ UNCHANGED <<task, ref, free>> /\ Clears(c)
    BY DEF Clears, FaultRemove, Invalidate, frames, cr3s
<1>3. o.at = "spin" /\ o.f = op[c].f /\ op[c].at \in Going /\ op[c].va \in PAGES
    BY <1>1 DEF FaultRemove, OpType, Going, OpOK
<1> HIDE DEF o
<1> QED
    BY <1>1, <1>2, <1>3, GoneAccounts DEF Going

(* munmap: the entry goes.                                                 *)
LEMMA UnmapClearAccounts ==
    ASSUME Control, PagesInv, Accounted, NEW c \in Cpus, UnmapClear(c)
    PROVE  Accounted'
<1> DEFINE o == [op[c] EXCEPT !.at = "spin", !.back = "unlock"]
<1>1. task[c] \in MMS /\ op[c] \in OpType /\ OpOK(c, op[c])
    BY Serves DEF UnmapClear, Control, Shape, OpTyped, OpInv
<1>2. Step(c, o) /\ UNCHANGED <<task, ref, free>> /\ Clears(c)
    BY DEF Clears, UnmapClear, Invalidate, frames, cr3s
<1>3. o.at = "spin" /\ o.f = op[c].f /\ op[c].at \in Going /\ op[c].va \in PAGES
    BY <1>1 DEF UnmapClear, OpType, Going, OpOK
<1> HIDE DEF o
<1> QED
    BY <1>1, <1>2, <1>3, GoneAccounts DEF Going

(* A frame that somebody kept is dropped.                                  *)
LEMMA DropAccounts ==
    ASSUME Control, Accounted, NEW c \in Cpus, NEW m \in MMS, NEW va \in PAGES, NEW f \in Frames,
           \A n \in MMS, u \in PAGES : (n = m /\ u = va) \/ Frame(n, u)' = Frame(n, u),
           Frame(m, va) = f, Frame(m, va)' = NoFrame,
           \A d \in Cpus : d # c => op'[d] = op[d], Hold(c)' = Hold(c), op'[c].f = op[c].f,
           Drop(f)
    PROVE  Accounted'
<1>1. ref \in [Frames -> Int] /\ ref[f] \in Nat /\ ref[f] >= 1 /\ f \notin free /\ f # NoFrame
    BY CountedFrames, Numbers DEF Control, Shape, RestTyped
<1>2. ref'[f] = ref[f] - 1 /\ \A g \in Frames : g # f => ref'[g] = ref[g]
    BY <1>1 DEF Drop
<1>3. ASSUME NEW g \in Frames
      PROVE  ref'[g] = ref[g] + One(Frame(m, va)' = g) - One(Frame(m, va) = g)
                              + One(Hold(c)' = g) - One(Hold(c) = g)
    <2>1. ref[g] \in Int /\ One(Hold(c)' = g) = One(Hold(c) = g) /\ One(Hold(c) = g) \in Int
        BY <1>1 DEF One
    <2>2. One(Frame(m, va)' = g) = 0 /\ One(Frame(m, va) = g) = IF g = f THEN 1 ELSE 0
        BY Numbers DEF One
    <2> QED
        BY <1>2, <2>1, <2>2
<1>4. Accounts(c, m, va)
    BY <1>3 DEF Accounts
<1>5. RefExact'
    BY <1>4, AccountsRef DEF Accounted
<1>6. \A d \in Cpus : op'[d].f = op[d].f
    OBVIOUS
<1>7. \A d \in Cpus : op[d].f # f
    BY <1>1 DEF Accounted, HandInv
<1>8. ASSUME NEW g \in Frames PROVE g \in free' <=> ref'[g] = 0 /\ \A d \in Cpus : op'[d].f # g
    <2>1. g \in free <=> ref[g] = 0 /\ \A d \in Cpus : op[d].f # g
        BY DEF Accounted, FreeExact
    <2>2. CASE g = f
        BY <1>1, <1>2, <1>6, <1>7, <2>2 DEF Drop
    <2>3. CASE g # f
        BY <1>2, <1>6, <2>1, <2>3 DEF Drop
    <2> QED
        BY <2>2, <2>3
<1>9. HandInv'
    BY <1>6 DEF Accounted, HandInv
<1> QED
    BY <1>5, <1>8, <1>9 DEF Accounted, FreeExact

(* A page filled: the lowest free frame is kept.                           *)
LEMMA FaultFillAccounts ==
    ASSUME Control, PagesInv, Accounted, NEW c \in Cpus, FaultFill(c)
    PROVE  Accounted'
<1> DEFINE o == [Handling(c) EXCEPT !.at = "spin", !.back = "clear"]
<1>1. task[c] \in MMS /\ op[c] \in OpType /\ OpOK(c, op[c]) /\ op[c].at = "fault" /\ Owns(c, task[c])
    BY Serves DEF FaultFill, Finds, Control, Shape, OpTyped, OpInv, Owns, LockFree
<1>2. PICK m \in MMS, va \in PAGES : m = task[c] /\ va = op[c].va
    BY <1>1 DEF OpOK
<1>3. PICK g \in Frames : g = Min(free) /\ g \in free
    BY MinIn, Numbers DEF FaultFill, Control, Shape, RestTyped
<1>4. /\ Step(c, o) /\ task' = task /\ free' = free \ {g} /\ ref' = [ref EXCEPT ![g] = 1]
      /\ \E w : SetPte(m, va, Present(g, w, FALSE))
      /\ pt[m][va].kind = "no"
    BY <1>2, <1>3 DEF FaultFill, Finds, Invalidate, cr3s
<1>5. o.at = "spin" /\ o.f = op[c].f /\ op[c].f = NoFrame
    BY <1>1 DEF Handling, NoOp, OpOK
<1> HIDE DEF o
<1>6. op'[c] = o /\ \A d \in Cpus : d # c => op'[d] = op[d]
    BY <1>4 DEF Control, Shape, OpTyped
<1>7. pt'[m][va].kind # "no" /\ pt'[m][va].f = g
         /\ \A n \in MMS, u \in PAGES : (n = m /\ u = va) \/ SameEntry(n, u)
    BY <1>4 DEF SameEntry, Present, Control, Shape, PtTyped
<1>8. Calm(c, o)
    BY <1>1, <1>4, <1>5 DEF Calm, Going
<1>9. \A n \in MMS, u \in PAGES : (n = m /\ u = va) \/ Frame(n, u)' = Frame(n, u)
    BY <1>7, <1>8, CalmFrame
<1>10. Frame(m, va) = NoFrame /\ Frame(m, va)' = g
    <2>1. ~Removed(m, va)
        BY <1>1, <1>2, NotRemoved DEF Going
    <2>2. ~Removed(m, va)'
        BY <1>8, <2>1, CalmRemoved
    <2> QED
        BY <1>4, <1>7, <2>2 DEF Frame, Kept, Empty
<1>11. (\A d \in Cpus : op'[d].f = op[d].f) /\ Hold(c) = NoFrame /\ Hold(c)' = NoFrame
    BY <1>1, <1>5, <1>6 DEF Hold
<1>12. /\ ref[g] = 0 /\ (\A d \in Cpus : op[d].f # g) /\ ref \in [Frames -> Int]
       /\ ref'[g] = 1 /\ \A f \in Frames : f # g => ref'[f] = ref[f]
    BY <1>3, <1>4 DEF Accounted, FreeExact, Control, Shape, RestTyped
<1>13. ASSUME NEW f \in Frames
       PROVE  ref'[f] = ref[f] + One(Frame(m, va)' = f) - One(Frame(m, va) = f)
                               + One(Hold(c)' = f) - One(Hold(c) = f)
    <2>1. ref[f] \in Int /\ One(Hold(c)' = f) = 0 /\ One(Hold(c) = f) = 0 /\ One(Frame(m, va) = f) = 0
        BY <1>10, <1>11, <1>12, Numbers DEF One
    <2>2. One(Frame(m, va)' = f) = IF f = g THEN 1 ELSE 0
        BY <1>10 DEF One
    <2> QED
        BY <1>12, <2>1, <2>2
<1>14. Accounts(c, m, va)
    BY <1>6, <1>9, <1>13 DEF Accounts
<1>15. RefExact'
    BY <1>14, AccountsRef DEF Accounted
<1>16. FreeExact'
    BY <1>4, <1>11, <1>12 DEF Accounted, FreeExact
<1>17. HandInv'
    BY <1>9, <1>10, <1>11, <1>12 DEF Accounted, HandInv
<1> QED
    BY <1>15, <1>16, <1>17 DEF Accounted

(* A copy on write: the lowest free frame is in the hand of the CPU.       *)
LEMMA FaultCopyAccounts ==
    ASSUME Control, PagesInv, Accounted, NEW c \in Cpus, FaultCopy(c)
    PROVE  Accounted'
<1> DEFINE o == [Handling(c) EXCEPT !.at = "insert", !.f = Min(free)]
<1>1. task[c] \in MMS /\ op[c] \in OpType /\ OpOK(c, op[c]) /\ op[c].at = "fault"
    BY Serves DEF FaultCopy, Finds, Control, Shape, OpTyped, OpInv
<1>2. PICK m \in MMS, va \in PAGES : m = task[c] /\ va = op[c].va
    BY <1>1 DEF OpOK
<1>3. PICK g \in Frames : g = Min(free) /\ g \in free
    BY MinIn, Numbers DEF FaultCopy, Control, Shape, RestTyped
<1>4. Step(c, o) /\ task' = task /\ free' = free \ {g} /\ ref' = ref /\ pt' = pt
    BY <1>3 DEF FaultCopy, cr3s
<1>5. o.at = "insert" /\ o.f = g /\ op[c].f = NoFrame
    BY <1>1, <1>3 DEF Handling, NoOp, OpOK
<1> HIDE DEF o
<1>6. op'[c] = o /\ \A d \in Cpus : d # c => op'[d] = op[d]
    BY <1>4 DEF Control, Shape, OpTyped
<1>7. Calm(c, o)
    BY <1>1, <1>4, <1>5 DEF Calm, Going
<1>8. \A n \in MMS, u \in PAGES : SameEntry(n, u)
    BY <1>4 DEF SameEntry
<1>9. \A n \in MMS, u \in PAGES : Frame(n, u)' = Frame(n, u)
    BY <1>7, <1>8, CalmFrame
<1>10. Hold(c) = NoFrame /\ Hold(c)' = NoFrame
    BY <1>1, <1>5, <1>6 DEF Hold
<1>11. ref[g] = 0 /\ (\A d \in Cpus : op[d].f # g) /\ ref \in [Frames -> Int]
    BY <1>3 DEF Accounted, FreeExact, Control, Shape, RestTyped
<1>12. ASSUME NEW f \in Frames
       PROVE  ref'[f] = ref[f] + One(Frame(m, va)' = f) - One(Frame(m, va) = f)
                               + One(Hold(c)' = f) - One(Hold(c) = f)
    <2>1. Frame(m, va)' = Frame(m, va)
        BY <1>9
    <2>2. /\ ref[f] \in Int /\ One(Hold(c)' = f) = One(Hold(c) = f) /\ One(Hold(c) = f) \in Int
          /\ One(Frame(m, va) = f) \in Int /\ One(Frame(m, va)' = f) = One(Frame(m, va) = f)
        BY <1>10, <1>11, <2>1 DEF One
    <2> QED
        BY <1>4, <2>2
<1>13. Accounts(c, m, va)
    BY <1>6, <1>9, <1>12 DEF Accounts
<1>14. RefExact'
    BY <1>13, AccountsRef DEF Accounted
<1>15. FreeExact'
    <2> SUFFICES ASSUME NEW f \in Frames
                 PROVE  f \in free' <=> ref'[f] = 0 /\ \A d \in Cpus : op'[d].f # f
        BY DEF FreeExact
    <2>1. CASE f = g
        BY <1>4, <1>5, <1>6, <2>1
    <2>2. CASE f # g
        <3>1. (\A d \in Cpus : op'[d].f # f) <=> \A d \in Cpus : op[d].f # f
            BY <1>5, <1>6, <2>2, Numbers
        <3> QED
            BY <1>4, <2>2, <3>1 DEF Accounted, FreeExact
    <2> QED
        BY <2>1, <2>2
<1>16. \A n \in MMS, u \in PAGES : Frame(n, u) # g
    BY <1>3, CountedFrames
<1>17. HandInv'
    <2> SUFFICES ASSUME NEW d \in Cpus, op'[d].f # NoFrame
                 PROVE  /\ \A x \in Cpus : op'[x].f = op'[d].f => x = d
                        /\ \A n \in MMS, u \in PAGES : Frame(n, u)' # op'[d].f
        BY DEF HandInv
    <2>1. CASE d = c
        BY <1>5, <1>6, <1>9, <1>11, <1>16, <2>1
    <2>2. CASE d # c
        BY <1>5, <1>6, <1>9, <1>11, <2>2 DEF Accounted, HandInv
    <2> QED
        BY <2>1, <2>2
<1> QED
    BY <1>14, <1>15, <1>17 DEF Accounted

(* page_insert: the new frame is counted, the old one dropped.             *)
LEMMA FaultInsertAccounts ==
    ASSUME Control, PagesInv, Accounted, NEW c \in Cpus, FaultInsert(c)
    PROVE  Accounted'
<1> DEFINE o == [op[c] EXCEPT !.at = "remove"]
<1>1. /\ task[c] \in MMS /\ op[c] \in OpType /\ OpOK(c, op[c]) /\ op[c].at = "insert" /\ Owns(c, task[c])
      /\ PagesOK(c)
    BY Serves DEF FaultInsert, Control, Shape, OpTyped, OpInv, Owns, LockInv, PagesInv
<1>2. PICK m \in MMS, va \in PAGES : m = task[c] /\ va = op[c].va
    BY <1>1 DEF OpOK
<1>3. PICK g \in Frames : g = op[c].f
    BY <1>1 DEF OpType, OpOK
<1>4. PICK old \in Frames : old = pt[m][va].f
    BY DEF Control, Shape, PtTyped, PteType
<1>5. /\ Step(c, o) /\ task' = task /\ pt' = pt
      /\ ref' = [ref EXCEPT ![g] = @ + 1, ![old] = @ - 1]
      /\ free' = IF ref[old] = 1 THEN free \cup {old} ELSE free
    BY <1>2, <1>3, <1>4 DEF FaultInsert, cr3s
<1>6. o.at = "remove" /\ o.f = g /\ o.va = va
    BY <1>1, <1>2, <1>3 DEF OpType
<1> HIDE DEF o
<1>7. op'[c] = o /\ \A d \in Cpus : d # c => op'[d] = op[d]
    BY <1>5 DEF Control, Shape, OpTyped
<1>8. ASSUME NEW n \in MMS, NEW u \in PAGES, ~(n = m /\ u = va) PROVE Frame(n, u)' = Frame(n, u)
    <2>1. SameEntry(n, u) /\ Aims(c, o, m, va)
        BY <1>1, <1>2, <1>5, <1>6 DEF SameEntry, Going, Aims
    <2> QED
        BY <1>8, <2>1, ElseFrame
<1>9. Frame(m, va) = old
    <2>1. ~Removed(m, va)
        BY <1>1, <1>2, NotRemoved DEF Going
    <2> QED
        BY <1>1, <1>2, <1>4, <2>1 DEF Frame, Kept, Empty, PagesOK
<1>10. Frame(m, va)' = NoFrame
    BY <1>2, <1>5, <1>6, <1>7 DEF Frame, Kept, Removed, Tasks
<1>11. Hold(c) = NoFrame /\ Hold(c)' = g /\ \A d \in Cpus : op'[d].f = op[d].f
    BY <1>1, <1>3, <1>6, <1>7 DEF Hold
<1>12. old # g /\ \A d \in Cpus : op[d].f # old
    BY <1>3, <1>9, Numbers DEF Accounted, HandInv
<1>13. /\ ref \in [Frames -> Int] /\ ref[old] \in Nat /\ ref[old] >= 1 /\ old \notin free
       /\ ref[g] \in Nat /\ g \notin free
    BY <1>3, <1>9, CountedFrames DEF Control, Shape, RestTyped
<1>14. /\ ref'[g] = ref[g] + 1 /\ ref'[old] = ref[old] - 1
       /\ \A f \in Frames : f # g /\ f # old => ref'[f] = ref[f]
    BY <1>5, <1>12, <1>13
<1>15. ASSUME NEW f \in Frames
       PROVE  ref'[f] = ref[f] + One(Frame(m, va)' = f) - One(Frame(m, va) = f)
                               + One(Hold(c)' = f) - One(Hold(c) = f)
    <2>1. ref[f] \in Int /\ One(Hold(c) = f) = 0 /\ One(Frame(m, va)' = f) = 0
        BY <1>10, <1>11, <1>13, Numbers DEF One
    <2>2. One(Frame(m, va) = f) = (IF f = old THEN 1 ELSE 0) /\ One(Hold(c)' = f) = IF f = g THEN 1 ELSE 0
        BY <1>9, <1>11 DEF One
    <2> QED
        BY <1>12, <1>14, <2>1, <2>2
<1>16. Accounts(c, m, va)
    BY <1>7, <1>8, <1>15 DEF Accounts
<1>17. RefExact'
    BY <1>16, AccountsRef DEF Accounted
<1>18. FreeExact'
    <2> SUFFICES ASSUME NEW f \in Frames
                 PROVE  f \in free' <=> ref'[f] = 0 /\ \A d \in Cpus : op'[d].f # f
        BY DEF FreeExact
    <2>1. CASE f = old
        BY <1>5, <1>11, <1>12, <1>13, <1>14, <2>1
    <2>2. CASE f = g
        BY <1>5, <1>6, <1>7, <1>12, <1>13, <2>2
    <2>3. CASE f # g /\ f # old
        <3>1. (f \in free' <=> f \in free) /\ ref'[f] = ref[f]
            BY <1>5, <1>14, <2>3
        <3> QED
            BY <1>11, <3>1 DEF Accounted, FreeExact
    <2> QED
        BY <2>1, <2>2, <2>3
<1>19. HandInv'
    BY <1>8, <1>10, <1>11 DEF Accounted, HandInv
<1> QED
    BY <1>17, <1>18, <1>19 DEF Accounted

(* The copied page is mapped: the frame goes from the hand to the entry.   *)
LEMMA FaultMapAccounts ==
    ASSUME Control, PagesInv, Accounted, NEW c \in Cpus, FaultMap(c)
    PROVE  Accounted'
<1> DEFINE o == [[op[c] EXCEPT !.f = NoFrame] EXCEPT !.at = "spin", !.back = "unlock"]
<1>1. /\ task[c] \in MMS /\ op[c] \in OpType /\ OpOK(c, op[c]) /\ op[c].at = "map" /\ Owns(c, task[c])
      /\ PagesOK(c)
    BY Serves DEF FaultMap, Control, Shape, OpTyped, OpInv, Owns, LockInv, PagesInv
<1>2. PICK m \in MMS, va \in PAGES : m = task[c] /\ va = op[c].va
    BY <1>1 DEF OpOK
<1>3. PICK g \in Frames : g = op[c].f
    BY <1>1 DEF OpType, OpOK
<1>4. /\ Step(c, o) /\ task' = task /\ free' = free /\ ref' = ref
      /\ SetPte(m, va, Present(g, TRUE, FALSE))
    BY <1>2, <1>3 DEF FaultMap, Invalidate, cr3s, frames
<1>5. o.at = "spin" /\ o.f = NoFrame
    BY <1>1 DEF OpType
<1> HIDE DEF o
<1>6. op'[c] = o /\ \A d \in Cpus : d # c => op'[d] = op[d]
    BY <1>4 DEF Control, Shape, OpTyped
<1>7. pt'[m][va].kind # "no" /\ pt'[m][va].f = g
         /\ \A n \in MMS, u \in PAGES : (n = m /\ u = va) \/ SameEntry(n, u)
    BY <1>4 DEF SameEntry, Present, Control, Shape, PtTyped
<1>8. Calm(c, o)
    BY <1>1, <1>4, <1>5 DEF Calm, Going
<1>9. \A n \in MMS, u \in PAGES : (n = m /\ u = va) \/ Frame(n, u)' = Frame(n, u)
    BY <1>7, <1>8, CalmFrame
<1>10. Frame(m, va) = NoFrame /\ Frame(m, va)' = g
    <2>1. ~Removed(m, va)
        BY <1>1, <1>2, NotRemoved DEF Going
    <2>2. ~Removed(m, va)'
        BY <1>8, <2>1, CalmRemoved
    <2> QED
        BY <1>1, <1>2, <1>7, <2>2 DEF Frame, Kept, Empty, PagesOK
<1>11. Hold(c) = g /\ Hold(c)' = NoFrame /\ \A d \in Cpus : op[d].f = g => d = c
    BY <1>1, <1>3, <1>5, <1>6, Numbers DEF Hold, Accounted, HandInv
<1>12. ref \in [Frames -> Int] /\ ref[g] \in Nat /\ ref[g] >= 1 /\ g \notin free
    BY <1>3, <1>11, CountedFrames DEF Control, Shape, RestTyped
<1>13. ASSUME NEW f \in Frames
       PROVE  ref'[f] = ref[f] + One(Frame(m, va)' = f) - One(Frame(m, va) = f)
                               + One(Hold(c)' = f) - One(Hold(c) = f)
    <2>1. ref[f] \in Int /\ One(Hold(c)' = f) = 0 /\ One(Frame(m, va) = f) = 0
        BY <1>10, <1>11, <1>12, Numbers DEF One
    <2>2. One(Frame(m, va)' = f) = One(Hold(c) = f) /\ One(Hold(c) = f) \in Int
        BY <1>10, <1>11 DEF One
    <2> QED
        BY <1>4, <2>1, <2>2
<1>14. Accounts(c, m, va)
    BY <1>6, <1>9, <1>13 DEF Accounts
<1>15. RefExact'
    BY <1>14, AccountsRef DEF Accounted
<1>16. FreeExact'
    <2> SUFFICES ASSUME NEW f \in Frames
                 PROVE  f \in free' <=> ref'[f] = 0 /\ \A d \in Cpus : op'[d].f # f
        BY DEF FreeExact
    <2>1. CASE f = g
        BY <1>4, <1>12, <2>1
    <2>2. CASE f # g
        <3>1. (\A d \in Cpus : op'[d].f # f) <=> \A d \in Cpus : op[d].f # f
            BY <1>3, <1>5, <1>6, <2>2, Numbers
        <3> QED
            BY <1>4, <3>1 DEF Accounted, FreeExact
    <2> QED
        BY <2>1, <2>2
<1>17. HandInv'
    <2> SUFFICES ASSUME NEW d \in Cpus, op'[d].f # NoFrame
                 PROVE  /\ \A x \in Cpus : op'[x].f = op'[d].f => x = d
                        /\ \A n \in MMS, u \in PAGES : Frame(n, u)' # op'[d].f
        BY DEF HandInv
    <2>1. d # c /\ op'[d] = op[d] /\ op[d].f # g
        BY <1>5, <1>6, <1>11
    <2> QED
        BY <1>5, <1>6, <1>9, <1>10, <2>1 DEF Accounted, HandInv
<1> QED
    BY <1>15, <1>16, <1>17 DEF Accounted

(* copy_range: the child shares the parent's frame.                        *)
LEMMA CopyShareAccounts ==
    ASSUME Control, PagesInv, Accounted, NEW c \in Cpus, CopyShare(c)
    PROVE  Accounted'
<1>1. /\ task[c] \in MMS /\ op[c] \in OpType /\ OpOK(c, op[c]) /\ op[c].at = "copy" /\ Owns(c, task[c])
      /\ Owns(c, op[c].to) /\ PagesOK(c) /\ op[c].todo # {}
    BY Serves DEF CopyShare, Control, Shape, OpTyped, OpInv, Owns, LockInv, PagesInv
<1>2. PICK p \in MMS, m \in MMS : p = task[c] /\ m = op[c].to
    BY <1>1 DEF OpOK, OpType, Mms
<1>3. PICK va \in PAGES : va = Min(op[c].todo) /\ va \in op[c].todo
    <2>1. op[c].todo \subseteq PAGES /\ op[c].todo # {}
        BY <1>1 DEF OpType
    <2>2. Min(op[c].todo) \in op[c].todo
        BY <2>1, MinIn, Numbers
    <2> QED
        BY <2>1, <2>2
<1> DEFINE o == [op[c] EXCEPT !.todo = @ \ {va}]
           e == pt[p][va]
<1>4. /\ Step(c, o) /\ task' = task /\ free' = free /\ ref' = (IF e.kind = "no" THEN ref ELSE Shared(e.f))
      /\ SetPte(m, va, e)
    BY <1>2, <1>3 DEF CopyShare, cr3s
<1>5. o.at = "copy" /\ o.f = op[c].f /\ op[c].f = NoFrame
    BY <1>1 DEF OpType, OpOK
<1> HIDE DEF o
<1>6. op'[c] = o /\ \A d \in Cpus : d # c => op'[d] = op[d]
    BY <1>4 DEF Control, Shape, OpTyped
<1>7. pt'[m][va] = e /\ \A n \in MMS, u \in PAGES : (n = m /\ u = va) \/ SameEntry(n, u)
    BY <1>4 DEF SameEntry, Control, Shape, PtTyped
<1>8. Calm(c, o)
    BY <1>1, <1>4, <1>5 DEF Calm, Going
<1>9. \A n \in MMS, u \in PAGES : (n = m /\ u = va) \/ Frame(n, u)' = Frame(n, u)
    BY <1>7, <1>8, CalmFrame
<1>10. ~Removed(p, va) /\ ~Removed(m, va) /\ ~Removed(m, va)'
    <2>1. ~Removed(p, va) /\ ~Removed(m, va)
        BY <1>1, <1>2, NotRemoved DEF Going
    <2> QED
        BY <1>8, <2>1, CalmRemoved
<1>11. Frame(m, va) = NoFrame /\ Frame(m, va)' = Frame(p, va)
    BY <1>1, <1>2, <1>3, <1>7, <1>10 DEF Frame, Kept, Empty, PagesOK
<1>12. (\A d \in Cpus : op'[d].f = op[d].f) /\ Hold(c) = NoFrame /\ Hold(c)' = NoFrame
    BY <1>1, <1>5, <1>6 DEF Hold
<1>13. ref \in [Frames -> Int]
    BY DEF Control, Shape, RestTyped
<1>14. ASSUME NEW f \in Frames
       PROVE  /\ ref'[f] = ref[f] + One(Frame(m, va)' = f)
              /\ One(Frame(m, va)' = f) = 1 => ref[f] \in Nat /\ ref[f] >= 1
    <2>1. CASE e.kind = "no"
        <3>1. Frame(p, va) = NoFrame
            BY <2>1 DEF Frame, Kept, Empty
        <3> QED
            BY <1>4, <1>11, <1>13, <2>1, <3>1, Numbers DEF One
    <2>2. CASE e.kind # "no"
        <3>1. Frame(p, va) = e.f /\ e.f \in Frames
            BY <1>10, <2>2 DEF Frame, Kept, Empty, Control, Shape, PtTyped, PteType
        <3>2. ref[e.f] \in Nat /\ ref[e.f] >= 1
            BY <3>1, CountedFrames
        <3>3. ref'[f] = IF f = e.f THEN ref[f] + 1 ELSE ref[f]
            BY <1>4, <1>13, <2>2, <3>1 DEF Shared
        <3> QED
            BY <1>11, <1>13, <3>1, <3>2, <3>3 DEF One
    <2> QED
        BY <2>1, <2>2
<1>15. ASSUME NEW f \in Frames
       PROVE  ref'[f] = ref[f] + One(Frame(m, va)' = f) - One(Frame(m, va) = f)
                               + One(Hold(c)' = f) - One(Hold(c) = f)
    <2>1. /\ ref[f] \in Int /\ One(Hold(c)' = f) = 0 /\ One(Hold(c) = f) = 0 /\ One(Frame(m, va) = f) = 0
          /\ One(Frame(m, va)' = f) \in Int
        BY <1>11, <1>12, <1>13, Numbers DEF One
    <2> QED
        BY <1>14, <2>1
<1>16. Accounts(c, m, va)
    BY <1>6, <1>9, <1>15 DEF Accounts
<1>17. RefExact'
    BY <1>16, AccountsRef DEF Accounted
<1>18. ASSUME NEW f \in Frames PROVE ref'[f] = 0 <=> ref[f] = 0
    <2>1. ref[f] \in Int /\ One(Frame(m, va)' = f) \in {0, 1}
        BY <1>13 DEF One
    <2> QED
        BY <1>14, <2>1
<1>19. FreeExact'
    BY <1>4, <1>12, <1>18 DEF Accounted, FreeExact
<1>20. HandInv'
    BY <1>9, <1>11, <1>12 DEF Accounted, HandInv
<1> QED
    BY <1>17, <1>19, <1>20 DEF Accounted

(* A page of a dying or half-made address space is dropped.                *)
LEMMA UnmappedAccounts ==
    ASSUME Control, Accounted, NEW c \in Cpus, NEW m \in MMS, NEW va \in PAGES, NEW o,
           Owns(c, m), op[c].at \notin Going, op[c].at # "insert", Step(c, o), task' = task,
           o.at \notin Going, o.at # "insert", o.f = op[c].f, Unmapped(m, va)
    PROVE  Accounted'
<1>1. op'[c] = o /\ \A d \in Cpus : d # c => op'[d] = op[d]
    BY DEF Control, Shape, OpTyped
<1>2. Calm(c, o)
    BY DEF Calm
<1>3. pt'[m][va].kind = "no" /\ \A n \in MMS, u \in PAGES : (n = m /\ u = va) \/ SameEntry(n, u)
    BY DEF Unmapped, SameEntry, NoPte, Control, Shape, PtTyped
<1>4. \A n \in MMS, u \in PAGES : (n = m /\ u = va) \/ Frame(n, u)' = Frame(n, u)
    BY <1>2, <1>3, CalmFrame
<1>5. ~Removed(m, va)
    BY NotRemoved
<1>6. Frame(m, va)' = NoFrame
    BY <1>3 DEF Frame, Kept, Empty
<1>7. Hold(c)' = Hold(c) /\ op'[c].f = op[c].f
    BY <1>1 DEF Hold
<1>8. CASE pt[m][va].kind = "no"
    <2>1. Frame(m, va) = NoFrame
        BY <1>8 DEF Frame, Kept, Empty
    <2>2. \A n \in MMS, u \in PAGES : Frame(n, u)' = Frame(n, u)
        BY <1>4, <1>6, <2>1
    <2>3. \A d \in Cpus : Hold(d)' = Hold(d) /\ op'[d].f = op[d].f
        BY <1>1, <1>7 DEF Hold
    <2>4. UNCHANGED <<ref, free>>
        BY <1>8 DEF Unmapped
    <2> QED
        BY <2>2, <2>3, <2>4, SameAccounts
<1>9. CASE pt[m][va].kind # "no"
    <2>1. PICK f \in Frames : f = pt[m][va].f
        BY DEF Control, Shape, PtTyped, PteType
    <2>2. Frame(m, va) = f /\ Drop(f)
        BY <1>5, <1>9, <2>1 DEF Frame, Kept, Empty, Unmapped
    <2> QED
        BY <1>1, <1>4, <1>6, <1>7, <2>2, DropAccounts
<1> QED
    BY <1>8, <1>9

(* A fork that failed is taken back page by page.                          *)
LEMMA ForkUndoAccounts ==
    ASSUME Control, PagesInv, Accounted, NEW c \in Cpus, ForkUndo(c)
    PROVE  Accounted'
<1>1. op[c] \in OpType /\ OpOK(c, op[c]) /\ op[c].at = "undo" /\ op[c].f = NoFrame /\ task' = task
    BY DEF ForkUndo, Control, Shape, OpTyped, OpInv, OpOK, cr3s
<1>2. CASE op[c].todo = {}
    <2>1. Step(c, NoOp) /\ UNCHANGED <<ref, free, pt>>
        BY <1>2 DEF ForkUndo
    <2>2. NoOp.at = "user" /\ NoOp.f = NoFrame
        BY DEF NoOp
    <2>3. Silent(c, NoOp)
        BY <1>1, <2>1, <2>2 DEF Silent, Calm, Going, SameEntry
    <2> QED
        BY <2>3, SilentAccounts
<1>3. CASE op[c].todo # {}
    <2>1. PICK va \in PAGES : va = Min(op[c].todo)
        BY <1>1, <1>3, MinIn, Numbers DEF OpType
    <2>2. PICK m \in MMS : m = op[c].to
        BY <1>1 DEF OpOK, OpType, Mms
    <2> DEFINE o == NextOp(c, m, "undo")
    <2>3. UnmapNext(c, m, "undo")
        BY <1>3, <2>2 DEF ForkUndo
    <2>4. Unmapped(m, va)
        BY <2>1, <2>3 DEF UnmapNext
    <2>5. Step(c, o) /\ o.at \in {"undo", "spin"} /\ o.f = op[c].f
        BY <1>1, <1>3, <2>3, NextOpIs DEF At
    <2>6. Owns(c, m) /\ op[c].at \notin Going
        BY <1>1, <2>2 DEF Owns, Going
    <2> HIDE DEF o
    <2>7. o.at \notin Going /\ o.at # "insert"
        BY <2>5 DEF Going
    <2> QED
        BY <1>1, <2>3, <2>4, <2>5, <2>6, <2>7, UnmappedAccounts
<1> QED
    BY <1>2, <1>3

(* exit_mmap, page by page.                                                *)
LEMMA ExitDropAccounts ==
    ASSUME Control, PagesInv, Accounted, NEW c \in Cpus, ExitDrop(c)
    PROVE  Accounted'
<1>1. op[c] \in OpType /\ OpOK(c, op[c]) /\ op[c].at = "drop" /\ op[c].f = NoFrame
    BY DEF ExitDrop, Control, Shape, OpTyped, OpInv, OpOK
<1>2. CASE op[c].todo = {}
    <2>1. Step(c, NoOp) /\ UNCHANGED <<ref, free, pt>> /\ \A d \in Cpus : d # c => task'[d] = task[d]
        BY <1>2 DEF ExitDrop, Control, Shape, RestTyped
    <2>2. NoOp.at = "user" /\ NoOp.f = NoFrame
        BY DEF NoOp
    <2>3. Silent(c, NoOp)
        BY <1>1, <2>1, <2>2 DEF Silent, Calm, Going, SameEntry
    <2> QED
        BY <2>3, SilentAccounts
<1>3. CASE op[c].todo # {}
    <2>1. PICK va \in PAGES : va = Min(op[c].todo)
        BY <1>1, <1>3, MinIn, Numbers DEF OpType
    <2>2. PICK m \in MMS : m = task[c]
        BY <1>1, Serves
    <2> DEFINE o == NextOp(c, m, "drop")
    <2>3. UnmapNext(c, m, "drop") /\ task' = task
        BY <1>3, <2>2 DEF ExitDrop
    <2>4. Unmapped(m, va)
        BY <2>1, <2>3 DEF UnmapNext
    <2>5. Step(c, o) /\ o.at \in {"drop", "spin"} /\ o.f = op[c].f
        BY <1>1, <1>3, <2>3, NextOpIs DEF At
    <2>6. Owns(c, m) /\ op[c].at \notin Going
        BY <1>1, <2>2 DEF Owns, Going
    <2> HIDE DEF o
    <2>7. o.at \notin Going /\ o.at # "insert"
        BY <2>5 DEF Going
    <2> QED
        BY <1>1, <2>3, <2>4, <2>5, <2>6, <2>7, UnmappedAccounts
<1> QED
    BY <1>2, <1>3

(* munmap: the frame is dropped while the entry is still there.            *)
LEMMA UnmapAccounts ==
    ASSUME Control, PagesInv, Accounted, NEW c \in Cpus, NEW va \in PAGES, Unmap(c, va)
    PROVE  Accounted'
<1> DEFINE o == [NoOp EXCEPT !.at = "unmap", !.va = va]
<1>1. task[c] \in MMS /\ OpOK(c, op[c]) /\ op[c].at = "user" /\ op[c].f = NoFrame /\ Owns(c, task[c])
    BY Serves DEF Unmap, InUser, Control, OpInv, OpOK, Owns, Locked, LockFree
<1>2. PICK m \in MMS : m = task[c]
    BY <1>1
<1>3. PICK f \in Frames : f = pt[m][va].f
    BY DEF Control, Shape, PtTyped, PteType
<1>4. Step(c, o) /\ task' = task /\ pt' = pt /\ Drop(f) /\ pt[m][va].kind # "no"
    BY <1>2, <1>3 DEF Unmap, cr3s
<1>5. o.at = "unmap" /\ o.va = va /\ o.f = NoFrame
    BY DEF NoOp
<1> HIDE DEF o
<1>6. op'[c] = o /\ \A d \in Cpus : d # c => op'[d] = op[d]
    BY <1>4 DEF Control, Shape, OpTyped
<1>7. ASSUME NEW n \in MMS, NEW u \in PAGES, ~(n = m /\ u = va) PROVE Frame(n, u)' = Frame(n, u)
    <2>1. SameEntry(n, u) /\ Aims(c, o, m, va)
        BY <1>1, <1>2, <1>4, <1>5 DEF SameEntry, Going, Aims
    <2> QED
        BY <1>7, <2>1, ElseFrame
<1>8. Frame(m, va) = f
    <2>1. ~Removed(m, va)
        BY <1>1, <1>2, NotRemoved DEF Going
    <2> QED
        BY <1>3, <1>4, <2>1 DEF Frame, Kept, Empty
<1>9. Frame(m, va)' = NoFrame
    BY <1>2, <1>4, <1>5, <1>6 DEF Frame, Kept, Removed, Tasks
<1>10. Hold(c)' = Hold(c) /\ op'[c].f = op[c].f
    BY <1>1, <1>5, <1>6 DEF Hold
<1>11. \A n \in MMS, u \in PAGES : (n = m /\ u = va) \/ Frame(n, u)' = Frame(n, u)
    BY <1>7
<1> QED
    BY <1>4, <1>6, <1>8, <1>9, <1>10, <1>11, DropAccounts

(* Every frame below the number of pages is that of a page.                *)
LEMMA FirstFrameOf ==
    ASSUME NEW f \in Frames, f < Cardinality(PAGES)
    PROVE  \E va \in PAGES : FirstFrame(va) = f
<1> DEFINE n == Cardinality(PAGES)
           g == [va \in PAGES |-> FirstFrame(va)]
<1>1. n \in Nat /\ f \in Nat /\ IsFiniteSet(PAGES)
    BY VmAssumption, FS_CardinalityType, Numbers
<1>2. \A va \in PAGES : FirstFrame(va) \in 0 .. n - 1
    <2> TAKE va \in PAGES
    <2>1. FirstFrame(va) \in Nat /\ FirstFrame(va) < n
        BY FirstFrameRank, BelowFinite
    <2> HIDE DEF n
    <2> QED
        BY <1>1, <2>1
<1>3. \A u, va \in PAGES : FirstFrame(u) = FirstFrame(va) => u = va
    BY FirstFrameRank
<1>4. g \in Injection(PAGES, 0 .. n - 1)
    BY <1>2, <1>3 DEF Injection, IsInjective
<1>5. IsFiniteSet(0 .. n - 1) /\ Cardinality(0 .. n - 1) = n
    <2> HIDE DEF n
    <2>1. 0 \in Int /\ n - 1 \in Int
        BY <1>1
    <2>2. IsFiniteSet(0 .. n - 1) /\ Cardinality(0 .. n - 1) = IF 0 > n - 1 THEN 0 ELSE (n - 1) - 0 + 1
        BY <2>1, FS_Interval
    <2> QED
        BY <1>1, <2>2
<1>6. g \in Surjection(PAGES, 0 .. n - 1)
    <2>1. Cardinality(PAGES) = Cardinality(0 .. n - 1)
        BY <1>5
    <2> HIDE DEF g, n
    <2> QED
        BY <1>1, <1>4, <1>5, <2>1, FS_Injection
<1>7. f \in 0 .. n - 1
    BY <1>1
<1> QED
    BY <1>6, <1>7 DEF Surjection

(* At the start each page of the first address space keeps its frame.      *)
LEMMA InitAccounts ==
    ASSUME Init
    PROVE  Accounted
<1>1. \A c \in Cpus : op[c].f = NoFrame /\ Hold(c) = NoFrame /\ op[c].at = "user"
    BY DEF Init, NoOp, Hold
<1>2. HandInv
    BY <1>1 DEF HandInv
<1>3. FreeExact
    BY <1>1, Numbers DEF FreeExact, Init
<1>4. ASSUME NEW m \in MMS, NEW va \in PAGES
      PROVE  Frame(m, va) = IF m = FirstMm THEN FirstFrame(va) ELSE NoFrame
    <2>1. ~Removed(m, va)
        BY <1>1 DEF Removed, Tasks
    <2> QED
        BY <2>1 DEF Frame, Kept, Empty, Init, Present, NoPte
<1>5. ASSUME NEW f \in Frames PROVE Holders(f) = {} /\ Cardinality(Holders(f)) = 0
    BY <1>1, Numbers, FS_EmptySet DEF Holders
<1>6. ASSUME NEW f \in Frames PROVE ref[f] = Cardinality(Keepers(f))
    <2>1. f \in Nat /\ Cardinality(PAGES) \in Nat /\ FirstMm \in MMS
        BY Numbers, VmAssumption, FS_CardinalityType
    <2>2. CASE f >= Cardinality(PAGES)
        <3>1. \A m \in MMS, va \in PAGES : Frame(m, va) # f
            <4> TAKE m \in MMS, va \in PAGES
            <4>1. FirstFrame(va) \in Nat /\ FirstFrame(va) < Cardinality(PAGES)
                BY FirstFrameRank, BelowFinite
            <4>2. FirstFrame(va) # f
                BY <2>1, <2>2, <4>1
            <4> QED
                BY <1>4, <4>2, Numbers
        <3>2. Keepers(f) = {}
            BY <3>1 DEF Keepers
        <3>3. ref[f] = 0
            BY <2>2 DEF Init
        <3> QED
            BY <3>2, <3>3, FS_EmptySet
    <2>3. CASE f < Cardinality(PAGES)
        <3>1. PICK va \in PAGES : FirstFrame(va) = f
            BY <2>3, FirstFrameOf
        <3>2. \A m \in MMS, u \in PAGES : Frame(m, u) = f <=> m = FirstMm /\ u = va
            BY <1>4, <3>1, FirstFrameRank, Numbers
        <3>3. Keepers(f) = {<<FirstMm, va>>}
            BY <2>1, <3>2 DEF Keepers
        <3>4. ref[f] = 1
            BY <2>1, <2>3 DEF Init
        <3>5. Cardinality({<<FirstMm, va>>}) = 1
            BY FS_Singleton
        <3> QED
            BY <3>3, <3>4, <3>5
    <2> QED
        BY <2>1, <2>2, <2>3
<1>7. RefExact
    <2> SUFFICES ASSUME NEW f \in Frames
                 PROVE  ref[f] = Cardinality(Keepers(f)) + Cardinality(Holders(f))
        BY DEF RefExact
    <2> QED
        BY <1>5, <1>6, KeepersFinite
<1> QED
    BY <1>2, <1>3, <1>7 DEF Accounted

(* Every step keeps the accounts.                                          *)
LEMMA NextAccounts ==
    ASSUME Control, PagesInv, Accounted, Next
    PROVE  Accounted'
<1>1. PICK c \in Cpus :
        \/ KernelStep(c) \/ TlbIpi(c) \/ ForkFails(c) \/ Call(c)
        \/ /\ c \in Idlers
           /\ Switch(c, task[c], Boot) \/ \E e \in Cpus : SwitchTo(c, e)
        \/ Switch(c, Boot, task[c])
        \/ \E va \in PAGES : Access(c, va)
    BY DEF Next
<1>2. ASSUME FaultStep(c) PROVE Accounted'
    BY <1>2, FaultRefusedAccounts, FaultFillAccounts, FaultClearAccounts, FaultOwnAccounts,
       FaultCopyAccounts,
       FaultInsertAccounts, FaultRemoveAccounts, FaultMapAccounts, UnlockMmAccounts DEF FaultStep
<1>3. ASSUME TlbStep(c) PROVE Accounted'
    BY <1>3, TlbLockAccounts, TlbSendAccounts, TlbSendFailsAccounts,
       TlbAcknowledgedAccounts, TlbUnlockAccounts DEF
       TlbStep
<1>4. ASSUME CopyStep(c) PROVE Accounted'
    BY <1>4, CopyProtectAccounts, CopyShareAccounts, ForkDoneAccounts, ForkUndoAccounts DEF
       CopyStep
<1>5. ASSUME KernelStep(c) PROVE Accounted'
    BY <1>2, <1>3, <1>4, <1>5, UnmapClearAccounts, PublishAccounts, ExitAccounts,
       ExitCountAccounts,
       ExitDropAccounts DEF KernelStep
<1>6. ASSUME Call(c) PROVE Accounted'
    BY <1>6, ForkAccounts, UnmapAccounts, MapAccounts, MprotectAccounts, ExitAccounts DEF Call
<1>7. ASSUME NEW va \in PAGES, Access(c, va) PROVE Accounted'
    BY <1>7, LoadAccounts, StoreAccounts, FaultAccounts DEF Access
<1>8. ASSUME Switch(c, task[c], Boot) \/ Switch(c, Boot, task[c]) PROVE Accounted'
    BY <1>8, SwitchAccounts
<1>9. ASSUME NEW e \in Cpus, SwitchTo(c, e) PROVE Accounted'
    BY <1>9, SwitchToAccounts
<1> QED
    BY <1>1, <1>5, <1>6, <1>7, <1>8, <1>9, TlbIpiAccounts, ForkFailsAccounts

(* Page tables and accounts keep their invariants for ever, whatever times *)
(* out.                                                                    *)
Ledger == Control /\ PagesInv /\ Accounted

(* They hold for ever, shootdowns that time out included.                  *)
LEMMA LedgerInvariant == Spec => []Ledger
<1>1. Init => Ledger
    BY InitControl, InitPages, InitAccounts DEF Ledger
<1>2. Ledger /\ [Next]_vars => Ledger'
    <2> SUFFICES ASSUME Ledger, [Next]_vars PROVE Ledger'
        OBVIOUS
    <2>1. CASE Next
        BY <2>1, NextControl, NextPages, NextAccounts DEF Ledger
    <2>2. CASE UNCHANGED vars
        <3>1. Control' /\ PagesInv'
            BY <2>2, StutterControl, PagesStay DEF Ledger, vars
        <3>2. (\A d \in Cpus : Hold(d)' = Hold(d) /\ op'[d].f = op[d].f) /\ UNCHANGED <<ref, free>>
            BY <2>2 DEF vars, Hold
        <3>3. \A n \in MMS, u \in PAGES : Frame(n, u)' = Frame(n, u)
            BY <2>2 DEF vars, Frame, Kept, Empty, Removed, Tasks
        <3>4. Accounted'
            BY <3>2, <3>3, SameAccounts DEF Ledger
        <3> QED
            BY <3>1, <3>4 DEF Ledger
    <2> QED
        BY <2>1, <2>2
<1> QED
    BY <1>1, <1>2, PTL DEF Spec

(* page->ref is the number of entries that keep a frame and of the CPUs    *)
(* that have it in hand, and a frame is free exactly when there are none:  *)
(* no path of fault, fork, its failure, munmap or exit leaks a frame or    *)
(* frees one under somebody.                                               *)
THEOREM VmFramesExact == Spec => []FramesExact
<1>1. Ledger => FramesExact
    <2> SUFFICES ASSUME Ledger, NEW f \in Frames
                 PROVE  /\ ref[f] = Cardinality({x \in MMS \X PAGES :
                                                   Maps(pt[x[1]][x[2]], f) /\ ~Removed(x[1], x[2])})
                                    + Cardinality({c \in InHand(f) : op[c].at # "insert"})
                        /\ f \in free <=> ref[f] = 0 /\ InHand(f) = {}
        BY DEF FramesExact
    <2>1. f # NoFrame
        BY Numbers
    <2>2. \A m \in MMS, va \in PAGES : Frame(m, va) = f <=> Maps(pt[m][va], f) /\ ~Removed(m, va)
        BY <2>1 DEF Frame, Kept, Empty, Maps
    <2>3. Keepers(f) = {x \in MMS \X PAGES : Maps(pt[x[1]][x[2]], f) /\ ~Removed(x[1], x[2])}
        BY <2>2 DEF Keepers
    <2>4. Holders(f) = {c \in InHand(f) : op[c].at # "insert"}
        BY <2>1 DEF Holders, Hold, InHand
    <2>5. InHand(f) = {} <=> \A c \in Cpus : op[c].f # f
        BY DEF InHand
    <2>6. ref[f] = Cardinality(Keepers(f)) + Cardinality(Holders(f))
        BY DEF Ledger, Accounted, RefExact
    <2>7. f \in free <=> ref[f] = 0 /\ InHand(f) = {}
        BY <2>5 DEF Ledger, Accounted, FreeExact
    <2> QED
        BY <2>3, <2>4, <2>6, <2>7
<1> QED
    BY <1>1, LedgerInvariant, PTL

(* The state keeps its types; no count of a frame exceeds the number of    *)
(* pages there are.                                                        *)
THEOREM VmTypes == Spec => []TypeOK
<1>1. Ledger => TypeOK
    <2> SUFFICES ASSUME Ledger PROVE TypeOK
        OBVIOUS
    <2> DEFINE n == Cardinality(MMS) * Cardinality(PAGES)
    <2>1. ASSUME NEW f \in Frames PROVE ref[f] \in 0 .. n
        <3>1. /\ ref[f] = Cardinality(Keepers(f)) + Cardinality(Holders(f))
              /\ Cardinality(Keepers(f)) \in Nat /\ Cardinality(Holders(f)) \in Nat
              /\ Cardinality(Keepers(f)) <= n /\ n \in Nat
            <4>1. Cardinality(MMS) \in Nat /\ Cardinality(PAGES) \in Nat
                BY VmAssumption, FS_CardinalityType
            <4>2. n \in Nat
                BY <4>1
            <4> QED
                BY <4>2, KeepersFinite DEF Ledger, Accounted, RefExact
        <3>2. CASE Holders(f) = {}
            <4>1. Cardinality(Holders(f)) = 0
                BY <3>2, FS_EmptySet
            <4> HIDE DEF n
            <4> QED
                BY <3>1, <4>1
        <3>3. CASE Holders(f) # {}
            <4>1. PICK c \in Cpus : Hold(c) = f
                BY <3>3 DEF Holders
            <4>2. op[c].f = f /\ f # NoFrame
                BY <4>1, Numbers DEF Hold
            <4>3. (\A m \in MMS, va \in PAGES : Frame(m, va) # f) /\ \A d \in Cpus : op[d].f = f => d = c
                BY <4>2 DEF Ledger, Accounted, HandInv
            <4>4. Keepers(f) = {} /\ Holders(f) = {c}
                BY <4>1, <4>2, <4>3, Numbers DEF Keepers, Holders, Hold
            <4>5. Cardinality(Keepers(f)) = 0 /\ Cardinality(Holders(f)) = 1
                BY <4>4, FS_EmptySet, FS_Singleton
            <4>6. op[c].va \in PAGES /\ FirstMm \in MMS
                BY <4>2, VmAssumption DEF Ledger, Control, OpInv, OpOK
            <4>7. Cardinality(MMS) \in Nat /\ Cardinality(PAGES) \in Nat
                     /\ Cardinality(MMS) # 0 /\ Cardinality(PAGES) # 0
                BY <4>6, VmAssumption, FS_EmptySet, FS_CardinalityType
            <4>8. \A a, b \in Nat \ {0} : 1 <= a * b
                OBVIOUS
            <4>9. 1 <= n
                BY <4>7, <4>8
            <4> HIDE DEF n
            <4> QED
                BY <3>1, <4>5, <4>9
        <3> QED
            BY <3>2, <3>3
    <2>2. ref \in [Frames -> Int]
        BY DEF Ledger, Control, Shape, RestTyped
    <2>3. ref \in [Frames -> 0 .. n]
        BY <2>1, <2>2
    <2> HIDE DEF n
    <2>4. \A m \in MMS, va \in PAGES : pt[m][va].f \in Frames /\ mem[m][va] \in Values
        BY DEF Ledger, Control, Shape, PtTyped, PteType, RestTyped
    <2>5. (\A m \in MMS : lock[m] \in Cpus \cup {NoCpu}) /\ tlb_lock \in Cpus \cup {NoCpu}
        BY DEF Ledger, Control, Shape, RestTyped
    <2> QED
        BY <2>3, <2>4, <2>5 DEF TypeOK, n, Ledger, Control, Shape, RestTyped, Mms
<1> QED
    BY <1>1, LedgerInvariant, PTL
====
