--------------------------------- MODULE Vm ---------------------------------
(***************************************************************************)
(* Address spaces on several CPUs: page faults and copy-on-write           *)
(* (do_pgfault), fork (copy_range), munmap, mprotect, exit, the reference  *)
(* counts of frames, the TLB of each CPU and the shootdown of smp.c.       *)
(*                                                                         *)
(* A CPU runs its one task or idles on boot_cr3.  User code reads and      *)
(* writes through the TLB; the rest is kernel code, one step for each      *)
(* stretch that no other CPU can tell from an atomic one.  A page table is *)
(* changed under lock_mm, but for the last user's exit_mmap.               *)
(*                                                                         *)
(* Frames are handed out lowest first.  Page tables never run short but in *)
(* fork, where get_pte may fail; reclaim (swap.c) finds no victim.         *)
(***************************************************************************)
EXTENDS Integers, FiniteSets, FiniteSetsExt

CONSTANTS
    CPUS,       (* online CPUs, 0 .. CPUS - 1                              *)
    MMS,        (* struct mm_struct that may be in use                     *)
    PAGES,      (* user pages of an address space                          *)
    FRAMES,     (* physical frames, 0 .. FRAMES - 1                        *)
    VALUES,     (* what a frame may hold: 0 .. VALUES, 0 a cleared one     *)
    Prots,      (* what mprotect is called with: rw, r, none               *)
    FirstMm, FirstTasks,    (* the first address space and its threads     *)
    Callers,    (* bound: the CPUs whose task calls mmap, munmap, mprotect *)
    Idlers      (* bound: the CPUs that leave their task for idle          *)

Cpus == 0 .. CPUS - 1
Frames == 0 .. FRAMES - 1
Values == 0 .. VALUES
Boot == "boot"
NoCpu == -1
NoFrame == -1

ASSUME VmAssumption ==
    /\ {CPUS, FRAMES, VALUES} \subseteq Nat
    /\ Prots \subseteq {"rw", "r", "none"}
    /\ FirstMm \in MMS /\ Boot \notin MMS
    /\ FirstTasks \subseteq Cpus /\ FirstTasks # {} /\ Idlers \cup Callers \subseteq Cpus
    /\ IsFiniteSet(MMS) /\ IsFiniteSet(PAGES) /\ PAGES \subseteq Nat
    /\ Cardinality(PAGES) <= FRAMES

VARIABLES
    vma,        (* protection of each page, "no" outside every vma         *)
    pt,         (* page table entries                                      *)
    lock,       (* mm_sem: the CPU whose task holds it                     *)
    ref, free, content,     (* page->ref, the free frames, the bytes       *)
    task,       (* address space of the task of a CPU                      *)
    loaded, pub,            (* CR3, and smp_current_cr3                    *)
    tlb,        (* entries [va, f, w] of each CPU                          *)
    op,         (* what kernel code the CPU is in                          *)
    tlb_lock,   (* smp_tlb_lock                                            *)
    req,        (* smp_tlb_requests: not acknowledged yet                  *)
    mem,        (* history: what each address space last wrote             *)
    slips       (* history: "ipi", a shootdown went on without a CPU's     *)
                (* answer; "munmap", one was called beside other threads   *)

vars ==
    <<vma, pt, lock, ref, free, content, task, loaded, pub, tlb, op, tlb_lock, req, mem, slips>>

(* kind hidden is PTE_MPROTECT: not present, the frame retained.           *)
NoPte == [kind |-> "no", f |-> 0, w |-> FALSE, cow |-> FALSE]
Present(f, w, cow) == [kind |-> "present", f |-> f, w |-> w, cow |-> cow]
Maps(e, f) == e.kind # "no" /\ e.f = f

(* at: the step; back: the step after a shootdown; off: interrupts are off *)
(* (a fault handler, proc_run); f: a frame in hand; to, on: fork's child,  *)
(* its CPU; todo: pages left of a loop; cpus: CPUs left of the shootdown.  *)
NoOp == [at |-> "user", back |-> "user", va |-> 0, write |-> FALSE, p |-> FALSE,
         off |-> FALSE, f |-> NoFrame, to |-> Boot, on |-> NoCpu, todo |-> {}, cpus |-> {}]
NoReq == [mm |-> Boot, va |-> 0]

TypeOK ==
    /\ \A m \in MMS : lock[m] \in Cpus \cup {NoCpu}
    /\ \A m \in MMS, va \in PAGES : pt[m][va].f \in Frames /\ mem[m][va] \in Values
    /\ free \subseteq Frames /\ content \in [Frames -> Values]
    /\ ref \in [Frames -> 0 .. Cardinality(MMS) * Cardinality(PAGES)]
    /\ task \in [Cpus -> MMS \cup {Boot}]
    /\ loaded \in [Cpus -> MMS \cup {Boot}] /\ pub \in [Cpus -> MMS \cup {Boot}]
    /\ tlb_lock \in Cpus \cup {NoCpu}

(* The frame of a page of the first address space.                         *)
FirstFrame(va) == Cardinality({u \in PAGES : u < va})

Init ==
    /\ vma = [m \in MMS |-> [va \in PAGES |-> IF m = FirstMm THEN "rw" ELSE "no"]]
    /\ pt = [m \in MMS |-> [va \in PAGES |->
                IF m = FirstMm THEN Present(FirstFrame(va), TRUE, FALSE) ELSE NoPte]]
    /\ lock = [m \in MMS |-> NoCpu]
    /\ free = {f \in Frames : f >= Cardinality(PAGES)}
    /\ ref = [f \in Frames |-> IF f \in free THEN 0 ELSE 1]
    /\ content = [f \in Frames |-> 0]
    /\ task = [c \in Cpus |-> IF c \in FirstTasks THEN FirstMm ELSE Boot]
    /\ loaded = task /\ pub = task
    /\ tlb = [c \in Cpus |-> {}]
    /\ op = [c \in Cpus |-> NoOp]
    /\ tlb_lock = NoCpu
    /\ req = [c \in Cpus |-> NoReq]
    /\ mem = [m \in MMS |-> [va \in PAGES |-> 0]]
    /\ slips = {}
-----------------------------------------------------------------------------
Tasks(m) == {c \in Cpus : task[c] = m}
Single(m) == Cardinality(Tasks(m)) = 1
InUser(c) == op[c].at = "user" /\ task[c] # Boot /\ loaded[c] = task[c]
Step(c, o) == op' = [op EXCEPT ![c] = o]
At(c, at) == op[c].at = at
Goto(c, at) == Step(c, [op[c] EXCEPT !.at = at])
Pte(m, va) == pt[m][va]
SetPte(m, va, e) == pt' = [pt EXCEPT ![m][va] = e]

LockFree(m) == lock[m] = NoCpu
Locked(c, m) == LockFree(m) /\ lock' = [lock EXCEPT ![m] = c]
Unlocked(m) == lock' = [lock EXCEPT ![m] = NoCpu]

frames == <<ref, free, content>>
cr3s == <<task, loaded, pub>>
ipis == <<tlb_lock, req, slips>>

(* page_ref_dec; the last reference frees the frame.                       *)
Drop(f) ==
    /\ ref' = [ref EXCEPT ![f] = @ - 1]
    /\ free' = IF ref[f] = 1 THEN free \cup {f} ELSE free
-----------------------------------------------------------------------------
(* The processor.  A write needs an entry with w; the entry a fault was    *)
(* raised on is dropped.  A stale entry faults as well as the page table.  *)
Entry(c, va) == {e \in tlb[c] : e.va = va}
May(es, write) == \E e \in es : write => e.w
Walk(m, va) ==
    IF Pte(m, va).kind # "present" THEN {}
    ELSE {[va |-> va, f |-> Pte(m, va).f, w |-> Pte(m, va).w]}

Load(c, va) ==
    /\ InUser(c) /\ Entry(c, va) = {} /\ Walk(task[c], va) # {}
    /\ tlb' = [tlb EXCEPT ![c] = @ \cup Walk(task[c], va)]
    /\ UNCHANGED <<vma, pt, lock, frames, cr3s, op, ipis, mem>>

Store(c, va, v) ==
    /\ InUser(c)
    /\ \E e \in Entry(c, va) : e.w /\ content' = [content EXCEPT ![e.f] = v]
    /\ mem' = [mem EXCEPT ![task[c]][va] = v]
    /\ UNCHANGED <<vma, pt, lock, ref, free, cr3s, tlb, op, ipis>>

Fault(c, va, write) ==
    LET seen == IF Entry(c, va) = {} THEN Walk(task[c], va) ELSE Entry(c, va) IN
    /\ InUser(c) /\ ~May(seen, write)
    /\ tlb' = [tlb EXCEPT ![c] = @ \ Entry(c, va)]
    /\ Step(c, [NoOp EXCEPT !.at = "fault", !.va = va, !.write = write, !.p = seen # {}])
    /\ UNCHANGED <<vma, pt, lock, frames, cr3s, ipis, mem>>
-----------------------------------------------------------------------------
(* tlb_invalidate: the own entry goes at once, then smp_tlb_shootdown; the *)
(* kernel code goes on at step back.                                       *)
Bug_NoShootdown(c, o, m, back) ==
    /\ Step(c, [o EXCEPT !.at = back])
    /\ tlb' = IF loaded[c] = m THEN [tlb EXCEPT ![c] = {e \in @ : e.va # o.va}] ELSE tlb
Invalidate(c, o, m, back) ==
    /\ Step(c, [o EXCEPT !.at = "spin", !.back = back])
    /\ tlb' = IF loaded[c] = m THEN [tlb EXCEPT ![c] = {e \in @ : e.va # o.va}] ELSE tlb

(* The page directory a shootdown is about: fork's undo empties the child. *)
Target(c) == IF op[c].back = "undo" THEN op[c].to ELSE task[c]

TlbLock(c) ==
    /\ At(c, "spin") /\ tlb_lock = NoCpu
    /\ tlb_lock' = c
    /\ Step(c, [op[c] EXCEPT !.at = "scan", !.cpus = Cpus \ {c}])
    /\ UNCHANGED <<vma, pt, lock, frames, cr3s, tlb, req, mem, slips>>

(* A CPU with another CR3 published is passed over.                        *)
TlbSend(c) ==
    LET d == Min(op[c].cpus)
        m == Target(c)
    IN  /\ At(c, "scan") /\ op[c].cpus # {}
        /\ IF pub[d] = m
           THEN /\ req' = [req EXCEPT ![d] = [mm |-> m, va |-> op[c].va]]
                /\ Goto(c, "wait")
           ELSE /\ Step(c, [op[c] EXCEPT !.cpus = @ \ {d}])
                /\ UNCHANGED req
        /\ UNCHANGED <<vma, pt, lock, frames, cr3s, tlb, tlb_lock, mem, slips>>

(* An IPI that is not delivered counts as acknowledged.                    *)
TlbSendFails(c) ==
    LET d == Min(op[c].cpus)
    IN  /\ At(c, "scan") /\ op[c].cpus # {} /\ pub[d] = Target(c)
        /\ req' = [req EXCEPT ![d] = NoReq]
        /\ slips' = slips \cup {"ipi"}
        /\ Step(c, [op[c] EXCEPT !.cpus = @ \ {d}])
        /\ UNCHANGED <<vma, pt, lock, frames, cr3s, tlb, tlb_lock, mem>>

(* smp_handle_tlb_ipi                                                      *)
TlbIpi(d) ==
    /\ req[d] # NoReq /\ ~op[d].off
    /\ tlb' = IF loaded[d] = req[d].mm
              THEN [tlb EXCEPT ![d] = {e \in @ : e.va # req[d].va}] ELSE tlb
    /\ req' = [req EXCEPT ![d] = NoReq]
    /\ UNCHANGED <<vma, pt, lock, frames, cr3s, op, tlb_lock, mem, slips>>

(* SMP_TLB_SHOOTDOWN_TIMEOUT ends the wait for a late answer, which slips, *)
(* and for one that cannot come: from a CPU that spins for smp_tlb_lock    *)
(* itself, with interrupts off.  The request stays.                        *)
Stuck(d) == At(d, "spin") /\ op[d].off
TlbAcknowledged(c) ==
    LET d == Min(op[c].cpus)
    IN  /\ At(c, "wait")
        /\ Step(c, [op[c] EXCEPT !.at = "scan", !.cpus = @ \ {d}])
        /\ slips' = IF req[d] = NoReq \/ Stuck(d) THEN slips ELSE slips \cup {"ipi"}
        /\ UNCHANGED <<vma, pt, lock, frames, cr3s, tlb, tlb_lock, req, mem>>

TlbUnlock(c) ==
    /\ At(c, "scan") /\ op[c].cpus = {}
    /\ tlb_lock' = NoCpu
    /\ Step(c, [op[c] EXCEPT !.at = op[c].back, !.back = "user"])
    /\ UNCHANGED <<vma, pt, lock, frames, cr3s, tlb, req, mem, slips>>
-----------------------------------------------------------------------------
Sole(f) == ref[f] = 1

Legal(prot, write, p) == IF write THEN prot = "rw" ELSE ~p /\ prot \in {"rw", "r"}

(* What the handler finds once it has the lock.                            *)
Finds(c, legal, kind) ==
    LET m == task[c] IN
    /\ At(c, "fault") /\ LockFree(m)
    /\ Legal(vma[m][op[c].va], op[c].write, op[c].p) = legal
    /\ kind # "any" => Pte(m, op[c].va).kind = kind
Handling(c) == [NoOp EXCEPT !.va = op[c].va, !.off = TRUE]

(* Also refused: a page that another thread's fault has dealt with.        *)
FaultRefused(c) ==
    LET e == Pte(task[c], op[c].va) IN
    /\ \/ Finds(c, FALSE, "any")
       \/ Finds(c, TRUE, "no") /\ free = {}
       \/ Finds(c, TRUE, "present") /\ (~e.cow \/ (~Sole(e.f) /\ free = {}))
    /\ Step(c, [Handling(c) EXCEPT !.at = "killed"])
    /\ UNCHANGED <<vma, pt, lock, frames, cr3s, tlb, ipis, mem>>

FaultFill(c) ==
    LET m == task[c]
        va == op[c].va
    IN  /\ Finds(c, TRUE, "no") /\ free # {}
        /\ Locked(c, m)
        /\ free' = free \ {Min(free)}
        /\ ref' = [ref EXCEPT ![Min(free)] = 1]
        /\ SetPte(m, va, Present(Min(free), vma[m][va] = "rw", FALSE))
        /\ Invalidate(c, Handling(c), m, "clear")
        /\ UNCHANGED <<vma, content, cr3s, ipis, mem>>

(* memset, after the page is mapped.                                       *)
FaultClear(c) ==
    /\ At(c, "clear")
    /\ content' = [content EXCEPT ![Pte(task[c], op[c].va).f] = 0]
    /\ Goto(c, "unlock")
    /\ UNCHANGED <<vma, pt, lock, ref, free, cr3s, tlb, ipis, mem>>

FaultOwn(c) ==
    LET m == task[c]
        e == Pte(m, op[c].va)
    IN  /\ Finds(c, TRUE, "present") /\ e.cow /\ Sole(e.f)
        /\ Locked(c, m)
        /\ SetPte(m, op[c].va, Present(e.f, TRUE, FALSE))
        /\ Invalidate(c, Handling(c), m, "unlock")
        /\ UNCHANGED <<vma, frames, cr3s, ipis, mem>>

FaultCopy(c) ==
    LET m == task[c]
        e == Pte(m, op[c].va)
    IN  /\ Finds(c, TRUE, "present") /\ e.cow /\ ~Sole(e.f) /\ free # {}
        /\ Locked(c, m)
        /\ free' = free \ {Min(free)}
        /\ content' = [content EXCEPT ![Min(free)] = content[e.f]]
        /\ Step(c, [Handling(c) EXCEPT !.at = "insert", !.f = Min(free)])
        /\ UNCHANGED <<vma, pt, ref, cr3s, tlb, ipis, mem>>

(* page_insert: count the new frame, drop the old one, ...                 *)
FaultInsert(c) ==
    LET old == Pte(task[c], op[c].va).f IN
    /\ At(c, "insert")
    /\ ref' = [ref EXCEPT ![op[c].f] = @ + 1, ![old] = @ - 1]
    /\ free' = IF ref[old] = 1 THEN free \cup {old} ELSE free
    /\ Goto(c, "remove")
    /\ UNCHANGED <<vma, pt, lock, content, cr3s, tlb, ipis, mem>>

(* ... clear the entry, shoot it down, ...                                 *)
FaultRemove(c) ==
    /\ At(c, "remove")
    /\ SetPte(task[c], op[c].va, NoPte)
    /\ Invalidate(c, op[c], task[c], "map")
    /\ UNCHANGED <<vma, lock, frames, cr3s, ipis, mem>>

(* ... and map the new one.                                                *)
FaultMap(c) ==
    /\ At(c, "map")
    /\ SetPte(task[c], op[c].va, Present(op[c].f, TRUE, FALSE))
    /\ Invalidate(c, [op[c] EXCEPT !.f = NoFrame], task[c], "unlock")
    /\ UNCHANGED <<vma, lock, frames, cr3s, ipis, mem>>

UnlockMm(c) ==
    /\ At(c, "unlock")
    /\ Unlocked(task[c])
    /\ Step(c, NoOp)
    /\ UNCHANGED <<vma, pt, frames, cr3s, tlb, ipis, mem>>
-----------------------------------------------------------------------------
(* copy_mm: under the parent's lock, page by page.                         *)
Unused(m) == Tasks(m) = {} /\ \A c \in Cpus : op[c].to # m
Vacant(c) == task[c] = Boot /\ \A d \in Cpus : op[d].on # c

Fork(c, m, d) ==
    /\ InUser(c) /\ Unused(m) /\ Vacant(d)
    /\ Locked(c, task[c])
    /\ Step(c, [NoOp EXCEPT !.at = "copy", !.to = m, !.on = d, !.todo = PAGES])
    /\ UNCHANGED <<vma, pt, frames, cr3s, tlb, ipis, mem>>

(* copy_range: a writable page turns COW, everywhere, ...                  *)
CopyProtect(c) ==
    LET va == Min(op[c].todo)
        e == Pte(task[c], va)
    IN  /\ At(c, "copy") /\ op[c].todo # {} /\ e.w
        /\ SetPte(task[c], va, [e EXCEPT !.w = FALSE, !.cow = TRUE])
        /\ Invalidate(c, [op[c] EXCEPT !.va = va], task[c], "copy")
        /\ UNCHANGED <<vma, lock, frames, cr3s, ipis, mem>>

(* ... and is then shared.                                                 *)
Bug_ShareUncounted(f) == ref
Shared(f) == [ref EXCEPT ![f] = @ + 1]
CopyShare(c) ==
    LET va == Min(op[c].todo)
        e == Pte(task[c], va)
        m == op[c].to
    IN  /\ At(c, "copy") /\ op[c].todo # {} /\ ~e.w
        /\ ref' = IF e.kind = "no" THEN ref ELSE Shared(e.f)
        /\ SetPte(m, va, e)
        /\ vma' = [vma EXCEPT ![m][va] = vma[task[c]][va]]
        /\ mem' = [mem EXCEPT ![m][va] = mem[task[c]][va]]
        /\ Step(c, [op[c] EXCEPT !.todo = @ \ {va}])
        /\ UNCHANGED <<lock, free, content, cr3s, tlb, ipis>>

ForkDone(c) ==
    /\ At(c, "copy") /\ op[c].todo = {}
    /\ Unlocked(task[c])
    /\ task' = [task EXCEPT ![op[c].on] = op[c].to]
    /\ Step(c, NoOp)
    /\ UNCHANGED <<vma, pt, frames, loaded, pub, tlb, ipis, mem>>

(* No memory for the child's page tables: exit_mmap of what it has.        *)
ForkFails(c) ==
    /\ At(c, "copy") /\ op[c].todo # {}
    /\ Unlocked(task[c])
    /\ Step(c, [op[c] EXCEPT !.at = "undo", !.todo = PAGES])
    /\ UNCHANGED <<vma, pt, frames, cr3s, tlb, ipis, mem>>

(* unmap_range on a page table that nobody has loaded any more, or yet.    *)
Unmapped(m, va) ==
    /\ IF Pte(m, va).kind = "no" THEN UNCHANGED <<ref, free>> ELSE Drop(Pte(m, va).f)
    /\ SetPte(m, va, NoPte)
    /\ vma' = [vma EXCEPT ![m][va] = "no"]
    /\ mem' = [mem EXCEPT ![m][va] = 0]

(* An entry that was there is shot down all the same.                      *)
UnmapNext(c, m, back) ==
    LET va == Min(op[c].todo)
        o == [op[c] EXCEPT !.va = va, !.todo = @ \ {va}]
    IN  /\ Unmapped(m, va)
        /\ IF Pte(m, va).kind = "no" THEN Step(c, o) /\ UNCHANGED tlb
           ELSE Invalidate(c, o, m, back)

ForkUndo(c) ==
    /\ At(c, "undo")
    /\ IF op[c].todo = {} THEN Step(c, NoOp) /\ UNCHANGED <<ref, free, pt, vma, mem, tlb>>
       ELSE UnmapNext(c, op[c].to, "undo")
    /\ UNCHANGED <<lock, content, cr3s, ipis>>
-----------------------------------------------------------------------------
(* munmap of a page: the frame is freed before the entry is cleared and    *)
(* other CPUs are told.                                                    *)
Unmap(c, va) ==
    LET m == task[c] IN
    /\ InUser(c) /\ Pte(m, va).kind # "no"
    /\ Locked(c, m)
    /\ Drop(Pte(m, va).f)
    /\ Step(c, [NoOp EXCEPT !.at = "unmap", !.va = va])
    /\ slips' = IF Single(m) THEN slips ELSE slips \cup {"munmap"}
    /\ UNCHANGED <<vma, pt, content, cr3s, tlb, tlb_lock, req, mem>>

UnmapClear(c) ==
    LET m == task[c]
        va == op[c].va
    IN  /\ At(c, "unmap")
        /\ SetPte(m, va, NoPte)
        /\ vma' = [vma EXCEPT ![m][va] = "no"]
        /\ mem' = [mem EXCEPT ![m][va] = 0]
        /\ Invalidate(c, op[c], m, "unlock")
        /\ UNCHANGED <<lock, frames, cr3s, ipis>>

(* mmap where there is nothing.                                            *)
Map(c, va) ==
    /\ InUser(c) /\ LockFree(task[c]) /\ vma[task[c]][va] = "no"
    /\ vma' = [vma EXCEPT ![task[c]][va] = "rw"]
    /\ UNCHANGED <<pt, lock, frames, cr3s, tlb, op, ipis, mem>>

(* mm_mprotect of a page: a hidden one comes back with what the vma allows, *)
(* but for COW, so that do_pgfault never finds it hidden and allowed.       *)
Restored(e, prot) == Present(e.f, prot = "rw" /\ ~e.cow, e.cow)
Protected(e, prot) ==
    IF prot = "none" THEN [e EXCEPT !.kind = "hidden"] ELSE Restored(e, prot)

Mprotect(c, va, prot) ==
    LET m == task[c]
        e == Pte(m, va)
    IN  /\ InUser(c) /\ vma[m][va] \notin {"no", prot}
        /\ vma' = [vma EXCEPT ![m][va] = prot]
        /\ IF e.kind = "no" \/ (e.kind = "hidden" /\ prot = "none")
           THEN LockFree(m) /\ UNCHANGED <<pt, lock, tlb, op>>
           ELSE /\ Locked(c, m)
                /\ SetPte(m, va, Protected(e, prot))
                /\ Invalidate(c, [NoOp EXCEPT !.va = va], m, "unlock")
        /\ UNCHANGED <<frames, cr3s, ipis, mem>>
-----------------------------------------------------------------------------
(* proc_run, with interrupts off: CR3 is loaded, which empties the TLB,    *)
(* then published.  To idle and back, ...                                  *)
Switch(c, from, to) ==
    /\ At(c, "user") /\ loaded[c] = from /\ from # to
    /\ loaded' = [loaded EXCEPT ![c] = to]
    /\ tlb' = [tlb EXCEPT ![c] = {}]
    /\ Step(c, [NoOp EXCEPT !.at = "publish", !.off = TRUE])
    /\ UNCHANGED <<vma, pt, lock, frames, task, pub, ipis, mem>>

(* ... and from task to task: c takes a task that waits, one whose CPU e   *)
(* idles, and leaves its own to e.  A request may be pending all along.    *)
SwitchTo(c, e) ==
    /\ InUser(c) /\ At(e, "user") /\ loaded[e] = Boot /\ task[e] # Boot
    /\ task' = [task EXCEPT ![c] = task[e], ![e] = task[c]]
    /\ loaded' = [loaded EXCEPT ![c] = task[e]]
    /\ tlb' = [tlb EXCEPT ![c] = {}]
    /\ Step(c, [NoOp EXCEPT !.at = "publish", !.off = TRUE])
    /\ UNCHANGED <<vma, pt, lock, frames, pub, ipis, mem>>

Publish(c) ==
    /\ At(c, "publish")
    /\ pub' = [pub EXCEPT ![c] = loaded[c]]
    /\ Step(c, NoOp)
    /\ UNCHANGED <<vma, pt, lock, frames, task, loaded, tlb, ipis, mem>>

(* do_exit, as far as memory goes.                                         *)
Exit(c) ==
    /\ InUser(c) \/ At(c, "killed")
    /\ loaded' = [loaded EXCEPT ![c] = Boot]
    /\ tlb' = [tlb EXCEPT ![c] = {}]
    /\ Step(c, [op[c] EXCEPT !.at = "leave"])
    /\ UNCHANGED <<vma, pt, lock, frames, task, pub, ipis, mem>>

(* mm_count_dec: the last task runs exit_mmap.                             *)
ExitCount(c) ==
    /\ At(c, "leave")
    /\ pub' = [pub EXCEPT ![c] = Boot]
    /\ IF Single(task[c])
       THEN Step(c, [op[c] EXCEPT !.at = "drop", !.todo = PAGES]) /\ UNCHANGED task
       ELSE Step(c, NoOp) /\ task' = [task EXCEPT ![c] = Boot]
    /\ UNCHANGED <<vma, pt, lock, frames, loaded, tlb, ipis, mem>>

ExitDrop(c) ==
    /\ At(c, "drop")
    /\ IF op[c].todo = {}
       THEN /\ Step(c, NoOp)
            /\ task' = [task EXCEPT ![c] = Boot]
            /\ UNCHANGED <<ref, free, pt, vma, mem, tlb>>
       ELSE UnmapNext(c, task[c], "drop") /\ UNCHANGED task
    /\ UNCHANGED <<lock, content, loaded, pub, ipis>>
-----------------------------------------------------------------------------
FaultStep(c) ==
    \/ FaultRefused(c) \/ FaultFill(c) \/ FaultClear(c) \/ FaultOwn(c)
    \/ FaultCopy(c) \/ FaultInsert(c) \/ FaultRemove(c) \/ FaultMap(c) \/ UnlockMm(c)
TlbStep(c) ==
    TlbLock(c) \/ TlbSend(c) \/ TlbSendFails(c) \/ TlbAcknowledged(c) \/ TlbUnlock(c)
CopyStep(c) == CopyProtect(c) \/ CopyShare(c) \/ ForkDone(c) \/ ForkUndo(c)
KernelStep(c) ==
    \/ FaultStep(c) \/ TlbStep(c) \/ CopyStep(c) \/ UnmapClear(c) \/ Publish(c)
    \/ At(c, "killed") /\ Exit(c)
    \/ ExitCount(c) \/ ExitDrop(c)

Access(c, va) ==
    \/ Load(c, va) \/ \E v \in Values : Store(c, va, v)
    \/ \E write \in BOOLEAN : Fault(c, va, write)
Call(c) ==
    \/ \E m \in MMS, d \in Cpus : Fork(c, m, d)
    \/ /\ c \in Callers
       /\ \E va \in PAGES : Unmap(c, va) \/ Map(c, va) \/ \E prot \in Prots : Mprotect(c, va, prot)
    \/ InUser(c) /\ Exit(c)

Next ==
    \E c \in Cpus :
        \/ KernelStep(c) \/ TlbIpi(c) \/ ForkFails(c) \/ Call(c)
        \/ /\ c \in Idlers
           /\ Switch(c, task[c], Boot) \/ \E e \in Cpus : SwitchTo(c, e)
        \/ Switch(c, Boot, task[c])
        \/ \E va \in PAGES : Access(c, va)

Spec == Init /\ [][Next]_vars
-----------------------------------------------------------------------------

(* smp_tlb_shootdown: once a page table is unlocked, no CPU that runs on   *)
(* it holds a translation that is gone or that allows more; until it goes  *)
(* on without an answer, for an IPI refused or late.  It may do so for a   *)
(* CPU that is Stuck, though.                                              *)
TranslationsCurrent ==
    "ipi" \notin slips => \A c \in Cpus : loaded[c] # Boot /\ lock[loaded[c]] = NoCpu =>
        \A e \in tlb[c] :
            LET now == Pte(loaded[c], e.va)
            IN  now.kind = "present" /\ now.f = e.f /\ (e.w => now.w)

(* page->ref counts the entries that keep a frame, hidden ones too, and    *)
(* a frame is free exactly when nobody has it: none leaks on any path of   *)
(* fork, fault or exit, none is freed under somebody.                      *)
Removed(m, va) == \E c \in Tasks(m) : op[c].va = va /\ op[c].at \in {"remove", "unmap"}
InHand(f) == {c \in Cpus : op[c].f = f}
FramesExact ==
    \A f \in Frames :
        /\ ref[f] = Cardinality({x \in MMS \X PAGES : Maps(pt[x[1]][x[2]], f) /\ ~Removed(x[1], x[2])})
                    + Cardinality({c \in InHand(f) : op[c].at # "insert"})
        /\ f \in free <=> ref[f] = 0 /\ InHand(f) = {}

(* vmm.c, do_pgfault: "Anonymous pages must not expose bytes left by the   *)
(* physical-page allocator."  A page its address space has not written to  *)
(* reads as cleared, through every translation that the page table gives.  *)
NoLeftoverBytes ==
    \A c \in Cpus : InUser(c) =>
        \A e \in tlb[c] :
            e \in Walk(task[c], e.va) /\ mem[task[c]][e.va] = 0 => content[e.f] = 0

(* vmm.c, mm_mprotect: "A fork-shared COW page must stay COW even when the *)
(* VMA is changed to writable; the first write still has to copy it."      *)
SharedStaysCow ==
    \A m, n \in MMS, va, u \in PAGES :
        pt[m][va].kind = "present" /\ pt[m][va].w /\ Maps(pt[n][u], pt[m][va].f)
            => <<m, va>> = <<n, u>>
====
