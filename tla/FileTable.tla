----------------------------- MODULE FileTable -----------------------------
(***************************************************************************)
(* Descriptor tables and open-file descriptions (kern/fs/file.c, fs.c):    *)
(* open, close, dup, fork (with or without CLONE_FS), exec and exit, with  *)
(* the two counters of a description.  ref_count keeps it allocated,       *)
(* descriptor_count is the number of descriptors that name it.             *)
(*                                                                         *)
(* A step is a critical section of files_sem, or one open_file_put (an     *)
(* atomic decrement).  An operation in flight (read, write, seek, ...)     *)
(* holds a reference it took in fd_acquire; so does a close or an exec     *)
(* between detaching descriptors and putting them.                         *)
(***************************************************************************)
EXTENDS Integers, Sequences, FiniteSets, Functions, FsTasks

CONSTANTS
    Tables, Descs,
    FILES_STRUCT_NENTRY,
    FirstClosed     (* files_closeall keeps the descriptors below this     *)

ASSUME FileTableAssumption ==
    /\ None \notin Procs \cup Tables \cup Descs
    /\ IsFiniteSet(Procs) /\ IsFiniteSet(Tables)
    /\ FILES_STRUCT_NENTRY \in Nat \ {0} /\ FirstClosed \in Nat
    /\ {"NONE", "INIT"} \cap Descs = {}

VARIABLES
    fd_array,           (* per table: FD_NONE, FD_INIT or the description  *)
    files_count,
    filesp,             (* table of each process, None once it has exited  *)
    allocated, ref_count, descriptor_count,
    reserved,           (* FD_INIT slots of the open or pipe in progress   *)
    fresh,              (* descriptions created and not yet installed      *)
    puts,               (* references the call in progress has to put      *)
    dying               (* table that the process is about to destroy      *)

descs == <<allocated, ref_count, descriptor_count>>
vars == <<fd_array, files_count, filesp, descs, reserved, fresh, puts, dying>>

Fds == 0 .. FILES_STRUCT_NENTRY - 1

TypeOK ==
    /\ fd_array \in [Tables -> [Fds -> {"NONE", "INIT"} \cup Descs]]
    /\ files_count \in [Tables -> 0 .. Cardinality(Procs)]
    /\ filesp \in [Procs -> Tables \cup {None}] /\ dying \in [Procs -> Tables \cup {None}]
    /\ allocated \subseteq Descs
    /\ ref_count \in [Descs -> Nat] /\ descriptor_count \in [Descs -> Nat]
    /\ reserved \in [Procs -> Seq(Fds)]
    /\ fresh \in [Procs -> Seq(Descs)] /\ puts \in [Procs -> Seq(Descs)]

(* One process with an empty table.                                        *)
Init ==
    /\ fd_array = [t \in Tables |-> [fd \in Fds |-> "NONE"]]
    /\ \E p \in Procs, t \in Tables :
        /\ filesp = [q \in Procs |-> IF q = p THEN t ELSE None]
        /\ files_count = [u \in Tables |-> IF u = t THEN 1 ELSE 0]
    /\ allocated = {}
    /\ ref_count = [d \in Descs |-> 0] /\ descriptor_count = [d \in Descs |-> 0]
    /\ reserved = [p \in Procs |-> <<>>] /\ fresh = [p \in Procs |-> <<>>]
    /\ puts = [p \in Procs |-> <<>>]
    /\ dying = [p \in Procs |-> None]
-----------------------------------------------------------------------------
Ready(p) == filesp[p] # None /\ reserved[p] = <<>> /\ puts[p] = <<>> /\ dying[p] = None

(* fd2file_locked: the descriptions that fd names.                         *)
Opened(t, fd) == fd_array[t][fd] \in Descs

Bug_TakeInit(t, fds) ==
    \A i \in DOMAIN fds : \A e \in Fds :
        (~Opened(t, e) /\ e <= fds[i]) <=> (\E j \in 1 .. i : e = fds[j])
(* fd_array_alloc(NO_FD), once or twice: fds are the lowest free slots.    *)
LowestFree(t, fds) ==
    \A i \in DOMAIN fds : \A e \in Fds :
        (fd_array[t][e] = "NONE" /\ e <= fds[i]) <=> (\E j \in 1 .. i : e = fds[j])

Slots(t, d) == {fd \in Fds : fd_array[t][fd] = d}

(* open_file_get_descriptor, n times.                                      *)
GotDescriptors(count, n) == [d \in Descs |-> count[d] + n[d]]

(* files_detach: the slots it closes.                                      *)
Detached(t, first) == {fd \in Fds : fd >= first /\ Opened(t, fd)}

(* The descriptions array files_detach fills, in descriptor order.         *)
DetachedSeq(t, first) ==
    LET D == Detached(t, first)
        rank(fd) == Cardinality({e \in D : e <= fd})
    IN  [i \in 1 .. Cardinality(D) |-> fd_array[t][CHOOSE fd \in D : rank(fd) = i]]
-----------------------------------------------------------------------------
(* file_open and the socket calls take one slot, file_pipe and             *)
(* file_socketpair_create two: reserve, create the descriptions, install.  *)
(* (A pipe that finds a single free slot takes it and gives it back, as    *)
(* an open that fails does.)                                               *)
OpenReserve(p, fds) ==
    LET t == filesp[p] IN
    /\ Ready(p) /\ LowestFree(t, fds)
    /\ fd_array' = [fd_array EXCEPT ![t] = [fd \in Fds |-> IF fd \in Range(fds) THEN "INIT" ELSE @[fd]]]
    /\ reserved' = [reserved EXCEPT ![p] = fds]
    /\ UNCHANGED <<files_count, filesp, descs, fresh, puts, dying>>

OpenCreate(p, d) ==
    /\ Len(fresh[p]) < Len(reserved[p]) /\ d \notin allocated
    /\ allocated' = allocated \cup {d}
    /\ ref_count' = [ref_count EXCEPT ![d] = 1]
    /\ descriptor_count' = [descriptor_count EXCEPT ![d] = 1]
    /\ fresh' = [fresh EXCEPT ![p] = Append(@, d)]
    /\ UNCHANGED <<fd_array, files_count, filesp, reserved, puts, dying>>

(* fd_array_install for every slot, in one critical section.               *)
Installed(slots, new, fd) == new[CHOOSE i \in DOMAIN slots : slots[i] = fd]

OpenInstall(p) ==
    LET slots == reserved[p] IN
    /\ slots # <<>> /\ Len(fresh[p]) = Len(slots)
    /\ fd_array' = [fd_array EXCEPT ![filesp[p]] =
            [fd \in Fds |-> IF fd \in Range(slots) THEN Installed(slots, fresh[p], fd) ELSE @[fd]]]
    /\ reserved' = [reserved EXCEPT ![p] = <<>>]
    /\ fresh' = [fresh EXCEPT ![p] = <<>>]
    /\ UNCHANGED <<files_count, filesp, descs, puts, dying>>

(* A failure: a description made for the first slot is dropped and put,    *)
(* which frees it (nobody else has seen it), and the slots are cancelled.  *)
Bug_LeakFirst(p) == {}
Undone(p) == Range(fresh[p])

OpenCancel(p) ==
    /\ Len(fresh[p]) < Len(reserved[p])
    /\ fd_array' = [fd_array EXCEPT ![filesp[p]] =
            [fd \in Fds |-> IF fd \in Range(reserved[p]) THEN "NONE" ELSE @[fd]]]
    /\ allocated' = allocated \ Undone(p)
    /\ ref_count' = [d \in Descs |-> IF d \in Undone(p) THEN 0 ELSE ref_count[d]]
    /\ descriptor_count' = [d \in Descs |-> IF d \in Undone(p) THEN 0 ELSE descriptor_count[d]]
    /\ reserved' = [reserved EXCEPT ![p] = <<>>]
    /\ fresh' = [fresh EXCEPT ![p] = <<>>]
    /\ UNCHANGED <<files_count, filesp, puts, dying>>

(* fd_acquire: a read, write, seek, stat, ... holds a reference until its  *)
(* open_file_put.                                                          *)
Acquire(p, fd) ==
    LET d == fd_array[filesp[p]][fd] IN
    /\ Ready(p) /\ Opened(filesp[p], fd)
    /\ ref_count' = [ref_count EXCEPT ![d] = @ + 1]
    /\ puts' = [puts EXCEPT ![p] = <<d>>]
    /\ UNCHANGED <<fd_array, files_count, filesp, allocated, descriptor_count, reserved, fresh, dying>>

(* open_file_put: the last reference frees the description.                *)
LastReference(d) == ref_count[d] = 1

Put(p) ==
    LET d == Head(puts[p]) IN
    /\ puts[p] # <<>>
    /\ ref_count' = [ref_count EXCEPT ![d] = @ - 1]
    /\ allocated' = IF LastReference(d) THEN allocated \ {d} ELSE allocated
    /\ puts' = [puts EXCEPT ![p] = Tail(@)]
    /\ UNCHANGED <<fd_array, files_count, filesp, descriptor_count, reserved, fresh, dying>>

(* file_close: fd_array_close drops the descriptor, its reference is put   *)
(* after the unlock.                                                       *)
Close(p, fd) ==
    LET t == filesp[p] IN
    /\ Ready(p) /\ Opened(t, fd)
    /\ fd_array' = [fd_array EXCEPT ![t][fd] = "NONE"]
    /\ descriptor_count' = [descriptor_count EXCEPT ![fd_array[t][fd]] = @ - 1]
    /\ puts' = [puts EXCEPT ![p] = <<fd_array[t][fd]>>]
    /\ UNCHANGED <<files_count, filesp, allocated, ref_count, reserved, fresh, dying>>

(* file_dup and F_DUPFD: to a free slot, or over an open one, never over   *)
(* FD_INIT.                                                                *)
Dup(p, from, to) ==
    LET t == filesp[p]
        d == fd_array[t][from]
        old == fd_array[t][to]
        one == [e \in Descs |-> IF e = d THEN 1 ELSE 0]
    IN  /\ Ready(p) /\ Opened(t, from) /\ to # from /\ old # "INIT"
        /\ fd_array' = [fd_array EXCEPT ![t][to] = d]
        /\ ref_count' = GotDescriptors(ref_count, one)
        /\ descriptor_count' =
            GotDescriptors([e \in Descs |-> IF e = old THEN descriptor_count[e] - 1 ELSE descriptor_count[e]], one)
        /\ puts' = [puts EXCEPT ![p] = IF old \in Descs THEN <<old>> ELSE <<>>]
        /\ UNCHANGED <<files_count, filesp, allocated, reserved, fresh, dying>>
-----------------------------------------------------------------------------
(* copy_fs: with CLONE_FS the child shares the table, without it dup_fs    *)
(* copies the open slots (not FD_INIT) into a new one.                     *)
ForkShare(p, c) ==
    /\ Ready(p) /\ filesp[c] = None /\ dying[c] = None /\ puts[c] = <<>>
    /\ filesp' = [filesp EXCEPT ![c] = filesp[p]]
    /\ files_count' = [files_count EXCEPT ![filesp[p]] = @ + 1]
    /\ UNCHANGED <<fd_array, descs, reserved, fresh, puts, dying>>

ForkCopy(p, c, t) ==
    LET from == filesp[p]
        n == [d \in Descs |-> Cardinality(Slots(from, d))]
    IN  /\ Ready(p) /\ filesp[c] = None /\ dying[c] = None /\ puts[c] = <<>>
        /\ files_count[t] = 0 /\ \A q \in Procs : dying[q] # t
        /\ fd_array' = [fd_array EXCEPT ![t] =
                            [fd \in Fds |-> IF Opened(from, fd) THEN fd_array[from][fd] ELSE "NONE"]]
        /\ ref_count' = GotDescriptors(ref_count, n)
        /\ descriptor_count' = GotDescriptors(descriptor_count, n)
        /\ files_count' = [files_count EXCEPT ![t] = 1]
        /\ filesp' = [filesp EXCEPT ![c] = t]
        /\ UNCHANGED <<allocated, reserved, fresh, puts, dying>>

(* files_detach of the slots from first on.                                *)
DetachFrom(p, t, first) ==
    LET D == Detached(t, first) IN
    /\ fd_array' = [fd_array EXCEPT ![t] = [fd \in Fds |-> IF fd \in D THEN "NONE" ELSE @[fd]]]
    /\ descriptor_count' =
        [d \in Descs |-> descriptor_count[d] - Cardinality({fd \in D : fd_array[t][fd] = d})]
    /\ puts' = [puts EXCEPT ![p] = DetachedSeq(t, first)]

(* do_execve: files_closeall, on a shared table too.                       *)
Exec(p) ==
    /\ Ready(p)
    /\ DetachFrom(p, filesp[p], FirstClosed)
    /\ UNCHANGED <<files_count, filesp, allocated, ref_count, reserved, fresh, dying>>

(* do_exit: put_fs; the last process destroys the table.                   *)
Exit(p) ==
    LET t == filesp[p] IN
    /\ Ready(p)
    /\ files_count' = [files_count EXCEPT ![t] = @ - 1]
    /\ filesp' = [filesp EXCEPT ![p] = None]
    /\ dying' = [dying EXCEPT ![p] = IF files_count[t] = 1 THEN t ELSE None]
    /\ UNCHANGED <<fd_array, descs, reserved, fresh, puts>>

files_destroy(p) ==
    /\ dying[p] # None
    /\ DetachFrom(p, dying[p], 0)
    /\ dying' = [dying EXCEPT ![p] = None]
    /\ UNCHANGED <<files_count, filesp, allocated, ref_count, reserved, fresh>>
-----------------------------------------------------------------------------
Finish(p) == OpenInstall(p) \/ OpenCancel(p) \/ Put(p) \/ files_destroy(p)

Next ==
    \E p \in Procs :
        \/ Finish(p) \/ Exec(p) \/ Exit(p)
        \/ \E fd \in Fds : OpenReserve(p, <<fd>>) \/ Acquire(p, fd) \/ Close(p, fd)
        \/ \E fd, e \in Fds : fd < e /\ OpenReserve(p, <<fd, e>>)
        \/ \E fd, to \in Fds : Dup(p, fd, to)
        \/ \E d \in Descs : OpenCreate(p, d)
        \/ \E c \in Procs : ForkShare(p, c) \/ \E t \in Tables : ForkCopy(p, c, t)

Spec == Init /\ [][Next]_vars
-----------------------------------------------------------------------------
(* The descriptors, the references in hand and the opens in progress that  *)
(* name d.                                                                 *)
Names(d) == {s \in Tables \X Fds : fd_array[s[1]][s[2]] = d}
Hands(d) == {h \in Procs \X (1 .. FILES_STRUCT_NENTRY) :
                h[2] <= Len(puts[h[1]]) /\ puts[h[1]][h[2]] = d}
Makers(d) == {p \in Procs : d \in Range(fresh[p])}

Named(d) == Cardinality(Names(d))
Held(d) == Cardinality(Hands(d))
Uninstalled(d) == Cardinality(Makers(d))

(* struct open_file: "One open-file description may be referenced by       *)
(* several descriptors and by in-flight operations."  Its ref_count is     *)
(* exactly those references, so it is freed with the last one, never       *)
(* earlier; and descriptor_count, which decides when a socket's peer is    *)
(* told of the close, counts the descriptors in all tables                 *)
(* (open_file_put: assert(description->descriptor_count == 0)).            *)
RefCountExact ==
    \A d \in Descs :
        /\ ref_count[d] = Named(d) + Held(d) + Uninstalled(d)
        /\ descriptor_count[d] = Named(d) + Uninstalled(d)
        /\ d \in allocated <=> ref_count[d] > 0

(* The opens in progress that reserved slot fd of table t.                 *)
Owners(t, fd) == {p \in Procs : filesp[p] = t /\ fd \in Range(reserved[p])}

(* fd_array_install and fd_array_cancel: assert(file->status == FD_INIT);  *)
(* files_destroy: assert(status == FD_NONE).  An FD_INIT slot belongs to   *)
(* exactly one open in progress, whoever dups, execs, closes or forks with *)
(* the shared table meanwhile, and none is left in a table that is         *)
(* destroyed.                                                              *)
ReservedSlotsOwned ==
    \A t \in Tables, fd \in Fds :
        /\ fd_array[t][fd] = "INIT" <=> Owners(t, fd) # {}
        /\ Cardinality(Owners(t, fd)) <= 1
=============================================================================
