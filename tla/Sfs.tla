-------------------------------- MODULE Sfs --------------------------------
(***************************************************************************)
(* Names and inodes: the path walk and reference counts of kern/fs/vfs and *)
(* the namespace of kern/fs/sfs/sfs_inode.c (create, mkdir, symlink, link, *)
(* unlink, rmdir, rename, load and reclaim).                               *)
(*                                                                         *)
(* A step is a section under fs_sem or the semaphore of one directory, or  *)
(* one atomic change of a reference count.  mutex_sem, which unlink, rmdir *)
(* and rename keep over several steps, is a variable.  Contents and blocks *)
(* of files are left out; an inode is named by its block.  A disk access   *)
(* may fail, but not one that undoes a change.  A process whose assertion  *)
(* fails takes no further step.                                            *)
(***************************************************************************)
EXTENDS Integers, Sequences, FiniteSets, FiniteSetsExt, SequencesExt, FsTasks

CONSTANTS
    INOS,       (* blocks that may hold an inode, 1 .. INOS; 1 is the root *)
    FileNames,  (* file names but "." and ".."                             *)
    Scenes,     (* what is on the disk, and the calls each process makes   *)
    FAULTS,     (* bound: disk accesses that fail                          *)
    TOKENS      (* bound: reclaim_count                                    *)

ROOT == 1
Inos == 1 .. INOS
AllNames == FileNames \cup {".", ".."}

Builders == {"make", "mkdir", "symlink"}
Removers == {"unlink", "rmdir"}
Creators == {"create", "excl"}      (* O_CREAT without and with O_EXCL *)
Ops == Builders \cup Removers \cup Creators \cup {"open", "link", "rename"}

(* The calls there are; "make" is what O_CREAT goes on with.  sfs_create   *)
(* and the others but sfs_link refuse the names "." and ".." before they   *)
(* do anything, and O_CREAT of an existing one is "open".                  *)
CallOK(c) ==
    /\ c \in [op : Ops \ {"make"}, path : Seq(AllNames), to : Seq(AllNames)]
    /\ c.op # "open" => c.path # <<>>
    /\ c.op \notin {"open", "link"} => Last(c.path) \in FileNames
    /\ c.op \in {"link", "rename"} => c.to # <<>>
    /\ c.op = "rename" => Last(c.to) \in FileNames

(* The chain of ".." from d, and how often an inode is named.              *)
Above(e, d) ==
    LET up[k \in 0 .. INOS] ==
            IF k = 0 THEN d ELSE IF up[k - 1] = 0 THEN 0 ELSE e[up[k - 1]][".."]
    IN  up
Naming(e, i) == Cardinality({x \in Inos \X AllNames : e[x[1]][x[2]] = i})

(* A sound file system: directories below the root, each with one name, no *)
(* entry for a free block, and nothing below itself.                       *)
NamesOK(e, type) ==
    /\ e \in [Inos -> [AllNames -> Inos \cup {0}]] /\ type \in [Inos -> {"free", "file", "dir"}]
    /\ type[ROOT] = "dir" /\ e[ROOT]["."] = ROOT /\ e[ROOT][".."] = ROOT
    /\ \A i \in Inos : type[i] # "dir" => \A n \in AllNames : e[i][n] = 0
    /\ \A i \in Inos : type[i] = "free" => Naming(e, i) = 0
    /\ \A d \in Inos, n \in FileNames :
          LET i == e[d][n] IN
          i # 0 /\ type[i] = "dir" =>
              /\ i \notin {d, ROOT} /\ e[i]["."] = i /\ e[i][".."] = d
              /\ \A m \in FileNames : e[d][m] = i => m = n
DiskOK(e, type) ==
    /\ NamesOK(e, type)
    /\ \A i \in Inos : Above(e, i)[INOS] \in {0, ROOT}

ASSUME SfsAssumption ==
    /\ IsFiniteSet(Procs) /\ None \notin Procs
    /\ IsFiniteSet(FileNames) /\ FileNames \cap {".", ".."} = {}
    /\ INOS \in Nat \ {0} /\ FAULTS \in Nat /\ TOKENS \in Nat \ {0}
    /\ \A s \in Scenes : DiskOK(s.ent, s.types) /\ \A p \in Procs : \A c \in s.calls[p] : CallOK(c)

VARIABLES
    scene,      (* the one of Scenes that is played                        *)
    ent,        (* directory entries on disk; 0 is an empty slot           *)
    nd,         (* inodes                                                  *)
    mutex,      (* mutex_sem: who holds it                                 *)
    fs,         (* fs_sem: who holds it for ever                           *)
    pr,         (* what each process does                                  *)
    faults      (* disk accesses that have failed                          *)

sfs_vars == <<scene, ent, nd, mutex, fs, pr, faults>>

(* type: "free" if the block is free in the freemap; links and disk:       *)
(* nlinks in memory and on disk; token: reclaim_count.  History: lost,     *)
(* entries for this inode that went with a removed directory.              *)
NewInode(type) ==
    [type |-> type, cached |-> TRUE, ref |-> 1, token |-> 1, links |-> 0, disk |-> 0,
     dirty |-> FALSE, lost |-> 0]
Absent == [NewInode("free") EXCEPT !.cached = FALSE, !.ref = 0, !.token = 0]

(* at: idle; walk, components in rest are left; load, a component was      *)
(* found to be ino; call, all paths are walked; target and change, the     *)
(* same two steps under mutex_sem; stuck, for ever.  hold: references in   *)
(* hand, the last the one being walked; drop: those to give back next;     *)
(* claim: the inode whose vop_reclaim comes first; open: the open file.    *)
NoCall == [op |-> "none", path |-> <<>>, to |-> <<>>]
Idle == [at |-> "idle", call |-> NoCall, second |-> FALSE, rest |-> <<>>, hold |-> <<>>,
         ino |-> 0, drop |-> <<>>, claim |-> 0, open |-> 0]

SfsTypeOK ==
    /\ scene \in Scenes
    /\ ent \in [Inos -> [AllNames -> Inos \cup {0}]]
    /\ \A i \in Inos :
        /\ nd[i].type \in {"free", "file", "dir"} /\ nd[i].token \in 0 .. TOKENS
        /\ {nd[i].ref, nd[i].links, nd[i].disk, nd[i].lost} \subseteq Nat
    /\ mutex \in Procs \cup {None} /\ fs \in Procs \cup {None} /\ faults \in 0 .. FAULTS
    /\ \A p \in Procs : pr[p].call.op \in Ops \cup {"none"} /\ pr[p].open \in Inos \cup {0}

(* The entries a scene starts with; nlinks on disk fit them.               *)
SfsInit ==
    /\ scene \in Scenes
    /\ ent = scene.ent
    /\ nd = [i \in Inos |->
                IF i = ROOT
                THEN [NewInode("dir") EXCEPT !.links = Naming(ent, i), !.disk = Naming(ent, i)]
                ELSE [Absent EXCEPT !.type = scene.types[i], !.links = Naming(ent, i),
                                    !.disk = Naming(ent, i)]]
    /\ mutex = None /\ fs = None
    /\ pr = [p \in Procs |-> Idle]
    /\ faults = 0
-----------------------------------------------------------------------------
IsDir(i) == nd[i].type = "dir"
Free == {i \in Inos : nd[i].type = "free"}
Fault == faults < FAULTS /\ faults' = faults + 1

(* A call waits for its vop_ref_dec's, and the reclaim these lead to.      *)
Stands(p, at) == pr[p].at = at /\ pr[p].drop = <<>> /\ pr[p].claim = 0
Set(p, s) == pr' = [pr EXCEPT ![p] = s]
Op(p) == pr[p].call.op

(* The call returns and gives its references back, in the code's order.    *)
Returned(s) == [Idle EXCEPT !.drop = Reverse(s.hold), !.open = s.open]
Return(p) == Set(p, Returned(pr[p]))
Arrived(s) == [s EXCEPT !.at = IF s.rest = <<>> THEN "call" ELSE "walk"]

(* vfs_lookup goes to the end of the path, vfs_lookup_parent to the        *)
(* directory before it.                                                    *)
Walked(op, path) == IF op \in Creators \cup {"open", "link"} THEN path ELSE Front(path)
-----------------------------------------------------------------------------
(* vfs_get_bootfs and the first component.                                 *)
Begin(p, c) ==
    /\ Stands(p, "idle")
    /\ c.op \in Creators \cup {"open"} => pr[p].open = 0
    /\ nd' = [nd EXCEPT ![ROOT].ref = @ + 1]
    /\ Set(p, Arrived([pr[p] EXCEPT !.call = c, !.rest = Walked(c.op, c.path), !.hold = <<ROOT>>]))
    /\ UNCHANGED <<scene, ent, mutex, fs, faults>>

(* The second path of link and rename.                                     *)
SecondPath(p) ==
    /\ Stands(p, "call") /\ Op(p) \in {"link", "rename"} /\ ~pr[p].second
    /\ nd' = [nd EXCEPT ![ROOT].ref = @ + 1]
    /\ Set(p, Arrived([pr[p] EXCEPT !.second = TRUE, !.rest = Front(pr[p].call.to),
                                    !.hold = Append(@, ROOT)]))
    /\ UNCHANGED <<scene, ent, mutex, fs, faults>>

(* The inodes a stuck process keeps locked.                                *)
Locked(i) == \E q \in Procs : pr[q].at = "stuck" /\ i \in Range(pr[q].hold)

(* sfs_lookup_once: the search, under the directory's semaphore.  O_CREAT  *)
(* starts over with the parent when there is no such file.  The other      *)
(* inodes have no vop_lookup: an assertion fails.                          *)
Search(p) ==
    LET d == Last(pr[p].hold)
        i == ent[d][Head(pr[p].rest)]
    IN  /\ Stands(p, "walk") /\ IsDir(d) /\ ~Locked(d)
        /\ \/ /\ i # 0
              /\ Set(p, [pr[p] EXCEPT !.at = "load", !.ino = i])
              /\ UNCHANGED <<nd, faults>>
           \/ /\ i = 0 /\ Op(p) \in Creators
              /\ nd' = [nd EXCEPT ![ROOT].ref = @ + 1]
              /\ Set(p, Arrived([pr[p] EXCEPT !.call.op = "make", !.rest = Front(pr[p].call.path),
                                              !.hold = <<ROOT>>, !.drop = pr[p].hold]))
              /\ UNCHANGED faults
           \/ /\ i = 0 /\ Op(p) \notin Creators
              /\ Return(p) /\ UNCHANGED <<nd, faults>>
           \/ Fault /\ Return(p) /\ UNCHANGED nd
        /\ UNCHANGED <<scene, ent, mutex, fs>>

(* sfs_load_inode.  The assertions: the block is in use and nlinks # 0.    *)
Loadable(i) == nd[i].type # "free" /\ nd[i].disk # 0
Loaded(i) ==
    IF nd[i].cached THEN [nd[i] EXCEPT !.ref = @ + 1, !.token = IF nd[i].ref = 0 THEN @ + 1 ELSE @]
    ELSE [nd[i] EXCEPT !.cached = TRUE, !.ref = 1, !.token = 1, !.links = nd[i].disk,
                       !.dirty = FALSE]

Load(p) ==
    LET i == pr[p].ino IN
    /\ i # 0 /\ fs = None
    /\ nd[i].cached \/ Loadable(i)
    /\ nd[i].cached /\ nd[i].ref = 0 => nd[i].token < TOKENS
    /\ nd' = [nd EXCEPT ![i] = Loaded(i)]
    /\ \/ /\ Stands(p, "load")
          /\ Set(p, Arrived([pr[p] EXCEPT !.rest = Tail(@), !.hold = Append(Front(@), i),
                                          !.drop = <<Last(pr[p].hold)>>, !.ino = 0]))
       \/ /\ Stands(p, "target")
          /\ Set(p, [pr[p] EXCEPT !.at = "change", !.hold = Append(@, i), !.ino = 0])
    /\ UNCHANGED <<scene, ent, mutex, fs, faults>>

Unlocked(p) == IF mutex = p THEN None ELSE mutex
LoadFails(p) ==
    /\ Stands(p, "load") \/ Stands(p, "target")
    /\ fs = None /\ ~nd[pr[p].ino].cached /\ Loadable(pr[p].ino)
    /\ Fault
    /\ mutex' = Unlocked(p)
    /\ Set(p, [Returned(pr[p]) EXCEPT !.drop = IF pr[p].at = "load" THEN @ ELSE pr[p].hold])
    /\ UNCHANGED <<scene, ent, nd, fs>>

(* inode_ref_dec                                                           *)
RefDec(p) ==
    LET i == Head(pr[p].drop) IN
    /\ pr[p].claim = 0 /\ pr[p].drop # <<>>
    /\ nd' = [nd EXCEPT ![i].ref = @ - 1]
    /\ Set(p, [pr[p] EXCEPT !.drop = Tail(@), !.claim = IF nd[i].ref = 1 THEN i ELSE 0])
    /\ UNCHANGED <<scene, ent, mutex, fs, faults>>

(* The blocks of a directory nobody names are freed with what they list.   *)
Truncated(i) ==
    [j \in Inos |-> [nd[j] EXCEPT !.lost =
        @ + IF nd[i].links = 0 /\ j # i THEN Cardinality({n \in AllNames : ent[i][n] = j}) ELSE 0]]
Emptied(i) == [ent EXCEPT ![i] = IF nd[i].links = 0 THEN [n \in AllNames |-> 0] ELSE @]

(* sfs_reclaim: not while somebody has come to use the inode again, nor    *)
(* while another reclaim is under way.                                     *)
Bug_ReclaimAnyway(i) == nd[i].ref # 0
Busy(i) == nd[i].ref # 0 \/ nd[i].token # 1

ReclaimBusy(p) ==
    LET i == pr[p].claim IN
    /\ i # 0 /\ fs = None /\ Busy(i)
    /\ nd' = [nd EXCEPT ![i].token = IF nd[i].ref = 0 THEN @ - 1 ELSE @]
    /\ Set(p, [pr[p] EXCEPT !.claim = 0])
    /\ UNCHANGED <<scene, ent, mutex, fs, faults>>

Bug_NoFsync(i) == nd[i].disk
Flushed(i) == IF nd[i].dirty THEN nd[i].links ELSE nd[i].disk
Reclaim(p) ==
    LET i == pr[p].claim IN
    /\ i # 0 /\ fs = None /\ ~Busy(i)
    /\ ent' = Emptied(i)
    /\ nd' = [Truncated(i) EXCEPT ![i] =
                IF nd[i].links = 0 THEN Absent
                ELSE [@ EXCEPT !.cached = FALSE, !.token = 0, !.disk = Flushed(i), !.dirty = FALSE]]
    /\ Set(p, [pr[p] EXCEPT !.claim = 0])
    /\ UNCHANGED <<scene, mutex, fs, faults>>

(* vop_truncate or vop_fsync fails: the inode stays, its token consumed.   *)
ReclaimFails(p) ==
    LET i == pr[p].claim IN
    /\ i # 0 /\ fs = None /\ ~Busy(i)
    /\ nd[i].dirty \/ nd[i].links = 0
    /\ Fault
    /\ \/ /\ ent' = Emptied(i)
          /\ nd' = [Truncated(i) EXCEPT ![i].token = 0, ![i].dirty = TRUE]
       \/ /\ nd[i].links = 0
          /\ nd' = [nd EXCEPT ![i].token = 0, ![i].dirty = TRUE]
          /\ UNCHANGED ent
    /\ Set(p, [pr[p] EXCEPT !.claim = 0])
    /\ UNCHANGED <<scene, mutex, fs>>
-----------------------------------------------------------------------------
(* vfs_open, once it has the inode: refused with O_EXCL, and for writing   *)
(* to a directory.  The last vfs_close writes the inode.                   *)
Open(p) ==
    LET i == Last(pr[p].hold) IN
    /\ Stands(p, "call") /\ Op(p) \in Creators \cup {"open"}
    /\ \/ Op(p) # "excl" /\ Set(p, [Idle EXCEPT !.open = i])
       \/ (Op(p) = "excl" \/ IsDir(i)) /\ Return(p)
    /\ UNCHANGED <<scene, ent, nd, mutex, fs, faults>>

Synced(i, ok) == IF ok THEN [nd[i] EXCEPT !.disk = Flushed(i), !.dirty = FALSE] ELSE nd[i]
VfsClose(p, ok) ==
    LET i == pr[p].open
        last == \A q \in Procs \ {p} : pr[q].open # i
    IN  /\ Stands(p, "idle") /\ i # 0
        /\ last /\ nd[i].dirty => ~Locked(i)
        /\ IF ok THEN UNCHANGED faults ELSE last /\ nd[i].dirty /\ Fault
        /\ nd' = IF last THEN [nd EXCEPT ![i] = Synced(i, ok)] ELSE nd
        /\ Set(p, [Idle EXCEPT !.drop = <<i>>])
        /\ UNCHANGED <<scene, ent, mutex, fs>>

(* sfs_sync; an inode that cannot be written stays dirty.                  *)
Sync ==
    /\ fs = None /\ \E i \in Inos : nd[i].cached /\ nd[i].dirty
    /\ nd' = [i \in Inos |-> IF nd[i].cached THEN Synced(i, TRUE) ELSE nd[i]]
    /\ UNCHANGED <<scene, ent, mutex, fs, pr, faults>>
-----------------------------------------------------------------------------
(* sfs_create, sfs_mkdir, sfs_symlink: one section under all the locks.    *)
May(p) == Stands(p, "call") /\ mutex = None /\ fs = None
Dir(p) == pr[p].hold[1]
Name(p) == Last(pr[p].call.path)
Makes(p) ==
    /\ May(p) /\ Op(p) \in Builders
    /\ IsDir(Dir(p)) /\ ent[Dir(p)][Name(p)] = 0 /\ Free # {}

Refused(p) ==
    /\ May(p) /\ Op(p) \in Builders
    /\ \/ ~Makes(p) /\ UNCHANGED faults
       \/ Makes(p) /\ Fault      (* before there is an inode *)
    /\ Return(p)
    /\ UNCHANGED <<scene, ent, nd, mutex, fs>>

Make(p) ==
    LET i == Min(Free)
        d == Dir(p)
        isdir == Op(p) = "mkdir"
    IN  /\ Makes(p)
        /\ ent' = [ent EXCEPT ![d][Name(p)] = i,
                              ![i] = IF isdir THEN [@ EXCEPT !["."] = i, ![".."] = d] ELSE @]
        /\ nd' = [nd EXCEPT ![i] = [NewInode(IF isdir THEN "dir" ELSE "file") EXCEPT
                                        !.links = IF isdir THEN 2 ELSE 1, !.dirty = TRUE],
                            ![d].links = IF isdir THEN @ + 1 ELSE @, ![d].dirty = TRUE]
        /\ Set(p, IF Op(p) = "make"
                  THEN [pr[p] EXCEPT !.call.op = "open", !.hold = <<i>>, !.drop = <<d>>]
                  ELSE [Returned(pr[p]) EXCEPT !.drop = <<i, d>>])
        /\ UNCHANGED <<scene, mutex, fs, faults>>

(* Entry n could not be written; what was linked before is taken back and  *)
(* the new inode, without links, reclaimed.                                *)
MakeFails(p, n) ==
    LET i == Min(Free)
        d == Dir(p)
        isdir == Op(p) = "mkdir"
    IN  /\ Makes(p) /\ (isdir \/ n = "") /\ Fault
        /\ nd' = [nd EXCEPT ![i] = [NewInode(IF isdir THEN "dir" ELSE "file") EXCEPT
                                        !.dirty = isdir],
                            ![d].dirty = @ \/ (isdir /\ n = "")]
        /\ Set(p, [Returned(pr[p]) EXCEPT !.drop = <<i, d>>])
        /\ UNCHANGED <<scene, ent, mutex, fs>>
-----------------------------------------------------------------------------
(* A process that locks a directory it has locked keeps everything.        *)
Stuck(p) == mutex' = p /\ fs' = p /\ Set(p, [pr[p] EXCEPT !.at = "stuck"])
Unlock(p) == mutex' = None /\ UNCHANGED fs

(* sfs_link.  The target may have been unlinked since it was looked up.    *)
Link(p) ==
    LET t == pr[p].hold[1]
        d == pr[p].hold[2]
        n == Last(pr[p].call.to)
        links == ~IsDir(t) /\ ent[d][n] = 0
    IN  /\ May(p) /\ Op(p) = "link" /\ pr[p].second
        /\ \/ IsDir(d) /\ t = d /\ Stuck(p) /\ UNCHANGED <<ent, nd, faults>>
           \/ /\ IsDir(d) => t # d
              /\ IF links /\ IsDir(d) THEN Fault ELSE UNCHANGED faults
              /\ Return(p) /\ UNCHANGED <<ent, nd, mutex, fs>>
           \/ /\ IsDir(d) /\ links
              /\ ent' = [ent EXCEPT ![d][n] = t]
              /\ nd' = [nd EXCEPT ![t].links = @ + 1, ![t].dirty = TRUE, ![d].dirty = TRUE]
              /\ Return(p) /\ UNCHANGED <<mutex, fs, faults>>
        /\ UNCHANGED scene

(* sfs_unlink, sfs_rmdir and sfs_rename find their target first; Load      *)
(* follows.                                                                *)
Find(p) ==
    LET i == ent[Dir(p)][Name(p)]
        dirs == \A d \in Range(pr[p].hold) : IsDir(d)
    IN  /\ Stands(p, "call") /\ mutex = None
        /\ Op(p) \in Removers \/ (Op(p) = "rename" /\ pr[p].second)
        /\ \/ /\ dirs /\ i # 0
              /\ mutex' = p
              /\ Set(p, [pr[p] EXCEPT !.at = "target", !.ino = i])
              /\ UNCHANGED faults
           \/ /\ IF dirs /\ i # 0 THEN Fault ELSE UNCHANGED faults
              /\ Set(p, [Returned(pr[p]) EXCEPT !.drop = pr[p].hold])
              /\ UNCHANGED mutex
        /\ UNCHANGED <<scene, ent, nd, fs>>

Empty(i) == \A n \in FileNames : ent[i][n] = 0
Removable(p, i) == IF IsDir(i) THEN Empty(i) ELSE Op(p) = "unlink"

(* sfs_unlink and sfs_rmdir.  A directory loses its ".." and "." too; a    *)
(* failure to clear these is ignored (one fault may hit both).             *)
Unlink(p, dotdot, dot) ==
    LET d == pr[p].hold[1]
        i == pr[p].hold[2]
        cleared == {n \in {".", ".."} : IsDir(i) /\ (IF n = "." THEN dot ELSE dotdot)}
    IN  /\ Stands(p, "change") /\ fs = None /\ Op(p) \in Removers
        /\ Removable(p, i)
        /\ IF dotdot /\ dot THEN UNCHANGED faults ELSE IsDir(i) /\ Fault
        /\ ent' = [ent EXCEPT ![d][Name(p)] = 0,
                              ![i] = [n \in AllNames |-> IF n \in cleared THEN 0 ELSE @[n]]]
        /\ nd' = [nd EXCEPT ![i].links = @ - 1 - Cardinality(cleared \cap {"."}), ![i].dirty = TRUE,
                            ![d].links = @ - Cardinality(cleared \cap {".."}), ![d].dirty = TRUE]
        /\ Unlock(p)
        /\ Return(p)
        /\ UNCHANGED scene

UnlinkRefused(p) ==
    LET i == pr[p].hold[2] IN
    /\ Stands(p, "change") /\ fs = None /\ Op(p) \in Removers
    /\ IF Removable(p, i) THEN Fault ELSE UNCHANGED faults
    /\ Unlock(p)
    /\ Return(p)
    /\ UNCHANGED <<scene, ent, nd>>
-----------------------------------------------------------------------------
(* sfs_dir_reaches: the chain of ".." from d; it ends in the root or in a  *)
(* removed directory.  The references it takes on the way are left out.    *)
Up(d) == Above(ent, d)
Bug_NoCycleCheck(d, i) == FALSE
Reaches(d, i) == \E k \in 0 .. INOS : Up(d)[k] = i

(* sfs_rename.  checked: no disk access of sfs_dir_reaches failed; one     *)
(* that fails counts as "not a descendant".                                *)
RenameTo(p, checked) ==
    LET d == pr[p].hold[1]
        e == pr[p].hold[2]
        i == pr[p].hold[3]
        n == Last(pr[p].call.to)
        cycle == d # e /\ IsDir(i) /\ checked /\ Reaches(e, i)
        isdir == d # e /\ IsDir(i)
    IN  /\ ~cycle /\ i # e /\ ent[e][n] = 0
        /\ IF checked THEN UNCHANGED faults ELSE isdir /\ Fault
        /\ ent' = [ent EXCEPT ![d][Name(p)] = 0, ![e][n] = i, ![i][".."] = IF isdir THEN e ELSE @]
        /\ nd' = IF d = e THEN nd
                 ELSE [nd EXCEPT ![i].dirty = TRUE, ![d].dirty = TRUE, ![e].dirty = TRUE,
                                 ![d].links = IF isdir THEN @ - 1 ELSE @,
                                 ![e].links = IF isdir THEN @ + 1 ELSE @]

Rename(p, checked) ==
    LET e == pr[p].hold[2]
        i == pr[p].hold[3]
    IN  /\ Stands(p, "change") /\ fs = None /\ Op(p) = "rename"
        /\ RenameTo(p, checked)
        /\ Unlock(p)
        /\ Set(p, [Returned(pr[p]) EXCEPT !.drop = <<i, Dir(p), e>>])
        /\ UNCHANGED scene

(* Nothing is changed: the name is taken, the same, or below the target    *)
(* itself; or a write failed, and those before it were undone.             *)
RenameRefused(p) ==
    LET d == pr[p].hold[1]
        e == pr[p].hold[2]
        i == pr[p].hold[3]
        renames == ent[e][Last(pr[p].call.to)] = 0 /\ ~(d # e /\ IsDir(i) /\ Reaches(e, i))
    IN  /\ Stands(p, "change") /\ fs = None /\ Op(p) = "rename"
        /\ i # e
        /\ IF renames THEN Fault ELSE UNCHANGED faults
        /\ Unlock(p)
        /\ Set(p, [Returned(pr[p]) EXCEPT !.drop = <<i, d, e>>])
        /\ UNCHANGED <<scene, ent, nd>>

(* rename("a", "a/x"): the target is the new directory.                    *)
RenameStuck(p) ==
    /\ Stands(p, "change") /\ fs = None /\ Op(p) = "rename"
    /\ pr[p].hold[3] = pr[p].hold[2]
    /\ Stuck(p)
    /\ UNCHANGED <<scene, ent, nd, faults>>
-----------------------------------------------------------------------------
SfsNext ==
    \/ \E p \in Procs :
        \/ \E c \in scene.calls[p] : Begin(p, c)
        \/ SecondPath(p) \/ Search(p) \/ Load(p) \/ LoadFails(p)
        \/ RefDec(p) \/ ReclaimBusy(p) \/ Reclaim(p) \/ ReclaimFails(p)
        \/ Open(p) \/ \E ok \in BOOLEAN : VfsClose(p, ok)
        \/ Make(p) \/ Refused(p) \/ \E n \in {".", "..", ""} : MakeFails(p, n)
        \/ Link(p) \/ Find(p)
        \/ \E dotdot, dot \in BOOLEAN : Unlink(p, dotdot, dot)
        \/ UnlinkRefused(p)
        \/ \E checked \in BOOLEAN : Rename(p, checked)
        \/ RenameRefused(p) \/ RenameStuck(p)
    \/ Sync

SfsSpec == SfsInit /\ [][SfsNext]_sfs_vars
-----------------------------------------------------------------------------
(* nlinks, in memory if the inode is there, counts the directory entries   *)
(* for the inode and those that went with a removed directory; a block is  *)
(* freed only when no entry names it.                                      *)
LinksExact ==
    \A i \in Inos :
        IF nd[i].type = "free" THEN Naming(ent, i) = 0
        ELSE (IF nd[i].cached THEN nd[i].links ELSE nd[i].disk) = Naming(ent, i) + nd[i].lost

(* sfs_reclaim frees no inode in memory that a call or an open file refers *)
(* to, nor one for which another reclaim is still to come (reclaim_count). *)
Users(i) == {p \in Procs : i \in {pr[p].open} \cup Range(pr[p].hold) \cup Range(pr[p].drop)}
Claims(i) == {p \in Procs : pr[p].claim = i}
NoUseAfterReclaim ==
    \A i \in Inos :
        /\ Users(i) \cup Claims(i) # {} => nd[i].cached
        /\ nd[i].token >= Cardinality(Claims(i))
        /\ Users(i) # {} => nd[i].ref > 0

(* Directories form a tree: ".." of a directory is the one that lists it,  *)
(* and, unless a disk access failed, no directory is below itself, for all *)
(* renames that run at once.                                               *)
DirTree ==
    /\ \A d, i \in Inos : \A n \in FileNames :
        ent[d][n] = i /\ i # 0 /\ IsDir(i) => ent[i][".."] = d
    /\ faults = 0 => \A i \in Inos : Up(i)[INOS] \in {0, ROOT}
=============================================================================
