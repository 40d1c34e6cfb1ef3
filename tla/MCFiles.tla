------------------------------- MODULE MCFiles -------------------------------
(* Instances of FileTable and Sfs for TLC: three processes and their       *)
(* descriptors, or two of them and the names on the disk.                  *)
EXTENDS FileTable, Sfs, TLC

CONSTANTS p1, p2, p3

VARIABLE part       (* which of the two                                    *)

(* What is on the disk: files are <<directory, name, inode, type>>; the    *)
(* root, "." and ".." are always there.                                    *)
Disk(files) ==
    [i \in Inos |-> [n \in AllNames |->
        IF i = ROOT /\ n \in {".", ".."} THEN ROOT
        ELSE LET here == {f \in files : f[1] = i /\ f[2] = n}
                 self == {f \in files : f[3] = i /\ f[4] = "dir"}
             IN  IF here # {} THEN (CHOOSE f \in here : TRUE)[3]
                 ELSE IF self # {} /\ n = "." THEN i
                 ELSE IF self # {} /\ n = ".." THEN (CHOOSE f \in self : TRUE)[1]
                 ELSE 0]]
Types(files) ==
    [i \in Inos |-> LET f == {g \in files : g[3] = i}
                    IN  IF i = ROOT THEN "dir"
                        ELSE IF f = {} THEN "free" ELSE (CHOOSE g \in f : TRUE)[4]]
Scene(files, calls1, calls2) ==
    [ent |-> Disk(files), types |-> Types(files),
     calls |-> (p1 :> calls1 @@ p2 :> calls2 @@ p3 :> {})]
Do(op, path) == [op |-> op, path |-> path, to |-> <<>>]
Do2(op, path, to) == [op |-> op, path |-> path, to |-> to]

A == <<"a">>
B == <<"b">>
AB == <<"a", "b">>
BA == <<"b", "a">>

(* One name that is made and removed under those who open it.              *)
Files == Scene({<<1, "a", 2, "file">>},
               {Do("create", A), Do("unlink", A)},
               {Do("open", A), Do("excl", A), Do("symlink", A), Do("rmdir", A)})
(* A directory that is removed under those who make files in it.           *)
Dirs == Scene({<<1, "a", 2, "dir">>},
              {Do("mkdir", A), Do("rmdir", A)},
              {Do("create", AB), Do("mkdir", AB), Do("unlink", AB)})
(* Two names for a file.                                                   *)
TwoNames == Scene({<<1, "a", 2, "file">>, <<1, "b", 3, "dir">>},
                  {Do2("link", A, BA), Do("unlink", A), Do2("rename", BA, A)},
                  {Do("unlink", BA), Do("open", A), Do2("link", B, BA)})
(* Directories that are moved into one another.                            *)
Moves == Scene({<<1, "a", 2, "dir">>, <<1, "b", 3, "dir">>},
               {Do2("rename", A, BA), Do2("rename", BA, A), Do2("rename", B, <<"b", "a", "b">>)},
               {Do2("rename", B, AB), Do2("rename", AB, B), Do2("rename", A, AB)})
AllScenes == {Files, Dirs, TwoNames, Moves}
-----------------------------------------------------------------------------
(* The first process is p1, its table any one.                             *)
PartInit ==
    /\ part \in {"tables", "names"} /\ Init /\ SfsInit
    /\ filesp[p1] = CHOOSE t \in Tables : TRUE
    /\ part = "tables" => scene = Files
PartNext ==
    /\ \/ part = "tables" /\ Next /\ UNCHANGED sfs_vars
       \/ part = "names" /\ SfsNext /\ UNCHANGED vars
    /\ UNCHANGED part
PartSpec == PartInit /\ [][PartNext]_<<vars, sfs_vars, part>>
=============================================================================
