----------------------------- MODULE FileProofs -----------------------------
(***************************************************************************)
(* Proofs about FileTable, for any number of processes, tables,            *)
(* descriptors and descriptions; and about Sfs, for any number of          *)
(* processes, inodes and names, and any calls on any sound file system.    *)
(***************************************************************************)
EXTENDS FileTable, Sfs, ListLemmas, SequenceTheorems, FiniteSetTheorems, TLAPS

(* All of TypeOK but the two counters.                                     *)
Shape ==
    /\ fd_array \in [Tables -> [Fds -> {"NONE", "INIT"} \cup Descs]]
    /\ files_count \in [Tables -> Nat]
    /\ filesp \in [Procs -> Tables \cup {None}] /\ dying \in [Procs -> Tables \cup {None}]
    /\ allocated \subseteq Descs
    /\ reserved \in [Procs -> Seq(Fds)]
    /\ fresh \in [Procs -> Seq(Descs)] /\ puts \in [Procs -> Seq(Descs)]

Counters == ref_count \in [Descs -> Nat] /\ descriptor_count \in [Descs -> Nat]

(* What an open in progress, and a process with references to put, has.    *)
CallInv ==
    \A p \in Procs :
        /\ reserved[p] # <<>> => filesp[p] # None
        /\ Distinct(reserved[p]) /\ Distinct(fresh[p])
        /\ Len(fresh[p]) <= Len(reserved[p])
        /\ Len(puts[p]) <= FILES_STRUCT_NENTRY
        /\ dying[p] # None => puts[p] = <<>>

(* An FD_INIT slot has one owner.                                          *)
Reserves(p, t, fd) == filesp[p] = t /\ \E i \in 1 .. Len(reserved[p]) : reserved[p][i] = fd
SlotInv ==
    \A t \in Tables, fd \in Fds :
        /\ fd_array[t][fd] = "INIT" <=> \E p \in Procs : Reserves(p, t, fd)
        /\ \A p, q \in Procs : Reserves(p, t, fd) /\ Reserves(q, t, fd) => p = q

(* files_count counts the processes, and a table nobody uses or is about   *)
(* to destroy is empty.                                                    *)
Sharers(t) == {p \in Procs : filesp[p] = t}
TableInv ==
    \A t \in Tables :
        /\ files_count[t] = Cardinality(Sharers(t))
        /\ Sharers(t) = {} /\ (\A p \in Procs : dying[p] # t) =>
              \A fd \in Fds : fd_array[t][fd] = "NONE"

(* A description being opened is known to its maker only.                  *)
FreshInv == \A p \in Procs : \A i \in 1 .. Len(fresh[p]) : ref_count[fresh[p][i]] = 1

(* The inductive invariant is Structure /\ Exact: the structure (slots,    *)
(* calls and tables) is inductive by itself; the counters rest on it.      *)
Structure == Shape /\ CallInv /\ SlotInv /\ TableInv
Exact == Counters /\ RefCountExact /\ FreshInv
-----------------------------------------------------------------------------
SameOutside(R, A, B) == A \ R = B \ R
Counted(R, A, B) ==
    /\ Cardinality(A) \in Nat /\ Cardinality(B) \in Nat
    /\ Cardinality(A \cap R) \in Nat /\ Cardinality(B \cap R) \in Nat
    /\ Cardinality(A \cap R) <= Cardinality(A)
    /\ Cardinality(B) = Cardinality(A) - Cardinality(A \cap R) + Cardinality(B \cap R)

(* Two sets that differ inside R only, compared by their parts in R.       *)
LEMMA PartCount ==
    ASSUME NEW A, NEW B, NEW R, IsFiniteSet(A), IsFiniteSet(B), SameOutside(R, A, B)
    PROVE  Counted(R, A, B)
<1>1. /\ Cardinality(A \ R) = Cardinality(A) - Cardinality(A \cap R)
      /\ Cardinality(B \ R) = Cardinality(B) - Cardinality(B \cap R)
    BY FS_Difference
<1>2. /\ IsFiniteSet(A \cap R) /\ IsFiniteSet(B \cap R)
      /\ Cardinality(A \cap R) <= Cardinality(A)
    BY FS_Intersection
<1>3. /\ Cardinality(A) \in Nat /\ Cardinality(B) \in Nat
      /\ Cardinality(A \cap R) \in Nat /\ Cardinality(B \cap R) \in Nat
    BY <1>2, FS_CardinalityType
<1>4. Cardinality(A \ R) = Cardinality(B \ R)
    BY DEF SameOutside
<1> QED
    BY <1>1, <1>2, <1>3, <1>4 DEF Counted

(* Pairs with one first component are counted by their second ones.        *)
LEMMA RowCount ==
    ASSUME NEW x, NEW S, IsFiniteSet(S)
    PROVE  IsFiniteSet({x} \X S) /\ Cardinality({x} \X S) = Cardinality(S)
<1>1. IsFiniteSet({x}) /\ Cardinality({x}) = 1
    BY FS_Singleton
<1>2. Cardinality(S) \in Nat
    BY FS_CardinalityType
<1>3. IsFiniteSet({x} \X S) /\ Cardinality({x} \X S) = 1 * Cardinality(S)
    BY <1>1, FS_Product
<1> QED
    BY <1>2, <1>3

(* The slots of a table are finitely many.                                 *)
LEMMA FdsFinite ==
    /\ IsFiniteSet(Fds) /\ IsFiniteSet(Tables \X Fds)
    /\ IsFiniteSet(Procs \X (1 .. FILES_STRUCT_NENTRY))
    /\ Cardinality(Fds) = FILES_STRUCT_NENTRY
<1>1. FILES_STRUCT_NENTRY \in Nat \ {0}
    BY FileTableAssumption
<1>2. /\ IsFiniteSet(Fds)
      /\ Cardinality(Fds) = IF 0 > FILES_STRUCT_NENTRY - 1 THEN 0 ELSE (FILES_STRUCT_NENTRY - 1) - 0 + 1
    BY <1>1, FS_Interval DEF Fds
<1>3. IsFiniteSet(1 .. FILES_STRUCT_NENTRY)
    BY <1>1, FS_Interval
<1>4. IsFiniteSet(Tables \X Fds) /\ IsFiniteSet(Procs \X (1 .. FILES_STRUCT_NENTRY))
    BY <1>2, <1>3, FS_Product, FileTableAssumption
<1>5. Cardinality(Fds) = FILES_STRUCT_NENTRY
    BY <1>1, <1>2
<1> QED
    BY <1>2, <1>4, <1>5

(* A finite set has at most one element when its members are equal.        *)
LEMMA AtMostOne ==
    ASSUME NEW S, IsFiniteSet(S), \A x, y \in S : x = y
    PROVE  Cardinality(S) <= 1
<1>1. CASE S = {}
    BY <1>1, FS_EmptySet
<1>2. CASE S # {}
    <2>1. PICK x : x \in S
        BY <1>2
    <2>2. S = {x}
        BY <2>1
    <2>3. Cardinality({x}) = 1
        BY FS_Singleton
    <2> QED
        BY <2>2, <2>3
<1> QED
    BY <1>1, <1>2

(* One slot more or less.                                                  *)
LEMMA OneMoreLess ==
    ASSUME NEW S, IsFiniteSet(S), NEW x
    PROVE  /\ Cardinality(S) \in Nat
           /\ x \in S => Cardinality(S) >= 1 /\ Cardinality(S \ {x}) = Cardinality(S) - 1
           /\ x \notin S => Cardinality(S \cup {x}) = Cardinality(S) + 1
           /\ Cardinality(S) = 0 => S = {}
<1>1. /\ IsFiniteSet(S \ {x})
      /\ Cardinality(S \ {x}) = IF x \in S THEN Cardinality(S) - 1 ELSE Cardinality(S)
    BY FS_RemoveElement
<1>2. Cardinality(S \cup {x}) = IF x \in S THEN Cardinality(S) ELSE Cardinality(S) + 1
    BY FS_AddElement
<1>3. Cardinality(S) \in Nat /\ Cardinality(S \ {x}) \in Nat
    BY <1>1, FS_CardinalityType
<1>4. Cardinality(S) = 0 => S = {}
    BY FS_EmptySet
<1> QED
    BY <1>1, <1>2, <1>3, <1>4
-----------------------------------------------------------------------------
(* The entries of a row of descriptors, and of a sequence, that are d.     *)
In(row, d) == {fd \in Fds : row[fd] = d}
At(s, d) == {i \in 1 .. Len(s) : s[i] = d}

(* The names, the hands and the makers are finitely many.                  *)
LEMMA Finite ==
    ASSUME NEW d
    PROVE  /\ IsFiniteSet(Names(d)) /\ IsFiniteSet(Hands(d)) /\ IsFiniteSet(Makers(d))
           /\ \A row : IsFiniteSet(In(row, d))
           /\ Named(d) \in Nat /\ Held(d) \in Nat /\ Uninstalled(d) \in Nat
<1>1. Names(d) \in SUBSET (Tables \X Fds)
    BY DEF Names
<1>2. Hands(d) \in SUBSET (Procs \X (1 .. FILES_STRUCT_NENTRY))
    BY DEF Hands
<1>3. Makers(d) \in SUBSET Procs
    BY DEF Makers
<1>4. \A row : In(row, d) \in SUBSET Fds
    BY DEF In
<1>5. IsFiniteSet(Names(d)) /\ IsFiniteSet(Hands(d)) /\ IsFiniteSet(Makers(d))
    BY <1>1, <1>2, <1>3, FdsFinite, FS_Subset, FileTableAssumption
<1>6. \A row : IsFiniteSet(In(row, d))
    BY <1>4, FdsFinite, FS_Subset
<1> QED
    BY <1>5, <1>6, FS_CardinalityType DEF Named, Held, Uninstalled

(* A step that rewrites one table.                                         *)
LEMMA NamedStep ==
    ASSUME Shape, NEW t \in Tables, NEW row \in [Fds -> {"NONE", "INIT"} \cup Descs],
           fd_array' = [fd_array EXCEPT ![t] = row], NEW d
    PROVE  /\ Named(d) \in Nat /\ Cardinality(In(fd_array[t], d)) \in Nat
           /\ Cardinality(In(row, d)) \in Nat
           /\ Cardinality(In(fd_array[t], d)) <= Named(d)
           /\ Named(d)' = Named(d) - Cardinality(In(fd_array[t], d)) + Cardinality(In(row, d))
<1> DEFINE A == Names(d)
           B == Names(d)'
           R == {t} \X Fds
<1>1. IsFiniteSet(A) /\ IsFiniteSet(B)
    <2>1. B \in SUBSET (Tables \X Fds)
        BY DEF Names
    <2> QED
        BY <2>1, Finite, FdsFinite, FS_Subset
<1>2. SameOutside(R, A, B)
    <2>1. \A s \in Tables \X Fds : s \notin R => fd_array'[s[1]][s[2]] = fd_array[s[1]][s[2]]
        <3> TAKE s \in Tables \X Fds
        <3> HAVE s \notin R
        <3>1. s[1] \in Tables /\ s[2] \in Fds /\ s = <<s[1], s[2]>>
            OBVIOUS
        <3>2. s[1] # t
            BY <3>1
        <3> QED
            BY <3>1, <3>2 DEF Shape
    <2>2. \A s : s \in A \ R <=> s \in B \ R
        BY <2>1 DEF Names
    <2> QED
        BY <2>2 DEF SameOutside
<1>3. A \cap R = {t} \X In(fd_array[t], d)
    BY DEF Names, In
<1>4. B \cap R = {t} \X In(row, d)
    <2>1. fd_array'[t] = row
        BY DEF Shape
    <2> QED
        BY <2>1 DEF Names, In
<1>5. Cardinality(A \cap R) = Cardinality(In(fd_array[t], d))
    BY <1>3, Finite, RowCount
<1>6. Cardinality(B \cap R) = Cardinality(In(row, d))
    BY <1>4, Finite, RowCount
<1>7. Named(d) = Cardinality(A) /\ Named(d)' = Cardinality(B)
    BY DEF Named
<1> HIDE DEF A, B, R
<1>8. Counted(R, A, B)
    BY <1>1, <1>2, PartCount
<1> QED
    BY <1>5, <1>6, <1>7, <1>8 DEF Counted

(* A step that rewrites the references in one process's hand.              *)
LEMMA HeldStep ==
    ASSUME Shape, CallInv, NEW p \in Procs, NEW s \in Seq(Descs), Len(s) <= FILES_STRUCT_NENTRY,
           puts' = [puts EXCEPT ![p] = s], NEW d
    PROVE  /\ Held(d) \in Nat /\ Cardinality(At(puts[p], d)) \in Nat
           /\ Cardinality(At(s, d)) \in Nat
           /\ Cardinality(At(puts[p], d)) <= Held(d)
           /\ Held(d)' = Held(d) - Cardinality(At(puts[p], d)) + Cardinality(At(s, d))
<1> DEFINE I == 1 .. FILES_STRUCT_NENTRY
           A == Hands(d)
           B == Hands(d)'
           R == {p} \X I
<1>1. IsFiniteSet(A) /\ IsFiniteSet(B)
    <2>1. B \in SUBSET (Procs \X I)
        BY DEF Hands
    <2> QED
        BY <2>1, Finite, FdsFinite, FS_Subset
<1>2. SameOutside(R, A, B)
    <2>1. \A h \in Procs \X I : h \notin R => puts'[h[1]] = puts[h[1]]
        <3> TAKE h \in Procs \X I
        <3> HAVE h \notin R
        <3>1. h[1] \in Procs /\ h[2] \in I /\ h = <<h[1], h[2]>>
            OBVIOUS
        <3>2. h[1] # p
            BY <3>1
        <3> QED
            BY <3>1, <3>2 DEF Shape
    <2>2. \A h : h \in A \ R <=> h \in B \ R
        BY <2>1 DEF Hands
    <2> QED
        BY <2>2 DEF SameOutside
<1>3. /\ Len(puts[p]) \in Nat /\ Len(puts[p]) <= FILES_STRUCT_NENTRY
      /\ Len(s) \in Nat /\ FILES_STRUCT_NENTRY \in Nat
    BY LenProperties, FileTableAssumption DEF Shape, CallInv
<1>4. At(puts[p], d) \subseteq I /\ At(s, d) \subseteq I
    BY <1>3 DEF At
<1>5. A \cap R = {p} \X At(puts[p], d)
    <2>1. \A h : h \in A \cap R <=> h \in {p} \X At(puts[p], d)
        BY <1>3 DEF Hands, At
    <2> QED
        BY <2>1
<1>6. B \cap R = {p} \X At(s, d)
    <2>1. puts'[p] = s
        BY DEF Shape
    <2>2. \A h : h \in B \cap R <=> h \in {p} \X At(s, d)
        BY <2>1, <1>3 DEF Hands, At
    <2> QED
        BY <2>2
<1>7. IsFiniteSet(I)
    BY <1>3, FS_Interval
<1>8. IsFiniteSet(At(puts[p], d)) /\ IsFiniteSet(At(s, d))
    BY <1>4, <1>7, FS_Subset
<1>9. Held(d) = Cardinality(A) /\ Held(d)' = Cardinality(B)
    BY DEF Held
<1> HIDE DEF A, B, R, I
<1>10. Cardinality(A \cap R) = Cardinality(At(puts[p], d))
    BY <1>5, <1>8, RowCount
<1>11. Cardinality(B \cap R) = Cardinality(At(s, d))
    BY <1>6, <1>8, RowCount
<1>12. Counted(R, A, B)
    BY <1>1, <1>2, PartCount
<1> QED
    BY <1>9, <1>10, <1>11, <1>12 DEF Counted

(* A step that rewrites what one process has created.                      *)
LEMMA UninstalledStep ==
    ASSUME Shape, NEW p \in Procs, NEW s \in Seq(Descs), fresh' = [fresh EXCEPT ![p] = s], NEW d
    PROVE  /\ Uninstalled(d) \in Nat
           /\ d \in Range(fresh[p]) => Uninstalled(d) >= 1
           /\ Uninstalled(d)' = Uninstalled(d)
                - (IF d \in Range(fresh[p]) THEN 1 ELSE 0) + (IF d \in Range(s) THEN 1 ELSE 0)
<1> DEFINE A == Makers(d)
           B == Makers(d)'
           R == {p}
<1>1. IsFiniteSet(A) /\ IsFiniteSet(B)
    <2>1. B \in SUBSET Procs
        BY DEF Makers
    <2> QED
        BY <2>1, Finite, FileTableAssumption, FS_Subset
<1>2. SameOutside(R, A, B)
    BY DEF Makers, Shape, SameOutside
<1>3. A \cap R = IF d \in Range(fresh[p]) THEN {p} ELSE {}
    BY DEF Makers
<1>4. B \cap R = IF d \in Range(s) THEN {p} ELSE {}
    BY DEF Makers, Shape
<1>5. Uninstalled(d) = Cardinality(A) /\ Uninstalled(d)' = Cardinality(B)
    BY DEF Uninstalled
<1>6. Cardinality({p}) = 1 /\ Cardinality({}) = 0
    BY FS_Singleton, FS_EmptySet
<1> HIDE DEF A, B, R
<1>7. Cardinality(A \cap R) = IF d \in Range(fresh[p]) THEN 1 ELSE 0
    BY <1>3, <1>6
<1>8. Cardinality(B \cap R) = IF d \in Range(s) THEN 1 ELSE 0
    BY <1>4, <1>6
<1>9. Counted(R, A, B)
    BY <1>1, <1>2, PartCount
<1> QED
    BY <1>5, <1>7, <1>8, <1>9 DEF Counted

(* What does not change is counted the same.                               *)
LEMMA SameCounts ==
    ASSUME NEW d
    PROVE  /\ UNCHANGED fd_array => Named(d)' = Named(d)
           /\ UNCHANGED puts => Held(d)' = Held(d)
           /\ UNCHANGED fresh => Uninstalled(d)' = Uninstalled(d)
    BY DEF Named, Names, Held, Hands, Uninstalled, Makers
-----------------------------------------------------------------------------
(* Short sequences of references.                                          *)
LEMMA ShortHands ==
    ASSUME NEW d
    PROVE  /\ <<>> \in Seq(Descs) /\ Len(<<>>) = 0
           /\ At(<<>>, d) = {} /\ Cardinality(At(<<>>, d)) = 0
           /\ \A e \in Descs :
                /\ <<e>> \in Seq(Descs) /\ Len(<<e>>) = 1
                /\ Cardinality(At(<<e>>, d)) = IF e = d THEN 1 ELSE 0
<1>1. At(<<>>, d) = {}
    BY DEF At
<1>2. ASSUME NEW e \in Descs PROVE Cardinality(At(<<e>>, d)) = IF e = d THEN 1 ELSE 0
    <2>1. At(<<e>>, d) = IF e = d THEN {1} ELSE {}
        BY DEF At
    <2> QED
        BY <2>1, FS_Singleton, FS_EmptySet
<1> QED
    BY <1>1, <1>2, FS_EmptySet

(* open_file_put takes the first of them.                                  *)
LEMMA TailHands ==
    ASSUME NEW s \in Seq(Descs), s # <<>>, NEW d
    PROVE  /\ Head(s) \in Descs /\ Tail(s) \in Seq(Descs) /\ Len(Tail(s)) = Len(s) - 1
           /\ Cardinality(At(Tail(s), d)) \in Nat
           /\ Cardinality(At(s, d)) = Cardinality(At(Tail(s), d)) + (IF Head(s) = d THEN 1 ELSE 0)
<1>1. /\ Head(s) \in Descs /\ Tail(s) \in Seq(Descs) /\ Len(Tail(s)) = Len(s) - 1
      /\ Len(s) \in Nat /\ Len(s) >= 1 /\ Head(s) = s[1]
      /\ \A i \in 1 .. Len(s) - 1 : Tail(s)[i] = s[i + 1]
    BY HeadTailProperties, LenProperties, EmptySeq
<1> DEFINE A == At(s, d) \ {1}
           B == At(Tail(s), d)
           f == [i \in B |-> i + 1]
<1>2. f \in Bijection(B, A)
    <2>1. f \in [B -> A]
        BY <1>1 DEF At
    <2>2. \A i, j \in B : f[i] = f[j] => i = j
        BY <1>1 DEF At
    <2>3. \A k \in A : \E i \in B : f[i] = k
        <3> TAKE k \in A
        <3>1. k - 1 \in B
            BY <1>1 DEF At
        <3>2. f[k - 1] = k
            BY <3>1, <1>1 DEF At
        <3> QED
            BY <3>1, <3>2
    <2> QED
        BY <2>1, <2>2, <2>3 DEF Bijection, Injection, Surjection, IsInjective
<1>3. IsFiniteSet(B) /\ IsFiniteSet(At(s, d))
    <2>1. B \in SUBSET (1 .. Len(s)) /\ At(s, d) \in SUBSET (1 .. Len(s))
        BY <1>1 DEF At
    <2>2. IsFiniteSet(1 .. Len(s))
        BY <1>1, FS_Interval
    <2> QED
        BY <2>1, <2>2, FS_Subset
<1>4. Cardinality(A) = Cardinality(B)
    <2>1. ExistsBijection(B, A)
        BY <1>2 DEF ExistsBijection
    <2> HIDE DEF A, B
    <2> QED
        BY <1>3, <2>1, FS_Bijection
<1>5. Cardinality(B) \in Nat
    BY <1>3, FS_CardinalityType
<1>6. 1 \in At(s, d) <=> Head(s) = d
    BY <1>1 DEF At
<1>7. Cardinality(A) = IF 1 \in At(s, d) THEN Cardinality(At(s, d)) - 1 ELSE Cardinality(At(s, d))
    BY <1>3, FS_RemoveElement
<1>8. Cardinality(At(s, d)) \in Nat
    BY <1>3, FS_CardinalityType
<1>9. B = At(Tail(s), d)
    OBVIOUS
<1> HIDE DEF A, B, f
<1>10. Cardinality(At(s, d)) = Cardinality(B) + (IF Head(s) = d THEN 1 ELSE 0)
    BY <1>4, <1>5, <1>6, <1>7, <1>8
<1> QED
    BY <1>1, <1>5, <1>9, <1>10
-----------------------------------------------------------------------------
Written(row, fd, v) == [row EXCEPT ![fd] = v]

(* One slot of a row is rewritten.                                         *)
LEMMA OneSlot ==
    ASSUME NEW row \in [Fds -> {"NONE", "INIT"} \cup Descs], NEW fd \in Fds, NEW v, NEW d
    PROVE  /\ Cardinality(In(row, d)) \in Nat
           /\ row[fd] = d => Cardinality(In(row, d)) >= 1
           /\ Cardinality(In(Written(row, fd, v), d)) =
                Cardinality(In(row, d)) - (IF row[fd] = d THEN 1 ELSE 0) + (IF v = d THEN 1 ELSE 0)
<1> DEFINE A == In(row, d)
           B == In(Written(row, fd, v), d)
           R == {fd}
<1>1. IsFiniteSet(A) /\ IsFiniteSet(B)
    BY Finite
<1>2. SameOutside(R, A, B)
    BY DEF In, SameOutside, Written
<1>3. A \cap R = IF row[fd] = d THEN {fd} ELSE {}
    BY DEF In
<1>4. B \cap R = IF v = d THEN {fd} ELSE {}
    BY DEF In, Written
<1>5. Cardinality({fd}) = 1 /\ Cardinality({}) = 0
    BY FS_Singleton, FS_EmptySet
<1>6. A = In(row, d) /\ B = In(Written(row, fd, v), d)
    OBVIOUS
<1> HIDE DEF A, B, R
<1>7. Cardinality(A \cap R) = IF row[fd] = d THEN 1 ELSE 0
    BY <1>3, <1>5
<1>8. Cardinality(B \cap R) = IF v = d THEN 1 ELSE 0
    BY <1>4, <1>5
<1>9. Counted(R, A, B)
    BY <1>1, <1>2, PartCount
<1>10. /\ Cardinality(A) \in Nat
       /\ row[fd] = d => Cardinality(A) >= 1
       /\ Cardinality(B) =
            Cardinality(A) - (IF row[fd] = d THEN 1 ELSE 0) + (IF v = d THEN 1 ELSE 0)
    BY <1>7, <1>8, <1>9 DEF Counted
<1> QED
    BY <1>6, <1>10

(* The rank of a slot among those that are detached.                       *)
UpTo(D, fd) == {e \in D : e <= fd}
Rank(D, fd) == Cardinality(UpTo(D, fd))

(* The ranks number the detached slots from 1.                             *)
LEMMA RankBijection ==
    ASSUME NEW D, D \subseteq Fds
    PROVE  /\ IsFiniteSet(D) /\ Cardinality(D) \in Nat /\ Cardinality(D) <= FILES_STRUCT_NENTRY
           /\ \A fd \in D : Rank(D, fd) \in 1 .. Cardinality(D)
           /\ \A a, b \in D : Rank(D, a) = Rank(D, b) => a = b
           /\ \A i \in 1 .. Cardinality(D) : \E fd \in D : Rank(D, fd) = i
<1>1. D \in SUBSET Fds /\ D \subseteq Int
    BY FileTableAssumption DEF Fds
<1>2. IsFiniteSet(D) /\ Cardinality(D) \in Nat /\ Cardinality(D) <= FILES_STRUCT_NENTRY
    BY <1>1, FdsFinite, FS_Subset, FS_CardinalityType
<1>3. \A fd \in D : UpTo(D, fd) \in SUBSET D /\ fd \in UpTo(D, fd)
    BY <1>1 DEF UpTo
<1>4. \A fd \in D : IsFiniteSet(UpTo(D, fd)) /\ Rank(D, fd) <= Cardinality(D) /\ Rank(D, fd) \in Nat
    BY <1>2, <1>3, FS_Subset, FS_CardinalityType DEF Rank
<1>5. \A fd \in D : Rank(D, fd) >= 1
    BY <1>3, <1>4, OneMoreLess DEF Rank
<1>6. \A fd \in D : Rank(D, fd) \in 1 .. Cardinality(D)
    BY <1>2, <1>4, <1>5
<1>7. ASSUME NEW a \in D, NEW b \in D, a < b PROVE Rank(D, a) # Rank(D, b)
    <2>1. UpTo(D, a) \in SUBSET UpTo(D, b) /\ b \in UpTo(D, b) /\ b \notin UpTo(D, a)
        <3>1. a \in Int /\ b \in Int /\ (\A e \in D : e \in Int)
            BY <1>1
        <3>2. \A e \in D : e <= a => e <= b
            BY <1>7, <3>1
        <3>3. b <= b /\ ~ (b <= a)
            BY <1>7, <3>1
        <3> QED
            BY <3>2, <3>3 DEF UpTo
    <2>2. Cardinality(UpTo(D, b)) = Cardinality(UpTo(D, a)) => UpTo(D, b) = UpTo(D, a)
        BY <1>4, <2>1, FS_Subset
    <2> QED
        BY <2>1, <2>2 DEF Rank
<1>8. \A a, b \in D : Rank(D, a) = Rank(D, b) => a = b
    <2>1. \A a, b \in D : a < b \/ b < a \/ a = b
        BY <1>1
    <2> QED
        BY <1>7, <2>1
<1> DEFINE n == Cardinality(D)
           f == [fd \in D |-> Rank(D, fd)]
<1>9. f \in Injection(D, 1 .. n)
    BY <1>6, <1>8 DEF Injection, IsInjective
<1>10. IsFiniteSet(1 .. n) /\ Cardinality(1 .. n) = n
    <2>1. n \in Nat
        BY <1>2
    <2> HIDE DEF n
    <2>2. IsFiniteSet(1 .. n) /\ Cardinality(1 .. n) = IF 1 > n THEN 0 ELSE n - 1 + 1
        BY <2>1, FS_Interval
    <2> QED
        BY <2>1, <2>2
<1>11. f \in Surjection(D, 1 .. n)
    <2>1. Cardinality(D) = Cardinality(1 .. n)
        BY <1>10
    <2> HIDE DEF f, n
    <2> QED
        BY <1>9, <1>10, <2>1, FS_Injection
<1>12. \A i \in 1 .. n : \E fd \in D : Rank(D, fd) = i
    BY <1>11 DEF Surjection
<1> QED
    BY <1>2, <1>6, <1>8, <1>12

(* The slots of D that name description d.                                 *)
Leaving(t, D, d) == {fd \in D : fd_array[t][fd] = d}

(* files_detach: each detached descriptor leaves one reference to put.     *)
LEMMA DetachCount ==
    ASSUME Shape, NEW t \in Tables, NEW first
    PROVE  LET D == Detached(t, first)
               row == [fd \in Fds |-> IF fd \in D THEN "NONE" ELSE fd_array[t][fd]]
               s == DetachedSeq(t, first)
           IN  /\ row \in [Fds -> {"NONE", "INIT"} \cup Descs]
               /\ s \in Seq(Descs) /\ Len(s) <= FILES_STRUCT_NENTRY
               /\ \A d \in Descs :
                    /\ Cardinality(Leaving(t, D, d)) \in Nat
                    /\ Cardinality(At(s, d)) = Cardinality(Leaving(t, D, d))
                    /\ Cardinality(In(row, d)) =
                        Cardinality(In(fd_array[t], d)) - Cardinality(Leaving(t, D, d))
<1> DEFINE D == Detached(t, first)
           row == [fd \in Fds |-> IF fd \in D THEN "NONE" ELSE fd_array[t][fd]]
           s == DetachedSeq(t, first)
           n == Cardinality(D)
           pick(i) == CHOOSE fd \in D : Rank(D, fd) = i
<1>1. D \subseteq Fds /\ \A fd \in D : fd_array[t][fd] \in Descs
    BY DEF Detached, Opened
<1>2. row \in [Fds -> {"NONE", "INIT"} \cup Descs]
    BY DEF Shape
<1>3. /\ IsFiniteSet(D) /\ n \in Nat /\ n <= FILES_STRUCT_NENTRY
      /\ \A fd \in D : Rank(D, fd) \in 1 .. n
      /\ \A a, b \in D : Rank(D, a) = Rank(D, b) => a = b
      /\ \A i \in 1 .. n : \E fd \in D : Rank(D, fd) = i
    <2>1. D \subseteq Fds
        BY <1>1
    <2> HIDE DEF D
    <2> QED
        BY <2>1, RankBijection
<1>4. s = [i \in 1 .. n |-> fd_array[t][pick(i)]]
    BY DEF DetachedSeq, Rank, UpTo
<1>5. \A i \in 1 .. n : pick(i) \in D /\ Rank(D, pick(i)) = i
    <2> HIDE DEF D
    <2> QED
        BY <1>3
<1>6. \A fd \in D : pick(Rank(D, fd)) = fd
    <2> HIDE DEF D, pick
    <2> QED
        BY <1>3, <1>5
<1> HIDE DEF D, s, pick, n
<1>7. s \in Seq(Descs) /\ Len(s) = n
    <2>1. s \in [1 .. n -> Descs]
        BY <1>1, <1>4, <1>5
    <2> QED
        BY <1>3, <2>1, SeqDef, LenProperties
<1>8. ASSUME NEW d \in Descs
      PROVE  /\ Cardinality(Leaving(t, D, d)) \in Nat
             /\ Cardinality(At(s, d)) = Cardinality(Leaving(t, D, d))
             /\ Cardinality(In(row, d)) = Cardinality(In(fd_array[t], d)) - Cardinality(Leaving(t, D, d))
    <2> DEFINE A == Leaving(t, D, d)
               B == At(s, d)
               f == [fd \in A |-> Rank(D, fd)]
    <2>1. A \in SUBSET D
        BY DEF Leaving
    <2>2. IsFiniteSet(A) /\ Cardinality(A) \in Nat
        BY <1>3, <2>1, FS_Subset, FS_CardinalityType
    <2>3. f \in Bijection(A, B)
        <3>1. \A fd \in A : Rank(D, fd) \in B
            <4> TAKE fd \in A
            <4>1. Rank(D, fd) \in 1 .. n /\ pick(Rank(D, fd)) = fd /\ fd_array[t][fd] = d
                BY <1>3, <1>6, <2>1 DEF Leaving
            <4> QED
                BY <1>4, <1>7, <4>1 DEF At
        <3>2. \A a, b \in A : f[a] = f[b] => a = b
            BY <1>3, <2>1
        <3>3. \A i \in B : \E fd \in A : f[fd] = i
            <4> TAKE i \in B
            <4>1. i \in 1 .. n /\ fd_array[t][pick(i)] = d
                BY <1>4, <1>7 DEF At
            <4>2. pick(i) \in A /\ Rank(D, pick(i)) = i
                BY <1>5, <4>1 DEF Leaving
            <4> QED
                BY <4>2
        <3>4. f \in [A -> B]
            BY <3>1
        <3> QED
            BY <3>2, <3>3, <3>4 DEF Bijection, Injection, Surjection, IsInjective
    <2>4. ExistsBijection(A, B)
        BY <2>3 DEF ExistsBijection
    <2>5. Cardinality(B) = Cardinality(A)
        <3> HIDE DEF A, B
        <3> QED
            BY <2>2, <2>4, FS_Bijection
    <2>6. In(row, d) = In(fd_array[t], d) \ A
        <3>1. "NONE" # d
            BY FileTableAssumption
        <3> QED
            BY <3>1 DEF In, Leaving
    <2>7. In(fd_array[t], d) \cap A = A
        BY <1>1 DEF In, Leaving
    <2>8. Cardinality(In(fd_array[t], d) \ A) =
            Cardinality(In(fd_array[t], d)) - Cardinality(In(fd_array[t], d) \cap A)
        BY Finite, FS_Difference
    <2>9. Cardinality(In(row, d)) = Cardinality(In(fd_array[t], d)) - Cardinality(A)
        BY <2>6, <2>7, <2>8
    <2> QED
        BY <2>2, <2>5, <2>9
<1>9. Len(s) <= FILES_STRUCT_NENTRY
    BY <1>3, <1>7
<1> HIDE DEF row
<1> QED
    BY <1>2, <1>7, <1>8, <1>9 DEF row, D, s
-----------------------------------------------------------------------------
(* A step that takes or gives no FD_INIT slot.                             *)
LEMMA SlotKeep ==
    ASSUME SlotInv, UNCHANGED <<filesp, reserved>>,
           \A t \in Tables, fd \in Fds : fd_array'[t][fd] = "INIT" <=> fd_array[t][fd] = "INIT"
    PROVE  SlotInv'
    BY DEF SlotInv, Reserves

(* A step that changes tables in use only.                                 *)
LEMMA TableKeep ==
    ASSUME TableInv, UNCHANGED <<filesp, files_count, dying>>,
           \A t \in Tables : Sharers(t) = {} => fd_array'[t] = fd_array[t]
    PROVE  TableInv'
<1>1. \A t \in Tables : Sharers(t)' = Sharers(t)
    BY DEF Sharers
<1> QED
    BY <1>1 DEF TableInv

(* The table of a process is in use.                                       *)
LEMMA InUse ==
    ASSUME Shape, NEW p \in Procs, filesp[p] # None
    PROVE  filesp[p] \in Tables /\ p \in Sharers(filesp[p])
    BY DEF Shape, Sharers

(* file_open, file_pipe and the socket calls reserve their slots.          *)
LEMMA OpenReserveStructure ==
    ASSUME Structure, NEW p \in Procs, NEW fds \in Seq(Fds), Distinct(fds), OpenReserve(p, fds)
    PROVE  Structure'
<1> DEFINE t == filesp[p]
           row == [fd \in Fds |-> IF fd \in Range(fds) THEN "INIT" ELSE fd_array[t][fd]]
<1>1. Shape /\ CallInv /\ SlotInv /\ TableInv
    BY DEF Structure
<1>2. t \in Tables /\ p \in Sharers(t) /\ t # None
    BY <1>1, InUse, FileTableAssumption DEF OpenReserve, Ready, Shape
<1>3. /\ fd_array' = [fd_array EXCEPT ![t] = row]
      /\ reserved' = [reserved EXCEPT ![p] = fds]
      /\ UNCHANGED <<files_count, filesp, allocated, fresh, puts, dying>>
      /\ reserved[p] = <<>>
    BY DEF OpenReserve, descs, Ready
<1>4. row \in [Fds -> {"NONE", "INIT"} \cup Descs]
    BY <1>1, <1>2 DEF Shape
<1>5. Shape'
    BY <1>1, <1>2, <1>3, <1>4 DEF Shape
<1>6. CallInv'
    <2>1. Len(<<>>) = 0 /\ Len(fds) \in Nat
        BY LenProperties
    <2>2. Len(fresh[p]) \in Nat /\ Len(fresh[p]) <= 0
        BY <1>1, <1>3, <2>1, LenProperties DEF Shape, CallInv
    <2> QED
        BY <1>1, <1>2, <1>3, <2>1, <2>2 DEF Shape, CallInv
<1>7. SlotInv'
    <2>1. \A i \in 1 .. Len(fds) : fds[i] \in Fds /\ fd_array[t][fds[i]] = "NONE"
        <3> TAKE i \in 1 .. Len(fds)
        <3>1. DOMAIN fds = 1 .. Len(fds) /\ Len(fds) \in Nat /\ fds[i] \in Fds /\ fds[i] \in Nat
            BY LenProperties, ElementOfSeq, FileTableAssumption DEF Fds
        <3>2. (fd_array[t][fds[i]] = "NONE" /\ fds[i] <= fds[i]) <=> (\E j \in 1 .. i : fds[i] = fds[j])
            BY <3>1 DEF OpenReserve, LowestFree
        <3> QED
            BY <3>1, <3>2
    <2>2. \A fd : fd \in Range(fds) <=> \E i \in 1 .. Len(fds) : fds[i] = fd
        BY LenProperties DEF Range
    <2>3. \A q \in Procs, u \in Tables, fd \in Fds :
            Reserves(q, u, fd)' <=>
                IF q = p THEN u = t /\ fd \in Range(fds) ELSE Reserves(q, u, fd)
        BY <1>1, <1>3, <2>2 DEF Reserves, Shape
    <2>4. \A u \in Tables, fd \in Fds : ~Reserves(p, u, fd)
        BY <1>3 DEF Reserves
    <2>5. \A u \in Tables, fd \in Fds :
            fd_array'[u][fd] = IF u = t /\ fd \in Range(fds) THEN "INIT" ELSE fd_array[u][fd]
        BY <1>1, <1>2, <1>3 DEF Shape
    <2>6. \A fd \in Fds : fd \in Range(fds) => \A q \in Procs : ~Reserves(q, t, fd)
        BY <1>1, <1>2, <2>1, <2>2 DEF SlotInv
    <2> HIDE DEF t
    <2> QED
        BY <1>1, <1>2, <2>3, <2>4, <2>5, <2>6 DEF SlotInv
<1>8. TableInv'
    <2>1. \A u \in Tables : Sharers(u) = {} => fd_array'[u] = fd_array[u]
        BY <1>1, <1>2, <1>3 DEF Shape
    <2> QED
        BY <1>1, <1>3, <2>1, TableKeep
<1> QED
    BY <1>5, <1>6, <1>7, <1>8 DEF Structure

(* open_file_create.                                                       *)
LEMMA OpenCreateStructure ==
    ASSUME Structure, Counters, RefCountExact, NEW p \in Procs, NEW d \in Descs, OpenCreate(p, d)
    PROVE  Structure' /\ ~\E q \in Procs : d \in Range(fresh[q])
<1>1. Shape /\ CallInv /\ SlotInv /\ TableInv
    BY DEF Structure
<1>2. /\ fresh' = [fresh EXCEPT ![p] = Append(@, d)]
      /\ allocated' = allocated \cup {d}
      /\ UNCHANGED <<fd_array, files_count, filesp, reserved, puts, dying>>
      /\ Len(fresh[p]) < Len(reserved[p]) /\ d \notin allocated
    BY DEF OpenCreate
<1>3. Makers(d) = {}
    <2>1. ref_count[d] = 0 /\ ref_count[d] = Named(d) + Held(d) + Uninstalled(d)
        BY <1>2 DEF RefCountExact, Counters
    <2>2. Uninstalled(d) = 0
        BY <2>1, Finite
    <2> QED
        BY <2>2, Finite, OneMoreLess DEF Uninstalled
<1>4. \A i \in 1 .. Len(fresh[p]) : fresh[p][i] # d
    BY <1>1, <1>3, LenProperties DEF Makers, Range, Shape
<1>5. /\ Append(fresh[p], d) \in Seq(Descs)
      /\ Len(Append(fresh[p], d)) = Len(fresh[p]) + 1
      /\ \A i \in 1 .. Len(fresh[p]) + 1 :
            Append(fresh[p], d)[i] = IF i = Len(fresh[p]) + 1 THEN d ELSE fresh[p][i]
      /\ Len(fresh[p]) \in Nat /\ Len(reserved[p]) \in Nat
    BY <1>1, AppendProperties, LenProperties DEF Shape
<1>6. Distinct(Append(fresh[p], d))
    <2>1. Distinct(fresh[p])
        BY <1>1 DEF CallInv
    <2> QED
        BY <1>4, <1>5, <2>1 DEF Distinct
<1>7. Shape'
    BY <1>1, <1>2, <1>5 DEF Shape
<1>8. CallInv'
    BY <1>1, <1>2, <1>5, <1>6 DEF CallInv, Shape
<1>9. SlotInv' /\ TableInv'
    BY <1>1, <1>2, SlotKeep, TableKeep
<1> QED
    BY <1>3, <1>7, <1>8, <1>9 DEF Structure, Makers

(* An open that ends: its slots are installed or cancelled.                *)
LEMMA ReleaseStructure ==
    ASSUME Structure, NEW p \in Procs, reserved[p] # <<>>,
           NEW row \in [Fds -> {"NONE", "INIT"} \cup Descs],
           \A fd \in Fds : IF fd \in Range(reserved[p]) THEN row[fd] # "INIT"
                                                        ELSE row[fd] = fd_array[filesp[p]][fd],
           fd_array' = [fd_array EXCEPT ![filesp[p]] = row],
           reserved' = [reserved EXCEPT ![p] = <<>>], fresh' = [fresh EXCEPT ![p] = <<>>],
           UNCHANGED <<files_count, filesp, puts, dying>>, allocated' \subseteq Descs
    PROVE  Structure'
<1> DEFINE t == filesp[p]
<1>1. Shape /\ CallInv /\ SlotInv /\ TableInv
    BY DEF Structure
<1>2. t \in Tables /\ p \in Sharers(t)
    BY <1>1, InUse DEF CallInv
<1>3. <<>> \in Seq(Fds) /\ <<>> \in Seq(Descs) /\ Len(<<>>) = 0
    OBVIOUS
<1>4. Shape'
    BY <1>1, <1>2, <1>3 DEF Shape
<1>5. CallInv'
    <2>1. Distinct(<<>>)
        BY DEF Distinct
    <2> QED
        BY <1>1, <1>3, <2>1 DEF Shape, CallInv
<1>6. SlotInv'
    <2>1. \A fd : fd \in Range(reserved[p]) <=> \E i \in 1 .. Len(reserved[p]) : reserved[p][i] = fd
        BY <1>1, LenProperties DEF Range, Shape
    <2>2. \A q \in Procs, u \in Tables, fd \in Fds :
            Reserves(q, u, fd)' <=> q # p /\ Reserves(q, u, fd)
        BY <1>1, <1>3 DEF Reserves, Shape
    <2>3. \A u \in Tables, fd \in Fds : Reserves(p, u, fd) <=> u = t /\ fd \in Range(reserved[p])
        BY <2>1 DEF Reserves
    <2>4. \A u \in Tables, fd \in Fds :
            fd_array'[u][fd] = "INIT" <=>
                fd_array[u][fd] = "INIT" /\ ~ (u = t /\ fd \in Range(reserved[p]))
        BY <1>1, <1>2 DEF Shape
    <2> HIDE DEF t
    <2> QED
        BY <1>1, <1>2, <2>2, <2>3, <2>4 DEF SlotInv
<1>7. TableInv'
    <2>1. \A u \in Tables : Sharers(u) = {} => fd_array'[u] = fd_array[u]
        BY <1>1, <1>2 DEF Shape
    <2> QED
        BY <1>1, <2>1, TableKeep
<1> QED
    BY <1>4, <1>5, <1>6, <1>7 DEF Structure

(* The rows that fd_array_install and fd_array_cancel leave.               *)
LEMMA InstallRow ==
    ASSUME Structure, NEW p \in Procs, OpenInstall(p)
    PROVE  LET slots == reserved[p]
               row == [fd \in Fds |-> IF fd \in Range(slots) THEN Installed(slots, fresh[p], fd)
                                                             ELSE fd_array[filesp[p]][fd]]
           IN  /\ row \in [Fds -> {"NONE", "INIT"} \cup Descs]
               /\ filesp[p] \in Tables
               /\ fd_array' = [fd_array EXCEPT ![filesp[p]] = row]
               /\ \A i \in 1 .. Len(slots) : slots[i] \in Fds /\ row[slots[i]] = fresh[p][i]
               /\ \A fd \in Fds : fd \in Range(slots) => row[fd] \in Descs
               /\ Len(slots) = Len(fresh[p]) /\ Len(slots) \in Nat
<1> DEFINE slots == reserved[p]
           row == [fd \in Fds |-> IF fd \in Range(slots) THEN Installed(slots, fresh[p], fd)
                                                         ELSE fd_array[filesp[p]][fd]]
<1>1. /\ slots \in Seq(Fds) /\ fresh[p] \in Seq(Descs) /\ Distinct(slots)
      /\ Len(slots) = Len(fresh[p]) /\ slots # <<>>
    BY DEF Structure, Shape, CallInv, OpenInstall
<1>2. DOMAIN slots = 1 .. Len(slots) /\ Len(slots) \in Nat /\ \A i \in 1 .. Len(slots) : slots[i] \in Fds
    BY <1>1, LenProperties, ElementOfSeq
<1>3. \A i \in 1 .. Len(slots) : fresh[p][i] \in Descs
    BY <1>1, ElementOfSeq
<1>4. filesp[p] \in Tables
    BY <1>1, InUse DEF Structure, CallInv
<1> HIDE DEF slots
<1>5. \A i \in 1 .. Len(slots) : Installed(slots, fresh[p], slots[i]) = fresh[p][i]
    <2> TAKE i \in 1 .. Len(slots)
    <2> DEFINE j == CHOOSE j \in DOMAIN slots : slots[j] = slots[i]
    <2>1. j \in DOMAIN slots /\ slots[j] = slots[i]
        BY <1>2
    <2>2. j = i
        BY <1>1, <1>2, <2>1 DEF Distinct
    <2> QED
        BY <2>2 DEF Installed
<1>6. \A i \in 1 .. Len(slots) : row[slots[i]] = fresh[p][i]
    BY <1>2, <1>5 DEF Range
<1>7. \A fd \in Fds : fd \in Range(slots) => row[fd] \in Descs
    <2> TAKE fd \in Fds
    <2> HAVE fd \in Range(slots)
    <2>1. PICK i \in 1 .. Len(slots) : slots[i] = fd
        BY <1>2 DEF Range
    <2> HIDE DEF row
    <2> QED
        BY <1>3, <1>6, <2>1
<1>8. row \in [Fds -> {"NONE", "INIT"} \cup Descs]
    <2>1. \A fd \in Fds : fd \notin Range(slots) => row[fd] \in {"NONE", "INIT"} \cup Descs
        BY <1>4 DEF Structure, Shape
    <2> QED
        BY <1>7, <2>1
<1>9. fd_array' = [fd_array EXCEPT ![filesp[p]] = row]
    BY DEF OpenInstall, slots
<1> QED
    BY <1>1, <1>2, <1>4, <1>6, <1>7, <1>8, <1>9 DEF slots

(* fd_array_install.                                                       *)
LEMMA OpenInstallStructure ==
    ASSUME Structure, NEW p \in Procs, OpenInstall(p)
    PROVE  Structure'
<1>1. PICK row \in [Fds -> {"NONE", "INIT"} \cup Descs] :
        /\ fd_array' = [fd_array EXCEPT ![filesp[p]] = row]
        /\ \A fd \in Fds : fd \in Range(reserved[p]) => row[fd] \in Descs
        /\ \A fd \in Fds : fd \notin Range(reserved[p]) => row[fd] = fd_array[filesp[p]][fd]
    BY InstallRow
<1>2. "INIT" \notin Descs
    BY FileTableAssumption
<1>3. \A fd \in Fds : IF fd \in Range(reserved[p]) THEN row[fd] # "INIT"
                                                   ELSE row[fd] = fd_array[filesp[p]][fd]
    BY <1>1, <1>2
<1>4. /\ reserved[p] # <<>> /\ allocated' \subseteq Descs
      /\ reserved' = [reserved EXCEPT ![p] = <<>>] /\ fresh' = [fresh EXCEPT ![p] = <<>>]
      /\ UNCHANGED <<files_count, filesp, puts, dying>>
    BY DEF OpenInstall, descs, Structure, Shape
<1> QED
    BY <1>1, <1>3, <1>4, ReleaseStructure

(* fd_array_cancel.                                                        *)
LEMMA OpenCancelStructure ==
    ASSUME Structure, NEW p \in Procs, OpenCancel(p)
    PROVE  Structure'
<1> DEFINE row == [fd \in Fds |-> IF fd \in Range(reserved[p]) THEN "NONE" ELSE fd_array[filesp[p]][fd]]
<1>1. reserved[p] # <<>>
    <2>1. Len(fresh[p]) \in Nat /\ Len(<<>>) = 0 /\ Len(fresh[p]) < Len(reserved[p])
        BY LenProperties DEF Structure, Shape, OpenCancel
    <2> QED
        BY <2>1
<1>2. filesp[p] \in Tables
    BY <1>1, InUse DEF Structure, CallInv
<1>3. row \in [Fds -> {"NONE", "INIT"} \cup Descs]
    BY <1>2 DEF Structure, Shape
<1>4. /\ fd_array' = [fd_array EXCEPT ![filesp[p]] = row]
      /\ allocated' \subseteq Descs
      /\ reserved' = [reserved EXCEPT ![p] = <<>>] /\ fresh' = [fresh EXCEPT ![p] = <<>>]
      /\ UNCHANGED <<files_count, filesp, puts, dying>>
    BY DEF OpenCancel, Structure, Shape
<1>5. \A fd \in Fds : IF fd \in Range(reserved[p]) THEN row[fd] # "INIT"
                                                   ELSE row[fd] = fd_array[filesp[p]][fd]
    OBVIOUS
<1> HIDE DEF row
<1> QED
    BY <1>1, <1>3, <1>4, <1>5, ReleaseStructure

(* A step that leaves the FD_INIT slots, the sharing of tables and the     *)
(* tables nobody uses alone.                                               *)
LEMMA EditStructure ==
    ASSUME Structure, NEW p \in Procs, NEW s \in Seq(Descs), Len(s) <= FILES_STRUCT_NENTRY,
           fd_array' \in [Tables -> [Fds -> {"NONE", "INIT"} \cup Descs]],
           \A t \in Tables, fd \in Fds : fd_array'[t][fd] = "INIT" <=> fd_array[t][fd] = "INIT",
           \A t \in Tables : Sharers(t) = {} => fd_array'[t] = fd_array[t],
           puts' = [puts EXCEPT ![p] = s], dying[p] = None, allocated' \subseteq Descs,
           UNCHANGED <<files_count, filesp, reserved, fresh, dying>>
    PROVE  Structure'
<1>1. Shape'
    BY DEF Structure, Shape
<1>2. CallInv'
    BY DEF Structure, Shape, CallInv
<1>3. SlotInv' /\ TableInv'
    BY SlotKeep, TableKeep DEF Structure
<1> QED
    BY <1>1, <1>2, <1>3 DEF Structure

(* fd_acquire.                                                             *)
LEMMA AcquireStructure ==
    ASSUME Structure, NEW p \in Procs, NEW fd \in Fds, Acquire(p, fd)
    PROVE  Structure'
<1> DEFINE d == fd_array[filesp[p]][fd]
<1>1. d \in Descs /\ puts' = [puts EXCEPT ![p] = <<d>>]
    BY DEF Acquire, Opened
<1>2. UNCHANGED <<fd_array, files_count, filesp, allocated, reserved, fresh, dying>> /\ dying[p] = None
    BY DEF Acquire, Ready
<1> HIDE DEF d
<1>3. <<d>> \in Seq(Descs) /\ Len(<<d>>) <= FILES_STRUCT_NENTRY
    BY <1>1, FileTableAssumption
<1>4. allocated' \subseteq Descs /\ fd_array' \in [Tables -> [Fds -> {"NONE", "INIT"} \cup Descs]]
    BY <1>2 DEF Structure, Shape
<1> QED
    BY <1>1, <1>2, <1>3, <1>4, EditStructure

(* open_file_put.                                                          *)
LEMMA PutStructure ==
    ASSUME Structure, NEW p \in Procs, Put(p)
    PROVE  Structure'
<1> DEFINE s == Tail(puts[p])
<1>1. puts[p] \in Seq(Descs) /\ puts[p] # <<>> /\ Len(puts[p]) <= FILES_STRUCT_NENTRY
    BY DEF Structure, Shape, CallInv, Put
<1>2. s \in Seq(Descs) /\ Len(s) <= FILES_STRUCT_NENTRY
    BY <1>1, HeadTailProperties, LenProperties, FileTableAssumption
<1>3. /\ puts' = [puts EXCEPT ![p] = s] /\ dying[p] = None
      /\ UNCHANGED <<fd_array, files_count, filesp, reserved, fresh, dying>>
    BY DEF Put, Structure, CallInv
<1>4. allocated' \subseteq Descs /\ fd_array' \in [Tables -> [Fds -> {"NONE", "INIT"} \cup Descs]]
    BY <1>3 DEF Structure, Shape, Put
<1> HIDE DEF s
<1> QED
    BY <1>2, <1>3, <1>4, EditStructure

(* One table in use is rewritten without touching FD_INIT.                 *)
LEMMA RowStructure ==
    ASSUME Structure, NEW p \in Procs, filesp[p] # None,
           NEW s \in Seq(Descs), Len(s) <= FILES_STRUCT_NENTRY,
           NEW row \in [Fds -> {"NONE", "INIT"} \cup Descs],
           \A fd \in Fds : row[fd] = "INIT" <=> fd_array[filesp[p]][fd] = "INIT",
           fd_array' = [fd_array EXCEPT ![filesp[p]] = row],
           puts' = [puts EXCEPT ![p] = s], dying[p] = None, allocated' \subseteq Descs,
           UNCHANGED <<files_count, filesp, reserved, fresh, dying>>
    PROVE  Structure'
<1>1. filesp[p] \in Tables /\ p \in Sharers(filesp[p])
    BY InUse DEF Structure
<1>2. fd_array' \in [Tables -> [Fds -> {"NONE", "INIT"} \cup Descs]]
    BY <1>1 DEF Structure, Shape
<1>3. \A t \in Tables, fd \in Fds : fd_array'[t][fd] = "INIT" <=> fd_array[t][fd] = "INIT"
    BY <1>1 DEF Structure, Shape
<1>4. \A t \in Tables : Sharers(t) = {} => fd_array'[t] = fd_array[t]
    BY <1>1 DEF Structure, Shape
<1> QED
    BY <1>2, <1>3, <1>4, EditStructure

(* The row that file_close leaves.                                         *)
LEMMA CloseRow ==
    ASSUME Structure, NEW p \in Procs, NEW fd \in Fds, Close(p, fd)
    PROVE  LET t == filesp[p]
               row == [fd_array[t] EXCEPT ![fd] = "NONE"]
           IN  /\ t \in Tables /\ fd_array[t] \in [Fds -> {"NONE", "INIT"} \cup Descs]
               /\ row \in [Fds -> {"NONE", "INIT"} \cup Descs]
               /\ fd_array[t][fd] \in Descs
               /\ fd_array' = [fd_array EXCEPT ![t] = row]
               /\ \A e \in Fds : row[e] = "INIT" <=> fd_array[t][e] = "INIT"
<1>1. filesp[p] \in Tables /\ fd_array[filesp[p]][fd] \in Descs
    BY InUse DEF Structure, Close, Ready, Opened
<1>2. "INIT" \notin Descs
    BY FileTableAssumption
<1> QED
    BY <1>1, <1>2 DEF Structure, Shape, Close

(* file_close keeps the structure.                                         *)
LEMMA CloseStructure ==
    ASSUME Structure, NEW p \in Procs, NEW fd \in Fds, Close(p, fd)
    PROVE  Structure'
<1>1. PICK row \in [Fds -> {"NONE", "INIT"} \cup Descs], d \in Descs :
        /\ fd_array' = [fd_array EXCEPT ![filesp[p]] = row]
        /\ \A e \in Fds : row[e] = "INIT" <=> fd_array[filesp[p]][e] = "INIT"
        /\ d = fd_array[filesp[p]][fd]
    BY CloseRow
<1>2. /\ puts' = [puts EXCEPT ![p] = <<d>>] /\ filesp[p] # None /\ dying[p] = None
      /\ UNCHANGED <<files_count, filesp, reserved, fresh, dying>>
      /\ allocated' \subseteq Descs
    BY <1>1 DEF Close, Ready, Structure, Shape
<1>3. <<d>> \in Seq(Descs) /\ Len(<<d>>) <= FILES_STRUCT_NENTRY
    BY FileTableAssumption
<1> QED
    BY <1>1, <1>2, <1>3, RowStructure

(* The row that file_dup leaves, and the reference it puts.                *)
LEMMA DupRow ==
    ASSUME Structure, NEW p \in Procs, NEW from \in Fds, NEW to \in Fds, Dup(p, from, to)
    PROVE  LET t == filesp[p]
               d == fd_array[t][from]
               old == fd_array[t][to]
               row == [fd_array[t] EXCEPT ![to] = d]
               s == IF old \in Descs THEN <<old>> ELSE <<>>
           IN  /\ t \in Tables /\ fd_array[t] \in [Fds -> {"NONE", "INIT"} \cup Descs]
               /\ row \in [Fds -> {"NONE", "INIT"} \cup Descs]
               /\ d \in Descs /\ old \in {"NONE"} \cup Descs
               /\ fd_array' = [fd_array EXCEPT ![t] = row]
               /\ \A e \in Fds : row[e] = "INIT" <=> fd_array[t][e] = "INIT"
               /\ puts' = [puts EXCEPT ![p] = s]
               /\ s \in Seq(Descs) /\ Len(s) <= FILES_STRUCT_NENTRY
<1>1. filesp[p] \in Tables /\ fd_array[filesp[p]][from] \in Descs /\ fd_array[filesp[p]][to] # "INIT"
    BY InUse DEF Structure, Dup, Ready, Opened
<1>2. "INIT" \notin Descs /\ FILES_STRUCT_NENTRY \in Nat \ {0}
    BY FileTableAssumption
<1>3. fd_array[filesp[p]] \in [Fds -> {"NONE", "INIT"} \cup Descs]
    BY <1>1 DEF Structure, Shape
<1>4. fd_array[filesp[p]][to] \in {"NONE"} \cup Descs
    BY <1>1, <1>3
<1>5. fd_array' = [fd_array EXCEPT ![filesp[p]] =
                        [fd_array[filesp[p]] EXCEPT ![to] = fd_array[filesp[p]][from]]]
    BY <1>1 DEF Structure, Shape, Dup
<1>6. puts' = [puts EXCEPT ![p] = IF fd_array[filesp[p]][to] \in Descs
                                    THEN <<fd_array[filesp[p]][to]>> ELSE <<>>]
    BY DEF Dup
<1> HIDE DEF Dup
<1> QED
    BY <1>1, <1>2, <1>3, <1>4, <1>5, <1>6

(* file_dup keeps the structure.                                           *)
LEMMA DupStructure ==
    ASSUME Structure, NEW p \in Procs, NEW from \in Fds, NEW to \in Fds, Dup(p, from, to)
    PROVE  Structure'
<1> DEFINE old == fd_array[filesp[p]][to]
           row == [fd_array[filesp[p]] EXCEPT ![to] = fd_array[filesp[p]][from]]
           s == IF old \in Descs THEN <<old>> ELSE <<>>
<1>1. /\ row \in [Fds -> {"NONE", "INIT"} \cup Descs] /\ s \in Seq(Descs)
      /\ fd_array' = [fd_array EXCEPT ![filesp[p]] = row]
      /\ \A e \in Fds : row[e] = "INIT" <=> fd_array[filesp[p]][e] = "INIT"
      /\ puts' = [puts EXCEPT ![p] = s] /\ Len(s) <= FILES_STRUCT_NENTRY
    BY DupRow
<1>2. /\ filesp[p] # None /\ dying[p] = None
      /\ UNCHANGED <<files_count, filesp, reserved, fresh, dying>>
      /\ allocated' \subseteq Descs
    BY DEF Dup, Ready, Structure, Shape
<1> HIDE DEF row, s
<1> QED
    BY <1>1, <1>2, RowStructure

(* What files_detach writes: the table's new row, the references the       *)
(* caller has to put, and how many of each description there are.          *)
DetachWrites(p, t, first, row, s, n) ==
    /\ fd_array' = [fd_array EXCEPT ![t] = row]
    /\ puts' = [puts EXCEPT ![p] = s] /\ Len(s) <= FILES_STRUCT_NENTRY
    /\ \A fd \in Fds : row[fd] = "INIT" <=> fd_array[t][fd] = "INIT"
    /\ first = 0 => \A fd \in Fds : row[fd] \in {"NONE", "INIT"}
    /\ \A d \in Descs :
         /\ descriptor_count'[d] = descriptor_count[d] - n[d]
         /\ Cardinality(At(s, d)) = n[d]
         /\ Cardinality(In(row, d)) = Cardinality(In(fd_array[t], d)) - n[d]

(* files_detach moves the descriptions of the slots it empties, each with  *)
(* its multiplicity, from the row to the caller's references.              *)
LEMMA DetachRow ==
    ASSUME Shape, NEW p \in Procs, NEW t \in Tables, NEW first, DetachFrom(p, t, first)
    PROVE  \E row \in [Fds -> {"NONE", "INIT"} \cup Descs], s \in Seq(Descs), n \in [Descs -> Nat] :
               DetachWrites(p, t, first, row, s, n)
<1> DEFINE D == Detached(t, first)
           row == [fd \in Fds |-> IF fd \in D THEN "NONE" ELSE fd_array[t][fd]]
           s == DetachedSeq(t, first)
           n == [d \in Descs |-> Cardinality(Leaving(t, D, d))]
<1>1. /\ row \in [Fds -> {"NONE", "INIT"} \cup Descs]
      /\ s \in Seq(Descs) /\ Len(s) <= FILES_STRUCT_NENTRY
      /\ \A d \in Descs :
            /\ Cardinality(Leaving(t, D, d)) \in Nat
            /\ Cardinality(At(s, d)) = Cardinality(Leaving(t, D, d))
            /\ Cardinality(In(row, d)) = Cardinality(In(fd_array[t], d)) - Cardinality(Leaving(t, D, d))
    BY DetachCount
<1>2. fd_array' = [fd_array EXCEPT ![t] = row]
    BY DEF DetachFrom
<1>3. puts' = [puts EXCEPT ![p] = s]
    BY DEF DetachFrom
<1>4. \A d \in Descs : descriptor_count'[d] = descriptor_count[d] - Cardinality(Leaving(t, D, d))
    BY DEF DetachFrom, Leaving
<1>5. \A fd \in Fds : row[fd] = "INIT" <=> fd_array[t][fd] = "INIT"
    BY FileTableAssumption DEF Detached, Opened
<1>6. ASSUME first = 0 PROVE \A fd \in Fds : row[fd] \in {"NONE", "INIT"}
    <2>1. \A fd \in Fds : fd >= first
        BY <1>6, FileTableAssumption DEF Fds
    <2> QED
        BY <2>1 DEF Detached, Opened, Shape
<1> HIDE DEF row, s, D
<1>7. n \in [Descs -> Nat] /\ \A d \in Descs : n[d] = Cardinality(Leaving(t, D, d))
    BY <1>1
<1> HIDE DEF n
<1>8. DetachWrites(p, t, first, row, s, n)
    BY <1>1, <1>2, <1>3, <1>4, <1>5, <1>6, <1>7 DEF DetachWrites
<1> QED
    BY <1>1, <1>7, <1>8

(* files_closeall.                                                         *)
LEMMA ExecStructure ==
    ASSUME Structure, NEW p \in Procs, Exec(p)
    PROVE  Structure'
<1>1. /\ filesp[p] # None /\ filesp[p] \in Tables /\ dying[p] = None
      /\ UNCHANGED <<files_count, filesp, reserved, fresh, dying>>
      /\ allocated' \subseteq Descs /\ DetachFrom(p, filesp[p], FirstClosed)
    BY InUse DEF Exec, Ready, Structure, Shape
<1>2. PICK row \in [Fds -> {"NONE", "INIT"} \cup Descs], s \in Seq(Descs) :
        /\ fd_array' = [fd_array EXCEPT ![filesp[p]] = row]
        /\ puts' = [puts EXCEPT ![p] = s] /\ Len(s) <= FILES_STRUCT_NENTRY
        /\ \A e \in Fds : row[e] = "INIT" <=> fd_array[filesp[p]][e] = "INIT"
    BY <1>1, DetachRow DEF Structure, DetachWrites
<1> QED
    BY <1>1, <1>2, RowStructure
-----------------------------------------------------------------------------
(* One process joins or leaves a table.                                    *)
LEMMA JoinLeave ==
    ASSUME Shape, NEW p \in Procs, NEW v \in Tables \cup {None},
           filesp' = [filesp EXCEPT ![p] = v], NEW t \in Tables
    PROVE  /\ IsFiniteSet(Sharers(t)) /\ Cardinality(Sharers(t)) \in Nat
           /\ v = t => Sharers(t)' = Sharers(t) \cup {p}
           /\ v # t => Sharers(t)' = Sharers(t) \ {p}
           /\ v # t /\ filesp[p] # t => Sharers(t)' = Sharers(t)
           /\ filesp[p] # t => p \notin Sharers(t)
           /\ filesp[p] = t => p \in Sharers(t)
<1>1. Sharers(t) \in SUBSET Procs
    BY DEF Sharers
<1>2. IsFiniteSet(Sharers(t)) /\ Cardinality(Sharers(t)) \in Nat
    BY <1>1, FileTableAssumption, FS_Subset, FS_CardinalityType
<1>3. v = t => Sharers(t)' = Sharers(t) \cup {p}
    BY DEF Sharers, Shape
<1>4. v # t => Sharers(t)' = Sharers(t) \ {p}
    BY DEF Sharers, Shape
<1>5. p \in Sharers(t) <=> filesp[p] = t
    BY DEF Sharers
<1>6. v # t /\ filesp[p] # t => Sharers(t)' = Sharers(t)
    BY <1>4, <1>5
<1> QED
    BY <1>2, <1>3, <1>4, <1>5, <1>6

(* copy_fs with CLONE_FS.                                                  *)
LEMMA ForkShareStructure ==
    ASSUME Structure, NEW p \in Procs, NEW c \in Procs, ForkShare(p, c)
    PROVE  Structure'
<1> DEFINE t == filesp[p]
<1>1. Shape /\ CallInv /\ SlotInv /\ TableInv
    BY DEF Structure
<1>2. /\ t \in Tables /\ t # None /\ p \in Sharers(t) /\ filesp[c] = None
      /\ filesp' = [filesp EXCEPT ![c] = t]
      /\ files_count' = [files_count EXCEPT ![t] = @ + 1]
      /\ UNCHANGED <<fd_array, allocated, reserved, fresh, puts, dying>>
    BY <1>1, InUse DEF ForkShare, Ready, descs
<1>3. reserved[c] = <<>> /\ None \notin Tables
    BY <1>1, <1>2, FileTableAssumption DEF CallInv
<1> HIDE DEF t
<1>4. Shape'
    BY <1>1, <1>2 DEF Shape
<1>5. CallInv'
    BY <1>1, <1>2, <1>3 DEF CallInv, Shape
<1>6. SlotInv'
    <2>1. \A q \in Procs, u \in Tables, fd \in Fds : Reserves(q, u, fd)' <=> Reserves(q, u, fd)
        BY <1>1, <1>2, <1>3 DEF Reserves, Shape
    <2> QED
        BY <1>1, <1>2, <2>1 DEF SlotInv
<1>7. TableInv'
    <2>1. \A u \in Tables :
            /\ IsFiniteSet(Sharers(u)) /\ Cardinality(Sharers(u)) \in Nat
            /\ Sharers(u)' = IF u = t THEN Sharers(u) \cup {c} ELSE Sharers(u)
            /\ c \notin Sharers(u)
        <3> TAKE u \in Tables
        <3>1. filesp[c] # u /\ t \in Tables \cup {None}
            BY <1>2, <1>3
        <3>2. CASE u = t
            BY <1>1, <1>2, <3>1, <3>2, JoinLeave
        <3>3. CASE u # t
            BY <1>1, <1>2, <3>1, <3>3, JoinLeave
        <3> QED
            BY <3>2, <3>3
    <2>2. \A u \in Tables : files_count'[u] = Cardinality(Sharers(u)')
        <3> TAKE u \in Tables
        <3>1. Cardinality(Sharers(u) \cup {c}) = Cardinality(Sharers(u)) + 1
            BY <2>1, OneMoreLess
        <3>2. files_count[u] = Cardinality(Sharers(u))
            BY <1>1 DEF TableInv
        <3>3. files_count'[u] = IF u = t THEN files_count[u] + 1 ELSE files_count[u]
            BY <1>1, <1>2 DEF Shape
        <3> QED
            BY <2>1, <3>1, <3>2, <3>3
    <2>3. \A u \in Tables : Sharers(u)' = {} => Sharers(u) = {}
        BY <2>1
    <2> QED
        BY <1>1, <1>2, <2>2, <2>3 DEF TableInv
<1> QED
    BY <1>4, <1>5, <1>6, <1>7 DEF Structure

(* dup_fs: the row of the new table.                                       *)
LEMMA CopyRow ==
    ASSUME Structure, NEW p \in Procs, NEW c \in Procs, NEW t \in Tables, ForkCopy(p, c, t)
    PROVE  LET from == filesp[p]
               row == [fd \in Fds |-> IF Opened(from, fd) THEN fd_array[from][fd] ELSE "NONE"]
           IN  /\ from \in Tables /\ from # t /\ Sharers(t) = {} /\ filesp[c] = None
               /\ row \in [Fds -> {"NONE", "INIT"} \cup Descs]
               /\ \A fd \in Fds : row[fd] # "INIT"
               /\ fd_array' = [fd_array EXCEPT ![t] = row]
               /\ \A fd \in Fds : fd_array[t][fd] = "NONE"
               /\ \A d \in Descs : In(row, d) = Slots(from, d) /\ In(fd_array[t], d) = {}
<1>1. /\ filesp[p] \in Tables /\ p \in Sharers(filesp[p]) /\ filesp[c] = None
      /\ files_count[t] = 0 /\ \A q \in Procs : dying[q] # t
      /\ fd_array' = [fd_array EXCEPT ![t] =
            [fd \in Fds |-> IF Opened(filesp[p], fd) THEN fd_array[filesp[p]][fd] ELSE "NONE"]]
    BY InUse DEF Structure, ForkCopy, Ready
<1>2. Sharers(t) = {}
    <2>1. Sharers(t) \in SUBSET Procs
        BY DEF Sharers
    <2>2. IsFiniteSet(Sharers(t))
        BY <2>1, FileTableAssumption, FS_Subset
    <2>3. Cardinality(Sharers(t)) = 0
        BY <1>1 DEF Structure, TableInv
    <2> QED
        BY <2>2, <2>3, FS_EmptySet
<1>3. \A fd \in Fds : fd_array[t][fd] = "NONE"
    BY <1>1, <1>2 DEF Structure, TableInv
<1>4. "NONE" \notin Descs /\ "INIT" \notin Descs
    BY FileTableAssumption
<1> DEFINE row == [fd \in Fds |-> IF Opened(filesp[p], fd) THEN fd_array[filesp[p]][fd] ELSE "NONE"]
<1>5. row \in [Fds -> {"NONE", "INIT"} \cup Descs] /\ \A fd \in Fds : row[fd] # "INIT"
    BY <1>4 DEF Opened
<1>6. \A d \in Descs : In(row, d) = Slots(filesp[p], d) /\ In(fd_array[t], d) = {}
    BY <1>3, <1>4 DEF In, Slots, Opened
<1>7. filesp[p] # t
    BY <1>1, <1>2
<1> QED
    BY <1>1, <1>2, <1>3, <1>5, <1>6, <1>7

(* copy_fs without CLONE_FS.                                               *)
LEMMA ForkCopyStructure ==
    ASSUME Structure, NEW p \in Procs, NEW c \in Procs, NEW t \in Tables, ForkCopy(p, c, t)
    PROVE  Structure'
<1>1. Shape /\ CallInv /\ SlotInv /\ TableInv
    BY DEF Structure
<1> DEFINE from == filesp[p]
           row == [fd \in Fds |-> IF Opened(from, fd) THEN fd_array[from][fd] ELSE "NONE"]
<1>2. /\ Sharers(t) = {} /\ filesp[c] = None
      /\ row \in [Fds -> {"NONE", "INIT"} \cup Descs]
      /\ \A fd \in Fds : row[fd] # "INIT"
      /\ fd_array' = [fd_array EXCEPT ![t] = row]
      /\ \A fd \in Fds : fd_array[t][fd] = "NONE"
    BY CopyRow
<1> HIDE DEF row
<1>3. /\ filesp' = [filesp EXCEPT ![c] = t]
      /\ files_count' = [files_count EXCEPT ![t] = 1]
      /\ UNCHANGED <<allocated, reserved, fresh, puts, dying>>
    BY DEF ForkCopy
<1>4. reserved[c] = <<>> /\ None \notin Tables
    BY <1>1, <1>2, FileTableAssumption DEF CallInv
<1>5. Shape'
    BY <1>1, <1>2, <1>3 DEF Shape
<1>6. CallInv'
    BY <1>1, <1>3, <1>4 DEF CallInv, Shape
<1>7. SlotInv'
    <2>1. \A q \in Procs, u \in Tables, fd \in Fds : Reserves(q, u, fd)' <=> Reserves(q, u, fd)
        BY <1>1, <1>2, <1>3, <1>4 DEF Reserves, Shape
    <2>2. \A u \in Tables, fd \in Fds : fd_array'[u][fd] = "INIT" <=> fd_array[u][fd] = "INIT"
        BY <1>1, <1>2 DEF Shape
    <2> QED
        BY <1>1, <2>1, <2>2 DEF SlotInv
<1>8. TableInv'
    <2>1. \A u \in Tables :
            /\ Sharers(u)' = IF u = t THEN Sharers(u) \cup {c} ELSE Sharers(u)
            /\ c \notin Sharers(u)
        <3> TAKE u \in Tables
        <3>1. u = t \/ u # t
            OBVIOUS
        <3> QED
            BY <1>1, <1>2, <1>3, <1>4, <3>1, JoinLeave
    <2>2. Cardinality(Sharers(t)') = 1
        <3>1. Sharers(t)' = {c}
            BY <1>2, <2>1
        <3> QED
            BY <3>1, FS_Singleton
    <2>3. \A u \in Tables : files_count'[u] = Cardinality(Sharers(u)')
        BY <1>1, <1>3, <2>1, <2>2 DEF Shape, TableInv
    <2>4. \A u \in Tables : Sharers(u)' = {} => u # t /\ Sharers(u) = {}
        BY <2>1
    <2>5. \A u \in Tables : u # t => fd_array'[u] = fd_array[u]
        BY <1>1, <1>2 DEF Shape
    <2> QED
        BY <1>1, <1>3, <2>3, <2>4, <2>5 DEF TableInv
<1> QED
    BY <1>5, <1>6, <1>7, <1>8 DEF Structure

(* put_fs.                                                                 *)
LEMMA ExitStructure ==
    ASSUME Structure, NEW p \in Procs, Exit(p)
    PROVE  Structure'
<1> DEFINE t == filesp[p]
<1>1. Shape /\ CallInv /\ SlotInv /\ TableInv
    BY DEF Structure
<1>2. /\ t \in Tables /\ t # None /\ p \in Sharers(t) /\ reserved[p] = <<>> /\ dying[p] = None
      /\ puts[p] = <<>>
      /\ filesp' = [filesp EXCEPT ![p] = None]
      /\ files_count' = [files_count EXCEPT ![t] = @ - 1]
      /\ dying' = [dying EXCEPT ![p] = IF files_count[t] = 1 THEN t ELSE None]
      /\ UNCHANGED <<fd_array, allocated, reserved, fresh, puts>>
    BY <1>1, InUse DEF Exit, Ready, descs
<1>3. None \notin Tables
    BY FileTableAssumption
<1>4. \A u \in Tables :
        /\ IsFiniteSet(Sharers(u)) /\ Cardinality(Sharers(u)) \in Nat
        /\ Sharers(u)' = Sharers(u) \ {p}
        /\ u # t => p \notin Sharers(u)
    <2> TAKE u \in Tables
    <2>1. None # u
        BY <1>3
    <2> QED
        BY <1>1, <1>2, <2>1, JoinLeave, ZenonT(60)
<1> HIDE DEF t
<1>5. files_count[t] = Cardinality(Sharers(t)) /\ Cardinality(Sharers(t)) >= 1
    BY <1>1, <1>2, <1>4, OneMoreLess DEF TableInv
<1>6. Shape'
    <2>1. files_count[t] - 1 \in Nat
        BY <1>2, <1>4, <1>5
    <2> QED
        BY <1>1, <1>2, <2>1 DEF Shape
<1>7. CallInv'
    BY <1>1, <1>2 DEF CallInv, Shape
<1>8. SlotInv'
    <2>1. \A q \in Procs, u \in Tables, fd \in Fds : Reserves(q, u, fd)' <=> Reserves(q, u, fd)
        BY <1>1, <1>2, <1>3 DEF Reserves, Shape
    <2> QED
        BY <1>1, <1>2, <2>1 DEF SlotInv
<1>9. TableInv'
    <2>1. \A u \in Tables : files_count'[u] = Cardinality(Sharers(u)')
        <3> TAKE u \in Tables
        <3>1. p \in Sharers(u) => Cardinality(Sharers(u) \ {p}) = Cardinality(Sharers(u)) - 1
            BY <1>4, OneMoreLess
        <3>2. files_count[u] = Cardinality(Sharers(u))
            BY <1>1 DEF TableInv
        <3>3. files_count'[u] = IF u = t THEN files_count[u] - 1 ELSE files_count[u]
            BY <1>1, <1>2 DEF Shape
        <3>4. p \notin Sharers(u) => Sharers(u) \ {p} = Sharers(u)
            OBVIOUS
        <3> QED
            BY <1>2, <1>4, <3>1, <3>2, <3>3, <3>4
    <2>2. ASSUME NEW u \in Tables, Sharers(u)' = {}, \A q \in Procs : dying'[q] # u
          PROVE  \A fd \in Fds : fd_array'[u][fd] = "NONE"
        <3>1. CASE u = t
            <4>1. Sharers(t) = {p}
                BY <1>2, <1>4, <2>2, <3>1
            <4>2. files_count[t] = 1
                BY <1>5, <4>1, FS_Singleton
            <4>3. dying'[p] = t
                BY <1>1, <1>2, <4>2 DEF Shape
            <4> QED
                BY <2>2, <3>1, <4>3
        <3>2. CASE u # t
            <4>1. Sharers(u) = {}
                BY <1>4, <2>2, <3>2
            <4>2. \A q \in Procs : dying[q] # u
                BY <1>1, <1>2, <1>3, <2>2 DEF Shape
            <4> QED
                BY <1>1, <1>2, <4>1, <4>2 DEF TableInv
        <3> QED
            BY <3>1, <3>2
    <2> QED
        BY <2>1, <2>2 DEF TableInv
<1> QED
    BY <1>6, <1>7, <1>8, <1>9 DEF Structure

(* files_destroy.                                                          *)
LEMMA DestroyStructure ==
    ASSUME Structure, NEW p \in Procs, files_destroy(p)
    PROVE  Structure'
<1> DEFINE t == dying[p]
<1>1. Shape /\ CallInv /\ SlotInv /\ TableInv
    BY DEF Structure
<1>2. /\ t \in Tables /\ DetachFrom(p, t, 0)
      /\ dying' = [dying EXCEPT ![p] = None]
      /\ UNCHANGED <<files_count, filesp, allocated, reserved, fresh>>
    BY <1>1 DEF files_destroy, Shape
<1>3. PICK row \in [Fds -> {"NONE", "INIT"} \cup Descs], s \in Seq(Descs) :
        /\ fd_array' = [fd_array EXCEPT ![t] = row]
        /\ puts' = [puts EXCEPT ![p] = s] /\ Len(s) <= FILES_STRUCT_NENTRY
        /\ \A fd \in Fds : row[fd] = "INIT" <=> fd_array[t][fd] = "INIT"
        /\ \A fd \in Fds : row[fd] \in {"NONE", "INIT"}
    BY <1>1, <1>2, DetachRow DEF DetachWrites
<1> HIDE DEF t
<1>4. Shape'
    BY <1>1, <1>2, <1>3 DEF Shape
<1>5. CallInv'
    BY <1>1, <1>2, <1>3 DEF CallInv, Shape
<1>6. SlotInv'
    <2>1. \A u \in Tables, fd \in Fds : fd_array'[u][fd] = "INIT" <=> fd_array[u][fd] = "INIT"
        BY <1>1, <1>2, <1>3 DEF Shape
    <2> QED
        BY <1>1, <1>2, <2>1, SlotKeep
<1>7. TableInv'
    <2>1. \A u \in Tables : Sharers(u)' = Sharers(u)
        BY <1>2 DEF Sharers
    <2>2. ASSUME NEW u \in Tables, Sharers(u) = {}, \A q \in Procs : dying'[q] # u
          PROVE  \A fd \in Fds : fd_array'[u][fd] = "NONE"
        <3>1. CASE u = t
            <4>1. \A fd \in Fds : fd_array[t][fd] # "INIT"
                BY <1>1, <1>2, <2>2, <3>1 DEF SlotInv, Reserves, Sharers
            <4>2. \A fd \in Fds : row[fd] = "NONE"
                BY <1>3, <4>1
            <4> QED
                BY <1>1, <1>2, <1>3, <3>1, <4>2 DEF Shape
        <3>2. CASE u # t
            <4>1. \A q \in Procs : dying[q] # u
                BY <1>1, <1>2, <2>2, <3>2 DEF Shape, t
            <4>2. fd_array'[u] = fd_array[u]
                BY <1>1, <1>2, <1>3, <3>2 DEF Shape
            <4> QED
                BY <1>1, <2>2, <4>1, <4>2 DEF TableInv
        <3> QED
            BY <3>1, <3>2
    <2> QED
        BY <1>1, <1>2, <2>1, <2>2 DEF TableInv
<1> QED
    BY <1>4, <1>5, <1>6, <1>7 DEF Structure
-----------------------------------------------------------------------------
(* The counters of one description.                                        *)
ExactAt(d) ==
    /\ ref_count[d] \in Nat /\ descriptor_count[d] \in Nat
    /\ ref_count[d] = Named(d) + Held(d) + Uninstalled(d)
    /\ descriptor_count[d] = Named(d) + Uninstalled(d)
    /\ d \in allocated <=> ref_count[d] > 0
    /\ Uninstalled(d) >= 1 => ref_count[d] = 1

(* From all descriptions to one, with what the counts are bounded by.      *)
LEMMA ExactElim ==
    ASSUME Structure, Exact, NEW d \in Descs
    PROVE  /\ ExactAt(d)
           /\ Named(d) \in Nat /\ Held(d) \in Nat /\ Uninstalled(d) \in Nat
           /\ \A t \in Tables, fd \in Fds : fd_array[t][fd] = d => Named(d) >= 1 /\ Uninstalled(d) = 0
           /\ \A p \in Procs : d \in Range(fresh[p]) => Uninstalled(d) >= 1
<1>1. /\ ref_count[d] \in Nat /\ descriptor_count[d] \in Nat
      /\ ref_count[d] = Named(d) + Held(d) + Uninstalled(d)
      /\ descriptor_count[d] = Named(d) + Uninstalled(d)
      /\ d \in allocated <=> ref_count[d] > 0
    BY DEF Exact, Counters, RefCountExact
<1>2. Named(d) \in Nat /\ Held(d) \in Nat /\ Uninstalled(d) \in Nat
    BY Finite
<1>3. Uninstalled(d) >= 1 => ref_count[d] = 1
    <2> SUFFICES ASSUME Uninstalled(d) >= 1 PROVE ref_count[d] = 1
        OBVIOUS
    <2>1. Makers(d) # {}
        BY FS_EmptySet DEF Uninstalled
    <2>2. PICK p \in Procs : d \in Range(fresh[p])
        BY <2>1 DEF Makers
    <2>3. PICK i \in 1 .. Len(fresh[p]) : fresh[p][i] = d
        BY <2>2, LenProperties DEF Range, Structure, Shape
    <2> QED
        BY <2>3 DEF Exact, FreshInv
<1>4. ASSUME NEW t \in Tables, NEW fd \in Fds, fd_array[t][fd] = d
      PROVE  Named(d) >= 1 /\ Uninstalled(d) = 0
    <2>1. <<t, fd>> \in Names(d)
        BY <1>4 DEF Names
    <2>2. Named(d) >= 1
        BY <2>1, Finite, OneMoreLess DEF Named
    <2> QED
        BY <1>1, <1>2, <1>3, <2>2
<1>5. ASSUME NEW p \in Procs, d \in Range(fresh[p]) PROVE Uninstalled(d) >= 1
    <2>1. p \in Makers(d)
        BY <1>5 DEF Makers
    <2> QED
        BY <2>1, Finite, OneMoreLess DEF Uninstalled
<1> QED
    BY <1>1, <1>2, <1>3, <1>4, <1>5 DEF ExactAt

(* And back, after a step.                                                 *)
LEMMA ExactIntro ==
    ASSUME Structure',
           ref_count' = [d \in Descs |-> ref_count'[d]],
           descriptor_count' = [d \in Descs |-> descriptor_count'[d]],
           \A d \in Descs : ExactAt(d)'
    PROVE  Exact'
<1>1. Counters'
    BY DEF ExactAt, Counters
<1>2. RefCountExact'
    BY DEF ExactAt, RefCountExact
<1>3. FreshInv'
    <2> SUFFICES ASSUME NEW p \in Procs, NEW i \in 1 .. Len(fresh'[p])
                 PROVE  ref_count'[fresh'[p][i]] = 1
        BY DEF FreshInv
    <2>1. fresh'[p] \in Seq(Descs)
        BY DEF Structure, Shape
    <2>2. PICK d \in Descs : d = fresh'[p][i]
        BY <2>1, ElementOfSeq
    <2>3. p \in Makers(d)'
        BY <2>1, <2>2, LenProperties DEF Makers, Range
    <2>4. IsFiniteSet(Makers(d)')
        <3>1. Makers(d)' \in SUBSET Procs
            BY DEF Makers
        <3> QED
            BY <3>1, FS_Subset, FileTableAssumption
    <2>5. Uninstalled(d)' >= 1
        BY <2>3, <2>4, OneMoreLess DEF Uninstalled
    <2> QED
        BY <2>2, <2>5 DEF ExactAt
<1> QED
    BY <1>1, <1>2, <1>3 DEF Exact

(* A step that changes neither the counters nor what they count.           *)
LEMMA ExactKeep ==
    ASSUME Structure, Structure', Exact, UNCHANGED <<allocated, ref_count, descriptor_count, puts, fresh>>,
           \A d \in Descs : Named(d)' = Named(d)
    PROVE  Exact'
<1>1. \A d \in Descs : ExactAt(d)'
    <2> TAKE d \in Descs
    <2>1. ExactAt(d)
        BY ExactElim
    <2>2. Held(d)' = Held(d) /\ Uninstalled(d)' = Uninstalled(d)
        BY SameCounts
    <2> QED
        BY <2>1, <2>2 DEF ExactAt
<1>2. /\ ref_count' = [d \in Descs |-> ref_count'[d]]
      /\ descriptor_count' = [d \in Descs |-> descriptor_count'[d]]
    BY DEF Exact, Counters
<1> QED
    BY <1>1, <1>2, ExactIntro

(* file_open and the others reserve.                                       *)
LEMMA OpenReserveExact ==
    ASSUME Structure, Structure', Exact, NEW p \in Procs, NEW fds \in Seq(Fds), OpenReserve(p, fds)
    PROVE  Exact'
<1> DEFINE t == filesp[p]
           row == [fd \in Fds |-> IF fd \in Range(fds) THEN "INIT" ELSE fd_array[t][fd]]
<1>1. /\ fd_array' = [fd_array EXCEPT ![t] = row]
      /\ UNCHANGED <<allocated, ref_count, descriptor_count, puts, fresh>>
    BY DEF OpenReserve, descs
<1>2. t \in Tables
    BY InUse DEF OpenReserve, Ready, Structure
<1>3. row \in [Fds -> {"NONE", "INIT"} \cup Descs]
    BY <1>2 DEF Structure, Shape
<1>4. \A i \in 1 .. Len(fds) : fds[i] \in Fds /\ fd_array[t][fds[i]] = "NONE"
    <2> TAKE i \in 1 .. Len(fds)
    <2>1. DOMAIN fds = 1 .. Len(fds) /\ Len(fds) \in Nat /\ fds[i] \in Fds /\ fds[i] \in Nat
        BY LenProperties, ElementOfSeq, FileTableAssumption DEF Fds
    <2>2. (fd_array[t][fds[i]] = "NONE" /\ fds[i] <= fds[i]) <=> (\E j \in 1 .. i : fds[i] = fds[j])
        BY <2>1 DEF OpenReserve, LowestFree
    <2> QED
        BY <2>1, <2>2
<1>5. ASSUME NEW d \in Descs PROVE Named(d)' = Named(d)
    <2>1. "NONE" # d /\ "INIT" # d
        BY FileTableAssumption
    <2>2. \A fd \in Fds : fd \in Range(fds) => fd_array[t][fd] = "NONE"
        BY <1>4, LenProperties DEF Range
    <2>3. In(row, d) = In(fd_array[t], d)
        BY <2>1, <2>2 DEF In
    <2> HIDE DEF row, t
    <2>4. /\ Named(d) \in Nat /\ Cardinality(In(fd_array[t], d)) \in Nat
          /\ Named(d)' = Named(d) - Cardinality(In(fd_array[t], d)) + Cardinality(In(row, d))
        BY <1>1, <1>2, <1>3, NamedStep DEF Structure
    <2> QED
        BY <2>3, <2>4
<1> QED
    BY <1>1, <1>5, ExactKeep

(* open_file_create.                                                       *)
LEMMA OpenCreateExact ==
    ASSUME Structure, Structure', Exact, NEW p \in Procs, NEW d \in Descs, OpenCreate(p, d)
    PROVE  Exact'
<1>1. /\ fresh' = [fresh EXCEPT ![p] = Append(fresh[p], d)]
      /\ allocated' = allocated \cup {d} /\ d \notin allocated
      /\ ref_count' = [ref_count EXCEPT ![d] = 1]
      /\ descriptor_count' = [descriptor_count EXCEPT ![d] = 1]
      /\ UNCHANGED <<fd_array, puts>>
    BY DEF OpenCreate
<1>2. ref_count \in [Descs -> Nat] /\ descriptor_count \in [Descs -> Nat]
    BY DEF Exact, Counters
<1>3. /\ Append(fresh[p], d) \in Seq(Descs)
      /\ \A e : e \in Range(Append(fresh[p], d)) <=> e \in Range(fresh[p]) \/ e = d
    <2>1. fresh[p] \in Seq(Descs)
        BY DEF Structure, Shape
    <2> DEFINE s == fresh[p]
               a == Append(s, d)
    <2>2. /\ a \in Seq(Descs) /\ DOMAIN a = 1 .. Len(s) + 1 /\ DOMAIN s = 1 .. Len(s) /\ Len(s) \in Nat
          /\ \A i \in 1 .. Len(s) : a[i] = s[i]
          /\ a[Len(s) + 1] = d
        BY <2>1, AppendProperties, LenProperties
    <2> HIDE DEF s, a
    <2>3. \A e : e \in Range(a) <=> e \in Range(s) \/ e = d
        BY <2>2 DEF Range
    <2> QED
        BY <2>2, <2>3 DEF s, a
<1>4. ASSUME NEW e \in Descs PROVE ExactAt(e)'
    <2>1. /\ ExactAt(e) /\ Named(e) \in Nat /\ Held(e) \in Nat /\ Uninstalled(e) \in Nat
          /\ e \in Range(fresh[p]) => Uninstalled(e) >= 1
        BY ExactElim
    <2>2. Named(e)' = Named(e) /\ Held(e)' = Held(e)
        BY <1>1, SameCounts
    <2>3. Uninstalled(e)' = Uninstalled(e) - (IF e \in Range(fresh[p]) THEN 1 ELSE 0)
                                           + (IF e \in Range(Append(fresh[p], d)) THEN 1 ELSE 0)
        BY <1>1, <1>3, UninstalledStep DEF Structure
    <2>4. CASE e = d
        <3>1. Uninstalled(e) = 0 /\ Named(e) = 0 /\ Held(e) = 0
            BY <1>1, <2>1, <2>4 DEF ExactAt
        <3>2. Uninstalled(e)' = 1
            BY <1>3, <2>1, <2>3, <2>4, <3>1
        <3>3. ref_count'[e] = 1 /\ descriptor_count'[e] = 1 /\ e \in allocated'
            BY <1>1, <1>2, <2>4
        <3> QED
            BY <2>2, <3>1, <3>2, <3>3 DEF ExactAt
    <2>5. CASE e # d
        <3>1. Uninstalled(e)' = Uninstalled(e)
            BY <1>3, <2>1, <2>3, <2>5
        <3>2. /\ ref_count'[e] = ref_count[e] /\ descriptor_count'[e] = descriptor_count[e]
              /\ e \in allocated' <=> e \in allocated
            BY <1>1, <1>2, <2>5
        <3> QED
            BY <2>1, <2>2, <3>1, <3>2 DEF ExactAt
    <2> QED
        BY <2>4, <2>5
<1>5. /\ ref_count' = [e \in Descs |-> ref_count'[e]]
      /\ descriptor_count' = [e \in Descs |-> descriptor_count'[e]]
    BY <1>1, <1>2
<1> QED
    BY <1>4, <1>5, ExactIntro

(* The slots an open in progress has reserved are FD_INIT.                 *)
LEMMA ReservedAreInit ==
    ASSUME Structure, NEW p \in Procs, reserved[p] # <<>>
    PROVE  /\ filesp[p] \in Tables
           /\ \A fd \in Fds : fd \in Range(reserved[p]) => fd_array[filesp[p]][fd] = "INIT"
<1>1. filesp[p] \in Tables
    BY InUse DEF Structure, CallInv
<1>2. \A fd : fd \in Range(reserved[p]) <=> \E i \in 1 .. Len(reserved[p]) : reserved[p][i] = fd
    BY LenProperties DEF Range, Structure, Shape
<1>3. \A fd \in Fds : fd \in Range(reserved[p]) => Reserves(p, filesp[p], fd)
    BY <1>2 DEF Reserves
<1> QED
    BY <1>1, <1>3 DEF Structure, SlotInv

(* fd_array_install: a created description becomes a named one.            *)
LEMMA OpenInstallExact ==
    ASSUME Structure, Structure', Exact, NEW p \in Procs, OpenInstall(p)
    PROVE  Exact'
<1> DEFINE t == filesp[p]
           slots == reserved[p]
           row == [fd \in Fds |-> IF fd \in Range(slots) THEN Installed(slots, fresh[p], fd)
                                                         ELSE fd_array[t][fd]]
<1>1. /\ row \in [Fds -> {"NONE", "INIT"} \cup Descs] /\ t \in Tables
      /\ fd_array' = [fd_array EXCEPT ![t] = row]
      /\ \A i \in 1 .. Len(slots) : slots[i] \in Fds /\ row[slots[i]] = fresh[p][i]
      /\ Len(slots) = Len(fresh[p]) /\ Len(slots) \in Nat
    BY InstallRow
<1>2. \A fd \in Fds : fd \in Range(slots) => fd_array[t][fd] = "INIT"
    BY ReservedAreInit DEF OpenInstall
<1>3. \A fd \in Fds : fd \notin Range(slots) => row[fd] = fd_array[t][fd]
    OBVIOUS
<1>4. /\ UNCHANGED <<allocated, ref_count, descriptor_count, puts>>
      /\ fresh' = [fresh EXCEPT ![p] = <<>>]
    BY DEF OpenInstall, descs
<1>5. /\ DOMAIN slots = 1 .. Len(slots) /\ DOMAIN fresh[p] = 1 .. Len(slots)
      /\ Distinct(fresh[p]) /\ Distinct(slots)
    BY <1>1, LenProperties DEF Structure, Shape, CallInv
<1>6. \A fd : fd \in Range(slots) <=> \E i \in 1 .. Len(slots) : slots[i] = fd
    BY <1>5 DEF Range
<1>7. \A d : d \in Range(fresh[p]) <=> \E i \in 1 .. Len(slots) : fresh[p][i] = d
    BY <1>5 DEF Range
<1> HIDE DEF row, slots, t
<1>8. ASSUME NEW d \in Descs PROVE ExactAt(d)'
    <2>1. /\ ExactAt(d) /\ Named(d) \in Nat /\ Held(d) \in Nat /\ Uninstalled(d) \in Nat
          /\ d \in Range(fresh[p]) => Uninstalled(d) >= 1
        BY ExactElim
    <2>2. Held(d)' = Held(d)
        BY <1>4, SameCounts
    <2>3. Uninstalled(d)' = Uninstalled(d) - (IF d \in Range(fresh[p]) THEN 1 ELSE 0)
        <3>1. <<>> \in Seq(Descs) /\ d \notin Range(<<>>)
            BY DEF Range
        <3>2. Uninstalled(d)' = Uninstalled(d) - (IF d \in Range(fresh[p]) THEN 1 ELSE 0)
                                    + (IF d \in Range(<<>>) THEN 1 ELSE 0)
            BY <1>4, <3>1, UninstalledStep DEF Structure
        <3> QED
            BY <2>1, <3>1, <3>2
    <2>4. /\ Cardinality(In(fd_array[t], d)) \in Nat
          /\ Named(d)' = Named(d) - Cardinality(In(fd_array[t], d)) + Cardinality(In(row, d))
        BY <1>1, NamedStep DEF Structure
    <2>5. "INIT" # d
        BY FileTableAssumption
    <2>6. CASE d \in Range(fresh[p])
        <3>1. PICK i \in 1 .. Len(slots) : fresh[p][i] = d
            BY <1>7, <2>6
        <3>2. \A j \in 1 .. Len(slots) : fresh[p][j] = d => j = i
            BY <1>1, <1>5, <3>1 DEF Distinct
        <3>3. slots[i] \notin In(fd_array[t], d)
            BY <1>1, <1>2, <1>6, <2>5, <3>1 DEF In
        <3>4. \A fd \in Fds : row[fd] = d <=> fd_array[t][fd] = d \/ fd = slots[i]
            <4> TAKE fd \in Fds
            <4>1. CASE fd \in Range(slots)
                <5>1. PICK j \in 1 .. Len(slots) : slots[j] = fd
                    BY <1>6, <4>1
                <5>2. row[fd] = fresh[p][j] /\ fd_array[t][fd] = "INIT"
                    BY <1>1, <1>2, <4>1, <5>1
                <5>3. slots[j] = slots[i] => j = i
                    BY <1>5, <3>1, <5>1 DEF Distinct
                <5> QED
                    BY <2>5, <3>1, <3>2, <5>1, <5>2, <5>3
            <4>2. CASE fd \notin Range(slots)
                BY <1>3, <1>6, <3>1, <4>2
            <4> QED
                BY <4>1, <4>2
        <3>5. In(row, d) = In(fd_array[t], d) \cup {slots[i]}
            BY <1>1, <3>1, <3>4 DEF In
        <3>6. Cardinality(In(row, d)) = Cardinality(In(fd_array[t], d)) + 1
            BY <3>3, <3>5, Finite, OneMoreLess
        <3>7. Uninstalled(d)' = Uninstalled(d) - 1 /\ Named(d)' = Named(d) + 1
            BY <2>1, <2>3, <2>4, <2>6, <3>6
        <3>8. /\ ref_count'[d] = ref_count[d] /\ descriptor_count'[d] = descriptor_count[d]
              /\ d \in allocated' <=> d \in allocated
            BY <1>4
        <3>9. /\ ref_count[d] = Named(d) + Held(d) + Uninstalled(d) /\ ref_count[d] = 1
              /\ descriptor_count[d] = Named(d) + Uninstalled(d)
            BY <2>1, <2>6 DEF ExactAt
        <3>10. /\ ref_count[d] = Named(d)' + Held(d)' + Uninstalled(d)'
               /\ descriptor_count[d] = Named(d)' + Uninstalled(d)'
            BY <2>1, <2>2, <3>7, <3>9
        <3> QED
            BY <2>1, <3>8, <3>9, <3>10 DEF ExactAt
    <2>7. CASE d \notin Range(fresh[p])
        <3>1. \A fd \in Fds : row[fd] = d <=> fd_array[t][fd] = d
            <4> TAKE fd \in Fds
            <4>1. CASE fd \in Range(slots)
                <5>1. PICK j \in 1 .. Len(slots) : slots[j] = fd
                    BY <1>6, <4>1
                <5>2. row[fd] # d /\ fd_array[t][fd] = "INIT"
                    BY <1>1, <1>2, <1>7, <2>7, <4>1, <5>1
                <5> QED
                    BY <2>5, <5>2
            <4>2. CASE fd \notin Range(slots)
                BY <1>3, <4>2
            <4> QED
                BY <4>1, <4>2
        <3>2. In(row, d) = In(fd_array[t], d)
            BY <3>1 DEF In
        <3>3. Uninstalled(d)' = Uninstalled(d) /\ Named(d)' = Named(d)
            BY <2>1, <2>3, <2>4, <2>7, <3>2
        <3> QED
            BY <1>4, <2>1, <2>2, <3>3 DEF ExactAt
    <2> QED
        BY <2>6, <2>7
<1>9. /\ ref_count' = [e \in Descs |-> ref_count'[e]]
      /\ descriptor_count' = [e \in Descs |-> descriptor_count'[e]]
    BY <1>4 DEF Exact, Counters
<1> QED
    BY <1>8, <1>9, ExactIntro

(* A failed open frees what it made.                                       *)
LEMMA OpenCancelExact ==
    ASSUME Structure, Structure', Exact, NEW p \in Procs, OpenCancel(p)
    PROVE  Exact'
<1> DEFINE t == filesp[p]
           row == [fd \in Fds |-> IF fd \in Range(reserved[p]) THEN "NONE" ELSE fd_array[t][fd]]
<1>1. reserved[p] # <<>>
    <2>1. Len(fresh[p]) \in Nat /\ Len(<<>>) = 0 /\ Len(fresh[p]) < Len(reserved[p])
        BY LenProperties DEF Structure, Shape, OpenCancel
    <2> QED
        BY <2>1
<1>2. t \in Tables /\ \A fd \in Fds : fd \in Range(reserved[p]) => fd_array[t][fd] = "INIT"
    BY <1>1, ReservedAreInit
<1>3. row \in [Fds -> {"NONE", "INIT"} \cup Descs]
    BY <1>2 DEF Structure, Shape
<1>4. /\ fd_array' = [fd_array EXCEPT ![t] = row]
      /\ fresh' = [fresh EXCEPT ![p] = <<>>] /\ UNCHANGED puts
      /\ allocated' = allocated \ Range(fresh[p])
      /\ ref_count' = [d \in Descs |-> IF d \in Range(fresh[p]) THEN 0 ELSE ref_count[d]]
      /\ descriptor_count' = [d \in Descs |-> IF d \in Range(fresh[p]) THEN 0 ELSE descriptor_count[d]]
    BY DEF OpenCancel, Undone
<1>5. ASSUME NEW d \in Descs PROVE ExactAt(d)'
    <2>1. /\ ExactAt(d) /\ Named(d) \in Nat /\ Held(d) \in Nat /\ Uninstalled(d) \in Nat
          /\ d \in Range(fresh[p]) => Uninstalled(d) >= 1
        BY ExactElim
    <2>2. Held(d)' = Held(d)
        BY <1>4, SameCounts
    <2>3. Uninstalled(d)' = Uninstalled(d) - (IF d \in Range(fresh[p]) THEN 1 ELSE 0)
        <3>1. <<>> \in Seq(Descs) /\ d \notin Range(<<>>)
            BY DEF Range
        <3>2. Uninstalled(d)' = Uninstalled(d) - (IF d \in Range(fresh[p]) THEN 1 ELSE 0)
                                    + (IF d \in Range(<<>>) THEN 1 ELSE 0)
            BY <1>4, <3>1, UninstalledStep DEF Structure
        <3> QED
            BY <2>1, <3>1, <3>2
    <2>4. In(row, d) = In(fd_array[t], d)
        BY <1>2, FileTableAssumption DEF In
    <2> HIDE DEF row, t
    <2>5. /\ Cardinality(In(fd_array[t], d)) \in Nat
          /\ Named(d)' = Named(d) - Cardinality(In(fd_array[t], d)) + Cardinality(In(row, d))
        BY <1>2, <1>3, <1>4, NamedStep DEF Structure
    <2>6. Named(d)' = Named(d)
        BY <2>1, <2>4, <2>5
    <2>7. CASE d \in Range(fresh[p])
        <3>1. Uninstalled(d) = 1 /\ Named(d) = 0 /\ Held(d) = 0
            BY <2>1, <2>7 DEF ExactAt
        <3>2. ref_count'[d] = 0 /\ descriptor_count'[d] = 0 /\ d \notin allocated'
            BY <1>4, <2>7
        <3>3. Uninstalled(d)' = 0
            BY <2>3, <2>7, <3>1
        <3> QED
            BY <2>2, <2>6, <3>1, <3>2, <3>3 DEF ExactAt
    <2>8. CASE d \notin Range(fresh[p])
        <3>1. /\ ref_count'[d] = ref_count[d] /\ descriptor_count'[d] = descriptor_count[d]
              /\ d \in allocated' <=> d \in allocated
            BY <1>4, <2>8
        <3>2. Uninstalled(d)' = Uninstalled(d)
            BY <2>1, <2>3, <2>8
        <3> QED
            BY <2>1, <2>2, <2>6, <3>1, <3>2 DEF ExactAt
    <2> QED
        BY <2>7, <2>8
<1>6. /\ ref_count' = [e \in Descs |-> ref_count'[e]]
      /\ descriptor_count' = [e \in Descs |-> descriptor_count'[e]]
    BY <1>4
<1> QED
    BY <1>5, <1>6, ExactIntro

(* fd_acquire: one more hand.                                              *)
LEMMA AcquireExact ==
    ASSUME Structure, Structure', Exact, NEW p \in Procs, NEW fd \in Fds, Acquire(p, fd)
    PROVE  Exact'
<1>1. PICK d \in Descs : d = fd_array[filesp[p]][fd]
    BY DEF Acquire, Opened
<1>2. /\ ref_count' = [ref_count EXCEPT ![d] = @ + 1]
      /\ puts' = [puts EXCEPT ![p] = <<d>>] /\ puts[p] = <<>>
      /\ UNCHANGED <<fd_array, allocated, descriptor_count, fresh>>
    BY <1>1 DEF Acquire, Ready
<1>3. filesp[p] \in Tables
    BY InUse DEF Acquire, Ready, Structure
<1>4. ref_count \in [Descs -> Nat] /\ descriptor_count \in [Descs -> Nat]
    BY DEF Exact, Counters
<1>5. ASSUME NEW e \in Descs PROVE ExactAt(e)'
    <2>1. /\ ExactAt(e) /\ Named(e) \in Nat /\ Held(e) \in Nat /\ Uninstalled(e) \in Nat
          /\ e = d => Named(e) >= 1 /\ Uninstalled(e) = 0
        BY <1>1, <1>3, ExactElim
    <2>2. Named(e)' = Named(e) /\ Uninstalled(e)' = Uninstalled(e)
        BY <1>2, SameCounts
    <2>3. Held(e)' = Held(e) + (IF d = e THEN 1 ELSE 0)
        <3>1. /\ <<d>> \in Seq(Descs) /\ Len(<<d>>) <= FILES_STRUCT_NENTRY
              /\ Cardinality(At(puts[p], e)) = 0
              /\ Cardinality(At(<<d>>, e)) = IF d = e THEN 1 ELSE 0
            <4>1. /\ <<d>> \in Seq(Descs) /\ Len(<<d>>) = 1 /\ Cardinality(At(<<>>, e)) = 0
                  /\ Cardinality(At(<<d>>, e)) = IF d = e THEN 1 ELSE 0
                BY ShortHands, Zenon
            <4>2. 1 <= FILES_STRUCT_NENTRY
                BY FileTableAssumption
            <4>3. puts[p] = <<>>
                BY <1>2
            <4> QED
                BY <4>1, <4>2, <4>3
        <3>2. Held(e)' = Held(e) - Cardinality(At(puts[p], e)) + Cardinality(At(<<d>>, e))
            BY <1>2, <3>1, HeldStep DEF Structure
        <3> QED
            BY <2>1, <3>1, <3>2
    <2>4. ref_count'[e] = ref_count[e] + (IF d = e THEN 1 ELSE 0)
        BY <1>2, <1>4
    <2> QED
        BY <1>2, <2>1, <2>2, <2>3, <2>4 DEF ExactAt
<1>6. /\ ref_count' = [e \in Descs |-> ref_count'[e]]
      /\ descriptor_count' = [e \in Descs |-> descriptor_count'[e]]
    BY <1>2, <1>4
<1> QED
    BY <1>5, <1>6, ExactIntro

(* open_file_put: one hand less, and the last one frees.                   *)
LEMMA PutExact ==
    ASSUME Structure, Structure', Exact, NEW p \in Procs, Put(p)
    PROVE  Exact'
<1>1. puts[p] \in Seq(Descs) /\ puts[p] # <<>> /\ Len(puts[p]) <= FILES_STRUCT_NENTRY
    BY DEF Structure, Shape, CallInv, Put
<1>2. PICK d \in Descs, s \in Seq(Descs) :
        /\ d = Head(puts[p]) /\ s = Tail(puts[p])
        /\ Len(s) <= FILES_STRUCT_NENTRY
        /\ \A e : /\ Cardinality(At(s, e)) \in Nat
                  /\ Cardinality(At(puts[p], e)) = Cardinality(At(s, e)) + (IF d = e THEN 1 ELSE 0)
    <2>1. /\ Head(puts[p]) \in Descs /\ Tail(puts[p]) \in Seq(Descs)
          /\ Len(Tail(puts[p])) = Len(puts[p]) - 1
        BY <1>1, TailHands
    <2>2. Len(Tail(puts[p])) <= FILES_STRUCT_NENTRY
        BY <1>1, <2>1, LenProperties, FileTableAssumption
    <2>3. \A e : /\ Cardinality(At(Tail(puts[p]), e)) \in Nat
                 /\ Cardinality(At(puts[p], e)) =
                        Cardinality(At(Tail(puts[p]), e)) + (IF Head(puts[p]) = e THEN 1 ELSE 0)
        BY <1>1, TailHands
    <2> QED
        BY <2>1, <2>2, <2>3
<1>3. /\ ref_count' = [ref_count EXCEPT ![d] = @ - 1]
      /\ allocated' = IF ref_count[d] = 1 THEN allocated \ {d} ELSE allocated
      /\ puts' = [puts EXCEPT ![p] = s]
      /\ UNCHANGED <<fd_array, descriptor_count, fresh>>
    BY <1>2 DEF Put, LastReference
<1>4. ref_count \in [Descs -> Nat] /\ descriptor_count \in [Descs -> Nat]
    BY DEF Exact, Counters
<1>5. ASSUME NEW e \in Descs PROVE ExactAt(e)'
    <2>1. ExactAt(e) /\ Named(e) \in Nat /\ Held(e) \in Nat /\ Uninstalled(e) \in Nat
        BY ExactElim
    <2>2. Named(e)' = Named(e) /\ Uninstalled(e)' = Uninstalled(e)
        BY <1>3, SameCounts
    <2>3. /\ Held(e)' = Held(e) - Cardinality(At(puts[p], e)) + Cardinality(At(s, e))
          /\ Cardinality(At(puts[p], e)) <= Held(e)
        BY <1>2, <1>3, HeldStep DEF Structure
    <2>4. /\ Held(e)' = Held(e) - (IF d = e THEN 1 ELSE 0)
          /\ d = e => Held(e) >= 1
        BY <1>2, <2>1, <2>3
    <2>5. ref_count'[e] = ref_count[e] - (IF d = e THEN 1 ELSE 0)
        BY <1>3, <1>4
    <2>6. e \in allocated' <=> e \in allocated /\ ~ (e = d /\ ref_count[e] = 1)
        BY <1>3
    <2>7. e = d => Uninstalled(e) = 0
        BY <2>1, <2>4 DEF ExactAt
    <2> QED
        BY <1>3, <2>1, <2>2, <2>4, <2>5, <2>6, <2>7 DEF ExactAt
<1>6. /\ ref_count' = [e \in Descs |-> ref_count'[e]]
      /\ descriptor_count' = [e \in Descs |-> descriptor_count'[e]]
    BY <1>3, <1>4
<1> QED
    BY <1>5, <1>6, ExactIntro

(* Of the names of d in table t left[d] become hands and got[d] come.      *)
Moves(d, t, row, s, got, left) ==
    /\ got[d] > 0 => \E u \in Tables, fd \in Fds : fd_array[u][fd] = d
    /\ Cardinality(In(row, d)) = Cardinality(In(fd_array[t], d)) - left[d] + got[d]
    /\ Cardinality(At(s, d)) = left[d]
    /\ ref_count'[d] = ref_count[d] + got[d]
    /\ descriptor_count'[d] = descriptor_count[d] - left[d] + got[d]

Total(f) == f = [d \in Descs |-> f[d]]

(* The arithmetic of moving counts: c names in the row before, r after.    *)
LEMMA MoveAt ==
    ASSUME NEW d, NEW c \in Nat, NEW r \in Nat, NEW m \in Nat, NEW g \in Nat,
           ExactAt(d), Named(d) \in Nat, Held(d) \in Nat, Uninstalled(d) \in Nat,
           Named(d)' = Named(d) - c + r, c <= Named(d), r = c - m + g,
           Held(d)' = Held(d) + m, Uninstalled(d)' = Uninstalled(d),
           ref_count'[d] = ref_count[d] + g,
           descriptor_count'[d] = descriptor_count[d] - m + g,
           d \in allocated' <=> d \in allocated, g > 0 => Uninstalled(d) = 0 /\ Named(d) >= 1
    PROVE  ExactAt(d)'
<1>1. /\ ref_count[d] = Named(d) + Held(d) + Uninstalled(d)
      /\ descriptor_count[d] = Named(d) + Uninstalled(d)
      /\ d \in allocated <=> ref_count[d] > 0
      /\ Uninstalled(d) >= 1 => ref_count[d] = 1
    BY DEF ExactAt
<1>2. Named(d)' = Named(d) - m + g /\ Named(d)' \in Nat
    OBVIOUS
<1>3. /\ ref_count'[d] = Named(d)' + Held(d)' + Uninstalled(d)'
      /\ descriptor_count'[d] = Named(d)' + Uninstalled(d)'
      /\ ref_count'[d] \in Nat /\ descriptor_count'[d] \in Nat
    BY <1>1, <1>2
<1>4. ref_count[d] > 0 <=> ref_count'[d] > 0
    BY <1>1
<1>5. Uninstalled(d)' >= 1 => ref_count'[d] = 1
    BY <1>1
<1> QED
    BY <1>1, <1>3, <1>4, <1>5 DEF ExactAt

(* A step that rewrites one row and one hand and moves what it counts.     *)
LEMMA MoveExact ==
    ASSUME Structure, Structure', Exact, NEW p \in Procs, NEW t \in Tables,
           NEW row \in [Fds -> {"NONE", "INIT"} \cup Descs], NEW s \in Seq(Descs),
           Len(s) <= FILES_STRUCT_NENTRY, puts[p] = <<>>,
           fd_array' = [fd_array EXCEPT ![t] = row], puts' = [puts EXCEPT ![p] = s],
           UNCHANGED <<allocated, fresh>>,
           Total(ref_count'), Total(descriptor_count'),
           NEW got \in [Descs -> Nat], NEW left \in [Descs -> Nat],
           \A d \in Descs : Moves(d, t, row, s, got, left)
    PROVE  Exact'
<1>1. ASSUME NEW d \in Descs PROVE ExactAt(d)'
    <2>1. /\ ExactAt(d) /\ Named(d) \in Nat /\ Held(d) \in Nat /\ Uninstalled(d) \in Nat
          /\ \A u \in Tables, fd \in Fds : fd_array[u][fd] = d => Named(d) >= 1 /\ Uninstalled(d) = 0
        BY ExactElim
    <2>2. Uninstalled(d)' = Uninstalled(d)
        BY SameCounts
    <2>3. /\ Named(d)' = Named(d) - Cardinality(In(fd_array[t], d)) + Cardinality(In(row, d))
          /\ Cardinality(In(fd_array[t], d)) \in Nat /\ Cardinality(In(row, d)) \in Nat
          /\ Cardinality(In(fd_array[t], d)) <= Named(d)
        BY NamedStep DEF Structure
    <2>4. Held(d)' = Held(d) - Cardinality(At(puts[p], d)) + Cardinality(At(s, d))
        BY HeldStep DEF Structure
    <2>5. Cardinality(At(puts[p], d)) = 0
        BY ShortHands
    <2>6. got[d] \in Nat /\ left[d] \in Nat
        OBVIOUS
    <2>7. got[d] > 0 => Uninstalled(d) = 0 /\ Named(d) >= 1
        BY <2>1 DEF Moves
    <2>8. /\ ref_count[d] = Named(d) + Held(d) + Uninstalled(d)
          /\ descriptor_count[d] = Named(d) + Uninstalled(d)
          /\ d \in allocated <=> ref_count[d] > 0
          /\ Uninstalled(d) >= 1 => ref_count[d] = 1
        BY <2>1 DEF ExactAt
    <2>9. /\ Cardinality(In(row, d)) = Cardinality(In(fd_array[t], d)) - left[d] + got[d]
          /\ Cardinality(At(s, d)) = left[d]
          /\ ref_count'[d] = ref_count[d] + got[d]
          /\ descriptor_count'[d] = descriptor_count[d] - left[d] + got[d]
          /\ d \in allocated' <=> d \in allocated
        BY DEF Moves
    <2>10. Held(d)' = Held(d) + left[d]
        BY <2>1, <2>4, <2>5, <2>6, <2>9
    <2> QED
        BY <2>1, <2>2, <2>3, <2>6, <2>7, <2>9, <2>10, MoveAt
<1> QED
    BY <1>1, ExactIntro DEF Total

(* file_close: a name becomes a hand.                                      *)
LEMMA CloseExact ==
    ASSUME Structure, Structure', Exact, NEW p \in Procs, NEW fd \in Fds, Close(p, fd)
    PROVE  Exact'
<1> DEFINE t == filesp[p]
           row == [fd_array[t] EXCEPT ![fd] = "NONE"]
           got == [e \in Descs |-> 0]
<1>1. /\ t \in Tables /\ fd_array[t] \in [Fds -> {"NONE", "INIT"} \cup Descs]
      /\ row \in [Fds -> {"NONE", "INIT"} \cup Descs]
      /\ fd_array[t][fd] \in Descs
      /\ fd_array' = [fd_array EXCEPT ![t] = row]
    BY CloseRow
<1>2. PICK d \in Descs : d = fd_array[t][fd]
    BY <1>1
<1> DEFINE left == [e \in Descs |-> IF e = d THEN 1 ELSE 0]
<1>3. /\ descriptor_count' = [descriptor_count EXCEPT ![d] = @ - 1]
      /\ puts' = [puts EXCEPT ![p] = <<d>>] /\ puts[p] = <<>>
      /\ UNCHANGED <<allocated, ref_count, fresh>>
    BY <1>2 DEF Close, Ready
<1>4. ref_count \in [Descs -> Nat] /\ descriptor_count \in [Descs -> Nat]
    BY DEF Exact, Counters
<1>5. <<d>> \in Seq(Descs) /\ Len(<<d>>) <= FILES_STRUCT_NENTRY
    BY FileTableAssumption
<1>6. ASSUME NEW e \in Descs
      PROVE  Moves(e, t, row, <<d>>, got, left)
    <2>1. /\ Cardinality(In(fd_array[t], e)) \in Nat
          /\ Cardinality(In(Written(fd_array[t], fd, "NONE"), e)) =
                Cardinality(In(fd_array[t], e)) - (IF fd_array[t][fd] = e THEN 1 ELSE 0)
                                                + (IF "NONE" = e THEN 1 ELSE 0)
        <3> HIDE DEF t, row
        <3> QED
            BY <1>1, OneSlot
    <2>2. "NONE" # e /\ left[e] = (IF fd_array[t][fd] = e THEN 1 ELSE 0) /\ got[e] = 0
        BY <1>2, FileTableAssumption
    <2>3. Cardinality(At(<<d>>, e)) = left[e]
        BY ShortHands
    <2>4. /\ ref_count'[e] = ref_count[e] /\ ref_count[e] \in Nat /\ descriptor_count[e] \in Nat
          /\ descriptor_count'[e] = descriptor_count[e] - left[e]
        BY <1>3, <1>4
    <2> QED
        BY <2>1, <2>2, <2>3, <2>4 DEF Moves, Written
<1>7. Total(ref_count') /\ Total(descriptor_count')
    BY <1>3, <1>4 DEF Total
<1>8. got \in [Descs -> Nat] /\ left \in [Descs -> Nat] 
    OBVIOUS
<1> HIDE DEF row, t, got, left
<1> QED
    BY <1>1, <1>3, <1>5, <1>6, <1>7, <1>8, MoveExact

(* file_dup: one name more, and perhaps one that becomes a hand.           *)
LEMMA DupExact ==
    ASSUME Structure, Structure', Exact, NEW p \in Procs, NEW from \in Fds, NEW to \in Fds,
           Dup(p, from, to)
    PROVE  Exact'
<1> DEFINE t == filesp[p]
           row == [fd_array[t] EXCEPT ![to] = fd_array[t][from]]
           s == IF fd_array[t][to] \in Descs THEN <<fd_array[t][to]>> ELSE <<>>
<1>1. /\ t \in Tables /\ fd_array[t] \in [Fds -> {"NONE", "INIT"} \cup Descs]
      /\ row \in [Fds -> {"NONE", "INIT"} \cup Descs]
      /\ fd_array[t][from] \in Descs /\ fd_array[t][to] \in {"NONE"} \cup Descs
      /\ fd_array' = [fd_array EXCEPT ![t] = row]
      /\ puts' = [puts EXCEPT ![p] = s]
      /\ s \in Seq(Descs) /\ Len(s) <= FILES_STRUCT_NENTRY
    BY DupRow
<1>2. PICK d \in Descs, old \in {"NONE"} \cup Descs : d = fd_array[t][from] /\ old = fd_array[t][to]
    BY <1>1
<1> DEFINE left == [e \in Descs |-> IF e = old THEN 1 ELSE 0]
           got == [e \in Descs |-> IF e = d THEN 1 ELSE 0]
<1>3. /\ ref_count' = [e \in Descs |-> ref_count[e] + got[e]]
      /\ descriptor_count' =
            [e \in Descs |-> (IF e = old THEN descriptor_count[e] - 1 ELSE descriptor_count[e]) + got[e]]
      /\ UNCHANGED <<allocated, fresh>> /\ puts[p] = <<>>
    BY <1>2 DEF Dup, Ready, GotDescriptors
<1>4. ref_count \in [Descs -> Nat] /\ descriptor_count \in [Descs -> Nat]
    BY DEF Exact, Counters
<1>5. ASSUME NEW e \in Descs
      PROVE  Moves(e, t, row, s, got, left)
    <2>1. /\ Cardinality(In(fd_array[t], e)) \in Nat
          /\ Cardinality(In(Written(fd_array[t], to, fd_array[t][from]), e)) =
                Cardinality(In(fd_array[t], e)) - (IF fd_array[t][to] = e THEN 1 ELSE 0)
                                                + (IF fd_array[t][from] = e THEN 1 ELSE 0)
        <3> HIDE DEF t, row
        <3> QED
            BY <1>1, OneSlot
    <2>2. /\ left[e] = (IF fd_array[t][to] = e THEN 1 ELSE 0)
          /\ got[e] = (IF fd_array[t][from] = e THEN 1 ELSE 0)
        BY <1>2
    <2>3. Cardinality(At(s, e)) = left[e]
        <3>1. CASE old \in Descs
            <4>1. s = <<old>>
                BY <1>2, <3>1
            <4>2. Cardinality(At(<<old>>, e)) = IF old = e THEN 1 ELSE 0
                BY <3>1, ShortHands
            <4> HIDE DEF s
            <4> QED
                BY <4>1, <4>2
        <3>2. CASE old \notin Descs
            <4>1. s = <<>> /\ old # e
                BY <1>2, <3>2
            <4>2. Cardinality(At(<<>>, e)) = 0
                BY ShortHands
            <4> HIDE DEF s
            <4> QED
                BY <4>1, <4>2
        <3> QED
            BY <3>1, <3>2
    <2>4. /\ ref_count'[e] = ref_count[e] + got[e] /\ descriptor_count[e] \in Nat
          /\ descriptor_count'[e] = descriptor_count[e] - left[e] + got[e]
        BY <1>3, <1>4
    <2>5. got[e] > 0 => \E u \in Tables, fd \in Fds : fd_array[u][fd] = e
        BY <1>1, <2>2
    <2> QED
        BY <2>1, <2>2, <2>3, <2>4, <2>5 DEF Moves, Written
<1>6. Total(ref_count') /\ Total(descriptor_count')
    BY <1>3, <1>4 DEF Total
<1>7. got \in [Descs -> Nat] /\ left \in [Descs -> Nat]
    OBVIOUS
<1> HIDE DEF row, t, got, left, s
<1> QED
    BY <1>1, <1>3, <1>5, <1>6, <1>7, MoveExact

(* files_closeall and files_destroy: names become hands.                   *)
LEMMA DetachExact ==
    ASSUME Structure, Structure', Exact, NEW p \in Procs, NEW t \in Tables, NEW first,
           DetachFrom(p, t, first), puts[p] = <<>>, UNCHANGED <<allocated, ref_count, fresh>>
    PROVE  Exact'
<1>1. PICK row \in [Fds -> {"NONE", "INIT"} \cup Descs], s \in Seq(Descs), n \in [Descs -> Nat] :
        DetachWrites(p, t, first, row, s, n)
    <2>1. Shape
        BY DEF Structure
    <2> QED
        BY <2>1, DetachRow
<1> DEFINE got == [d \in Descs |-> 0]
<1>2. got \in [Descs -> Nat]
    OBVIOUS
<1>3. Total(ref_count') /\ Total(descriptor_count')
    BY DEF Total, DetachFrom, Exact, Counters
<1>4. ASSUME NEW d \in Descs PROVE Moves(d, t, row, s, got, n)
    <2>1. /\ got[d] = 0 /\ n[d] \in Nat /\ ref_count[d] \in Nat /\ descriptor_count[d] \in Nat
          /\ ref_count'[d] = ref_count[d]
        BY DEF Exact, Counters
    <2>2. Cardinality(In(fd_array[t], d)) \in Nat
        BY Finite, FS_CardinalityType
    <2> QED
        BY <1>1, <2>1, <2>2 DEF Moves, DetachWrites
<1>5. /\ fd_array' = [fd_array EXCEPT ![t] = row]
      /\ puts' = [puts EXCEPT ![p] = s] /\ Len(s) <= FILES_STRUCT_NENTRY
    BY <1>1 DEF DetachWrites
<1> HIDE DEF got
<1> QED
    BY <1>2, <1>3, <1>4, <1>5, MoveExact

(* dup_fs: every open slot is named once more.                             *)
LEMMA ForkCopyExact ==
    ASSUME Structure, Structure', Exact, NEW p \in Procs, NEW c \in Procs, NEW t \in Tables,
           ForkCopy(p, c, t)
    PROVE  Exact'
<1> DEFINE from == filesp[p]
           row == [fd \in Fds |-> IF Opened(from, fd) THEN fd_array[from][fd] ELSE "NONE"]
           got == [d \in Descs |-> Cardinality(Slots(from, d))]
           left == [d \in Descs |-> 0]
<1>1. /\ from \in Tables
      /\ row \in [Fds -> {"NONE", "INIT"} \cup Descs]
      /\ fd_array' = [fd_array EXCEPT ![t] = row]
      /\ \A d \in Descs : In(row, d) = Slots(from, d) /\ In(fd_array[t], d) = {}
    BY CopyRow
<1>2. /\ ref_count' = [d \in Descs |-> ref_count[d] + got[d]]
      /\ descriptor_count' = [d \in Descs |-> descriptor_count[d] + got[d]]
      /\ UNCHANGED <<allocated, fresh, puts>> /\ puts[p] = <<>>
    BY DEF ForkCopy, GotDescriptors, Ready
<1>3. puts' = [puts EXCEPT ![p] = <<>>]
    BY <1>2 DEF Structure, Shape
<1>4. \A d \in Descs : IsFiniteSet(Slots(from, d)) /\ Cardinality(Slots(from, d)) \in Nat
    <2> TAKE d \in Descs
    <2>1. Slots(from, d) \in SUBSET Fds
        BY DEF Slots
    <2> QED
        BY <2>1, FdsFinite, FS_Subset, FS_CardinalityType
<1>5. got \in [Descs -> Nat] /\ left \in [Descs -> Nat]
    BY <1>4
<1>6. Total(ref_count') /\ Total(descriptor_count')
    BY <1>2 DEF Total
<1>7. ASSUME NEW d \in Descs PROVE Moves(d, t, row, <<>>, got, left)
    <2>1. /\ ref_count[d] \in Nat /\ descriptor_count[d] \in Nat
          /\ ref_count'[d] = ref_count[d] + got[d]
          /\ descriptor_count'[d] = descriptor_count[d] + got[d]
          /\ got[d] = Cardinality(Slots(from, d)) /\ got[d] \in Nat /\ left[d] = 0
        BY <1>2, <1>4 DEF Exact, Counters
    <2>2. Cardinality(In(fd_array[t], d)) = 0 /\ Cardinality(In(row, d)) = got[d]
        BY <1>1, <2>1, FS_EmptySet
    <2>3. Cardinality(At(<<>>, d)) = 0
        BY ShortHands
    <2>4. got[d] > 0 => \E u \in Tables, fd \in Fds : fd_array[u][fd] = d
        <3>1. got[d] > 0 => Slots(from, d) # {}
            BY <2>1, FS_EmptySet
        <3> QED
            BY <1>1, <3>1 DEF Slots
    <2> HIDE DEF got, left, row, from
    <2> QED
        BY <2>1, <2>2, <2>3, <2>4 DEF Moves
<1>8. <<>> \in Seq(Descs) /\ Len(<<>>) <= FILES_STRUCT_NENTRY
    BY FileTableAssumption
<1> HIDE DEF got, left, row, from
<1> QED
    BY <1>1, <1>2, <1>3, <1>5, <1>6, <1>7, <1>8, MoveExact
-----------------------------------------------------------------------------
(* One process has an empty table.                                         *)
LEMMA FileInit == Init => Structure /\ Exact
<1> SUFFICES ASSUME Init PROVE Structure /\ Exact
    OBVIOUS
<1>1. PICK p \in Procs, t \in Tables :
        /\ filesp = [q \in Procs |-> IF q = p THEN t ELSE None]
        /\ files_count = [u \in Tables |-> IF u = t THEN 1 ELSE 0]
    BY DEF Init
<1>2. /\ fd_array = [u \in Tables |-> [fd \in Fds |-> "NONE"]]
      /\ allocated = {}
      /\ ref_count = [d \in Descs |-> 0] /\ descriptor_count = [d \in Descs |-> 0]
      /\ reserved = [q \in Procs |-> <<>>] /\ fresh = [q \in Procs |-> <<>>]
      /\ puts = [q \in Procs |-> <<>>] /\ dying = [q \in Procs |-> None]
    BY DEF Init
<1>3. Shape
    BY <1>1, <1>2 DEF Shape
<1>4. CallInv
    <2>1. Len(<<>>) = 0 /\ Distinct(<<>>) /\ FILES_STRUCT_NENTRY \in Nat
        BY FileTableAssumption DEF Distinct
    <2> QED
        BY <1>2, <2>1 DEF CallInv
<1>5. SlotInv
    BY <1>2 DEF SlotInv, Reserves
<1>6. TableInv
    <2>1. None \notin Tables
        BY FileTableAssumption
    <2>2. \A u \in Tables : Sharers(u) = IF u = t THEN {p} ELSE {}
        BY <1>1, <2>1 DEF Sharers
    <2>3. \A u \in Tables : files_count[u] = Cardinality(Sharers(u))
        BY <1>1, <2>2, FS_Singleton, FS_EmptySet
    <2> QED
        BY <1>2, <2>3 DEF TableInv
<1>7. Counters /\ FreshInv
    <2>1. Len(<<>>) = 0
        OBVIOUS
    <2> QED
        BY <1>2, <2>1 DEF Counters, FreshInv
<1>8. RefCountExact
    <2>1. ASSUME NEW d \in Descs PROVE Named(d) = 0 /\ Held(d) = 0 /\ Uninstalled(d) = 0
        <3>1. Names(d) = {}
            <4>1. d # "NONE"
                BY FileTableAssumption
            <4> QED
                BY <1>2, <4>1 DEF Names
        <3>2. Hands(d) = {}
            BY <1>2 DEF Hands
        <3>3. Makers(d) = {}
            BY <1>2 DEF Makers, Range
        <3> QED
            BY <3>1, <3>2, <3>3, FS_EmptySet DEF Named, Held, Uninstalled
    <2> QED
        BY <1>2, <2>1 DEF RefCountExact
<1> QED
    BY <1>3, <1>4, <1>5, <1>6, <1>7, <1>8 DEF Structure, Exact

(* Every step keeps the structure and the counts.                          *)
LEMMA FileStep == Structure /\ Exact /\ [Next]_vars => Structure' /\ Exact'
<1> SUFFICES ASSUME Structure, Exact, [Next]_vars PROVE Structure' /\ Exact'
    OBVIOUS
<1>1. ASSUME NEW p \in Procs, OpenInstall(p) PROVE Structure' /\ Exact'
    BY <1>1, OpenInstallStructure, OpenInstallExact
<1>2. ASSUME NEW p \in Procs, OpenCancel(p) PROVE Structure' /\ Exact'
    BY <1>2, OpenCancelStructure, OpenCancelExact
<1>3. ASSUME NEW p \in Procs, Put(p) PROVE Structure' /\ Exact'
    BY <1>3, PutStructure, PutExact
<1>4. ASSUME NEW p \in Procs, files_destroy(p) PROVE Structure' /\ Exact'
    <2>1. Structure'
        BY <1>4, DestroyStructure
    <2>2. /\ dying[p] \in Tables /\ DetachFrom(p, dying[p], 0) /\ puts[p] = <<>>
          /\ UNCHANGED <<allocated, ref_count, fresh>>
        BY <1>4 DEF files_destroy, Structure, Shape, CallInv
    <2> QED
        BY <2>1, <2>2, DetachExact
<1>5. ASSUME NEW p \in Procs, Exec(p) PROVE Structure' /\ Exact'
    <2>1. Structure'
        BY <1>5, ExecStructure
    <2>2. /\ filesp[p] \in Tables /\ DetachFrom(p, filesp[p], FirstClosed) /\ puts[p] = <<>>
          /\ UNCHANGED <<allocated, ref_count, fresh>>
        BY <1>5, InUse DEF Exec, Ready, Structure
    <2> QED
        BY <2>1, <2>2, DetachExact
<1>6. ASSUME NEW p \in Procs, Exit(p) PROVE Structure' /\ Exact'
    <2>1. Structure'
        BY <1>6, ExitStructure
    <2>2. UNCHANGED <<fd_array, allocated, ref_count, descriptor_count, puts, fresh>>
        BY <1>6 DEF Exit, descs
    <2> QED
        BY <2>1, <2>2, SameCounts, ExactKeep
<1>7. ASSUME NEW p \in Procs, NEW fds \in Seq(Fds), Distinct(fds), OpenReserve(p, fds)
      PROVE  Structure' /\ Exact'
    BY <1>7, OpenReserveStructure, OpenReserveExact
<1>8. ASSUME NEW p \in Procs, NEW fd \in Fds, OpenReserve(p, <<fd>>) PROVE Structure' /\ Exact'
    <2>1. <<fd>> \in Seq(Fds) /\ Distinct(<<fd>>)
        BY DEF Distinct
    <2> QED
        BY <1>7, <1>8, <2>1
<1>9. ASSUME NEW p \in Procs, NEW fd \in Fds, NEW e \in Fds, fd < e, OpenReserve(p, <<fd, e>>)
      PROVE  Structure' /\ Exact'
    <2>1. fd # e
        BY <1>9, FileTableAssumption DEF Fds
    <2>2. <<fd, e>> \in Seq(Fds) /\ Distinct(<<fd, e>>)
        BY <2>1 DEF Distinct
    <2> QED
        BY <1>7, <1>9, <2>2
<1>10. ASSUME NEW p \in Procs, NEW fd \in Fds, Acquire(p, fd) PROVE Structure' /\ Exact'
    BY <1>10, AcquireStructure, AcquireExact
<1>11. ASSUME NEW p \in Procs, NEW fd \in Fds, Close(p, fd) PROVE Structure' /\ Exact'
    BY <1>11, CloseStructure, CloseExact
<1>12. ASSUME NEW p \in Procs, NEW fd \in Fds, NEW to \in Fds, Dup(p, fd, to)
       PROVE  Structure' /\ Exact'
    BY <1>12, DupStructure, DupExact
<1>13. ASSUME NEW p \in Procs, NEW d \in Descs, OpenCreate(p, d) PROVE Structure' /\ Exact'
    BY <1>13, OpenCreateStructure, OpenCreateExact DEF Exact
<1>14. ASSUME NEW p \in Procs, NEW c \in Procs, ForkShare(p, c) PROVE Structure' /\ Exact'
    <2>1. Structure'
        BY <1>14, ForkShareStructure
    <2>2. UNCHANGED <<fd_array, allocated, ref_count, descriptor_count, puts, fresh>>
        BY <1>14 DEF ForkShare, descs
    <2> QED
        BY <2>1, <2>2, SameCounts, ExactKeep
<1>15. ASSUME NEW p \in Procs, NEW c \in Procs, NEW t \in Tables, ForkCopy(p, c, t)
       PROVE  Structure' /\ Exact'
    BY <1>15, ForkCopyStructure, ForkCopyExact
<1>16. CASE UNCHANGED vars
    <2>1. UNCHANGED <<fd_array, files_count, filesp, allocated, ref_count, descriptor_count,
                      reserved, fresh, puts, dying>>
        BY <1>16 DEF vars, descs
    <2>2. Shape' /\ CallInv'
        BY <2>1 DEF Structure, Shape, CallInv
    <2>3. SlotInv' /\ TableInv'
        BY <2>1, SlotKeep, TableKeep DEF Structure
    <2>4. Structure'
        BY <2>2, <2>3 DEF Structure
    <2> QED
        BY <2>1, <2>4, SameCounts, ExactKeep
<1>17. CASE Next
    BY <1>17, <1>1, <1>2, <1>3, <1>4, <1>5, <1>6, <1>8, <1>9, <1>10, <1>11, <1>12, <1>13, <1>14, <1>15
       DEF Next, Finish
<1> QED
    BY <1>16, <1>17

(* Every state of every behaviour satisfies the invariant.                 *)
LEMMA FileInvariant == Spec => [](Structure /\ Exact)
    BY FileInit, FileStep, PTL DEF Spec
-----------------------------------------------------------------------------
(* The tables, the counters and the calls in progress are well typed, for  *)
(* any number of processes, tables and slots: no counter goes below zero,  *)
(* and files_count never exceeds the number of processes.                  *)
THEOREM FilesTyped == Spec => []TypeOK
<1>1. Structure /\ Exact => TypeOK
    <2> SUFFICES ASSUME Structure, Exact PROVE TypeOK
        OBVIOUS
    <2>1. ASSUME NEW t \in Tables PROVE files_count[t] \in 0 .. Cardinality(Procs)
        <3>1. Sharers(t) \in SUBSET Procs
            BY DEF Sharers
        <3>2. Cardinality(Sharers(t)) <= Cardinality(Procs) /\ Cardinality(Procs) \in Nat
            BY <3>1, FileTableAssumption, FS_Subset, FS_CardinalityType
        <3>3. files_count[t] = Cardinality(Sharers(t)) /\ files_count[t] \in Nat
            BY DEF Structure, TableInv, Shape
        <3> QED
            BY <3>2, <3>3
    <2> QED
        BY <2>1 DEF Structure, Shape, Exact, Counters, TypeOK
<1> QED
    BY <1>1, FileInvariant, PTL

(* ref_count is exactly the descriptors, the operations in flight and the  *)
(* opens in progress that name a description, and descriptor_count the     *)
(* descriptors, through every interleaving of open, dup, close, fork, exec *)
(* and exit: a description is freed with its last reference, never before. *)
THEOREM CountsAreExact == Spec => []RefCountExact
<1>1. Structure /\ Exact => RefCountExact
    BY DEF Exact
<1> QED
    BY <1>1, FileInvariant, PTL

(* An FD_INIT slot belongs to exactly one open in progress, whoever works  *)
(* on the shared table meanwhile: the assertions of fd_array_install,      *)
(* fd_array_cancel and files_destroy hold.                                 *)
THEOREM ReservationsAreOwned == Spec => []ReservedSlotsOwned
<1>1. Structure /\ Exact => ReservedSlotsOwned
    <2> SUFFICES ASSUME Structure, NEW t \in Tables, NEW fd \in Fds
                 PROVE  /\ fd_array[t][fd] = "INIT" <=> Owners(t, fd) # {}
                        /\ Cardinality(Owners(t, fd)) <= 1
        BY DEF ReservedSlotsOwned
    <2>1. \A p \in Procs : p \in Owners(t, fd) <=> Reserves(p, t, fd)
        BY LenProperties DEF Owners, Reserves, Range, Structure, Shape
    <2>2. Owners(t, fd) \in SUBSET Procs
        BY DEF Owners
    <2>3. fd_array[t][fd] = "INIT" <=> Owners(t, fd) # {}
        BY <2>1, <2>2 DEF Structure, SlotInv
    <2>4. \A p, q \in Owners(t, fd) : p = q
        BY <2>1, <2>2 DEF Structure, SlotInv
    <2>5. IsFiniteSet(Owners(t, fd))
        BY <2>2, FileTableAssumption, FS_Subset
    <2> QED
        BY <2>3, <2>4, <2>5, AtMostOne
<1> QED
    BY <1>1, FileInvariant, PTL

-----------------------------------------------------------------------------
(* Sfs: the references to inodes, and those that are to be reclaimed.      *)
One(b) == IF b THEN 1 ELSE 0

(* The references of a process, and those there are to an inode.           *)
Slot(s, j) ==
    IF j <= 3 THEN (IF j <= Len(s.hold) THEN s.hold[j] ELSE 0)
    ELSE IF j <= 6 THEN (IF j - 3 <= Len(s.drop) THEN s.drop[j - 3] ELSE 0)
    ELSE s.open
RefsIn(f, i) == {x \in Procs \X (1 .. 7) : Slot(f[x[1]], x[2]) = i}
Refs(i) == RefsIn(pr, i)

Ats == {"idle", "walk", "load", "call", "target", "change", "stuck"}
Under == {"target", "change"}
ProcType ==
    [at : Ats, call : [op : Ops \cup {"none"}, path : Seq(AllNames), to : Seq(AllNames)],
     second : BOOLEAN, rest : Seq(AllNames), hold : Seq(Inos), ino : Inos \cup {0},
     drop : Seq(Inos), claim : Inos \cup {0}, open : Inos \cup {0}]
NodeType ==
    [type : {"free", "file", "dir"}, cached : BOOLEAN, ref : Int, token : 0 .. TOKENS,
     links : Nat, disk : Nat, dirty : BOOLEAN, lost : Nat]
PrTyped == pr \in [Procs -> ProcType]
NdTyped == nd \in [Inos -> NodeType]
RestTyped ==
    /\ scene \in Scenes /\ ent \in [Inos -> [AllNames -> Inos \cup {0}]]
    /\ mutex \in Procs \cup {None} /\ fs \in Procs \cup {None} /\ faults \in 0 .. FAULTS

(* What a call has in hand at each step.                                   *)
PathsOK(c) ==
    /\ c.op \in Ops
    /\ c.op # "open" => c.path # <<>>
    /\ c.op \notin {"open", "link"} => Last(c.path) \in FileNames
    /\ c.op \in {"link", "rename"} => c.to # <<>>
    /\ c.op = "rename" => Last(c.to) \in FileNames
HoldOK(s) ==
    /\ Len(s.drop) <= 3
    /\ s.at = "idle" => s.hold = <<>>
    /\ s.at \notin {"idle", "stuck"} =>
          Len(s.hold) = (IF s.second THEN 2 ELSE 1) + (IF s.at = "change" THEN 1 ELSE 0)
    /\ s.at = "stuck" => Len(s.hold) \in 1 .. 3
    /\ s.ino # 0 <=> s.at \in {"load", "target"}
ProcOK(s) ==
    /\ HoldOK(s)
    /\ s.at \in {"walk", "load"} => s.rest # <<>>
    /\ s.at # "idle" => PathsOK(s.call)
    /\ s.at = "idle" => ~s.second
    /\ s.second => s.call.op \in {"link", "rename"}
    /\ s.at # "idle" /\ s.call.op \in Creators \cup {"open", "make"} => s.open = 0
    /\ s.at \in Under => /\ s.call.op \in Removers \cup {"rename"}
                         /\ s.call.op = "rename" => s.second
ProcInv == \A p \in Procs : ProcOK(pr[p])
SfsShape == PrTyped /\ NdTyped /\ RestTyped /\ ProcInv

(* ref_count and reclaim_count.                                            *)
RefInv == \A i \in Inos : nd[i].ref = Cardinality(Refs(i)) + One(i = ROOT)
TokenOK(i) ==
    IF nd[i].cached THEN nd[i].token >= Cardinality(Claims(i)) + One(nd[i].ref > 0)
    ELSE nd[i].ref = 0 /\ Claims(i) = {}
TokenInv == \A i \in Inos : TokenOK(i)
FreeInv == \A i \in Inos : nd[i].type = "free" => ~nd[i].cached
SfsCounted == RefInv /\ TokenInv /\ FreeInv

(* What mutex_sem keeps for a call that removes or moves a name.           *)
Aim(s) == IF s.at = "target" THEN s.ino ELSE s.hold[Len(s.hold)]
MutexOK(p, s) ==
    s.at \in Under =>
        /\ mutex = p
        /\ ent[s.hold[1]][Last(s.call.path)] = Aim(s)
        /\ IsDir(s.hold[1]) /\ (s.second => IsDir(s.hold[2]))
MutexInv == \A p \in Procs : MutexOK(p, pr[p])

TypeOf == [i \in Inos |-> nd[i].type]
NamesInv == NamesOK(ent, TypeOf)
SavedInv == \A i \in Inos : nd[i].cached /\ ~nd[i].dirty => nd[i].disk = nd[i].links
LoopInv == faults = 0 => \A S \in SUBSET (Inos \ {ROOT}) : S # {} => \E x \in S : ent[x][".."] \notin S
NameSpace == NamesInv /\ SavedInv /\ LinksExact /\ LoopInv

-----------------------------------------------------------------------------
(* Sequences of at most three references.                                  *)
Three(q, i) ==
    One(Len(q) >= 1 /\ q[1] = i) + One(Len(q) >= 2 /\ q[2] = i) + One(Len(q) >= 3 /\ q[3] = i)
Count(s, i) == Three(s.hold, i) + Three(s.drop, i) + One(s.open = i)

(* Numbers up to two or three, listed.                                     *)
LEMMA Small ==
    /\ \A n \in Nat : n <= 2 => n \in {0, 1, 2}
    /\ \A n \in Nat : n <= 3 => n \in {0, 1, 2, 3}
    /\ \A n \in Nat \ {0} : n <= 3 => n \in 1 .. 3 /\ n \in {1, 2, 3} /\ 1 \in 1 .. n
    /\ \A n \in 1 .. 3 : n \in {1, 2, 3}
OBVIOUS

(* No reference in an empty sequence.                                      *)
LEMMA ThreeNone == \A i : Three(<<>>, i) = 0
BY DEF Three, One

(* The references in a sequence of one.                                    *)
LEMMA ThreeOne == \A a, i : Three(<<a>>, i) = One(a = i)
BY DEF Three, One

(* The references in a sequence of two.                                    *)
LEMMA ThreeTwo == \A a, b, i : Three(<<a, b>>, i) = One(a = i) + One(b = i)
BY DEF Three, One

(* The references in a sequence of three.                                  *)
LEMMA ThreeAll == \A a, b, c, i : Three(<<a, b, c>>, i) = One(a = i) + One(b = i) + One(c = i)
BY DEF Three, One

(* A count of references is a natural number.                              *)
LEMMA ThreeNat ==
    ASSUME NEW q, NEW i
    PROVE  Three(q, i) \in Nat
BY DEF Three, One

(* Appending an inode adds one reference to it.                            *)
LEMMA ThreeAppend ==
    ASSUME NEW q \in Seq(Inos), Len(q) <= 2, NEW x \in Inos, NEW i
    PROVE  /\ Three(Append(q, x), i) = Three(q, i) + One(x = i)
           /\ Append(q, x) \in Seq(Inos) /\ Len(Append(q, x)) = Len(q) + 1
<1>1. Len(q) \in Nat
    BY LenProperties
<1>2. Append(q, x) \in Seq(Inos) /\ Len(Append(q, x)) = Len(q) + 1
    BY AppendProperties
<1>3. \A k \in 1 .. Len(q) + 1 : Append(q, x)[k] = IF k <= Len(q) THEN q[k] ELSE x
    BY AppendProperties, <1>1
<1>4. CASE Len(q) = 0
    BY <1>2, <1>3, <1>4 DEF Three, One
<1>5. CASE Len(q) = 1
    BY <1>2, <1>3, <1>5 DEF Three, One
<1>6. CASE Len(q) = 2
    BY <1>2, <1>3, <1>6 DEF Three, One
<1>7. Len(q) \in {0, 1, 2}
    BY <1>1, Small, Zenon
<1>8. Three(Append(q, x), i) = Three(q, i) + One(x = i)
    BY <1>4, <1>5, <1>6, <1>7
<1> QED
    BY <1>2, <1>8

(* Taking the head off a sequence takes one reference to it away.          *)
LEMMA ThreeTail ==
    ASSUME NEW q \in Seq(Inos), q # <<>>, Len(q) <= 3, NEW i
    PROVE  /\ Three(Tail(q), i) = Three(q, i) - One(Head(q) = i)
           /\ Tail(q) \in Seq(Inos) /\ Len(Tail(q)) = Len(q) - 1 /\ Head(q) \in Inos
           /\ Head(q) = q[1] /\ Len(q) \in 1 .. 3
<1>1. Len(q) \in 1 .. 3 /\ Len(q) \in {1, 2, 3} /\ Head(q) = q[1] /\ q[1] \in Inos
    <2>1. Len(q) \in Nat \ {0}
        BY EmptySeq
    <2>2. Len(q) \in 1 .. 3 /\ Len(q) \in {1, 2, 3} /\ 1 \in 1 .. Len(q)
        BY <2>1, Small, Zenon
    <2>3. q[1] \in Inos
        BY <2>2, ElementOfSeq
    <2>4. Head(q) = q[1]
        OBVIOUS
    <2> QED
        BY <2>2, <2>3, <2>4
<1> DEFINE r == Tail(q)
<1>2. r \in Seq(Inos) /\ Len(r) = Len(q) - 1 /\ \A k \in 1 .. Len(r) : r[k] = q[k + 1]
    BY HeadTailProperties
<1> HIDE DEF r
<1>4. Three(r, i) = Three(q, i) - One(q[1] = i)
    <2>1. CASE Len(q) = 1
        <3>1. Len(r) = 0
            BY <1>2, <2>1
        <3> QED
            BY <2>1, <3>1 DEF Three, One
    <2>2. CASE Len(q) = 2
        <3>1. Len(r) = 1
            BY <1>2, <2>2
        <3>2. r[1] = q[2]
            BY <1>2, <3>1
        <3> QED
            BY <2>2, <3>1, <3>2 DEF Three, One
    <2>3. CASE Len(q) = 3
        <3>1. Len(r) = 2
            BY <1>2, <2>3
        <3>2. r[1] = q[2] /\ r[2] = q[3]
            BY <1>2, <3>1
        <3> QED
            BY <2>3, <3>1, <3>2 DEF Three, One
    <2> QED
        BY <1>1, <2>1, <2>2, <2>3, Zenon
<1>5. Three(r, i) = Three(q, i) - One(Head(q) = i)
    BY <1>1, <1>4
<1> QED
    BY <1>1, <1>2, <1>5 DEF r

(* The order of a sequence does not matter to its count.                   *)
LEMMA ThreeReverse ==
    ASSUME NEW q \in Seq(Inos), Len(q) <= 3, NEW i
    PROVE  /\ Three(Reverse(q), i) = Three(q, i)
           /\ Reverse(q) \in Seq(Inos) /\ Len(Reverse(q)) = Len(q)
<1>1. Len(q) \in 0 .. 3 /\ q \in [1 .. Len(q) -> Inos]
    <2>1. Len(q) \in Nat /\ q \in [1 .. Len(q) -> Inos]
        BY LenProperties
    <2> QED
        BY <2>1
<1>2. Reverse(q) = [k \in 1 .. Len(q) |-> q[(Len(q) - k) + 1]]
    BY DEF Reverse
<1>3. Reverse(q) \in [1 .. Len(q) -> Inos]
    BY <1>1, <1>2
<1>4. Reverse(q) \in Seq(Inos) /\ Len(Reverse(q)) = Len(q)
    BY <1>1, <1>3, IsASeq, LenProperties
<1>5. CASE Len(q) = 0
    BY <1>4, <1>5 DEF Three, One
<1>6. CASE Len(q) = 1
    BY <1>2, <1>4, <1>6 DEF Three, One
<1>7. CASE Len(q) = 2
    BY <1>2, <1>4, <1>7 DEF Three, One
<1>8. CASE Len(q) = 3
    BY <1>2, <1>4, <1>8 DEF Three, One
<1> QED
    BY <1>1, <1>4, <1>5, <1>6, <1>7, <1>8

(* The length and the elements of the front of a sequence.                 *)
LEMMA FrontProps ==
    ASSUME NEW S, NEW q \in Seq(S), q # <<>>
    PROVE  /\ Front(q) \in Seq(S) /\ Len(Front(q)) = Len(q) - 1 /\ Last(q) \in S
           /\ \A k \in 1 .. Len(q) - 1 : Front(q)[k] = q[k]
           /\ Len(q) \in Nat \ {0} /\ Last(q) = q[Len(q)]
<1>1. Len(q) \in Nat /\ Len(q) >= 1
    BY LenProperties, EmptySeq
<1>2. Last(q) = q[Len(q)] /\ q[Len(q)] \in S
    BY <1>1, ElementOfSeq DEF Last
<1>3. Front(q) = SubSeq(q, 1, Len(q) - 1)
    BY DEF Front
<1>4. /\ SubSeq(q, 1, Len(q) - 1) \in Seq(S) /\ Len(SubSeq(q, 1, Len(q) - 1)) = Len(q) - 1
      /\ \A k \in 1 .. Len(q) - 1 : SubSeq(q, 1, Len(q) - 1)[k] = q[k]
    <2>1. \A k \in 1 .. Len(q) - 1 : q[k] \in S
        BY <1>1, ElementOfSeq
    <2>2. 1 \in Int /\ Len(q) - 1 \in Int
        BY <1>1
    <2> DEFINE m == Len(q) - 1
    <2> HIDE DEF m
    <2>3. /\ SubSeq(q, 1, m) \in Seq(S) /\ Len(SubSeq(q, 1, m)) = IF 1 <= m THEN m - 1 + 1 ELSE 0
          /\ \A k \in 1 .. m - 1 + 1 : SubSeq(q, 1, m)[k] = q[1 + k - 1]
        BY <2>1, <2>2, SubSeqProperties DEF m
    <2>4. m \in Nat
        BY <1>1 DEF m
    <2>5. Len(SubSeq(q, 1, m)) = m /\ \A k \in 1 .. m : SubSeq(q, 1, m)[k] = q[k]
        BY <2>3, <2>4
    <2> QED
        BY <2>3, <2>5 DEF m
<1> QED
    BY <1>1, <1>2, <1>3, <1>4

(* A step of the walk.                                                     *)
LEMMA ThreeReplace ==
    ASSUME NEW q \in Seq(Inos), Len(q) \in 1 .. 3, NEW x \in Inos, NEW i
    PROVE  /\ Three(Append(Front(q), x), i) = Three(q, i) - One(Last(q) = i) + One(x = i)
           /\ Append(Front(q), x) \in Seq(Inos) /\ Len(Append(Front(q), x)) = Len(q)
<1>1. q # <<>>
    BY EmptySeq, SMTT(60)
<1>2. /\ Front(q) \in Seq(Inos) /\ Len(Front(q)) = Len(q) - 1 /\ Last(q) = q[Len(q)]
      /\ \A k \in 1 .. Len(q) - 1 : Front(q)[k] = q[k]
    BY <1>1, FrontProps
<1>3. /\ Three(Append(Front(q), x), i) = Three(Front(q), i) + One(x = i)
      /\ Append(Front(q), x) \in Seq(Inos) /\ Len(Append(Front(q), x)) = Len(q)
    BY <1>2, ThreeAppend
<1>4. Three(Front(q), i) = Three(q, i) - One(Last(q) = i)
    <2>1. CASE Len(q) = 1
        BY <1>2, <2>1 DEF Three, One
    <2>2. CASE Len(q) = 2
        BY <1>2, <2>2 DEF Three, One
    <2>3. CASE Len(q) = 3
        BY <1>2, <2>3 DEF Three, One
    <2> QED
        BY <2>1, <2>2, <2>3
<1> QED
    BY <1>3, <1>4

-----------------------------------------------------------------------------
(* ref_count: a step of one process changes the references by its own.     *)
SlotsOf(p) == {<<p, j>> : j \in 1 .. 7}

(* There are finitely many references to an inode.                         *)
LEMMA RefsFinite ==
    /\ IsFiniteSet(Procs \X (1 .. 7))
    /\ \A f, i : IsFiniteSet(RefsIn(f, i)) /\ Cardinality(RefsIn(f, i)) \in Nat
<1>1. IsFiniteSet(1 .. 7)
    <2>1. 1 \in Int /\ 7 \in Int
        OBVIOUS
    <2> QED
        BY <2>1, FS_Interval, Zenon
<1>2. IsFiniteSet(Procs \X (1 .. 7))
    BY <1>1, FS_Product, SfsAssumption
<1>3. ASSUME NEW f, NEW i PROVE IsFiniteSet(RefsIn(f, i)) /\ Cardinality(RefsIn(f, i)) \in Nat
    <2>1. RefsIn(f, i) \in SUBSET (Procs \X (1 .. 7))
        BY DEF RefsIn
    <2> QED
        BY <1>2, <2>1, FS_Subset, FS_CardinalityType
<1> QED
    BY <1>2, <1>3

(* Taking one element out of a finite set.                                 *)
LEMMA Without ==
    ASSUME NEW A, IsFiniteSet(A), NEW x
    PROVE  IsFiniteSet(A \ {x}) /\ Cardinality(A) = Cardinality(A \ {x}) + One(x \in A)
           /\ Cardinality(A \ {x}) \in Nat
<1>1. Cardinality(A) \in Nat /\ IsFiniteSet(A \ {x})
    BY FS_RemoveElement, FS_CardinalityType
<1>2. Cardinality(A \ {x}) \in Nat
    BY <1>1, FS_CardinalityType
<1>3. CASE x \in A
    <2>1. Cardinality(A \ {x}) = Cardinality(A) - 1
        BY <1>3, FS_RemoveElement
    <2> QED
        BY <1>1, <1>2, <1>3, <2>1 DEF One
<1>4. CASE x \notin A
    <2>1. A \ {x} = A
        BY <1>4
    <2> QED
        BY <1>1, <1>4, <2>1 DEF One
<1> QED
    BY <1>3, <1>4

(* A set of slots is counted by taking out the seven slots of one process. *)
LEMMA SevenCount ==
    ASSUME NEW A, IsFiniteSet(A), NEW p
    PROVE  LET has(j) == One(<<p, j>> \in A)
           IN  /\ Cardinality(A) = Cardinality(A \ SlotsOf(p)) + has(1) + has(2) + has(3) + has(4)
                                    + has(5) + has(6) + has(7)
               /\ Cardinality(A \ SlotsOf(p)) \in Nat
<1> DEFINE x(j) == <<p, j>>
           A1 == A \ {x(1)}
           A2 == A1 \ {x(2)}
           A3 == A2 \ {x(3)}
           A4 == A3 \ {x(4)}
           A5 == A4 \ {x(5)}
           A6 == A5 \ {x(6)}
           A7 == A6 \ {x(7)}
<1>1. IsFiniteSet(A1) /\ Cardinality(A) = Cardinality(A1) + One(x(1) \in A)
    BY Without
<1>2. IsFiniteSet(A2) /\ Cardinality(A1) = Cardinality(A2) + One(x(2) \in A1)
    BY <1>1, Without
<1>3. IsFiniteSet(A3) /\ Cardinality(A2) = Cardinality(A3) + One(x(3) \in A2)
    BY <1>2, Without
<1>4. IsFiniteSet(A4) /\ Cardinality(A3) = Cardinality(A4) + One(x(4) \in A3)
    BY <1>3, Without
<1>5. IsFiniteSet(A5) /\ Cardinality(A4) = Cardinality(A5) + One(x(5) \in A4)
    BY <1>4, Without
<1>6. IsFiniteSet(A6) /\ Cardinality(A5) = Cardinality(A6) + One(x(6) \in A5)
    BY <1>5, Without
<1>7. IsFiniteSet(A7) /\ Cardinality(A6) = Cardinality(A7) + One(x(7) \in A6)
    BY <1>6, Without
<1>8. A7 = A \ SlotsOf(p)
    BY DEF SlotsOf
<1>9. /\ (x(2) \in A1) = (x(2) \in A) /\ (x(3) \in A2) = (x(3) \in A)
      /\ (x(4) \in A3) = (x(4) \in A) /\ (x(5) \in A4) = (x(5) \in A)
      /\ (x(6) \in A5) = (x(6) \in A) /\ (x(7) \in A6) = (x(7) \in A)
    <2>1. \A j, k \in 1 .. 7 : j # k => x(j) # x(k)
        OBVIOUS
    <2> HIDE DEF x
    <2> QED
        BY <2>1
<1>10. /\ Cardinality(A) \in Nat /\ Cardinality(A1) \in Nat /\ Cardinality(A2) \in Nat
       /\ Cardinality(A3) \in Nat /\ Cardinality(A4) \in Nat /\ Cardinality(A5) \in Nat
       /\ Cardinality(A6) \in Nat /\ Cardinality(A7) \in Nat
    BY <1>1, <1>2, <1>3, <1>4, <1>5, <1>6, <1>7, FS_CardinalityType
<1> HIDE DEF A1, A2, A3, A4, A5, A6, A7, x
<1>11. /\ One(x(2) \in A1) = One(x(2) \in A) /\ One(x(3) \in A2) = One(x(3) \in A)
       /\ One(x(4) \in A3) = One(x(4) \in A) /\ One(x(5) \in A4) = One(x(5) \in A)
       /\ One(x(6) \in A5) = One(x(6) \in A) /\ One(x(7) \in A6) = One(x(7) \in A)
    BY <1>9
<1>12. /\ One(x(1) \in A) \in Int /\ One(x(2) \in A) \in Int /\ One(x(3) \in A) \in Int
       /\ One(x(4) \in A) \in Int /\ One(x(5) \in A) \in Int /\ One(x(6) \in A) \in Int
       /\ One(x(7) \in A) \in Int
    BY DEF One
<1>13. Cardinality(A) = Cardinality(A7) + One(x(1) \in A) + One(x(2) \in A) + One(x(3) \in A)
                         + One(x(4) \in A) + One(x(5) \in A) + One(x(6) \in A) + One(x(7) \in A)
    BY <1>1, <1>2, <1>3, <1>4, <1>5, <1>6, <1>7, <1>10, <1>11, <1>12
<1> QED
    BY <1>8, <1>10, <1>13 DEF x

(* What Count says of the slots.                                           *)
LEMMA SlotsCount ==
    ASSUME NEW s \in ProcType, Len(s.hold) <= 3, Len(s.drop) <= 3, NEW i \in Inos
    PROVE  Count(s, i) = One(Slot(s, 1) = i) + One(Slot(s, 2) = i) + One(Slot(s, 3) = i)
                         + One(Slot(s, 4) = i) + One(Slot(s, 5) = i) + One(Slot(s, 6) = i)
                         + One(Slot(s, 7) = i)
<1>1. i # 0
    BY SfsAssumption DEF Inos
<1> DEFINE h == Len(s.hold)
           d == Len(s.drop)
<1>2. h \in Nat /\ d \in Nat
    BY LenProperties DEF ProcType
<1>3. /\ Slot(s, 1) = (IF 1 <= h THEN s.hold[1] ELSE 0) /\ Slot(s, 2) = (IF 2 <= h THEN s.hold[2] ELSE 0)
      /\ Slot(s, 3) = (IF 3 <= h THEN s.hold[3] ELSE 0) /\ Slot(s, 4) = (IF 1 <= d THEN s.drop[1] ELSE 0)
      /\ Slot(s, 5) = (IF 2 <= d THEN s.drop[2] ELSE 0) /\ Slot(s, 6) = (IF 3 <= d THEN s.drop[3] ELSE 0)
      /\ Slot(s, 7) = s.open
    BY DEF Slot
<1> HIDE DEF h, d
<1>4. /\ One(Slot(s, 1) = i) = One(h >= 1 /\ s.hold[1] = i) /\ One(Slot(s, 2) = i) = One(h >= 2 /\ s.hold[2] = i)
      /\ One(Slot(s, 3) = i) = One(h >= 3 /\ s.hold[3] = i)
    BY <1>1, <1>2, <1>3 DEF One
<1>5. /\ One(Slot(s, 4) = i) = One(d >= 1 /\ s.drop[1] = i) /\ One(Slot(s, 5) = i) = One(d >= 2 /\ s.drop[2] = i)
      /\ One(Slot(s, 6) = i) = One(d >= 3 /\ s.drop[3] = i) /\ One(Slot(s, 7) = i) = One(s.open = i)
    BY <1>1, <1>2, <1>3 DEF One
<1>6. Count(s, i) = One(h >= 1 /\ s.hold[1] = i) + One(h >= 2 /\ s.hold[2] = i) + One(h >= 3 /\ s.hold[3] = i)
                  + (One(d >= 1 /\ s.drop[1] = i) + One(d >= 2 /\ s.drop[2] = i) + One(d >= 3 /\ s.drop[3] = i))
                  + One(s.open = i)
    BY DEF Count, Three, h, d
<1>7. /\ One(h >= 1 /\ s.hold[1] = i) \in Int /\ One(h >= 2 /\ s.hold[2] = i) \in Int
      /\ One(h >= 3 /\ s.hold[3] = i) \in Int /\ One(d >= 1 /\ s.drop[1] = i) \in Int
      /\ One(d >= 2 /\ s.drop[2] = i) \in Int /\ One(d >= 3 /\ s.drop[3] = i) \in Int
      /\ One(s.open = i) \in Int
    BY DEF One
<1>8. \A a, b, c, x, y, z, w \in Int : a + b + c + (x + y + z) + w = a + b + c + x + y + z + w
    OBVIOUS
<1>9. Count(s, i) = One(h >= 1 /\ s.hold[1] = i) + One(h >= 2 /\ s.hold[2] = i) + One(h >= 3 /\ s.hold[3] = i)
                  + One(d >= 1 /\ s.drop[1] = i) + One(d >= 2 /\ s.drop[2] = i) + One(d >= 3 /\ s.drop[3] = i)
                  + One(s.open = i)
    BY <1>6, <1>7, <1>8, SMTT(60)
<1> QED
    BY <1>4, <1>5, <1>9, ZenonT(60)

(* The sizes a call's sequence of inodes can have.                         *)
LEMMA Sizes ==
    /\ \A n \in {0, 1, 2, 3} : n <= 3
    /\ \A b, c : (IF b THEN 2 ELSE 1) + (IF c THEN 1 ELSE 0) \in {1, 2, 3}
OBVIOUS

(* A call never has more than three inodes in hand.                        *)
LEMMA HoldLen ==
    ASSUME NEW t \in ProcType, HoldOK(t)
    PROVE  /\ Len(t.hold) \in {0, 1, 2, 3} /\ Len(t.hold) <= 3 /\ Len(t.drop) <= 3
           /\ t.at \notin {"idle", "stuck"} => Len(t.hold) \in {1, 2, 3}
<1>1. t.at = "idle" => Len(t.hold) = 0
    BY EmptySeq DEF HoldOK, ProcType
<1>2. t.at = "stuck" => Len(t.hold) \in {1, 2, 3}
    BY DEF HoldOK
<1>3. t.at \notin {"idle", "stuck"} => Len(t.hold) \in {1, 2, 3}
    BY Sizes DEF HoldOK
<1>4. Len(t.hold) \in {0, 1, 2, 3} /\ Len(t.drop) <= 3
    BY <1>1, <1>2, <1>3, Zenon DEF HoldOK
<1>5. Len(t.hold) <= 3
    BY <1>4, Sizes, Zenon
<1> QED
    BY <1>3, <1>4, <1>5

(* The references to an inode are those of one process and those of the    *)
(* others.                                                                 *)
LEMMA RefsOf ==
    ASSUME NEW f \in [Procs -> ProcType], \A q \in Procs : HoldOK(f[q]), NEW p \in Procs, NEW i \in Inos
    PROVE  /\ Cardinality(RefsIn(f, i)) = Cardinality(RefsIn(f, i) \ SlotsOf(p)) + Count(f[p], i)
           /\ Cardinality(RefsIn(f, i) \ SlotsOf(p)) \in Nat /\ Count(f[p], i) \in Nat
<1> DEFINE A == RefsIn(f, i)
<1>1. IsFiniteSet(A)
    BY RefsFinite
<1>2. f[p] \in ProcType
    OBVIOUS
<1>4. \A j \in 1 .. 7 : <<p, j>> \in A <=> Slot(f[p], j) = i
    BY DEF RefsIn
<1> HIDE DEF A
<1>5. \A j \in 1 .. 7 : One(<<p, j>> \in A) = One(Slot(f[p], j) = i)
    BY <1>4 DEF One
<1>6. Len(f[p].hold) <= 3 /\ Len(f[p].drop) <= 3
    BY <1>2, HoldLen
<1> DEFINE h(j) == One(<<p, j>> \in A)
           g(j) == One(Slot(f[p], j) = i)
<1>7. /\ Cardinality(A) = Cardinality(A \ SlotsOf(p)) + h(1) + h(2) + h(3) + h(4) + h(5) + h(6) + h(7)
      /\ Cardinality(A \ SlotsOf(p)) \in Nat
    BY <1>1, SevenCount
<1>8. Count(f[p], i) = g(1) + g(2) + g(3) + g(4) + g(5) + g(6) + g(7)
    BY <1>2, <1>6, SlotsCount
<1>9. \A j \in 1 .. 7 : h(j) = g(j) /\ g(j) \in Nat
    BY <1>5 DEF One
<1> HIDE DEF h, g
<1>10. Count(f[p], i) \in Nat
    BY <1>8, <1>9
<1>11. Cardinality(A) = Cardinality(A \ SlotsOf(p)) + Count(f[p], i)
    BY <1>7, <1>8, <1>9
<1> QED
    BY <1>7, <1>10, <1>11 DEF A

(* A step of one process changes the references to an inode by what that   *)
(* process takes or gives up.                                              *)
LEMMA RefsStep ==
    ASSUME PrTyped, ProcInv, PrTyped', ProcInv', NEW p \in Procs, NEW s, Set(p, s), NEW i \in Inos
    PROVE  /\ Cardinality(Refs(i)') = Cardinality(Refs(i)) + Count(s, i) - Count(pr[p], i)
           /\ Cardinality(Refs(i)) \in Nat /\ Count(s, i) \in Nat /\ Count(pr[p], i) \in Nat
<1>1. pr' = [pr EXCEPT ![p] = s] /\ pr'[p] = s
    BY DEF Set, PrTyped
<1>2. Refs(i) \ SlotsOf(p) = Refs(i)' \ SlotsOf(p)
    <2> DEFINE A == Refs(i)
               B == Refs(i)'
    <2>1. ASSUME NEW q \in Procs, NEW j \in 1 .. 7, q # p PROVE <<q, j>> \in A <=> <<q, j>> \in B
        BY <1>1, <2>1 DEF Refs, RefsIn, PrTyped
    <2>2. ASSUME NEW y \in Procs \X (1 .. 7), y \notin SlotsOf(p) PROVE y \in A <=> y \in B
        <3>1. PICK q \in Procs, j \in 1 .. 7 : y = <<q, j>>
            OBVIOUS
        <3>2. q # p
            BY <2>2, <3>1 DEF SlotsOf
        <3> QED
            BY <2>1, <3>1, <3>2
    <2>3. A \subseteq Procs \X (1 .. 7) /\ B \subseteq Procs \X (1 .. 7)
        BY DEF Refs, RefsIn
    <2> HIDE DEF A, B
    <2>4. A \ SlotsOf(p) = B \ SlotsOf(p)
        BY <2>2, <2>3
    <2> QED
        BY <2>4 DEF A, B
<1>3. /\ Cardinality(Refs(i)) = Cardinality(Refs(i) \ SlotsOf(p)) + Count(pr[p], i)
      /\ Cardinality(Refs(i) \ SlotsOf(p)) \in Nat /\ Count(pr[p], i) \in Nat
    BY RefsOf DEF Refs, PrTyped, ProcInv, ProcOK
<1>4. /\ Cardinality(Refs(i)') = Cardinality(Refs(i)' \ SlotsOf(p)) + Count(s, i)
      /\ Count(s, i) \in Nat
    BY <1>1, RefsOf DEF Refs, PrTyped, ProcInv, ProcOK
<1> DEFINE n == Cardinality(Refs(i) \ SlotsOf(p))
<1>5. /\ Cardinality(Refs(i)) = n + Count(pr[p], i) /\ Cardinality(Refs(i)') = n + Count(s, i)
      /\ n \in Nat
    BY <1>2, <1>3, <1>4
<1> HIDE DEF n
<1>6. \A a, b, k \in Nat : k + b = (k + a) + b - a /\ k + a \in Nat
    OBVIOUS
<1> QED
    BY <1>3, <1>4, <1>5, <1>6

-----------------------------------------------------------------------------
(* What one step of a process leaves as it is.                             *)
LEMMA PrStep ==
    ASSUME PrTyped, ProcInv, NEW p \in Procs, NEW s \in ProcType, ProcOK(s), Set(p, s)
    PROVE  /\ PrTyped' /\ ProcInv' /\ pr'[p] = s
           /\ \A q \in Procs : q # p => pr'[q] = pr[q]
<1>1. pr' = [pr EXCEPT ![p] = s]
    BY DEF Set
<1>2. pr' \in [Procs -> ProcType] /\ pr'[p] = s /\ \A q \in Procs : q # p => pr'[q] = pr[q]
    BY <1>1 DEF PrTyped
<1>3. \A q \in Procs : ProcOK(pr'[q])
    BY <1>2 DEF ProcInv
<1> QED
    BY <1>2, <1>3 DEF PrTyped, ProcInv

(* A step that changes ref_count by what its process takes or gives up     *)
(* keeps it exact.                                                         *)
LEMMA RefKept ==
    ASSUME PrTyped, ProcInv, PrTyped', ProcInv', NdTyped, RefInv, NEW p \in Procs, NEW s, Set(p, s),
           \A i \in Inos : nd'[i].ref = nd[i].ref + Count(s, i) - Count(pr[p], i)
    PROVE  RefInv'
<1> SUFFICES ASSUME NEW i \in Inos PROVE nd'[i].ref = Cardinality(Refs(i)') + One(i = ROOT)
    BY DEF RefInv, ROOT
<1>1. /\ Cardinality(Refs(i)') = Cardinality(Refs(i)) + Count(s, i) - Count(pr[p], i)
      /\ Cardinality(Refs(i)) \in Nat /\ Count(s, i) \in Nat /\ Count(pr[p], i) \in Nat
    BY RefsStep
<1>2. nd[i].ref = Cardinality(Refs(i)) + One(i = ROOT) /\ One(i = ROOT) \in Int
    BY DEF RefInv, One
<1>3. \A a, b, c, d \in Int : (a + b) + c - d = (a + c - d) + b
    OBVIOUS
<1> QED
    BY <1>1, <1>2, <1>3

(* Finitely many processes are about to reclaim an inode.                  *)
LEMMA ClaimsFinite ==
    \A i : IsFiniteSet(Claims(i)) /\ Cardinality(Claims(i)) \in Nat
<1>1. \A i : Claims(i) \subseteq Procs
    BY DEF Claims
<1> QED
    BY <1>1, SfsAssumption, FS_Subset, FS_CardinalityType

(* A step of one process changes the claims on an inode by its own.        *)
LEMMA ClaimsStep ==
    ASSUME PrTyped, NEW p \in Procs, NEW s, Set(p, s), NEW i
    PROVE  Cardinality(Claims(i)') = Cardinality(Claims(i)) + One(s.claim = i) - One(pr[p].claim = i)
<1>1. pr' = [pr EXCEPT ![p] = s] /\ pr'[p] = s /\ \A q \in Procs : q # p => pr'[q] = pr[q]
    BY DEF Set, PrTyped
<1>2. IsFiniteSet(Claims(i)') /\ IsFiniteSet(Claims(i))
    BY SfsAssumption, FS_Subset DEF Claims
<1>3. Claims(i)' \ {p} = Claims(i) \ {p}
    BY <1>1 DEF Claims
<1>4. (p \in Claims(i)' <=> s.claim = i) /\ (p \in Claims(i) <=> pr[p].claim = i)
    BY <1>1 DEF Claims
<1>5. One(p \in Claims(i)') = One(s.claim = i) /\ One(p \in Claims(i)) = One(pr[p].claim = i)
    BY <1>4 DEF One
<1>6. /\ Cardinality(Claims(i)') = Cardinality(Claims(i)' \ {p}) + One(p \in Claims(i)')
      /\ Cardinality(Claims(i)) = Cardinality(Claims(i) \ {p}) + One(p \in Claims(i))
      /\ Cardinality(Claims(i) \ {p}) \in Nat
    BY <1>2, Without
<1>7. One(s.claim = i) \in Int /\ One(pr[p].claim = i) \in Int
    BY DEF One
<1> DEFINE n == Cardinality(Claims(i) \ {p})
<1>8. /\ Cardinality(Claims(i)') = n + One(s.claim = i) /\ Cardinality(Claims(i)) = n + One(pr[p].claim = i)
      /\ n \in Nat
    BY <1>3, <1>5, <1>6
<1> HIDE DEF n
<1>9. \A a, b \in Int : n + a = (n + b) + a - b
    BY <1>8
<1> QED
    BY <1>7, <1>8, <1>9

(* The claims a step leaves, and what reclaim_count must then cover.       *)
After(p, s, i) == Cardinality(Claims(i)) + One(s.claim = i) - One(pr[p].claim = i)
TokenAfter(p, s, i) ==
    IF nd'[i].cached THEN nd'[i].token >= After(p, s, i) + One(nd'[i].ref > 0)
    ELSE nd'[i].ref = 0 /\ After(p, s, i) = 0

(* A step that leaves enough tokens in reclaim_count for the claims keeps  *)
(* TokenInv.                                                               *)
LEMMA TokenKept ==
    ASSUME PrTyped, NEW p \in Procs, NEW s, Set(p, s), \A i \in Inos : TokenAfter(p, s, i)
    PROVE  TokenInv'
<1> SUFFICES ASSUME NEW i \in Inos PROVE TokenOK(i)'
    BY DEF TokenInv
<1>1. After(p, s, i) = Cardinality(Claims(i)')
    BY ClaimsStep DEF After
<1>2. Cardinality(Claims(i)') = 0 => Claims(i)' = {}
    BY FS_EmptySet, SfsAssumption, FS_Subset DEF Claims
<1>3. TokenAfter(p, s, i)
    OBVIOUS
<1> QED
    BY <1>1, <1>2, <1>3 DEF TokenAfter, TokenOK

(* An inode whose tokens a step leaves alone, and whose claims it does not *)
(* change, keeps enough of them.                                           *)
LEMMA TokenSame ==
    ASSUME NdTyped, NdTyped', NEW p \in Procs, NEW s, s.claim = pr[p].claim, NEW i \in Inos, TokenInv,
           nd'[i].cached = nd[i].cached, nd'[i].token = nd[i].token,
           nd'[i].ref = nd[i].ref \/ (nd[i].cached /\ nd[i].ref > 0)
    PROVE  TokenAfter(p, s, i)
<1>1. After(p, s, i) = Cardinality(Claims(i))
    <2>1. One(pr[p].claim = i) \in Int /\ Cardinality(Claims(i)) \in Nat
        BY ClaimsFinite DEF One
    <2>2. \A a, b \in Int : a + b - b = a
        OBVIOUS
    <2> QED
        BY <2>1, <2>2 DEF After
<1>2. TokenOK(i) /\ nd[i] \in NodeType /\ nd'[i] \in NodeType
    BY DEF TokenInv, NdTyped
<1>3. Claims(i) = {} => Cardinality(Claims(i)) = 0
    BY FS_EmptySet
<1>4. Cardinality(Claims(i)) \in Nat
    BY ClaimsFinite
<1>5. CASE nd[i].cached
    <2>1. nd[i].token >= Cardinality(Claims(i)) + One(nd[i].ref > 0)
        BY <1>2, <1>5 DEF TokenOK
    <2>2. One(nd'[i].ref > 0) <= One(nd[i].ref > 0) /\ One(nd'[i].ref > 0) \in Int /\ One(nd[i].ref > 0) \in Int
        BY DEF One
    <2>3. nd[i].token \in Int
        BY <1>2 DEF NodeType
    <2>4. \A a, b, c, d \in Int : a >= b + c /\ d <= c => a >= b + d
        OBVIOUS
    <2>5. nd[i].token >= Cardinality(Claims(i)) + One(nd'[i].ref > 0)
        BY <1>4, <2>1, <2>2, <2>3, <2>4
    <2> QED
        BY <1>1, <1>5, <2>5 DEF TokenAfter
<1>6. CASE ~nd[i].cached
    BY <1>1, <1>2, <1>3, <1>6 DEF TokenAfter, TokenOK
<1> QED
    BY <1>5, <1>6

(* An inode somebody refers to is in memory.                               *)
LEMMA HeldLive ==
    ASSUME SfsShape, SfsCounted, NEW p \in Procs, NEW i \in Inos, Count(pr[p], i) # 0
    PROVE  nd[i].ref >= 1 /\ nd[i].cached /\ nd[i].type # "free" /\ nd[i] \in NodeType
<1>1. /\ Cardinality(Refs(i)) = Cardinality(Refs(i) \ SlotsOf(p)) + Count(pr[p], i)
      /\ Cardinality(Refs(i) \ SlotsOf(p)) \in Nat /\ Count(pr[p], i) \in Nat
    BY RefsOf DEF Refs, SfsShape, PrTyped, ProcInv, ProcOK
<1>2. nd[i].ref = Cardinality(Refs(i)) + One(i = ROOT) /\ One(i = ROOT) \in Nat
    BY DEF SfsCounted, RefInv, One
<1>3. \A a, b, c \in Nat : b # 0 => (a + b) + c >= 1
    OBVIOUS
<1>4. nd[i].ref >= 1
    BY <1>1, <1>2, <1>3
<1>5. nd[i].cached
    BY <1>4 DEF SfsCounted, TokenInv, TokenOK
<1> QED
    BY <1>4, <1>5 DEF SfsCounted, FreeInv, SfsShape, NdTyped

(* The root is mounted.                                                    *)
LEMMA RootLive ==
    ASSUME SfsShape, SfsCounted
    PROVE  ROOT \in Inos /\ nd[ROOT].ref >= 1 /\ nd[ROOT].cached /\ nd[ROOT].type # "free"
<1>1. ROOT \in Inos
    BY SfsAssumption DEF ROOT, Inos
<1>2. nd[ROOT].ref = Cardinality(Refs(ROOT)) + 1 /\ Cardinality(Refs(ROOT)) \in Nat
    BY <1>1, RefsFinite DEF SfsCounted, RefInv, One, Refs
<1>3. nd[ROOT].ref >= 1
    BY <1>2
<1>4. nd[ROOT].cached
    BY <1>1, <1>3 DEF SfsCounted, TokenInv, TokenOK
<1> QED
    BY <1>1, <1>3, <1>4 DEF SfsCounted, FreeInv

(* An inode that a call has in hand, is to drop or has open counts as a    *)
(* reference.                                                              *)
LEMMA HeldCount ==
    ASSUME NEW s \in ProcType, HoldOK(s)
    PROVE  /\ \A k \in 1 .. 3 : k <= Len(s.hold) => s.hold[k] \in Inos /\ Count(s, s.hold[k]) # 0
           /\ s.hold # <<>> => Last(s.hold) \in Inos /\ Count(s, Last(s.hold)) # 0
           /\ \A k \in 1 .. 3 : k <= Len(s.drop) => s.drop[k] \in Inos /\ Count(s, s.drop[k]) # 0
           /\ s.open # 0 => s.open \in Inos /\ Count(s, s.open) # 0
<1>1. Len(s.hold) \in {0, 1, 2, 3} /\ Len(s.drop) <= 3 /\ s.hold \in Seq(Inos) /\ s.drop \in Seq(Inos)
    BY HoldLen DEF ProcType
<1>2. \A i : Three(s.hold, i) \in Nat /\ Three(s.drop, i) \in Nat /\ One(s.open = i) \in Nat
    BY ThreeNat DEF One
<1>3. \A a, b, c \in Nat : (a # 0 \/ b # 0 \/ c # 0) => a + b + c # 0
    OBVIOUS
<1>4. \A i : (Three(s.hold, i) # 0 \/ Three(s.drop, i) # 0 \/ One(s.open = i) # 0) => Count(s, i) # 0
    <2> SUFFICES ASSUME NEW i, Three(s.hold, i) # 0 \/ Three(s.drop, i) # 0 \/ One(s.open = i) # 0
                 PROVE  Three(s.hold, i) + Three(s.drop, i) + One(s.open = i) # 0
        BY DEF Count
    <2> QED
        BY <1>2, <1>3
<1>5. ASSUME NEW q \in Seq(Inos), NEW k \in 1 .. 3, k <= Len(q)
      PROVE  q[k] \in Inos /\ Three(q, q[k]) # 0
    <2>1. Len(q) \in Nat /\ k \in 1 .. Len(q)
        BY <1>5, LenProperties
    <2>2. q[k] \in Inos
        BY <2>1, ElementOfSeq
    <2> DEFINE x == q[k]
    <2>3. \A a, b, c \in BOOLEAN : (a \/ b \/ c) => One(a) + One(b) + One(c) # 0
        BY DEF One
    <2>4. k \in {1, 2, 3}
        OBVIOUS
    <2>5. (Len(q) >= 1 /\ q[1] = x) \/ (Len(q) >= 2 /\ q[2] = x) \/ (Len(q) >= 3 /\ q[3] = x)
        BY <1>5, <2>1, <2>4
    <2> HIDE DEF x
    <2>6. Three(q, x) # 0
        BY <2>3, <2>5, Zenon DEF Three
    <2> QED
        BY <2>2, <2>6 DEF x
<1>6. \A k \in 1 .. 3 : k <= Len(s.hold) => s.hold[k] \in Inos /\ Count(s, s.hold[k]) # 0
    BY <1>1, <1>4, <1>5
<1>7. \A k \in 1 .. 3 : k <= Len(s.drop) => s.drop[k] \in Inos /\ Count(s, s.drop[k]) # 0
    BY <1>1, <1>4, <1>5
<1>8. s.open # 0 => s.open \in Inos /\ Count(s, s.open) # 0
    BY <1>4 DEF ProcType, One
<1>9. s.hold # <<>> => Last(s.hold) \in Inos /\ Count(s, Last(s.hold)) # 0
    <2>1. ASSUME s.hold # <<>> PROVE Last(s.hold) = s.hold[Len(s.hold)] /\ Len(s.hold) \in Nat \ {0}
        BY <1>1, <2>1, FrontProps
    <2>2. ASSUME s.hold # <<>> PROVE Len(s.hold) \in {1, 2, 3}
        BY <1>1, <2>1, <2>2
    <2>3. \A k \in {1, 2, 3} : k \in 1 .. 3 /\ k <= k
        OBVIOUS
    <2> QED
        BY <1>6, <2>1, <2>2, <2>3, Zenon
<1> QED
    BY <1>6, <1>7, <1>8, <1>9

(* mutex_sem: the others.                                                  *)
Undisturbed(q) ==
    pr[q].at \in Under =>
        /\ mutex' = mutex
        /\ \A i \in Inos : Count(pr[q], i) # 0 => ent'[i] = ent[i] /\ nd'[i].type = nd[i].type
SelfOK(p, s) ==
    s.at \in Under =>
        /\ mutex' = p
        /\ ent'[s.hold[1]][Last(s.call.path)] = Aim(s)
        /\ nd'[s.hold[1]].type = "dir" /\ (s.second => nd'[s.hold[2]].type = "dir")

(* What mutex_sem protects survives a step that leaves alone the entries   *)
(* and types of the inodes others refer to.                                *)
LEMMA MutexKept ==
    ASSUME SfsShape, SfsCounted, MutexInv, NEW p \in Procs, NEW s \in ProcType, ProcOK(s), Set(p, s),
           SelfOK(p, s), \A q \in Procs \ {p} : Undisturbed(q)
    PROVE  MutexInv'
<1> SUFFICES ASSUME NEW q \in Procs, pr'[q].at \in Under
             PROVE  /\ mutex' = q
                    /\ ent'[pr'[q].hold[1]][Last(pr'[q].call.path)] = Aim(pr'[q])
                    /\ nd'[pr'[q].hold[1]].type = "dir"
                    /\ pr'[q].second => nd'[pr'[q].hold[2]].type = "dir"
    BY DEF MutexInv, MutexOK, IsDir
<1>1. pr'[p] = s /\ (q # p => pr'[q] = pr[q])
    BY PrStep DEF SfsShape
<1>2. CASE q = p
    BY <1>1, <1>2 DEF SelfOK
<1>3. CASE q # p
    <2> DEFINE t == pr[q]
    <2>1. t \in ProcType /\ ProcOK(t) /\ HoldOK(t) /\ t.at \in Under
        BY <1>1, <1>3 DEF SfsShape, PrTyped, ProcInv, ProcOK
    <2>2. mutex' = mutex /\ \A i \in Inos : Count(t, i) # 0 => ent'[i] = ent[i] /\ nd'[i].type = nd[i].type
        BY <1>3, <2>1 DEF Undisturbed
    <2>3. /\ mutex = q /\ ent[t.hold[1]][Last(t.call.path)] = Aim(t)
          /\ nd[t.hold[1]].type = "dir" /\ (t.second => nd[t.hold[2]].type = "dir")
        BY <2>1 DEF MutexInv, MutexOK, IsDir
    <2>4. Len(t.hold) \in {1, 2, 3} /\ t.second \in BOOLEAN
        BY <2>1, HoldLen DEF Under, ProcType
    <2>5. 1 <= Len(t.hold) /\ (t.second => 2 <= Len(t.hold))
        <3>1. \A n \in {1, 2, 3} : 1 <= n
            OBVIOUS
        <3>2. Len(t.hold) = (IF t.second THEN 2 ELSE 1) + (IF t.at = "change" THEN 1 ELSE 0)
            BY <2>1 DEF HoldOK, Under
        <3>3. \A c : 2 <= 2 + (IF c THEN 1 ELSE 0)
            OBVIOUS
        <3> QED
            BY <2>4, <3>1, <3>2, <3>3, Zenon
    <2>6. 1 \in 1 .. 3 /\ 2 \in 1 .. 3
        OBVIOUS
    <2>7. /\ t.hold[1] \in Inos /\ Count(t, t.hold[1]) # 0
          /\ t.second => t.hold[2] \in Inos /\ Count(t, t.hold[2]) # 0
        BY <2>1, <2>5, <2>6, HeldCount, Zenon
    <2> HIDE DEF t
    <2>8. /\ mutex' = q /\ ent'[t.hold[1]][Last(t.call.path)] = Aim(t)
          /\ nd'[t.hold[1]].type = "dir" /\ (t.second => nd'[t.hold[2]].type = "dir")
        BY <2>2, <2>3, <2>7
    <2>9. pr'[q] = t
        BY <1>1, <1>3 DEF t
    <2> QED
        BY <2>8, <2>9
<1> QED
    BY <1>2, <1>3

(* The shape of every proof about an action.                               *)
LEMMA Step ==
    ASSUME SfsShape, SfsCounted, MutexInv, NEW p \in Procs, NEW s \in ProcType, ProcOK(s), Set(p, s),
           NdTyped', RestTyped',
           \A i \in Inos : nd'[i].ref = nd[i].ref + Count(s, i) - Count(pr[p], i),
           \A i \in Inos : nd'[i].type = "free" => ~nd'[i].cached,
           \A i \in Inos : TokenAfter(p, s, i),
           SelfOK(p, s), \A q \in Procs \ {p} : Undisturbed(q)
    PROVE  SfsShape' /\ SfsCounted' /\ MutexInv'
<1>1. PrTyped' /\ ProcInv'
    BY PrStep DEF SfsShape
<1>2. SfsShape'
    BY <1>1 DEF SfsShape
<1>3. RefInv'
    BY <1>1, RefKept DEF SfsShape, SfsCounted
<1>4. TokenInv'
    BY TokenKept DEF SfsShape
<1>5. FreeInv'
    BY DEF FreeInv
<1>6. MutexInv'
    BY MutexKept
<1> QED
    BY <1>2, <1>3, <1>4, <1>5, <1>6 DEF SfsCounted

(* One that leaves the counts and types of inodes alone.                   *)
Alike(i) ==
    /\ nd'[i].ref = nd[i].ref /\ nd'[i].token = nd[i].token
    /\ nd'[i].cached = nd[i].cached /\ nd'[i].type = nd[i].type

(* A step that moves a call along and leaves references, claims, types and *)
(* entries as they are keeps the invariants of the counts.                 *)
LEMMA StepAside ==
    ASSUME SfsShape, SfsCounted, MutexInv, NEW p \in Procs, NEW s \in ProcType, ProcOK(s), Set(p, s),
           NdTyped', \A i \in Inos : Alike(i), ent' = ent, RestTyped', s.claim = pr[p].claim,
           \A i \in Inos : Count(s, i) = Count(pr[p], i), SelfOK(p, s),
           \A q \in Procs \ {p} : pr[q].at \in Under => mutex' = mutex
    PROVE  SfsShape' /\ SfsCounted' /\ MutexInv'
<1>1. NdTyped
    BY DEF SfsShape
<1>2. \A i \in Inos : nd'[i].ref = nd[i].ref + Count(s, i) - Count(pr[p], i)
    <2>1. \A i : Count(pr[p], i) \in Nat
        BY DEF Count, Three, One
    <2>2. \A i \in Inos : nd[i].ref \in Int /\ nd'[i].ref = nd[i].ref
        BY <1>1 DEF NdTyped, NodeType, Alike
    <2>3. \A a, b \in Int : a = a + b - b
        OBVIOUS
    <2> QED
        BY <2>1, <2>2, <2>3
<1>3. \A i \in Inos : nd'[i].type = "free" => ~nd'[i].cached
    BY DEF SfsCounted, FreeInv, Alike
<1>4. \A i \in Inos : TokenAfter(p, s, i)
    BY <1>1, TokenSame DEF SfsCounted, Alike
<1>5. \A q \in Procs \ {p} : Undisturbed(q)
    BY DEF Undisturbed, Alike
<1> QED
    BY <1>2, <1>3, <1>4, <1>5, Step

(* One that leaves the inodes alone.                                       *)
LEMMA Still ==
    ASSUME SfsShape, nd' = nd
    PROVE  NdTyped' /\ \A i \in Inos : Alike(i)
BY DEF SfsShape, NdTyped, Alike

-----------------------------------------------------------------------------
(* The states a call goes through.                                         *)
LEMMA Of ==
    ASSUME SfsShape, NEW p \in Procs
    PROVE  pr[p] \in ProcType /\ ProcOK(pr[p]) /\ HoldOK(pr[p])
BY DEF SfsShape, PrTyped, ProcInv, ProcOK

(* The inodes a call in progress has in hand, and that it refers to each of*)
(* them.                                                                   *)
LEMMA InHand ==
    ASSUME NEW s \in ProcType, HoldOK(s), s.at \notin {"idle", "stuck"}
    PROVE  /\ s.hold \in Seq(Inos) /\ s.hold # <<>> /\ Len(s.hold) \in {1, 2, 3}
           /\ s.hold[1] \in Inos /\ Count(s, s.hold[1]) # 0
           /\ Last(s.hold) \in Inos /\ Count(s, Last(s.hold)) # 0
           /\ s.second \/ s.at = "change" => s.hold[2] \in Inos /\ Count(s, s.hold[2]) # 0
           /\ s.second /\ s.at = "change" => s.hold[3] \in Inos /\ Count(s, s.hold[3]) # 0
           /\ s.at # "change" => Len(s.hold) \in {1, 2}
           /\ ~s.second /\ s.at # "change" => Len(s.hold) = 1
           /\ s.second \/ s.at = "change" => Len(s.hold) >= 2
<1>1. Len(s.hold) \in {1, 2, 3} /\ s.hold \in Seq(Inos)
    BY HoldLen DEF ProcType
<1>2. s.hold # <<>>
    <2>1. Len(<<>>) = 0 /\ 0 \notin {1, 2, 3}
        BY EmptySeq
    <2> QED
        BY <1>1, <2>1, Zenon
<1>3. Len(s.hold) = (IF s.second THEN 2 ELSE 1) + (IF s.at = "change" THEN 1 ELSE 0) /\ s.second \in BOOLEAN
    BY DEF HoldOK, ProcType
<1>4. \A b, c : LET n == (IF b THEN 2 ELSE 1) + (IF c THEN 1 ELSE 0)
                IN  1 <= n /\ (b \/ c => n >= 2 /\ 2 <= n) /\ (b /\ c => 3 <= n) /\ (~c => n \in {1, 2})
                    /\ (~b /\ ~c => n = 1)
    OBVIOUS
<1> DEFINE n == Len(s.hold)
           b == s.second
           c == s.at = "change"
<1> HIDE DEF n, b, c
<1>6. n = (IF b THEN 2 ELSE 1) + (IF c THEN 1 ELSE 0)
    BY <1>3 DEF n, b, c
<1>7. 1 <= n /\ (b \/ c => n >= 2 /\ 2 <= n) /\ (b /\ c => 3 <= n) /\ (~c => n \in {1, 2}) /\ (~b /\ ~c => n = 1)
    BY <1>4, <1>6, Zenon
<1>8. 1 \in 1 .. 3 /\ 2 \in 1 .. 3 /\ 3 \in 1 .. 3
    OBVIOUS
<1>9. /\ 1 <= n => s.hold[1] \in Inos /\ Count(s, s.hold[1]) # 0
      /\ 2 <= n => s.hold[2] \in Inos /\ Count(s, s.hold[2]) # 0
      /\ 3 <= n => s.hold[3] \in Inos /\ Count(s, s.hold[3]) # 0
      /\ Last(s.hold) \in Inos /\ Count(s, Last(s.hold)) # 0
    BY <1>2, <1>8, HeldCount, Zenon DEF n
<1> QED
    BY <1>1, <1>2, <1>7, <1>9, Zenon DEF n, b, c

(* A process outside any call is well formed.                              *)
LEMMA IdleOK == Idle \in ProcType /\ ProcOK(Idle)
<1>1. NoCall \in [op : Ops \cup {"none"}, path : Seq(AllNames), to : Seq(AllNames)]
    BY DEF NoCall
<1>2. Idle \in ProcType
    BY <1>1 DEF ProcType, Ats, Idle
<1> QED
    BY <1>2 DEF ProcOK, HoldOK, Under, Idle

(* A call that ends hands over the references it has to the ones it must   *)
(* drop.                                                                   *)
LEMMA Gives ==
    ASSUME NEW s \in ProcType, HoldOK(s), s.drop = <<>>, NEW q \in Seq(Inos), Len(q) <= 3
    PROVE  LET t == [Returned(s) EXCEPT !.drop = q]
           IN  /\ t \in ProcType /\ ProcOK(t) /\ t.claim = 0 /\ t.at = "idle"
               /\ \A i : Three(q, i) = Three(s.hold, i) => Count(t, i) = Count(s, i)
<1> DEFINE t == [Returned(s) EXCEPT !.drop = q]
<1>1. Reverse(s.hold) \in Seq(Inos) /\ s.open \in Inos \cup {0}
    BY HoldLen, ThreeReverse DEF ProcType
<1>2. Idle \in ProcType
    BY IdleOK
<1>3. t \in ProcType
    BY <1>1, <1>2 DEF ProcType, Returned
<1>4. /\ t.at = "idle" /\ ~t.second /\ t.hold = <<>> /\ t.ino = 0 /\ t.drop = q /\ t.claim = 0
      /\ t.open = s.open
    BY DEF Returned, Idle
<1> HIDE DEF t
<1>9. ProcOK(t)
    BY <1>4 DEF ProcOK, HoldOK, Under
<1>5. \A i : Count(t, i) = 0 + Three(q, i) + One(s.open = i) /\ Count(s, i) = Three(s.hold, i) + 0 + One(s.open = i)
    <2>1. \A i : Three(<<>>, i) = 0
        BY DEF Three, One
    <2> QED
        BY <1>4, <2>1 DEF Count
<1>6. \A i : Three(q, i) \in Nat
    BY ThreeNat
<1>7. \A a \in Nat : 0 + a = a /\ a + 0 = a
    OBVIOUS
<1>8. \A i : Three(q, i) = Three(s.hold, i) => Count(t, i) = Count(s, i)
    BY <1>5, <1>6, <1>7
<1> QED
    BY <1>3, <1>4, <1>8, <1>9 DEF t

(* A call that returns is to drop what it had in hand, and so refers to the*)
(* same inodes.                                                            *)
LEMMA ReturnedOK ==
    ASSUME NEW s \in ProcType, HoldOK(s), s.drop = <<>>
    PROVE  /\ Returned(s) \in ProcType /\ ProcOK(Returned(s)) /\ Returned(s).claim = 0
           /\ Returned(s).at = "idle"
           /\ \A i : Count(Returned(s), i) = Count(s, i)
<1>1. s.hold \in Seq(Inos) /\ Len(s.hold) <= 3
    BY HoldLen DEF ProcType
<1>2. /\ Reverse(s.hold) \in Seq(Inos) /\ Len(Reverse(s.hold)) = Len(s.hold)
      /\ \A i : Three(Reverse(s.hold), i) = Three(s.hold, i)
    BY <1>1, ThreeReverse
<1>3. [Returned(s) EXCEPT !.drop = Reverse(s.hold)] = Returned(s)
    <2>1. \A r, o : [[Idle EXCEPT !.drop = r, !.open = o] EXCEPT !.drop = r] = [Idle EXCEPT !.drop = r, !.open = o]
        BY DEF Idle
    <2> QED
        BY <2>1, Zenon DEF Returned
<1> QED
    BY <1>1, <1>2, <1>3, Gives

(* A call that gives up gives its directories back in the same order.      *)
LEMMA DroppedOK ==
    ASSUME NEW s \in ProcType, HoldOK(s), s.drop = <<>>
    PROVE  LET t == [Returned(s) EXCEPT !.drop = s.hold]
           IN  /\ t \in ProcType /\ ProcOK(t) /\ t.claim = 0 /\ t.at = "idle"
               /\ \A i : Count(t, i) = Count(s, i)
<1>1. s.hold \in Seq(Inos) /\ Len(s.hold) <= 3
    BY HoldLen DEF ProcType
<1> QED
    BY <1>1, Gives

(* One that takes another reference to an inode in use.                    *)
LEMMA StepRef ==
    ASSUME SfsShape, SfsCounted, MutexInv, NEW p \in Procs, NEW s \in ProcType, ProcOK(s), Set(p, s),
           NEW r \in Inos, nd[r].ref >= 1, nd' = [nd EXCEPT ![r].ref = @ + 1],
           UNCHANGED <<scene, ent, mutex, fs, faults>>, s.claim = pr[p].claim,
           \A i \in Inos : Count(s, i) = Count(pr[p], i) + One(r = i), s.at \notin Under
    PROVE  SfsShape' /\ SfsCounted' /\ MutexInv'
<1>1. NdTyped /\ PrTyped /\ RestTyped' /\ nd[r] \in NodeType
    BY DEF SfsShape, NdTyped, RestTyped
<1>2. NdTyped'
    BY <1>1 DEF NdTyped, NodeType
<1>3. \A i \in Inos : /\ nd'[i].ref = nd[i].ref + One(r = i) /\ nd'[i].type = nd[i].type
                      /\ nd'[i].cached = nd[i].cached /\ nd'[i].token = nd[i].token
    BY <1>1 DEF NdTyped, NodeType, One
<1>4. nd[r].cached
    BY DEF SfsCounted, TokenInv, TokenOK
<1>5. ASSUME NEW i \in Inos PROVE nd'[i].ref = nd[i].ref + Count(s, i) - Count(pr[p], i)
    <2>1. Count(pr[p], i) \in Nat /\ One(r = i) \in Nat
        BY DEF Count, Three, One
    <2>2. nd[i].ref \in Int
        BY <1>1 DEF NdTyped, NodeType
    <2>3. \A a, b, c \in Int : a + c = a + (b + c) - b
        OBVIOUS
    <2> QED
        BY <1>3, <2>1, <2>2, <2>3
<1>6. ASSUME NEW i \in Inos PROVE nd'[i].ref = nd[i].ref \/ (nd[i].cached /\ nd[i].ref > 0)
    BY <1>1, <1>3, <1>4 DEF One, NdTyped, NodeType
<1>7. \A i \in Inos : TokenAfter(p, s, i)
    BY <1>1, <1>2, <1>3, <1>6, TokenSame DEF SfsCounted
<1>8. \A i \in Inos : nd'[i].type = "free" => ~nd'[i].cached
    BY <1>3 DEF SfsCounted, FreeInv
<1>9. SelfOK(p, s) /\ \A q \in Procs \ {p} : Undisturbed(q)
    BY <1>3 DEF SelfOK, Undisturbed
<1> QED
    BY <1>1, <1>2, <1>5, <1>7, <1>8, <1>9, Step

(* After an inode of the path is loaded the walk goes on or the call       *)
(* begins.                                                                 *)
LEMMA ArrivedOK ==
    ASSUME NEW s \in ProcType
    PROVE  /\ Arrived(s) \in ProcType
           /\ Arrived(s).at = IF s.rest = <<>> THEN "call" ELSE "walk"
           /\ Arrived(s).call = s.call /\ Arrived(s).second = s.second /\ Arrived(s).rest = s.rest
           /\ Arrived(s).hold = s.hold /\ Arrived(s).ino = s.ino /\ Arrived(s).drop = s.drop
           /\ Arrived(s).claim = s.claim /\ Arrived(s).open = s.open
BY DEF Arrived, ProcType, Ats

(* Begin keeps the types, the counts and what mutex_sem protects.          *)
LEMMA BeginSafe ==
    ASSUME SfsShape, SfsCounted, MutexInv, NEW p \in Procs, NEW c \in scene.calls[p], Begin(p, c)
    PROVE  SfsShape' /\ SfsCounted' /\ MutexInv'
<1> DEFINE o == pr[p]
           s0 == [o EXCEPT !.call = c, !.rest = Walked(c.op, c.path), !.hold = <<ROOT>>]
           s == Arrived(s0)
<1>1. /\ o.at = "idle" /\ o.drop = <<>> /\ o.claim = 0
      /\ c.op \in Creators \cup {"open"} => o.open = 0
      /\ nd' = [nd EXCEPT ![ROOT].ref = @ + 1] /\ Set(p, s) /\ UNCHANGED <<scene, ent, mutex, fs, faults>>
    BY DEF Begin, Stands
<1>2. o \in ProcType /\ ProcOK(o) /\ HoldOK(o)
    BY Of
<1>3. CallOK(c)
    BY SfsAssumption DEF SfsShape, RestTyped
<1>4. Walked(c.op, c.path) \in Seq(AllNames)
    <2>1. CASE c.op \in Creators \cup {"open", "link"}
        BY <1>3, <2>1 DEF Walked, CallOK
    <2>2. CASE c.op \notin Creators \cup {"open", "link"}
        <3>1. c.path # <<>> /\ c.path \in Seq(AllNames)
            BY <1>3, <2>2 DEF CallOK
        <3>2. Front(c.path) \in Seq(AllNames)
            BY <3>1, FrontProps
        <3> QED
            BY <2>2, <3>2 DEF Walked
    <2> QED
        BY <2>1, <2>2
<1>5. c \in [op : Ops \cup {"none"}, path : Seq(AllNames), to : Seq(AllNames)] /\ PathsOK(c) /\ c.op # "make"
    BY <1>3 DEF CallOK, PathsOK, Ops, Builders
<1>6. <<ROOT>> \in Seq(Inos) /\ ROOT \in Inos /\ Len(<<ROOT>>) = 1
    BY RootLive
<1>7. /\ s0 \in ProcType /\ s0.call = c /\ s0.hold = <<ROOT>> /\ s0.second = o.second /\ s0.ino = o.ino
      /\ s0.drop = o.drop /\ s0.claim = o.claim /\ s0.open = o.open
    BY <1>2, <1>4, <1>5, <1>6 DEF ProcType
<1> HIDE DEF s0
<1>8. /\ s \in ProcType /\ s.at = (IF s.rest = <<>> THEN "call" ELSE "walk") /\ s.call = c
      /\ s.hold = <<ROOT>> /\ s.second = o.second /\ s.ino = o.ino /\ s.drop = o.drop
      /\ s.claim = o.claim /\ s.open = o.open
    BY <1>7, ArrivedOK
<1> HIDE DEF s, o
<1>9. s.at \in {"call", "walk"} /\ s.at \notin Under
    BY <1>8 DEF Under
<1>10. o.hold = <<>> /\ o.ino = 0 /\ ~o.second
    BY <1>1, <1>2 DEF ProcOK, HoldOK
<1>11. HoldOK(s)
    BY <1>1, <1>2, <1>6, <1>8, <1>9, <1>10 DEF HoldOK
<1>12. ProcOK(s)
    BY <1>1, <1>5, <1>8, <1>9, <1>10, <1>11 DEF ProcOK
<1>13. ASSUME NEW i \in Inos PROVE Count(s, i) = Count(o, i) + One(ROOT = i)
    <2>1. Three(s.hold, i) = One(ROOT = i) /\ Three(o.hold, i) = 0 /\ Three(s.drop, i) = Three(o.drop, i)
        <3>1. s.hold = <<ROOT>> /\ o.hold = <<>> /\ s.drop = o.drop
            BY <1>8, <1>10
        <3>2. Three(<<ROOT>>, i) = One(ROOT = i) /\ Three(<<>>, i) = 0
            BY ThreeNone, ThreeOne
        <3> QED
            BY <3>1, <3>2
    <2>2. Three(o.drop, i) \in Nat /\ One(ROOT = i) \in Nat /\ One(o.open = i) \in Nat
        BY ThreeNat DEF One
    <2>3. \A a, b, d \in Nat : a + b + d = (0 + b + d) + a
        OBVIOUS
    <2> QED
        BY <1>8, <2>1, <2>2, <2>3 DEF Count
<1>14. nd[ROOT].ref >= 1 /\ s.claim = pr[p].claim /\ \A i \in Inos : Count(s, i) = Count(pr[p], i) + One(ROOT = i)
    BY <1>8, <1>13, RootLive DEF o
<1> QED
    BY <1>1, <1>6, <1>8, <1>9, <1>12, <1>14, StepRef

(* SecondPath keeps the types, the counts and what mutex_sem protects.     *)
LEMMA SecondPathSafe ==
    ASSUME SfsShape, SfsCounted, MutexInv, NEW p \in Procs, SecondPath(p)
    PROVE  SfsShape' /\ SfsCounted' /\ MutexInv'
<1> DEFINE o == pr[p]
           s0 == [o EXCEPT !.second = TRUE, !.rest = Front(o.call.to), !.hold = Append(@, ROOT)]
           s == Arrived(s0)
<1>1. /\ o.at = "call" /\ o.drop = <<>> /\ o.claim = 0 /\ o.call.op \in {"link", "rename"} /\ ~o.second
      /\ nd' = [nd EXCEPT ![ROOT].ref = @ + 1] /\ Set(p, s) /\ UNCHANGED <<scene, ent, mutex, fs, faults>>
    BY DEF SecondPath, Stands, Op
<1>2. o \in ProcType /\ ProcOK(o) /\ HoldOK(o)
    BY Of
<1>3. ROOT \in Inos /\ nd[ROOT].ref >= 1
    BY RootLive
<1>4. PathsOK(o.call) /\ Front(o.call.to) \in Seq(AllNames)
    <2>1. PathsOK(o.call) /\ o.call.to \in Seq(AllNames)
        BY <1>1, <1>2 DEF ProcOK, ProcType
    <2>2. o.call.to # <<>>
        BY <1>1, <2>1 DEF PathsOK
    <2> QED
        BY <2>1, <2>2, FrontProps
<1>5. o.hold \in Seq(Inos) /\ Len(o.hold) = 1
    BY <1>1, <1>2, InHand
<1>6. /\ \A i : Three(Append(o.hold, ROOT), i) = Three(o.hold, i) + One(ROOT = i)
      /\ Append(o.hold, ROOT) \in Seq(Inos) /\ Len(Append(o.hold, ROOT)) = 2
    <2>1. \A n : n = 1 => n <= 2 /\ n + 1 = 2
        OBVIOUS
    <2>2. Len(o.hold) <= 2 /\ Len(o.hold) + 1 = 2
        BY <1>5, <2>1, Zenon
    <2> QED
        <3> DEFINE h == o.hold
        <3>1. h \in Seq(Inos) /\ Len(h) <= 2 /\ Len(h) + 1 = 2
            BY <1>5, <2>2
        <3> HIDE DEF h
        <3>2. ASSUME NEW i
              PROVE  /\ Three(Append(h, ROOT), i) = Three(h, i) + One(ROOT = i)
                     /\ Append(h, ROOT) \in Seq(Inos) /\ Len(Append(h, ROOT)) = Len(h) + 1
            BY <1>3, <3>1, ThreeAppend
        <3> QED
            BY <3>1, <3>2, Zenon DEF h
<1>7. /\ s0 \in ProcType /\ s0.call = o.call /\ s0.hold = Append(o.hold, ROOT) /\ s0.second /\ s0.ino = o.ino
      /\ s0.drop = o.drop /\ s0.claim = o.claim /\ s0.open = o.open
    BY <1>2, <1>4, <1>6 DEF ProcType
<1> HIDE DEF s0
<1>8. /\ s \in ProcType /\ s.at = (IF s.rest = <<>> THEN "call" ELSE "walk") /\ s.call = o.call
      /\ s.hold = Append(o.hold, ROOT) /\ s.second /\ s.ino = o.ino /\ s.drop = o.drop
      /\ s.claim = o.claim /\ s.open = o.open
    BY <1>7, ArrivedOK
<1> HIDE DEF s, o
<1>9. s.at \in {"call", "walk"} /\ s.at \notin Under
    BY <1>8 DEF Under
<1>10. o.ino = 0
    BY <1>1, <1>2 DEF HoldOK
<1>11. HoldOK(s)
    BY <1>1, <1>2, <1>6, <1>8, <1>9, <1>10 DEF HoldOK
<1>12. ProcOK(s)
    BY <1>1, <1>2, <1>4, <1>8, <1>9, <1>10, <1>11 DEF ProcOK
<1>13. ASSUME NEW i \in Inos PROVE Count(s, i) = Count(o, i) + One(ROOT = i)
    <2>1. Three(s.hold, i) = Three(o.hold, i) + One(ROOT = i) /\ Three(s.drop, i) = Three(o.drop, i)
        BY <1>6, <1>8
    <2>2. Three(o.drop, i) \in Nat /\ Three(o.hold, i) \in Nat /\ One(ROOT = i) \in Nat /\ One(o.open = i) \in Nat
        BY ThreeNat DEF One
    <2>3. \A a, b, d, e \in Nat : (e + a) + b + d = (e + b + d) + a
        OBVIOUS
    <2> QED
        BY <1>8, <2>1, <2>2, <2>3 DEF Count
<1>14. s.claim = pr[p].claim /\ \A i \in Inos : Count(s, i) = Count(pr[p], i) + One(ROOT = i)
    BY <1>8, <1>13 DEF o
<1> QED
    BY <1>1, <1>3, <1>8, <1>9, <1>12, <1>14, StepRef

(* O_CREAT starts over; otherwise nothing but the process changes.         *)
LEMMA SearchSafe ==
    ASSUME SfsShape, SfsCounted, MutexInv, NEW p \in Procs, Search(p)
    PROVE  SfsShape' /\ SfsCounted' /\ MutexInv'
<1> DEFINE o == pr[p]
           d == Last(o.hold)
           i == ent[d][Head(o.rest)]
<1>1. /\ o.at = "walk" /\ o.drop = <<>> /\ o.claim = 0 /\ UNCHANGED <<scene, ent, mutex, fs>>
      /\ \/ i # 0 /\ Set(p, [o EXCEPT !.at = "load", !.ino = i]) /\ UNCHANGED <<nd, faults>>
         \/ /\ o.call.op \in Creators /\ nd' = [nd EXCEPT ![ROOT].ref = @ + 1]
            /\ Set(p, Arrived([o EXCEPT !.call.op = "make", !.rest = Front(o.call.path),
                                        !.hold = <<ROOT>>, !.drop = o.hold]))
            /\ UNCHANGED faults
         \/ Set(p, Returned(o)) /\ UNCHANGED <<nd, faults>>
         \/ Set(p, Returned(o)) /\ UNCHANGED nd /\ Fault
    BY DEF Search, Stands, Op, Return
<1>2. o \in ProcType /\ ProcOK(o) /\ HoldOK(o)
    BY Of
<1>3. o.ino = 0 /\ o.rest # <<>> /\ PathsOK(o.call) /\ o.second \in BOOLEAN
    BY <1>1, <1>2 DEF HoldOK, ProcOK, ProcType
<1>4. ent \in [Inos -> [AllNames -> Inos \cup {0}]]
    BY DEF SfsShape, RestTyped
<1>5. d \in Inos /\ o.hold \in Seq(Inos) /\ Len(o.hold) \in {1, 2, 3} /\ (~o.second => Len(o.hold) = 1)
    BY <1>1, <1>2, InHand
<1>6. Head(o.rest) \in AllNames
    BY <1>2, <1>3, HeadTailProperties DEF ProcType
<1>7. i \in Inos \cup {0}
    BY <1>4, <1>5, <1>6
<1>8. faults' \in 0 .. FAULTS => RestTyped'
    BY <1>1 DEF SfsShape, RestTyped
<1>9. faults \in 0 .. FAULTS /\ (Fault => faults' \in 0 .. FAULTS)
    BY SfsAssumption DEF SfsShape, RestTyped, Fault
<1> HIDE DEF i, d
<1>10. CASE i # 0 /\ Set(p, [o EXCEPT !.at = "load", !.ino = i]) /\ UNCHANGED <<nd, faults>>
    <2> DEFINE s == [o EXCEPT !.at = "load", !.ino = i]
    <2>1. /\ s \in ProcType /\ s.at = "load" /\ s.ino = i /\ s.call = o.call /\ s.hold = o.hold
          /\ s.second = o.second /\ s.rest = o.rest /\ s.drop = o.drop /\ s.claim = o.claim /\ s.open = o.open
        BY <1>2, <1>7 DEF ProcType, Ats
    <2>2. Set(p, s)
        BY <1>10
    <2> HIDE DEF s, o
    <2>3. HoldOK(s)
        BY <1>1, <1>2, <1>10, <2>1 DEF HoldOK
    <2>4. ProcOK(s) /\ s.at \notin Under
        BY <1>1, <1>2, <1>3, <2>1, <2>3 DEF ProcOK, Under
    <2>5. \A j : Count(s, j) = Count(o, j)
        BY <2>1 DEF Count
    <2> QED
        BY <1>1, <1>8, <1>9, <1>10, <2>1, <2>2, <2>4, <2>5, StepAside, Still DEF SelfOK, o
<1>11. CASE /\ o.call.op \in Creators /\ nd' = [nd EXCEPT ![ROOT].ref = @ + 1]
            /\ Set(p, Arrived([o EXCEPT !.call.op = "make", !.rest = Front(o.call.path),
                                        !.hold = <<ROOT>>, !.drop = o.hold]))
            /\ UNCHANGED faults
    <2> DEFINE s0 == [o EXCEPT !.call.op = "make", !.rest = Front(o.call.path), !.hold = <<ROOT>>, !.drop = o.hold]
               s == Arrived(s0)
    <2>1. ROOT \in Inos /\ nd[ROOT].ref >= 1 /\ <<ROOT>> \in Seq(Inos) /\ Len(<<ROOT>>) = 1
        BY RootLive
    <2>2. o.call.path \in Seq(AllNames) /\ o.call.path # <<>> /\ Last(o.call.path) \in FileNames
        BY <1>2, <1>3, <1>11 DEF PathsOK, ProcType, Creators
    <2>3. Front(o.call.path) \in Seq(AllNames)
        BY <2>2, FrontProps
    <2>4. "make" \in Ops
        BY DEF Ops, Builders
    <2>5. /\ s0 \in ProcType /\ s0.call.op = "make" /\ s0.call.path = o.call.path /\ s0.hold = <<ROOT>>
          /\ s0.second = o.second /\ s0.ino = o.ino /\ s0.drop = o.hold /\ s0.claim = o.claim /\ s0.open = o.open
        BY <1>2, <1>5, <2>1, <2>3, <2>4 DEF ProcType
    <2> HIDE DEF s0
    <2>6. /\ s \in ProcType /\ s.at = (IF s.rest = <<>> THEN "call" ELSE "walk")
          /\ s.call.op = "make" /\ s.call.path = o.call.path /\ s.hold = <<ROOT>>
          /\ s.second = o.second /\ s.ino = o.ino /\ s.drop = o.hold /\ s.claim = o.claim /\ s.open = o.open
        BY <2>5, ArrivedOK
    <2>7. Set(p, s)
        BY <1>11 DEF s0
    <2> HIDE DEF s, o
    <2>8. ~o.second /\ o.open = 0
        BY <1>1, <1>2, <1>11 DEF ProcOK, Creators
    <2>9. s.at \in {"call", "walk"} /\ s.at \notin Under
        BY <2>6 DEF Under
    <2>10. Len(s.drop) <= 3
        BY <1>2, <2>6, HoldLen
    <2>11. HoldOK(s)
        BY <1>3, <2>1, <2>6, <2>8, <2>9, <2>10 DEF HoldOK
    <2>12. PathsOK(s.call)
        BY <2>2, <2>4, <2>6 DEF PathsOK
    <2>13. ProcOK(s)
        BY <2>6, <2>8, <2>9, <2>11, <2>12 DEF ProcOK
    <2>14. ASSUME NEW j \in Inos PROVE Count(s, j) = Count(o, j) + One(ROOT = j)
        <3>1. Three(s.hold, j) = One(ROOT = j) /\ Three(o.drop, j) = 0 /\ Three(s.drop, j) = Three(o.hold, j)
            <4>1. s.hold = <<ROOT>> /\ o.drop = <<>> /\ s.drop = o.hold
                BY <1>1, <2>6 DEF o
            <4>2. Three(<<ROOT>>, j) = One(ROOT = j) /\ Three(<<>>, j) = 0
                BY ThreeNone, ThreeOne
            <4> QED
                BY <4>1, <4>2
        <3>2. Three(o.hold, j) \in Nat /\ One(ROOT = j) \in Nat /\ One(o.open = j) \in Nat
            BY ThreeNat DEF One
        <3>3. \A a, b, e \in Nat : a + b + e = (b + 0 + e) + a
            OBVIOUS
        <3> QED
            BY <2>6, <3>1, <3>2, <3>3 DEF Count
    <2>15. s.claim = pr[p].claim /\ \A j \in Inos : Count(s, j) = Count(pr[p], j) + One(ROOT = j)
        BY <2>6, <2>14 DEF o
    <2> QED
        BY <1>1, <1>11, <2>1, <2>6, <2>7, <2>9, <2>13, <2>15, StepRef, ZenonT(60)
<1>12. CASE Set(p, Returned(o)) /\ UNCHANGED nd /\ faults' \in 0 .. FAULTS
    <2>1. /\ Returned(o) \in ProcType /\ ProcOK(Returned(o)) /\ Returned(o).claim = pr[p].claim
          /\ Returned(o).at \notin Under /\ \A j : Count(Returned(o), j) = Count(pr[p], j)
        BY <1>1, <1>2, ReturnedOK DEF Under
    <2> QED
        BY <1>1, <1>8, <1>12, <2>1, StepAside, Still DEF SelfOK
<1> QED
    BY <1>1, <1>9, <1>10, <1>11, <1>12

(* sfs_load_inode                                                          *)
LEMMA NodeLoaded ==
    ASSUME NEW x \in NodeType, NEW b \in BOOLEAN, NEW c \in BOOLEAN, NEW r \in Int, NEW t \in 0 .. TOKENS,
           NEW l \in Nat
    PROVE  [x EXCEPT !.cached = b, !.ref = r, !.token = t, !.links = l, !.dirty = c] \in NodeType
BY DEF NodeType

(* sfs_load_inode gives the process that loads an inode one more reference,*)
(* and a first reference a token.                                          *)
LEMMA StepLoad ==
    ASSUME SfsShape, SfsCounted, MutexInv, NEW p \in Procs, NEW s \in ProcType, ProcOK(s), Set(p, s),
           NEW i \in Inos, nd[i].cached \/ Loadable(i),
           nd[i].cached /\ nd[i].ref = 0 => nd[i].token < TOKENS,
           nd' = [nd EXCEPT ![i] = Loaded(i)],
           UNCHANGED <<scene, ent, mutex, fs, faults>>, s.claim = pr[p].claim,
           \A j \in Inos : Count(s, j) = Count(pr[p], j) + One(i = j), SelfOK(p, s)
    PROVE  SfsShape' /\ SfsCounted' /\ MutexInv'
<1>1. NdTyped /\ PrTyped /\ RestTyped' /\ nd[i] \in NodeType
    BY DEF SfsShape, NdTyped, RestTyped
<1>2. TokenOK(i) /\ nd[i].ref >= 0 /\ TOKENS \in Nat \ {0} /\ Cardinality(Claims(i)) \in Nat
    <2>1. nd[i].ref = Cardinality(Refs(i)) + One(i = ROOT) /\ Cardinality(Refs(i)) \in Nat
        BY RefsFinite DEF SfsCounted, RefInv, Refs
    <2>2. nd[i].ref >= 0
        BY <2>1 DEF One
    <2> QED
        BY <2>2, ClaimsFinite, SfsAssumption DEF SfsCounted, TokenInv
<1>3. /\ Loaded(i) \in NodeType /\ Loaded(i).type = nd[i].type /\ Loaded(i).cached /\ Loaded(i).ref = nd[i].ref + 1
      /\ Loaded(i).token = (IF ~nd[i].cached THEN 1 ELSE IF nd[i].ref = 0 THEN nd[i].token + 1 ELSE nd[i].token)
    <2> DEFINE x == nd[i]
    <2>1. CASE nd[i].cached
        <3> DEFINE k == IF x.ref = 0 THEN x.token + 1 ELSE x.token
        <3>1. k \in 0 .. TOKENS /\ x.ref + 1 \in Int
            BY <1>1, <1>2, <2>1 DEF NodeType
        <3>2. Loaded(i) = [x EXCEPT !.ref = @ + 1, !.token = k]
            BY <2>1 DEF Loaded
        <3> HIDE DEF k
        <3>3. /\ Loaded(i) \in NodeType /\ Loaded(i).type = x.type /\ Loaded(i).cached = x.cached
              /\ Loaded(i).ref = x.ref + 1 /\ Loaded(i).token = k
            BY <1>1, <3>1, <3>2 DEF NodeType
        <3> QED
            BY <2>1, <3>3 DEF k
    <2>2. CASE ~nd[i].cached
        <3>1. nd[i].ref = 0
            BY <1>2, <2>2 DEF TokenOK
        <3>2. Loaded(i) = [x EXCEPT !.cached = TRUE, !.ref = 1, !.token = 1, !.links = x.disk, !.dirty = FALSE]
            BY <2>2 DEF Loaded
        <3>3. 1 \in 0 .. TOKENS
            BY <1>2
        <3>4. /\ Loaded(i) \in NodeType /\ Loaded(i).type = x.type /\ Loaded(i).cached
              /\ Loaded(i).ref = 1 /\ Loaded(i).token = 1
            <4>1. x \in NodeType
                BY <1>1
            <4> HIDE DEF x
            <4>2. x.disk \in Nat
                BY <4>1 DEF NodeType
            <4>3. [x EXCEPT !.cached = TRUE, !.ref = 1, !.token = 1, !.links = x.disk, !.dirty = FALSE] \in NodeType
                <5>1. TRUE \in BOOLEAN /\ FALSE \in BOOLEAN /\ 1 \in Int
                    OBVIOUS
                <5> QED
                    BY <4>1, <4>2, <5>1, <3>3, NodeLoaded, Zenon
            <4>4. /\ Loaded(i).type = x.type /\ Loaded(i).cached /\ Loaded(i).ref = 1 /\ Loaded(i).token = 1
                BY <4>1, <3>2 DEF NodeType
            <4> QED
                BY <3>2, <4>3, <4>4
        <3> QED
            BY <2>2, <3>1, <3>4
    <2> QED
        BY <2>1, <2>2
<1>4. nd'[i] = Loaded(i) /\ \A j \in Inos : j # i => nd'[j] = nd[j]
    BY <1>1 DEF NdTyped
<1>5. NdTyped'
    BY <1>1, <1>3 DEF NdTyped
<1>6. ASSUME NEW j \in Inos PROVE nd'[j].ref = nd[j].ref + Count(s, j) - Count(pr[p], j)
    <2>1. Count(pr[p], j) \in Nat /\ One(i = j) \in Nat
        BY DEF Count, Three, One
    <2>2. nd[j].ref \in Int /\ nd'[j].ref = nd[j].ref + One(i = j)
        BY <1>1, <1>3, <1>4 DEF NdTyped, NodeType, One
    <2>3. \A a, b, c \in Int : a + c = a + (b + c) - b
        OBVIOUS
    <2> QED
        BY <2>1, <2>2, <2>3
<1>7. TokenAfter(p, s, i)
    <2>1. After(p, s, i) = Cardinality(Claims(i))
        BY <1>2 DEF After, One
    <2>2. Cardinality(Claims(i)) = 0 \/ nd[i].cached
        BY <1>2, FS_EmptySet DEF TokenOK
    <2>3. Loaded(i).token >= Cardinality(Claims(i)) + 1
        BY <1>1, <1>2, <1>3, <2>2 DEF TokenOK, One, NodeType
    <2>4. One(nd'[i].ref > 0) = 1
        BY <1>1, <1>2, <1>3, <1>4 DEF One, NodeType
    <2> QED
        BY <1>3, <1>4, <2>1, <2>3, <2>4 DEF TokenAfter
<1>8. \A j \in Inos : TokenAfter(p, s, j)
    <2>1. ASSUME NEW j \in Inos, j # i PROVE TokenAfter(p, s, j)
        BY <1>1, <1>4, <1>5, <2>1, TokenSame DEF SfsCounted
    <2> QED
        BY <1>7, <2>1
<1>9. \A j \in Inos : nd'[j].type = "free" => ~nd'[j].cached
    BY <1>3, <1>4 DEF SfsCounted, FreeInv, Loadable
<1>10. \A q \in Procs \ {p} : Undisturbed(q)
    BY <1>3, <1>4 DEF Undisturbed
<1> QED
    BY <1>1, <1>5, <1>6, <1>8, <1>9, <1>10, Step

(* Load keeps the types, the counts and what mutex_sem protects.           *)
LEMMA LoadSafe ==
    ASSUME SfsShape, SfsCounted, MutexInv, NEW p \in Procs, Load(p)
    PROVE  SfsShape' /\ SfsCounted' /\ MutexInv'
<1> DEFINE o == pr[p]
           i == o.ino
<1>1. /\ i # 0 /\ (nd[i].cached \/ Loadable(i)) /\ (nd[i].cached /\ nd[i].ref = 0 => nd[i].token < TOKENS)
      /\ nd' = [nd EXCEPT ![i] = Loaded(i)] /\ UNCHANGED <<scene, ent, mutex, fs, faults>>
      /\ o.at \in {"load", "target"} /\ o.drop = <<>> /\ o.claim = 0
    BY DEF Load, Stands
<1>2. o \in ProcType /\ ProcOK(o) /\ HoldOK(o) /\ i \in Inos
    BY <1>1, Of DEF ProcType
<1>3. /\ o.hold \in Seq(Inos) /\ o.hold # <<>> /\ Len(o.hold) \in {1, 2} /\ Last(o.hold) \in Inos
      /\ (o.second => Len(o.hold) >= 2)
    BY <1>1, <1>2, InHand
<1>4. Len(o.hold) <= 2 /\ Len(o.hold) \in 1 .. 3 /\ 1 <= Len(o.hold)
    <2>1. \A n \in {1, 2} : n <= 2 /\ n \in 1 .. 3 /\ 1 <= n
        OBVIOUS
    <2> QED
        BY <1>3, <2>1, Zenon
<1>5. CASE o.at = "load"
    <2> DEFINE s0 == [o EXCEPT !.rest = Tail(@), !.hold = Append(Front(@), i), !.drop = <<Last(o.hold)>>, !.ino = 0]
               s == Arrived(s0)
    <2>1. Set(p, s)
        BY <1>5 DEF Load, Stands
    <2>2. o.rest # <<>> /\ o.rest \in Seq(AllNames) /\ PathsOK(o.call)
        BY <1>2, <1>5 DEF ProcOK, ProcType
    <2>3. Tail(o.rest) \in Seq(AllNames)
        BY <2>2, HeadTailProperties
    <2>4. ASSUME NEW j
          PROVE  /\ Three(Append(Front(o.hold), i), j) = Three(o.hold, j) - One(Last(o.hold) = j) + One(i = j)
                 /\ Append(Front(o.hold), i) \in Seq(Inos) /\ Len(Append(Front(o.hold), i)) = Len(o.hold)
        BY <1>2, <1>3, <1>4, ThreeReplace
    <2>5. <<Last(o.hold)>> \in Seq(Inos) /\ Len(<<Last(o.hold)>>) = 1
        BY <1>3
    <2>6. /\ s0 \in ProcType /\ s0.call = o.call /\ s0.hold = Append(Front(o.hold), i) /\ s0.second = o.second
          /\ s0.ino = 0 /\ s0.drop = <<Last(o.hold)>> /\ s0.claim = o.claim /\ s0.open = o.open
        BY <1>2, <2>3, <2>4, <2>5 DEF ProcType
    <2> HIDE DEF s0
    <2>7. /\ s \in ProcType /\ s.at = (IF s.rest = <<>> THEN "call" ELSE "walk") /\ s.call = o.call
          /\ s.hold = Append(Front(o.hold), i) /\ s.second = o.second /\ s.ino = 0
          /\ s.drop = <<Last(o.hold)>> /\ s.claim = o.claim /\ s.open = o.open
        BY <2>6, ArrivedOK
    <2> HIDE DEF s, o
    <2>8. s.at \in {"call", "walk"} /\ s.at \notin Under
        BY <2>7 DEF Under
    <2>9. Len(s.hold) = Len(o.hold) /\ Len(o.hold) = (IF o.second THEN 2 ELSE 1) + (IF o.at = "change" THEN 1 ELSE 0)
        BY <1>2, <1>5, <2>4, <2>7 DEF HoldOK
    <2>10. HoldOK(s)
        <3>1. Len(s.drop) <= 3
            BY <2>5, <2>7
        <3>2. Len(s.hold) = (IF s.second THEN 2 ELSE 1) + (IF s.at = "change" THEN 1 ELSE 0)
            BY <1>5, <2>7, <2>8, <2>9
        <3> QED
            BY <2>7, <2>8, <3>1, <3>2 DEF HoldOK
    <2>11. ProcOK(s)
        BY <1>2, <1>5, <2>2, <2>7, <2>8, <2>10 DEF ProcOK
    <2>12. ASSUME NEW j \in Inos PROVE Count(s, j) = Count(o, j) + One(i = j)
        <3>1. Three(s.drop, j) = One(Last(o.hold) = j) /\ Three(o.drop, j) = 0
            <4>1. s.drop = <<Last(o.hold)>> /\ o.drop = <<>>
                BY <1>1, <2>7
            <4>2. Three(<<Last(o.hold)>>, j) = One(Last(o.hold) = j) /\ Three(<<>>, j) = 0
                BY ThreeNone, ThreeOne
            <4> QED
                BY <4>1, <4>2
        <3>2. Three(s.hold, j) = Three(o.hold, j) - One(Last(o.hold) = j) + One(i = j)
            BY <2>4, <2>7
        <3>3. /\ Three(o.hold, j) \in Int /\ One(Last(o.hold) = j) \in Int /\ One(i = j) \in Int
              /\ One(o.open = j) \in Int
            BY ThreeNat DEF One
        <3>4. \A a, b, c, d \in Int : (a - b + c) + b + d = (a + 0 + d) + c
            OBVIOUS
        <3> QED
            BY <2>7, <3>1, <3>2, <3>3, <3>4 DEF Count
    <2>13. s.claim = pr[p].claim /\ SelfOK(p, s) /\ \A j \in Inos : Count(s, j) = Count(pr[p], j) + One(i = j)
        BY <2>7, <2>8, <2>12 DEF SelfOK, o
    <2> QED
        BY <1>1, <1>2, <2>1, <2>7, <2>11, <2>13, StepLoad
<1>6. CASE o.at = "target"
    <2> DEFINE s == [o EXCEPT !.at = "change", !.hold = Append(@, i), !.ino = 0]
    <2>1. Set(p, s)
        BY <1>6 DEF Load, Stands
    <2>2. ASSUME NEW j
          PROVE  /\ Three(Append(o.hold, i), j) = Three(o.hold, j) + One(i = j)
                 /\ Append(o.hold, i) \in Seq(Inos) /\ Len(Append(o.hold, i)) = Len(o.hold) + 1
        BY <1>2, <1>3, <1>4, ThreeAppend
    <2>3. /\ s \in ProcType /\ s.at = "change" /\ s.call = o.call /\ s.hold = Append(o.hold, i) /\ s.ino = 0
          /\ s.second = o.second /\ s.drop = o.drop /\ s.claim = o.claim /\ s.open = o.open
        BY <1>2, <2>2 DEF ProcType, Ats
    <2> HIDE DEF s, o
    <2>4. Len(s.hold) = (IF s.second THEN 2 ELSE 1) + (IF s.at = "change" THEN 1 ELSE 0)
        <3>1. Len(o.hold) = (IF o.second THEN 2 ELSE 1) + 0
            BY <1>2, <1>6 DEF HoldOK
        <3>2. \A b, n : n = (IF b THEN 2 ELSE 1) + 0 => n + 1 = (IF b THEN 2 ELSE 1) + 1
            OBVIOUS
        <3>3. Len(s.hold) = Len(o.hold) + 1
            BY <2>2, <2>3
        <3>4. Len(o.hold) + 1 = (IF o.second THEN 2 ELSE 1) + 1
            BY <3>1, <3>2, Zenon
        <3> QED
            BY <2>3, <3>3, <3>4
    <2>5. HoldOK(s)
        BY <1>2, <2>3, <2>4 DEF HoldOK
    <2>6. ProcOK(s)
        BY <1>2, <1>6, <2>3, <2>5 DEF ProcOK, Under
    <2>7. ASSUME NEW j \in Inos PROVE Count(s, j) = Count(o, j) + One(i = j)
        <3>1. Three(s.hold, j) = Three(o.hold, j) + One(i = j) /\ Three(s.drop, j) = Three(o.drop, j)
            BY <2>2, <2>3
        <3>3. /\ Three(o.hold, j) \in Int /\ Three(o.drop, j) \in Int /\ One(i = j) \in Int
              /\ One(o.open = j) \in Int
            BY ThreeNat DEF One
        <3>4. \A a, b, c, d \in Int : (a + c) + b + d = (a + b + d) + c
            OBVIOUS
        <3> QED
            BY <2>3, <3>1, <3>3, <3>4 DEF Count
    <2>8. SelfOK(p, s)
        <3>1. /\ mutex = p /\ ent[o.hold[1]][Last(o.call.path)] = i
              /\ nd[o.hold[1]].type = "dir" /\ (o.second => nd[o.hold[2]].type = "dir")
            BY <1>6 DEF MutexInv, MutexOK, Aim, IsDir, Under, o
        <3>2. Aim(s) = i /\ s.hold[1] = o.hold[1] /\ (o.second => s.hold[2] = o.hold[2])
            <4> DEFINE h == o.hold
                       n == Len(h)
            <4>1. h \in Seq(Inos) /\ n \in {1, 2} /\ (o.second => n >= 2)
                BY <1>3
            <4> HIDE DEF h
            <4>2. \A k \in 1 .. n + 1 : Append(h, i)[k] = IF k <= n THEN h[k] ELSE i
                BY <4>1, <1>2, AppendProperties
            <4> HIDE DEF n
            <4>3. Append(h, i)[n + 1] = i /\ Append(h, i)[1] = h[1] /\ (o.second => Append(h, i)[2] = h[2])
                <5>1. \A m \in {1, 2} : /\ m + 1 \in 1 .. m + 1 /\ ~(m + 1 <= m) /\ 1 \in 1 .. m + 1 /\ 1 <= m
                                        /\ m >= 2 => 2 \in 1 .. m + 1 /\ 2 <= m
                    OBVIOUS
                <5>2. /\ n + 1 \in 1 .. n + 1 /\ ~(n + 1 <= n) /\ 1 \in 1 .. n + 1 /\ 1 <= n
                      /\ n >= 2 => 2 \in 1 .. n + 1 /\ 2 <= n
                    BY <4>1, <5>1, Zenon DEF n
                <5> QED
                    BY <4>1, <4>2, <5>2, Zenon DEF n
            <4>4. Aim(s) = s.hold[Len(s.hold)]
                BY <2>3 DEF Aim
            <4> QED
                BY <2>2, <2>3, <4>3, <4>4 DEF h, n
        <3>3. o.hold[1] \in Inos /\ (o.second => o.hold[2] \in Inos)
            BY <1>1, <1>2, InHand
        <3>4. \A j \in Inos : nd'[j].type = nd[j].type
            BY <1>1, <1>2 DEF Loaded, NodeType, SfsShape, NdTyped
        <3> QED
            BY <1>1, <2>3, <3>1, <3>2, <3>3, <3>4 DEF SelfOK
    <2>9. s.claim = pr[p].claim /\ \A j \in Inos : Count(s, j) = Count(pr[p], j) + One(i = j)
        BY <2>3, <2>7 DEF o
    <2> QED
        BY <1>1, <1>2, <2>1, <2>3, <2>6, <2>8, <2>9, StepLoad
<1> QED
    BY <1>1, <1>5, <1>6

(* A disk access that fails is counted, and nothing else is out of type.   *)
LEMMA Faulted ==
    ASSUME SfsShape
    PROVE  /\ faults \in 0 .. FAULTS
           /\ Fault => faults' \in 0 .. FAULTS /\ faults' # 0
           /\ scene' = scene /\ ent' \in [Inos -> [AllNames -> Inos \cup {0}]]
                /\ mutex' \in Procs \cup {None} /\ fs' \in Procs \cup {None} /\ faults' \in 0 .. FAULTS => RestTyped'
<1>1. faults \in 0 .. FAULTS /\ FAULTS \in Nat
    BY SfsAssumption DEF SfsShape, RestTyped
<1>2. Fault => faults' \in 0 .. FAULTS /\ faults' # 0
    BY <1>1 DEF Fault
<1> QED
    BY <1>1, <1>2 DEF SfsShape, RestTyped

(* LoadFails keeps the types, the counts and what mutex_sem protects.      *)
LEMMA LoadFailsSafe ==
    ASSUME SfsShape, SfsCounted, MutexInv, NEW p \in Procs, LoadFails(p)
    PROVE  SfsShape' /\ SfsCounted' /\ MutexInv'
<1> DEFINE o == pr[p]
           s == [Returned(o) EXCEPT !.drop = IF o.at = "load" THEN @ ELSE o.hold]
<1>1. /\ o.drop = <<>> /\ o.claim = 0 /\ Fault /\ Set(p, s) /\ mutex' = Unlocked(p)
      /\ UNCHANGED <<scene, ent, nd, fs>>
    BY DEF LoadFails, Stands
<1>2. o \in ProcType /\ HoldOK(o)
    BY Of
<1>3. s \in ProcType /\ ProcOK(s) /\ s.claim = 0 /\ s.at = "idle" /\ \A i : Count(s, i) = Count(o, i)
    <2>1. CASE o.at = "load"
        <3>1. s = Returned(o)
            <4>1. \A r, n : [[Idle EXCEPT !.drop = r, !.open = n] EXCEPT !.drop = r] = [Idle EXCEPT !.drop = r, !.open = n]
                BY DEF Idle
            <4>2. Returned(o).drop = Reverse(o.hold)
                BY DEF Returned, Idle
            <4>3. s = [Returned(o) EXCEPT !.drop = Returned(o).drop]
                BY <2>1
            <4> QED
                BY <4>1, <4>2, <4>3, Zenon DEF Returned
        <3> QED
            BY <1>1, <1>2, <3>1, ReturnedOK
    <2>2. CASE o.at # "load"
        <3>1. s = [Returned(o) EXCEPT !.drop = o.hold]
            BY <2>2
        <3> HIDE DEF s
        <3> QED
            BY <1>1, <1>2, <3>1, DroppedOK
    <2> QED
        BY <2>1, <2>2
<1> HIDE DEF s
<1>4. RestTyped'
    BY <1>1, Faulted DEF SfsShape, RestTyped, Unlocked
<1>5. \A q \in Procs \ {p} : pr[q].at \in Under => mutex' = mutex
    BY <1>1 DEF MutexInv, MutexOK, Unlocked
<1> QED
    BY <1>1, <1>3, <1>4, <1>5, StepAside, Still DEF SelfOK, Under

(* inode_ref_dec: the last reference leaves its token to the reclaim.      *)
LEMMA RefDecSafe ==
    ASSUME SfsShape, SfsCounted, MutexInv, NEW p \in Procs, RefDec(p)
    PROVE  SfsShape' /\ SfsCounted' /\ MutexInv'
<1> DEFINE o == pr[p]
           i == Head(o.drop)
           s == [o EXCEPT !.drop = Tail(@), !.claim = IF nd[i].ref = 1 THEN i ELSE 0]
<1>1. /\ o.claim = 0 /\ o.drop # <<>> /\ nd' = [nd EXCEPT ![i].ref = @ - 1] /\ Set(p, s)
      /\ UNCHANGED <<scene, ent, mutex, fs, faults>>
    BY DEF RefDec
<1>2. o \in ProcType /\ ProcOK(o) /\ HoldOK(o)
    BY Of
<1>3. o.drop \in Seq(Inos) /\ Len(o.drop) <= 3
    BY <1>2, HoldLen DEF ProcType
<1>4. /\ \A j : Three(Tail(o.drop), j) = Three(o.drop, j) - One(i = j)
      /\ Tail(o.drop) \in Seq(Inos) /\ Len(Tail(o.drop)) = Len(o.drop) - 1 /\ i \in Inos
      /\ i = o.drop[1] /\ Len(o.drop) \in 1 .. 3
    BY <1>1, <1>3, ThreeTail
<1>5. Count(o, i) # 0
    <2>1. 1 <= Len(o.drop) /\ 1 \in 1 .. 3
        BY <1>4
    <2> QED
        <3>1. \A k \in 1 .. 3 : k <= Len(o.drop) => o.drop[k] \in Inos /\ Count(o, o.drop[k]) # 0
            BY <1>2, HeldCount
        <3>2. o.drop[1] \in Inos /\ Count(o, o.drop[1]) # 0
            BY <2>1, <3>1, Zenon
        <3>3. i = o.drop[1]
            BY <1>4
        <3> QED
            BY <3>2, <3>3
<1>6. nd[i].ref >= 1 /\ nd[i].cached /\ nd[i] \in NodeType
    BY <1>4, <1>5, HeldLive
<1>7. /\ s \in ProcType /\ s.at = o.at /\ s.call = o.call /\ s.second = o.second /\ s.rest = o.rest
      /\ s.hold = o.hold /\ s.ino = o.ino /\ s.drop = Tail(o.drop) /\ s.open = o.open
      /\ s.claim = IF nd[i].ref = 1 THEN i ELSE 0
    BY <1>2, <1>4 DEF ProcType
<1>8. Len(s.drop) <= 3
    <2>1. \A n \in 1 .. 3 : n - 1 <= 3
        OBVIOUS
    <2>2. Len(o.drop) - 1 <= 3
        BY <1>4, <2>1, Zenon
    <2> QED
        BY <1>4, <1>7, <2>2
<1>23. i \in Inos
    BY <1>4
<1> HIDE DEF s, o, i
<1>9. HoldOK(s)
    BY <1>2, <1>7, <1>8 DEF HoldOK
<1>10. ProcOK(s)
    BY <1>2, <1>7, <1>9 DEF ProcOK
<1>11. ASSUME NEW j PROVE Count(s, j) = Count(o, j) - One(i = j)
    <2>1. Three(s.drop, j) = Three(o.drop, j) - One(i = j) /\ Three(s.hold, j) = Three(o.hold, j)
        BY <1>4, <1>7
    <2>2. /\ Three(o.hold, j) \in Int /\ Three(o.drop, j) \in Int /\ One(i = j) \in Int
          /\ One(o.open = j) \in Int
        BY ThreeNat DEF One
    <2>3. \A a, b, c, d \in Int : a + (b - c) + d = (a + b + d) - c
        OBVIOUS
    <2> QED
        BY <1>7, <2>1, <2>2, <2>3 DEF Count
<1>12. NdTyped /\ nd' = [nd EXCEPT ![i].ref = @ - 1]
    BY <1>1 DEF SfsShape
<1>13. NdTyped'
    BY <1>23, <1>6, <1>12 DEF NdTyped, NodeType
<1>14. \A j \in Inos : /\ nd'[j].ref = nd[j].ref - One(i = j) /\ nd'[j].type = nd[j].type
                       /\ nd'[j].cached = nd[j].cached /\ nd'[j].token = nd[j].token
    BY <1>23, <1>6, <1>12 DEF NdTyped, NodeType, One
<1>15. ASSUME NEW j \in Inos PROVE nd'[j].ref = nd[j].ref + Count(s, j) - Count(o, j)
    <2>1. Count(o, j) \in Int /\ One(i = j) \in Int
        BY DEF Count, Three, One
    <2>2. nd[j].ref \in Int
        BY <1>12 DEF NdTyped, NodeType
    <2>3. \A a, b, c \in Int : a - c = a + (b - c) - b
        OBVIOUS
    <2> QED
        BY <1>11, <1>14, <2>1, <2>2, <2>3
<1>16. TokenAfter(p, s, i)
    <2>1. nd[i].token >= Cardinality(Claims(i)) + 1 /\ Cardinality(Claims(i)) \in Nat
        BY <1>23, <1>6, ClaimsFinite DEF SfsCounted, TokenInv, TokenOK, One, NodeType
    <2>2. i # 0 /\ i \in Int
        BY <1>23, SfsAssumption DEF Inos
    <2>3. After(p, s, i) = Cardinality(Claims(i)) + One(s.claim = i)
        BY <1>1, <2>1, <2>2 DEF After, One, o
    <2>4. nd'[i].ref = nd[i].ref - 1 /\ nd'[i].cached /\ nd'[i].token = nd[i].token /\ nd[i].ref \in Int /\ nd[i].token \in Int
        BY <1>23, <1>6, <1>14 DEF One, NodeType
    <2>5. One(s.claim = i) + One(nd'[i].ref > 0) = 1
        BY <1>6, <1>7, <2>2, <2>4 DEF One
    <2>6. One(s.claim = i) \in Int /\ One(nd'[i].ref > 0) \in Int
        BY DEF One
    <2>7. \A c \in Nat : \A t, a, b \in Int : t >= c + 1 /\ a + b = 1 => t >= c + a + b
        OBVIOUS
    <2>8. nd[i].token >= Cardinality(Claims(i)) + One(s.claim = i) + One(nd'[i].ref > 0)
        BY <2>1, <2>4, <2>5, <2>6, <2>7
    <2> QED
        BY <2>3, <2>4, <2>8 DEF TokenAfter
<1>17. \A j \in Inos : TokenAfter(p, s, j)
    <2>1. ASSUME NEW j \in Inos, j # i PROVE TokenAfter(p, s, j)
        <3>1. nd'[j].ref = nd[j].ref /\ nd[j] \in NodeType /\ TokenOK(j) /\ Cardinality(Claims(j)) \in Nat
            BY <1>12, <1>14, <2>1, ClaimsFinite DEF One, NdTyped, NodeType, SfsCounted, TokenInv
        <3>2. j # 0
            BY SfsAssumption DEF Inos
        <3>3. After(p, s, j) = Cardinality(Claims(j))
            BY <1>1, <1>7, <2>1, <3>1, <3>2 DEF After, One, o
        <3> QED
            BY <1>14, <3>1, <3>3, FS_EmptySet DEF TokenAfter, TokenOK
    <2> QED
        BY <1>16, <2>1
<1>18. \A j \in Inos : nd'[j].type = "free" => ~nd'[j].cached
    BY <1>14 DEF SfsCounted, FreeInv
<1>19. \A q \in Procs \ {p} : Undisturbed(q)
    BY <1>1, <1>14 DEF Undisturbed
<1>20. SelfOK(p, s)
    <2>1. ASSUME s.at \in Under
          PROVE  /\ mutex' = p /\ ent'[s.hold[1]][Last(s.call.path)] = Aim(s)
                 /\ nd'[s.hold[1]].type = "dir" /\ (s.second => nd'[s.hold[2]].type = "dir")
        <3>1. /\ mutex = p /\ ent[o.hold[1]][Last(o.call.path)] = Aim(o)
              /\ nd[o.hold[1]].type = "dir" /\ (o.second => nd[o.hold[2]].type = "dir")
            BY <1>7, <2>1 DEF MutexInv, MutexOK, IsDir, o
        <3>2. o.hold[1] \in Inos /\ (o.second => o.hold[2] \in Inos)
            BY <1>2, <1>7, <2>1, InHand DEF Under
        <3>3. Aim(s) = Aim(o)
            BY <1>7 DEF Aim
        <3> QED
            BY <1>1, <1>7, <1>14, <3>1, <3>2, <3>3
    <2> QED
        BY <2>1 DEF SelfOK
<1>21. RestTyped' /\ Set(p, s)
    BY <1>1 DEF SfsShape, RestTyped
<1>22. \A j \in Inos : nd'[j].ref = nd[j].ref + Count(s, j) - Count(pr[p], j)
    BY <1>15 DEF o
<1> QED
    BY <1>7, <1>10, <1>13, <1>17, <1>18, <1>19, <1>20, <1>21, <1>22, Step

-----------------------------------------------------------------------------
(* sfs_reclaim                                                             *)
LEMMA ClaimHeld ==
    ASSUME SfsShape, SfsCounted, NEW p \in Procs, pr[p].claim # 0
    PROVE  LET i == pr[p].claim
           IN  /\ i \in Inos /\ nd[i] \in NodeType /\ nd[i].cached /\ nd[i].ref >= 0 /\ nd[i].type # "free"
               /\ Cardinality(Claims(i)) \in Nat /\ Cardinality(Claims(i)) >= 1
               /\ nd[i].token >= Cardinality(Claims(i)) + One(nd[i].ref > 0)
<1> DEFINE i == pr[p].claim
<1>1. i \in Inos
    BY DEF SfsShape, PrTyped, ProcType
<1> HIDE DEF i
<1>2. p \in Claims(i)
    BY DEF Claims, i
<1>3. Cardinality(Claims(i)) \in Nat /\ IsFiniteSet(Claims(i))
    BY ClaimsFinite
<1>4. Cardinality(Claims(i)) # 0
    BY <1>2, <1>3, FS_EmptySet
<1>5. nd[i].cached /\ nd[i].token >= Cardinality(Claims(i)) + One(nd[i].ref > 0)
    BY <1>1, <1>2 DEF SfsCounted, TokenInv, TokenOK
<1>6. nd[i].ref = Cardinality(Refs(i)) + One(i = ROOT) /\ Cardinality(Refs(i)) \in Nat
    BY <1>1, RefsFinite DEF SfsCounted, RefInv, Refs
<1>7. nd[i].ref >= 0
    BY <1>6 DEF One
<1>8. nd[i] \in NodeType /\ nd[i].type # "free"
    BY <1>1, <1>5 DEF SfsShape, NdTyped, SfsCounted, FreeInv
<1>9. Cardinality(Claims(i)) >= 1
    BY <1>3, <1>4
<1> QED
    BY <1>1, <1>3, <1>5, <1>7, <1>8, <1>9 DEF i

(* A step that ends a claim on an inode keeps the counts when the tokens   *)
(* still cover the other claims, or when the inode goes and there is no    *)
(* other.                                                                  *)
LEMMA StepClaim ==
    ASSUME SfsShape, SfsCounted, MutexInv, NEW p \in Procs, NEW i \in Inos, i = pr[p].claim,
           Set(p, [pr[p] EXCEPT !.claim = 0]), NdTyped', RestTyped', mutex' = mutex,
           \A j \in Inos : nd'[j].ref = nd[j].ref,
           \A j \in Inos : j # i => /\ nd'[j].type = nd[j].type /\ nd'[j].cached = nd[j].cached
                                    /\ nd'[j].token = nd[j].token,
           nd'[i].type = "free" => ~nd'[i].cached,
           IF nd'[i].cached THEN nd'[i].token >= Cardinality(Claims(i)) - 1 + One(nd[i].ref > 0)
           ELSE nd[i].ref = 0 /\ Cardinality(Claims(i)) = 1,
           \A j \in Inos : nd[j].ref >= 1 => ent'[j] = ent[j] /\ nd'[j].type = nd[j].type
    PROVE  SfsShape' /\ SfsCounted' /\ MutexInv'
<1> DEFINE o == pr[p]
           s == [o EXCEPT !.claim = 0]
<1>1. o \in ProcType /\ ProcOK(o) /\ HoldOK(o)
    BY Of
<1>2. /\ s \in ProcType /\ s.at = o.at /\ s.call = o.call /\ s.second = o.second /\ s.rest = o.rest
      /\ s.hold = o.hold /\ s.ino = o.ino /\ s.drop = o.drop /\ s.open = o.open /\ s.claim = 0
    BY <1>1 DEF ProcType
<1>3. i # 0 /\ Set(p, s)
    BY SfsAssumption DEF Inos
<1> HIDE DEF s
<1>4. HoldOK(s)
    BY <1>1, <1>2 DEF HoldOK
<1>5. ProcOK(s)
    BY <1>1, <1>2, <1>4 DEF ProcOK
<1>6. \A j : Count(s, j) = Count(o, j)
    BY <1>2 DEF Count
<1>7. ASSUME NEW j \in Inos PROVE nd'[j].ref = nd[j].ref + Count(s, j) - Count(o, j)
    <2>1. Count(o, j) \in Nat
        BY DEF Count, Three, One
    <2>2. nd[j].ref \in Int
        BY DEF SfsShape, NdTyped, NodeType
    <2>3. \A a, b \in Int : a = a + b - b
        OBVIOUS
    <2> QED
        BY <1>6, <2>1, <2>2, <2>3
<1>8. \A j : Cardinality(Claims(j)) \in Nat
    BY ClaimsFinite
<1>9. \A j \in Inos : After(p, s, j) = Cardinality(Claims(j)) - One(i = j)
    <2>1. \A j \in Inos : j # 0
        BY SfsAssumption DEF Inos
    <2> QED
        BY <1>2, <1>8, <2>1 DEF After, One
<1>10. TokenAfter(p, s, i)
    <2>1. After(p, s, i) = Cardinality(Claims(i)) - 1
        BY <1>9 DEF One
    <2>2. nd'[i].ref = nd[i].ref
        OBVIOUS
    <2> QED
        BY <1>8, <2>1, <2>2 DEF TokenAfter
<1>11. ASSUME NEW j \in Inos, j # i PROVE TokenAfter(p, s, j)
    <2>1. After(p, s, j) = Cardinality(Claims(j))
        BY <1>8, <1>9, <1>11 DEF One
    <2>2. TokenOK(j)
        BY DEF SfsCounted, TokenInv
    <2> QED
        BY <1>11, <2>1, <2>2, FS_EmptySet DEF TokenAfter, TokenOK
<1>12. \A j \in Inos : nd'[j].type = "free" => ~nd'[j].cached
    BY DEF SfsCounted, FreeInv
<1>13. ASSUME NEW q \in Procs, NEW j \in Inos, Count(pr[q], j) # 0
       PROVE  ent'[j] = ent[j] /\ nd'[j].type = nd[j].type
    <2>1. nd[j].ref >= 1
        BY <1>13, HeldLive
    <2> QED
        BY <2>1
<1>14. \A q \in Procs \ {p} : Undisturbed(q)
    BY <1>13 DEF Undisturbed
<1>15. SelfOK(p, s)
    <2>1. ASSUME s.at \in Under
          PROVE  /\ mutex' = p /\ ent'[s.hold[1]][Last(s.call.path)] = Aim(s)
                 /\ nd'[s.hold[1]].type = "dir" /\ (s.second => nd'[s.hold[2]].type = "dir")
        <3>1. /\ mutex = p /\ ent[o.hold[1]][Last(o.call.path)] = Aim(o)
              /\ nd[o.hold[1]].type = "dir" /\ (o.second => nd[o.hold[2]].type = "dir")
            BY <1>2, <2>1 DEF MutexInv, MutexOK, IsDir
        <3>2. /\ o.hold[1] \in Inos /\ Count(o, o.hold[1]) # 0
              /\ (o.second => o.hold[2] \in Inos /\ Count(o, o.hold[2]) # 0)
            BY <1>1, <1>2, <2>1, InHand DEF Under
        <3>3. Aim(s) = Aim(o)
            BY <1>2, SMTT(60) DEF Aim
        <3> QED
            BY <1>2, <1>13, <3>1, <3>2, <3>3
    <2> QED
        BY <2>1 DEF SelfOK
<1> QED
    BY <1>2, <1>3, <1>5, <1>7, <1>10, <1>11, <1>12, <1>14, <1>15, Step

(* ReclaimBusy keeps the types, the counts and what mutex_sem protects.    *)
LEMMA ReclaimBusySafe ==
    ASSUME SfsShape, SfsCounted, MutexInv, NEW p \in Procs, ReclaimBusy(p)
    PROVE  SfsShape' /\ SfsCounted' /\ MutexInv'
<1> DEFINE i == pr[p].claim
<1>1. /\ i # 0 /\ Busy(i) /\ nd' = [nd EXCEPT ![i].token = IF nd[i].ref = 0 THEN @ - 1 ELSE @]
      /\ Set(p, [pr[p] EXCEPT !.claim = 0]) /\ UNCHANGED <<scene, ent, mutex, fs, faults>>
    BY DEF ReclaimBusy
<1>2. /\ i \in Inos /\ nd[i] \in NodeType /\ nd[i].cached /\ nd[i].ref >= 0 /\ nd[i].type # "free"
      /\ Cardinality(Claims(i)) \in Nat /\ Cardinality(Claims(i)) >= 1
      /\ nd[i].token >= Cardinality(Claims(i)) + One(nd[i].ref > 0)
    BY <1>1, ClaimHeld
<1> DEFINE k == IF nd[i].ref = 0 THEN nd[i].token - 1 ELSE nd[i].token
<1>3. k \in 0 .. TOKENS /\ k >= Cardinality(Claims(i)) - 1 + One(nd[i].ref > 0)
    BY <1>2, SfsAssumption DEF NodeType, One
<1>4. nd' = [nd EXCEPT ![i].token = k] /\ NdTyped
    BY <1>1 DEF SfsShape
<1>5. i = pr[p].claim
    OBVIOUS
<1> HIDE DEF i, k
<1>6. NdTyped'
    BY <1>2, <1>3, <1>4 DEF NdTyped, NodeType
<1>7. /\ \A j \in Inos : nd'[j].ref = nd[j].ref /\ nd'[j].type = nd[j].type /\ nd'[j].cached = nd[j].cached
      /\ \A j \in Inos : j # i => nd'[j].token = nd[j].token
      /\ nd'[i].token = k
    BY <1>2, <1>4 DEF NdTyped, NodeType
<1>8. RestTyped'
    BY <1>1 DEF SfsShape, RestTyped
<1> QED
    BY <1>1, <1>2, <1>3, <1>5, <1>6, <1>7, <1>8, StepClaim

-----------------------------------------------------------------------------
(* Calls that change nothing but themselves.                               *)
LEMMA ReturnSafe ==
    ASSUME SfsShape, SfsCounted, MutexInv, NEW p \in Procs, NEW s, Set(p, s), pr[p].drop = <<>>, pr[p].claim = 0,
           s = Returned(pr[p]) \/ s = [Returned(pr[p]) EXCEPT !.drop = pr[p].hold],
           UNCHANGED <<scene, ent, nd, fs>>, faults' = faults \/ Fault,
           mutex' = mutex \/ (mutex = p /\ mutex' = None)
    PROVE  SfsShape' /\ SfsCounted' /\ MutexInv'
<1>1. pr[p] \in ProcType /\ HoldOK(pr[p])
    BY Of
<1>2. /\ s \in ProcType /\ ProcOK(s) /\ s.claim = pr[p].claim /\ s.at \notin Under
      /\ \A i : Count(s, i) = Count(pr[p], i)
    <2>1. CASE s = Returned(pr[p])
        BY <1>1, <2>1, ReturnedOK DEF Under
    <2>2. CASE s = [Returned(pr[p]) EXCEPT !.drop = pr[p].hold]
        BY <1>1, <2>2, DroppedOK DEF Under
    <2> QED
        BY <2>1, <2>2
<1>3. RestTyped'
    BY Faulted DEF SfsShape, RestTyped
<1>4. \A q \in Procs \ {p} : pr[q].at \in Under => mutex' = mutex
    BY DEF MutexInv, MutexOK
<1> QED
    BY <1>2, <1>3, <1>4, StepAside, Still DEF SelfOK

(* Open keeps the types, the counts and what mutex_sem protects.           *)
LEMMA OpenSafe ==
    ASSUME SfsShape, SfsCounted, MutexInv, NEW p \in Procs, Open(p)
    PROVE  SfsShape' /\ SfsCounted' /\ MutexInv'
<1> DEFINE o == pr[p]
           i == Last(o.hold)
           s == [Idle EXCEPT !.open = i]
<1>1. /\ o.at = "call" /\ o.drop = <<>> /\ o.claim = 0 /\ o.call.op \in Creators \cup {"open"}
      /\ Set(p, s) \/ Set(p, Returned(o))
      /\ UNCHANGED <<scene, ent, nd, mutex, fs, faults>>
    BY DEF Open, Stands, Op, Return
<1>2. o \in ProcType /\ ProcOK(o) /\ HoldOK(o)
    BY Of
<1>3. CASE Set(p, Returned(o))
    BY <1>1, <1>3, ReturnSafe
<1>4. CASE Set(p, s)
    <2>1. ~o.second /\ o.open = 0
        BY <1>1, <1>2 DEF ProcOK, Creators
    <2>2. Len(o.hold) = 1 /\ i \in Inos /\ o.hold \in Seq(Inos) /\ o.hold # <<>>
        BY <1>1, <1>2, <2>1, InHand
    <2>3. i = o.hold[1]
        BY <2>2, FrontProps
    <2>4. /\ s \in ProcType /\ s.at = "idle" /\ ~s.second /\ s.hold = <<>> /\ s.drop = <<>> /\ s.ino = 0
          /\ s.claim = 0 /\ s.open = i
        <3>1. Idle \in ProcType
            BY IdleOK
        <3>2. s \in ProcType
            BY <2>2, <3>1 DEF ProcType
        <3> QED
            BY <3>2 DEF Idle
    <2> HIDE DEF s
    <2>5. ProcOK(s)
        BY <2>4 DEF ProcOK, HoldOK, Under
    <2>6. ASSUME NEW j \in Inos PROVE Count(s, j) = Count(o, j)
        <3>1. Three(s.hold, j) = 0 /\ Three(s.drop, j) = 0 /\ Three(o.drop, j) = 0
            BY <1>1, <2>4, ThreeNone
        <3>2. Three(o.hold, j) = One(i = j)
            <4> DEFINE h == o.hold
            <4>1. Len(h) = 1 /\ h[1] = i
                BY <2>2, <2>3
            <4> HIDE DEF h
            <4>2. Three(h, j) = One(i = j)
                BY <4>1 DEF Three, One
            <4> QED
                BY <4>2 DEF h
        <3>3. One(o.open = j) = 0 /\ One(i = j) \in Int /\ One(s.open = j) = One(i = j)
            BY <2>1, <2>4, SfsAssumption DEF One, Inos
        <3>4. \A a \in Int : 0 + 0 + a = a + 0 + 0
            OBVIOUS
        <3> QED
            BY <3>1, <3>2, <3>3, <3>4 DEF Count
    <2>7. RestTyped' /\ s.claim = pr[p].claim /\ s.at \notin Under
        BY <1>1, <2>4 DEF SfsShape, RestTyped, Under
    <2> QED
        BY <1>1, <1>4, <2>4, <2>5, <2>6, <2>7, StepAside, Still DEF SelfOK
<1> QED
    BY <1>1, <1>3, <1>4

(* The fields of an inode whose nlinks is written to the disk.             *)
LEMMA NodeSynced ==
    ASSUME NEW x \in NodeType, NEW k \in Nat, NEW b \in BOOLEAN
    PROVE  LET y == [x EXCEPT !.disk = k, !.dirty = b]
           IN  /\ y \in NodeType /\ y.ref = x.ref /\ y.token = x.token /\ y.cached = x.cached
               /\ y.type = x.type /\ y.links = x.links /\ y.lost = x.lost /\ y.disk = k /\ y.dirty = b
BY DEF NodeType

(* What sfs_fsync does to an inode, written or not.                        *)
LEMMA SyncedOK ==
    ASSUME SfsShape, NEW i \in Inos, NEW ok \in BOOLEAN
    PROVE  LET y == Synced(i, ok)
           IN  /\ y \in NodeType /\ y.ref = nd[i].ref /\ y.token = nd[i].token /\ y.cached = nd[i].cached
               /\ y.type = nd[i].type /\ y.links = nd[i].links /\ y.lost = nd[i].lost
               /\ ok => ~y.dirty /\ y.disk = Flushed(i)
               /\ ~ok => y = nd[i]
<1>1. nd[i] \in NodeType /\ FALSE \in BOOLEAN
    BY DEF SfsShape, NdTyped
<1>2. Flushed(i) \in Nat
    BY <1>1 DEF Flushed, NodeType
<1> DEFINE y == [nd[i] EXCEPT !.disk = Flushed(i), !.dirty = FALSE]
<1>3. /\ y \in NodeType /\ y.ref = nd[i].ref /\ y.token = nd[i].token /\ y.cached = nd[i].cached
      /\ y.type = nd[i].type /\ y.links = nd[i].links /\ y.lost = nd[i].lost
      /\ y.disk = Flushed(i) /\ y.dirty = FALSE
    BY <1>1, <1>2, NodeSynced, ZenonT(60)
<1>4. Synced(i, ok) = IF ok THEN y ELSE nd[i]
    BY DEF Synced
<1> HIDE DEF y
<1> QED
    BY <1>1, <1>3, <1>4

(* VfsClose keeps the types, the counts and what mutex_sem protects.       *)
LEMMA VfsCloseSafe ==
    ASSUME SfsShape, SfsCounted, MutexInv, NEW p \in Procs, NEW ok \in BOOLEAN, VfsClose(p, ok)
    PROVE  SfsShape' /\ SfsCounted' /\ MutexInv'
<1> DEFINE o == pr[p]
           i == o.open
           s == [Idle EXCEPT !.drop = <<i>>]
<1>1. /\ o.at = "idle" /\ o.drop = <<>> /\ o.claim = 0 /\ i # 0 /\ Set(p, s)
      /\ nd' = [nd EXCEPT ![i] = Synced(i, ok)] \/ nd' = nd
      /\ faults' = faults \/ Fault
      /\ UNCHANGED <<scene, ent, mutex, fs>>
    BY DEF VfsClose, Stands
<1>2. o \in ProcType /\ ProcOK(o) /\ HoldOK(o) /\ i \in Inos
    BY <1>1, Of DEF ProcType
<1>3. NdTyped' /\ \A j \in Inos : Alike(j)
    <2>1. CASE nd' = nd
        BY <2>1, Still
    <2>2. CASE nd' = [nd EXCEPT ![i] = Synced(i, ok)]
        <3> DEFINE y == Synced(i, ok)
        <3>1. /\ y \in NodeType /\ y.ref = nd[i].ref /\ y.token = nd[i].token /\ y.cached = nd[i].cached
              /\ y.type = nd[i].type
            BY <1>2, SyncedOK
        <3>2. NdTyped /\ nd' = [nd EXCEPT ![i] = y]
            BY <2>2 DEF SfsShape
        <3> HIDE DEF y, i
        <3>3. NdTyped'
            BY <1>2, <3>1, <3>2 DEF NdTyped
        <3>4. nd'[i] = y /\ \A j \in Inos : j # i => nd'[j] = nd[j]
            BY <1>2, <3>2 DEF NdTyped
        <3> QED
            BY <3>1, <3>3, <3>4 DEF Alike
    <2> QED
        BY <1>1, <2>1, <2>2
<1>4. o.hold = <<>>
    BY <1>1, <1>2 DEF HoldOK
<1>5. <<i>> \in Seq(Inos) /\ Len(<<i>>) <= 3
    BY <1>2
<1>6. /\ s \in ProcType /\ s.at = "idle" /\ ~s.second /\ s.hold = <<>> /\ s.drop = <<i>> /\ s.ino = 0
      /\ s.claim = 0 /\ s.open = 0
    <2>1. Idle \in ProcType
        BY IdleOK
    <2>2. s \in ProcType
        BY <1>5, <2>1 DEF ProcType
    <2> QED
        BY <2>2 DEF Idle
<1> HIDE DEF s
<1>7. ProcOK(s)
    BY <1>5, <1>6 DEF ProcOK, HoldOK, Under
<1>8. ASSUME NEW j \in Inos PROVE Count(s, j) = Count(o, j)
    <2>1. Three(s.hold, j) = 0 /\ Three(o.hold, j) = 0 /\ Three(o.drop, j) = 0
        BY <1>1, <1>4, <1>6, ThreeNone
    <2>2. Three(<<i>>, j) = One(i = j)
        BY ThreeOne, Zenon
    <2>3. Three(s.drop, j) = One(i = j)
        BY <1>6, <2>2
    <2>4. One(s.open = j) = 0 /\ One(i = j) \in Int /\ One(o.open = j) = One(i = j)
        BY <1>6, SfsAssumption DEF One, Inos
    <2>5. \A a \in Int : 0 + a + 0 = 0 + 0 + a
        OBVIOUS
    <2> QED
        BY <2>1, <2>3, <2>4, <2>5 DEF Count
<1>9. RestTyped' /\ s.claim = pr[p].claim /\ s.at \notin Under
    BY <1>1, <1>6, Faulted DEF SfsShape, RestTyped, Under
<1> QED
    BY <1>1, <1>3, <1>6, <1>7, <1>8, <1>9, StepAside DEF SelfOK

(* Sync keeps the types, the counts and what mutex_sem protects.           *)
LEMMA SyncSafe ==
    ASSUME SfsShape, SfsCounted, MutexInv, Sync
    PROVE  SfsShape' /\ SfsCounted' /\ MutexInv' /\ \A i \in Inos : Alike(i)
<1>1. /\ nd' = [i \in Inos |-> IF nd[i].cached THEN Synced(i, TRUE) ELSE nd[i]]
      /\ UNCHANGED <<scene, ent, mutex, fs, pr, faults>>
    BY DEF Sync
<1>2. ASSUME NEW i \in Inos PROVE nd'[i] \in NodeType /\ Alike(i)
    <2> DEFINE y == Synced(i, TRUE)
    <2>1. /\ y \in NodeType /\ y.ref = nd[i].ref /\ y.token = nd[i].token /\ y.cached = nd[i].cached
          /\ y.type = nd[i].type
        BY SyncedOK
    <2>2. nd'[i] = IF nd[i].cached THEN y ELSE nd[i]
        BY <1>1
    <2>3. nd[i] \in NodeType
        BY DEF SfsShape, NdTyped
    <2> HIDE DEF y
    <2> QED
        BY <2>1, <2>2, <2>3 DEF Alike
<1>3. NdTyped'
    <2>1. nd' = [i \in Inos |-> nd'[i]]
        BY <1>1
    <2> QED
        BY <1>2, <2>1 DEF NdTyped
<1>4. PrTyped' /\ ProcInv' /\ RestTyped'
    BY <1>1 DEF SfsShape, PrTyped, ProcInv, RestTyped
<1>5. RefInv'
    BY <1>1, <1>2 DEF SfsCounted, RefInv, Refs, Alike
<1>6. TokenInv'
    <2>1. \A i : Claims(i)' = Claims(i)
        BY <1>1 DEF Claims
    <2> QED
        BY <1>2, <2>1 DEF SfsCounted, TokenInv, TokenOK, Alike
<1>7. FreeInv'
    BY <1>2 DEF SfsCounted, FreeInv, Alike
<1>8. MutexInv'
    <2> SUFFICES ASSUME NEW q \in Procs, pr[q].at \in Under
                 PROVE  /\ mutex' = q
                        /\ ent'[pr[q].hold[1]][Last(pr[q].call.path)] = Aim(pr[q])
                        /\ nd'[pr[q].hold[1]].type = "dir"
                        /\ pr[q].second => nd'[pr[q].hold[2]].type = "dir"
        BY <1>1 DEF MutexInv, MutexOK, IsDir
    <2>1. /\ mutex = q /\ ent[pr[q].hold[1]][Last(pr[q].call.path)] = Aim(pr[q])
          /\ nd[pr[q].hold[1]].type = "dir" /\ (pr[q].second => nd[pr[q].hold[2]].type = "dir")
        BY DEF MutexInv, MutexOK, IsDir
    <2>2. pr[q].hold[1] \in Inos /\ (pr[q].second => pr[q].hold[2] \in Inos)
        BY Of, InHand DEF Under
    <2> QED
        BY <1>1, <1>2, <2>1, <2>2 DEF Alike
<1> QED
    BY <1>2, <1>3, <1>4, <1>5, <1>6, <1>7, <1>8 DEF SfsShape, SfsCounted

(* Refused keeps the types, the counts and what mutex_sem protects.        *)
LEMMA RefusedSafe ==
    ASSUME SfsShape, SfsCounted, MutexInv, NEW p \in Procs, Refused(p)
    PROVE  SfsShape' /\ SfsCounted' /\ MutexInv'
BY ReturnSafe DEF Refused, May, Stands, Return

(* UnlinkRefused keeps the types, the counts and what mutex_sem protects.  *)
LEMMA UnlinkRefusedSafe ==
    ASSUME SfsShape, SfsCounted, MutexInv, NEW p \in Procs, UnlinkRefused(p)
    PROVE  SfsShape' /\ SfsCounted' /\ MutexInv'
<1>1. /\ pr[p].at = "change" /\ pr[p].drop = <<>> /\ pr[p].claim = 0 /\ Set(p, Returned(pr[p]))
      /\ UNCHANGED <<scene, ent, nd, fs>> /\ mutex' = None /\ (faults' = faults \/ Fault)
    BY DEF UnlinkRefused, Stands, Return, Unlock
<1>2. mutex = p
    BY <1>1 DEF MutexInv, MutexOK, Under
<1> QED
    BY <1>1, <1>2, ReturnSafe

(* A rename, done or refused, gives its target back first.                 *)
LEMMA RenamedOK ==
    ASSUME SfsShape, NEW p \in Procs, pr[p].at = "change", pr[p].drop = <<>>, pr[p].call.op = "rename"
    PROVE  LET o == pr[p]
               s == [Returned(o) EXCEPT !.drop = <<o.hold[3], o.hold[1], o.hold[2]>>]
           IN  /\ s \in ProcType /\ ProcOK(s) /\ s.claim = 0 /\ s.at = "idle"
               /\ \A i : Count(s, i) = Count(o, i)
               /\ o.hold[1] \in Inos /\ Count(o, o.hold[1]) # 0 /\ o.hold[2] \in Inos /\ Count(o, o.hold[2]) # 0
               /\ o.hold[3] \in Inos /\ Count(o, o.hold[3]) # 0 /\ o.second /\ Len(o.hold) = 3
<1> DEFINE o == pr[p]
           h == o.hold
           q == <<h[3], h[1], h[2]>>
<1>1. o \in ProcType /\ ProcOK(o) /\ HoldOK(o)
    BY Of
<1>2. o.second
    BY <1>1 DEF ProcOK, Under
<1>3. /\ h \in Seq(Inos) /\ h[1] \in Inos /\ Count(o, h[1]) # 0 /\ h[2] \in Inos /\ Count(o, h[2]) # 0
      /\ h[3] \in Inos /\ Count(o, h[3]) # 0
    BY <1>1, <1>2, InHand
<1>4. Len(h) = 3
    BY <1>1, <1>2 DEF HoldOK
<1>5. q \in Seq(Inos) /\ Len(q) <= 3
    BY <1>3
<1>6. ASSUME NEW i PROVE Three(q, i) = Three(h, i)
    <2>1. Three(q, i) = One(h[3] = i) + One(h[1] = i) + One(h[2] = i)
        BY ThreeAll
    <2> HIDE DEF h, q
    <2>2. Three(h, i) = One(h[1] = i) + One(h[2] = i) + One(h[3] = i)
        BY <1>4 DEF Three, One
    <2>3. One(h[1] = i) \in Int /\ One(h[2] = i) \in Int /\ One(h[3] = i) \in Int
        BY DEF One
    <2>4. \A a, b, c \in Int : c + a + b = a + b + c
        OBVIOUS
    <2> QED
        BY <2>1, <2>2, <2>3, <2>4
<1> DEFINE s == [Returned(o) EXCEPT !.drop = q]
<1> HIDE DEF q
<1>7. /\ s \in ProcType /\ ProcOK(s) /\ s.claim = 0 /\ s.at = "idle"
      /\ \A i : Three(q, i) = Three(o.hold, i) => Count(s, i) = Count(o, i)
    BY <1>1, <1>5, Gives
<1> HIDE DEF s
<1>8. \A i : Count(s, i) = Count(o, i)
    BY <1>6, <1>7
<1> QED
    BY <1>2, <1>3, <1>4, <1>7, <1>8 DEF s, q

(* RenameRefused keeps the types, the counts and what mutex_sem protects.  *)
LEMMA RenameRefusedSafe ==
    ASSUME SfsShape, SfsCounted, MutexInv, NEW p \in Procs, RenameRefused(p)
    PROVE  SfsShape' /\ SfsCounted' /\ MutexInv'
<1> DEFINE o == pr[p]
           s == [Returned(o) EXCEPT !.drop = <<o.hold[3], o.hold[1], o.hold[2]>>]
<1>1. /\ o.at = "change" /\ o.drop = <<>> /\ o.claim = 0 /\ o.call.op = "rename" /\ Set(p, s)
      /\ UNCHANGED <<scene, ent, nd, fs>> /\ mutex' = None /\ (faults' = faults \/ Fault)
    BY DEF RenameRefused, Stands, Unlock, Op
<1>2. s \in ProcType /\ ProcOK(s) /\ s.claim = pr[p].claim /\ s.at \notin Under /\ \A i : Count(s, i) = Count(o, i)
    BY <1>1, RenamedOK DEF Under
<1> HIDE DEF s
<1>3. RestTyped'
    BY <1>1, Faulted DEF SfsShape, RestTyped
<1>4. \A q \in Procs \ {p} : pr[q].at \in Under => mutex' = mutex
    BY <1>1 DEF MutexInv, MutexOK, Under
<1> QED
    BY <1>1, <1>2, <1>3, <1>4, StepAside, Still DEF SelfOK

(* A call that stops for ever keeps its references and gives up no more    *)
(* than mutex_sem.                                                         *)
LEMMA StuckSafe ==
    ASSUME SfsShape, SfsCounted, MutexInv, NEW p \in Procs, Stuck(p), pr[p].at \in {"call", "change"},
           UNCHANGED <<scene, ent, nd, faults>>, mutex \in {p, None}
    PROVE  SfsShape' /\ SfsCounted' /\ MutexInv'
<1> DEFINE o == pr[p]
           s == [o EXCEPT !.at = "stuck"]
<1>1. mutex' = p /\ fs' = p /\ Set(p, s)
    BY DEF Stuck
<1>2. o \in ProcType /\ ProcOK(o) /\ HoldOK(o)
    BY Of
<1>3. /\ s \in ProcType /\ s.at = "stuck" /\ s.call = o.call /\ s.second = o.second /\ s.rest = o.rest
      /\ s.hold = o.hold /\ s.ino = o.ino /\ s.drop = o.drop /\ s.claim = o.claim /\ s.open = o.open
    BY <1>2 DEF ProcType, Ats
<1> HIDE DEF s
<1>4. Len(o.hold) \in 1 .. 3
    <2>1. Len(o.hold) \in {1, 2, 3}
        BY <1>2, HoldLen
    <2>2. {1, 2, 3} = 1 .. 3
        OBVIOUS
    <2> QED
        BY <2>1, <2>2
<1>5. HoldOK(s)
    BY <1>2, <1>3, <1>4 DEF HoldOK
<1>6. ProcOK(s)
    BY <1>2, <1>3, <1>5 DEF ProcOK, Under
<1>7. \A i : Count(s, i) = Count(o, i)
    BY <1>3 DEF Count
<1>8. RestTyped' /\ s.claim = pr[p].claim /\ s.at \notin Under
    BY <1>1, <1>3 DEF SfsShape, RestTyped, Under
<1>9. \A q \in Procs \ {p} : pr[q].at \in Under => mutex' = mutex
    BY SfsAssumption DEF MutexInv, MutexOK
<1> QED
    BY <1>1, <1>3, <1>6, <1>7, <1>8, <1>9, StepAside, Still DEF SelfOK

(* RenameStuck keeps the types, the counts and what mutex_sem protects.    *)
LEMMA RenameStuckSafe ==
    ASSUME SfsShape, SfsCounted, MutexInv, NEW p \in Procs, RenameStuck(p)
    PROVE  SfsShape' /\ SfsCounted' /\ MutexInv'
<1>1. pr[p].at = "change" /\ Stuck(p) /\ UNCHANGED <<scene, ent, nd, faults>>
    BY DEF RenameStuck, Stands
<1>2. mutex = p
    BY <1>1 DEF MutexInv, MutexOK, Under
<1> QED
    BY <1>1, <1>2, StuckSafe

(* Find keeps the types, the counts and what mutex_sem protects.           *)
LEMMA FindSafe ==
    ASSUME SfsShape, SfsCounted, MutexInv, NEW p \in Procs, Find(p)
    PROVE  SfsShape' /\ SfsCounted' /\ MutexInv'
<1> DEFINE o == pr[p]
           n == Last(o.call.path)
           i == ent[o.hold[1]][n]
           s == [o EXCEPT !.at = "target", !.ino = i]
<1>1. /\ o.at = "call" /\ o.drop = <<>> /\ o.claim = 0 /\ mutex = None
      /\ o.call.op \in Removers \/ (o.call.op = "rename" /\ o.second)
      /\ UNCHANGED <<scene, ent, nd, fs>>
      /\ \/ /\ \A d \in Range(o.hold) : IsDir(d)
            /\ i # 0 /\ mutex' = p /\ Set(p, s) /\ UNCHANGED faults
         \/ /\ Set(p, [Returned(o) EXCEPT !.drop = o.hold])
            /\ UNCHANGED mutex /\ (faults' = faults \/ Fault)
    BY DEF Find, Stands, Op, Dir, Name
<1>2. o \in ProcType /\ ProcOK(o) /\ HoldOK(o)
    BY Of
<1>3. CASE Set(p, [Returned(o) EXCEPT !.drop = o.hold]) /\ UNCHANGED mutex /\ (faults' = faults \/ Fault)
    BY <1>1, <1>3, ReturnSafe
<1>4. CASE (\A d \in Range(o.hold) : IsDir(d)) /\ i # 0 /\ mutex' = p /\ Set(p, s) /\ UNCHANGED faults
    <2>1. /\ o.hold \in Seq(Inos) /\ Len(o.hold) \in {1, 2} /\ o.hold[1] \in Inos
          /\ (o.second => o.hold[2] \in Inos /\ Len(o.hold) >= 2) /\ PathsOK(o.call)
        BY <1>1, <1>2, InHand DEF ProcOK
    <2>2. n \in AllNames
        <3>1. o.call.op \notin {"open", "link"}
            BY <1>1 DEF Removers
        <3> QED
            BY <2>1, <3>1 DEF PathsOK, AllNames
    <2>3. i \in Inos
        BY <1>4, <2>1, <2>2 DEF SfsShape, RestTyped
    <2>4. /\ s \in ProcType /\ s.at = "target" /\ s.ino = i /\ s.call = o.call /\ s.second = o.second
          /\ s.rest = o.rest /\ s.hold = o.hold /\ s.drop = o.drop /\ s.claim = o.claim /\ s.open = o.open
        BY <1>2, <2>3 DEF ProcType, Ats
    <2>5. IsDir(o.hold[1]) /\ (o.second => IsDir(o.hold[2]))
        <3> DEFINE h == o.hold
        <3>1. h \in Seq(Inos) /\ Len(h) \in {1, 2} /\ (o.second => Len(h) >= 2)
            BY <2>1
        <3> HIDE DEF h
        <3>2. DOMAIN h = 1 .. Len(h)
            BY <3>1, LenProperties
        <3>3. \A m \in {1, 2} : 1 \in 1 .. m /\ (m >= 2 => 2 \in 1 .. m)
            OBVIOUS
        <3>4. 1 \in 1 .. Len(h) /\ (o.second => 2 \in 1 .. Len(h))
            BY <3>1, <3>3, Zenon
        <3>5. h[1] \in Range(h) /\ (o.second => h[2] \in Range(h))
            BY <3>2, <3>4, Zenon DEF Range
        <3> QED
            BY <1>4, <3>5 DEF h
    <2> HIDE DEF s, i
    <2>6. HoldOK(s)
        BY <1>1, <1>2, <1>4, <2>4 DEF HoldOK
    <2>7. ProcOK(s)
        BY <1>1, <1>2, <2>4, <2>6 DEF ProcOK, Under, Removers
    <2>8. \A j : Count(s, j) = Count(o, j)
        BY <2>4 DEF Count
    <2>9. RestTyped' /\ s.claim = pr[p].claim
        BY <1>1, <1>4, <2>4 DEF SfsShape, RestTyped
    <2>10. SelfOK(p, s)
        BY <1>1, <1>4, <2>4, <2>5 DEF SelfOK, Aim, IsDir, i
    <2>11. \A q \in Procs \ {p} : pr[q].at \in Under => mutex' = mutex
        BY <1>1, SfsAssumption DEF MutexInv, MutexOK
    <2> QED
        BY <1>1, <1>4, <2>4, <2>7, <2>8, <2>9, <2>10, <2>11, StepAside, Still
<1> QED
    BY <1>1, <1>3, <1>4

-----------------------------------------------------------------------------
(* The directory entries that name an inode.                               *)
Entries == [Inos -> [AllNames -> Inos \cup {0}]]
NamedAt(e, i) == {x \in Inos \X AllNames : e[x[1]][x[2]] = i}

(* There are finitely many inodes and names; "." and ".." are names of     *)
(* their own.                                                              *)
LEMMA InosFinite ==
    /\ IsFiniteSet(Inos) /\ IsFiniteSet(AllNames) /\ IsFiniteSet(Inos \X AllNames)
    /\ 0 \notin Inos /\ ROOT \in Inos /\ Inos \subseteq Nat
    /\ "." \in AllNames /\ ".." \in AllNames /\ FileNames \subseteq AllNames
    /\ "." \notin FileNames /\ ".." \notin FileNames
<1>1. IsFiniteSet(Inos)
    <2>1. 1 \in Int /\ INOS \in Int
        BY SfsAssumption
    <2> QED
        BY <2>1, FS_Interval, Zenon DEF Inos
<1>2. IsFiniteSet({".", ".."})
    <2>1. IsFiniteSet({}) /\ {".", ".."} = ({} \cup {"."}) \cup {".."}
        BY FS_EmptySet
    <2> QED
        BY <2>1, FS_AddElement, ZenonT(60)
<1>3. IsFiniteSet(AllNames)
    BY <1>2, FS_Union, SfsAssumption DEF AllNames
<1>4. IsFiniteSet(Inos \X AllNames)
    BY <1>1, <1>3, FS_Product
<1> QED
    BY <1>1, <1>3, <1>4, SfsAssumption DEF Inos, ROOT, AllNames

(* The entries that name an inode are finitely many.                       *)
LEMMA NamingFinite ==
    \A e, i : /\ IsFiniteSet(NamedAt(e, i)) /\ Naming(e, i) = Cardinality(NamedAt(e, i)) /\ Naming(e, i) \in Nat
              /\ (Naming(e, i) = 0 <=> NamedAt(e, i) = {})
<1> SUFFICES ASSUME NEW e, NEW i
             PROVE  /\ IsFiniteSet(NamedAt(e, i)) /\ Naming(e, i) = Cardinality(NamedAt(e, i))
                    /\ Naming(e, i) \in Nat /\ (Naming(e, i) = 0 <=> NamedAt(e, i) = {})
    OBVIOUS
<1>1. NamedAt(e, i) \subseteq Inos \X AllNames
    BY DEF NamedAt
<1>2. IsFiniteSet(NamedAt(e, i))
    BY <1>1, InosFinite, FS_Subset
<1>3. Naming(e, i) = Cardinality(NamedAt(e, i))
    BY DEF Naming, NamedAt
<1> QED
    BY <1>2, <1>3, FS_CardinalityType, FS_EmptySet

(* An inode nothing names.                                                 *)
LEMMA NamedNowhere ==
    ASSUME NEW e, NEW i, Naming(e, i) = 0
    PROVE  \A d \in Inos, n \in AllNames : e[d][n] # i
<1>1. NamedAt(e, i) = {}
    BY NamingFinite
<1> SUFFICES ASSUME NEW d \in Inos, NEW n \in AllNames, e[d][n] = i PROVE FALSE
    OBVIOUS
<1>2. <<d, n>> \in NamedAt(e, i)
    BY DEF NamedAt
<1> QED
    BY <1>1, <1>2

(* The same entries name an inode as often.                                *)
LEMMA NamingSame ==
    ASSUME NEW e, NEW f, \A d \in Inos, n \in AllNames : e[d][n] = f[d][n], NEW i
    PROVE  Naming(e, i) = Naming(f, i)
<1>1. NamedAt(e, i) = NamedAt(f, i)
    BY DEF NamedAt
<1> QED
    BY <1>1, NamingFinite

Entered(e, d, n, v) == [e EXCEPT ![d][n] = v]
Sets(f, e, d, n, v) ==
    /\ f \in Entries
    /\ \A x \in Inos, y \in AllNames : f[x][y] = IF x = d /\ y = n THEN v ELSE e[x][y]

(* Writing one entry of a directory changes that entry alone.              *)
LEMMA EnteredOK ==
    ASSUME NEW e \in Entries, NEW d \in Inos, NEW n \in AllNames, NEW v \in Inos \cup {0}
    PROVE  Sets(Entered(e, d, n, v), e, d, n, v)
BY DEF Entries, Entered, Sets

(* Writing one entry adds one to the count of the inode entered and takes  *)
(* one from that of the inode that was there.                              *)
LEMMA NamingSet ==
    ASSUME NEW e \in Entries, NEW d \in Inos, NEW n \in AllNames, NEW v \in Inos \cup {0}, NEW i
    PROVE  LET f == Entered(e, d, n, v)
           IN  Naming(f, i) = Naming(e, i) + One(v = i) - One(e[d][n] = i)
<1> DEFINE f == Entered(e, d, n, v)
<1>1. f \in Entries /\ \A x \in Inos, y \in AllNames : f[x][y] = IF x = d /\ y = n THEN v ELSE e[x][y]
    BY EnteredOK DEF Sets
<1> HIDE DEF f
<1> DEFINE A == NamedAt(e, i)
           B == NamedAt(f, i)
           c == <<d, n>>
<1>2. A \ {c} = B \ {c}
    <2>1. ASSUME NEW x \in Inos, NEW y \in AllNames, <<x, y>> # c PROVE <<x, y>> \in A <=> <<x, y>> \in B
        BY <1>1, <2>1 DEF NamedAt
    <2>2. A \subseteq Inos \X AllNames /\ B \subseteq Inos \X AllNames
        BY DEF NamedAt
    <2> HIDE DEF A, B, c
    <2>3. ASSUME NEW z \in Inos \X AllNames, z # c PROVE z \in A <=> z \in B
        <3>1. PICK x \in Inos, y \in AllNames : z = <<x, y>>
            OBVIOUS
        <3> QED
            BY <2>1, <2>3, <3>1
    <2> QED
        BY <2>2, <2>3
<1>3. (c \in A <=> e[d][n] = i) /\ (c \in B <=> v = i)
    BY <1>1 DEF NamedAt
<1>4. IsFiniteSet(A) /\ IsFiniteSet(B) /\ Naming(e, i) = Cardinality(A) /\ Naming(f, i) = Cardinality(B)
    BY NamingFinite
<1> HIDE DEF A, B, c
<1>5. /\ Cardinality(A) = Cardinality(A \ {c}) + One(c \in A) /\ Cardinality(B) = Cardinality(B \ {c}) + One(c \in B)
      /\ Cardinality(A \ {c}) \in Nat
    BY <1>4, Without
<1>6. One(c \in A) = One(e[d][n] = i) /\ One(c \in B) = One(v = i) /\ One(e[d][n] = i) \in Int /\ One(v = i) \in Int
    BY <1>3 DEF One
<1> DEFINE k == Cardinality(A \ {c})
<1>7. Naming(e, i) = k + One(e[d][n] = i) /\ Naming(f, i) = k + One(v = i) /\ k \in Nat
    BY <1>2, <1>4, <1>5, <1>6
<1> HIDE DEF k
<1>8. \A a, b \in Int : k + a = (k + b) + a - b
    BY <1>7
<1>9. Naming(f, i) = Naming(e, i) + One(v = i) - One(e[d][n] = i)
    BY <1>6, <1>7, <1>8
<1> QED
    BY <1>9 DEF f

(* A directory whose blocks are freed.                                     *)
LEMMA NamingEmptied ==
    ASSUME NEW e \in Entries, NEW i \in Inos, NEW f \in Entries, NEW j \in Inos,
           \A x \in Inos, y \in AllNames : f[x][y] = IF x = i THEN 0 ELSE e[x][y]
    PROVE  LET k == Cardinality({n \in AllNames : e[i][n] = j})
           IN  Naming(e, j) = Naming(f, j) + k /\ k \in Nat
<1> DEFINE A == NamedAt(e, j)
           B == NamedAt(f, j)
           N == {n \in AllNames : e[i][n] = j}
           C == {i} \X N
<1>1. IsFiniteSet(A) /\ IsFiniteSet(B) /\ Naming(e, j) = Cardinality(A) /\ Naming(f, j) = Cardinality(B)
    BY NamingFinite
<1>2. IsFiniteSet(N) /\ Cardinality(N) \in Nat
    <2>1. N \subseteq AllNames
        OBVIOUS
    <2> QED
        BY <2>1, InosFinite, FS_Subset, FS_CardinalityType
<1>3. IsFiniteSet({i}) /\ Cardinality({i}) = 1
    BY FS_Singleton
<1>4. IsFiniteSet(C) /\ Cardinality(C) = Cardinality(N)
    <2>1. IsFiniteSet(C) /\ Cardinality(C) = Cardinality({i}) * Cardinality(N)
        BY <1>2, <1>3, FS_Product
    <2> QED
        BY <1>2, <1>3, <2>1
<1>5. j # 0
    BY InosFinite
<1>6. A = B \cup C /\ B \cap C = {}
    <2>1. ASSUME NEW x \in Inos, NEW y \in AllNames
          PROVE  /\ <<x, y>> \in A <=> e[x][y] = j
                 /\ <<x, y>> \in B <=> f[x][y] = j
                 /\ <<x, y>> \in C <=> (x = i /\ e[i][y] = j)
        BY DEF NamedAt
    <2>2. A \subseteq Inos \X AllNames /\ B \subseteq Inos \X AllNames /\ C \subseteq Inos \X AllNames
        BY DEF NamedAt
    <2> HIDE DEF A, B, C
    <2>3. ASSUME NEW z \in Inos \X AllNames PROVE (z \in A <=> z \in B \/ z \in C) /\ ~(z \in B /\ z \in C)
        <3>1. PICK x \in Inos, y \in AllNames : z = <<x, y>>
            OBVIOUS
        <3>2. f[x][y] = IF x = i THEN 0 ELSE e[x][y]
            OBVIOUS
        <3> QED
            BY <1>5, <2>1, <3>1, <3>2
    <2> QED
        BY <2>2, <2>3
<1> HIDE DEF A, B, C, N
<1>7. Cardinality(A) = Cardinality(B) + Cardinality(C)
    <2>1. Cardinality(B \cup C) = Cardinality(B) + Cardinality(C) - Cardinality(B \cap C)
        BY <1>1, <1>4, FS_Union
    <2>2. Cardinality(B \cap C) = 0 /\ Cardinality(B) \in Nat /\ Cardinality(C) \in Nat
        BY <1>1, <1>4, <1>6, FS_EmptySet, FS_CardinalityType
    <2> QED
        BY <1>6, <2>1, <2>2
<1> QED
    BY <1>1, <1>2, <1>4, <1>7 DEF N

-----------------------------------------------------------------------------
(* The chain of ".." from a directory.                                     *)
Parent(e, x) == IF x = 0 THEN 0 ELSE e[x][".."]

(* The recursive function that follows ".." upwards exists, to every       *)
(* height.                                                                 *)
LEMMA AboveExists ==
    ASSUME NEW e \in Entries, NEW d \in Inos, NEW m \in Nat
    PROVE  \E f \in [0 .. m -> Inos \cup {0}] : f = [k \in 0 .. m |-> IF k = 0 THEN d ELSE Parent(e, f[k - 1])]
<1> DEFINE Body(f, n) == [k \in 0 .. n |-> IF k = 0 THEN d ELSE Parent(e, f[k - 1])]
           P(n) == \E f \in [0 .. n -> Inos \cup {0}] : f = Body(f, n)
           S == {n \in Nat : P(n)}
<1>1. \A x \in Inos \cup {0} : Parent(e, x) \in Inos \cup {0}
    BY InosFinite DEF Parent, Entries
<1>2. 0 \in S
    <2> DEFINE z == [k \in 0 .. 0 |-> d]
    <2>1. z \in [0 .. 0 -> Inos \cup {0}] /\ z = Body(z, 0)
        OBVIOUS
    <2> QED
        BY <2>1
<1>3. ASSUME NEW n \in Nat, n \in S PROVE n + 1 \in S
    <2>1. PICK f \in [0 .. n -> Inos \cup {0}] : f = Body(f, n)
        BY <1>3
    <2> DEFINE g == [k \in 0 .. n + 1 |-> IF k <= n THEN f[k] ELSE Parent(e, f[n])]
    <2>2. g \in [0 .. n + 1 -> Inos \cup {0}]
        BY <1>1
    <2>3. ASSUME NEW k \in 0 .. n + 1 PROVE g[k] = IF k = 0 THEN d ELSE Parent(e, g[k - 1])
        <3>1. CASE k = n + 1
            BY <3>1
        <3>2. CASE k = 0
            BY <2>1, <3>2
        <3>3. CASE k \in 1 .. n
            <4>1. g[k] = f[k] /\ g[k - 1] = f[k - 1]
                BY <3>3
            <4>2. f[k] = Parent(e, f[k - 1])
                BY <2>1, <3>3
            <4> QED
                BY <3>3, <4>1, <4>2
        <3> QED
            BY <3>1, <3>2, <3>3
    <2>4. g = Body(g, n + 1)
        BY <2>3
    <2> HIDE DEF g
    <2> QED
        BY <2>2, <2>4
<1> HIDE DEF S
<1>4. Nat \subseteq S
    BY <1>2, <1>3, Induct
<1> QED
    BY <1>4 DEF S

(* The chain of ".." starts at the directory and goes to the parent at each*)
(* step.                                                                   *)
LEMMA AboveProps ==
    ASSUME NEW e \in Entries, NEW d \in Inos
    PROVE  /\ Above(e, d)[0] = d
           /\ \A k \in 0 .. INOS : Above(e, d)[k] \in Inos \cup {0}
           /\ \A k \in 0 .. INOS - 1 : Above(e, d)[k + 1] = Parent(e, Above(e, d)[k])
<1> DEFINE Body(f) == [k \in 0 .. INOS |-> IF k = 0 THEN d ELSE IF f[k - 1] = 0 THEN 0 ELSE e[f[k - 1]][".."]]
           r == CHOOSE f : f = Body(f)
<1>1. INOS \in Nat
    BY SfsAssumption
<1>2. PICK f \in [0 .. INOS -> Inos \cup {0}] : f = [k \in 0 .. INOS |-> IF k = 0 THEN d ELSE Parent(e, f[k - 1])]
    BY <1>1, AboveExists
<1>3. f = Body(f)
    BY <1>2 DEF Parent
<1>4. r = Body(r)
    BY <1>3
<1>5. Above(e, d) = r
    BY SMTT(60) DEF Above
<1>6. \A k \in 0 .. INOS : r[k] = IF k = 0 THEN d ELSE Parent(e, r[k - 1])
    BY <1>4 DEF Parent
<1> HIDE DEF r
<1>7. r[0] = d
    BY <1>1, <1>6
<1>8. ASSUME NEW k \in 0 .. INOS - 1 PROVE r[k + 1] = Parent(e, r[k])
    <2>1. k + 1 \in 0 .. INOS /\ k + 1 # 0 /\ (k + 1) - 1 = k
        BY <1>1
    <2> QED
        BY <1>6, <2>1
<1> DEFINE S == {m \in Nat : m <= INOS => r[m] \in Inos \cup {0}}
<1>9. 0 \in S
    BY <1>7
<1>10. ASSUME NEW m \in Nat, m \in S PROVE m + 1 \in S
    <2>1. SUFFICES ASSUME m + 1 <= INOS PROVE r[m + 1] \in Inos \cup {0}
        OBVIOUS
    <2>2. m \in 0 .. INOS - 1 /\ r[m] \in Inos \cup {0}
        BY <1>1, <1>10, <2>1
    <2> QED
        <3>1. Parent(e, r[m]) \in Inos \cup {0}
            BY <2>2, InosFinite DEF Parent, Entries
        <3> QED
            BY <1>8, <2>2, <3>1
<1> HIDE DEF S
<1>11. Nat \subseteq S
    BY <1>9, <1>10, Induct
<1>12. \A k \in 0 .. INOS : r[k] \in Inos \cup {0}
    BY <1>1, <1>11 DEF S
<1> QED
    BY <1>5, <1>7, <1>8, <1>12

(* No set of directories below the root is closed under "..".              *)
NoLoop(e) == \A S \in SUBSET (Inos \ {ROOT}) : S # {} => \E x \in S : e[x][".."] \notin S

(* A set that is closed along a chain holds its end.                       *)
LEMMA ChainStays ==
    ASSUME NEW e \in Entries, NEW d \in Inos, NEW S, d \in S,
           \A k \in 0 .. INOS - 1 : Above(e, d)[k] \in S => Above(e, d)[k + 1] \in S
    PROVE  \A k \in 0 .. INOS : Above(e, d)[k] \in S
<1> DEFINE r == Above(e, d)
           T == {m \in Nat : m <= INOS => r[m] \in S}
<1>1. INOS \in Nat /\ r[0] = d
    BY SfsAssumption, AboveProps
<1>2. \A k \in 0 .. INOS - 1 : r[k] \in S => r[k + 1] \in S
    OBVIOUS
<1> HIDE DEF r
<1>3. 0 \in T
    BY <1>1
<1>4. ASSUME NEW m \in Nat, m \in T PROVE m + 1 \in T
    <2>1. SUFFICES ASSUME m + 1 <= INOS PROVE r[m + 1] \in S
        OBVIOUS
    <2>2. m \in 0 .. INOS - 1 /\ r[m] \in S
        BY <1>1, <1>4, <2>1
    <2> QED
        BY <1>2, <2>2
<1> HIDE DEF T
<1>5. Nat \subseteq T
    BY <1>3, <1>4, Induct
<1> QED
    BY <1>1, <1>5 DEF T, r

(* When every chain of ".." ends at the root, no set of directories has all*)
(* its parents in itself.                                                  *)
LEMMA ChainsNoLoop ==
    ASSUME NEW e \in Entries, \A i \in Inos : Above(e, i)[INOS] \in {0, ROOT}
    PROVE  NoLoop(e)
<1> SUFFICES ASSUME NEW S \in SUBSET (Inos \ {ROOT}), S # {}, \A x \in S : e[x][".."] \in S
             PROVE  FALSE
    BY DEF NoLoop
<1>1. PICK d \in S : TRUE
    OBVIOUS
<1>2. d \in Inos /\ 0 \notin S /\ ROOT \notin S /\ INOS \in Nat
    BY <1>1, InosFinite, SfsAssumption
<1>3. \A k \in 0 .. INOS - 1 : Above(e, d)[k] \in S => Above(e, d)[k + 1] \in S
    BY <1>2, AboveProps DEF Parent
<1>4. \A k \in 0 .. INOS : Above(e, d)[k] \in S
    BY <1>1, <1>2, <1>3, ChainStays
<1>5. Above(e, d)[INOS] \in S
    BY <1>2, <1>4
<1> QED
    BY <1>2, <1>5

(* When no set of directories has all its parents in itself, every chain of*)
(* ".." has ended at the root after INOS steps: a chain that has not,      *)
(* visits more inodes than there are.                                      *)
LEMMA NoLoopChains ==
    ASSUME NEW e \in Entries, e[ROOT][".."] = ROOT, NoLoop(e), NEW i \in Inos
    PROVE  Above(e, i)[INOS] \in {0, ROOT}
<1> DEFINE r == Above(e, i)
<1> SUFFICES ASSUME r[INOS] \notin {0, ROOT} PROVE FALSE
    OBVIOUS
<1>1. /\ r[0] = i /\ \A k \in 0 .. INOS : r[k] \in Inos \cup {0}
      /\ \A k \in 0 .. INOS - 1 : r[k + 1] = Parent(e, r[k])
    BY AboveProps
<1>2. INOS \in Nat \ {0} /\ ROOT \in Inos /\ 0 \notin Inos /\ ROOT # 0
    BY SfsAssumption, InosFinite
<1> HIDE DEF r
<1>3. \A k \in 0 .. INOS : r[k] \in Inos \ {ROOT}
    <2> DEFINE T == {m \in Nat : m <= INOS => r[INOS - m] \notin {0, ROOT}}
    <2>1. 0 \in T
        BY <1>2
    <2>2. ASSUME NEW m \in Nat, m \in T PROVE m + 1 \in T
        <3>1. SUFFICES ASSUME m + 1 <= INOS PROVE r[INOS - (m + 1)] \notin {0, ROOT}
            OBVIOUS
        <3> DEFINE k == INOS - (m + 1)
        <3>2. k \in 0 .. INOS - 1 /\ k + 1 = INOS - m /\ r[INOS - m] \notin {0, ROOT}
            BY <1>2, <2>2, <3>1
        <3> HIDE DEF k
        <3>3. r[k + 1] = Parent(e, r[k])
            BY <1>1, <3>2
        <3>4. r[k] \notin {0, ROOT}
            BY <1>2, <3>2, <3>3 DEF Parent
        <3> QED
            BY <3>4 DEF k
    <2> HIDE DEF T
    <2>3. Nat \subseteq T
        BY <2>1, <2>2, Induct
    <2>4. ASSUME NEW k \in 0 .. INOS PROVE r[k] \notin {0, ROOT}
        <3>1. INOS - k \in T /\ INOS - k <= INOS /\ INOS - (INOS - k) = k
            BY <1>2, <2>3
        <3> QED
            BY <3>1 DEF T
    <2> QED
        BY <1>1, <2>4
<1>4. PICK j, k \in 0 .. INOS : j < k /\ r[j] = r[k]
    <2> DEFINE A == 0 .. INOS
               B == Inos \ {ROOT}
               f == [m \in A |-> r[m]]
    <2>1. f \in [A -> B]
        BY <1>3
    <2>2. IsFiniteSet(A) /\ Cardinality(A) = INOS + 1
        <3>1. 0 \in Int /\ INOS \in Int
            BY <1>2
        <3>2. IsFiniteSet(0 .. INOS) /\ Cardinality(0 .. INOS) = IF 0 > INOS THEN 0 ELSE INOS - 0 + 1
            BY <3>1, FS_Interval, Zenon
        <3> QED
            BY <1>2, <3>2
    <2>3. IsFiniteSet(Inos) /\ Cardinality(Inos) = INOS
        <3>1. 1 \in Int /\ INOS \in Int
            BY <1>2
        <3>2. IsFiniteSet(1 .. INOS) /\ Cardinality(1 .. INOS) = IF 1 > INOS THEN 0 ELSE INOS - 1 + 1
            BY <3>1, FS_Interval, Zenon
        <3> QED
            BY <1>2, <3>2 DEF Inos
    <2>4. IsFiniteSet(B) /\ Cardinality(B) = INOS - 1
        BY <1>2, <2>3, FS_RemoveElement
    <2> HIDE DEF f, A, B
    <2>5. \E x, y \in A : x # y /\ f[x] = f[y]
        <3>1. Cardinality(B) < Cardinality(A)
            BY <1>2, <2>2, <2>4
        <3> QED
            BY <2>1, <2>2, <2>4, <3>1, FS_PigeonHole
    <2>6. PICK x, y \in A : x # y /\ f[x] = f[y]
        BY <2>5
    <2>7. x \in 0 .. INOS /\ y \in 0 .. INOS /\ r[x] = r[y]
        BY <2>6 DEF f, A
    <2>8. x < y \/ y < x
        BY <1>2, <2>6, <2>7
    <2> QED
        BY <2>7, <2>8
<1> DEFINE S == {r[m] : m \in j .. k - 1}
<1>5. S \in SUBSET (Inos \ {ROOT})
    BY <1>2, <1>3, <1>4
<1>6. S # {}
    <2>1. j \in j .. k - 1
        BY <1>2, <1>4
    <2> QED
        BY <2>1
<1>7. ASSUME NEW x \in S PROVE e[x][".."] \in S
    <2>1. PICK m \in j .. k - 1 : x = r[m]
        OBVIOUS
    <2>2. m \in 0 .. INOS - 1 /\ m \in 0 .. INOS
        BY <1>2, <1>4
    <2>3. r[m + 1] = e[x][".."]
        BY <1>1, <1>2, <1>3, <2>1, <2>2 DEF Parent
    <2>4. CASE m + 1 = k
        <3>1. r[m + 1] = r[j] /\ j \in j .. k - 1
            BY <1>2, <1>4, <2>4
        <3> QED
            BY <2>3, <3>1
    <2>5. CASE m + 1 # k
        <3>1. m + 1 \in j .. k - 1
            BY <1>2, <1>4, <2>5
        <3> QED
            BY <2>3, <3>1
    <2> QED
        BY <2>4, <2>5
<1> HIDE DEF S
<1> QED
    BY <1>5, <1>6, <1>7 DEF NoLoop

-----------------------------------------------------------------------------
(* nlinks: the steps that change no name.                                  *)
Counts(x) == IF x.cached THEN x.links ELSE x.disk
Kept ==
    /\ ent' = ent /\ (faults' = faults \/ Fault)
    /\ \A i \in Inos : /\ nd'[i].type = nd[i].type /\ nd'[i].lost = nd[i].lost
                       /\ Counts(nd'[i]) = Counts(nd[i])
                       /\ nd'[i].cached /\ ~nd'[i].dirty => nd'[i].disk = nd'[i].links

(* LinksExact, said with the number of entries that name an inode.         *)
LEMMA LinksCount ==
    LinksExact <=> \A i \in Inos : IF nd[i].type = "free" THEN Naming(ent, i) = 0
                                   ELSE Counts(nd[i]) = Naming(ent, i) + nd[i].lost
BY DEF LinksExact, Counts

(* A step that changes no name, type or link count keeps the name space.   *)
LEMMA KeptNames ==
    ASSUME SfsShape, NameSpace, Kept
    PROVE  NameSpace'
<1>1. TypeOf' = TypeOf
    BY DEF Kept, TypeOf
<1>2. NamesInv'
    BY <1>1 DEF NameSpace, NamesInv, Kept
<1>3. SavedInv'
    BY DEF SavedInv, Kept
<1>4. LinksExact'
    BY DEF NameSpace, LinksExact, Kept, Counts
<1>5. LoopInv'
    <2>1. faults' = 0 => faults = 0
        BY Faulted DEF Kept
    <2> QED
        BY <2>1 DEF NameSpace, LoopInv, Kept
<1> QED
    BY <1>2, <1>3, <1>4, <1>5 DEF NameSpace

(* A step that changes neither entries nor inodes changes no name.         *)
LEMMA StillKept ==
    ASSUME NameSpace, UNCHANGED <<ent, nd>>, faults' = faults \/ Fault
    PROVE  Kept
BY DEF Kept, NameSpace, SavedInv

(* A step that changes one inode in memory.                                *)
LEMMA OneKept ==
    ASSUME SfsShape, NameSpace, ent' = ent, faults' = faults \/ Fault, NEW i \in Inos,
           NEW x, nd' = [nd EXCEPT ![i] = x], x.type = nd[i].type, x.lost = nd[i].lost,
           Counts(x) = Counts(nd[i]), x.cached /\ ~x.dirty => x.disk = x.links
    PROVE  Kept
<1>1. nd'[i] = x /\ \A j \in Inos : j # i => nd'[j] = nd[j]
    BY DEF SfsShape, NdTyped
<1> QED
    BY <1>1 DEF Kept, NameSpace, SavedInv

(* A change of ref_count or reclaim_count changes no name.                 *)
LEMMA RefKeptNames ==
    ASSUME SfsShape, NameSpace, ent' = ent, faults' = faults \/ Fault, NEW i \in Inos,
           NEW k, nd' = [nd EXCEPT ![i].ref = k] \/ nd' = [nd EXCEPT ![i].token = k]
    PROVE  Kept
<1>1. nd[i] \in NodeType
    BY DEF SfsShape, NdTyped
<1>2. ASSUME NEW x, x = [nd[i] EXCEPT !.ref = k] \/ x = [nd[i] EXCEPT !.token = k]
      PROVE  /\ x.type = nd[i].type /\ x.lost = nd[i].lost /\ x.cached = nd[i].cached /\ x.links = nd[i].links
             /\ x.disk = nd[i].disk /\ x.dirty = nd[i].dirty
    BY <1>1, <1>2 DEF NodeType
<1>3. ASSUME NEW x, x = [nd[i] EXCEPT !.ref = k] \/ x = [nd[i] EXCEPT !.token = k]
      PROVE  /\ x.type = nd[i].type /\ x.lost = nd[i].lost /\ Counts(x) = Counts(nd[i])
             /\ x.cached /\ ~x.dirty => x.disk = x.links
    BY <1>2, <1>3 DEF Counts, NameSpace, SavedInv
<1>4. CASE nd' = [nd EXCEPT ![i].ref = k]
    <2> DEFINE x == [nd[i] EXCEPT !.ref = k]
    <2>1. nd' = [nd EXCEPT ![i] = x]
        BY <1>4
    <2>2. /\ x.type = nd[i].type /\ x.lost = nd[i].lost /\ Counts(x) = Counts(nd[i])
          /\ x.cached /\ ~x.dirty => x.disk = x.links
        BY <1>3
    <2> HIDE DEF x
    <2> QED
        BY <2>1, <2>2, OneKept
<1>5. CASE nd' = [nd EXCEPT ![i].token = k]
    <2> DEFINE x == [nd[i] EXCEPT !.token = k]
    <2>1. nd' = [nd EXCEPT ![i] = x]
        BY <1>5
    <2>2. /\ x.type = nd[i].type /\ x.lost = nd[i].lost /\ Counts(x) = Counts(nd[i])
          /\ x.cached /\ ~x.dirty => x.disk = x.links
        BY <1>3
    <2> HIDE DEF x
    <2> QED
        BY <2>1, <2>2, OneKept
<1> QED
    BY <1>4, <1>5

(* Loading an inode changes no name: nlinks is read from the disk.         *)
LEMMA LoadKept ==
    ASSUME SfsShape, NameSpace, NEW p \in Procs, Load(p)
    PROVE  Kept
<1> DEFINE i == pr[p].ino
           x == Loaded(i)
<1>1. i # 0 /\ nd' = [nd EXCEPT ![i] = x] /\ ent' = ent /\ faults' = faults
    BY DEF Load
<1>2. i \in Inos /\ nd[i] \in NodeType
    BY <1>1, Of DEF ProcType, SfsShape, NdTyped
<1> HIDE DEF i
<1>3. CASE nd[i].cached
    <2>1. x = [nd[i] EXCEPT !.ref = @ + 1, !.token = IF nd[i].ref = 0 THEN @ + 1 ELSE @]
        BY <1>3 DEF Loaded
    <2>2. \A a, b : LET y == [nd[i] EXCEPT !.ref = a, !.token = b]
                    IN  /\ y.type = nd[i].type /\ y.lost = nd[i].lost /\ y.cached = nd[i].cached
                        /\ y.links = nd[i].links /\ y.disk = nd[i].disk /\ y.dirty = nd[i].dirty
        BY <1>2 DEF NodeType
    <2>3. /\ x.type = nd[i].type /\ x.lost = nd[i].lost /\ x.cached = nd[i].cached
          /\ x.links = nd[i].links /\ x.disk = nd[i].disk /\ x.dirty = nd[i].dirty
        BY <2>1, <2>2
    <2> HIDE DEF x
    <2>4. Counts(x) = Counts(nd[i]) /\ (x.cached /\ ~x.dirty => x.disk = x.links)
        BY <1>2, <2>3 DEF Counts, NameSpace, SavedInv
    <2> QED
        BY <1>1, <1>2, <2>3, <2>4, OneKept
<1>4. CASE ~nd[i].cached
    <2>1. x = [nd[i] EXCEPT !.cached = TRUE, !.ref = 1, !.token = 1, !.links = nd[i].disk, !.dirty = FALSE]
        BY <1>4 DEF Loaded
    <2>2. x.type = nd[i].type /\ x.lost = nd[i].lost /\ x.cached /\ x.links = nd[i].disk /\ x.disk = nd[i].disk
        BY <1>2, <2>1 DEF NodeType
    <2> HIDE DEF x
    <2>3. Counts(x) = Counts(nd[i])
        BY <1>4, <2>2 DEF Counts
    <2> QED
        BY <1>1, <1>2, <2>2, <2>3, OneKept
<1> QED
    BY <1>3, <1>4

(* Writing an inode back changes neither its type nor its links.           *)
LEMMA SyncedKept ==
    ASSUME SfsShape, NameSpace, NEW i \in Inos, NEW ok \in BOOLEAN, nd[i].cached
    PROVE  LET x == Synced(i, ok)
           IN  /\ x.type = nd[i].type /\ x.lost = nd[i].lost /\ Counts(x) = Counts(nd[i])
               /\ x.cached /\ ~x.dirty => x.disk = x.links
<1> DEFINE x == Synced(i, ok)
<1>1. /\ x.cached = nd[i].cached /\ x.type = nd[i].type /\ x.links = nd[i].links /\ x.lost = nd[i].lost
      /\ ok => ~x.dirty /\ x.disk = Flushed(i)
      /\ ~ok => x = nd[i]
    BY SyncedOK
<1>2. Flushed(i) = nd[i].links
    BY DEF Flushed, NameSpace, SavedInv
<1> HIDE DEF x
<1>3. x.cached /\ ~x.dirty => x.disk = x.links
    BY <1>1, <1>2 DEF NameSpace, SavedInv
<1> QED
    BY <1>1, <1>3 DEF Counts, x

(* Closing a file, with its fsync, changes no name.                        *)
LEMMA VfsCloseKept ==
    ASSUME SfsShape, SfsCounted, NameSpace, NEW p \in Procs, NEW ok \in BOOLEAN, VfsClose(p, ok)
    PROVE  Kept
<1> DEFINE i == pr[p].open
           x == Synced(i, ok)
<1>1. /\ i # 0 /\ (nd' = [nd EXCEPT ![i] = x] \/ nd' = nd) /\ ent' = ent /\ (faults' = faults \/ Fault)
    BY DEF VfsClose
<1>2. i \in Inos /\ Count(pr[p], i) # 0
    BY <1>1, Of, HeldCount
<1>3. nd[i].cached
    BY <1>2, HeldLive
<1>4. /\ x.type = nd[i].type /\ x.lost = nd[i].lost /\ Counts(x) = Counts(nd[i])
      /\ x.cached /\ ~x.dirty => x.disk = x.links
    BY <1>2, <1>3, SyncedKept
<1> HIDE DEF x, i
<1>5. CASE nd' = nd
    BY <1>1, <1>5, StillKept
<1>6. CASE nd' = [nd EXCEPT ![i] = x]
    BY <1>1, <1>2, <1>4, <1>6, OneKept
<1> QED
    BY <1>1, <1>5, <1>6

(* sync writes every dirty inode back and changes no name.                 *)
LEMMA SyncKept ==
    ASSUME SfsShape, NameSpace, Sync
    PROVE  Kept
<1>1. /\ nd' = [i \in Inos |-> IF nd[i].cached THEN Synced(i, TRUE) ELSE nd[i]]
      /\ ent' = ent /\ faults' = faults
    BY DEF Sync
<1>2. ASSUME NEW i \in Inos
      PROVE  /\ nd'[i].type = nd[i].type /\ nd'[i].lost = nd[i].lost /\ Counts(nd'[i]) = Counts(nd[i])
             /\ nd'[i].cached /\ ~nd'[i].dirty => nd'[i].disk = nd'[i].links
    <2>1. CASE nd[i].cached
        <3>1. nd'[i] = Synced(i, TRUE)
            BY <1>1, <2>1
        <3> QED
            BY <2>1, <3>1, SyncedKept
    <2>2. CASE ~nd[i].cached
        <3>1. nd'[i] = nd[i]
            BY <1>1, <2>2
        <3> QED
            BY <2>2, <3>1
    <2> QED
        BY <2>1, <2>2
<1> QED
    BY <1>1, <1>2 DEF Kept

-----------------------------------------------------------------------------
(* sfs_reclaim: what an unnamed directory listed is lost with it.          *)
LEMMA LoopCut ==
    ASSUME NEW e, NEW f, NoLoop(e), \A x \in Inos : f[x][".."] \in {e[x][".."], 0}
    PROVE  NoLoop(f)
<1> SUFFICES ASSUME NEW S \in SUBSET (Inos \ {ROOT}), S # {} PROVE \E x \in S : f[x][".."] \notin S
    BY DEF NoLoop
<1>1. PICK x \in S : e[x][".."] \notin S
    BY DEF NoLoop
<1>2. 0 \notin S
    BY InosFinite
<1> QED
    BY <1>1, <1>2

(* What NamesInv says of the entries, field by field.                      *)
LEMMA NamesType ==
    ASSUME NamesInv
    PROVE  /\ ent \in Entries
           /\ nd[ROOT].type = "dir" /\ ent[ROOT]["."] = ROOT /\ ent[ROOT][".."] = ROOT
           /\ \A i \in Inos : nd[i].type # "dir" => \A n \in AllNames : ent[i][n] = 0
           /\ \A i \in Inos : nd[i].type = "free" => Naming(ent, i) = 0
           /\ \A d \in Inos, n \in FileNames :
                 LET i == ent[d][n] IN
                 i # 0 /\ nd[i].type = "dir" =>
                     /\ i \notin {d, ROOT} /\ ent[i]["."] = i /\ ent[i][".."] = d
                     /\ \A m \in FileNames : ent[d][m] = i => m = n
<1>1. \A i \in Inos : TypeOf[i] = nd[i].type
    BY DEF TypeOf
<1>2. ent \in Entries
    BY DEF NamesInv, NamesOK, Entries
<1>3. /\ nd[ROOT].type = "dir" /\ ent[ROOT]["."] = ROOT /\ ent[ROOT][".."] = ROOT
    BY <1>1, InosFinite DEF NamesInv, NamesOK
<1>4. \A i \in Inos : nd[i].type # "dir" => \A n \in AllNames : ent[i][n] = 0
    BY <1>1 DEF NamesInv, NamesOK
<1>5. \A i \in Inos : nd[i].type = "free" => Naming(ent, i) = 0
    BY <1>1 DEF NamesInv, NamesOK
<1>6. ASSUME NEW d \in Inos, NEW n \in FileNames, ent[d][n] # 0, nd[ent[d][n]].type = "dir"
      PROVE  LET i == ent[d][n] IN
             /\ i \notin {d, ROOT} /\ ent[i]["."] = i /\ ent[i][".."] = d
             /\ \A m \in FileNames : ent[d][m] = i => m = n
    <2>1. ent[d][n] \in Inos
        BY <1>2, <1>6, InosFinite DEF Entries
    <2>2. TypeOf[ent[d][n]] = "dir"
        BY <1>1, <1>6, <2>1
    <2> QED
        BY <1>6, <2>2 DEF NamesInv, NamesOK
<1> QED
    BY <1>2, <1>3, <1>4, <1>5, <1>6

(* NamesInv from what it says of the entries after a step.                 *)
LEMMA NamesBack ==
    ASSUME NdTyped', ent' \in Entries,
           nd'[ROOT].type = "dir", ent'[ROOT]["."] = ROOT, ent'[ROOT][".."] = ROOT,
           \A i \in Inos : nd'[i].type # "dir" => \A n \in AllNames : ent'[i][n] = 0,
           \A i \in Inos : nd'[i].type = "free" => Naming(ent', i) = 0,
           \A d \in Inos, n \in FileNames :
                 LET i == ent'[d][n] IN
                 i # 0 /\ nd'[i].type = "dir" =>
                     /\ i \notin {d, ROOT} /\ ent'[i]["."] = i /\ ent'[i][".."] = d
                     /\ \A m \in FileNames : ent'[d][m] = i => m = n
    PROVE  NamesInv'
<1> DEFINE e == ent'
           t == TypeOf'
<1>1. t = [i \in Inos |-> nd'[i].type]
    BY DEF TypeOf
<1>2. t \in [Inos -> {"free", "file", "dir"}] /\ \A i \in Inos : t[i] = nd'[i].type
    BY <1>1 DEF NdTyped, NodeType
<1>3. \A d \in Inos, n \in FileNames : e[d][n] \in Inos \cup {0}
    BY InosFinite DEF Entries
<1> HIDE DEF t
<1>4. ASSUME NEW d \in Inos, NEW n \in FileNames, e[d][n] # 0, t[e[d][n]] = "dir"
      PROVE  LET i == e[d][n] IN
             /\ i \notin {d, ROOT} /\ e[i]["."] = i /\ e[i][".."] = d
             /\ \A m \in FileNames : e[d][m] = i => m = n
    BY <1>2, <1>3, <1>4
<1>5. NamesOK(e, t)
    BY <1>2, <1>4, InosFinite DEF NamesOK, Entries
<1> QED
    BY <1>5 DEF NamesInv, t

Gone(i, j) == Cardinality({n \in AllNames : ent[i][n] = j})

(* Reclaiming an inode keeps the name space: the entries of a removed      *)
(* directory go with its block and are counted as lost.                    *)
LEMMA Shrunk ==
    ASSUME SfsShape, NameSpace, NdTyped', faults' = faults \/ Fault, NEW i \in Inos, i # ROOT,
           nd[i].cached, nd[i].type # "free", NEW cut \in BOOLEAN, cut => nd[i].links = 0, ent' \in Entries,
           \A x \in Inos, y \in AllNames : ent'[x][y] = IF x = i /\ cut THEN 0 ELSE ent[x][y],
           \A j \in Inos \ {i} :
              /\ nd'[j].type = nd[j].type /\ nd'[j].cached = nd[j].cached /\ nd'[j].links = nd[j].links
              /\ nd'[j].disk = nd[j].disk /\ nd'[j].dirty = nd[j].dirty
              /\ nd'[j].lost = nd[j].lost + IF cut THEN Gone(i, j) ELSE 0,
           \/ cut /\ nd'[i].type = "free" /\ ~nd'[i].cached
           \/ /\ nd'[i].type = nd[i].type /\ nd'[i].lost = nd[i].lost /\ Counts(nd'[i]) = Counts(nd[i])
              /\ nd'[i].cached /\ ~nd'[i].dirty => nd'[i].disk = nd'[i].links
    PROVE  NameSpace'
<1>1. /\ ent \in Entries
      /\ nd[ROOT].type = "dir" /\ ent[ROOT]["."] = ROOT /\ ent[ROOT][".."] = ROOT
      /\ \A j \in Inos : nd[j].type # "dir" => \A n \in AllNames : ent[j][n] = 0
      /\ \A j \in Inos : nd[j].type = "free" => Naming(ent, j) = 0
      /\ \A d \in Inos, n \in FileNames :
            LET j == ent[d][n] IN
            j # 0 /\ nd[j].type = "dir" =>
                /\ j \notin {d, ROOT} /\ ent[j]["."] = j /\ ent[j][".."] = d
                /\ \A m \in FileNames : ent[d][m] = j => m = n
    BY NamesType DEF NameSpace
<1>2. \A e, j : Naming(e, j) \in Nat
    BY NamingFinite
<1>3. \A j \in Inos : IF nd[j].type = "free" THEN Naming(ent, j) = 0
                      ELSE Counts(nd[j]) = Naming(ent, j) + nd[j].lost
    BY LinksCount DEF NameSpace
<1>4. cut => Naming(ent, i) = 0 /\ nd[i].lost = 0
    <2>1. nd[i].lost \in Nat
        BY DEF SfsShape, NdTyped, NodeType
    <2>2. nd[i].links = Naming(ent, i) + nd[i].lost
        BY <1>3 DEF Counts
    <2> QED
        BY <1>2, <2>1, <2>2
<1>5. ASSUME NEW j \in Inos PROVE Naming(ent, j) = Naming(ent', j) + IF cut THEN Gone(i, j) ELSE 0
    <2>1. CASE cut
        <3>1. \A x \in Inos, y \in AllNames : ent'[x][y] = IF x = i THEN 0 ELSE ent[x][y]
            BY <2>1
        <3> QED
            BY <1>1, <2>1, <3>1, NamingEmptied DEF Gone
    <2>2. CASE ~cut
        <3>1. \A x \in Inos, y \in AllNames : ent'[x][y] = ent[x][y]
            BY <2>2
        <3> QED
            BY <1>2, <2>2, <3>1, NamingSame, SMTT(60)
    <2> QED
        BY <2>1, <2>2
<1>6. \A j : Gone(i, j) \in Nat
    <2>1. \A j : {n \in AllNames : ent[i][n] = j} \subseteq AllNames
        OBVIOUS
    <2> QED
        BY <2>1, InosFinite, FS_Subset, FS_CardinalityType DEF Gone
<1>7. \A j \in Inos : Naming(ent, j) = 0 => Naming(ent', j) = 0
    BY <1>2, <1>5, <1>6
<1>8. \A j \in Inos : j # i => nd'[j].type = nd[j].type
    OBVIOUS
<1>9. NamesInv'
    <2>1. /\ nd'[ROOT].type = "dir" /\ ent'[ROOT]["."] = ROOT /\ ent'[ROOT][".."] = ROOT
        BY <1>1, InosFinite
    <2>2. ASSUME NEW j \in Inos, nd'[j].type # "dir", NEW n \in AllNames PROVE ent'[j][n] = 0
        BY <1>1, <2>2
    <2>3. ASSUME NEW j \in Inos, nd'[j].type = "free" PROVE Naming(ent', j) = 0
        BY <1>1, <1>4, <1>7, <2>3
    <2>4. ASSUME NEW d \in Inos, NEW n \in FileNames, NEW j, j = ent'[d][n], j # 0, nd'[j].type = "dir"
          PROVE  /\ j \notin {d, ROOT} /\ ent'[j]["."] = j /\ ent'[j][".."] = d
                 /\ \A m \in FileNames : ent'[d][m] = j => m = n
        <3>1. n \in AllNames /\ "." \in AllNames /\ ".." \in AllNames /\ FileNames \subseteq AllNames
            BY InosFinite
        <3>2. ent[d][n] = j /\ ~(d = i /\ cut) /\ j \in Inos
            BY <1>1, <2>4, <3>1 DEF Entries
        <3>3. ~(j = i /\ cut)
            BY <1>4, <3>1, <3>2, NamedNowhere
        <3>4. nd[j].type = "dir"
            BY <2>4, <3>2, <3>3
        <3>5. /\ j \notin {d, ROOT} /\ ent[j]["."] = j /\ ent[j][".."] = d
              /\ \A m \in FileNames : ent[d][m] = j => m = n
            BY <1>1, <2>4, <3>2, <3>4
        <3> QED
            BY <3>1, <3>2, <3>3, <3>5
    <2> QED
        BY <2>1, <2>2, <2>3, <2>4, NamesBack
<1>10. SavedInv'
    BY DEF SavedInv, NameSpace
<1>11. LinksExact'
    <2> SUFFICES ASSUME NEW j \in Inos
                 PROVE  IF nd'[j].type = "free" THEN Naming(ent', j) = 0
                        ELSE Counts(nd'[j]) = Naming(ent', j) + nd'[j].lost
        BY DEF LinksExact, Counts
    <2>1. CASE nd'[j].type = "free"
        BY <1>1, <1>4, <1>7, <2>1
    <2>2. CASE nd'[j].type # "free" /\ j # i
        <3>1. Counts(nd'[j]) = Counts(nd[j]) /\ nd[j].type # "free"
            BY <2>2 DEF Counts
        <3>2. Counts(nd[j]) = Naming(ent, j) + nd[j].lost /\ nd[j].lost \in Nat
            BY <1>3, <3>1 DEF SfsShape, NdTyped, NodeType
        <3>3. nd'[j].lost = nd[j].lost + IF cut THEN Gone(i, j) ELSE 0
            BY <2>2
        <3> DEFINE k == IF cut THEN Gone(i, j) ELSE 0
        <3>4. k \in Nat /\ Naming(ent, j) = Naming(ent', j) + k /\ nd'[j].lost = nd[j].lost + k
            BY <1>5, <1>6, <3>3
        <3> HIDE DEF k
        <3>5. Counts(nd'[j]) = Naming(ent', j) + nd'[j].lost
            BY <1>2, <3>1, <3>2, <3>4
        <3> QED
            BY <2>2, <3>5
    <2>3. CASE nd'[j].type # "free" /\ j = i
        <3>1. nd'[i].lost = nd[i].lost /\ Counts(nd'[i]) = Counts(nd[i])
            BY <2>3
        <3>2. Counts(nd[i]) = Naming(ent, i) + nd[i].lost
            BY <1>3
        <3>3. Naming(ent', i) = Naming(ent, i)
            BY <1>2, <1>4, <1>5, <1>6
        <3> QED
            BY <2>3, <3>1, <3>2, <3>3
    <2> QED
        BY <2>1, <2>2, <2>3
<1>12. LoopInv'
    <2>1. faults' = 0 => faults = 0
        BY Faulted
    <2>2. \A x \in Inos : ent'[x][".."] \in {ent[x][".."], 0}
        BY InosFinite
    <2>3. NoLoop(ent) => NoLoop(ent')
        BY <2>2, LoopCut
    <2> QED
        BY <2>1, <2>3 DEF NameSpace, LoopInv, NoLoop
<1> QED
    BY <1>9, <1>10, <1>11, <1>12 DEF NameSpace

(* The fields of an inode some of whose names went with a removed          *)
(* directory.                                                              *)
LEMMA NodeLost ==
    ASSUME NEW x \in NodeType, NEW k \in Nat
    PROVE  LET y == [x EXCEPT !.lost = @ + k]
           IN  /\ y \in NodeType /\ y.type = x.type /\ y.cached = x.cached /\ y.ref = x.ref /\ y.token = x.token
               /\ y.links = x.links /\ y.disk = x.disk /\ y.dirty = x.dirty /\ y.lost = x.lost + k
BY DEF NodeType

Flush(x, b, k) == [x EXCEPT !.cached = b, !.token = 0, !.disk = k, !.dirty = b]

(* The fields of an inode as sfs_reclaim writes it.                        *)
LEMMA NodeReclaimed ==
    ASSUME NEW x \in NodeType, NEW b \in BOOLEAN, NEW k \in Nat
    PROVE  LET y == Flush(x, b, k)
           IN  /\ y \in NodeType /\ y.type = x.type /\ y.cached = b /\ y.ref = x.ref /\ y.token = 0
               /\ y.links = x.links /\ y.disk = k /\ y.dirty = b /\ y.lost = x.lost
<1>1. 0 \in 0 .. TOKENS
    BY SfsAssumption
<1> QED
    BY <1>1 DEF NodeType, Flush

(* The fields of an inode whose reclaim failed.                            *)
LEMMA NodeFailed ==
    ASSUME NEW x \in NodeType, NEW c \in BOOLEAN, NEW t \in 0 .. TOKENS
    PROVE  LET y == [x EXCEPT !.token = t, !.dirty = c]
           IN  /\ y \in NodeType /\ y.type = x.type /\ y.cached = x.cached /\ y.ref = x.ref /\ y.token = t
               /\ y.links = x.links /\ y.disk = x.disk /\ y.dirty = c /\ y.lost = x.lost
BY DEF NodeType

(* A free block is well typed and not in memory.                           *)
LEMMA AbsentOK ==
    Absent \in NodeType /\ Absent.type = "free" /\ ~Absent.cached /\ Absent.ref = 0
<1>1. 0 \in 0 .. TOKENS /\ 1 \in 0 .. TOKENS
    BY SfsAssumption
<1>2. [type |-> "free", cached |-> TRUE, ref |-> 1, token |-> 1, links |-> 0, disk |-> 0, dirty |-> FALSE, lost |-> 0]
        \in NodeType
    BY <1>1 DEF NodeType
<1> DEFINE x == NewInode("free")
<1>3. x \in NodeType /\ x.type = "free"
    BY <1>2 DEF NewInode
<1> HIDE DEF x
<1>4. \A b \in BOOLEAN, r \in Int, t \in 0 .. TOKENS :
          LET y == [x EXCEPT !.cached = b, !.ref = r, !.token = t]
          IN  y \in NodeType /\ y.type = x.type /\ y.cached = b /\ y.ref = r
    BY <1>3 DEF NodeType
<1>5. Absent = [x EXCEPT !.cached = FALSE, !.ref = 0, !.token = 0]
    BY DEF Absent, x
<1>6. FALSE \in BOOLEAN /\ 0 \in Int
    OBVIOUS
<1>7. Absent \in NodeType /\ Absent.type = x.type /\ Absent.cached = FALSE /\ Absent.ref = 0
    BY <1>1, <1>4, <1>5, <1>6, Zenon
<1> QED
    BY <1>3, <1>7

(* The inodes after the entries of a removed directory have gone.          *)
LEMMA TruncatedOK ==
    ASSUME SfsShape, NEW i \in Inos
    PROVE  /\ Truncated(i) \in [Inos -> NodeType]
           /\ \A j \in Inos :
                LET x == nd[j]
                    y == Truncated(i)[j]
                IN  /\ y.type = x.type /\ y.cached = x.cached /\ y.ref = x.ref /\ y.token = x.token
                    /\ y.links = x.links /\ y.disk = x.disk /\ y.dirty = x.dirty
                    /\ y.lost = x.lost + (IF nd[i].links = 0 /\ j # i THEN Gone(i, j) ELSE 0)
<1> DEFINE g(j) == IF nd[i].links = 0 /\ j # i THEN Gone(i, j) ELSE 0
<1>1. \A j : g(j) \in Nat
    <2>1. \A j : {n \in AllNames : ent[i][n] = j} \subseteq AllNames
        OBVIOUS
    <2> QED
        BY <2>1, InosFinite, FS_Subset, FS_CardinalityType DEF Gone
<1>2. Truncated(i) = [j \in Inos |-> [nd[j] EXCEPT !.lost = @ + g(j)]]
    BY DEF Truncated, Gone
<1> HIDE DEF g
<1>3. ASSUME NEW j \in Inos
      PROVE  LET x == nd[j]
                 y == Truncated(i)[j]
             IN  /\ y \in NodeType /\ y.type = x.type /\ y.cached = x.cached /\ y.ref = x.ref /\ y.token = x.token
                 /\ y.links = x.links /\ y.disk = x.disk /\ y.dirty = x.dirty /\ y.lost = x.lost + g(j)
    <2>1. nd[j] \in NodeType /\ g(j) \in Nat
        BY <1>1 DEF SfsShape, NdTyped
    <2>2. Truncated(i)[j] = [nd[j] EXCEPT !.lost = @ + g(j)]
        BY <1>2
    <2> QED
        BY <2>1, <2>2, NodeLost
<1>4. Truncated(i) \in [Inos -> NodeType]
    BY <1>2, <1>3
<1> QED
    BY <1>3, <1>4 DEF g

(* The entries after those of a removed directory have gone.               *)
LEMMA EmptiedOK ==
    ASSUME ent \in Entries, NEW i \in Inos
    PROVE  /\ Emptied(i) \in Entries
           /\ \A x \in Inos, y \in AllNames : Emptied(i)[x][y] = IF x = i /\ nd[i].links = 0 THEN 0 ELSE ent[x][y]
           /\ \A x \in Inos : x # i => Emptied(i)[x] = ent[x]
BY DEF Emptied, Entries

(* Reclaim keeps the types, the counts and what mutex_sem protects, and the*)
(* name space.                                                             *)
LEMMA ReclaimSafe ==
    ASSUME SfsShape, SfsCounted, MutexInv, NameSpace, NEW p \in Procs, Reclaim(p)
    PROVE  SfsShape' /\ SfsCounted' /\ MutexInv' /\ NameSpace'
<1> DEFINE i == pr[p].claim
           T == Truncated(i)
           x == IF nd[i].links = 0 THEN Absent
                ELSE [T[i] EXCEPT !.cached = FALSE, !.token = 0, !.disk = Flushed(i), !.dirty = FALSE]
<1>1. /\ i # 0 /\ ~Busy(i) /\ ent' = Emptied(i) /\ nd' = [T EXCEPT ![i] = x]
      /\ Set(p, [pr[p] EXCEPT !.claim = 0]) /\ UNCHANGED <<scene, mutex, fs, faults>>
    BY DEF Reclaim
<1>2. /\ i \in Inos /\ nd[i] \in NodeType /\ nd[i].cached /\ nd[i].type # "free"
      /\ Cardinality(Claims(i)) \in Nat /\ Cardinality(Claims(i)) >= 1
      /\ nd[i].token >= Cardinality(Claims(i)) + One(nd[i].ref > 0)
    BY <1>1, ClaimHeld
<1>3. nd[i].ref = 0 /\ Cardinality(Claims(i)) = 1
    BY <1>1, <1>2 DEF Busy, One
<1>4. i # ROOT /\ ent \in Entries
    BY <1>3, RootLive, NamesType DEF NameSpace
<1>5. /\ T \in [Inos -> NodeType]
      /\ \A j \in Inos : /\ T[j].type = nd[j].type /\ T[j].cached = nd[j].cached /\ T[j].ref = nd[j].ref
                         /\ T[j].token = nd[j].token /\ T[j].links = nd[j].links /\ T[j].disk = nd[j].disk
                         /\ T[j].dirty = nd[j].dirty
                         /\ T[j].lost = nd[j].lost + (IF nd[i].links = 0 /\ j # i THEN Gone(i, j) ELSE 0)
    BY <1>2, TruncatedOK
<1>6. /\ x \in NodeType /\ x.ref = 0 /\ ~x.cached
      /\ nd[i].links = 0 => x.type = "free"
      /\ nd[i].links # 0 => x.type = nd[i].type /\ x.lost = nd[i].lost /\ x.disk = nd[i].links
    <2>1. CASE nd[i].links = 0
        BY <2>1, AbsentOK
    <2>2. CASE nd[i].links # 0
        <3>1. Flushed(i) = nd[i].links
            BY <1>2 DEF Flushed, NameSpace, SavedInv
        <3>2. FALSE \in BOOLEAN /\ 0 \in 0 .. TOKENS /\ Flushed(i) \in Nat /\ T[i] \in NodeType
            BY <1>2, <1>5, <3>1, SfsAssumption DEF NodeType
        <3> HIDE DEF T
        <3> DEFINE y == Flush(T[i], FALSE, Flushed(i))
        <3>3. /\ y \in NodeType /\ y.type = T[i].type /\ y.cached = FALSE /\ y.ref = T[i].ref /\ y.disk = Flushed(i)
              /\ y.lost = T[i].lost
            BY <3>2, NodeReclaimed, Zenon
        <3>6. x = y
            BY <2>2 DEF Flush
        <3> HIDE DEF x, y
        <3>4. /\ x \in NodeType /\ x.type = T[i].type /\ x.cached = FALSE /\ x.ref = T[i].ref /\ x.disk = Flushed(i)
              /\ x.lost = T[i].lost
            BY <3>3, <3>6
        <3>5. T[i].lost = nd[i].lost
            BY <1>2, <1>5 DEF NodeType
        <3> QED
            BY <1>2, <1>3, <1>5, <2>2, <3>1, <3>4, <3>5
    <2> QED
        BY <2>1, <2>2
<1> HIDE DEF T, x
<1>7. nd'[i] = x /\ \A j \in Inos : j # i => nd'[j] = T[j]
    BY <1>1, <1>2, <1>5
<1>8. NdTyped'
    BY <1>1, <1>2, <1>5, <1>6 DEF NdTyped
<1>9. /\ ent' \in Entries
      /\ \A y \in Inos, n \in AllNames : ent'[y][n] = IF y = i /\ nd[i].links = 0 THEN 0 ELSE ent[y][n]
      /\ \A y \in Inos : y # i => ent'[y] = ent[y]
    BY <1>1, <1>2, <1>4, EmptiedOK
<1>10. RestTyped'
    BY <1>1, <1>9 DEF SfsShape, RestTyped, Entries
<1>11. /\ \A j \in Inos : nd'[j].ref = nd[j].ref
       /\ \A j \in Inos : j # i => /\ nd'[j].type = nd[j].type /\ nd'[j].cached = nd[j].cached
                                   /\ nd'[j].token = nd[j].token
       /\ \A j \in Inos : nd[j].ref >= 1 => ent'[j] = ent[j] /\ nd'[j].type = nd[j].type
    BY <1>3, <1>5, <1>6, <1>7, <1>9
<1>12. i = pr[p].claim
    OBVIOUS
<1>13. Set(p, [pr[p] EXCEPT !.claim = 0]) /\ mutex' = mutex /\ faults' = faults
    BY <1>1
<1> HIDE DEF i
<1>14. SfsShape' /\ SfsCounted' /\ MutexInv'
    BY <1>2, <1>3, <1>6, <1>7, <1>8, <1>10, <1>11, <1>12, <1>13, StepClaim
<1>15. NameSpace'
    <2> DEFINE cut == nd[i].links = 0
    <2>1. cut \in BOOLEAN /\ (cut => nd[i].links = 0)
        OBVIOUS
    <2>2. \A y \in Inos, n \in AllNames : ent'[y][n] = IF y = i /\ cut THEN 0 ELSE ent[y][n]
        BY <1>9
    <2>3. \A j \in Inos \ {i} :
              /\ nd'[j].type = nd[j].type /\ nd'[j].cached = nd[j].cached /\ nd'[j].links = nd[j].links
              /\ nd'[j].disk = nd[j].disk /\ nd'[j].dirty = nd[j].dirty
              /\ nd'[j].lost = nd[j].lost + IF cut THEN Gone(i, j) ELSE 0
        BY <1>5, <1>7
    <2>4. \/ cut /\ nd'[i].type = "free" /\ ~nd'[i].cached
          \/ /\ nd'[i].type = nd[i].type /\ nd'[i].lost = nd[i].lost /\ Counts(nd'[i]) = Counts(nd[i])
             /\ nd'[i].cached /\ ~nd'[i].dirty => nd'[i].disk = nd'[i].links
        BY <1>2, <1>6, <1>7 DEF Counts
    <2> HIDE DEF cut
    <2> QED
        BY <1>2, <1>4, <1>8, <1>9, <1>13, <2>1, <2>2, <2>3, <2>4, Shrunk
<1> QED
    BY <1>14, <1>15

(* ReclaimFails keeps the types, the counts and what mutex_sem protects,   *)
(* and the name space.                                                     *)
LEMMA ReclaimFailsSafe ==
    ASSUME SfsShape, SfsCounted, MutexInv, NameSpace, NEW p \in Procs, ReclaimFails(p)
    PROVE  SfsShape' /\ SfsCounted' /\ MutexInv' /\ NameSpace'
<1> DEFINE i == pr[p].claim
<1>1. /\ i # 0 /\ ~Busy(i) /\ Fault
      /\ \/ ent' = Emptied(i) /\ nd' = [Truncated(i) EXCEPT ![i].token = 0, ![i].dirty = TRUE]
         \/ ent' = ent /\ nd' = [nd EXCEPT ![i].token = 0, ![i].dirty = TRUE]
      /\ Set(p, [pr[p] EXCEPT !.claim = 0]) /\ UNCHANGED <<scene, mutex, fs>>
    BY DEF ReclaimFails
<1>2. /\ i \in Inos /\ nd[i] \in NodeType /\ nd[i].cached /\ nd[i].type # "free"
      /\ Cardinality(Claims(i)) \in Nat /\ Cardinality(Claims(i)) >= 1
      /\ nd[i].token >= Cardinality(Claims(i)) + One(nd[i].ref > 0)
    BY <1>1, ClaimHeld
<1>3. nd[i].ref = 0 /\ Cardinality(Claims(i)) = 1
    BY <1>1, <1>2, SMTT(60) DEF Busy, One
<1>4. i # ROOT /\ ent \in Entries
    BY <1>3, RootLive, NamesType DEF NameSpace
<1> DEFINE full == ent' = Emptied(i) /\ nd' = [Truncated(i) EXCEPT ![i].token = 0, ![i].dirty = TRUE]
           cut == full /\ nd[i].links = 0
           T == IF full THEN Truncated(i) ELSE nd
<1>5. nd' = [T EXCEPT ![i].token = 0, ![i].dirty = TRUE]
    BY <1>1, ZenonT(60)
<1>6. /\ T \in [Inos -> NodeType]
      /\ \A j \in Inos : /\ T[j].type = nd[j].type /\ T[j].cached = nd[j].cached /\ T[j].ref = nd[j].ref
                         /\ T[j].token = nd[j].token /\ T[j].links = nd[j].links /\ T[j].disk = nd[j].disk
                         /\ T[j].dirty = nd[j].dirty
                         /\ T[j].lost = nd[j].lost + (IF cut /\ j # i THEN Gone(i, j) ELSE 0)
    <2>1. CASE full
        <3>1. T = Truncated(i) /\ (cut <=> nd[i].links = 0)
            BY <2>1
        <3> HIDE DEF T, cut, full
        <3>2. /\ Truncated(i) \in [Inos -> NodeType]
              /\ \A j \in Inos :
                 LET y == Truncated(i)[j]
                 IN  /\ y.type = nd[j].type /\ y.cached = nd[j].cached /\ y.ref = nd[j].ref
                     /\ y.token = nd[j].token /\ y.links = nd[j].links /\ y.disk = nd[j].disk
                     /\ y.dirty = nd[j].dirty
                     /\ y.lost = nd[j].lost + (IF nd[i].links = 0 /\ j # i THEN Gone(i, j) ELSE 0)
            BY <1>2, TruncatedOK
        <3> QED
            BY <3>1, <3>2
    <2>2. CASE ~full
        <3>1. T = nd /\ ~cut
            BY <2>2
        <3> HIDE DEF T, cut, full
        <3>2. nd \in [Inos -> NodeType] /\ \A j \in Inos : nd[j].lost \in Nat
            BY SMTT(60) DEF SfsShape, NdTyped, NodeType
        <3> QED
            BY <3>1, <3>2
    <2> QED
        BY <2>1, <2>2
<1>7. /\ ent' \in Entries
      /\ \A y \in Inos, n \in AllNames : ent'[y][n] = IF y = i /\ cut THEN 0 ELSE ent[y][n]
      /\ \A y \in Inos : y # i => ent'[y] = ent[y]
    <2>1. CASE full
        <3>1. ent' = Emptied(i) /\ (cut <=> nd[i].links = 0)
            BY <2>1
        <3> HIDE DEF cut, full
        <3> QED
            BY <1>2, <1>4, <3>1, EmptiedOK
    <2>2. CASE ~full
        <3>1. ent' = ent /\ ~cut
            BY <1>1, <2>2
        <3> QED
            BY <1>4, <3>1
    <2> QED
        BY <2>1, <2>2
<1>8. cut \in BOOLEAN /\ (cut => nd[i].links = 0) /\ i = pr[p].claim
    OBVIOUS
<1>9. Set(p, [pr[p] EXCEPT !.claim = 0]) /\ mutex' = mutex /\ (faults' = faults \/ Fault)
    BY <1>1
<1>10. RestTyped'
    BY <1>1, <1>7, Faulted DEF SfsShape, RestTyped, Entries
<1> HIDE DEF T, cut, full, i
<1> DEFINE x == [T[i] EXCEPT !.token = 0, !.dirty = TRUE]
<1>11. /\ x \in NodeType /\ x.type = T[i].type /\ x.cached = T[i].cached /\ x.ref = T[i].ref /\ x.token = 0
       /\ x.links = T[i].links /\ x.disk = T[i].disk /\ x.dirty = TRUE /\ x.lost = T[i].lost
    <2>1. T[i] \in NodeType /\ TRUE \in BOOLEAN /\ 0 \in 0 .. TOKENS
        BY <1>2, <1>6, SfsAssumption
    <2> QED
        BY <2>1, NodeFailed, ZenonT(60)
<1>12. nd' = [T EXCEPT ![i] = x]
    BY <1>2, <1>5, <1>6
<1> HIDE DEF x
<1>13. nd'[i] = x /\ \A j \in Inos : j # i => nd'[j] = T[j]
    BY <1>2, <1>6, <1>12
<1>14. NdTyped'
    BY <1>2, <1>6, <1>11, <1>12 DEF NdTyped
<1>15. /\ \A j \in Inos : nd'[j].ref = nd[j].ref /\ nd'[j].type = nd[j].type /\ nd'[j].cached = nd[j].cached
       /\ \A j \in Inos : j # i => nd'[j].token = nd[j].token
       /\ \A j \in Inos : nd[j].ref >= 1 => ent'[j] = ent[j]
    BY <1>2, <1>3, <1>6, <1>7, <1>11, <1>13
<1>16. IF nd'[i].cached THEN nd'[i].token >= Cardinality(Claims(i)) - 1 + One(nd[i].ref > 0)
       ELSE nd[i].ref = 0 /\ Cardinality(Claims(i)) = 1
    BY <1>3, <1>11, <1>13 DEF One
<1>17. SfsShape' /\ SfsCounted' /\ MutexInv'
    BY <1>2, <1>8, <1>9, <1>10, <1>14, <1>15, <1>16, StepClaim
<1>18. NameSpace'
    <2>1. \A j \in Inos \ {i} :
              /\ nd'[j].type = nd[j].type /\ nd'[j].cached = nd[j].cached /\ nd'[j].links = nd[j].links
              /\ nd'[j].disk = nd[j].disk /\ nd'[j].dirty = nd[j].dirty
              /\ nd'[j].lost = nd[j].lost + IF cut THEN Gone(i, j) ELSE 0
        BY <1>6, <1>13
    <2>2. /\ nd'[i].type = nd[i].type /\ nd'[i].lost = nd[i].lost /\ Counts(nd'[i]) = Counts(nd[i])
          /\ nd'[i].cached /\ ~nd'[i].dirty => nd'[i].disk = nd'[i].links
        <3>1. T[i].lost = nd[i].lost
            BY <1>2, <1>6 DEF NodeType
        <3>2. T[i].cached = nd[i].cached /\ T[i].links = nd[i].links /\ T[i].disk = nd[i].disk /\ T[i].type = nd[i].type
            BY <1>2, <1>6
        <3> QED
            BY <1>11, <1>13, <3>1, <3>2 DEF Counts
    <2> QED
        BY <1>2, <1>4, <1>7, <1>8, <1>9, <1>14, <2>1, <2>2, Shrunk
<1> QED
    BY <1>17, <1>18

-----------------------------------------------------------------------------
(* A change of names and links of inodes in use.                           *)
Relinked(j) ==
    /\ nd'[j].type = nd[j].type /\ nd'[j].cached = nd[j].cached
    /\ nd'[j].lost = nd[j].lost /\ nd'[j].disk = nd[j].disk
    /\ nd'[j].links - nd[j].links = Naming(ent', j) - Naming(ent, j)
    /\ ~nd'[j].dirty \/ ~nd[j].cached => nd'[j].links = nd[j].links
    /\ ~nd'[j].dirty => ~nd[j].dirty
Created(j) ==
    /\ nd'[j].type # "free" /\ nd'[j].cached
    /\ nd'[j].links = Naming(ent', j) + nd'[j].lost
    /\ ~nd'[j].dirty => nd'[j].disk = nd'[j].links

(* When the links of every inode change as its names do, and a new inode   *)
(* has as many links as names, LinksExact holds again.                     *)
LEMMA LinksRelinked ==
    ASSUME SfsShape, SfsCounted, NameSpace, NdTyped', \A j \in Inos : Relinked(j) \/ Created(j)
    PROVE  LinksExact' /\ SavedInv' /\ \A j \in Inos : nd'[j].type = "free" => Naming(ent', j) = 0
<1>1. \A e, j : Naming(e, j) \in Nat
    BY NamingFinite
<1>2. \A j \in Inos : IF nd[j].type = "free" THEN Naming(ent, j) = 0
                      ELSE Counts(nd[j]) = Naming(ent, j) + nd[j].lost
    BY LinksCount DEF NameSpace
<1>3. \A j \in Inos : nd[j].links \in Nat /\ nd'[j].links \in Nat /\ nd[j].lost \in Nat
    BY DEF SfsShape, NdTyped, NodeType
<1>4. ASSUME NEW j \in Inos
      PROVE  IF nd'[j].type = "free" THEN Naming(ent', j) = 0
             ELSE Counts(nd'[j]) = Naming(ent', j) + nd'[j].lost
    <2>1. CASE Created(j)
        BY <2>1 DEF Created, Counts
    <2>2. CASE Relinked(j)
        <3>1. /\ nd'[j].type = nd[j].type /\ nd'[j].cached = nd[j].cached
              /\ nd'[j].lost = nd[j].lost /\ nd'[j].disk = nd[j].disk
              /\ ~nd[j].cached => nd'[j].links = nd[j].links
            BY <2>2 DEF Relinked
        <3>2. nd'[j].links - nd[j].links = Naming(ent', j) - Naming(ent, j)
            BY <2>2 DEF Relinked
        <3>3. nd'[j].links = nd[j].links => Naming(ent', j) = Naming(ent, j)
            BY <1>1, <1>3, <3>2
        <3>4. CASE nd[j].type = "free"
            <4>1. ~nd[j].cached
                BY <3>4 DEF SfsCounted, FreeInv
            <4> QED
                BY <1>2, <3>1, <3>3, <3>4, <4>1
        <3>5. CASE nd[j].type # "free" /\ ~nd[j].cached
            BY <1>2, <3>1, <3>3, <3>5 DEF Counts
        <3>6. CASE nd[j].type # "free" /\ nd[j].cached
            <4>1. nd[j].links = Naming(ent, j) + nd[j].lost
                BY <1>2, <3>6 DEF Counts
            <4>2. nd'[j].links = Naming(ent', j) + nd[j].lost
                BY <1>1, <1>3, <3>2, <4>1
            <4> QED
                BY <3>1, <3>6, <4>2 DEF Counts
        <3> QED
            BY <3>4, <3>5, <3>6
    <2> QED
        BY <2>1, <2>2
<1>5. SavedInv'
    <2> SUFFICES ASSUME NEW j \in Inos, nd'[j].cached, ~nd'[j].dirty PROVE nd'[j].disk = nd'[j].links
        BY DEF SavedInv
    <2> QED
        BY DEF Relinked, Created, SavedInv, NameSpace
<1> QED
    BY <1>4, <1>5 DEF LinksExact, Counts

(* sfs_create, sfs_mkdir and sfs_symlink take a block nobody refers to.    *)
LEMMA FreeBlock ==
    ASSUME SfsShape, Free # {}
    PROVE  Min(Free) \in Inos /\ nd[Min(Free)].type = "free"
<1>1. Free \subseteq Nat
    BY InosFinite DEF Free
<1>2. \E x \in Free : \A y \in Free : x <= y
    BY <1>1, Least
<1>3. Min(Free) \in Free
    BY <1>2 DEF Min
<1> QED
    BY <1>3 DEF Free

(* A call that is about to create a name: what it has in hand, and that the*)
(* block it takes is one nobody refers to.                                 *)
LEMMA Maker ==
    ASSUME SfsShape, SfsCounted, MutexInv, NEW p \in Procs, Makes(p)
    PROVE  LET o == pr[p]
               d == o.hold[1]
               i == Min(Free)
           IN  /\ o \in ProcType /\ ProcOK(o) /\ HoldOK(o) /\ o.at = "call" /\ o.drop = <<>> /\ o.claim = 0
               /\ ~o.second /\ o.call.op \in Builders
               /\ \A j : Three(o.hold, j) = One(d = j)
               /\ d \in Inos /\ nd[d].ref >= 1 /\ nd[d].cached /\ nd[d].type = "dir" /\ nd[d] \in NodeType
               /\ i \in Inos /\ nd[i].type = "free" /\ ~nd[i].cached /\ nd[i].ref = 0
               /\ Cardinality(Claims(i)) = 0 /\ Count(o, i) = 0 /\ i # d /\ i # ROOT
               /\ Last(o.call.path) \in FileNames /\ ent[d][Last(o.call.path)] = 0
               /\ mutex = None
<1> DEFINE o == pr[p]
           d == o.hold[1]
           i == Min(Free)
<1>1. /\ o.at = "call" /\ o.drop = <<>> /\ o.claim = 0 /\ o.call.op \in Builders /\ nd[d].type = "dir"
      /\ ent[d][Last(o.call.path)] = 0 /\ mutex = None /\ Free # {}
    BY DEF Makes, May, Stands, IsDir, Dir, Op, Name
<1>2. o \in ProcType /\ ProcOK(o) /\ HoldOK(o)
    BY Of
<1>3. ~o.second /\ Last(o.call.path) \in FileNames
    BY <1>1, <1>2 DEF ProcOK, PathsOK, Builders
<1>4. o.hold \in Seq(Inos) /\ d \in Inos /\ Count(o, d) # 0 /\ Len(o.hold) = 1
    BY <1>1, <1>2, <1>3, InHand
<1>5. \A j : Three(o.hold, j) = One(d = j)
    BY <1>4 DEF Three, One
<1>6. nd[d].ref >= 1 /\ nd[d].cached /\ nd[d] \in NodeType
    BY <1>4, HeldLive
<1>7. i \in Inos /\ nd[i].type = "free"
    BY <1>1, FreeBlock
<1>8. ~nd[i].cached
    BY <1>7 DEF SfsCounted, FreeInv
<1>9. nd[i].ref = 0 /\ Claims(i) = {}
    BY <1>7, <1>8 DEF SfsCounted, TokenInv, TokenOK
<1>10. Cardinality(Claims(i)) = 0
    BY <1>9, FS_EmptySet
<1>11. Count(o, i) = 0
    BY <1>7, <1>8, HeldLive
<1>12. i # d /\ i # ROOT
    BY <1>1, <1>7, <1>8, RootLive
<1> QED
    BY <1>1, <1>2, <1>3, <1>4, <1>5, <1>6, <1>7, <1>8, <1>9, <1>10, <1>11, <1>12

(* A step that puts a new inode in memory with one reference, its maker's, *)
(* keeps the counts.                                                       *)
LEMMA StepNew ==
    ASSUME SfsShape, SfsCounted, MutexInv, NEW p \in Procs, Makes(p), NEW s \in ProcType, ProcOK(s), Set(p, s),
           s.at \notin Under, s.claim = 0, NEW i, i = Min(Free),
           \A j : Count(s, j) = Count(pr[p], j) + One(i = j),
           NdTyped', RestTyped', nd'[i].type # "free", nd'[i].cached, nd'[i].ref = 1, nd'[i].token = 1,
           \A j \in Inos : j # i => Alike(j)
    PROVE  SfsShape' /\ SfsCounted' /\ MutexInv'
<1>1. /\ i \in Inos /\ nd[i].ref = 0 /\ Cardinality(Claims(i)) = 0 /\ Count(pr[p], i) = 0 /\ mutex = None
      /\ pr[p].claim = 0
    BY Maker
<1>2. ASSUME NEW j \in Inos PROVE nd'[j].ref = nd[j].ref + Count(s, j) - Count(pr[p], j)
    <2>1. CASE j = i
        <3>1. Count(s, i) = 1
            BY <1>1 DEF One
        <3> QED
            BY <1>1, <2>1, <3>1
    <2>2. CASE j # i
        <3>1. Count(pr[p], j) \in Nat
            BY DEF Count, Three, One
        <3>2. Count(s, j) = Count(pr[p], j)
            BY <2>2, <3>1 DEF One
        <3>3. nd[j].ref \in Int /\ nd'[j].ref = nd[j].ref
            BY <2>2 DEF Alike, SfsShape, NdTyped, NodeType
        <3> QED
            BY <3>1, <3>2, <3>3
    <2> QED
        BY <2>1, <2>2
<1>3. \A j \in Inos : nd'[j].type = "free" => ~nd'[j].cached
    BY DEF SfsCounted, FreeInv, Alike
<1>4. ASSUME NEW j \in Inos PROVE TokenAfter(p, s, j)
    <2>1. CASE j = i
        <3>1. After(p, s, i) = 0
            <4>1. s.claim # i /\ pr[p].claim # i
                BY <1>1, InosFinite
            <4> QED
                BY <1>1, <4>1 DEF After, One
        <3>2. One(nd'[i].ref > 0) = 1
            BY DEF One
        <3> QED
            BY <2>1, <3>1, <3>2 DEF TokenAfter
    <2>2. CASE j # i
        BY <1>1, <2>2, TokenSame DEF Alike, SfsCounted, SfsShape
    <2> QED
        BY <2>1, <2>2
<1>5. \A q \in Procs \ {p} : Undisturbed(q)
    BY <1>1, SfsAssumption DEF Undisturbed, MutexInv, MutexOK
<1>6. SelfOK(p, s)
    BY DEF SelfOK
<1> QED
    BY <1>2, <1>3, <1>4, <1>5, <1>6, Step

(* The call goes on with the new inode, or gives it back.                  *)
LEMMA MadeOK ==
    ASSUME SfsShape, SfsCounted, MutexInv, NEW p \in Procs, Makes(p)
    PROVE  LET o == pr[p]
               d == o.hold[1]
               i == Min(Free)
               s == [Returned(o) EXCEPT !.drop = <<i, d>>]
           IN  /\ s \in ProcType /\ ProcOK(s) /\ s.claim = 0 /\ s.at \notin Under
               /\ \A j : Count(s, j) = Count(o, j) + One(i = j)
<1> DEFINE o == pr[p]
           d == o.hold[1]
           i == Min(Free)
           q == <<i, d>>
           s == [Returned(o) EXCEPT !.drop = q]
<1>1. /\ o \in ProcType /\ HoldOK(o) /\ o.drop = <<>> /\ i \in Inos /\ d \in Inos
      /\ \A j : Three(o.hold, j) = One(d = j)
    BY Maker
<1>2. q \in Seq(Inos) /\ Len(q) <= 3 /\ \A j : Three(q, j) = One(i = j) + One(d = j)
    BY <1>1, ThreeTwo
<1> HIDE DEF q, i
<1>3. s \in ProcType /\ ProcOK(s) /\ s.claim = 0 /\ s.at = "idle"
    BY <1>1, <1>2, Gives
<1>4. s.drop = q /\ s.hold = <<>> /\ s.open = o.open
    BY DEF Returned, Idle
<1> HIDE DEF s, o
<1>5. ASSUME NEW j PROVE Count(s, j) = Count(o, j) + One(i = j)
    <2>1. Count(s, j) = 0 + (One(i = j) + One(d = j)) + One(o.open = j)
        BY <1>2, <1>4, ThreeNone DEF Count
    <2>2. Count(o, j) = One(d = j) + 0 + One(o.open = j)
        BY <1>1, ThreeNone DEF Count
    <2>3. One(i = j) \in Int /\ One(d = j) \in Int /\ One(o.open = j) \in Int
        BY DEF One
    <2> HIDE DEF d
    <2>4. \A a, b, c \in Int : 0 + (a + b) + c = (b + 0 + c) + a
        OBVIOUS
    <2> QED
        BY <2>1, <2>2, <2>3, <2>4
<1> QED
    BY <1>3, <1>5 DEF Under, s, q, o, i

(* The process that made a file goes on to open it, with a reference to the*)
(* file and one to the directory to drop.                                  *)
LEMMA OpensMade ==
    ASSUME SfsShape, SfsCounted, MutexInv, NEW p \in Procs, Makes(p), pr[p].call.op = "make"
    PROVE  LET o == pr[p]
               d == o.hold[1]
               i == Min(Free)
               s == [o EXCEPT !.call.op = "open", !.hold = <<i>>, !.drop = <<d>>]
           IN  /\ s \in ProcType /\ ProcOK(s) /\ s.claim = 0 /\ s.at \notin Under
               /\ \A j : Count(s, j) = Count(o, j) + One(i = j)
<1> DEFINE o == pr[p]
           d == o.hold[1]
           i == Min(Free)
           s == [o EXCEPT !.call.op = "open", !.hold = <<i>>, !.drop = <<d>>]
<1>1. /\ o \in ProcType /\ ProcOK(o) /\ HoldOK(o) /\ o.at = "call" /\ o.drop = <<>> /\ o.claim = 0
      /\ ~o.second /\ i \in Inos /\ d \in Inos
      /\ \A j : Three(o.hold, j) = One(d = j)
    BY Maker
<1> HIDE DEF i, o, d
<1>2. /\ s.at = o.at /\ s.second = o.second /\ s.rest = o.rest /\ s.hold = <<i>> /\ s.ino = o.ino
      /\ s.drop = <<d>> /\ s.claim = o.claim /\ s.open = o.open
      /\ s.call.op = "open" /\ s.call.path = o.call.path /\ s.call.to = o.call.to /\ s \in ProcType
    <2>1. o.call \in [op : Ops \cup {"none"}, path : Seq(AllNames), to : Seq(AllNames)] /\ "open" \in Ops
        BY <1>1 DEF ProcType, Ops
    <2> DEFINE c == [o.call EXCEPT !.op = "open"]
    <2>2. /\ c \in [op : Ops \cup {"none"}, path : Seq(AllNames), to : Seq(AllNames)]
          /\ c.op = "open" /\ c.path = o.call.path /\ c.to = o.call.to
        BY <2>1
    <2>3. s = [o EXCEPT !.call = c, !.hold = <<i>>, !.drop = <<d>>]
        OBVIOUS
    <2>4. <<i>> \in Seq(Inos) /\ <<d>> \in Seq(Inos)
        BY <1>1
    <2> DEFINE hi == <<i>>
               hd == <<d>>
    <2> HIDE DEF c, hi, hd
    <2>5. LET r == [o EXCEPT !.call = c, !.hold = hi, !.drop = hd]
          IN  /\ r.at = o.at /\ r.second = o.second /\ r.rest = o.rest /\ r.hold = hi /\ r.ino = o.ino
              /\ r.drop = hd /\ r.claim = o.claim /\ r.open = o.open /\ r.call = c /\ r \in ProcType
        <3>1. hi \in Seq(Inos) /\ hd \in Seq(Inos)
            BY <2>4 DEF hi, hd
        <3> QED
            BY <1>1, <2>2, <3>1 DEF ProcType
    <2>6. s = [o EXCEPT !.call = c, !.hold = hi, !.drop = hd]
        BY <2>3 DEF hi, hd
    <2> HIDE DEF s
    <2> QED
        BY <2>2, <2>5, <2>6 DEF hi, hd
<1> HIDE DEF s
<1>3. HoldOK(s)
    <2>1. Len(s.hold) = 1 /\ Len(s.drop) = 1
        BY <1>2
    <2> QED
        BY <1>1, <1>2, <2>1 DEF HoldOK
<1>4. o.open = 0
    BY <1>1 DEF ProcOK, o
<1>5. PathsOK(s.call)
    BY <1>2 DEF PathsOK, Ops, Removers, Creators, Builders
<1>6. ProcOK(s)
    BY <1>1, <1>2, <1>3, <1>4, <1>5 DEF ProcOK, Under
<1>7. ASSUME NEW j PROVE Count(s, j) = Count(o, j) + One(i = j)
    <2>1. Count(s, j) = One(i = j) + One(d = j) + One(o.open = j)
        BY <1>2, ThreeOne DEF Count
    <2>2. Count(o, j) = One(d = j) + 0 + One(o.open = j)
        BY <1>1, ThreeNone DEF Count
    <2>3. One(i = j) \in Int /\ One(d = j) \in Int /\ One(o.open = j) \in Int
        BY DEF One
    <2>4. \A a, b, c \in Int : a + b + c = (b + 0 + c) + a
        OBVIOUS
    <2> QED
        BY <2>1, <2>2, <2>3, <2>4
<1> QED
    BY <1>1, <1>2, <1>6, <1>7 DEF Under, s, i, o, d

(* The new inode.                                                          *)
Fresh(t, b) == [NewInode(t) EXCEPT !.dirty = b]
NewLinked(t, k, b) == [NewInode(t) EXCEPT !.links = k, !.dirty = b]

(* The fields of a new inode.                                              *)
LEMMA NodeFresh ==
    ASSUME NEW t \in {"file", "dir"}, NEW b \in BOOLEAN
    PROVE  LET x == Fresh(t, b)
           IN  /\ x \in NodeType /\ x.type = t /\ x.cached /\ x.ref = 1 /\ x.token = 1 /\ x.links = 0
               /\ x.disk = 0 /\ x.lost = 0 /\ x.dirty = b
<1>1. 0 \in 0 .. TOKENS /\ 1 \in 0 .. TOKENS
    BY SfsAssumption
<1> DEFINE n == NewInode(t)
<1>2. /\ n \in NodeType /\ n.type = t /\ n.cached = TRUE /\ n.ref = 1 /\ n.token = 1 /\ n.links = 0 /\ n.disk = 0
      /\ n.lost = 0
    BY <1>1 DEF NewInode, NodeType
<1> HIDE DEF n
<1>3. LET x == [n EXCEPT !.dirty = b]
      IN  /\ x \in NodeType /\ x.type = t /\ x.cached /\ x.ref = 1 /\ x.token = 1 /\ x.links = 0
          /\ x.disk = 0 /\ x.lost = 0 /\ x.dirty = b
    BY <1>2 DEF NodeType
<1> QED
    BY <1>3 DEF Fresh, n

(* The fields of a new inode that has been entered in a directory.         *)
LEMMA NodeNamed ==
    ASSUME NEW t \in {"file", "dir"}, NEW k \in Nat, NEW b \in BOOLEAN
    PROVE  LET x == NewLinked(t, k, b)
           IN  /\ x \in NodeType /\ x.type = t /\ x.cached /\ x.ref = 1 /\ x.token = 1 /\ x.links = k
               /\ x.lost = 0 /\ x.dirty = b
<1>1. 0 \in 0 .. TOKENS /\ 1 \in 0 .. TOKENS
    BY SfsAssumption
<1> DEFINE n == NewInode(t)
<1>2. /\ n \in NodeType /\ n.type = t /\ n.cached = TRUE /\ n.ref = 1 /\ n.token = 1 /\ n.links = 0 /\ n.disk = 0
      /\ n.lost = 0
    BY <1>1 DEF NewInode, NodeType
<1> HIDE DEF n
<1>3. LET x == [n EXCEPT !.links = k, !.dirty = b]
      IN  /\ x \in NodeType /\ x.type = t /\ x.cached /\ x.ref = 1 /\ x.token = 1 /\ x.links = k
          /\ x.lost = 0 /\ x.dirty = b
    BY <1>2 DEF NodeType
<1> QED
    BY <1>3 DEF NewLinked, n

(* The inode of a directory whose entries changed.                         *)
Edited(x, k, b) == [x EXCEPT !.links = k, !.dirty = b]

(* The fields of an inode whose nlinks is set.                             *)
LEMMA NodeEdited ==
    ASSUME NEW x \in NodeType, NEW k \in Nat, NEW b \in BOOLEAN
    PROVE  LET y == Edited(x, k, b)
           IN  /\ y \in NodeType /\ y.type = x.type /\ y.cached = x.cached /\ y.ref = x.ref /\ y.token = x.token
               /\ y.links = k /\ y.disk = x.disk /\ y.lost = x.lost /\ y.dirty = b
BY DEF NodeType, Edited

(* MakeFails keeps the types, the counts and what mutex_sem protects, and  *)
(* the name space.                                                         *)
LEMMA MakeFailsSafe ==
    ASSUME SfsShape, SfsCounted, MutexInv, NameSpace, NEW p \in Procs, NEW n, MakeFails(p, n)
    PROVE  SfsShape' /\ SfsCounted' /\ MutexInv' /\ NameSpace'
<1> DEFINE o == pr[p]
           d == o.hold[1]
           i == Min(Free)
           isdir == o.call.op = "mkdir"
           t == IF isdir THEN "dir" ELSE "file"
           x == Fresh(t, isdir)
           b == nd[d].dirty \/ (isdir /\ n = "")
           y == [nd[d] EXCEPT !.dirty = b]
           s == [Returned(o) EXCEPT !.drop = <<i, d>>]
<1>1. /\ Makes(p) /\ Fault /\ Set(p, s) /\ UNCHANGED <<scene, ent, mutex, fs>>
    BY DEF MakeFails, Op, Dir
<1>2. /\ d \in Inos /\ nd[d].type = "dir" /\ nd[d].cached /\ nd[d] \in NodeType
      /\ i \in Inos /\ nd[i].type = "free" /\ i # d /\ i # ROOT
    BY <1>1, Maker
<1>3. nd' = [nd EXCEPT ![i] = x, ![d].dirty = @ \/ (isdir /\ n = "")]
    BY DEF MakeFails, Op, Dir, Fresh
<1>4. /\ s \in ProcType /\ ProcOK(s) /\ s.claim = 0 /\ s.at \notin Under
      /\ \A j : Count(s, j) = Count(o, j) + One(i = j)
    BY <1>1, MadeOK
<1>5. t \in {"file", "dir"} /\ isdir \in BOOLEAN /\ b \in BOOLEAN
    BY <1>2 DEF NodeType
<1> HIDE DEF s, t, isdir, i
<1>6. /\ x \in NodeType /\ x.type = t /\ x.cached /\ x.ref = 1 /\ x.token = 1 /\ x.links = 0
      /\ x.disk = 0 /\ x.lost = 0
    BY <1>5, NodeFresh, ZenonT(60)
<1> HIDE DEF x
<1>7. nd \in [Inos -> NodeType]
    BY DEF SfsShape, NdTyped
<1>8. nd'[i] = x /\ nd'[d] = y /\ \A j \in Inos \ {i, d} : nd'[j] = nd[j]
    BY <1>2, <1>3, <1>7
<1> HIDE DEF b, o
<1>9. /\ y \in NodeType /\ y.type = nd[d].type /\ y.cached = nd[d].cached /\ y.ref = nd[d].ref
      /\ y.token = nd[d].token /\ y.links = nd[d].links /\ y.disk = nd[d].disk /\ y.lost = nd[d].lost /\ y.dirty = b
    BY <1>2, <1>5 DEF NodeType
<1>10. nd[d].dirty => b
    BY DEF b
<1> HIDE DEF y, d
<1>11. NdTyped'
    <2>1. \A j \in Inos : nd'[j] \in NodeType
        BY <1>6, <1>7, <1>8, <1>9
    <2>2. nd' = [j \in Inos |-> nd'[j]]
        BY <1>3, <1>7
    <2> QED
        BY <2>1, <2>2 DEF NdTyped
<1>12. RestTyped'
    BY <1>1, Faulted DEF SfsShape, RestTyped
<1>13. \A j \in Inos : j # i => Alike(j)
    BY <1>8, <1>9 DEF Alike
<1>14. SfsShape' /\ SfsCounted' /\ MutexInv'
    <2>1. i = Min(Free) /\ o = pr[p]
        BY DEF i, o
    <2>2. nd'[i].type # "free" /\ nd'[i].cached /\ nd'[i].ref = 1 /\ nd'[i].token = 1
        BY <1>5, <1>6, <1>8
    <2>3. \A j : Count(s, j) = Count(pr[p], j) + One(i = j)
        BY <1>4, <2>1
    <2>4. i = Min(Free) /\ Makes(p) /\ Set(p, s)
        BY <1>1, <2>1
    <2>5. s \in ProcType /\ ProcOK(s) /\ s.claim = 0 /\ s.at \notin Under
        BY <1>4
    <2> QED
        BY <1>11, <1>12, <1>13, <2>2, <2>3, <2>4, <2>5, StepNew
<1>15. /\ ent \in Entries
       /\ nd[ROOT].type = "dir" /\ ent[ROOT]["."] = ROOT /\ ent[ROOT][".."] = ROOT
       /\ \A j \in Inos : nd[j].type # "dir" => \A m \in AllNames : ent[j][m] = 0
       /\ \A j \in Inos : nd[j].type = "free" => Naming(ent, j) = 0
       /\ \A e \in Inos, m \in FileNames :
             LET j == ent[e][m] IN
             j # 0 /\ nd[j].type = "dir" =>
                 /\ j \notin {e, ROOT} /\ ent[j]["."] = j /\ ent[j][".."] = e
                 /\ \A l \in FileNames : ent[e][l] = j => l = m
    BY NamesType DEF NameSpace
<1>16. Naming(ent, i) = 0 /\ Naming(ent', i) = 0
    BY <1>1, <1>2, <1>15
<1>21. \A e \in Inos, m \in AllNames : ent[e][m] # i
    BY <1>16, NamedNowhere
<1>22. ent' = ent
    BY <1>1
<1>17. ASSUME NEW j \in Inos PROVE Relinked(j) \/ Created(j)
    <2>1. CASE j = i
        <3>1. nd'[i].links = Naming(ent', i) + nd'[i].lost
            BY <1>6, <1>8, <1>16
        <3> QED
            BY <1>5, <1>6, <1>8, <2>1, <3>1 DEF Created
    <2>2. CASE j # i
        <3>1. nd[j].links \in Nat /\ Naming(ent, j) \in Nat
            BY <1>7, NamingFinite DEF NodeType
        <3>2. nd'[j].links = nd[j].links
            BY <1>8, <1>9, <2>2
        <3>3. nd'[j].links - nd[j].links = Naming(ent', j) - Naming(ent, j)
            <4>1. \A a, c \in Nat : a - a = c - c
                OBVIOUS
            <4> QED
                BY <1>22, <3>1, <3>2, <4>1
        <3>4. /\ nd'[j].type = nd[j].type /\ nd'[j].cached = nd[j].cached
              /\ nd'[j].lost = nd[j].lost /\ nd'[j].disk = nd[j].disk
              /\ ~nd'[j].dirty => ~nd[j].dirty
            BY <1>8, <1>9, <1>10, <2>2
        <3> QED
            BY <3>2, <3>3, <3>4 DEF Relinked
    <2> QED
        BY <2>1, <2>2
<1>18. LinksExact' /\ SavedInv' /\ \A j \in Inos : nd'[j].type = "free" => Naming(ent', j) = 0
    BY <1>11, <1>17, LinksRelinked
<1>19. NamesInv'
    <2>1. \A j \in Inos : j # i => nd'[j].type = nd[j].type
        BY <1>13 DEF Alike
    <2>2. nd'[ROOT].type = "dir"
        BY <1>2, <1>15, <2>1, InosFinite
    <2>3. ASSUME NEW j \in Inos, nd'[j].type # "dir", NEW m \in AllNames PROVE ent'[j][m] = 0
        BY <1>2, <1>15, <1>22, <2>1, <2>3
    <2>4. ASSUME NEW e \in Inos, NEW m \in FileNames, NEW j, j = ent'[e][m], j # 0, nd'[j].type = "dir"
          PROVE  /\ j \notin {e, ROOT} /\ ent'[j]["."] = j /\ ent'[j][".."] = e
                 /\ \A l \in FileNames : ent'[e][l] = j => l = m
        <3>1. m \in AllNames
            BY InosFinite
        <3>2. j = ent[e][m] /\ j \in Inos /\ j # i
            BY <1>15, <1>21, <1>22, <2>4, <3>1 DEF Entries
        <3> QED
            BY <1>15, <1>22, <2>1, <2>4, <3>2
    <2> QED
        BY <1>11, <1>15, <1>22, <1>18, <2>2, <2>3, <2>4, NamesBack
<1>20. LoopInv'
    BY <1>1, Faulted DEF LoopInv
<1> QED
    BY <1>14, <1>18, <1>19, <1>20 DEF NameSpace

MadeIn(e, d, n, i, isdir) ==
    [e EXCEPT ![d][n] = i, ![i] = IF isdir THEN [@ EXCEPT !["."] = i, ![".."] = d] ELSE @]

(* The entries after a name is made: the new one and, for a directory, its *)
(* "." and "..".                                                           *)
LEMMA MadeEntries ==
    ASSUME NEW e \in Entries, NEW d \in Inos, NEW i \in Inos, d # i, NEW n \in FileNames, NEW isdir \in BOOLEAN
    PROVE  LET f == MadeIn(e, d, n, i, isdir)
           IN  /\ f \in Entries
               /\ \A x \in Inos, y \in AllNames :
                     f[x][y] = IF x = d /\ y = n THEN i
                               ELSE IF x = i /\ isdir /\ y = "." THEN i
                               ELSE IF x = i /\ isdir /\ y = ".." THEN d ELSE e[x][y]
<1>1. n \in AllNames /\ "." \in AllNames /\ ".." \in AllNames
    BY InosFinite
<1> DEFINE r == IF isdir THEN [e[i] EXCEPT !["."] = i, ![".."] = d] ELSE e[i]
           q == [e[d] EXCEPT ![n] = i]
           f == MadeIn(e, d, n, i, isdir)
<1>2. /\ r \in [AllNames -> Inos \cup {0}]
      /\ \A y \in AllNames : r[y] = IF isdir /\ y = "." THEN i ELSE IF isdir /\ y = ".." THEN d ELSE e[i][y]
    BY <1>1 DEF Entries
<1>3. q \in [AllNames -> Inos \cup {0}] /\ \A y \in AllNames : q[y] = IF y = n THEN i ELSE e[d][y]
    BY <1>1 DEF Entries
<1>4. f = [e EXCEPT ![d] = q, ![i] = r]
    BY DEF Entries, MadeIn
<1> HIDE DEF r, q, f
<1>5. f[d] = q /\ f[i] = r /\ \A x \in Inos : x \notin {d, i} => f[x] = e[x]
    BY <1>4 DEF Entries
<1>6. f \in Entries
    BY <1>2, <1>3, <1>4 DEF Entries
<1>7. ASSUME NEW x \in Inos, NEW y \in AllNames
      PROVE  f[x][y] = IF x = d /\ y = n THEN i
                       ELSE IF x = i /\ isdir /\ y = "." THEN i
                       ELSE IF x = i /\ isdir /\ y = ".." THEN d ELSE e[x][y]
    <2>1. CASE x = d
        BY <1>3, <1>5, <2>1
    <2>2. CASE x = i
        BY <1>2, <1>5, <2>2
    <2>3. CASE x \notin {d, i}
        BY <1>5, <2>3
    <2> QED
        BY <2>1, <2>2, <2>3
<1> QED
    BY <1>6, <1>7 DEF f

(* How often each inode is named after a name is made.                     *)
LEMMA MadeNaming ==
    ASSUME ent \in Entries, NEW d \in Inos, NEW i \in Inos, d # i, NEW n \in FileNames, NEW isdir \in BOOLEAN,
           \A x \in Inos, y \in AllNames :
                 ent'[x][y] = IF x = d /\ y = n THEN i
                              ELSE IF x = i /\ isdir /\ y = "." THEN i
                              ELSE IF x = i /\ isdir /\ y = ".." THEN d ELSE ent[x][y],
           ent[d][n] = 0, \A y \in AllNames : ent[i][y] = 0, NEW j \in Inos
    PROVE  Naming(ent', j) = Naming(ent, j) + (IF isdir THEN One(i = j) + One(i = j) + One(d = j) ELSE One(i = j))
<1>1. n \in AllNames /\ "." \in AllNames /\ ".." \in AllNames /\ n # "." /\ n # ".." /\ j # 0
    BY InosFinite
<1> DEFINE e1 == Entered(ent, d, n, i)
           e2 == Entered(e1, i, ".", i)
           e3 == Entered(e2, i, "..", d)
<1>2. /\ e1 \in Entries
      /\ \A x \in Inos, y \in AllNames : e1[x][y] = IF x = d /\ y = n THEN i ELSE ent[x][y]
      /\ Naming(e1, j) = Naming(ent, j) + One(i = j) - One(ent[d][n] = j)
    <2>1. i \in Inos \cup {0}
        OBVIOUS
    <2>2. /\ e1 \in Entries
          /\ \A x \in Inos, y \in AllNames : e1[x][y] = IF x = d /\ y = n THEN i ELSE ent[x][y]
        BY <1>1, <2>1, EnteredOK DEF Sets
    <2>3. Naming(e1, j) = Naming(ent, j) + One(i = j) - One(ent[d][n] = j)
        BY <1>1, <2>1, NamingSet
    <2> QED
        BY <2>2, <2>3
<1> HIDE DEF e1
<1>3. /\ e2 \in Entries
      /\ \A x \in Inos, y \in AllNames : e2[x][y] = IF x = i /\ y = "." THEN i ELSE e1[x][y]
      /\ Naming(e2, j) = Naming(e1, j) + One(i = j) - One(e1[i]["."] = j)
    BY <1>1, <1>2, EnteredOK, NamingSet DEF Sets
<1> HIDE DEF e2
<1>4. /\ \A x \in Inos, y \in AllNames : e3[x][y] = IF x = i /\ y = ".." THEN d ELSE e2[x][y]
      /\ Naming(e3, j) = Naming(e2, j) + One(d = j) - One(e2[i][".."] = j)
    BY <1>1, <1>3, EnteredOK, NamingSet DEF Sets
<1> HIDE DEF e3
<1>5. ent[d][n] # j /\ e1[i]["."] # j /\ e2[i][".."] # j
    BY <1>1, <1>2, <1>3
<1>6. One(ent[d][n] = j) = 0 /\ One(e1[i]["."] = j) = 0 /\ One(e2[i][".."] = j) = 0
    BY <1>5 DEF One
<1>7. One(i = j) \in Nat /\ One(d = j) \in Nat /\ Naming(ent, j) \in Nat
    BY NamingFinite DEF One
<1>8. Naming(e1, j) = Naming(ent, j) + One(i = j)
    BY <1>2, <1>6, <1>7
<1>9. Naming(e3, j) = Naming(ent, j) + (One(i = j) + One(i = j) + One(d = j))
    BY <1>3, <1>4, <1>6, <1>7, <1>8
<1>10. CASE isdir
    <2>1. \A x \in Inos, y \in AllNames : ent'[x][y] = e3[x][y]
        BY <1>1, <1>2, <1>3, <1>4, <1>10
    <2>2. Naming(ent', j) = Naming(e3, j)
        BY <2>1, NamingSame
    <2> QED
        BY <1>9, <1>10, <2>2
<1>11. CASE ~isdir
    <2>1. \A x \in Inos, y \in AllNames : ent'[x][y] = e1[x][y]
        BY <1>2, <1>11
    <2>2. Naming(ent', j) = Naming(e1, j)
        BY <2>1, NamingSame
    <2> QED
        BY <1>8, <1>11, <2>2
<1> QED
    BY <1>10, <1>11

(* Make keeps the types, the counts and what mutex_sem protects, and the   *)
(* name space.                                                             *)
LEMMA MakeSafe ==
    ASSUME SfsShape, SfsCounted, MutexInv, NameSpace, NEW p \in Procs, Make(p)
    PROVE  SfsShape' /\ SfsCounted' /\ MutexInv' /\ NameSpace'
<1> DEFINE o == pr[p]
           d == o.hold[1]
           i == Min(Free)
           n == Last(o.call.path)
           isdir == o.call.op = "mkdir"
           t == IF isdir THEN "dir" ELSE "file"
           k == IF isdir THEN 2 ELSE 1
           x == NewLinked(t, k, TRUE)
           l == IF isdir THEN nd[d].links + 1 ELSE nd[d].links
           y == Edited(nd[d], l, TRUE)
           s == IF o.call.op = "make" THEN [o EXCEPT !.call.op = "open", !.hold = <<i>>, !.drop = <<d>>]
                ELSE [Returned(o) EXCEPT !.drop = <<i, d>>]
<1>1. /\ Makes(p) /\ Set(p, s) /\ UNCHANGED <<scene, mutex, fs, faults>>
      /\ ent' = [ent EXCEPT ![d][n] = i, ![i] = IF isdir THEN [@ EXCEPT !["."] = i, ![".."] = d] ELSE @]
    BY SMTT(60) DEF Make, Op, Dir, Name
<1>2. nd' = [nd EXCEPT ![i] = x, ![d].links = IF isdir THEN @ + 1 ELSE @, ![d].dirty = TRUE]
    BY SMTT(60) DEF Make, Op, Dir, NewLinked
<1>3. /\ d \in Inos /\ nd[d].type = "dir" /\ nd[d].cached /\ nd[d] \in NodeType
      /\ i \in Inos /\ nd[i].type = "free" /\ i # d /\ i # ROOT
      /\ n \in FileNames /\ ent[d][n] = 0
    BY <1>1, Maker
<1>4. /\ s \in ProcType /\ ProcOK(s) /\ s.claim = 0 /\ s.at \notin Under
      /\ \A j : Count(s, j) = Count(pr[p], j) + One(i = j)
    <2>1. CASE o.call.op = "make"
        <3>1. s = [o EXCEPT !.call.op = "open", !.hold = <<i>>, !.drop = <<d>>]
            BY <2>1
        <3> HIDE DEF s
        <3> QED
            BY <1>1, <2>1, <3>1, OpensMade, ZenonT(60)
    <2>2. CASE o.call.op # "make"
        <3>1. s = [Returned(o) EXCEPT !.drop = <<i, d>>]
            BY <2>2
        <3> HIDE DEF s
        <3> QED
            BY <1>1, <3>1, MadeOK
    <2> QED
        BY <2>1, <2>2, SMTT(60)
<1>5. /\ t \in {"file", "dir"} /\ isdir \in BOOLEAN /\ k \in Nat /\ l \in Nat /\ TRUE \in BOOLEAN
      /\ (isdir => t = "dir" /\ k = 2 /\ l = nd[d].links + 1) /\ (~isdir => t = "file" /\ k = 1 /\ l = nd[d].links)
    BY <1>3 DEF NodeType
<1>6. i = Min(Free)
    OBVIOUS
<1> HIDE DEF s, t, k, l, i, n
<1>7. nd \in [Inos -> NodeType]
    BY DEF SfsShape, NdTyped
<1>8. nd'[i] = x /\ nd'[d] = y /\ \A j \in Inos \ {i, d} : nd'[j] = nd[j]
    BY <1>2, <1>3, <1>7 DEF Edited, l
<1> HIDE DEF isdir, o, d
<1>9. x \in NodeType /\ x.type = t /\ x.cached /\ x.ref = 1 /\ x.token = 1 /\ x.links = k /\ x.lost = 0 /\ x.dirty
    <2>1. t \in {"file", "dir"} /\ k \in Nat /\ TRUE \in BOOLEAN
        BY <1>5
    <2>2. \A b \in BOOLEAN :
              LET z == NewLinked(t, k, b)
              IN  /\ z \in NodeType /\ z.type = t /\ z.cached /\ z.ref = 1 /\ z.token = 1 /\ z.links = k
                  /\ z.lost = 0 /\ z.dirty = b
        BY <2>1, NodeNamed
    <2> QED
        BY <2>1, <2>2, Zenon
<1>10. /\ y \in NodeType /\ y.type = nd[d].type /\ y.cached = nd[d].cached /\ y.ref = nd[d].ref
       /\ y.token = nd[d].token /\ y.links = l /\ y.disk = nd[d].disk /\ y.lost = nd[d].lost /\ y.dirty = TRUE
    BY <1>3, <1>5, NodeEdited, ZenonT(60)
<1> HIDE DEF x, y
<1>11. NdTyped'
    <2>1. \A j \in Inos : nd'[j] \in NodeType
        BY <1>7, <1>8, <1>9, <1>10
    <2>2. nd' = [j \in Inos |-> nd'[j]]
        BY <1>2, <1>7
    <2> QED
        BY <2>1, <2>2 DEF NdTyped
<1>12. /\ ent \in Entries
       /\ nd[ROOT].type = "dir" /\ ent[ROOT]["."] = ROOT /\ ent[ROOT][".."] = ROOT
       /\ \A j \in Inos : nd[j].type # "dir" => \A m \in AllNames : ent[j][m] = 0
       /\ \A j \in Inos : nd[j].type = "free" => Naming(ent, j) = 0
       /\ \A e \in Inos, m \in FileNames :
             LET j == ent[e][m] IN
             j # 0 /\ nd[j].type = "dir" =>
                 /\ j \notin {e, ROOT} /\ ent[j]["."] = j /\ ent[j][".."] = e
                 /\ \A c \in FileNames : ent[e][c] = j => c = m
    BY NamesType DEF NameSpace
<1>13. /\ ent' \in Entries
       /\ \A a \in Inos, c \in AllNames :
                 ent'[a][c] = IF a = d /\ c = n THEN i
                              ELSE IF a = i /\ isdir /\ c = "." THEN i
                              ELSE IF a = i /\ isdir /\ c = ".." THEN d ELSE ent[a][c]
    <2>1. ent' = MadeIn(ent, d, n, i, isdir)
        BY <1>1 DEF MadeIn
    <2>2. ent \in Entries /\ d \in Inos /\ i \in Inos /\ d # i /\ n \in FileNames /\ isdir \in BOOLEAN
        BY <1>3, <1>5, <1>12
    <2> QED
        BY <2>1, <2>2, MadeEntries
<1>14. RestTyped'
    BY <1>1, <1>13 DEF SfsShape, RestTyped, Entries
<1>15. \A j \in Inos : j # i => Alike(j)
    BY <1>8, <1>10 DEF Alike
<1>16. SfsShape' /\ SfsCounted' /\ MutexInv'
    <2>1. nd'[i].type # "free" /\ nd'[i].cached /\ nd'[i].ref = 1 /\ nd'[i].token = 1
        BY <1>5, <1>8, <1>9
    <2>2. Makes(p) /\ Set(p, s)
        BY <1>1
    <2> QED
        BY <1>4, <1>6, <1>11, <1>14, <1>15, <2>1, <2>2, StepNew
<1>17. Naming(ent, i) = 0 /\ \A m \in AllNames : ent[i][m] = 0
    BY <1>3, <1>12
<1>18. \A e \in Inos, m \in AllNames : ent[e][m] # i
    BY <1>17, NamedNowhere
<1>19. \A j \in Inos : Naming(ent', j) = Naming(ent, j) + (IF isdir THEN One(i = j) + One(i = j) + One(d = j) ELSE One(i = j))
    BY <1>3, <1>5, <1>12, <1>13, <1>17, MadeNaming
<1>20. ASSUME NEW j \in Inos PROVE Relinked(j) \/ Created(j)
    <2>1. nd[j].links \in Nat /\ Naming(ent, j) \in Nat
        BY <1>7, NamingFinite DEF NodeType
    <2>2. CASE j = i
        <3>1. One(i = j) = 1 /\ One(d = j) = 0
            BY <1>3, <2>2 DEF One
        <3>2. Naming(ent', j) = k
            BY <1>5, <1>17, <1>19, <2>2, <3>1
        <3>3. k + 0 = k
            BY <1>5
        <3> QED
            BY <1>5, <1>8, <1>9, <2>2, <3>2, <3>3 DEF Created
    <2>3. CASE j = d
        <3>1. One(i = j) = 0 /\ One(d = j) = 1
            BY <1>3, <2>3 DEF One
        <3>2. nd'[j].links = l
            BY <1>8, <1>10, <2>3
        <3>3. nd'[j].links - nd[j].links = Naming(ent', j) - Naming(ent, j)
            BY <1>5, <1>19, <2>1, <2>3, <3>1, <3>2
        <3> QED
            BY <1>3, <1>8, <1>10, <2>3, <3>3 DEF Relinked
    <2>4. CASE j \notin {i, d}
        <3>1. One(i = j) = 0 /\ One(d = j) = 0
            BY <2>4 DEF One
        <3>2. nd'[j] = nd[j]
            BY <1>8, <2>4
        <3>3. Naming(ent', j) = Naming(ent, j)
            BY <1>19, <2>1, <3>1
        <3>4. nd'[j].links - nd[j].links = Naming(ent', j) - Naming(ent, j)
            BY <2>1, <3>2, <3>3
        <3> QED
            BY <3>2, <3>4 DEF Relinked
    <2> QED
        BY <2>2, <2>3, <2>4
<1>21. LinksExact' /\ SavedInv' /\ \A j \in Inos : nd'[j].type = "free" => Naming(ent', j) = 0
    BY <1>11, <1>20, LinksRelinked
<1>22. NamesInv'
    <2>1. (\A j \in Inos : j # i => nd'[j].type = nd[j].type) /\ nd'[i].type = t
        BY <1>8, <1>9, <1>15 DEF Alike
    <2>2. n \in AllNames /\ "." \in AllNames /\ ".." \in AllNames /\ n # "." /\ n # ".." /\ ROOT \in Inos
        BY <1>3, InosFinite
    <2>3. nd'[ROOT].type = "dir" /\ ent'[ROOT]["."] = ROOT /\ ent'[ROOT][".."] = ROOT
        BY <1>3, <1>12, <1>13, <2>1, <2>2
    <2>4. ASSUME NEW j \in Inos, nd'[j].type # "dir", NEW m \in AllNames PROVE ent'[j][m] = 0
        <3>1. j # d
            BY <1>3, <2>1, <2>4
        <3>2. j = i => ~isdir
            BY <1>5, <2>1, <2>4
        <3> QED
            BY <1>12, <1>13, <1>17, <2>1, <2>4, <3>1, <3>2
    <2>5. ASSUME NEW e \in Inos, NEW m \in FileNames, NEW j, j = ent'[e][m], j # 0, nd'[j].type = "dir"
          PROVE  /\ j \notin {e, ROOT} /\ ent'[j]["."] = j /\ ent'[j][".."] = e
                 /\ \A c \in FileNames : ent'[e][c] = j => c = m
        <3>1. m \in AllNames /\ m # "." /\ m # ".." /\ FileNames \subseteq AllNames
            BY InosFinite
        <3>2. CASE e = d /\ m = n
            <4>1. j = i
                BY <1>13, <2>5, <3>1, <3>2
            <4>2. isdir
                BY <1>5, <2>1, <2>5, <4>1
            <4>3. ent'[i]["."] = i /\ ent'[i][".."] = d
                BY <1>3, <1>13, <2>2, <4>2
            <4>4. ASSUME NEW c \in FileNames, ent'[d][c] = i PROVE c = n
                BY <1>3, <1>13, <1>18, <3>1, <4>4
            <4> QED
                BY <1>3, <3>2, <4>1, <4>3, <4>4
        <3>3. CASE ~(e = d /\ m = n)
            <4>1. j = ent[e][m]
                BY <1>13, <2>5, <3>1, <3>3
            <4>2. j \in Inos /\ j # i
                BY <1>12, <1>18, <2>5, <3>1, <4>1 DEF Entries
            <4>3. nd[j].type = "dir"
                BY <2>1, <2>5, <4>2
            <4>4. /\ j \notin {e, ROOT} /\ ent[j]["."] = j /\ ent[j][".."] = e
                  /\ \A c \in FileNames : ent[e][c] = j => c = m
                BY <1>12, <2>5, <4>1, <4>3
            <4>5. ent'[j]["."] = j /\ ent'[j][".."] = e
                BY <1>13, <2>2, <4>2, <4>4
            <4>6. ASSUME NEW c \in FileNames, ent'[e][c] = j PROVE c = m
                <5>1. c # "." /\ c # ".." /\ c \in AllNames
                    BY InosFinite
                <5>2. ent[e][c] = j
                    BY <1>13, <4>2, <4>6, <5>1
                <5> QED
                    BY <4>4, <5>2
            <4> QED
                BY <4>4, <4>5, <4>6
        <3> QED
            BY <3>2, <3>3
    <2> QED
        BY <1>11, <1>13, <1>21, <2>3, <2>4, <2>5, NamesBack
<1>23. LoopInv'
    <2> SUFFICES ASSUME faults' = 0, NEW S \in SUBSET (Inos \ {ROOT}), S # {} PROVE \E a \in S : ent'[a][".."] \notin S
        BY DEF LoopInv
    <2>1. \A T \in SUBSET (Inos \ {ROOT}) : T # {} => \E a \in T : ent[a][".."] \notin T
        BY <1>1 DEF NameSpace, LoopInv
    <2>2. ".." \in AllNames /\ n # ".." /\ 0 \notin S
        BY <1>3, InosFinite
    <2>3. \A a \in Inos : a # i => ent'[a][".."] = ent[a][".."] /\ ent[a][".."] # i
        BY <1>13, <1>18, <2>2
    <2>4. CASE S \ {i} = {}
        <3>1. ent'[i][".."] \in {0, d}
            BY <1>3, <1>13, <1>17, <2>2
        <3> QED
            BY <1>3, <2>2, <2>4, <3>1
    <2>5. CASE S \ {i} # {}
        <3>1. PICK a \in S \ {i} : ent[a][".."] \notin S \ {i}
            BY <2>1, <2>5
        <3> QED
            BY <2>3, <3>1
    <2> QED
        BY <2>4, <2>5
<1> QED
    BY <1>16, <1>21, <1>22, <1>23, SMTT(60) DEF NameSpace

-----------------------------------------------------------------------------
(* sfs_link                                                                *)
LEMMA StepEdit ==
    ASSUME SfsShape, SfsCounted, MutexInv, NEW p \in Procs, NEW s \in ProcType, ProcOK(s), Set(p, s),
           NdTyped', RestTyped', \A i \in Inos : Alike(i), s.claim = pr[p].claim,
           \A i \in Inos : Count(s, i) = Count(pr[p], i), s.at \notin Under, mutex \in {p, None}
    PROVE  SfsShape' /\ SfsCounted' /\ MutexInv'
<1>1. NdTyped
    BY DEF SfsShape
<1>2. \A i \in Inos : nd'[i].ref = nd[i].ref + Count(s, i) - Count(pr[p], i)
    <2>1. \A i : Count(pr[p], i) \in Nat
        BY DEF Count, Three, One
    <2>2. \A i \in Inos : nd[i].ref \in Int /\ nd'[i].ref = nd[i].ref
        BY <1>1 DEF NdTyped, NodeType, Alike
    <2>3. \A a, b \in Int : a = a + b - b
        OBVIOUS
    <2> QED
        BY <2>1, <2>2, <2>3
<1>3. \A i \in Inos : nd'[i].type = "free" => ~nd'[i].cached
    BY DEF SfsCounted, FreeInv, Alike
<1>4. \A i \in Inos : TokenAfter(p, s, i)
    BY <1>1, TokenSame DEF SfsCounted, Alike
<1>5. \A q \in Procs \ {p} : Undisturbed(q)
    BY SfsAssumption DEF Undisturbed, MutexInv, MutexOK
<1>6. SelfOK(p, s)
    BY DEF SelfOK
<1> QED
    BY <1>2, <1>3, <1>4, <1>5, <1>6, Step

Dirtied(x, b) == [x EXCEPT !.dirty = b]

(* The fields of an inode that is marked dirty.                            *)
LEMMA NodeDirtied ==
    ASSUME NEW x \in NodeType, NEW b \in BOOLEAN
    PROVE  LET y == Dirtied(x, b)
           IN  /\ y \in NodeType /\ y.type = x.type /\ y.cached = x.cached /\ y.ref = x.ref /\ y.token = x.token
               /\ y.links = x.links /\ y.disk = x.disk /\ y.lost = x.lost /\ y.dirty = b
BY DEF NodeType, Dirtied

(* An inode that is only written, or not touched.                          *)
LEMMA RelinkedSame ==
    ASSUME SfsShape, NEW j \in Inos, nd'[j].type = nd[j].type, nd'[j].cached = nd[j].cached, nd'[j].lost = nd[j].lost,
           nd'[j].disk = nd[j].disk, nd'[j].links = nd[j].links, ~nd'[j].dirty => ~nd[j].dirty,
           Naming(ent', j) = Naming(ent, j)
    PROVE  Relinked(j)
<1>1. nd[j].links \in Nat /\ Naming(ent, j) \in Nat
    BY NamingFinite DEF SfsShape, NdTyped, NodeType
<1>2. nd'[j].links - nd[j].links = Naming(ent', j) - Naming(ent, j)
    BY <1>1, SMTT(60)
<1> QED
    BY <1>2 DEF Relinked

(* Link keeps the types, the counts and what mutex_sem protects, and the   *)
(* name space.                                                             *)
LEMMA LinkSafe ==
    ASSUME SfsShape, SfsCounted, MutexInv, NameSpace, NEW p \in Procs, Link(p)
    PROVE  SfsShape' /\ SfsCounted' /\ MutexInv' /\ NameSpace'
<1> DEFINE o == pr[p]
           t == o.hold[1]
           d == o.hold[2]
           n == Last(o.call.to)
<1>1. /\ o.at = "call" /\ o.drop = <<>> /\ o.claim = 0 /\ mutex = None /\ o.call.op = "link" /\ o.second
      /\ UNCHANGED scene
      /\ \/ Stuck(p) /\ UNCHANGED <<ent, nd, faults>>
         \/ (faults' = faults \/ Fault) /\ Set(p, Returned(o)) /\ UNCHANGED <<ent, nd, mutex, fs>>
         \/ /\ IsDir(d) /\ ~IsDir(t) /\ ent[d][n] = 0
            /\ ent' = [ent EXCEPT ![d][n] = t]
            /\ nd' = [nd EXCEPT ![t].links = @ + 1, ![t].dirty = TRUE, ![d].dirty = TRUE]
            /\ Set(p, Returned(o)) /\ UNCHANGED <<mutex, fs, faults>>
    BY DEF Link, May, Stands, Op, Return
<1>2. CASE Stuck(p) /\ UNCHANGED <<ent, nd, faults>>
    BY <1>1, <1>2, StuckSafe, StillKept, KeptNames, SMTT(60)
<1>3. CASE (faults' = faults \/ Fault) /\ Set(p, Returned(o)) /\ UNCHANGED <<ent, nd, mutex, fs>>
    BY <1>1, <1>3, ReturnSafe, StillKept, KeptNames
<1>4. CASE /\ IsDir(d) /\ ~IsDir(t) /\ ent[d][n] = 0
           /\ ent' = [ent EXCEPT ![d][n] = t]
           /\ nd' = [nd EXCEPT ![t].links = @ + 1, ![t].dirty = TRUE, ![d].dirty = TRUE]
           /\ Set(p, Returned(o)) /\ UNCHANGED <<mutex, fs, faults>>
    <2>1. o \in ProcType /\ ProcOK(o) /\ HoldOK(o)
        BY Of, SMTT(60)
    <2>2. t \in Inos /\ Count(o, t) # 0 /\ d \in Inos /\ Count(o, d) # 0
        BY <1>1, <2>1, InHand
    <2>3. /\ nd[t].cached /\ nd[t].type # "free" /\ nd[t] \in NodeType /\ nd[d].cached /\ nd[d] \in NodeType
        BY <2>2, HeldLive
    <2>4. n \in AllNames
        <3>1. o.call.to # <<>>
            BY <1>1, <2>1 DEF ProcOK, PathsOK
        <3>2. o.call.to \in Seq(AllNames)
            BY <2>1, SMTT(60) DEF ProcType
        <3> QED
            BY <3>1, <3>2, FrontProps, SMTT(60)
    <2> DEFINE s == Returned(o)
    <2>5. /\ s \in ProcType /\ ProcOK(s) /\ s.claim = pr[p].claim /\ s.at \notin Under
          /\ \A j : Count(s, j) = Count(pr[p], j)
        BY <1>1, <2>1, ReturnedOK, ZenonT(60) DEF Under
    <2> HIDE DEF s
    <2>6. /\ nd[d].type = "dir" /\ nd[t].type # "dir" /\ t # d /\ ent[d][n] = 0
        BY <1>4, ZenonT(60) DEF IsDir
    <2>7. nd' = [nd EXCEPT ![t].links = @ + 1, ![t].dirty = TRUE, ![d].dirty = TRUE]
        BY <1>4, ZenonT(60)
    <2>8. ent' = [ent EXCEPT ![d][n] = t]
        BY <1>4, ZenonT(60)
    <2>9. Set(p, s) /\ UNCHANGED <<scene, mutex, fs, faults>> /\ mutex = None
        BY <1>1, <1>4 DEF s
    <2> DEFINE x == Edited(nd[t], nd[t].links + 1, TRUE)
               y == Dirtied(nd[d], TRUE)
    <2> HIDE DEF o, t, d, n
    <2>10. nd \in [Inos -> NodeType]
        BY DEF SfsShape, NdTyped
    <2>11. nd'[t] = x /\ nd'[d] = y /\ \A j \in Inos \ {t, d} : nd'[j] = nd[j]
        BY <2>2, <2>6, <2>7, <2>10 DEF Edited, Dirtied
    <2>12. nd[t].links + 1 \in Nat /\ nd[t].links \in Nat /\ TRUE \in BOOLEAN
        BY <2>3 DEF NodeType
    <2>13. /\ x \in NodeType /\ x.type = nd[t].type /\ x.cached = nd[t].cached /\ x.ref = nd[t].ref /\ x.token = nd[t].token
           /\ x.links = nd[t].links + 1 /\ x.disk = nd[t].disk /\ x.lost = nd[t].lost /\ x.dirty = TRUE
        BY <2>3, <2>12, NodeEdited, Zenon
    <2>14. /\ y \in NodeType /\ y.type = nd[d].type /\ y.cached = nd[d].cached /\ y.ref = nd[d].ref /\ y.token = nd[d].token
           /\ y.links = nd[d].links /\ y.disk = nd[d].disk /\ y.lost = nd[d].lost /\ y.dirty = TRUE
        BY <2>3, <2>12, NodeDirtied, Zenon
    <2> HIDE DEF x, y
    <2>15. NdTyped'
        <3>1. \A j \in Inos : nd'[j] \in NodeType
            BY <2>10, <2>11, <2>13, <2>14
        <3>2. nd' = [j \in Inos |-> nd'[j]]
            BY <2>7, <2>10
        <3> QED
            BY <3>1, <3>2 DEF NdTyped
    <2>16. /\ ent \in Entries
           /\ nd[ROOT].type = "dir" /\ ent[ROOT]["."] = ROOT /\ ent[ROOT][".."] = ROOT
           /\ \A j \in Inos : nd[j].type # "dir" => \A m \in AllNames : ent[j][m] = 0
           /\ \A e \in Inos, m \in FileNames :
                 LET j == ent[e][m] IN
                 j # 0 /\ nd[j].type = "dir" =>
                     /\ j \notin {e, ROOT} /\ ent[j]["."] = j /\ ent[j][".."] = e
                     /\ \A c \in FileNames : ent[e][c] = j => c = m
        BY NamesType DEF NameSpace
    <2>26. ent' = Entered(ent, d, n, t) /\ t \in Inos \cup {0}
        BY <2>2, <2>8 DEF Entered
    <2>17. /\ ent' \in Entries
           /\ \A a \in Inos, c \in AllNames : ent'[a][c] = IF a = d /\ c = n THEN t ELSE ent[a][c]
        <3> DEFINE f == Entered(ent, d, n, t)
        <3>1. /\ f \in Entries
              /\ \A a \in Inos, c \in AllNames : f[a][c] = IF a = d /\ c = n THEN t ELSE ent[a][c]
            <4>1. ent \in Entries /\ d \in Inos
                BY <2>2, <2>16
            <4>2. t \in Inos \cup {0}
                BY <2>26
            <4> QED
                BY <2>4, <4>1, <4>2, EnteredOK DEF Sets
        <3> QED
            BY <2>26, <3>1, Zenon
    <2>18. RestTyped'
        BY <2>9, <2>17 DEF SfsShape, RestTyped, Entries
    <2>19. \A j \in Inos : Alike(j)
        BY <2>11, <2>13, <2>14 DEF Alike
    <2>20. SfsShape' /\ SfsCounted' /\ MutexInv'
        BY <2>5, <2>9, <2>15, <2>18, <2>19, StepEdit
    <2>21. ASSUME NEW j \in Inos PROVE Naming(ent', j) = Naming(ent, j) + One(t = j)
        <3>1. One(ent[d][n] = j) = 0
            BY <2>6, InosFinite DEF One
        <3>2. Naming(ent, j) \in Nat /\ One(t = j) \in Nat
            BY NamingFinite DEF One
        <3>3. Naming(ent', j) = Naming(ent, j) + One(t = j) - One(ent[d][n] = j)
            BY <2>2, <2>4, <2>16, <2>26, NamingSet
        <3> QED
            BY <3>1, <3>2, <3>3
    <2>22. ASSUME NEW j \in Inos PROVE Relinked(j)
        <3>1. Naming(ent, j) \in Nat
            BY NamingFinite
        <3>2. CASE j = t
            <4>1. Naming(ent', j) = Naming(ent, j) + 1
                BY <2>21, <3>2 DEF One
            <4>2. nd'[j].links - nd[j].links = Naming(ent', j) - Naming(ent, j)
                BY <2>11, <2>12, <2>13, <3>1, <3>2, <4>1
            <4> QED
                BY <2>3, <2>11, <2>13, <3>2, <4>2 DEF Relinked
        <3>3. CASE j # t
            <4>1. Naming(ent', j) = Naming(ent, j)
                BY <2>21, <3>1, <3>3 DEF One
            <4>2. /\ nd'[j].type = nd[j].type /\ nd'[j].cached = nd[j].cached /\ nd'[j].lost = nd[j].lost
                  /\ nd'[j].disk = nd[j].disk /\ nd'[j].links = nd[j].links /\ (~nd'[j].dirty => ~nd[j].dirty)
                BY <2>11, <2>14, <3>3
            <4> QED
                BY <4>1, <4>2, RelinkedSame
        <3> QED
            BY <3>2, <3>3
    <2>23. LinksExact' /\ SavedInv' /\ \A j \in Inos : nd'[j].type = "free" => Naming(ent', j) = 0
        BY <2>15, <2>22, LinksRelinked
    <2>24. NamesInv'
        <3>1. \A j \in Inos : nd'[j].type = nd[j].type
            BY <2>19 DEF Alike
        <3>2. "." \in AllNames /\ ".." \in AllNames /\ ROOT \in Inos /\ ROOT # 0
            BY InosFinite
        <3>3. nd'[ROOT].type = "dir" /\ ent'[ROOT]["."] = ROOT /\ ent'[ROOT][".."] = ROOT
            BY <2>6, <2>16, <2>17, <3>1, <3>2
        <3>4. ASSUME NEW j \in Inos, nd'[j].type # "dir", NEW m \in AllNames PROVE ent'[j][m] = 0
            BY <2>6, <2>16, <2>17, <3>1, <3>4
        <3>5. ASSUME NEW e \in Inos, NEW m \in FileNames, NEW j, j = ent'[e][m], j # 0, nd'[j].type = "dir"
              PROVE  /\ j \notin {e, ROOT} /\ ent'[j]["."] = j /\ ent'[j][".."] = e
                     /\ \A c \in FileNames : ent'[e][c] = j => c = m
            <4>1. m \in AllNames /\ FileNames \subseteq AllNames
                BY InosFinite
            <4>2. j \in Inos
                BY <2>17, <3>5, <4>1 DEF Entries
            <4>3. nd[j].type = "dir" /\ j # t
                BY <2>6, <3>1, <3>5, <4>2
            <4>4. j = ent[e][m]
                BY <2>17, <3>5, <4>1, <4>3
            <4>5. /\ j \notin {e, ROOT} /\ ent[j]["."] = j /\ ent[j][".."] = e
                  /\ \A c \in FileNames : ent[e][c] = j => c = m
                BY <2>16, <3>5, <4>3, <4>4
            <4>6. e # 0
                BY InosFinite
            <4>7. ent'[j]["."] = j /\ ent'[j][".."] = e
                BY <2>6, <2>17, <3>2, <3>5, <4>2, <4>5, <4>6
            <4>8. ASSUME NEW c \in FileNames, ent'[e][c] = j PROVE c = m
                BY <2>17, <4>1, <4>3, <4>5, <4>8
            <4> QED
                BY <4>5, <4>7, <4>8
        <3> QED
            BY <2>15, <2>17, <2>23, <3>3, <3>4, <3>5, NamesBack
    <2>25. LoopInv'
        <3> SUFFICES ASSUME faults' = 0, NEW S \in SUBSET (Inos \ {ROOT}), S # {} PROVE \E a \in S : ent'[a][".."] \notin S
            BY DEF LoopInv
        <3>1. PICK a \in S : ent[a][".."] \notin S
            BY <2>9 DEF NameSpace, LoopInv
        <3>2. ".." \in AllNames /\ 0 \notin S
            BY InosFinite
        <3>3. ent'[t][".."] = 0
            BY <2>2, <2>6, <2>16, <2>17, <3>2
        <3>4. ent'[a][".."] \in {ent[a][".."], t}
            BY <2>17, <3>2
        <3> QED
            BY <3>1, <3>2, <3>3, <3>4
    <2> QED
        BY <2>20, <2>23, <2>24, <2>25 DEF NameSpace
<1> QED
    BY <1>1, <1>2, <1>3, <1>4, ZenonT(60)

-----------------------------------------------------------------------------
(* sfs_unlink and sfs_rmdir                                                *)
RemovedIn(e, d, n, i, C) == [e EXCEPT ![d][n] = 0, ![i] = [m \in AllNames |-> IF m \in C THEN 0 ELSE @[m]]]
Removes(f, e, d, n, i, C) ==
    \A x \in Inos, y \in AllNames : f[x][y] = IF (x = d /\ y = n) \/ (x = i /\ y \in C) THEN 0 ELSE e[x][y]
Left(e, d, i, C, j) ==
    Naming(e, j) - One(i = j) - (IF "." \in C THEN One(i = j) ELSE 0) - (IF ".." \in C THEN One(d = j) ELSE 0)

(* The entries after a name is removed.                                    *)
LEMMA RemovedEntries ==
    ASSUME NEW e \in Entries, NEW d \in Inos, NEW i \in Inos, d # i, NEW n \in FileNames, NEW C
    PROVE  LET f == RemovedIn(e, d, n, i, C)
           IN  f \in Entries /\ Removes(f, e, d, n, i, C)
<1>1. n \in AllNames
    BY InosFinite
<1> DEFINE r == [m \in AllNames |-> IF m \in C THEN 0 ELSE e[i][m]]
           q == [e[d] EXCEPT ![n] = 0]
           f == RemovedIn(e, d, n, i, C)
<1>2. r \in [AllNames -> Inos \cup {0}] /\ \A y \in AllNames : r[y] = IF y \in C THEN 0 ELSE e[i][y]
    BY DEF Entries
<1>3. q \in [AllNames -> Inos \cup {0}] /\ \A y \in AllNames : q[y] = IF y = n THEN 0 ELSE e[d][y]
    BY <1>1 DEF Entries
<1>4. f = [e EXCEPT ![d] = q, ![i] = r]
    BY DEF Entries, RemovedIn
<1> HIDE DEF r, q, f
<1>5. f[d] = q /\ f[i] = r /\ \A x \in Inos : x \notin {d, i} => f[x] = e[x]
    BY <1>4 DEF Entries
<1>6. f \in Entries
    BY <1>2, <1>3, <1>4 DEF Entries
<1>7. ASSUME NEW x \in Inos, NEW y \in AllNames
      PROVE  f[x][y] = IF (x = d /\ y = n) \/ (x = i /\ y \in C) THEN 0 ELSE e[x][y]
    <2>1. CASE x = d
        BY <1>3, <1>5, <2>1
    <2>2. CASE x = i
        BY <1>2, <1>5, <2>2
    <2>3. CASE x \notin {d, i}
        BY <1>5, <2>3
    <2> QED
        BY <2>1, <2>2, <2>3
<1> QED
    BY <1>6, <1>7 DEF f, Removes

(* How often each inode is named after a name is removed.                  *)
LEMMA RemovedNaming ==
    ASSUME NEW e \in Entries, NEW f, NEW d \in Inos, NEW i \in Inos, d # i, NEW n \in FileNames,
           NEW C \in SUBSET {".", ".."}, Removes(f, e, d, n, i, C),
           e[d][n] = i, C # {} => e[i]["."] = i /\ e[i][".."] = d, NEW j \in Inos
    PROVE  Naming(f, j) = Left(e, d, i, C, j)
<1>1. n \in AllNames /\ "." \in AllNames /\ ".." \in AllNames /\ n # "." /\ n # ".." /\ j # 0
    BY InosFinite
<1>2. 0 \in Inos \cup {0}
    OBVIOUS
<1> DEFINE e1 == Entered(e, d, n, 0)
           e2 == IF "." \in C THEN Entered(e1, i, ".", 0) ELSE e1
           e3 == IF ".." \in C THEN Entered(e2, i, "..", 0) ELSE e2
<1>3. One(0 = j) = 0 /\ One(i = j) \in Nat /\ One(d = j) \in Nat /\ \A g : Naming(g, j) \in Nat
    BY <1>1, NamingFinite DEF One
<1>4. /\ e1 \in Entries
      /\ \A x \in Inos, y \in AllNames : e1[x][y] = IF x = d /\ y = n THEN 0 ELSE e[x][y]
    <2>1. Sets(e1, e, d, n, 0)
        BY <1>1, <1>2, EnteredOK
    <2> HIDE DEF e1
    <2> QED
        BY <2>1 DEF Sets
<1>5. Naming(e1, j) = Naming(e, j) - One(i = j)
    <2>1. Naming(e1, j) = Naming(e, j) + One(0 = j) - One(e[d][n] = j)
        BY <1>1, <1>2, NamingSet
    <2> QED
        BY <1>3, <2>1
<1> HIDE DEF e1
<1>6. /\ e2 \in Entries
      /\ \A x \in Inos, y \in AllNames : e2[x][y] = IF x = i /\ y = "." /\ "." \in C THEN 0 ELSE e1[x][y]
      /\ Naming(e2, j) = Naming(e1, j) - (IF "." \in C THEN One(i = j) ELSE 0)
    <2>1. CASE "." \in C
        <3> DEFINE g == Entered(e1, i, ".", 0)
        <3>1. g \in Entries /\ \A x \in Inos, y \in AllNames : g[x][y] = IF x = i /\ y = "." THEN 0 ELSE e1[x][y]
            <4>1. Sets(g, e1, i, ".", 0)
                BY <1>1, <1>2, <1>4, EnteredOK
            <4> HIDE DEF g
            <4> QED
                BY <4>1 DEF Sets
        <3>2. Naming(g, j) = Naming(e1, j) + One(0 = j) - One(e1[i]["."] = j)
            BY <1>1, <1>2, <1>4, NamingSet
        <3>3. e1[i]["."] = i
            BY <1>1, <1>4, <2>1
        <3>4. e2 = g
            BY <2>1
        <3> HIDE DEF g, e2
        <3>5. Naming(g, j) = Naming(e1, j) - One(i = j)
            BY <1>3, <3>2, <3>3
        <3> QED
            BY <2>1, <3>1, <3>4, <3>5
    <2>2. CASE "." \notin C
        <3>1. e2 = e1
            BY <2>2
        <3> HIDE DEF e2
        <3> QED
            BY <1>3, <1>4, <2>2, <3>1
    <2> QED
        BY <2>1, <2>2
<1> HIDE DEF e2
<1>7. /\ \A x \in Inos, y \in AllNames : e3[x][y] = IF x = i /\ y = ".." /\ ".." \in C THEN 0 ELSE e2[x][y]
      /\ Naming(e3, j) = Naming(e2, j) - (IF ".." \in C THEN One(d = j) ELSE 0)
    <2>1. CASE ".." \in C
        <3> DEFINE g == Entered(e2, i, "..", 0)
        <3>1. g \in Entries /\ \A x \in Inos, y \in AllNames : g[x][y] = IF x = i /\ y = ".." THEN 0 ELSE e2[x][y]
            <4>1. Sets(g, e2, i, "..", 0)
                BY <1>1, <1>2, <1>6, EnteredOK
            <4> HIDE DEF g
            <4> QED
                BY <4>1 DEF Sets
        <3>2. Naming(g, j) = Naming(e2, j) + One(0 = j) - One(e2[i][".."] = j)
            BY <1>1, <1>2, <1>6, NamingSet
        <3>3. e2[i][".."] = d
            BY <1>1, <1>4, <1>6, <2>1
        <3>4. e3 = g
            BY <2>1
        <3> HIDE DEF g, e3
        <3>5. Naming(g, j) = Naming(e2, j) - One(d = j)
            BY <1>3, <3>2, <3>3
        <3> QED
            BY <2>1, <3>1, <3>4, <3>5
    <2>2. CASE ".." \notin C
        <3>1. e3 = e2
            BY <2>2
        <3> HIDE DEF e3
        <3> QED
            BY <1>3, <1>6, <2>2, <3>1
    <2> QED
        BY <2>1, <2>2
<1> HIDE DEF e3
<1>8. \A x \in Inos, y \in AllNames : f[x][y] = e3[x][y]
    <2> TAKE x \in Inos, y \in AllNames
    <2>1. e3[x][y] = IF x = i /\ y = ".." /\ ".." \in C THEN 0 ELSE IF x = i /\ y = "." /\ "." \in C THEN 0
                     ELSE IF x = d /\ y = n THEN 0 ELSE e[x][y]
        BY <1>4, <1>6, <1>7
    <2>2. f[x][y] = IF (x = d /\ y = n) \/ (x = i /\ y \in C) THEN 0 ELSE e[x][y]
        BY DEF Removes
    <2> QED
        BY <2>1, <2>2
<1>9. Naming(f, j) = Naming(e3, j)
    BY <1>8, NamingSame, SMTT(60)
<1> QED
    BY <1>5, <1>6, <1>7, <1>9 DEF Left

(* A call that is about to remove or move a name has the directory in hand *)
(* and the inode that the name still gives.                                *)
LEMMA Remover ==
    ASSUME SfsShape, SfsCounted, MutexInv, NameSpace, NEW p \in Procs, pr[p].at = "change", pr[p].call.op \in Removers \cup {"rename"}
    PROVE  LET o == pr[p]
               d == o.hold[1]
               i == o.hold[Len(o.hold)]
               n == Last(o.call.path)
           IN  /\ o \in ProcType /\ ProcOK(o) /\ HoldOK(o) /\ mutex = p
               /\ (o.call.op = "rename" <=> o.second) /\ Len(o.hold) = (IF o.second THEN 3 ELSE 2)
               /\ d \in Inos /\ nd[d].cached /\ nd[d].type = "dir" /\ nd[d] \in NodeType
               /\ i \in Inos /\ nd[i].cached /\ nd[i] \in NodeType /\ i # d /\ i # ROOT
               /\ n \in FileNames /\ ent[d][n] = i
               /\ nd[i].type = "dir" => /\ ent[i]["."] = i /\ ent[i][".."] = d
                                        /\ \A m \in FileNames : ent[d][m] = i => m = n
<1> DEFINE o == pr[p]
           d == o.hold[1]
           i == o.hold[Len(o.hold)]
           n == Last(o.call.path)
<1>1. o \in ProcType /\ ProcOK(o) /\ HoldOK(o)
    BY Of
<1>2. (o.call.op = "rename" <=> o.second) /\ n \in FileNames
    <2>1. o.at # "idle" /\ o.at \in Under
        BY DEF Under
    <2> QED
        BY <1>1, <2>1 DEF ProcOK, PathsOK, Removers
<1>3. Len(o.hold) = (IF o.second THEN 3 ELSE 2)
    BY <1>1 DEF HoldOK
<1>4. d \in Inos /\ Count(o, d) # 0 /\ Last(o.hold) \in Inos /\ Count(o, Last(o.hold)) # 0
    BY <1>1, InHand
<1>5. Last(o.hold) = i
    BY DEF Last
<1>6. nd[d].cached /\ nd[d] \in NodeType /\ nd[i].cached /\ nd[i] \in NodeType
    BY <1>4, <1>5, HeldLive
<1>7. mutex = p /\ ent[d][n] = i /\ nd[d].type = "dir"
    BY DEF MutexInv, MutexOK, Under, Aim, IsDir
<1>8. i \in Inos /\ i # 0
    BY <1>4, <1>5, InosFinite
<1>9. nd[i].type = "dir" => /\ i \notin {d, ROOT} /\ ent[i]["."] = i /\ ent[i][".."] = d
                            /\ \A m \in FileNames : ent[d][m] = i => m = n
    BY <1>2, <1>4, <1>7, <1>8, NamesType DEF NameSpace
<1>10. nd[ROOT].type = "dir"
    BY NamesType DEF NameSpace
<1> QED
    BY <1>1, <1>2, <1>3, <1>4, <1>6, <1>7, <1>8, <1>9, <1>10

(* Unlink keeps the types, the counts and what mutex_sem protects, and the *)
(* name space.                                                             *)
LEMMA UnlinkSafe ==
    ASSUME SfsShape, SfsCounted, MutexInv, NameSpace, NEW p \in Procs, NEW dotdot \in BOOLEAN, NEW dot \in BOOLEAN,
           Unlink(p, dotdot, dot)
    PROVE  SfsShape' /\ SfsCounted' /\ MutexInv' /\ NameSpace'
<1> DEFINE o == pr[p]
           d == o.hold[1]
           i == o.hold[2]
           n == Last(o.call.path)
           C == {m \in {".", ".."} : nd[i].type = "dir" /\ (IF m = "." THEN dot ELSE dotdot)}
           u == Cardinality(C \cap {"."})
           w == Cardinality(C \cap {".."})
           s == Returned(o)
<1>1. /\ o.at = "change" /\ o.drop = <<>> /\ o.claim = 0 /\ o.call.op \in Removers /\ (faults' = faults \/ Fault)
      /\ ent' = [ent EXCEPT ![d][n] = 0, ![i] = [m \in AllNames |-> IF m \in C THEN 0 ELSE @[m]]]
      /\ nd' = [nd EXCEPT ![i].links = @ - 1 - u, ![i].dirty = TRUE, ![d].links = @ - w, ![d].dirty = TRUE]
      /\ mutex' = None /\ Set(p, s) /\ UNCHANGED <<scene, fs>>
    BY ZenonT(60) DEF Unlink, Stands, Op, Name, IsDir, Unlock, Return
<1>2. o.call.op \in Removers \cup {"rename"} /\ o.call.op # "rename"
    BY <1>1 DEF Removers
<1>3. /\ o \in ProcType /\ HoldOK(o) /\ mutex = p /\ Len(o.hold) = 2
      /\ d \in Inos /\ nd[d].cached /\ nd[d].type = "dir" /\ nd[d] \in NodeType
      /\ i \in Inos /\ nd[i].cached /\ nd[i] \in NodeType /\ i # d /\ i # ROOT
      /\ n \in FileNames /\ ent[d][n] = i
      /\ nd[i].type = "dir" => /\ ent[i]["."] = i /\ ent[i][".."] = d
                               /\ \A m \in FileNames : ent[d][m] = i => m = n
    <2> DEFINE z == o.hold[Len(o.hold)]
    <2>1. /\ o \in ProcType /\ HoldOK(o) /\ mutex = p
          /\ (o.call.op = "rename" <=> o.second) /\ Len(o.hold) = (IF o.second THEN 3 ELSE 2)
          /\ d \in Inos /\ nd[d].cached /\ nd[d].type = "dir" /\ nd[d] \in NodeType
          /\ z \in Inos /\ nd[z].cached /\ nd[z] \in NodeType /\ z # d /\ z # ROOT
          /\ n \in FileNames /\ ent[d][n] = z
          /\ nd[z].type = "dir" => /\ ent[z]["."] = z /\ ent[z][".."] = d
                                   /\ \A m \in FileNames : ent[d][m] = z => m = n
        BY <1>1, <1>2, Remover
    <2>2. Len(o.hold) = 2
        BY <1>2, <2>1
    <2>3. z = i
        BY <2>2
    <2> HIDE DEF z, o, d, n, i
    <2> QED
        BY <2>1, <2>2, <2>3
<1>4. /\ C \in SUBSET {".", ".."} /\ (C # {} => nd[i].type = "dir")
      /\ u = (IF "." \in C THEN 1 ELSE 0) /\ w = (IF ".." \in C THEN 1 ELSE 0)
    <2>1. C \in SUBSET {".", ".."} /\ (C # {} => nd[i].type = "dir")
        OBVIOUS
    <2> HIDE DEF C
    <2>2. ASSUME NEW m PROVE Cardinality(C \cap {m}) = IF m \in C THEN 1 ELSE 0
        <3>1. CASE m \in C
            <4>1. C \cap {m} = {m}
                BY <3>1
            <4> QED
                BY <3>1, <4>1, FS_Singleton
        <3>2. CASE m \notin C
            <4>1. C \cap {m} = {}
                BY <3>2, SMTT(60)
            <4> QED
                BY <3>2, <4>1, FS_EmptySet
        <3> QED
            BY <3>1, <3>2
    <2> QED
        BY <2>1, <2>2
<1>5. /\ s \in ProcType /\ ProcOK(s) /\ s.claim = pr[p].claim /\ s.at \notin Under
      /\ \A j : Count(s, j) = Count(pr[p], j)
    BY <1>1, <1>3, ReturnedOK DEF Under
<1> HIDE DEF C, u, w, s, o, d, i, n
<1>6. /\ ent \in Entries
      /\ nd[ROOT].type = "dir" /\ ent[ROOT]["."] = ROOT /\ ent[ROOT][".."] = ROOT
      /\ \A j \in Inos : nd[j].type # "dir" => \A m \in AllNames : ent[j][m] = 0
      /\ \A e \in Inos, m \in FileNames :
            LET j == ent[e][m] IN
            j # 0 /\ nd[j].type = "dir" =>
                /\ j \notin {e, ROOT} /\ ent[j]["."] = j /\ ent[j][".."] = e
                /\ \A c \in FileNames : ent[e][c] = j => c = m
    BY NamesType DEF NameSpace
<1>7. /\ ent' \in Entries
      /\ \A a \in Inos, c \in AllNames : ent'[a][c] = IF (a = d /\ c = n) \/ (a = i /\ c \in C) THEN 0 ELSE ent[a][c]
    <2>1. ent' = RemovedIn(ent, d, n, i, C)
        BY <1>1 DEF RemovedIn
    <2>2. ent \in Entries /\ d \in Inos /\ i \in Inos /\ d # i /\ n \in FileNames
        BY <1>3, <1>6
    <2>3. ent' \in Entries /\ Removes(ent', ent, d, n, i, C)
        BY <2>1, <2>2, RemovedEntries
    <2> QED
        BY <2>3 DEF Removes
<1>8. \A j \in Inos : Naming(ent', j) = Naming(ent, j) - One(i = j) - (IF "." \in C THEN One(i = j) ELSE 0)
                          - (IF ".." \in C THEN One(d = j) ELSE 0)
    <2>1. C # {} => ent[i]["."] = i /\ ent[i][".."] = d
        BY <1>3, <1>4
    <2>2. ent \in Entries /\ d \in Inos /\ i \in Inos /\ d # i /\ n \in FileNames /\ ent[d][n] = i
        BY <1>3, <1>6
    <2>3. C \in SUBSET {".", ".."}
        BY <1>4
    <2>4. Removes(ent', ent, d, n, i, C)
        BY <1>7 DEF Removes
    <2>5. \A j \in Inos : Naming(ent', j) = Left(ent, d, i, C, j)
        BY <2>1, <2>2, <2>3, <2>4, RemovedNaming
    <2> QED
        BY <2>5 DEF Left
<1>9. \A j : Naming(ent, j) \in Nat /\ Naming(ent', j) \in Nat
    BY NamingFinite
<1>10. Naming(ent', i) = Naming(ent, i) - 1 - u
    <2>1. One(i = i) = 1 /\ One(d = i) = 0
        BY <1>3 DEF One
    <2> QED
        BY <1>3, <1>4, <1>8, <1>9, <2>1
<1>11. Naming(ent', d) = Naming(ent, d) - w
    <2>1. One(i = d) = 0 /\ One(d = d) = 1
        BY <1>3 DEF One
    <2> QED
        BY <1>3, <1>4, <1>8, <1>9, <2>1
<1>12. ASSUME NEW j \in Inos, j # i, j # d PROVE Naming(ent', j) = Naming(ent, j)
    <2>1. One(i = j) = 0 /\ One(d = j) = 0
        BY <1>12 DEF One
    <2> QED
        BY <1>8, <1>9, <2>1
<1> DEFINE k == nd[i].links - 1 - u
           l == nd[d].links - w
           x == Edited(nd[i], k, TRUE)
           y == Edited(nd[d], l, TRUE)
<1>13. u \in Nat /\ w \in Nat
    BY <1>4
<1>14. nd[i].links \in Nat /\ nd[i].lost \in Nat /\ nd[d].links \in Nat /\ nd[d].lost \in Nat
    BY <1>3 DEF NodeType
<1>15. k \in Nat /\ l \in Nat
    <2>1. nd[i].links = Naming(ent, i) + nd[i].lost /\ nd[d].links = Naming(ent, d) + nd[d].lost
        <3>1. nd[i].type # "free" /\ nd[d].type # "free"
            BY <1>3 DEF SfsCounted, FreeInv
        <3> QED
            BY <1>3, <3>1, LinksCount DEF NameSpace, Counts
    <2>2. k = Naming(ent', i) + nd[i].lost /\ l = Naming(ent', d) + nd[d].lost
        BY <1>9, <1>10, <1>11, <1>13, <1>14, <2>1
    <2> HIDE DEF k, l
    <2> QED
        BY <1>9, <1>14, <2>2
<1>16. nd \in [Inos -> NodeType] /\ TRUE \in BOOLEAN
    BY DEF SfsShape, NdTyped
<1>17. nd' = [nd EXCEPT ![i].links = @ - 1 - u, ![i].dirty = TRUE, ![d].links = @ - w, ![d].dirty = TRUE]
    BY <1>1
<1>18. nd'[i] = x /\ nd'[d] = y /\ \A j \in Inos \ {i, d} : nd'[j] = nd[j]
    BY <1>3, <1>16, <1>17 DEF Edited
<1> HIDE DEF k, l
<1>19. /\ x \in NodeType /\ x.type = nd[i].type /\ x.cached = nd[i].cached /\ x.ref = nd[i].ref /\ x.token = nd[i].token
       /\ x.links = k /\ x.disk = nd[i].disk /\ x.lost = nd[i].lost /\ x.dirty = TRUE
    BY <1>3, <1>15, <1>16, NodeEdited, Zenon
<1>20. /\ y \in NodeType /\ y.type = nd[d].type /\ y.cached = nd[d].cached /\ y.ref = nd[d].ref /\ y.token = nd[d].token
       /\ y.links = l /\ y.disk = nd[d].disk /\ y.lost = nd[d].lost /\ y.dirty = TRUE
    BY <1>3, <1>15, <1>16, NodeEdited, Zenon
<1> HIDE DEF x, y
<1>21. NdTyped'
    <2>1. \A j \in Inos : nd'[j] \in NodeType
        BY <1>16, <1>18, <1>19, <1>20
    <2>2. nd' = [j \in Inos |-> nd'[j]]
        BY <1>16, <1>17
    <2> QED
        BY <2>1, <2>2 DEF NdTyped
<1>22. RestTyped'
    BY <1>1, <1>7, Faulted DEF SfsShape, RestTyped, Entries
<1>23. \A j \in Inos : Alike(j)
    BY <1>18, <1>19, <1>20 DEF Alike
<1>24. SfsShape' /\ SfsCounted' /\ MutexInv'
    <2>1. Set(p, s) /\ mutex \in {p, None}
        BY <1>1, <1>3
    <2> QED
        BY <1>5, <1>21, <1>22, <1>23, <2>1, StepEdit
<1>25. ASSUME NEW j \in Inos PROVE Relinked(j)
    <2>1. CASE j = i
        <3>1. nd'[j].links = nd[j].links - 1 - u /\ Naming(ent', j) = Naming(ent, j) - 1 - u
            BY <1>10, <1>18, <1>19, <2>1 DEF k
        <3>2. nd'[j].links - nd[j].links = Naming(ent', j) - Naming(ent, j)
            BY <1>9, <1>13, <1>14, <2>1, <3>1
        <3> QED
            BY <1>3, <1>18, <1>19, <2>1, <3>2 DEF Relinked
    <2>2. CASE j = d
        <3>1. nd'[j].links = nd[j].links - w /\ Naming(ent', j) = Naming(ent, j) - w
            BY <1>11, <1>18, <1>20, <2>2 DEF l
        <3>2. nd'[j].links - nd[j].links = Naming(ent', j) - Naming(ent, j)
            BY <1>9, <1>13, <1>14, <2>2, <3>1
        <3> QED
            BY <1>3, <1>18, <1>20, <2>2, <3>2 DEF Relinked
    <2>3. CASE j \notin {i, d}
        BY <1>12, <1>18, <2>3, RelinkedSame
    <2> QED
        BY <2>1, <2>2, <2>3
<1>26. LinksExact' /\ SavedInv' /\ \A j \in Inos : nd'[j].type = "free" => Naming(ent', j) = 0
    BY <1>21, <1>25, LinksRelinked
<1>27. NamesInv'
    <2>1. \A j \in Inos : nd'[j].type = nd[j].type
        BY <1>23 DEF Alike
    <2>2. "." \in AllNames /\ ".." \in AllNames /\ ROOT \in Inos /\ n # "." /\ n # ".."
        BY <1>3, InosFinite
    <2>3. nd'[ROOT].type = "dir" /\ ent'[ROOT]["."] = ROOT /\ ent'[ROOT][".."] = ROOT
        BY <1>3, <1>6, <1>7, <2>1, <2>2
    <2>4. ASSUME NEW j \in Inos, nd'[j].type # "dir", NEW m \in AllNames PROVE ent'[j][m] = 0
        BY <1>6, <1>7, <2>1, <2>4
    <2>5. ASSUME NEW e \in Inos, NEW m \in FileNames, NEW j, j = ent'[e][m], j # 0, nd'[j].type = "dir"
          PROVE  /\ j \notin {e, ROOT} /\ ent'[j]["."] = j /\ ent'[j][".."] = e
                 /\ \A c \in FileNames : ent'[e][c] = j => c = m
        <3>1. m \in AllNames /\ FileNames \subseteq AllNames
            BY InosFinite
        <3>2. j = ent[e][m] /\ ~(e = d /\ m = n)
            BY <1>7, <2>5, <3>1
        <3>3. j \in Inos
            BY <1>6, <2>5, <3>1, <3>2 DEF Entries
        <3>4. nd[j].type = "dir"
            BY <2>1, <2>5, <3>3
        <3>5. /\ j \notin {e, ROOT} /\ ent[j]["."] = j /\ ent[j][".."] = e
              /\ \A c \in FileNames : ent[e][c] = j => c = m
            BY <1>6, <2>5, <3>2, <3>4
        <3>6. j # i
            BY <1>3, <3>2, <3>4, <3>5
        <3>7. ent'[j]["."] = j /\ ent'[j][".."] = e
            BY <1>7, <2>2, <3>3, <3>5, <3>6
        <3>8. ASSUME NEW c \in FileNames, ent'[e][c] = j PROVE c = m
            BY <1>7, <2>5, <3>1, <3>5, <3>8
        <3> QED
            BY <3>5, <3>7, <3>8
    <2> QED
        BY <1>7, <1>21, <1>26, <2>3, <2>4, <2>5, NamesBack
<1>28. LoopInv'
    <2>1. faults' = 0 => faults = 0
        BY <1>1, Faulted
    <2>2. \A a \in Inos : ent'[a][".."] \in {ent[a][".."], 0}
        BY <1>7, InosFinite
    <2>3. NoLoop(ent) => NoLoop(ent')
        BY <2>2, LoopCut
    <2> QED
        BY <2>1, <2>3 DEF NameSpace, LoopInv, NoLoop
<1> QED
    BY <1>24, <1>26, <1>27, <1>28, SMTT(60) DEF NameSpace

-----------------------------------------------------------------------------
(* sfs_rename                                                              *)
RenameMoves(f, e, d, m, t, n, i, isdir) ==
    \A x \in Inos, y \in AllNames :
        f[x][y] = IF x = d /\ y = m THEN 0 ELSE IF x = t /\ y = n THEN i
                  ELSE IF isdir /\ x = i /\ y = ".." THEN t ELSE e[x][y]
MovedIn(e, d, m, t, n, i, isdir) ==
    [e EXCEPT ![d][m] = 0, ![t][n] = i, ![i][".."] = IF isdir THEN t ELSE @]

(* The entries after a rename, and how often each inode is named.          *)
LEMMA MovedEntries ==
    ASSUME NEW e \in Entries, NEW d \in Inos, NEW t \in Inos, NEW i \in Inos, NEW m \in FileNames, NEW n \in FileNames,
           NEW isdir \in BOOLEAN, e[d][m] = i, e[t][n] = 0, i # d, i # t, isdir => e[i][".."] = d
    PROVE  LET f == MovedIn(e, d, m, t, n, i, isdir)
           IN  /\ f \in Entries /\ RenameMoves(f, e, d, m, t, n, i, isdir)
               /\ \A j \in Inos : Naming(f, j) = Naming(e, j) + (IF isdir THEN One(t = j) - One(d = j) ELSE 0)
<1>1. m \in AllNames /\ n \in AllNames /\ ".." \in AllNames /\ m # ".." /\ n # ".." /\ i # 0
    BY InosFinite
<1>2. 0 \in Inos \cup {0} /\ i \in Inos \cup {0}
    OBVIOUS
<1> DEFINE f == MovedIn(e, d, m, t, n, i, isdir)
           e1 == Entered(e, d, m, 0)
           e2 == Entered(e1, t, n, i)
           v == IF isdir THEN t ELSE e2[i][".."]
           e3 == Entered(e2, i, "..", v)
<1>3. f = e3
    BY DEF Entered, MovedIn
<1>4. Sets(e1, e, d, m, 0) /\ \A j : Naming(e1, j) = Naming(e, j) + One(0 = j) - One(e[d][m] = j)
    BY <1>1, <1>2, EnteredOK, NamingSet
<1> HIDE DEF e1, f
<1>5. e1 \in Entries
    BY <1>4 DEF Sets
<1>6. Sets(e2, e1, t, n, i) /\ \A j : Naming(e2, j) = Naming(e1, j) + One(i = j) - One(e1[t][n] = j)
    BY <1>1, <1>2, <1>5, EnteredOK, NamingSet
<1> HIDE DEF e2
<1>7. e2 \in Entries /\ v \in Inos \cup {0}
    BY <1>1, <1>6 DEF Sets, Entries
<1> HIDE DEF v
<1>8. Sets(e3, e2, i, "..", v) /\ \A j : Naming(e3, j) = Naming(e2, j) + One(v = j) - One(e2[i][".."] = j)
    BY <1>1, <1>7, EnteredOK, NamingSet
<1> HIDE DEF e3
<1>9. e1[t][n] = 0
    BY <1>1, <1>4 DEF Sets
<1>10. e2[i][".."] = e[i][".."]
    BY <1>1, <1>4, <1>6 DEF Sets
<1>11. v = IF isdir THEN t ELSE e[i][".."]
    BY <1>10 DEF v
<1>12. ASSUME NEW x \in Inos, NEW y \in AllNames
       PROVE  f[x][y] = IF x = d /\ y = m THEN 0 ELSE IF x = t /\ y = n THEN i
                        ELSE IF isdir /\ x = i /\ y = ".." THEN t ELSE e[x][y]
    <2>1. e3[x][y] = IF x = i /\ y = ".." THEN v ELSE e2[x][y]
        BY <1>8 DEF Sets
    <2>2. e2[x][y] = IF x = t /\ y = n THEN i ELSE e1[x][y]
        BY <1>6 DEF Sets
    <2>3. e1[x][y] = IF x = d /\ y = m THEN 0 ELSE e[x][y]
        BY <1>4 DEF Sets
    <2>4. ~(d = t /\ m = n)
        BY <1>1
    <2> QED
        BY <1>1, <1>3, <1>11, <2>1, <2>2, <2>3, <2>4
<1>13. ASSUME NEW j \in Inos
       PROVE  Naming(f, j) = Naming(e, j) + (IF isdir THEN One(t = j) - One(d = j) ELSE 0)
    <2>1. j # 0
        BY InosFinite
    <2>2. One(0 = j) = 0 /\ One(e1[t][n] = j) = 0 /\ One(e[d][m] = j) = One(i = j)
        BY <1>9, <2>1 DEF One
    <2>3. /\ One(i = j) \in Int /\ One(t = j) \in Int /\ One(d = j) \in Int /\ One(v = j) \in Int
          /\ One(e2[i][".."] = j) \in Int /\ Naming(e, j) \in Int
        BY NamingFinite DEF One
    <2>4. Naming(e2, j) = Naming(e, j)
        <3>1. Naming(e1, j) = Naming(e, j) + One(0 = j) - One(e[d][m] = j)
            BY <1>4
        <3>2. Naming(e2, j) = Naming(e1, j) + One(i = j) - One(e1[t][n] = j)
            BY <1>6
        <3>3. \A a, b \in Int : ((a + 0) - b) + b - 0 = a
            OBVIOUS
        <3> QED
            BY <2>2, <2>3, <3>1, <3>2, <3>3
    <2>5. Naming(f, j) = Naming(e, j) + One(v = j) - One(e2[i][".."] = j)
        BY <1>3, <1>8, <2>4
    <2>6. CASE isdir
        <3>1. v = t /\ e2[i][".."] = d
            BY <1>10, <1>11, <2>6
        <3>2. \A a, b, c \in Int : a + b - c = a + (b - c)
            OBVIOUS
        <3> QED
            BY <2>3, <2>5, <2>6, <3>1, <3>2
    <2>7. CASE ~isdir
        <3>1. v = e2[i][".."]
            BY <2>7 DEF v
        <3>2. \A a, b \in Int : a + b - b = a + 0
            OBVIOUS
        <3> QED
            BY <2>3, <2>5, <2>7, <3>1, <3>2
    <2> QED
        BY <2>6, <2>7
<1>14. f \in Entries
    BY <1>3, <1>8 DEF Sets
<1> QED
    BY <1>12, <1>13, <1>14 DEF f, RenameMoves

(* Nothing is moved below itself when sfs_dir_reaches was answered.        *)
LEMMA NotBelow ==
    ASSUME NEW e \in Entries, NoLoop(e), e[ROOT][".."] = ROOT, NEW f, NEW t \in Inos, NEW i \in Inos,
           f[i][".."] = t, \A x \in Inos \ {i} : f[x][".."] = e[x][".."],
           \A k \in 0 .. INOS : Above(e, t)[k] # i
    PROVE  NoLoop(f)
<1> SUFFICES ASSUME NEW S \in SUBSET (Inos \ {ROOT}), S # {}, \A x \in S : f[x][".."] \in S PROVE FALSE
    BY DEF NoLoop
<1>1. PICK x \in S : e[x][".."] \notin S
    BY DEF NoLoop
<1>2. i \in S /\ t \in S /\ 0 \notin S
    BY <1>1, InosFinite
<1> DEFINE A == Above(e, t)
<1>3. /\ \A k \in 0 .. INOS : A[k] \in Inos \cup {0}
      /\ \A k \in 0 .. INOS - 1 : A[k + 1] = Parent(e, A[k])
    BY AboveProps
<1>4. ASSUME NEW k \in 0 .. INOS - 1, A[k] \in S PROVE A[k + 1] \in S
    <2>1. k \in 0 .. INOS
        BY SfsAssumption
    <2>2. A[k] # i /\ A[k] # 0
        BY <1>2, <1>4, <2>1
    <2> HIDE DEF A
    <2>3. A[k + 1] = e[A[k]][".."]
        BY <1>3, <2>2 DEF Parent
    <2>4. A[k] \in Inos \ {i}
        BY <1>4, <2>2
    <2> QED
        BY <1>4, <2>3, <2>4
<1>5. \A k \in 0 .. INOS : A[k] \in S
    BY <1>2, <1>4, ChainStays
<1>6. INOS \in 0 .. INOS
    BY SfsAssumption
<1>7. A[INOS] \in {0, ROOT}
    BY NoLoopChains
<1> QED
    BY <1>2, <1>5, <1>6, <1>7

Moved(x, b, k) == [x EXCEPT !.dirty = b, !.links = k]

(* The fields of a directory that a rename adds an entry to or takes one   *)
(* from.                                                                   *)
LEMMA NodeMoved ==
    ASSUME NEW x \in NodeType, NEW k \in Nat, NEW b \in BOOLEAN
    PROVE  LET y == Moved(x, b, k)
           IN  /\ y \in NodeType /\ y.type = x.type /\ y.cached = x.cached /\ y.ref = x.ref /\ y.token = x.token
               /\ y.links = k /\ y.disk = x.disk /\ y.lost = x.lost /\ y.dirty = b
BY DEF NodeType, Moved

(* The links of the two directories.                                       *)
NamesMoved(d, t, isdir) ==
    \A j \in Inos : Naming(ent', j) = Naming(ent, j) + (IF isdir THEN One(t = j) - One(d = j) ELSE 0)
NodesMoved(d, t, i, isdir) ==
    nd' = IF d = t THEN nd
          ELSE [nd EXCEPT ![i].dirty = TRUE, ![d].dirty = TRUE, ![t].dirty = TRUE,
                          ![d].links = IF isdir THEN @ - 1 ELSE @,
                          ![t].links = IF isdir THEN @ + 1 ELSE @]

(* A rename changes the links of the two directories as their names change.*)
LEMMA MovedNodes ==
    ASSUME SfsShape, SfsCounted, NameSpace, NEW d \in Inos, NEW t \in Inos, NEW i \in Inos, i # d, i # t, NEW isdir \in BOOLEAN,
           nd[d].cached, nd[t].cached, isdir => d # t, NamesMoved(d, t, isdir), NodesMoved(d, t, i, isdir)
    PROVE  NdTyped' /\ \A j \in Inos : Alike(j) /\ Relinked(j)
<1>1. nd \in [Inos -> NodeType] /\ TRUE \in BOOLEAN
    BY DEF SfsShape, NdTyped
<1>2. \A j : Naming(ent, j) \in Nat /\ Naming(ent', j) \in Nat
    BY NamingFinite
<1>3. CASE d = t
    <2>1. nd' = nd /\ ~isdir
        BY <1>3 DEF NodesMoved
    <2>2. \A j \in Inos : Naming(ent', j) = Naming(ent, j)
        BY <1>2, <2>1 DEF NamesMoved
    <2>3. NdTyped' /\ \A j \in Inos : Alike(j)
        BY <1>1, <2>1 DEF NdTyped, Alike
    <2>4. \A j \in Inos : Relinked(j)
        BY <2>1, <2>2, RelinkedSame
    <2> QED
        BY <2>3, <2>4
<1>4. CASE d # t
    <2>1. nd' = [nd EXCEPT ![i].dirty = TRUE, ![d].dirty = TRUE, ![t].dirty = TRUE,
                           ![d].links = IF isdir THEN @ - 1 ELSE @,
                           ![t].links = IF isdir THEN @ + 1 ELSE @]
        BY <1>4 DEF NodesMoved
    <2> DEFINE k == IF isdir THEN nd[d].links - 1 ELSE nd[d].links
               l == IF isdir THEN nd[t].links + 1 ELSE nd[t].links
               x == Dirtied(nd[i], TRUE)
               y == Moved(nd[d], TRUE, k)
               z == Moved(nd[t], TRUE, l)
    <2>2. nd'[i] = x /\ nd'[d] = y /\ nd'[t] = z /\ \A j \in Inos \ {i, d, t} : nd'[j] = nd[j]
        BY <1>1, <1>4, <2>1 DEF Dirtied, Moved
    <2>3. nd[i] \in NodeType /\ nd[d] \in NodeType /\ nd[t] \in NodeType
        BY <1>1
    <2>4. nd[d].links \in Nat /\ nd[d].lost \in Nat /\ nd[t].links \in Nat
        BY <2>3 DEF NodeType
    <2>5. /\ Naming(ent', d) = Naming(ent, d) - (IF isdir THEN 1 ELSE 0)
          /\ Naming(ent', t) = Naming(ent, t) + (IF isdir THEN 1 ELSE 0)
        <3>1. One(t = d) = 0 /\ One(d = d) = 1 /\ One(t = t) = 1 /\ One(d = t) = 0
            BY <1>4 DEF One
        <3> QED
            BY <1>2, <3>1 DEF NamesMoved
    <2>6. k \in Nat /\ l \in Nat
        <3>1. nd[d].links = Naming(ent, d) + nd[d].lost
            <4>1. nd[d].type # "free"
                BY DEF SfsCounted, FreeInv
            <4> QED
                BY <4>1, LinksCount DEF NameSpace, Counts
        <3>2. Naming(ent', d) \in Nat /\ Naming(ent, d) \in Nat
            BY <1>2
        <3> QED
            BY <2>4, <2>5, <3>1, <3>2
    <2>7. (isdir => k = nd[d].links - 1 /\ l = nd[t].links + 1) /\ (~isdir => k = nd[d].links /\ l = nd[t].links)
        OBVIOUS
    <2> HIDE DEF k, l
    <2>8. /\ x \in NodeType /\ x.type = nd[i].type /\ x.cached = nd[i].cached /\ x.ref = nd[i].ref /\ x.token = nd[i].token
          /\ x.links = nd[i].links /\ x.disk = nd[i].disk /\ x.lost = nd[i].lost /\ x.dirty = TRUE
        BY <1>1, <2>3, NodeDirtied, Zenon
    <2>9. /\ y \in NodeType /\ y.type = nd[d].type /\ y.cached = nd[d].cached /\ y.ref = nd[d].ref /\ y.token = nd[d].token
          /\ y.links = k /\ y.disk = nd[d].disk /\ y.lost = nd[d].lost /\ y.dirty = TRUE
        BY <1>1, <2>3, <2>6, NodeMoved, Zenon
    <2>10. /\ z \in NodeType /\ z.type = nd[t].type /\ z.cached = nd[t].cached /\ z.ref = nd[t].ref /\ z.token = nd[t].token
           /\ z.links = l /\ z.disk = nd[t].disk /\ z.lost = nd[t].lost /\ z.dirty = TRUE
        BY <1>1, <2>3, <2>6, NodeMoved, Zenon
    <2> HIDE DEF x, y, z
    <2>11. NdTyped'
        <3>1. \A j \in Inos : nd'[j] \in NodeType
            BY <1>1, <2>2, <2>8, <2>9, <2>10, SMTT(60)
        <3>2. nd' = [j \in Inos |-> nd'[j]]
            BY <1>1, <2>1
        <3> QED
            BY <3>1, <3>2 DEF NdTyped
    <2>12. \A j \in Inos : Alike(j)
        BY <2>2, <2>8, <2>9, <2>10, ZenonT(60) DEF Alike
    <2>13. ASSUME NEW j \in Inos PROVE Relinked(j)
        <3>1. CASE j = d
            <4>1. nd'[j].links - nd[j].links = Naming(ent', j) - Naming(ent, j)
                <5>1. Naming(ent', d) \in Nat /\ Naming(ent, d) \in Nat /\ nd'[d].links = k
                    BY <1>2, <2>2, <2>9
                <5> QED
                    BY <2>4, <2>5, <2>7, <3>1, <5>1
            <4> QED
                BY <2>2, <2>9, <3>1, <4>1 DEF Relinked
        <3>2. CASE j = t
            <4>1. nd'[j].links - nd[j].links = Naming(ent', j) - Naming(ent, j)
                <5>1. Naming(ent', t) \in Nat /\ Naming(ent, t) \in Nat /\ nd'[t].links = l
                    BY <1>2, <2>2, <2>10
                <5> QED
                    BY <2>4, <2>5, <2>7, <3>2, <5>1
            <4> QED
                BY <2>2, <2>10, <3>2, <4>1 DEF Relinked
        <3>3. CASE j \notin {d, t}
            <4>1. Naming(ent', j) = Naming(ent, j)
                <5>1. One(t = j) = 0 /\ One(d = j) = 0 /\ Naming(ent, j) \in Nat
                    BY <1>2, <3>3 DEF One
                <5> QED
                    BY <5>1 DEF NamesMoved
            <4>2. /\ nd'[j].type = nd[j].type /\ nd'[j].cached = nd[j].cached /\ nd'[j].lost = nd[j].lost
                  /\ nd'[j].disk = nd[j].disk /\ nd'[j].links = nd[j].links /\ (~nd'[j].dirty => ~nd[j].dirty)
                BY <2>2, <2>8, <3>3
            <4> QED
                BY <4>1, <4>2, RelinkedSame
        <3> QED
            BY <3>1, <3>2, <3>3
    <2> QED
        BY <2>11, <2>12, <2>13
<1> QED
    BY <1>3, <1>4

(* Rename keeps the types, the counts and what mutex_sem protects, and the *)
(* name space.                                                             *)
LEMMA RenameSafe ==
    ASSUME SfsShape, SfsCounted, MutexInv, NameSpace, NEW p \in Procs, NEW checked \in BOOLEAN, Rename(p, checked)
    PROVE  SfsShape' /\ SfsCounted' /\ MutexInv' /\ NameSpace'
<1> DEFINE o == pr[p]
           d == o.hold[1]
           t == o.hold[2]
           i == o.hold[3]
           m == Last(o.call.path)
           n == Last(o.call.to)
           isdir == d # t /\ nd[i].type = "dir"
           s == [Returned(o) EXCEPT !.drop = <<o.hold[3], o.hold[1], o.hold[2]>>]
<1>1. /\ o.at = "change" /\ o.drop = <<>> /\ o.claim = 0 /\ o.call.op = "rename" /\ mutex' = None
      /\ Set(p, s) /\ UNCHANGED <<scene, fs>> /\ i # t /\ ent[t][n] = 0
      /\ ~(isdir /\ checked /\ Reaches(t, i))
      /\ IF checked THEN UNCHANGED faults ELSE Fault
    BY ZenonT(60) DEF Rename, RenameTo, Stands, Op, Dir, IsDir, Unlock
<1>2. ent' = [ent EXCEPT ![d][m] = 0, ![t][n] = i, ![i][".."] = IF isdir THEN t ELSE @]
    BY ZenonT(60) DEF Rename, RenameTo, Name, IsDir
<1>3. nd' = IF d = t THEN nd
            ELSE [nd EXCEPT ![i].dirty = TRUE, ![d].dirty = TRUE, ![t].dirty = TRUE,
                            ![d].links = IF isdir THEN @ - 1 ELSE @,
                            ![t].links = IF isdir THEN @ + 1 ELSE @]
    BY DEF Rename, RenameTo, IsDir
<1>4. /\ s \in ProcType /\ ProcOK(s) /\ s.claim = pr[p].claim /\ s.at \notin Under
      /\ \A j : Count(s, j) = Count(pr[p], j)
      /\ t \in Inos /\ Count(o, t) # 0 /\ o.second /\ Len(o.hold) = 3
    BY <1>1, RenamedOK, SMTT(60) DEF Under
<1> HIDE DEF s
<1>5. /\ d \in Inos /\ nd[d].cached /\ nd[d].type = "dir"
      /\ i \in Inos /\ i # d /\ i # ROOT /\ m \in FileNames /\ ent[d][m] = i
      /\ nd[i].type = "dir" => /\ ent[i]["."] = i /\ ent[i][".."] = d
                               /\ \A c \in FileNames : ent[d][c] = i => c = m
    <2> DEFINE z == o.hold[Len(o.hold)]
    <2>1. /\ d \in Inos /\ nd[d].cached /\ nd[d].type = "dir"
          /\ z \in Inos /\ z # d /\ z # ROOT /\ m \in FileNames /\ ent[d][m] = z
          /\ nd[z].type = "dir" => /\ ent[z]["."] = z /\ ent[z][".."] = d
                                   /\ \A c \in FileNames : ent[d][c] = z => c = m
        BY <1>1, Remover
    <2>2. z = i
        BY <1>4
    <2> HIDE DEF z, o, d, m, i
    <2> QED
        BY <2>1, <2>2
<1>6. nd[t].cached /\ mutex = p
    BY <1>1, <1>4, HeldLive DEF MutexInv, MutexOK, Under
<1>7. nd[t].type = "dir"
    BY <1>1, <1>4 DEF MutexInv, MutexOK, Under, IsDir
<1>8. n \in FileNames
    <2>1. ProcOK(o)
        BY Of
    <2> QED
        BY <1>1, <2>1 DEF ProcOK, PathsOK
<1>9. isdir \in BOOLEAN /\ (isdir <=> d # t /\ nd[i].type = "dir")
    OBVIOUS
<1> HIDE DEF o, d, t, i, m, n, isdir
<1>10. /\ ent \in Entries
       /\ nd[ROOT].type = "dir" /\ ent[ROOT]["."] = ROOT /\ ent[ROOT][".."] = ROOT
       /\ \A j \in Inos : nd[j].type # "dir" => \A c \in AllNames : ent[j][c] = 0
       /\ \A e \in Inos, b \in FileNames :
             LET j == ent[e][b] IN
             j # 0 /\ nd[j].type = "dir" =>
                 /\ j \notin {e, ROOT} /\ ent[j]["."] = j /\ ent[j][".."] = e
                 /\ \A c \in FileNames : ent[e][c] = j => c = b
    BY NamesType DEF NameSpace
<1>11. /\ ent' \in Entries /\ RenameMoves(ent', ent, d, m, t, n, i, isdir)
       /\ \A j \in Inos : Naming(ent', j) = Naming(ent, j) + (IF isdir THEN One(t = j) - One(d = j) ELSE 0)
    <2>1. ent' = MovedIn(ent, d, m, t, n, i, isdir)
        BY <1>2 DEF MovedIn
    <2>2. /\ ent \in Entries /\ d \in Inos /\ t \in Inos /\ i \in Inos /\ m \in FileNames /\ n \in FileNames
          /\ isdir \in BOOLEAN /\ ent[d][m] = i /\ ent[t][n] = 0 /\ i # d /\ i # t /\ (isdir => ent[i][".."] = d)
        BY <1>1, <1>4, <1>5, <1>8, <1>9, <1>10
    <2> DEFINE f == MovedIn(ent, d, m, t, n, i, isdir)
    <2>3. f \in Entries /\ RenameMoves(f, ent, d, m, t, n, i, isdir)
        BY <2>2, MovedEntries
    <2>4. \A j \in Inos : Naming(f, j) = Naming(ent, j) + (IF isdir THEN One(t = j) - One(d = j) ELSE 0)
        BY <2>2, MovedEntries
    <2> HIDE DEF f
    <2>5. ent' = f
        BY <2>1 DEF f
    <2> QED
        BY <2>3, <2>4, <2>5
<1>12. \A a \in Inos, c \in AllNames :
           ent'[a][c] = IF a = d /\ c = m THEN 0 ELSE IF a = t /\ c = n THEN i
                        ELSE IF isdir /\ a = i /\ c = ".." THEN t ELSE ent[a][c]
    BY <1>11 DEF RenameMoves
<1>13. NdTyped' /\ \A j \in Inos : Alike(j) /\ Relinked(j)
    <2>1. NamesMoved(d, t, isdir)
        BY <1>11 DEF NamesMoved
    <2>2. NodesMoved(d, t, i, isdir)
        BY <1>3 DEF NodesMoved
    <2>3. /\ d \in Inos /\ t \in Inos /\ i \in Inos /\ i # d /\ i # t /\ isdir \in BOOLEAN
          /\ nd[d].cached /\ nd[t].cached /\ (isdir => d # t)
        BY <1>1, <1>4, <1>5, <1>6, <1>9
    <2> QED
        BY <2>1, <2>2, <2>3, MovedNodes
<1>14. RestTyped'
    BY <1>1, <1>11, Faulted DEF SfsShape, RestTyped, Entries
<1>15. SfsShape' /\ SfsCounted' /\ MutexInv'
    <2>1. Set(p, s) /\ mutex \in {p, None}
        BY <1>1, <1>6
    <2> QED
        BY <1>4, <1>13, <1>14, <2>1, StepEdit
<1>16. LinksExact' /\ SavedInv' /\ \A j \in Inos : nd'[j].type = "free" => Naming(ent', j) = 0
    BY <1>13, LinksRelinked
<1>17. NamesInv'
    <2>1. \A j \in Inos : nd'[j].type = nd[j].type
        BY <1>13 DEF Alike
    <2>2. /\ "." \in AllNames /\ ".." \in AllNames /\ ROOT \in Inos /\ m # "." /\ m # ".." /\ n # "." /\ n # ".."
          /\ m \in AllNames /\ n \in AllNames
        BY <1>5, <1>8, InosFinite
    <2>3. nd'[ROOT].type = "dir" /\ ent'[ROOT]["."] = ROOT /\ ent'[ROOT][".."] = ROOT
        BY <1>5, <1>10, <1>12, <2>1, <2>2
    <2>4. ASSUME NEW j \in Inos, nd'[j].type # "dir", NEW c \in AllNames PROVE ent'[j][c] = 0
        <3>1. nd[j].type # "dir" /\ ent[j][c] = 0
            BY <1>10, <2>1, <2>4
        <3>2. j # d /\ j # t /\ ~(isdir /\ j = i)
            BY <1>5, <1>7, <1>9, <3>1
        <3> QED
            BY <1>12, <3>1, <3>2
    <2>5. ASSUME NEW e \in Inos, NEW b \in FileNames, NEW j, j = ent'[e][b], j # 0, nd'[j].type = "dir"
          PROVE  /\ j \notin {e, ROOT} /\ ent'[j]["."] = j /\ ent'[j][".."] = e
                 /\ \A c \in FileNames : ent'[e][c] = j => c = b
        <3>1. /\ b \in AllNames /\ b # "." /\ b # ".." /\ FileNames \subseteq AllNames
              /\ \A c \in FileNames : c # ".."
            BY InosFinite
        <3>2. j \in Inos
            BY <1>11, <2>5, <3>1 DEF Entries
        <3>3. nd[j].type = "dir"
            BY <2>1, <2>5, <3>2
        <3>4. ASSUME NEW c \in FileNames PROVE ent'[e][c] = IF e = d /\ c = m THEN 0 ELSE IF e = t /\ c = n THEN i ELSE ent[e][c]
            BY <1>12, <3>1
        <3>5. CASE e = t /\ b = n
            <4>1. j = i
                BY <1>1, <1>5, <2>5, <3>4, <3>5
            <4>2. /\ ent[i]["."] = i /\ ent[i][".."] = d
                  /\ \A c \in FileNames : ent[d][c] = i => c = m
                BY <1>5, <3>3, <4>1
            <4>3. ent'[i]["."] = i
                BY <1>1, <1>5, <1>12, <2>2, <4>2
            <4>4. ent'[i][".."] = t
                BY <1>1, <1>5, <1>9, <1>12, <2>2, <3>3, <4>1, <4>2
            <4>5. ASSUME NEW c \in FileNames, ent'[t][c] = i PROVE c = n
                <5> SUFFICES ASSUME c # n PROVE FALSE
                    OBVIOUS
                <5>1. ent[t][c] = i /\ ~(t = d /\ c = m)
                    BY <1>5, <3>2, <3>4, <3>5, <4>1, <4>5, InosFinite
                <5>2. ent[i][".."] = t
                    BY <1>4, <1>10, <3>2, <3>3, <4>1, <5>1, InosFinite
                <5> QED
                    BY <4>2, <5>1, <5>2
            <4> QED
                BY <1>1, <1>5, <3>5, <4>1, <4>3, <4>4, <4>5
        <3>6. CASE ~(e = t /\ b = n)
            <4>1. j = ent[e][b] /\ ~(e = d /\ b = m)
                BY <2>5, <3>4, <3>6
            <4>2. /\ j \notin {e, ROOT} /\ ent[j]["."] = j /\ ent[j][".."] = e
                  /\ \A c \in FileNames : ent[e][c] = j => c = b
                BY <1>10, <2>5, <3>3, <4>1
            <4>3. j # i
                BY <1>5, <3>3, <4>1, <4>2
            <4>4. ent'[j]["."] = j /\ ent'[j][".."] = e
                BY <1>12, <2>2, <3>2, <4>2, <4>3
            <4>5. ASSUME NEW c \in FileNames, ent'[e][c] = j PROVE c = b
                <5>1. ent[e][c] = j
                    BY <2>5, <3>4, <4>3, <4>5
                <5> QED
                    BY <4>2, <5>1
            <4> QED
                BY <4>2, <4>4, <4>5
        <3> QED
            BY <3>5, <3>6
    <2> QED
        BY <1>11, <1>13, <1>16, <2>3, <2>4, <2>5, NamesBack
<1>18. LoopInv'
    <2> SUFFICES ASSUME faults' = 0 PROVE NoLoop(ent')
        BY DEF LoopInv, NoLoop
    <2>1. faults = 0 /\ checked
        BY <1>1, Faulted
    <2>2. NoLoop(ent)
        BY <2>1 DEF NameSpace, LoopInv, NoLoop
    <2>3. ".." \in AllNames /\ m # ".." /\ n # ".."
        BY <1>5, <1>8, InosFinite
    <2>4. \A a \in Inos : ent'[a][".."] = IF isdir /\ a = i THEN t ELSE ent[a][".."]
        BY <1>12, <2>3
    <2>5. CASE isdir
        <3>1. \A k \in 0 .. INOS : Above(ent, t)[k] # i
            BY <1>1, <2>1, <2>5 DEF Reaches, Up
        <3>2. ent'[i][".."] = t /\ \A a \in Inos \ {i} : ent'[a][".."] = ent[a][".."]
            BY <1>5, <2>4, <2>5
        <3>3. ent \in Entries /\ ent[ROOT][".."] = ROOT /\ t \in Inos /\ i \in Inos
            BY <1>4, <1>5, <1>10
        <3> QED
            BY <2>2, <3>1, <3>2, <3>3, NotBelow
    <2>6. CASE ~isdir
        <3>1. \A a \in Inos : ent'[a][".."] \in {ent[a][".."], 0}
            BY <2>4, <2>6
        <3> QED
            BY <2>2, <3>1, LoopCut
    <2> QED
        BY <2>5, <2>6
<1> QED
    BY <1>15, <1>16, <1>17, <1>18, SMTT(60) DEF NameSpace

-----------------------------------------------------------------------------
(* All the invariants together.                                            *)
SfsInv == SfsShape /\ SfsCounted /\ MutexInv /\ NameSpace

Rooted(k) == [NewInode("dir") EXCEPT !.links = k, !.disk = k]
Unread(t, k) == [Absent EXCEPT !.type = t, !.links = k, !.disk = k]

(* The fields of the root inode at mount.                                  *)
LEMMA NodeRooted ==
    ASSUME NEW k \in Nat
    PROVE  LET x == Rooted(k)
           IN  /\ x \in NodeType /\ x.type = "dir" /\ x.cached = TRUE /\ x.ref = 1 /\ x.token = 1 /\ x.links = k
               /\ x.disk = k /\ x.lost = 0
<1>1. 0 \in 0 .. TOKENS /\ 1 \in 0 .. TOKENS
    BY SfsAssumption
<1> DEFINE n == NewInode("dir")
<1>2. /\ n \in NodeType /\ n.type = "dir" /\ n.cached = TRUE /\ n.ref = 1 /\ n.token = 1 /\ n.lost = 0
    BY <1>1 DEF NewInode, NodeType
<1> HIDE DEF n
<1>3. LET x == [n EXCEPT !.links = k, !.disk = k]
      IN  /\ x \in NodeType /\ x.type = n.type /\ x.cached = n.cached /\ x.ref = n.ref /\ x.token = n.token /\ x.links = k
          /\ x.disk = k /\ x.lost = n.lost
    BY <1>2 DEF NodeType
<1>4. Rooted(k) = [n EXCEPT !.links = k, !.disk = k]
    BY DEF Rooted, n
<1> QED
    BY <1>2, <1>3, <1>4, Zenon

(* A free block has lost no names.                                         *)
LEMMA AbsentLost == Absent.lost = 0
<1>1. 0 \in 0 .. TOKENS /\ 1 \in 0 .. TOKENS
    BY SfsAssumption
<1> DEFINE f == NewInode("free")
<1>2. f.lost = 0
    BY DEF NewInode
<1>3. f \in NodeType
    BY <1>1 DEF NewInode, NodeType
<1> HIDE DEF f
<1>4. \A b \in BOOLEAN, r \in Int, c \in Nat : [f EXCEPT !.cached = b, !.ref = r, !.token = c].lost = f.lost
    BY <1>3 DEF NodeType
<1>5. FALSE \in BOOLEAN /\ 0 \in Int /\ 0 \in Nat
    OBVIOUS
<1>6. Absent = [f EXCEPT !.cached = FALSE, !.ref = 0, !.token = 0]
    BY DEF Absent, f
<1> QED
    BY <1>2, <1>4, <1>5, <1>6, Zenon

Reads(t, k) ==
    LET x == Unread(t, k)
    IN  x \in NodeType /\ x.type = t /\ x.cached = FALSE /\ x.ref = 0 /\ x.disk = k /\ x.lost = 0

(* The fields of an inode that is still on the disk only.                  *)
LEMMA NodeUnread ==
    ASSUME NEW t \in {"free", "file", "dir"}, NEW k \in Nat
    PROVE  Reads(t, k)
<1> DEFINE a == Absent
<1>1. a \in NodeType /\ a.cached = FALSE /\ a.ref = 0 /\ a.lost = 0
    BY AbsentOK, AbsentLost
<1> HIDE DEF a
<1>2. LET x == [a EXCEPT !.type = t, !.links = k, !.disk = k]
      IN  x \in NodeType /\ x.type = t /\ x.cached = a.cached /\ x.ref = a.ref /\ x.disk = k /\ x.lost = a.lost
    BY <1>1 DEF NodeType
<1>3. Unread(t, k) = [a EXCEPT !.type = t, !.links = k, !.disk = k]
    BY DEF Unread, a
<1> QED
    BY <1>1, <1>2, <1>3, Zenon DEF Reads

(* The inodes at mount: the root is in memory, the others on the disk with *)
(* as many links as names.                                                 *)
LEMMA InitNodes ==
    ASSUME SfsInit
    PROVE  /\ NdTyped /\ ent \in Entries /\ DiskOK(ent, scene.types) /\ scene \in Scenes
           /\ scene.types[ROOT] = "dir"
           /\ \A i \in Inos : /\ nd[i].type = scene.types[i] /\ nd[i].disk = Naming(ent, i) /\ nd[i].lost = 0
                              /\ i = ROOT => nd[i].cached /\ nd[i].ref = 1 /\ nd[i].token = 1 /\ nd[i].links = nd[i].disk
                              /\ i # ROOT => ~nd[i].cached /\ nd[i].ref = 0
<1>1. scene \in Scenes /\ ent = scene.ent
    BY DEF SfsInit
<1>2. DiskOK(ent, scene.types)
    BY <1>1, SfsAssumption
<1>3. ent \in Entries /\ scene.types \in [Inos -> {"free", "file", "dir"}] /\ scene.types[ROOT] = "dir"
    BY <1>2 DEF DiskOK, NamesOK, Entries
<1>4. nd = [i \in Inos |-> IF i = ROOT THEN Rooted(Naming(ent, i)) ELSE Unread(scene.types[i], Naming(ent, i))]
    BY DEF SfsInit, Rooted, Unread
<1>5. ASSUME NEW i \in Inos
      PROVE  /\ nd[i] \in NodeType /\ nd[i].type = scene.types[i] /\ nd[i].disk = Naming(ent, i) /\ nd[i].lost = 0
             /\ i = ROOT => nd[i].cached /\ nd[i].ref = 1 /\ nd[i].token = 1 /\ nd[i].links = nd[i].disk
             /\ i # ROOT => ~nd[i].cached /\ nd[i].ref = 0
    <2>1. Naming(ent, i) \in Nat /\ scene.types[i] \in {"free", "file", "dir"}
        BY <1>3, NamingFinite
    <2>2. CASE i = ROOT
        <3> DEFINE x == Rooted(Naming(ent, i))
        <3>1. nd[i] = x
            BY <1>4, <2>2
        <3>2. /\ x \in NodeType /\ x.type = "dir" /\ x.cached = TRUE /\ x.ref = 1 /\ x.token = 1 /\ x.links = Naming(ent, i)
              /\ x.disk = Naming(ent, i) /\ x.lost = 0
            BY <2>1, NodeRooted, Zenon
        <3> HIDE DEF x
        <3> QED
            BY <1>3, <2>2, <3>1, <3>2
    <2>3. CASE i # ROOT
        <3> DEFINE x == Unread(scene.types[i], Naming(ent, i))
        <3>1. nd[i] = x
            BY <1>4, <2>3
        <3>2. Reads(scene.types[i], Naming(ent, i))
            BY <2>1, NodeUnread, Zenon
        <3>3. /\ x \in NodeType /\ x.type = scene.types[i] /\ x.cached = FALSE /\ x.ref = 0
              /\ x.disk = Naming(ent, i) /\ x.lost = 0
            BY <3>2 DEF Reads
        <3> HIDE DEF x
        <3> QED
            BY <2>3, <3>1, <3>3
    <2> QED
        BY <2>2, <2>3
<1>6. NdTyped
    BY <1>4, <1>5 DEF NdTyped
<1> QED
    BY <1>1, <1>2, <1>3, <1>5, <1>6

(* A mounted disk satisfies the invariants.                                *)
LEMMA SfsInitInv ==
    ASSUME SfsInit
    PROVE  SfsInv
<1>1. /\ NdTyped /\ ent \in Entries /\ DiskOK(ent, scene.types) /\ scene \in Scenes
      /\ scene.types[ROOT] = "dir"
      /\ \A i \in Inos : /\ nd[i].type = scene.types[i] /\ nd[i].disk = Naming(ent, i) /\ nd[i].lost = 0
                         /\ i = ROOT => nd[i].cached /\ nd[i].ref = 1 /\ nd[i].token = 1 /\ nd[i].links = nd[i].disk
                         /\ i # ROOT => ~nd[i].cached /\ nd[i].ref = 0
    BY InitNodes
<1>2. pr = [p \in Procs |-> Idle] /\ mutex = None /\ fs = None /\ faults = 0
    BY DEF SfsInit
<1>3. SfsShape
    <2>1. PrTyped /\ ProcInv
        BY <1>2, IdleOK DEF PrTyped, ProcInv
    <2>2. 0 \in 0 .. FAULTS
        BY SfsAssumption
    <2>3. RestTyped
        BY <1>1, <1>2, <2>2 DEF RestTyped, Entries
    <2> QED
        BY <1>1, <2>1, <2>3 DEF SfsShape
<1>4. ASSUME NEW p \in Procs
      PROVE  pr[p].at = "idle" /\ pr[p].hold = <<>> /\ pr[p].drop = <<>> /\ pr[p].claim = 0 /\ pr[p].open = 0
    BY <1>2 DEF Idle
<1>5. ASSUME NEW i \in Inos PROVE Cardinality(Refs(i)) = 0 /\ Cardinality(Claims(i)) = 0 /\ Claims(i) = {}
    <2>1. i # 0
        BY InosFinite
    <2>2. ASSUME NEW p \in Procs, NEW j \in 1 .. 7 PROVE Slot(pr[p], j) = 0
        <3>1. Len(pr[p].hold) = 0 /\ Len(pr[p].drop) = 0 /\ pr[p].open = 0
            BY <1>4
        <3>2. ~(j <= 0) /\ (~(j <= 3) => ~(j - 3 <= 0))
            OBVIOUS
        <3> QED
            BY <3>1, <3>2 DEF Slot
    <2>3. Refs(i) = {}
        BY <2>1, <2>2 DEF Refs, RefsIn
    <2>4. Claims(i) = {}
        BY <1>4, <2>1 DEF Claims
    <2> QED
        BY <2>3, <2>4, FS_EmptySet
<1>6. RefInv
    BY <1>1, <1>5 DEF RefInv, One
<1>7. TokenInv
    BY <1>1, <1>5 DEF TokenInv, TokenOK, One
<1>8. FreeInv
    BY <1>1 DEF FreeInv
<1>9. MutexInv
    BY <1>4 DEF MutexInv, MutexOK, Under
<1>10. NamesInv
    <2>1. TypeOf = scene.types
        BY <1>1, SMTT(60) DEF TypeOf, DiskOK, NamesOK
    <2> QED
        BY <1>1, <2>1 DEF NamesInv, DiskOK
<1>11. SavedInv
    BY <1>1 DEF SavedInv
<1>12. LinksExact
    <2> SUFFICES ASSUME NEW i \in Inos
                 PROVE  IF nd[i].type = "free" THEN Naming(ent, i) = 0
                        ELSE (IF nd[i].cached THEN nd[i].links ELSE nd[i].disk) = Naming(ent, i) + nd[i].lost
        BY DEF LinksExact
    <2>1. Naming(ent, i) \in Nat /\ nd[i].lost = 0 /\ nd[i].disk = Naming(ent, i) /\ (nd[i].cached => nd[i].links = nd[i].disk)
        BY <1>1, NamingFinite
    <2>2. nd[i].type = "free" => Naming(ent, i) = 0
        BY <1>10, NamesType
    <2> QED
        BY <2>1, <2>2
<1>13. LoopInv
    <2>1. NoLoop(ent)
        BY <1>1, ChainsNoLoop DEF DiskOK
    <2> QED
        BY <2>1 DEF LoopInv, NoLoop
<1> QED
    BY <1>3, <1>6, <1>7, <1>8, <1>9, <1>10, <1>11, <1>12, <1>13 DEF SfsInv, SfsCounted, NameSpace

-----------------------------------------------------------------------------
(* Every step keeps the invariant.                                         *)
LEMMA RootIno == ROOT \in Inos
BY SfsAssumption DEF ROOT, Inos

(* The steps that change one reference count or none.                      *)
LEMMA RefSteps ==
    ASSUME SfsShape, SfsCounted, NameSpace, NEW p \in Procs,
           \/ \E c : Begin(p, c)
           \/ SecondPath(p) \/ Search(p) \/ RefDec(p) \/ ReclaimBusy(p)
    PROVE  Kept
<1>1. ASSUME ent' = ent, faults' = faults \/ Fault, nd' = [nd EXCEPT ![ROOT].ref = @ + 1]
      PROVE  Kept
    BY <1>1, RootIno, RefKeptNames
<1>2. CASE \E c : Begin(p, c)
    BY <1>1, <1>2 DEF Begin
<1>3. CASE SecondPath(p)
    BY <1>1, <1>3 DEF SecondPath
<1>4. CASE Search(p)
    <2>1. /\ ent' = ent /\ (faults' = faults \/ Fault)
          /\ nd' = nd \/ nd' = [nd EXCEPT ![ROOT].ref = @ + 1]
        BY <1>4 DEF Search
    <2>2. CASE nd' = nd
        BY <2>1, <2>2, StillKept
    <2> QED
        BY <1>1, <2>1, <2>2
<1>5. CASE RefDec(p)
    <2> DEFINE i == Head(pr[p].drop)
    <2>1. ent' = ent /\ faults' = faults /\ nd' = [nd EXCEPT ![i].ref = @ - 1] /\ pr[p].drop # <<>>
        BY <1>5 DEF RefDec
    <2>2. pr[p].drop \in Seq(Inos)
        BY Of DEF ProcType
    <2>3. i \in Inos
        BY <2>1, <2>2
    <2> HIDE DEF i
    <2> QED
        BY <2>1, <2>3, RefKeptNames
<1>6. CASE ReclaimBusy(p)
    <2> DEFINE i == pr[p].claim
    <2>1. /\ ent' = ent /\ faults' = faults /\ i # 0
          /\ nd' = [nd EXCEPT ![i].token = IF nd[i].ref = 0 THEN @ - 1 ELSE @]
        BY <1>6 DEF ReclaimBusy
    <2>2. i \in Inos
        BY <2>1, Of DEF ProcType
    <2> HIDE DEF i
    <2> QED
        BY <2>1, <2>2, RefKeptNames
<1> QED
    BY <1>2, <1>3, <1>4, <1>5, <1>6

(* The steps that change neither a directory nor an inode.                 *)
LEMMA StillSteps ==
    ASSUME NameSpace, NEW p \in Procs,
           \/ LoadFails(p) \/ Open(p) \/ Refused(p) \/ Find(p) \/ UnlinkRefused(p)
           \/ RenameRefused(p) \/ RenameStuck(p)
    PROVE  Kept
<1>1. UNCHANGED <<ent, nd>> /\ (faults' = faults \/ Fault)
    <2>1. CASE LoadFails(p)
        BY <2>1 DEF LoadFails
    <2>2. CASE Open(p)
        BY <2>2 DEF Open
    <2>3. CASE Refused(p)
        BY <2>3 DEF Refused
    <2>4. CASE Find(p)
        BY <2>4 DEF Find
    <2>5. CASE UnlinkRefused(p)
        BY <2>5 DEF UnlinkRefused
    <2>6. CASE RenameRefused(p)
        BY <2>6 DEF RenameRefused
    <2>7. CASE RenameStuck(p)
        BY <2>7 DEF RenameStuck
    <2> QED
        BY <2>1, <2>2, <2>3, <2>4, <2>5, <2>6, <2>7
<1> QED
    BY <1>1, StillKept

(* What a process does, in the groups that keep the names and those that   *)
(* change them.                                                            *)
LEMMA SfsProcessSafe ==
    ASSUME SfsInv, NEW p \in Procs,
           \/ \E c \in scene.calls[p] : Begin(p, c)
           \/ SecondPath(p) \/ Search(p) \/ Load(p) \/ LoadFails(p)
           \/ RefDec(p) \/ ReclaimBusy(p) \/ Reclaim(p) \/ ReclaimFails(p)
           \/ Open(p) \/ \E ok \in BOOLEAN : VfsClose(p, ok)
           \/ Make(p) \/ Refused(p) \/ \E n \in {".", "..", ""} : MakeFails(p, n)
           \/ Link(p) \/ Find(p)
           \/ \E dotdot, dot \in BOOLEAN : Unlink(p, dotdot, dot)
           \/ UnlinkRefused(p)
           \/ \E checked \in BOOLEAN : Rename(p, checked)
           \/ RenameRefused(p) \/ RenameStuck(p)
    PROVE  SfsInv'
<1>1. SfsShape /\ SfsCounted /\ MutexInv /\ NameSpace
    BY DEF SfsInv
<1>2. ASSUME SfsShape', SfsCounted', MutexInv', Kept PROVE SfsInv'
    BY <1>1, <1>2, KeptNames DEF SfsInv
<1>3. ASSUME SfsShape', SfsCounted', MutexInv', NameSpace' PROVE SfsInv'
    BY <1>3 DEF SfsInv
<1>4. CASE \E c \in scene.calls[p] : Begin(p, c)
    BY <1>1, <1>2, <1>4, BeginSafe, RefSteps, Zenon
<1>5. CASE SecondPath(p)
    BY <1>1, <1>2, <1>5, SecondPathSafe, RefSteps, Zenon
<1>6. CASE Search(p)
    BY <1>1, <1>2, <1>6, SearchSafe, RefSteps, Zenon
<1>7. CASE Load(p)
    BY <1>1, <1>2, <1>7, LoadSafe, LoadKept, Zenon
<1>8. CASE LoadFails(p)
    BY <1>1, <1>2, <1>8, LoadFailsSafe, StillSteps, Zenon
<1>9. CASE RefDec(p)
    BY <1>1, <1>2, <1>9, RefDecSafe, RefSteps, Zenon
<1>10. CASE ReclaimBusy(p)
    BY <1>1, <1>2, <1>10, ReclaimBusySafe, RefSteps, Zenon
<1>11. CASE Reclaim(p)
    BY <1>1, <1>3, <1>11, ReclaimSafe, Zenon
<1>12. CASE ReclaimFails(p)
    BY <1>1, <1>3, <1>12, ReclaimFailsSafe, Zenon
<1>13. CASE Open(p)
    BY <1>1, <1>2, <1>13, OpenSafe, StillSteps, Zenon
<1>14. CASE \E ok \in BOOLEAN : VfsClose(p, ok)
    BY <1>1, <1>2, <1>14, VfsCloseSafe, VfsCloseKept, Zenon
<1>15. CASE Make(p)
    BY <1>1, <1>3, <1>15, MakeSafe, Zenon
<1>16. CASE Refused(p)
    BY <1>1, <1>2, <1>16, RefusedSafe, StillSteps, Zenon
<1>17. CASE \E n \in {".", "..", ""} : MakeFails(p, n)
    BY <1>1, <1>3, <1>17, MakeFailsSafe, Zenon
<1>18. CASE Link(p)
    BY <1>1, <1>3, <1>18, LinkSafe, Zenon
<1>19. CASE Find(p)
    BY <1>1, <1>2, <1>19, FindSafe, StillSteps, Zenon
<1>20. CASE \E dotdot, dot \in BOOLEAN : Unlink(p, dotdot, dot)
    BY <1>1, <1>3, <1>20, UnlinkSafe, Zenon
<1>21. CASE UnlinkRefused(p)
    BY <1>1, <1>2, <1>21, UnlinkRefusedSafe, StillSteps, Zenon
<1>22. CASE \E checked \in BOOLEAN : Rename(p, checked)
    BY <1>1, <1>3, <1>22, RenameSafe, Zenon
<1>23. CASE RenameRefused(p)
    BY <1>1, <1>2, <1>23, RenameRefusedSafe, StillSteps, Zenon
<1>24. CASE RenameStuck(p)
    BY <1>1, <1>2, <1>24, RenameStuckSafe, StillSteps, Zenon
<1> QED
    BY <1>4, <1>5, <1>6, <1>7, <1>8, <1>9, <1>10, <1>11, <1>12, <1>13, <1>14, <1>15, <1>16, <1>17, <1>18,
       <1>19, <1>20, <1>21, <1>22, <1>23, <1>24, Zenon

(* Every step keeps the invariants.                                        *)
LEMMA SfsStepSafe ==
    ASSUME SfsInv, [SfsNext]_sfs_vars
    PROVE  SfsInv'
<1>1. CASE Sync
    <2>1. SfsShape /\ SfsCounted /\ MutexInv /\ NameSpace
        BY DEF SfsInv
    <2>2. SfsShape' /\ SfsCounted' /\ MutexInv' /\ Kept
        BY <1>1, <2>1, SyncSafe, SyncKept, Zenon
    <2> QED
        BY <2>1, <2>2, KeptNames DEF SfsInv
<1>2. CASE UNCHANGED sfs_vars
    <2>1. UNCHANGED <<scene, ent, nd, mutex, fs, pr, faults>>
        BY <1>2 DEF sfs_vars
    <2>2. SfsShape'
        BY <2>1 DEF SfsInv, SfsShape, PrTyped, NdTyped, RestTyped, ProcInv
    <2>3. \A i : Refs(i)' = Refs(i) /\ Claims(i)' = Claims(i)
        BY <2>1 DEF Refs, Claims
    <2>4. SfsCounted'
        BY <2>1, <2>3 DEF SfsInv, SfsCounted, RefInv, TokenInv, TokenOK, FreeInv
    <2>5. MutexInv'
        BY <2>1 DEF SfsInv, MutexInv, MutexOK, IsDir
    <2>6. NameSpace'
        BY <2>1, StillKept, KeptNames DEF SfsInv
    <2> QED
        BY <2>2, <2>4, <2>5, <2>6 DEF SfsInv
<1>3. CASE SfsNext /\ ~Sync
    BY <1>3, SfsProcessSafe, Zenon DEF SfsNext
<1> QED
    BY <1>1, <1>2, <1>3

(* SfsInv holds in every reachable state of Sfs: no interleaving of calls,   *)
(* loads, reclaims and sync breaks a part of it.                              *)
THEOREM SfsInvariant == SfsSpec => []SfsInv
<1>1. SfsInit => SfsInv
    BY SfsInitInv
<1>2. SfsInv /\ [SfsNext]_sfs_vars => SfsInv'
    BY SfsStepSafe
<1> QED
    BY <1>1, <1>2, PTL DEF SfsSpec

(* The types of the file system's state in every reachable state: counts   *)
(* never fall below zero, the reclaim tokens stay in their bound and a      *)
(* call's open file is an inode or none.                                   *)
THEOREM SfsTypes == SfsSpec => []SfsTypeOK
<1>1. ASSUME SfsInv PROVE SfsTypeOK
    <2>1. SfsShape /\ SfsCounted
        BY <1>1 DEF SfsInv
    <2>2. ASSUME NEW i \in Inos
          PROVE  /\ nd[i].type \in {"free", "file", "dir"} /\ nd[i].token \in 0 .. TOKENS
                 /\ {nd[i].ref, nd[i].links, nd[i].disk, nd[i].lost} \subseteq Nat
        <3>1. nd[i] \in NodeType
            BY <2>1 DEF SfsShape, NdTyped
        <3>2. nd[i].ref = Cardinality(Refs(i)) + One(i = ROOT)
            BY <2>1 DEF SfsCounted, RefInv
        <3>3. Cardinality(Refs(i)) \in Nat
            BY RefsFinite DEF Refs
        <3>4. One(i = ROOT) \in Nat
            BY DEF One
        <3>5. nd[i].ref \in Nat
            BY <3>2, <3>3, <3>4
        <3> QED
            BY <3>1, <3>5 DEF NodeType
    <2>3. ASSUME NEW p \in Procs PROVE pr[p].call.op \in Ops \cup {"none"} /\ pr[p].open \in Inos \cup {0}
        BY <2>1, Of DEF ProcType
    <2> QED
        BY <2>1, <2>2, <2>3 DEF SfsTypeOK, SfsShape, RestTyped
<1> QED
    BY <1>1, SfsInvariant, PTL

(* nlinks equals the number of directory entries that name an inode, plus  *)
(* those that went with a removed directory, in every reachable state of   *)
(* create, mkdir, link, unlink, rmdir, rename, load, sync and reclaim.     *)
THEOREM SfsLinks == SfsSpec => []LinksExact
<1>1. SfsInv => LinksExact
    BY DEF SfsInv, NameSpace
<1> QED
    BY <1>1, SfsInvariant, PTL

(* An inode some call or open file refers to, or whose reclaim is still to *)
(* come, is in memory, however loads race with sfs_reclaim.                *)
THEOREM SfsNoUseAfterReclaim == SfsSpec => []NoUseAfterReclaim
<1>1. ASSUME SfsInv PROVE NoUseAfterReclaim
    <2>1. SfsShape /\ SfsCounted
        BY <1>1 DEF SfsInv
    <2>2. ASSUME NEW i \in Inos, NEW p \in Users(i) PROVE nd[i].cached /\ nd[i].ref > 0
        <3>1. p \in Procs /\ i \in {pr[p].open} \cup Range(pr[p].hold) \cup Range(pr[p].drop)
            BY DEF Users
        <3>2. pr[p] \in ProcType /\ HoldOK(pr[p])
            BY <2>1, <3>1, Of
        <3>3. i # 0
            BY InosFinite
        <3>4. Count(pr[p], i) # 0
            <4>1. CASE i = pr[p].open
                BY <3>2, <3>3, <4>1, HeldCount, Zenon
            <4>2. CASE i \in Range(pr[p].hold)
                <5>1. PICK k \in DOMAIN pr[p].hold : pr[p].hold[k] = i
                    BY <4>2 DEF Range
                <5>2. pr[p].hold \in Seq(Inos) /\ Len(pr[p].hold) <= 3
                    BY <3>2, HoldLen DEF ProcType
                <5>3. k \in 1 .. 3 /\ k <= Len(pr[p].hold)
                    BY <5>2
                <5> QED
                    BY <3>2, <5>1, <5>3, HeldCount, Zenon
            <4>3. CASE i \in Range(pr[p].drop)
                <5>1. PICK k \in DOMAIN pr[p].drop : pr[p].drop[k] = i
                    BY <4>3 DEF Range
                <5>2. pr[p].drop \in Seq(Inos) /\ Len(pr[p].drop) <= 3
                    BY <3>2, HoldLen DEF ProcType
                <5>3. k \in 1 .. 3 /\ k <= Len(pr[p].drop)
                    BY <5>2
                <5> QED
                    BY <3>2, <5>1, <5>3, HeldCount, Zenon
            <4> QED
                BY <3>1, <4>1, <4>2, <4>3
        <3>5. nd[i].ref >= 1 /\ nd[i].cached /\ nd[i] \in NodeType
            BY <2>1, <3>1, <3>4, HeldLive, Zenon
        <3>6. nd[i].ref \in Int
            BY <3>5 DEF NodeType
        <3> QED
            BY <3>5, <3>6
    <2>3. ASSUME NEW i \in Inos
          PROVE  (Claims(i) # {} => nd[i].cached) /\ nd[i].token >= Cardinality(Claims(i))
        <3>1. TokenOK(i) /\ nd[i] \in NodeType
            BY <2>1 DEF SfsCounted, TokenInv, SfsShape, NdTyped
        <3>2. Cardinality(Claims(i)) \in Nat
            BY SfsAssumption, FS_Subset, FS_CardinalityType DEF Claims
        <3>3. Claims(i) = {} => Cardinality(Claims(i)) = 0
            BY FS_EmptySet
        <3>4. nd[i].token \in Nat /\ One(nd[i].ref > 0) \in Nat
            BY <3>1, SfsAssumption DEF NodeType, One
        <3> QED
            BY <3>1, <3>2, <3>3, <3>4 DEF TokenOK
    <2> QED
        BY <2>2, <2>3 DEF NoUseAfterReclaim
<1> QED
    BY <1>1, SfsInvariant, PTL

(* The ".." of a directory is the one that lists it, and while no disk     *)
(* access has failed every directory leads up to the root or to a removed  *)
(* one: rename's sfs_dir_reaches, under mutex_sem, lets no loop arise.     *)
THEOREM SfsDirTree == SfsSpec => []DirTree
<1>1. ASSUME SfsInv PROVE DirTree
    <2>1. NamesInv /\ LoopInv
        BY <1>1 DEF SfsInv, NameSpace
    <2>2. ent \in Entries /\ ent[ROOT][".."] = ROOT
        BY <2>1, NamesType
    <2>3. ASSUME NEW d \in Inos, NEW i \in Inos, NEW n \in FileNames, ent[d][n] = i, i # 0, IsDir(i)
          PROVE  ent[i][".."] = d
        BY <2>1, <2>3, NamesType DEF IsDir
    <2>4. ASSUME faults = 0, NEW i \in Inos PROVE Up(i)[INOS] \in {0, ROOT}
        <3>1. NoLoop(ent)
            BY <2>1, <2>4 DEF LoopInv, NoLoop
        <3> QED
            BY <2>2, <3>1, NoLoopChains DEF Up
    <2> QED
        BY <2>3, <2>4 DEF DirTree
<1> QED
    BY <1>1, SfsInvariant, PTL
=============================================================================
