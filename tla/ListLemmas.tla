---------------------------- MODULE ListLemmas ----------------------------
(***************************************************************************)
(* What the list operations of the kernel's intrusive lists do, as facts   *)
(* about sequences, and induction on the natural numbers, for the proofs   *)
(* of the components.                                                      *)
(***************************************************************************)
EXTENDS Integers, Sequences, SequencesExt, SequenceTheorems, WellFoundedInduction, FiniteSetTheorems,
        TLAPS

(* q is an entry of the list s; s links no entry twice.                    *)
On(s, q) == \E k \in 1 .. Len(s) : s[k] = q
Distinct(s) == \A j, k \in 1 .. Len(s) : s[j] = s[k] => j = k
-----------------------------------------------------------------------------
(* A non-empty set of natural numbers has a least element.                 *)
LEMMA Least ==
    ASSUME NEW T, T \subseteq Nat, T # {}
    PROVE  \E x \in T : \A y \in T : x <= y
<1>1. PICK x \in T : \A y \in T : ~ (<<y, x>> \in OpToRel(<, Nat))
    BY WFMin, NatLessThanWellFounded
<1>2. \A y \in T : ~ (y < x)
    <2> TAKE y \in T
    <2>1. y \in Nat /\ x \in Nat
        OBVIOUS
    <2>2. <<y, x>> \in Nat \X Nat
        BY <2>1
    <2> QED
        BY <1>1, <2>1, <2>2 DEF OpToRel
<1> QED
    BY <1>2

(* Induction on a set of natural numbers.                                  *)
LEMMA Induct ==
    ASSUME NEW S, 0 \in S, \A n \in Nat : n \in S => n + 1 \in S
    PROVE  Nat \subseteq S
<1> DEFINE T == Nat \ S
<1>1. SUFFICES ASSUME T # {} PROVE FALSE
    OBVIOUS
<1>2. T \subseteq Nat
    OBVIOUS
<1> HIDE DEF T
<1>3. PICK x \in T : \A y \in T : x <= y
    BY <1>1, <1>2, Least
<1>4. x \in Nat /\ x # 0 /\ x \notin S
    BY <1>3 DEF T
<1>5. x - 1 \in Nat /\ x - 1 \notin T
    BY <1>3, <1>4, <1>2
<1>6. x - 1 \in S
    BY <1>5 DEF T
<1>7. (x - 1) + 1 \in S
    BY <1>5, <1>6
<1> QED
    BY <1>4, <1>7
-----------------------------------------------------------------------------
(* list_del: the list without its k-th entry.                              *)
LEMMA RemoveAtProps ==
    ASSUME NEW S, NEW s \in Seq(S), NEW k \in 1 .. Len(s)
    PROVE  /\ RemoveAt(s, k) \in Seq(S)
           /\ Len(RemoveAt(s, k)) = Len(s) - 1
           /\ \A i \in 1 .. Len(s) - 1 :
                RemoveAt(s, k)[i] = IF i < k THEN s[i] ELSE s[i + 1]
<1> DEFINE a == SubSeq(s, 1, k - 1)
           b == SubSeq(s, k + 1, Len(s))
<1>1. \A i \in 1 .. Len(s) : s[i] \in S
    BY ElementOfSeq
<1>2. Len(s) \in Nat /\ k \in Int /\ k - 1 \in Int /\ k + 1 \in Int
    BY LenProperties
<1>3. /\ a \in Seq(S) /\ Len(a) = k - 1
      /\ \A i \in 1 .. k - 1 : a[i] = s[i]
    BY <1>1, <1>2, SubSeqProperties
<1>4. /\ b \in Seq(S) /\ Len(b) = Len(s) - k
      /\ \A i \in 1 .. Len(s) - k : b[i] = s[k + i]
    BY <1>1, <1>2, SubSeqProperties
<1>5. RemoveAt(s, k) = a \o b
    BY DEF RemoveAt
<1> HIDE DEF a, b
<1>6. /\ a \o b \in Seq(S) /\ Len(a \o b) = Len(a) + Len(b)
      /\ \A i \in 1 .. Len(a) + Len(b) : (a \o b)[i] = IF i <= Len(a) THEN a[i] ELSE b[i - Len(a)]
    BY <1>3, <1>4, ConcatProperties
<1>7. Len(a) + Len(b) = Len(s) - 1
    BY <1>2, <1>3, <1>4
<1>8. \A i \in 1 .. Len(s) - 1 : (a \o b)[i] = IF i < k THEN s[i] ELSE s[i + 1]
    BY <1>2, <1>3, <1>4, <1>6, <1>7
<1> QED
    BY <1>5, <1>6, <1>7, <1>8

(* list_add: e behind the k-th entry.                                      *)
LEMMA InsertAtProps ==
    ASSUME NEW S, NEW s \in Seq(S), NEW k \in 0 .. Len(s), NEW e \in S
    PROVE  /\ InsertAt(s, k + 1, e) \in Seq(S)
           /\ Len(InsertAt(s, k + 1, e)) = Len(s) + 1
           /\ \A i \in 1 .. Len(s) + 1 :
                InsertAt(s, k + 1, e)[i] =
                    IF i <= k THEN s[i] ELSE IF i = k + 1 THEN e ELSE s[i - 1]
<1> DEFINE a == SubSeq(s, 1, k)
           b == SubSeq(s, k + 1, Len(s))
           m == <<e>>
<1>1. \A i \in 1 .. Len(s) : s[i] \in S
    BY ElementOfSeq
<1>2. Len(s) \in Nat /\ k \in Int /\ k + 1 \in Int /\ (k + 1) - 1 = k
    BY LenProperties
<1>3. /\ a \in Seq(S) /\ Len(a) = k
      /\ \A i \in 1 .. k : a[i] = s[i]
    BY <1>1, <1>2, SubSeqProperties
<1>4. /\ b \in Seq(S) /\ Len(b) = Len(s) - k
      /\ \A i \in 1 .. Len(s) - k : b[i] = s[k + i]
    BY <1>1, <1>2, SubSeqProperties
<1>m. m \in Seq(S) /\ Len(m) = 1 /\ m[1] = e
    OBVIOUS
<1>5. InsertAt(s, k + 1, e) = (a \o m) \o b
    BY <1>2 DEF InsertAt
<1> HIDE DEF a, b, m
<1>6. /\ a \o m \in Seq(S) /\ Len(a \o m) = Len(a) + Len(m)
      /\ \A i \in 1 .. Len(a) + Len(m) : (a \o m)[i] = IF i <= Len(a) THEN a[i] ELSE m[i - Len(a)]
    BY <1>3, <1>m, ConcatProperties
<1> DEFINE c == a \o m
<1>7. c \in Seq(S) /\ Len(c) = k + 1
    BY <1>3, <1>6, <1>m
<1>8. \A i \in 1 .. k + 1 : c[i] = IF i <= k THEN s[i] ELSE e
    BY <1>2, <1>3, <1>6, <1>m
<1> HIDE DEF c
<1>9. /\ c \o b \in Seq(S) /\ Len(c \o b) = Len(c) + Len(b)
      /\ \A i \in 1 .. Len(c) + Len(b) : (c \o b)[i] = IF i <= Len(c) THEN c[i] ELSE b[i - Len(c)]
    BY <1>4, <1>7, ConcatProperties
<1>10. Len(c) + Len(b) = Len(s) + 1
    BY <1>2, <1>4, <1>7
<1>11. \A i \in 1 .. Len(s) + 1 : (c \o b)[i] =
            IF i <= k THEN s[i] ELSE IF i = k + 1 THEN e ELSE s[i - 1]
    <2> TAKE i \in 1 .. Len(s) + 1
    <2>3. i \in Int /\ (i <= k + 1 \/ i > k + 1)
        BY <1>2
    <2>1. CASE i <= k + 1
        BY <1>2, <1>7, <1>8, <1>9, <1>10, <2>1
    <2>2. CASE i > k + 1
        <3>1. (c \o b)[i] = b[i - Len(c)]
            BY <1>2, <1>7, <1>9, <1>10, <2>2
        <3>2. i - (k + 1) \in 1 .. Len(s) - k
            BY <1>2, <2>2
        <3>3. b[i - (k + 1)] = s[k + (i - (k + 1))]
            BY <1>4, <3>2
        <3> QED
            BY <1>2, <1>7, <2>2, <3>1, <3>3
    <2> QED
        BY <2>1, <2>2, <1>2, <2>3
<1> QED
    BY <1>5, <1>9, <1>10, <1>11 DEF c-----------------------------------------------------------------------------
(* list_del takes off one entry and keeps the others.                      *)
LEMMA RemoveAtOn ==
    ASSUME NEW S, NEW s \in Seq(S), NEW k \in 1 .. Len(s), Distinct(s)
    PROVE  /\ Distinct(RemoveAt(s, k))
           /\ \A q : On(RemoveAt(s, k), q) <=> On(s, q) /\ q # s[k]
<1> DEFINE t == RemoveAt(s, k)
<1>1. Len(s) \in Nat /\ k \in Nat
    BY LenProperties
<1>2. /\ Len(t) = Len(s) - 1
      /\ \A i \in 1 .. Len(s) - 1 : t[i] = IF i < k THEN s[i] ELSE s[i + 1]
    BY RemoveAtProps
<1> HIDE DEF t
<1> DEFINE f(i) == IF i < k THEN i ELSE i + 1
<1>3. ASSUME NEW i \in 1 .. Len(t)
      PROVE  f(i) \in 1 .. Len(s) /\ f(i) # k /\ t[i] = s[f(i)]
    BY <1>1, <1>2
<1>4. Distinct(t)
    <2> SUFFICES ASSUME NEW i \in 1 .. Len(t), NEW j \in 1 .. Len(t), t[i] = t[j]
                 PROVE  i = j
        BY DEF Distinct
    <2>1. f(i) = f(j)
        <3>1. s[f(i)] = s[f(j)]
            BY <1>3
        <3> HIDE DEF f
        <3> QED
            BY <1>3, <3>1 DEF Distinct
    <2> QED
        BY <1>1, <1>2, <2>1
<1>5. ASSUME NEW q PROVE On(t, q) <=> On(s, q) /\ q # s[k]
    <2>1. ASSUME On(t, q) PROVE On(s, q) /\ q # s[k]
        <3>1. PICK i \in 1 .. Len(t) : t[i] = q
            BY <2>1 DEF On
        <3> HIDE DEF f
        <3>2. f(i) \in 1 .. Len(s) /\ f(i) # k /\ q = s[f(i)]
            BY <1>3, <3>1
        <3> QED
            BY <3>2 DEF On, Distinct
    <2>2. ASSUME On(s, q), q # s[k] PROVE On(t, q)
        <3>1. PICK i \in 1 .. Len(s) : s[i] = q
            BY <2>2 DEF On
        <3>2. i # k
            BY <2>2, <3>1
        <3>3. CASE i < k
            <4>1. i \in 1 .. Len(t) /\ t[i] = q
                BY <1>1, <1>2, <3>1, <3>3
            <4> QED
                BY <4>1 DEF On
        <3>4. CASE i > k
            <4>1. i - 1 \in 1 .. Len(s) - 1 /\ ~ (i - 1 < k) /\ (i - 1) + 1 = i
                BY <1>1, <3>4
            <4>2. i - 1 \in 1 .. Len(t) /\ t[i - 1] = q
                BY <1>2, <3>1, <4>1
            <4> QED
                BY <4>2 DEF On
        <3> QED
            BY <1>1, <3>2, <3>3, <3>4
    <2> QED
        BY <2>1, <2>2
<1> QED
    BY <1>4, <1>5 DEF t

(* list_add puts one entry on and keeps the others.                        *)
LEMMA InsertAtOn ==
    ASSUME NEW S, NEW s \in Seq(S), NEW k \in 0 .. Len(s), NEW e \in S,
           Distinct(s), ~ On(s, e)
    PROVE  /\ Distinct(InsertAt(s, k + 1, e))
           /\ \A q : On(InsertAt(s, k + 1, e), q) <=> On(s, q) \/ q = e
<1> DEFINE t == InsertAt(s, k + 1, e)
<1>1. Len(s) \in Nat /\ k \in Nat
    BY LenProperties
<1>2. /\ Len(t) = Len(s) + 1
      /\ \A i \in 1 .. Len(s) + 1 : t[i] = IF i <= k THEN s[i] ELSE IF i = k + 1 THEN e ELSE s[i - 1]
    <2>1. Len(t) = Len(s) + 1
        BY InsertAtProps
    <2>2. \A i \in 1 .. Len(s) + 1 : t[i] = IF i <= k THEN s[i] ELSE IF i = k + 1 THEN e ELSE s[i - 1]
        BY InsertAtProps
    <2> QED
        BY <2>1, <2>2
<1> HIDE DEF t
<1> DEFINE f(i) == IF i <= k THEN i ELSE i - 1
<1>3. ASSUME NEW i \in 1 .. Len(t), i # k + 1
      PROVE  f(i) \in 1 .. Len(s) /\ t[i] = s[f(i)]
    BY <1>1, <1>2, <1>3
<1>m. k + 1 \in 1 .. Len(t) /\ t[k + 1] = e
    BY <1>1, <1>2
<1>n. ASSUME NEW i \in 1 .. Len(t), i # k + 1 PROVE t[i] # e
    <2> HIDE DEF f
    <2> QED
        BY <1>3, <1>n DEF On
<1>4. Distinct(t)
    <2> SUFFICES ASSUME NEW i \in 1 .. Len(t), NEW j \in 1 .. Len(t), t[i] = t[j]
                 PROVE  i = j
        BY DEF Distinct
    <2>1. CASE i = k + 1 \/ j = k + 1
        BY <1>m, <1>n, <2>1
    <2>2. CASE i # k + 1 /\ j # k + 1
        <3>1. s[f(i)] = s[f(j)] /\ f(i) \in 1 .. Len(s) /\ f(j) \in 1 .. Len(s)
            BY <1>3, <2>2
        <3>2. f(i) = f(j)
            <4> HIDE DEF f
            <4> QED
                BY <3>1 DEF Distinct
        <3> QED
            BY <1>1, <1>2, <2>2, <3>2
    <2> QED
        BY <2>1, <2>2
<1>5. ASSUME NEW q PROVE On(t, q) <=> On(s, q) \/ q = e
    <2>1. ASSUME On(t, q), q # e PROVE On(s, q)
        <3>1. PICK i \in 1 .. Len(t) : t[i] = q
            BY <2>1 DEF On
        <3>2. i # k + 1
            BY <1>m, <2>1, <3>1
        <3> HIDE DEF f
        <3> QED
            BY <1>3, <3>1, <3>2 DEF On
    <2>2. ASSUME On(s, q) PROVE On(t, q)
        <3>1. PICK i \in 1 .. Len(s) : s[i] = q
            BY <2>2 DEF On
        <3>3. CASE i <= k
            <4>1. i \in 1 .. Len(t) /\ t[i] = q
                BY <1>1, <1>2, <3>1, <3>3
            <4> QED
                BY <4>1 DEF On
        <3>4. CASE i > k
            <4>1. i + 1 \in 1 .. Len(s) + 1 /\ ~ (i + 1 <= k) /\ i + 1 # k + 1 /\ (i + 1) - 1 = i
                BY <1>1, <3>4
            <4>2. i + 1 \in 1 .. Len(t) /\ t[i + 1] = q
                BY <1>2, <3>1, <4>1
            <4> QED
                BY <4>2 DEF On
        <3> QED
            BY <1>1, <3>3, <3>4
    <2>3. On(t, e)
        BY <1>m DEF On
    <2> QED
        BY <2>1, <2>2, <2>3
<1> QED
    BY <1>4, <1>5 DEF t

(* list_add_before on the head of the list.                                *)
LEMMA AppendOn ==
    ASSUME NEW S, NEW s \in Seq(S), NEW e \in S, Distinct(s), ~ On(s, e)
    PROVE  /\ Append(s, e) \in Seq(S) /\ Distinct(Append(s, e))
           /\ Len(Append(s, e)) = Len(s) + 1
           /\ \A q : On(Append(s, e), q) <=> On(s, q) \/ q = e
<1> DEFINE t == Append(s, e)
<1>1. Len(s) \in Nat
    BY LenProperties
<1>2. /\ t \in Seq(S) /\ Len(t) = Len(s) + 1 /\ t[Len(s) + 1] = e
      /\ \A i \in 1 .. Len(s) : t[i] = s[i]
    BY AppendProperties
<1> HIDE DEF t
<1>3. \A i \in 1 .. Len(t) : i \in 1 .. Len(s) \/ i = Len(s) + 1
    BY <1>1, <1>2
<1>4. \A i \in 1 .. Len(s) : i \in 1 .. Len(t) /\ i # Len(s) + 1 /\ t[i] # e
    BY <1>1, <1>2 DEF On
<1>5. Len(s) + 1 \in 1 .. Len(t)
    BY <1>1, <1>2
<1>6. Distinct(t)
    BY <1>2, <1>3, <1>4 DEF Distinct
<1>7. \A q : On(t, q) <=> On(s, q) \/ q = e
    BY <1>2, <1>3, <1>4, <1>5 DEF On
<1> QED
    BY <1>2, <1>6, <1>7 DEF t

(* The first entry leaves the list.                                        *)
LEMMA TailOn ==
    ASSUME NEW S, NEW s \in Seq(S), s # <<>>, Distinct(s)
    PROVE  /\ Tail(s) \in Seq(S) /\ Distinct(Tail(s)) /\ Len(Tail(s)) = Len(s) - 1
           /\ \A i \in 1 .. Len(s) - 1 : Tail(s)[i] = s[i + 1]
           /\ s[1] \in S /\ On(s, s[1])
           /\ \A q : On(Tail(s), q) <=> On(s, q) /\ q # s[1]
<1> DEFINE t == Tail(s)
<1>1. Len(s) \in Nat /\ Len(s) > 0 /\ s[1] \in S
    BY LenProperties, ElementOfSeq, EmptySeq
<1>2. /\ t \in Seq(S) /\ Len(t) = Len(s) - 1
      /\ \A i \in 1 .. Len(s) - 1 : t[i] = s[i + 1]
    BY HeadTailProperties
<1> HIDE DEF t
<1>3. \A i \in 1 .. Len(t) : i + 1 \in 1 .. Len(s) /\ i + 1 # 1 /\ t[i] = s[i + 1] /\ i \in Int
    BY <1>1, <1>2
<1>4. \A i \in 1 .. Len(s) : i = 1 \/ (i - 1 \in 1 .. Len(t) /\ t[i - 1] = s[i])
    BY <1>1, <1>2
<1>5. 1 \in 1 .. Len(s)
    BY <1>1
<1>6. Distinct(t)
    <2> SUFFICES ASSUME NEW i \in 1 .. Len(t), NEW j \in 1 .. Len(t), t[i] = t[j]
                 PROVE  i = j
        BY DEF Distinct
    <2>1. i + 1 = j + 1
        BY <1>3 DEF Distinct
    <2> QED
        BY <2>1
<1>7. ASSUME NEW q PROVE On(t, q) <=> On(s, q) /\ q # s[1]
    <2>1. ASSUME On(t, q) PROVE On(s, q) /\ q # s[1]
        BY <1>3, <1>5, <2>1 DEF On, Distinct
    <2>2. ASSUME On(s, q), q # s[1] PROVE On(t, q)
        BY <1>4, <2>2 DEF On
    <2> QED
        BY <2>1, <2>2
<1>8. On(s, s[1])
    BY <1>5 DEF On
<1> QED
    BY <1>1, <1>2, <1>6, <1>7, <1>8 DEF t
(* A suffix of a list has only elements of it, and not the ones before.    *)
LEMMA SuffixOn ==
    ASSUME NEW S, NEW s \in Seq(S), NEW k \in 1 .. Len(s), Distinct(s)
    PROVE  /\ SubSeq(s, k + 1, Len(s)) \in Seq(S) /\ Distinct(SubSeq(s, k + 1, Len(s)))
           /\ \A q : On(SubSeq(s, k + 1, Len(s)), q) => On(s, q) /\ q # s[k]
<1> DEFINE t == SubSeq(s, k + 1, Len(s))
<1>1. Len(s) \in Nat /\ k \in Nat /\ k >= 1 /\ k <= Len(s)
    BY LenProperties
<1>2. \A i \in 1 .. Len(s) : s[i] \in S
    BY ElementOfSeq
<1>3. t \in Seq(S) /\ Len(t) = Len(s) - k
    <2>1. k + 1 \in Int /\ Len(s) \in Int /\ \A i \in (k + 1) .. Len(s) : s[i] \in S
        BY <1>1, <1>2
    <2> QED
        BY <1>1, <2>1, SubSeqProperties
<1>4. \A i \in 1 .. Len(s) - k : t[i] = s[i + k]
    <2>1. k + 1 \in Int /\ Len(s) \in Int /\ \A i \in (k + 1) .. Len(s) : s[i] \in S
        BY <1>1, <1>2
    <2> QED
        BY <1>1, <2>1, SubSeqProperties
<1> HIDE DEF t
<1>5. Distinct(t)
    <2> SUFFICES ASSUME NEW i \in 1 .. Len(t), NEW j \in 1 .. Len(t), i # j
                 PROVE  t[i] # t[j]
        BY DEF Distinct
    <2>1. i + k \in 1 .. Len(s) /\ j + k \in 1 .. Len(s) /\ i + k # j + k
        BY <1>1, <1>3
    <2> QED
        BY <1>1, <1>3, <1>4, <2>1 DEF Distinct
<1>6. ASSUME NEW q, On(t, q)
      PROVE  On(s, q) /\ q # s[k]
    <2>1. PICK i \in 1 .. Len(t) : t[i] = q
        BY <1>6 DEF On
    <2>2. i + k \in 1 .. Len(s) /\ i + k # k /\ s[i + k] = q
        BY <1>1, <1>3, <1>4, <2>1
    <2> QED
        BY <2>2 DEF On, Distinct
<1> QED
    BY <1>3, <1>5, <1>6 DEF t

(* A list without duplicates is no longer than the set of its entries.     *)
LEMMA DistinctLength ==
    ASSUME NEW S, IsFiniteSet(S), NEW s \in Seq(S), Distinct(s)
    PROVE  Len(s) <= Cardinality(S)
<1>1. Len(s) \in Nat /\ s \in [1 .. Len(s) -> S] /\ Cardinality(S) \in Nat
    BY LenProperties, FS_CardinalityType
<1>2. IsFiniteSet(1 .. Len(s)) /\ Cardinality(1 .. Len(s)) = Len(s)
    <2>1. 1 \in Int /\ Len(s) \in Int
        BY <1>1
    <2>2. IsFiniteSet(1 .. Len(s)) /\ Cardinality(1 .. Len(s)) = IF 1 > Len(s) THEN 0 ELSE Len(s) - 1 + 1
        BY <2>1, FS_Interval
    <2> QED
        BY <1>1, <2>2
<1>3. ~ (Cardinality(S) < Cardinality(1 .. Len(s)))
    BY <1>1, <1>2, FS_PigeonHole DEF Distinct
<1> QED
    BY <1>1, <1>2, <1>3

(* ... and as long as the set of its entries.                              *)
LEMMA DistinctCount ==
    ASSUME NEW S, NEW s \in Seq(S), Distinct(s)
    PROVE  Cardinality({s[i] : i \in DOMAIN s}) = Len(s)
<1> DEFINE R == {s[i] : i \in DOMAIN s}
<1>1. Len(s) \in Nat /\ DOMAIN s = 1 .. Len(s) /\ s \in [1 .. Len(s) -> S]
    BY LenProperties
<1>2. s \in [1 .. Len(s) -> R]
    BY <1>1
<1>3. s \in Injection(1 .. Len(s), R)
    BY <1>1, <1>2 DEF Injection, IsInjective, Distinct
<1>4. s \in Surjection(1 .. Len(s), R)
    BY <1>1, <1>2 DEF Surjection
<1>5. ExistsBijection(1 .. Len(s), R)
    BY <1>3, <1>4 DEF ExistsBijection, Bijection
<1> QED
    BY <1>1, <1>5, FS_CountingElements
=============================================================================
