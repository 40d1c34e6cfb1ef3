---------------------------- MODULE FutexProofs ----------------------------
(***************************************************************************)
(* Proofs about the timers and the futexes, for every finite or infinite   *)
(* set of processes, every choice of sleeping times and timeouts: the      *)
(* delta list keeps every timer's time, no list links a dead stack frame,  *)
(* and no wake is lost.                                                    *)
(***************************************************************************)
EXTENDS Futex, FiniteSets, ListLemmas, FiniteSetTheorems

(* The running sums of a delta list exist, and satisfy their recurrence.   *)
LEMMA SumExists ==
    ASSUME NEW D \in Seq(Int)
    PROVE  \E f \in [0 .. Len(D) -> Int] :
                f = [i \in 0 .. Len(D) |-> IF i = 0 THEN 0 ELSE f[i - 1] + D[i]]
<1> DEFINE Body(f, m) == [i \in 0 .. m |-> IF i = 0 THEN 0 ELSE f[i - 1] + D[i]]
           P(m) == m <= Len(D) => \E f \in [0 .. m -> Int] : f = Body(f, m)
           S == {m \in Nat : P(m)}
<1>1. Len(D) \in Nat /\ \A i \in 1 .. Len(D) : D[i] \in Int
    BY LenProperties, ElementOfSeq
<1>2. 0 \in S
    <2> DEFINE z == [i \in 0 .. 0 |-> 0]
    <2>1. z \in [0 .. 0 -> Int] /\ z = Body(z, 0)
        OBVIOUS
    <2> QED
        BY <2>1 DEF S
<1>3. ASSUME NEW n \in Nat, n \in S PROVE n + 1 \in S
    <2> HIDE DEF P
    <2>0. SUFFICES P(n + 1)
        BY <1>3 DEF S
    <2>p. P(n)
        BY <1>3 DEF S
    <2>1. SUFFICES ASSUME n + 1 <= Len(D)
                   PROVE  \E g \in [0 .. n + 1 -> Int] : g = Body(g, n + 1)
        BY DEF P
    <2>2. PICK f \in [0 .. n -> Int] : f = Body(f, n)
        BY <1>1, <2>p, <2>1 DEF P
    <2> DEFINE g == [i \in 0 .. n + 1 |-> IF i <= n THEN f[i] ELSE f[n] + D[n + 1]]
    <2>3. g \in [0 .. n + 1 -> Int]
        BY <1>1, <2>1
    <2>4. g = Body(g, n + 1)
        <3>1. ASSUME NEW i \in 0 .. n + 1
              PROVE  g[i] = IF i = 0 THEN 0 ELSE g[i - 1] + D[i]
            <4>1. CASE i = n + 1
                BY <4>1
            <4>2. CASE i = 0
                BY <4>2, <2>2
            <4>3. CASE i \in 1 .. n
                <5>1. g[i] = f[i] /\ g[i - 1] = f[i - 1]
                    BY <4>3
                <5>2. f[i] = f[i - 1] + D[i]
                    BY <4>3, <2>2
                <5> QED
                    BY <5>1, <5>2, <4>3
            <4> QED
                BY <4>1, <4>2, <4>3
        <3> QED
            BY <3>1
    <2> QED
        BY <2>3, <2>4
<1> HIDE DEF S
<1>4. Nat \subseteq S
    BY <1>2, <1>3, Induct
<1> QED
    <2>1. Len(D) \in S
        BY <1>1, <1>4
    <2>2. P(Len(D))
        BY <2>1 DEF S
    <2> QED
        BY <1>1, <2>2

(* The remaining times satisfy their recurrence.                           *)
LEMMA RemRec ==
    ASSUME NEW s \in Seq(Procs), NEW d \in [Procs -> Int]
    PROVE  /\ Remaining(s, d, 0) = 0
           /\ \A k \in 0 .. Len(s) : Remaining(s, d, k) \in Int
           /\ \A k \in 1 .. Len(s) : Remaining(s, d, k) = Remaining(s, d, k - 1) + d[s[k]]
<1> DEFINE D == [i \in 1 .. Len(s) |-> d[s[i]]]
           n == Len(s)
<1>1. n \in Nat /\ \A i \in 1 .. n : s[i] \in Procs
    BY LenProperties, ElementOfSeq
<1>2. D \in Seq(Int) /\ Len(D) = n
    BY <1>1
<1>3. PICK f \in [0 .. Len(D) -> Int] :
                f = [i \in 0 .. Len(D) |-> IF i = 0 THEN 0 ELSE f[i - 1] + D[i]]
    BY <1>2, SumExists
<1> DEFINE Body(g) == [i \in 0 .. n |-> IF i = 0 THEN 0 ELSE g[i - 1] + d[s[i]]]
           r == CHOOSE g : g = Body(g)
<1>4. f = Body(f)
    <2>1. ASSUME NEW i \in 0 .. n PROVE f[i] = IF i = 0 THEN 0 ELSE f[i - 1] + d[s[i]]
        <3>1. f[i] = IF i = 0 THEN 0 ELSE f[i - 1] + D[i]
            BY <1>2, <1>3
        <3>2. CASE i = 0
            BY <3>1, <3>2
        <3>3. CASE i \in 1 .. n
            BY <3>1, <3>3
        <3> QED
            BY <1>1, <3>2, <3>3
    <2> QED
        BY <1>2, <2>1
<1>5. r = Body(r)
    BY <1>4
<1>6. \A k : Remaining(s, d, k) = r[k]
    BY DEF Remaining
<1> DEFINE S == {m \in Nat : m <= n => r[m] \in Int}
<1>7. \A i \in 0 .. n : r[i] = IF i = 0 THEN 0 ELSE r[i - 1] + d[s[i]]
    BY <1>5
<1> HIDE DEF r
<1>8. 0 \in S
    BY <1>1, <1>7
<1>9. ASSUME NEW m \in Nat, m \in S PROVE m + 1 \in S
    <2>1. SUFFICES ASSUME m + 1 <= n PROVE r[m + 1] \in Int
        OBVIOUS
    <2>2. r[m] \in Int /\ m + 1 \in 1 .. n /\ (m + 1) - 1 = m
        BY <1>1, <1>9, <2>1
    <2>3. s[m + 1] \in Procs
        BY <1>1, <2>2
    <2> QED
        BY <1>1, <1>7, <2>2, <2>3
<1> HIDE DEF S
<1>10. Nat \subseteq S
    BY <1>8, <1>9, Induct
<1>11. \A k \in 0 .. n : r[k] \in Int
    BY <1>1, <1>10 DEF S
<1> QED
    <2>1. Remaining(s, d, 0) = 0
        BY <1>1, <1>6, <1>7
    <2>2. ASSUME NEW k \in 1 .. n
          PROVE  Remaining(s, d, k) = Remaining(s, d, k - 1) + d[s[k]]
        <3>1. k \in 0 .. n /\ k # 0
            BY <1>1
        <3> QED
            BY <1>6, <1>7, <3>1
    <2>3. \A k \in 0 .. n : Remaining(s, d, k) \in Int
        BY <1>6, <1>11
    <2> QED
        BY <2>1, <2>2, <2>3

(* Whatever satisfies the recurrence is the running sum.                   *)
LEMMA RemUnique ==
    ASSUME NEW s \in Seq(Procs), NEW d \in [Procs -> Int], NEW g,
           g[0] = 0, \A k \in 1 .. Len(s) : g[k] = g[k - 1] + d[s[k]]
    PROVE  \A k \in 0 .. Len(s) : Remaining(s, d, k) = g[k]
<1> DEFINE S == {m \in Nat : m <= Len(s) => Remaining(s, d, m) = g[m]}
<1>1. Len(s) \in Nat
    BY LenProperties
<1>2. 0 \in S
    BY RemRec
<1>3. ASSUME NEW m \in Nat, m \in S PROVE m + 1 \in S
    <2>1. SUFFICES ASSUME m + 1 <= Len(s) PROVE Remaining(s, d, m + 1) = g[m + 1]
        OBVIOUS
    <2>2. m + 1 \in 1 .. Len(s) /\ (m + 1) - 1 = m /\ m <= Len(s)
        BY <1>1, <2>1
    <2>3. Remaining(s, d, m + 1) = Remaining(s, d, m) + d[s[m + 1]]
        BY <2>2, RemRec
    <2>4. g[m + 1] = g[m] + d[s[m + 1]]
        BY <2>2
    <2> QED
        BY <1>3, <2>2, <2>3, <2>4
<1> HIDE DEF S
<1>4. Nat \subseteq S
    BY <1>2, <1>3, Induct
<1> QED
    BY <1>1, <1>4 DEF S

(* The remaining times depend on the deltas of the linked timers only.     *)
LEMMA RemSame ==
    ASSUME NEW s \in Seq(Procs), NEW d \in [Procs -> Int], NEW e \in [Procs -> Int],
           \A k \in 1 .. Len(s) : e[s[k]] = d[s[k]]
    PROVE  \A k \in 0 .. Len(s) : Remaining(s, e, k) = Remaining(s, d, k)
<1> DEFINE g == [k \in 0 .. Len(s) |-> Remaining(s, d, k)]
<1>1. Len(s) \in Nat
    BY LenProperties
<1>2. g[0] = 0
    BY <1>1, RemRec
<1>3. ASSUME NEW k \in 1 .. Len(s) PROVE g[k] = g[k - 1] + e[s[k]]
    <2>1. k \in 0 .. Len(s) /\ k - 1 \in 0 .. Len(s)
        BY <1>1
    <2>2. Remaining(s, d, k) = Remaining(s, d, k - 1) + d[s[k]]
        BY RemRec
    <2> QED
        BY <2>1, <2>2
<1>4. \A k \in 0 .. Len(s) : g[k] = Remaining(s, d, k)
    OBVIOUS
<1> HIDE DEF g
<1>5. \A k \in 0 .. Len(s) : Remaining(s, e, k) = g[k]
    BY <1>2, <1>3, RemUnique, ZenonT(60)
<1> QED
    BY <1>4, <1>5

(* add_timer stops behind the last entry that does not expire later.       *)
LEMMA PositionFacts ==
    ASSUME NEW s \in Seq(Procs), NEW d \in [Procs -> Int], NEW n \in Nat
    PROVE  LET k == Position(s, d, n)
           IN  /\ k \in 0 .. Len(s)
               /\ Remaining(s, d, k) <= n
               /\ k < Len(s) => Remaining(s, d, k + 1) > n
<1> DEFINE earlier == {k \in 1 .. Len(s) : Remaining(s, d, k) <= n}
           k == Position(s, d, n)
<1>1. Len(s) \in Nat
    BY LenProperties
<1>2. k = IF earlier = {} THEN 0 ELSE CHOOSE i \in earlier : \A j \in earlier : j <= i
    BY DEF Position
<1>3. CASE earlier = {}
    <2>1. k = 0
        BY <1>2, <1>3
    <2>2. Remaining(s, d, 0) = 0
        BY RemRec
    <2>3. ASSUME 0 < Len(s) PROVE Remaining(s, d, 1) > n
        <3>1. 1 \in 1 .. Len(s) /\ 1 \in 0 .. Len(s)
            BY <1>1, <2>3
        <3>2. Remaining(s, d, 1) \in Int
            BY <3>1, RemRec
        <3> QED
            BY <1>3, <3>1, <3>2
    <2> QED
        BY <1>1, <2>1, <2>2, <2>3
<1>4. CASE earlier # {}
    <2> DEFINE T == {Len(s) - i : i \in earlier}
    <2>1. T \subseteq Nat /\ T # {}
        BY <1>1, <1>4
    <2> HIDE DEF T
    <2>2. PICK x \in T : \A y \in T : x <= y
        BY <2>1, Least
    <2>3. PICK i \in earlier : x = Len(s) - i
        BY <2>2 DEF T
    <2>4. \A j \in earlier : j <= i
        <3> TAKE j \in earlier
        <3>1. Len(s) - j \in T
            BY DEF T
        <3>2. x <= Len(s) - j
            BY <2>2, <3>1
        <3> QED
            BY <1>1, <2>3, <3>2
    <2>5. k \in earlier /\ \A j \in earlier : j <= k
        BY <1>2, <1>4, <2>4
    <2>6. ASSUME k < Len(s) PROVE Remaining(s, d, k + 1) > n
        <3>1. k + 1 \in 1 .. Len(s) /\ k + 1 \in 0 .. Len(s) /\ ~ (k + 1 <= k)
            BY <1>1, <2>5, <2>6
        <3>2. k + 1 \notin earlier
            BY <2>5, <3>1
        <3>3. Remaining(s, d, k + 1) \in Int
            BY <3>1, RemRec
        <3> QED
            BY <3>1, <3>2, <3>3
    <2> QED
        BY <1>1, <2>5, <2>6
<1> QED
    BY <1>3, <1>4
-----------------------------------------------------------------------------
(* The remaining times with a timer of n ticks behind entry k.             *)
WithNew(s, d, k, n, i) ==
    IF i <= k THEN Remaining(s, d, i)
    ELSE IF i = k + 1 THEN n ELSE Remaining(s, d, i - 1)

(* add_timer: the new timer expires after n ticks, the others when they    *)
(* would have, and no delta becomes negative.                              *)
LEMMA InsertedFacts ==
    ASSUME NEW s \in Seq(Procs), NEW d \in [Procs -> Nat], NEW n \in Nat,
           NEW p \in Procs, \A j \in 1 .. Len(s) : s[j] # p, Distinct(s),
           NEW k \in 0 .. Len(s), Remaining(s, d, k) <= n,
           k < Len(s) => Remaining(s, d, k + 1) > n
    PROVE  /\ Inserted(s, d, k, p, n) \in [Procs -> Nat]
           /\ \A i \in 1 .. Len(s) + 1 :
                Remaining(InsertAt(s, k + 1, p), Inserted(s, d, k, p, n), i) = WithNew(s, d, k, n, i)
<1> DEFINE R(i) == Remaining(s, d, i)
           t == InsertAt(s, k + 1, p)
           e == Inserted(s, d, k, p, n)
           g == [i \in 0 .. Len(s) + 1 |->
                    IF i <= k THEN R(i) ELSE IF i = k + 1 THEN n ELSE R(i - 1)]
<1>1. Len(s) \in Nat /\ k \in Nat /\ \A i \in 1 .. Len(s) : s[i] \in Procs
    BY LenProperties, ElementOfSeq
<1>2. d \in [Procs -> Int]
    OBVIOUS
<1>3. /\ R(0) = 0 /\ \A i \in 0 .. Len(s) : R(i) \in Int
      /\ \A i \in 1 .. Len(s) : R(i) = R(i - 1) + d[s[i]]
    BY <1>2, RemRec
<1>4. /\ t \in Seq(Procs) /\ Len(t) = Len(s) + 1
      /\ \A i \in 1 .. Len(s) + 1 : t[i] = IF i <= k THEN s[i] ELSE IF i = k + 1 THEN p ELSE s[i - 1]
    BY InsertAtProps
<1>5. \A q \in Procs : e[q] = IF q = p THEN n - R(k)
                               ELSE IF k < Len(s) /\ q = s[k + 1] THEN d[q] - (n - R(k)) ELSE d[q]
    BY DEF Inserted
<1>6. n - R(k) \in Nat
    BY <1>3
<1>7. ASSUME k < Len(s) PROVE d[s[k + 1]] - (n - R(k)) \in Nat
    <2>1. k + 1 \in 1 .. Len(s) /\ (k + 1) - 1 = k /\ k \in 0 .. Len(s) /\ k + 1 \in 0 .. Len(s)
        BY <1>1, <1>7
    <2>2. R(k + 1) = R(k) + d[s[k + 1]] /\ d[s[k + 1]] \in Nat /\ R(k) \in Int
        BY <1>1, <1>3, <2>1
    <2> QED
        BY <1>3, <1>7, <2>2
<1>8. e \in [Procs -> Nat]
    <2>1. e = [q \in Procs |-> e[q]]
        BY DEF Inserted
    <2>2. \A q \in Procs : e[q] \in Nat
        BY <1>5, <1>6, <1>7
    <2> HIDE DEF e
    <2> QED
        BY <2>1, <2>2
<1>9. g[0] = 0
    BY <1>1, <1>3
<1>10. ASSUME NEW i \in 1 .. Len(t) PROVE g[i] = g[i - 1] + e[t[i]]
    <2> HIDE DEF t, e, R
    <2>0. i \in 1 .. Len(s) + 1 /\ i - 1 \in 0 .. Len(s) + 1 /\ i \in 0 .. Len(s) + 1
        BY <1>1, <1>4
    <2>1. CASE i <= k
        <3>1. i \in 1 .. Len(s) /\ i - 1 <= k
            BY <1>1, <2>1
        <3>2. t[i] = s[i] /\ s[i] \in Procs /\ s[i] # p
            BY <1>1, <1>4, <2>0, <2>1, <3>1
        <3>3. ~ (k < Len(s) /\ s[i] = s[k + 1])
            BY <1>1, <2>1, <3>1 DEF Distinct
        <3>4. e[s[i]] = d[s[i]]
            BY <1>5, <3>2, <3>3
        <3> QED
            BY <1>3, <2>0, <2>1, <3>1, <3>2, <3>4
    <2>2. CASE i = k + 1
        <3>1. t[i] = p /\ e[p] = n - R(k)
            BY <1>1, <1>4, <1>5, <2>0, <2>2
        <3>2. g[i] = n /\ g[i - 1] = R(k)
            BY <1>1, <2>0, <2>2
        <3> QED
            BY <1>3, <3>1, <3>2
    <2>3. CASE i = k + 2
        <3>1. /\ k < Len(s) /\ k + 1 \in 1 .. Len(s) /\ i - 1 = k + 1 /\ (k + 1) - 1 = k
              /\ ~ (i <= k) /\ i # k + 1
            BY <1>1, <2>0, <2>3
        <3>2. t[i] = s[k + 1] /\ s[k + 1] # p /\ s[k + 1] \in Procs
            BY <1>1, <1>4, <2>0, <3>1
        <3>3. e[s[k + 1]] = d[s[k + 1]] - (n - R(k))
            BY <1>5, <3>1, <3>2
        <3>4. g[i] = R(k + 1) /\ g[i - 1] = n
            BY <1>1, <2>0, <2>3, <3>1
        <3>5. R(k + 1) = R(k) + d[s[k + 1]] /\ R(k) \in Int /\ d[s[k + 1]] \in Int
            BY <1>1, <1>3, <3>1
        <3> QED
            BY <3>2, <3>3, <3>4, <3>5, SMTT(60)
    <2>4. CASE i > k + 2
        <3>1. i - 1 \in 1 .. Len(s) /\ k < Len(s) /\ k + 1 \in 1 .. Len(s) /\ i - 1 # k + 1
              /\ ~ (i <= k) /\ i # k + 1 /\ ~ (i - 1 <= k)
            BY <1>1, <2>0, <2>4
        <3>2. t[i] = s[i - 1] /\ s[i - 1] # p /\ s[i - 1] \in Procs
            BY <1>1, <1>4, <2>0, <3>1
        <3>3. s[i - 1] # s[k + 1]
            BY <3>1 DEF Distinct
        <3>4. e[s[i - 1]] = d[s[i - 1]]
            BY <1>5, <3>2, <3>3
        <3>5. g[i] = R(i - 1) /\ g[i - 1] = R((i - 1) - 1)
            BY <2>0, <3>1
        <3>6. R(i - 1) = R((i - 1) - 1) + d[s[i - 1]]
            BY <1>3, <3>1
        <3> QED
            BY <3>2, <3>4, <3>5, <3>6
    <2> QED
        BY <1>1, <2>0, <2>1, <2>2, <2>3, <2>4
<1>11. \A i \in 1 .. Len(s) + 1 : g[i] = IF i <= k THEN R(i) ELSE IF i = k + 1 THEN n ELSE R(i - 1)
    BY <1>1
<1>12. e \in [Procs -> Int]
    BY <1>8
<1> HIDE DEF g, t, e, R
<1>13. \A i \in 0 .. Len(t) : Remaining(t, e, i) = g[i]
    <2>1. \A i \in 1 .. Len(t) : g[i] = g[i - 1] + e[t[i]]
        BY <1>10
    <2>2. t \in Seq(Procs)
        BY <1>4
    <2> QED
        BY <1>9, <1>12, <2>1, <2>2, RemUnique, ZenonT(60)
<1>14. \A i \in 1 .. Len(s) + 1 : Remaining(t, e, i) = g[i]
    BY <1>1, <1>4, <1>13
<1> QED
    BY <1>8, <1>11, <1>14 DEF t, e, R, WithNew

(* del_timer: the other timers expire when they would have.                *)
LEMMA DeletedFacts ==
    ASSUME NEW s \in Seq(Procs), NEW d \in [Procs -> Nat], Distinct(s), NEW k \in 1 .. Len(s)
    PROVE  /\ Deleted(s, d, k) \in [Procs -> Nat]
           /\ \A i \in 1 .. Len(s) - 1 :
                Remaining(RemoveAt(s, k), Deleted(s, d, k), i) =
                    IF i < k THEN Remaining(s, d, i) ELSE Remaining(s, d, i + 1)
<1> DEFINE R(i) == Remaining(s, d, i)
           t == RemoveAt(s, k)
           e == Deleted(s, d, k)
           g == [i \in 0 .. Len(s) - 1 |-> IF i < k THEN R(i) ELSE R(i + 1)]
<1>1. Len(s) \in Nat /\ k \in Nat /\ k > 0 /\ \A i \in 1 .. Len(s) : s[i] \in Procs
    BY LenProperties, ElementOfSeq
<1>2. d \in [Procs -> Int]
    OBVIOUS
<1>3. /\ R(0) = 0 /\ \A i \in 0 .. Len(s) : R(i) \in Int
      /\ \A i \in 1 .. Len(s) : R(i) = R(i - 1) + d[s[i]]
    BY <1>2, RemRec
<1>4. /\ t \in Seq(Procs) /\ Len(t) = Len(s) - 1
      /\ \A i \in 1 .. Len(s) - 1 : t[i] = IF i < k THEN s[i] ELSE s[i + 1]
    BY RemoveAtProps
<1>5. \A q \in Procs : e[q] = IF k < Len(s) /\ q = s[k + 1] THEN d[q] + d[s[k]] ELSE d[q]
    BY <1>1 DEF Deleted
<1>6. e \in [Procs -> Nat]
    BY <1>1 DEF Deleted
<1>9. g[0] = 0
    BY <1>1, <1>3
<1>10. ASSUME NEW i \in 1 .. Len(t) PROVE g[i] = g[i - 1] + e[t[i]]
    <2> HIDE DEF t, e, R
    <2>0. i \in 1 .. Len(s) - 1 /\ i - 1 \in 0 .. Len(s) - 1 /\ i \in 0 .. Len(s) - 1 /\ i \in 1 .. Len(s)
        BY <1>1, <1>4
    <2>1. CASE i < k
        <3>1. t[i] = s[i] /\ i - 1 < k
            BY <1>1, <1>4, <2>0, <2>1
        <3>2. ~ (k < Len(s) /\ s[i] = s[k + 1])
            BY <1>1, <2>0, <2>1 DEF Distinct
        <3>3. e[s[i]] = d[s[i]]
            BY <1>1, <1>5, <2>0, <3>2
        <3> QED
            BY <1>3, <2>0, <2>1, <3>1, <3>3
    <2>2. CASE i = k
        <3>1. k < Len(s) /\ k + 1 \in 1 .. Len(s) /\ i - 1 < k /\ ~ (i < k) /\ (k + 1) - 1 = k
            BY <1>1, <2>0, <2>2
        <3>2. t[i] = s[k + 1] /\ e[s[k + 1]] = d[s[k + 1]] + d[s[k]]
            BY <1>1, <1>4, <1>5, <2>0, <2>2, <3>1
        <3>3. R(k + 1) = R(k) + d[s[k + 1]] /\ R(k) = R(k - 1) + d[s[k]]
            BY <1>3, <3>1
        <3>4. R(k - 1) \in Int /\ d[s[k]] \in Int /\ d[s[k + 1]] \in Int
            BY <1>1, <1>3, <3>1, SMTT(60)
        <3>5. g[i] = R(k + 1) /\ g[i - 1] = R(k - 1)
            BY <2>0, <2>2, <3>1
        <3> QED
            BY <3>2, <3>3, <3>4, <3>5, SMTT(60)
    <2>3. CASE i > k
        <3>1. /\ k < Len(s) /\ k + 1 \in 1 .. Len(s) /\ i + 1 \in 1 .. Len(s) /\ i + 1 # k + 1
              /\ ~ (i < k) /\ ~ (i - 1 < k) /\ (i - 1) + 1 = i /\ (i + 1) - 1 = i
            BY <1>1, <2>0, <2>3
        <3>2. s[i + 1] # s[k + 1]
            BY <3>1 DEF Distinct
        <3>3. t[i] = s[i + 1] /\ e[s[i + 1]] = d[s[i + 1]]
            BY <1>1, <1>4, <1>5, <2>0, <3>1, <3>2
        <3>4. g[i] = R(i + 1) /\ g[i - 1] = R(i)
            BY <2>0, <3>1
        <3>5. R(i + 1) = R(i) + d[s[i + 1]]
            BY <1>3, <3>1
        <3> QED
            BY <3>3, <3>4, <3>5
    <2> QED
        BY <1>1, <2>0, <2>1, <2>2, <2>3
<1>11. \A i \in 1 .. Len(s) - 1 : g[i] = IF i < k THEN R(i) ELSE R(i + 1)
    BY <1>1
<1>12. e \in [Procs -> Int]
    BY <1>6
<1> HIDE DEF g, t, e, R
<1>13. \A i \in 0 .. Len(t) : Remaining(t, e, i) = g[i]
    BY <1>4, <1>9, <1>10, <1>12, RemUnique
<1>14. \A i \in 1 .. Len(s) - 1 : Remaining(t, e, i) = g[i]
    BY <1>1, <1>4, <1>13
<1> QED
    BY <1>6, <1>11, <1>14 DEF t, e, R

(* run_timer_list takes m ticks off the head: every linked timer is m      *)
(* ticks closer.                                                           *)
LEMMA HeadFacts ==
    ASSUME NEW s \in Seq(Procs), NEW d \in [Procs -> Int], NEW m \in Int,
           Distinct(s), s # <<>>
    PROVE  \A i \in 1 .. Len(s) :
                Remaining(s, [d EXCEPT ![s[1]] = m], i) = Remaining(s, d, i) - d[s[1]] + m
<1> DEFINE R(i) == Remaining(s, d, i)
           e == [d EXCEPT ![s[1]] = m]
           g == [i \in 0 .. Len(s) |-> IF i = 0 THEN 0 ELSE R(i) - d[s[1]] + m]
<1>1. Len(s) \in Nat /\ Len(s) > 0 /\ \A i \in 1 .. Len(s) : s[i] \in Procs
    BY LenProperties, ElementOfSeq, EmptySeq
<1>3. /\ R(0) = 0 /\ \A i \in 0 .. Len(s) : R(i) \in Int
      /\ \A i \in 1 .. Len(s) : R(i) = R(i - 1) + d[s[i]]
    BY RemRec
<1>4. 1 \in 1 .. Len(s) /\ s[1] \in Procs /\ d[s[1]] \in Int
    BY <1>1
<1>5. e \in [Procs -> Int] /\ \A q \in Procs : e[q] = IF q = s[1] THEN m ELSE d[q]
    BY <1>4
<1>9. g[0] = 0
    BY <1>1
<1>10. ASSUME NEW i \in 1 .. Len(s) PROVE g[i] = g[i - 1] + e[s[i]]
    <2> HIDE DEF e, R
    <2>0. i \in 0 .. Len(s) /\ i - 1 \in 0 .. Len(s) /\ i # 0 /\ s[i] \in Procs
        BY <1>1
    <2>1. CASE i = 1
        <3>1. g[1] = R(1) - d[s[1]] + m /\ g[1 - 1] = 0 /\ e[s[1]] = m
            BY <1>4, <1>5, <2>0, <2>1
        <3>2. R(1) = R(1 - 1) + d[s[1]] /\ R(1 - 1) = 0
            BY <1>3, <1>4
        <3> QED
            BY <1>4, <2>1, <3>1, <3>2
    <2>2. CASE i # 1
        <3>1. s[i] # s[1] /\ i - 1 # 0
            BY <1>4, <2>2 DEF Distinct
        <3>2. e[s[i]] = d[s[i]]
            BY <1>5, <2>0, <3>1
        <3>3. g[i] = R(i) - d[s[1]] + m /\ g[i - 1] = R(i - 1) - d[s[1]] + m
            BY <2>0, <3>1
        <3>4. R(i) = R(i - 1) + d[s[i]] /\ R(i - 1) \in Int /\ d[s[i]] \in Int
            BY <1>3, <2>0
        <3> QED
            BY <1>4, <3>2, <3>3, <3>4
    <2> QED
        BY <2>1, <2>2
<1>11. \A i \in 1 .. Len(s) : g[i] = R(i) - d[s[1]] + m
    BY <1>1
<1> HIDE DEF g, e, R
<1>13. \A i \in 0 .. Len(s) : Remaining(s, e, i) = g[i]
    BY <1>5, <1>9, <1>10, RemUnique, ZenonT(60)
<1>14. \A i \in 1 .. Len(s) : Remaining(s, e, i) = g[i]
    BY <1>1, <1>13
<1> QED
    BY <1>11, <1>14 DEF e, R

(* ... and taking the head off leaves the others its delta closer.         *)
LEMMA TailFacts ==
    ASSUME NEW s \in Seq(Procs), NEW d \in [Procs -> Int], s # <<>>
    PROVE  \A i \in 1 .. Len(s) - 1 :
                Remaining(Tail(s), d, i) = Remaining(s, d, i + 1) - d[s[1]]
<1> DEFINE R(i) == Remaining(s, d, i)
           t == Tail(s)
           g == [i \in 0 .. Len(s) - 1 |-> R(i + 1) - d[s[1]]]
<1>1. Len(s) \in Nat /\ Len(s) > 0 /\ \A i \in 1 .. Len(s) : s[i] \in Procs
    BY LenProperties, ElementOfSeq, EmptySeq
<1>2. /\ t \in Seq(Procs) /\ Len(t) = Len(s) - 1
      /\ \A i \in 1 .. Len(s) - 1 : t[i] = s[i + 1]
    BY HeadTailProperties
<1>3. /\ R(0) = 0 /\ \A i \in 0 .. Len(s) : R(i) \in Int
      /\ \A i \in 1 .. Len(s) : R(i) = R(i - 1) + d[s[i]]
    BY RemRec
<1>4. 1 \in 1 .. Len(s) /\ s[1] \in Procs /\ d[s[1]] \in Int
    BY <1>1
<1>9. g[0] = 0
    <2>1. g[0] = R(1) - d[s[1]] /\ R(1) = R(1 - 1) + d[s[1]]
        BY <1>1, <1>3, <1>4
    <2> QED
        BY <1>3, <1>4, <2>1
<1>10. ASSUME NEW i \in 1 .. Len(t) PROVE g[i] = g[i - 1] + d[t[i]]
    <2> HIDE DEF R
    <2>0. /\ i \in 0 .. Len(s) - 1 /\ i - 1 \in 0 .. Len(s) - 1 /\ i + 1 \in 1 .. Len(s)
          /\ (i - 1) + 1 = i /\ (i + 1) - 1 = i /\ i \in 1 .. Len(s) - 1 /\ i \in 0 .. Len(s)
        BY <1>1, <1>2
    <2>1. t[i] = s[i + 1] /\ d[s[i + 1]] \in Int
        BY <1>1, <1>2, <2>0
    <2>2. g[i] = R(i + 1) - d[s[1]] /\ g[i - 1] = R(i) - d[s[1]]
        BY <2>0
    <2>3. R(i + 1) = R(i) + d[s[i + 1]] /\ R(i) \in Int
        BY <1>3, <2>0
    <2> QED
        BY <1>4, <2>1, <2>2, <2>3
<1>11. \A i \in 1 .. Len(s) - 1 : g[i] = R(i + 1) - d[s[1]]
    BY <1>1
<1> HIDE DEF g, t
<1>13. \A i \in 0 .. Len(t) : Remaining(t, d, i) = g[i]
    BY <1>2, <1>9, <1>10, RemUnique, ZenonT(60)
<1> QED
    BY <1>1, <1>2, <1>11, <1>13 DEF t
-----------------------------------------------------------------------------
(* The inductive invariant.                                                *)

(* A timer is armed with at least one tick to go; the handler holds a      *)
(* process when it has taken a timer off.                                  *)
ArmedSoundly ==
    /\ \A p \in Procs : pc[p] \in {"checked", "published"} => expires[p] > 0
    /\ \A p \in Procs : pc[p] \in {"checked_futex", "queued_futex"} /\ timed[p] => expires[p] > 0
    /\ tick_pc = "expired" => hand \in Procs

(* The timer list links the armed timers of calls in progress, of          *)
(* futex_wait only if the call has a timeout.                              *)
Armed(q) == pc[q] \in {"armed", "woken"} \/ (pc[q] \in FutexArmed /\ timed[q])
ListInv == Distinct(timer_list) /\ \A q \in Procs : On(timer_list, q) => Armed(q)

(* NeverLate while the handler runs: clock_tick has counted the tick, the  *)
(* list not yet.                                                           *)
Slack == IF tick_pc = "idle" THEN 0 ELSE 1
DueInTime ==
    \A k \in 1 .. Len(timer_list) :
        Remaining(timer_list, expires, k) <= left[timer_list[k]] + Slack

(* The bucket links the waiters of calls in progress.                      *)
Waiting(q) == pc[q] \in {"queued_futex", "disarmed_futex"} \cup FutexArmed
BucketInv ==
    /\ Distinct(bucket) /\ \A q \in Procs : On(bucket, q) => Waiting(q)
    /\ waker.at = "wake" <=> waker.hand # None
    /\ waker.at = "wake" => waker.woken < COUNT

WaitInv == FutexTypeOK /\ ArmedSoundly /\ ListInv /\ DueInTime /\ BucketInv
-----------------------------------------------------------------------------
(* What add_timer does to the list.                                        *)
LEMMA AddTimerFacts ==
    ASSUME TypeOK, Distinct(timer_list), DueInTime, NEW p \in Procs, expires[p] > 0,
           ~ On(timer_list, p), add_timer(p)
    PROVE  /\ timer_list' \in Seq(Procs) /\ expires' \in [Procs -> Nat] /\ left' \in [Procs -> Nat]
           /\ Distinct(timer_list')
           /\ \A q : On(timer_list', q) <=> On(timer_list, q) \/ q = p
           /\ \A q \in Procs : q # p /\ ~ On(timer_list, q) => expires'[q] = expires[q]
           /\ \A i \in 1 .. Len(timer_list') :
                Remaining(timer_list', expires', i) <= left'[timer_list'[i]] + Slack
<1> DEFINE s == timer_list
           d == expires
           n == expires[p]
           k == Position(s, d, n)
           t == InsertAt(s, k + 1, p)
           e == Inserted(s, d, k, p, n)
<1>1. s \in Seq(Procs) /\ d \in [Procs -> Nat] /\ d \in [Procs -> Int] /\ n \in Nat /\ left \in [Procs -> Nat]
    BY DEF TypeOK
<1>2. timer_list' = t /\ expires' = e /\ left' = [left EXCEPT ![p] = IF tick_pc = "idle" THEN n ELSE n - 1]
    BY DEF add_timer
<1>3. Len(s) \in Nat /\ \A i \in 1 .. Len(s) : s[i] \in Procs
    BY <1>1, LenProperties, ElementOfSeq
<1> HIDE DEF s, d, n, k, t, e
<1>4. /\ k \in 0 .. Len(s) /\ Remaining(s, d, k) <= n
      /\ k < Len(s) => Remaining(s, d, k + 1) > n
    BY <1>1, PositionFacts DEF k
<1>5. \A j \in 1 .. Len(s) : s[j] # p
    BY DEF On, s
<1>6. Distinct(s)
    BY DEF s
<1>7. e \in [Procs -> Nat]
    BY <1>1, <1>4, <1>5, <1>6, InsertedFacts DEF e
<1>8. ASSUME NEW i \in 1 .. Len(s) + 1
      PROVE  Remaining(t, e, i) = IF i <= k THEN Remaining(s, d, i)
                                  ELSE IF i = k + 1 THEN n ELSE Remaining(s, d, i - 1)
    <2>1. /\ s \in Seq(Procs) /\ d \in [Procs -> Nat] /\ n \in Nat /\ k \in 0 .. Len(s)
          /\ Remaining(s, d, k) <= n /\ (k < Len(s) => Remaining(s, d, k + 1) > n)
        BY <1>1, <1>4
    <2>2. Remaining(InsertAt(s, k + 1, p), Inserted(s, d, k, p, n), i) = WithNew(s, d, k, n, i)
        BY <1>5, <1>6, <2>1, InsertedFacts, ZenonT(30)
    <2> QED
        BY <2>2 DEF e, t, WithNew
<1>9. t \in Seq(Procs) /\ Len(t) = Len(s) + 1
    BY <1>1, <1>4, InsertAtProps DEF t
<1>10. \A i \in 1 .. Len(s) + 1 : t[i] = IF i <= k THEN s[i] ELSE IF i = k + 1 THEN p ELSE s[i - 1]
    BY <1>1, <1>4, InsertAtProps DEF t
<1>11. Distinct(t) /\ \A q : On(t, q) <=> On(s, q) \/ q = p
    BY <1>1, <1>4, <1>6, InsertAtOn DEF t, s
<1>12. ASSUME NEW q \in Procs, q # p, ~ On(s, q) PROVE e[q] = d[q]
    <2>1. ~ (k < Len(s) /\ q = s[k + 1])
        BY <1>3, <1>4, <1>12 DEF On
    <2> QED
        BY <1>12, <2>1 DEF e, Inserted
<1>13. /\ left' \in [Procs -> Nat] /\ left'[p] + Slack = n
       /\ \A q \in Procs \ {p} : left'[q] = left[q]
    BY <1>1, <1>2 DEF Slack, n
<1>14. \A i \in 1 .. Len(s) : Remaining(s, d, i) <= left[s[i]] + Slack
    BY DEF DueInTime, s, d
<1>15. ASSUME NEW i \in 1 .. Len(t) PROVE Remaining(t, e, i) <= left'[t[i]] + Slack
    <2>0. i \in 1 .. Len(s) + 1 /\ k \in Nat
        BY <1>3, <1>4, <1>9
    <2>1. CASE i <= k
        <3>1. i \in 1 .. Len(s) /\ t[i] = s[i] /\ Remaining(t, e, i) = Remaining(s, d, i)
            BY <1>3, <1>4, <1>8, <1>10, <2>0, <2>1
        <3> QED
            BY <1>3, <1>5, <1>13, <1>14, <3>1
    <2>2. CASE i = k + 1
        <3>1. t[i] = p /\ Remaining(t, e, i) = n
            BY <1>8, <1>10, <2>0, <2>2
        <3> QED
            BY <1>1, <1>13, <3>1
    <2>3. CASE i > k + 1
        <3>1. i - 1 \in 1 .. Len(s) /\ t[i] = s[i - 1] /\ Remaining(t, e, i) = Remaining(s, d, i - 1)
            BY <1>3, <1>4, <1>8, <1>10, <2>0, <2>3
        <3> QED
            BY <1>3, <1>5, <1>13, <1>14, <3>1
    <2> QED
        BY <2>0, <2>1, <2>2, <2>3
<1> QED
    BY <1>2, <1>7, <1>9, <1>11, <1>12, <1>13, <1>15 DEF s, d

(* What del_timer does to the list, linked or not.                         *)
LEMMA DelTimerFacts ==
    ASSUME TypeOK, Distinct(timer_list), DueInTime, NEW p \in Procs, del_timer(p)
    PROVE  /\ timer_list' \in Seq(Procs) /\ expires' \in [Procs -> Nat]
           /\ Distinct(timer_list')
           /\ \A q : On(timer_list', q) <=> On(timer_list, q) /\ q # p
           /\ \A q \in Procs : ~ On(timer_list, q) => expires'[q] = expires[q]
           /\ \A i \in 1 .. Len(timer_list') :
                Remaining(timer_list', expires', i) <= left[timer_list'[i]] + Slack
<1> DEFINE s == timer_list
           d == expires
           k == Index(s, p)
           t == RemoveAt(s, k)
           e == Deleted(s, d, k)
<1>1. s \in Seq(Procs) /\ d \in [Procs -> Nat] /\ left \in [Procs -> Nat]
    BY DEF TypeOK
<1>2. CASE ~ On(s, p)
    <2>1. timer_list' = timer_list /\ expires' = expires
        BY <1>2 DEF del_timer, Without, Linked, On
    <2> QED
        BY <1>1, <1>2, <2>1 DEF DueInTime
<1>3. CASE On(s, p)
    <2>1. timer_list' = t /\ expires' = e
        BY <1>3 DEF del_timer, Without, Linked, On
    <2>2. k \in 1 .. Len(s) /\ s[k] = p
        BY <1>3 DEF Index, On
    <2>3. Len(s) \in Nat /\ \A i \in 1 .. Len(s) : s[i] \in Procs
        BY <1>1, LenProperties, ElementOfSeq
    <2>14. \A i \in 1 .. Len(s) : Remaining(s, d, i) <= left[s[i]] + Slack
        BY DEF DueInTime
    <2>6. Distinct(s)
        OBVIOUS
    <2> HIDE DEF s, d, k, t, e
    <2>7. e \in [Procs -> Nat]
        BY <1>1, <2>2, <2>6, DeletedFacts DEF e
    <2>8. \A i \in 1 .. Len(s) - 1 :
              Remaining(t, e, i) = IF i < k THEN Remaining(s, d, i) ELSE Remaining(s, d, i + 1)
        BY <1>1, <2>2, <2>6, DeletedFacts DEF e, t
    <2>9. t \in Seq(Procs) /\ Len(t) = Len(s) - 1
        BY <1>1, <2>2, RemoveAtProps DEF t
    <2>10. \A i \in 1 .. Len(s) - 1 : t[i] = IF i < k THEN s[i] ELSE s[i + 1]
        BY <1>1, <2>2, RemoveAtProps DEF t
    <2>11. Distinct(t) /\ \A q : On(t, q) <=> On(s, q) /\ q # p
        BY <1>1, <2>2, <2>6, RemoveAtOn DEF t
    <2>12. ASSUME NEW q \in Procs, ~ On(s, q) PROVE e[q] = d[q]
        <3>1. ~ (k < Len(s) /\ q = s[k + 1])
            BY <2>2, <2>3, <2>12 DEF On
        <3> QED
            BY <1>1, <2>12, <3>1 DEF e, Deleted
    <2>15. ASSUME NEW i \in 1 .. Len(t) PROVE Remaining(t, e, i) <= left[t[i]] + Slack
        <3>0. i \in 1 .. Len(s) - 1 /\ k \in Nat
            BY <2>2, <2>3, <2>9
        <3>1. CASE i < k
            <4>1. i \in 1 .. Len(s) /\ t[i] = s[i] /\ Remaining(t, e, i) = Remaining(s, d, i)
                BY <2>2, <2>3, <2>8, <2>10, <3>0, <3>1
            <4> QED
                BY <2>14, <4>1
        <3>2. CASE i >= k
            <4>1. i + 1 \in 1 .. Len(s) /\ t[i] = s[i + 1] /\ Remaining(t, e, i) = Remaining(s, d, i + 1)
                BY <2>2, <2>3, <2>8, <2>10, <3>0, <3>2
            <4> QED
                BY <2>14, <4>1
        <3> QED
            BY <3>0, <3>1, <3>2
    <2> QED
        BY <2>1, <2>7, <2>9, <2>11, <2>12, <2>15 DEF s, d
<1> QED
    BY <1>2, <1>3

(* What one turn of run_timer_list does to the list.                       *)
LEMMA RunTimerListFacts ==
    ASSUME TypeOK, Distinct(timer_list), DueInTime, RunTimerList
    PROVE  /\ timer_list' \in Seq(Procs) /\ expires' \in [Procs -> Nat]
           /\ tick_pc' \in {"idle", "ticked", "expired"} /\ hand' \in Procs \cup {None}
           /\ tick_pc' = "expired" => hand' \in Procs
           /\ Distinct(timer_list')
           /\ \A q : On(timer_list', q) => On(timer_list, q)
           /\ \A q \in Procs : ~ On(timer_list, q) => expires'[q] = expires[q]
           /\ DueInTime'
<1> DEFINE s == timer_list
           d == expires
           p == s[1]
           m == Minus1(d[p])
           e == [d EXCEPT ![p] = m]
<1>1. /\ s \in Seq(Procs) /\ d \in [Procs -> Nat] /\ d \in [Procs -> Int] /\ left \in [Procs -> Nat]
      /\ hand \in Procs \cup {None} /\ tick_pc = "ticked" /\ left' = left
    BY DEF TypeOK, RunTimerList
<1>2. CASE s = <<>>
    <2>1. timer_list' = timer_list /\ expires' = expires /\ hand' = hand /\ tick_pc' = "idle"
        BY <1>2 DEF RunTimerList, timers
    <2> QED
        BY <1>1, <1>2, <2>1 DEF DueInTime
<1>3. CASE s # <<>>
    <2>1. /\ expires' = e
          /\ IF m = 0 THEN timer_list' = Tail(s) /\ hand' = p /\ tick_pc' = "expired"
             ELSE tick_pc' = "idle" /\ timer_list' = s /\ hand' = hand
        BY <1>3 DEF RunTimerList
    <2>2. /\ Tail(s) \in Seq(Procs) /\ Distinct(Tail(s)) /\ Len(Tail(s)) = Len(s) - 1
          /\ \A i \in 1 .. Len(s) - 1 : Tail(s)[i] = s[i + 1]
          /\ p \in Procs /\ On(s, p)
          /\ \A q : On(Tail(s), q) <=> On(s, q) /\ q # p
        BY <1>1, <1>3, TailOn
    <2>3. Len(s) \in Nat /\ \A i \in 1 .. Len(s) : s[i] \in Procs
        BY <1>1, LenProperties, ElementOfSeq
    <2>4. \A i \in 1 .. Len(s) : Remaining(s, d, i) <= left[s[i]] + 1
        BY <1>1 DEF DueInTime, Slack
    <2>5. Distinct(s)
        OBVIOUS
    <2>6. m \in Nat /\ d[p] \in Nat /\ (m = 0 => d[p] \in {0, 1}) /\ (m # 0 => m = d[p] - 1)
        BY <1>1, <2>2 DEF Minus1
    <2>7. e \in [Procs -> Nat] /\ e \in [Procs -> Int]
        BY <1>1, <2>2, <2>6
    <2>8. \A q \in Procs : q # p => e[q] = d[q]
        BY <1>1
    <2>9. \A q : ~ On(s, q) => q # p
        BY <2>2
    <2>p. e[s[1]] = m /\ d[s[1]] = d[p]
        BY <1>1, <2>2
    <2>q. \A i \in 0 .. Len(s) : Remaining(s, d, i) \in Int
        BY <1>1, RemRec
    <2> HIDE DEF s, d, m, e
    <2>10. \A i \in 1 .. Len(s) : Remaining(s, e, i) = Remaining(s, d, i) - d[p] + m
        <3> TAKE i \in 1 .. Len(s)
        <3>1. Remaining(s, [d EXCEPT ![s[1]] = m], i) = Remaining(s, d, i) - d[s[1]] + m
            <4>1. m \in Int
                BY <2>6
            <4>2. s \in Seq(Procs) /\ d \in [Procs -> Int]
                BY <1>1
            <4> QED
                BY <1>3, <2>5, <4>1, <4>2, HeadFacts, ZenonT(30)
        <3> QED
            BY <3>1 DEF e
    <2>11. CASE m = 0
        <3>1. \A i \in 1 .. Len(s) - 1 : Remaining(Tail(s), e, i) = Remaining(s, e, i + 1) - m
            BY <1>1, <1>3, <2>7, <2>p, TailFacts
        <3>2. ASSUME NEW i \in 1 .. Len(Tail(s))
              PROVE  Remaining(Tail(s), e, i) <= left[Tail(s)[i]] + 1
            <4>1. i \in 1 .. Len(s) - 1 /\ i + 1 \in 1 .. Len(s) /\ i + 1 \in 0 .. Len(s)
                BY <2>2, <2>3
            <4>2. Remaining(Tail(s), e, i) = Remaining(s, d, i + 1) - d[p]
                BY <2>6, <2>10, <2>11, <2>q, <3>1, <4>1
            <4>3. Tail(s)[i] = s[i + 1] /\ left[s[i + 1]] \in Nat
                BY <1>1, <2>2, <2>3, <4>1
            <4> QED
                BY <2>4, <2>6, <2>q, <4>1, <4>2, <4>3
        <3>3. timer_list' = Tail(s) /\ hand' = p /\ tick_pc' = "expired"
            BY <2>1, <2>11
        <3>4. DueInTime'
            BY <1>1, <2>1, <3>2, <3>3 DEF DueInTime, Slack
        <3> QED
            BY <2>1, <2>2, <2>7, <2>8, <2>9, <3>3, <3>4 DEF s, d
    <2>12. CASE m # 0
        <3>1. timer_list' = s /\ hand' = hand /\ tick_pc' = "idle"
            BY <2>1, <2>12
        <3>2. ASSUME NEW i \in 1 .. Len(s) PROVE Remaining(s, e, i) <= left[s[i]] + 0
            <4>1. i \in 0 .. Len(s) /\ left[s[i]] \in Nat
                BY <1>1, <2>3
            <4> QED
                BY <2>4, <2>6, <2>10, <2>12, <2>q, <4>1, SMTT(60)
        <3>4. DueInTime'
            BY <1>1, <2>1, <3>1, <3>2 DEF DueInTime, Slack
        <3> QED
            BY <1>1, <2>1, <2>5, <2>7, <2>8, <2>9, <3>1, <3>4 DEF s, d
    <2> QED
        BY <2>11, <2>12
<1> QED
    BY <1>2, <1>3
(* A timer that is not linked may be set up or left behind.                *)
LEMMA ElsewhereFacts ==
    ASSUME TypeOK, DueInTime, NEW p \in Procs, ~ On(timer_list, p), NEW n \in Nat,
           timer_list' = timer_list, tick_pc' = tick_pc, expires' = [expires EXCEPT ![p] = n],
           \A q \in Procs \ {p} : left'[q] = left[q]
    PROVE  expires' \in [Procs -> Nat] /\ DueInTime'
<1>1. /\ timer_list \in Seq(Procs) /\ expires \in [Procs -> Nat] /\ expires' \in [Procs -> Nat]
      /\ expires \in [Procs -> Int] /\ expires' \in [Procs -> Int]
    BY DEF TypeOK
<1>2. \A k \in 1 .. Len(timer_list) : timer_list[k] \in Procs \ {p}
    BY <1>1, ElementOfSeq DEF On
<1>3. \A k \in 1 .. Len(timer_list) : expires'[timer_list[k]] = expires[timer_list[k]]
    BY <1>1, <1>2
<1>4. \A k \in 0 .. Len(timer_list) : Remaining(timer_list, expires', k) = Remaining(timer_list, expires, k)
    BY <1>1, <1>3, RemSame
<1>5. Len(timer_list) \in Nat
    BY <1>1, LenProperties
<1>6. ASSUME NEW k \in 1 .. Len(timer_list)
      PROVE  Remaining(timer_list, expires', k) <= left'[timer_list[k]] + Slack'
    <2>1. k \in 0 .. Len(timer_list)
        BY <1>5
    <2>2. Remaining(timer_list, expires, k) <= left[timer_list[k]] + Slack
        BY DEF DueInTime
    <2>3. left'[timer_list[k]] = left[timer_list[k]] /\ Slack' = Slack
        BY <1>2 DEF Slack
    <2> QED
        BY <1>4, <2>1, <2>2, <2>3
<1> QED
    BY <1>1, <1>6 DEF DueInTime

(* The invariant holds initially.                                          *)
LEMMA WaitInit == FutexInit => WaitInv
<1> SUFFICES ASSUME FutexInit PROVE WaitInv
    OBVIOUS
<1> USE DEF FutexInit, Init
<1>1. FutexTypeOK
    BY FutexAssumption, TimerAssumption DEF FutexTypeOK, TypeOK, PCs, FutexPCs, FutexArmed, Interruptible
<1>2. ArmedSoundly /\ DueInTime
    BY DEF ArmedSoundly, DueInTime
<1>3. ListInv /\ BucketInv
    BY DEF ListInv, BucketInv, Distinct, On
<1> QED
    BY <1>1, <1>2, <1>3 DEF WaitInv

(* do_sleep's steps keep the invariant.                                    *)
LEMMA SleepSteps ==
    ASSUME WaitInv, UNCHANGED futex, NEW p \in Procs,
           SleepStep(p) \/ \E n \in Times[p] : SleepCheck(p, n)
    PROVE  WaitInv'
<1> USE DEF WaitInv, FutexTypeOK, TypeOK, ArmedSoundly, ListInv, Armed, BucketInv, Waiting, futex, handler,
            timers, PCs, FutexPCs, FutexArmed, Interruptible
<1>1. ASSUME NEW n \in Times[p], SleepCheck(p, n) PROVE WaitInv'
    <2>1. n \in Nat /\ n > 0
        BY TimerAssumption
    <2>2. expires' \in [Procs -> Nat] /\ DueInTime'
        BY <1>1, <2>1, ElsewhereFacts DEF SleepCheck
    <2> QED
        BY <1>1, <2>1, <2>2, SMTT(60) DEF SleepCheck
<1>2. ASSUME SleepPublish(p) PROVE WaitInv'
    BY <1>2 DEF SleepPublish, DueInTime, Slack
<1>3. ASSUME SleepArm(p) PROVE WaitInv'
    <2>1. ~ On(timer_list, p) /\ expires[p] > 0 /\ add_timer(p) /\ tick_pc' = tick_pc
        BY <1>3 DEF SleepArm
    <2>2. /\ timer_list' \in Seq(Procs) /\ expires' \in [Procs -> Nat] /\ left' \in [Procs -> Nat]
          /\ Distinct(timer_list')
          /\ \A q : On(timer_list', q) <=> On(timer_list, q) \/ q = p
          /\ \A q \in Procs : q # p /\ ~ On(timer_list, q) => expires'[q] = expires[q]
        BY <2>1, AddTimerFacts
    <2>3. DueInTime'
        BY <2>1, AddTimerFacts DEF DueInTime, Slack
    <2>t. FutexTypeOK'
        BY <1>3, <2>2 DEF SleepArm
    <2>4. ArmedSoundly'
        <3>1. ASSUME NEW q \in Procs,
                     pc'[q] \in {"checked", "published", "checked_futex", "queued_futex"}
              PROVE  pc'[q] = pc[q] /\ expires'[q] = expires[q]
            <4>1. q # p /\ pc'[q] = pc[q]
                BY <1>3, <3>1 DEF SleepArm
            <4>2. ~ On(timer_list, q)
                BY <3>1, <4>1
            <4> QED
                BY <2>2, <4>1, <4>2
        <3> QED
            BY <1>3, <3>1 DEF SleepArm
    <2>5. ListInv' /\ BucketInv'
        BY <1>3, <2>2, SMTT(60) DEF SleepArm
    <2> QED
        BY <2>3, <2>4, <2>5, <2>t
<1>4. ASSUME SleepWoken(p) PROVE WaitInv'
    BY <1>4 DEF SleepWoken, DueInTime, Slack
<1>5. ASSUME SleepDisarm(p) PROVE WaitInv'
    <2>1. del_timer(p) /\ tick_pc' = tick_pc /\ left' = left
        BY <1>5 DEF SleepDisarm
    <2>2. /\ timer_list' \in Seq(Procs) /\ expires' \in [Procs -> Nat]
          /\ Distinct(timer_list')
          /\ \A q : On(timer_list', q) <=> On(timer_list, q) /\ q # p
          /\ \A q \in Procs : ~ On(timer_list, q) => expires'[q] = expires[q]
        BY <2>1, DelTimerFacts
    <2>3. DueInTime'
        BY <2>1, DelTimerFacts DEF DueInTime, Slack
    <2>t. FutexTypeOK'
        BY <1>5, <2>2 DEF SleepDisarm
    <2>4. ArmedSoundly'
        <3>1. ASSUME NEW q \in Procs,
                     pc'[q] \in {"checked", "published", "checked_futex", "queued_futex"}
              PROVE  pc'[q] = pc[q] /\ expires'[q] = expires[q]
            <4>1. q # p /\ pc'[q] = pc[q]
                BY <1>5, <3>1 DEF SleepDisarm
            <4>2. ~ On(timer_list, q)
                BY <3>1, <4>1
            <4> QED
                BY <2>2, <4>1, <4>2
        <3> QED
            BY <1>5, <3>1 DEF SleepDisarm
    <2>5. ListInv' /\ BucketInv'
        BY <1>5, <2>2 DEF SleepDisarm
    <2> QED
        BY <2>3, <2>4, <2>5, <2>t
<1>6. ASSUME SleepReturn(p) PROVE WaitInv'
    <2>2. expires' \in [Procs -> Nat] /\ DueInTime'
        BY <1>6, ElsewhereFacts, ZenonT(60) DEF SleepReturn
    <2> QED
        BY <1>6, <2>2 DEF SleepReturn
<1> QED
    BY <1>1, <1>2, <1>3, <1>4, <1>5, <1>6 DEF SleepStep
(* Signals, semaphore waits and the tick handler keep the invariant.       *)
LEMMA OtherSteps ==
    ASSUME WaitInv, UNCHANGED futex,
           \/ \E p \in Procs : Kill(p) \/ SignalHandled(p) \/ Down(p) \/ Up(p)
           \/ clock_tick \/ RunTimerList \/ TimerWake \/ TimerPanic
    PROVE  WaitInv'
<1> USE DEF WaitInv, FutexTypeOK, TypeOK, ArmedSoundly, ListInv, Armed, BucketInv, Waiting, futex, handler,
            timers, PCs, FutexPCs, FutexArmed, Interruptible
<1>1. ASSUME NEW p \in Procs, Kill(p) PROVE WaitInv'
    <2>w1. FutexTypeOK'
        BY <1>1, ZenonT(60) DEF Kill
    <2>w2. ArmedSoundly' /\ ListInv'
        BY <1>1 DEF Kill
    <2>w3. BucketInv'
        BY <1>1 DEF Kill
    <2>w4. DueInTime'
        BY <1>1 DEF Kill, DueInTime, Slack
    <2> QED
        BY <2>w1, <2>w2, <2>w3, <2>w4
<1>2. ASSUME NEW p \in Procs, SignalHandled(p) PROVE WaitInv'
    BY <1>2 DEF SignalHandled, DueInTime, Slack
<1>3. ASSUME NEW p \in Procs, Down(p) PROVE WaitInv'
    BY <1>3 DEF Down, DueInTime, Slack
<1>7. ASSUME NEW p \in Procs, Up(p) PROVE WaitInv'
    BY <1>7 DEF Up, DueInTime, Slack
<1>4. ASSUME clock_tick PROVE WaitInv'
    <2>1. \A q \in Procs : left'[q] \in Nat /\ left[q] <= left'[q] + 1
        BY <1>4 DEF clock_tick, Minus1
    <2>2. left' \in [Procs -> Nat]
        BY <1>4, <2>1 DEF clock_tick
    <2>3. ASSUME NEW k \in 1 .. Len(timer_list)
          PROVE  Remaining(timer_list, expires, k) <= left'[timer_list[k]] + 1
        <3>1. timer_list[k] \in Procs
            BY ElementOfSeq
        <3>2. expires \in [Procs -> Int] /\ k \in 0 .. Len(timer_list)
            BY LenProperties
        <3>3. Remaining(timer_list, expires, k) \in Int
            BY <3>2, RemRec
        <3>4. Remaining(timer_list, expires, k) <= left[timer_list[k]] + 0
            BY <1>4 DEF DueInTime, Slack, clock_tick
        <3> QED
            BY <2>1, <3>1, <3>3, <3>4, SMTT(60)
    <2>4. DueInTime'
        BY <1>4, <2>3 DEF DueInTime, Slack, clock_tick
    <2> QED
        BY <1>4, <2>2, <2>4 DEF clock_tick
<1>5. ASSUME RunTimerList PROVE WaitInv'
    <2>1. /\ timer_list' \in Seq(Procs) /\ expires' \in [Procs -> Nat]
          /\ tick_pc' \in {"idle", "ticked", "expired"} /\ hand' \in Procs \cup {None}
          /\ tick_pc' = "expired" => hand' \in Procs
          /\ Distinct(timer_list')
          /\ \A q : On(timer_list', q) => On(timer_list, q)
          /\ \A q \in Procs : ~ On(timer_list, q) => expires'[q] = expires[q]
          /\ DueInTime'
        BY <1>5, RunTimerListFacts
    <2>2. UNCHANGED <<pc, state, wait_state, sig, left>>
        BY <1>5 DEF RunTimerList
    <2>3. ArmedSoundly'
        <3>1. ASSUME NEW q \in Procs,
                     pc[q] \in {"checked", "published", "checked_futex", "queued_futex"}
              PROVE  expires'[q] = expires[q]
            BY <2>1, <3>1
        <3> QED
            BY <2>1, <2>2, <3>1
    <2>4. FutexTypeOK'
        BY <2>1, <2>2
    <2>5. ListInv' /\ BucketInv'
        BY <2>1, <2>2
    <2> QED
        BY <2>1, <2>3, <2>4, <2>5
<1>6. ASSUME TimerWake PROVE WaitInv'
    BY <1>6 DEF TimerWake, DueInTime, Slack
<1>8. ASSUME TimerPanic PROVE WaitInv'
    BY <1>8 DEF TimerPanic, DueInTime, Slack
<1> QED
    BY <1>1, <1>2, <1>3, <1>4, <1>5, <1>6, <1>7, <1>8

(* futex_wait's steps keep the invariant.                                  *)
LEMMA FutexSteps ==
    ASSUME WaitInv, NEW p \in Procs,
           FutexStep(p) \/ \E n \in Timeouts[p] : FutexCheck(p, n)
    PROVE  WaitInv'
<1> USE DEF WaitInv, FutexTypeOK, TypeOK, ArmedSoundly, ListInv, Armed, BucketInv, Waiting, futex, handler,
            timers, PCs, FutexPCs, FutexArmed, Interruptible
<1> USE DEF Goto, Awake
<1>1. ASSUME NEW n \in Timeouts[p], FutexCheck(p, n) PROVE WaitInv'
    <2>1. n \in Nat
        BY FutexAssumption
    <2>2. expires' \in [Procs -> Nat] /\ DueInTime'
        BY <1>1, <2>1, ElsewhereFacts DEF FutexCheck
    <2> QED
        BY <1>1, <2>1, <2>2, SMTT(60) DEF FutexCheck
<1>2. ASSUME FutexPublish(p), Expected PROVE WaitInv'
    <2>1. ~ On(bucket, p) /\ bucket' = Append(bucket, p)
        BY <1>2 DEF FutexPublish
    <2>2. /\ bucket' \in Seq(Procs) /\ Distinct(bucket')
          /\ \A q : On(bucket', q) <=> On(bucket, q) \/ q = p
        BY <2>1, AppendOn
    <2>e. /\ pc' = [pc EXCEPT ![p] = "queued_futex"] /\ state' = [state EXCEPT ![p] = "SLEEPING"]
          /\ wait_state' = [wait_state EXCEPT ![p] = "FUTEX"]
          /\ UNCHANGED <<expires, timed, timer_list, sig, handler, left, word, waker>>
          /\ pc[p] = "checked_futex"
        BY <1>2 DEF FutexPublish
    <2>3. FutexTypeOK'
        BY <2>2, <2>e
    <2>6. ArmedSoundly' /\ ListInv'
        BY <2>e
    <2>4. BucketInv'
        BY <1>2, <2>2, ZenonT(60) DEF FutexPublish
    <2>5. DueInTime'
        BY <1>2 DEF FutexPublish, DueInTime, Slack
    <2> QED
        BY <2>3, <2>4, <2>5, <2>6
<1>3. ASSUME FutexPublish(p), ~ Expected PROVE WaitInv'
    <2>1. expires' \in [Procs -> Nat] /\ DueInTime'
        <3>1. ~ On(timer_list, p) /\ 0 \in Nat
            BY <1>3 DEF FutexPublish
        <3>2. /\ expires' = [expires EXCEPT ![p] = 0] /\ timer_list' = timer_list
              /\ tick_pc' = tick_pc /\ left' = left
            BY <1>3 DEF FutexPublish
        <3> QED
            BY <3>1, <3>2, ElsewhereFacts
    <2>2. /\ pc' = [pc EXCEPT ![p] = "user"] /\ timed' = [timed EXCEPT ![p] = FALSE]
          /\ UNCHANGED <<bucket, state, wait_state, timer_list, sig, handler, left, word, waker>>
          /\ expires' = [expires EXCEPT ![p] = 0]
        BY <1>3 DEF FutexPublish
    <2>3. FutexTypeOK'
        BY <2>1, <2>2
    <2>4. ArmedSoundly' /\ ListInv' /\ BucketInv'
        BY <1>3, <2>2 DEF FutexPublish
    <2> QED
        BY <2>1, <2>3, <2>4
<1>4. ASSUME FutexArm(p) PROVE WaitInv'
    <2>0. CASE ~ timed[p]
        BY <1>4, <2>0 DEF FutexArm, DueInTime, Slack
    <2>e. CASE timed[p]
        <3>1. ~ On(timer_list, p) /\ expires[p] > 0 /\ add_timer(p) /\ tick_pc' = tick_pc
            BY <1>4, <2>e DEF FutexArm
        <3>2. /\ timer_list' \in Seq(Procs) /\ expires' \in [Procs -> Nat] /\ left' \in [Procs -> Nat]
              /\ Distinct(timer_list')
              /\ \A q : On(timer_list', q) <=> On(timer_list, q) \/ q = p
              /\ \A q \in Procs : q # p /\ ~ On(timer_list, q) => expires'[q] = expires[q]
            BY <3>1, AddTimerFacts, SMTT(60)
        <3>3. DueInTime'
            BY <3>1, AddTimerFacts DEF DueInTime, Slack
        <3>t. FutexTypeOK'
            BY <1>4, <3>2 DEF FutexArm
        <3>4. ArmedSoundly'
            <4>1. ASSUME NEW q \in Procs,
                         pc'[q] \in {"checked", "published", "checked_futex", "queued_futex"}
                  PROVE  pc'[q] = pc[q] /\ expires'[q] = expires[q]
                <5>1. q # p /\ pc'[q] = pc[q]
                    BY <1>4, <4>1 DEF FutexArm
                <5>2. ~ On(timer_list, q)
                    BY <4>1, <5>1
                <5> QED
                    BY <3>2, <5>1, <5>2
            <4> QED
                BY <1>4, <4>1 DEF FutexArm
        <3>5. ListInv' /\ BucketInv'
            BY <1>4, <2>e, <3>2, SMTT(60) DEF FutexArm
        <3> QED
            BY <3>3, <3>4, <3>5, <3>t
    <2> QED
        BY <2>0, <2>e
<1>m. ASSUME NEW c \in {"futex", "woken_futex"}, pc[p] \in {"armed_futex", "futex"},
             pc' = [pc EXCEPT ![p] = c], UNCHANGED <<timers, sig, handler, left, futex>>,
             state' \in [Procs -> {"RUNNABLE", "SLEEPING"}],
             wait_state' \in [Procs -> {"0", "KSEM"} \cup Interruptible]
      PROVE  WaitInv'
    <2>1. FutexTypeOK'
        BY <1>m
    <2>2. ArmedSoundly' /\ ListInv'
        BY <1>m
    <2>3. BucketInv'
        BY <1>m
    <2>4. DueInTime'
        BY <1>m DEF DueInTime, Slack
    <2> QED
        BY <2>1, <2>2, <2>3, <2>4
<1>5. ASSUME FutexSleep(p) PROVE WaitInv'
    <2>1. CASE sig[p]
        <3>1. /\ pc' = [pc EXCEPT ![p] = "woken_futex"] /\ pc[p] = "armed_futex"
              /\ UNCHANGED <<timers, sig, handler, left, futex>>
            BY <1>5, <2>1 DEF FutexSleep
        <3>2. state' = [state EXCEPT ![p] = "RUNNABLE"] /\ wait_state' = [wait_state EXCEPT ![p] = "0"]
            BY <1>5, <2>1 DEF FutexSleep
        <3>3. state' \in [Procs -> {"RUNNABLE", "SLEEPING"}]
            BY <3>2
        <3>4. wait_state' \in [Procs -> {"0", "KSEM"} \cup Interruptible]
            BY <3>2
        <3> QED
            BY <1>m, <3>1, <3>3, <3>4
    <2>2. CASE ~ sig[p]
        <3>1. /\ pc' = [pc EXCEPT ![p] = "futex"] /\ pc[p] = "armed_futex"
              /\ UNCHANGED <<timers, sig, handler, left, futex, state, wait_state>>
            BY <1>5, <2>2 DEF FutexSleep
        <3> QED
            BY <1>m, <3>1
    <2> QED
        BY <2>1, <2>2
<1>9. ASSUME FutexWoken(p) PROVE WaitInv'
    <2>1. /\ pc' = [pc EXCEPT ![p] = "woken_futex"] /\ pc[p] = "futex"
          /\ UNCHANGED <<timers, sig, handler, left, futex, state, wait_state>>
        BY <1>9 DEF FutexWoken
    <2> QED
        BY <1>m, <2>1
<1>6. ASSUME FutexDisarm(p) PROVE WaitInv'
    <2>0. CASE ~ timed[p]
        BY <1>6, <2>0 DEF FutexDisarm, DueInTime, Slack
    <2>e. CASE timed[p]
        <3>1. del_timer(p) /\ tick_pc' = tick_pc /\ left' = left
            BY <1>6, <2>e DEF FutexDisarm
        <3>2. /\ timer_list' \in Seq(Procs) /\ expires' \in [Procs -> Nat]
              /\ Distinct(timer_list')
              /\ \A q : On(timer_list', q) <=> On(timer_list, q) /\ q # p
              /\ \A q \in Procs : ~ On(timer_list, q) => expires'[q] = expires[q]
            BY <3>1, DelTimerFacts
        <3>3. DueInTime'
            BY <3>1, DelTimerFacts DEF DueInTime, Slack
        <3>t. FutexTypeOK'
            BY <1>6, <3>2 DEF FutexDisarm
        <3>4. ArmedSoundly'
            <4>1. ASSUME NEW q \in Procs,
                         pc'[q] \in {"checked", "published", "checked_futex", "queued_futex"}
                  PROVE  pc'[q] = pc[q] /\ expires'[q] = expires[q]
                <5>1. q # p /\ pc'[q] = pc[q]
                    BY <1>6, <4>1 DEF FutexDisarm
                <5>2. ~ On(timer_list, q)
                    BY <4>1, <5>1
                <5> QED
                    BY <3>2, <5>1, <5>2
            <4> QED
                BY <1>6, <4>1 DEF FutexDisarm
        <3>5. ListInv' /\ BucketInv'
            BY <1>6, <2>e, <3>2 DEF FutexDisarm
        <3> QED
            BY <3>3, <3>4, <3>5, <3>t
    <2> QED
        BY <2>0, <2>e
<1>7. ASSUME FutexUnlink(p) PROVE WaitInv'
    <2>1. /\ bucket' \in Seq(Procs) /\ Distinct(bucket')
          /\ \A q : On(bucket', q) <=> On(bucket, q) /\ q # p
        <3>1. CASE ~ On(bucket, p)
            <4>1. bucket' = bucket
                BY <1>7, <3>1 DEF FutexUnlink, Unqueued, InBucket, On
            <4> QED
                BY <3>1, <4>1
        <3>2. CASE On(bucket, p)
            <4>1. bucket' = RemoveAt(bucket, Index(bucket, p))
                BY <1>7, <3>2 DEF FutexUnlink, Unqueued, InBucket, On
            <4>2. Index(bucket, p) \in 1 .. Len(bucket) /\ bucket[Index(bucket, p)] = p
                BY <3>2 DEF Index, On
            <4>3. RemoveAt(bucket, Index(bucket, p)) \in Seq(Procs)
                BY <4>2, RemoveAtProps
            <4> QED
                BY <4>1, <4>2, <4>3, RemoveAtOn
        <3> QED
            BY <3>1, <3>2
    <2>2. FutexTypeOK' /\ ArmedSoundly' /\ ListInv'
        BY <1>7, <2>1 DEF FutexUnlink
    <2>3. BucketInv'
        BY <1>7, <2>1 DEF FutexUnlink
    <2>4. DueInTime'
        BY <1>7 DEF FutexUnlink, DueInTime, Slack
    <2> QED
        BY <2>2, <2>3, <2>4
<1>8. ASSUME FutexReturn(p) PROVE WaitInv'
    <2>1. expires' \in [Procs -> Nat] /\ DueInTime'
        BY <1>8, ElsewhereFacts, ZenonT(60) DEF FutexReturn
    <2> QED
        BY <1>8, <2>1 DEF FutexReturn
<1> QED
    BY <1>1, <1>2, <1>3, <1>4, <1>5, <1>6, <1>7, <1>8, <1>9 DEF FutexStep

(* futex_wake's steps keep the invariant.                                  *)
LEMMA WakerSteps ==
    ASSUME WaitInv, StoreWord \/ WakePop \/ WakeProc
    PROVE  WaitInv'
<1> USE DEF WaitInv, FutexTypeOK, TypeOK, ArmedSoundly, ListInv, Armed, BucketInv, Waiting, futex, handler,
            timers, PCs, FutexPCs, FutexArmed, Interruptible
<1> USE DEF vars
<1>1. ASSUME StoreWord PROVE WaitInv'
    <2>w0. /\ word' \in {0, 1} /\ UNCHANGED <<vars, bucket, timed>>
           /\ waker' = [waker EXCEPT !.at = IF word = 0 THEN "loop" ELSE "idle"]
        BY <1>1 DEF StoreWord
    <2>w5. waker' \in [at : {"idle", "loop", "wake"}, hand : Procs \cup {None}, woken : 0 .. COUNT]
        BY <2>w0
    <2>w1. FutexTypeOK'
        BY <2>w0, <2>w5
    <2>w2. ArmedSoundly' /\ ListInv'
        BY <1>1 DEF StoreWord
    <2>w3. BucketInv'
        BY <1>1 DEF StoreWord
    <2>w4. DueInTime'
        BY <1>1 DEF StoreWord, DueInTime, Slack
    <2> QED
        BY <2>w1, <2>w2, <2>w3, <2>w4
<1>2. ASSUME WakePop PROVE WaitInv'
    <2>0. UNCHANGED <<vars, timed, word>>
        BY <1>2 DEF WakePop
    <2>d. DueInTime'
        BY <2>0 DEF DueInTime, Slack
    <2>1. CASE bucket = <<>> \/ waker.woken = COUNT
        BY <1>2, <2>0, <2>1, <2>d, FutexAssumption DEF WakePop
    <2>2. CASE ~ (bucket = <<>> \/ waker.woken = COUNT)
        <3>1. /\ bucket' \in Seq(Procs) /\ Distinct(bucket')
              /\ \A q : On(bucket', q) => On(bucket, q)
              /\ bucket[1] \in Procs
            <4>1. bucket' = Tail(bucket) /\ bucket # <<>>
                BY <1>2, <2>2 DEF WakePop
            <4> QED
                BY <4>1, TailOn
        <3>2. waker' = [waker EXCEPT !.at = "wake", !.hand = bucket[1]]
            BY <1>2, <2>2 DEF WakePop
        <3>3. FutexTypeOK'
            BY <2>0, <3>1, <3>2
        <3>4. ArmedSoundly' /\ ListInv' /\ BucketInv'
            BY <2>0, <2>2, <3>1, <3>2, FutexAssumption, TimerAssumption
        <3> QED
            BY <2>d, <3>3, <3>4
    <2> QED
        BY <2>1, <2>2
<1>3. ASSUME WakeProc PROVE WaitInv'
    <2>1. waker.hand \in Procs /\ waker.woken + 1 \in 0 .. COUNT
        BY <1>3, FutexAssumption DEF WakeProc
    <2>w1. FutexTypeOK'
        BY <1>3, <2>1, TimerAssumption, ZenonT(60) DEF WakeProc, Awake
    <2>w2. ArmedSoundly' /\ ListInv'
        BY <1>3, <2>1, TimerAssumption DEF WakeProc, Awake
    <2>w3. BucketInv'
        BY <1>3, <2>1, TimerAssumption DEF WakeProc, Awake
    <2>w4. DueInTime'
        BY <1>3, <2>1, TimerAssumption DEF WakeProc, Awake, DueInTime, Slack
    <2> QED
        BY <2>w1, <2>w2, <2>w3, <2>w4
<1> QED
    BY <1>1, <1>2, <1>3

(* The invariant holds in every state that the kernel reaches.             *)
LEMMA WaitInvariant == FutexSpec => []WaitInv
<1>1. ASSUME WaitInv, [FutexNext]_allvars PROVE WaitInv'
    <2>1. CASE UNCHANGED allvars
        BY <1>1, <2>1 DEF allvars, vars, futex, timers, handler, WaitInv, FutexTypeOK, TypeOK, ArmedSoundly,
            ListInv, Armed, DueInTime, Slack, BucketInv, Waiting
    <2>2. CASE FutexNext
        BY <1>1, <2>2, SleepSteps, OtherSteps, FutexSteps, WakerSteps DEF FutexNext, Next
    <2> QED
        BY <1>1, <2>1, <2>2
<1> QED
    BY WaitInit, <1>1, PTL DEF FutexSpec-----------------------------------------------------------------------------
(* Every variable of the timers and of the futex keeps its type: no delta  *)
(* of the timer list becomes negative, and the waker never wakes more than *)
(* its count.                                                              *)
THEOREM WaitsTyped == FutexSpec => []FutexTypeOK
<1>1. WaitInv => FutexTypeOK
    BY DEF WaitInv
<1> QED
    BY <1>1, WaitInvariant, PTL

(* The timer list links no timer whose do_sleep or futex_wait has disarmed *)
(* it or returned, and links none twice.                                   *)
THEOREM TimersLive == FutexSpec => []LinkedTimersLive
<1>1. ASSUME WaitInv PROVE LinkedTimersLive
    <2>1. \A k \in 1 .. Len(timer_list) : timer_list[k] \in Procs
        BY <1>1, ElementOfSeq DEF WaitInv, FutexTypeOK, TypeOK
    <2> QED
        BY <1>1, <2>1 DEF WaitInv, ListInv, Armed, LinkedTimersLive, Distinct, On
<1> QED
    BY <1>1, WaitInvariant, PTL

(* add_timer, del_timer and run_timer_list lose no tick: between two ticks *)
(* no linked timer is further from its expiry than the tick it was armed   *)
(* for.                                                                    *)
THEOREM TimersInTime == FutexSpec => []NeverLate
<1>1. ASSUME WaitInv, tick_pc = "idle", NEW k \in 1 .. Len(timer_list)
      PROVE  Remaining(timer_list, expires, k) <= left[timer_list[k]]
    <2>1. Remaining(timer_list, expires, k) <= left[timer_list[k]] + 0
        BY <1>1 DEF WaitInv, DueInTime, Slack
    <2>2. timer_list[k] \in Procs
        BY <1>1, ElementOfSeq DEF WaitInv, FutexTypeOK, TypeOK
    <2>3. left[timer_list[k]] \in Nat
        BY <1>1, <2>2 DEF WaitInv, FutexTypeOK, TypeOK
    <2> QED
        BY <2>1, <2>3
<1>2. WaitInv => NeverLate
    BY <1>1 DEF NeverLate
<1> QED
    BY <1>2, WaitInvariant, PTL

(* The bucket links no waiter whose futex_wait is over, and none twice.    *)
THEOREM BucketLive == FutexSpec => []WaitersLive
<1>1. ASSUME WaitInv PROVE WaitersLive
    <2>1. \A k \in 1 .. Len(bucket) : bucket[k] \in Procs
        BY <1>1, ElementOfSeq DEF WaitInv, FutexTypeOK
    <2> QED
        BY <1>1, <2>1 DEF WaitInv, BucketInv, Waiting, WaitersLive, Distinct, On
<1> QED
    BY <1>1, WaitInvariant, PTL
-----------------------------------------------------------------------------
(* No wake is lost.                                                        *)

(* A sleeping waiter is in the bucket or in the waker's hand, from its     *)
(* publication on.                                                         *)
Asleep(p) == pc[p] \in {"queued_futex", "armed_futex", "futex"} /\ state[p] = "SLEEPING"
Findable == \A p \in Procs : Asleep(p) => On(bucket, p) \/ waker.hand = p

(* Nobody queues up while the word is 1, so that a waker who may wake as   *)
(* many as there are processes empties the bucket.                         *)
Draining ==
    /\ waker.at # "idle" => word = 1
    /\ waker.at = "idle" => waker.woken = 0
    /\ waker.at = "idle" /\ word = 1 => bucket = <<>>
    /\ waker.at # "idle" =>
        waker.woken + Len(bucket) + (IF waker.at = "wake" THEN 1 ELSE 0) <= Cardinality(Procs)

(* The steps of the timers and of do_sleep leave the futex alone.          *)
LEMMA FindableTimerSteps ==
    ASSUME WaitInv, Findable, Next, UNCHANGED futex
    PROVE  Findable'
<1> SUFFICES ASSUME NEW q \in Procs, Asleep(q)' PROVE Asleep(q)
    BY DEF Findable, futex
<1> USE DEF WaitInv, FutexTypeOK, TypeOK, Asleep
<1>1. ASSUME NEW p \in Procs, (\E n \in Times[p] : SleepCheck(p, n)) \/ SleepStep(p) PROVE Asleep(q)
    BY <1>1 DEF SleepCheck, SleepStep, SleepPublish, SleepArm, SleepWoken, SleepDisarm, SleepReturn
<1>2. ASSUME NEW p \in Procs, Kill(p) \/ SignalHandled(p) PROVE Asleep(q)
    BY <1>2 DEF Kill, SignalHandled
<1>3. ASSUME NEW p \in Procs, Down(p) \/ Up(p) PROVE Asleep(q)
    BY <1>3 DEF Down, Up
<1>4. ASSUME clock_tick \/ RunTimerList \/ TimerWake \/ TimerPanic PROVE Asleep(q)
    BY <1>4 DEF clock_tick, RunTimerList, TimerWake, TimerPanic
<1> QED
    BY <1>1, <1>2, <1>3, <1>4 DEF Next
(* The steps of futex_wait and futex_wake keep every sleeper findable.     *)
LEMMA FindableFutexSteps ==
    ASSUME WaitInv, Findable, Draining,
           \/ \E p \in Procs : FutexStep(p) \/ \E n \in Timeouts[p] : FutexCheck(p, n)
           \/ StoreWord \/ WakePop \/ WakeProc
    PROVE  Findable'
<1> USE DEF WaitInv, FutexTypeOK, TypeOK
<1>k. ASSUME NEW q \in Procs, Asleep(q) PROVE On(bucket, q) \/ waker.hand = q
    BY <1>k DEF Findable
<1> SUFFICES ASSUME NEW q \in Procs, Asleep(q)' PROVE On(bucket', q) \/ waker'.hand = q
    BY DEF Findable
<1>1. ASSUME NEW p \in Procs, FutexPublish(p) PROVE On(bucket', q) \/ waker'.hand = q
    <2>1. CASE Expected
        <3>1. /\ bucket' = Append(bucket, p) /\ waker' = waker /\ pc[p] = "checked_futex"
              /\ pc' = [pc EXCEPT ![p] = "queued_futex"] /\ state' = [state EXCEPT ![p] = "SLEEPING"]
            BY <1>1, <2>1 DEF FutexPublish, Goto
        <3>2. ~ On(bucket, p)
            BY <3>1 DEF BucketInv, Waiting, FutexArmed
        <3>3. \A r : On(bucket', r) <=> On(bucket, r) \/ r = p
            BY <3>1, <3>2, AppendOn DEF BucketInv
        <3>4. q = p \/ Asleep(q)
            BY <3>1 DEF Asleep
        <3> QED
            BY <1>k, <3>1, <3>3, <3>4
    <2>2. CASE ~ Expected
        <3>1. Asleep(q) /\ bucket' = bucket /\ waker' = waker
            BY <1>1, <2>2 DEF FutexPublish, Goto, Asleep
        <3> QED
            BY <1>k, <3>1
    <2> QED
        BY <2>1, <2>2
<1>2. ASSUME NEW p \in Procs,
             \/ \E n \in Timeouts[p] : FutexCheck(p, n)
             \/ FutexArm(p) \/ FutexSleep(p) \/ FutexWoken(p) \/ FutexDisarm(p) \/ FutexReturn(p)
      PROVE  On(bucket', q) \/ waker'.hand = q
    <2>1. bucket' = bucket /\ waker' = waker
        BY <1>2 DEF FutexCheck, FutexArm, FutexSleep, FutexWoken, FutexDisarm, FutexReturn, futex
    <2>2. Asleep(q)
        BY <1>2 DEF FutexCheck, FutexArm, FutexSleep, FutexWoken, FutexDisarm, FutexReturn, Goto, Awake, Asleep
    <2> QED
        BY <1>k, <2>1, <2>2
<1>3. ASSUME NEW p \in Procs, FutexUnlink(p) PROVE On(bucket', q) \/ waker'.hand = q
    <2>1. /\ bucket' = Unqueued(p) /\ waker' = waker /\ state' = state
          /\ pc[p] = "disarmed_futex" /\ pc' = [pc EXCEPT ![p] = "done_futex"]
        BY <1>3 DEF FutexUnlink, Goto
    <2>2. Asleep(q) /\ q # p
        BY <2>1 DEF Asleep
    <2>3. On(bucket, q) => On(bucket', q)
        <3>1. CASE ~ On(bucket, p)
            BY <2>1, <3>1 DEF Unqueued, InBucket, On
        <3>2. CASE On(bucket, p)
            <4>1. bucket' = RemoveAt(bucket, Index(bucket, p))
                BY <2>1, <3>2 DEF Unqueued, InBucket, On
            <4>2. Index(bucket, p) \in 1 .. Len(bucket) /\ bucket[Index(bucket, p)] = p
                BY <3>2 DEF Index, On
            <4>3. \A r : On(RemoveAt(bucket, Index(bucket, p)), r) <=> On(bucket, r) /\ r # bucket[Index(bucket, p)]
                BY <4>2, RemoveAtOn DEF BucketInv
            <4> QED
                BY <2>2, <4>1, <4>2, <4>3
        <3> QED
            BY <3>1, <3>2
    <2> QED
        BY <1>k, <2>1, <2>2, <2>3
<1>4. ASSUME StoreWord PROVE On(bucket', q) \/ waker'.hand = q
    <2>1. bucket' = bucket /\ waker'.hand = waker.hand /\ Asleep(q)
        BY <1>4 DEF StoreWord, vars, Asleep
    <2> QED
        BY <1>k, <2>1
<1>5. ASSUME WakePop PROVE On(bucket', q) \/ waker'.hand = q
    <2>0. Asleep(q) /\ waker.hand = None /\ q # None
        BY <1>5, TimerAssumption DEF WakePop, vars, Asleep, BucketInv
    <2>1. CASE bucket = <<>> \/ waker.woken = COUNT
        BY <1>5, <1>k, <2>0, <2>1 DEF WakePop
    <2>2. CASE ~ (bucket = <<>> \/ waker.woken = COUNT)
        <3>1. bucket' = Tail(bucket) /\ waker'.hand = bucket[1] /\ bucket # <<>>
            BY <1>5, <2>2 DEF WakePop
        <3>2. \A r : On(Tail(bucket), r) <=> On(bucket, r) /\ r # bucket[1]
            BY <3>1, TailOn DEF BucketInv
        <3> QED
            BY <1>k, <2>0, <3>1, <3>2
    <2> QED
        BY <2>1, <2>2
<1>6. ASSUME WakeProc PROVE On(bucket', q) \/ waker'.hand = q
    <2>1. Asleep(q) /\ q # waker.hand /\ bucket' = bucket
        BY <1>6 DEF WakeProc, Awake, Asleep
    <2> QED
        BY <1>k, <2>1
<1> QED
    BY <1>1, <1>2, <1>3, <1>4, <1>5, <1>6 DEF FutexStep

(* The waker drains the bucket.                                            *)
LEMMA DrainingSteps ==
    ASSUME IsFiniteSet(Procs), COUNT >= Cardinality(Procs), WaitInv, Draining, [FutexNext]_allvars
    PROVE  Draining'
<1> DEFINE N == Cardinality(Procs)
           Inside == IF waker.at = "wake" THEN 1 ELSE 0
<1>1. /\ bucket \in Seq(Procs) /\ Distinct(bucket) /\ word \in {0, 1} /\ N \in Nat /\ COUNT \in Nat
      /\ waker \in [at : {"idle", "loop", "wake"}, hand : Procs \cup {None}, woken : 0 .. COUNT]
      /\ Len(bucket) \in Nat /\ Len(bucket) <= N
    BY LenProperties, DistinctLength, FS_CardinalityType, FutexAssumption DEF WaitInv, FutexTypeOK, BucketInv
<1>2. ASSUME bucket' = bucket, waker' = waker, word' = word PROVE Draining'
    BY <1>2 DEF Draining
<1>3. ASSUME NEW p \in Procs, FutexPublish(p) PROVE Draining'
    <2>1. CASE Expected
        <3>1. word = 0 /\ word' = 0 /\ waker' = waker /\ waker.at = "idle"
            BY <1>3, <2>1 DEF FutexPublish, Expected, Draining
        <3> QED
            BY <3>1 DEF Draining
    <2>2. CASE ~ Expected
        BY <1>2, <1>3, <2>2 DEF FutexPublish
    <2> QED
        BY <2>1, <2>2
<1>4. ASSUME NEW p \in Procs, FutexUnlink(p) PROVE Draining'
    <2>1. waker' = waker /\ word' = word /\ bucket' = Unqueued(p)
        BY <1>4 DEF FutexUnlink
    <2>2. /\ Len(bucket') \in Nat /\ Len(bucket') <= Len(bucket)
          /\ bucket = <<>> => bucket' = <<>>
        <3>1. CASE ~ On(bucket, p)
            BY <1>1, <2>1, <3>1 DEF Unqueued, InBucket, On
        <3>2. CASE On(bucket, p)
            <4>1. bucket' = RemoveAt(bucket, Index(bucket, p))
                BY <2>1, <3>2 DEF Unqueued, InBucket, On
            <4>2. Index(bucket, p) \in 1 .. Len(bucket)
                BY <3>2 DEF Index, On
            <4>3. Len(RemoveAt(bucket, Index(bucket, p))) = Len(bucket) - 1
                BY <1>1, <4>2, RemoveAtProps
            <4>4. bucket # <<>> /\ Len(bucket) > 0
                BY <1>1, <4>2
            <4> QED
                BY <1>1, <4>1, <4>3, <4>4
        <3> QED
            BY <3>1, <3>2
    <2> QED
        BY <1>1, <2>1, <2>2 DEF Draining
<1>5. ASSUME StoreWord PROVE Draining'
    <2>1. /\ bucket' = bucket /\ waker.at = "idle" /\ word' = 1 - word
          /\ waker'.at = IF word = 0 THEN "loop" ELSE "idle"
          /\ waker'.woken = waker.woken
        BY <1>1, <1>5 DEF StoreWord
    <2>2. waker.woken = 0
        BY <2>1 DEF Draining
    <2>3. CASE word = 0
        BY <1>1, <2>1, <2>2, <2>3 DEF Draining
    <2>4. CASE word = 1
        BY <1>1, <2>1, <2>2, <2>4 DEF Draining
    <2> QED
        BY <1>1, <2>3, <2>4
<1>6. ASSUME WakePop PROVE Draining'
    <2>0. waker.at = "loop" /\ word' = word /\ word = 1 /\ waker.woken + Len(bucket) <= N /\ waker.woken \in Nat
        BY <1>1, <1>6 DEF WakePop, Draining
    <2>1. CASE bucket = <<>> \/ waker.woken = COUNT
        <3>1. waker' = [at |-> "idle", hand |-> None, woken |-> 0] /\ bucket' = bucket
            BY <1>6, <2>1 DEF WakePop
        <3>2. Len(bucket) = 0 => bucket = <<>>
            BY <1>1, EmptySeq
        <3>3. bucket = <<>>
            BY <1>1, <2>0, <2>1, <3>2
        <3> QED
            BY <3>1, <3>3 DEF Draining
    <2>2. CASE ~ (bucket = <<>> \/ waker.woken = COUNT)
        <3>1. bucket' = Tail(bucket) /\ waker' = [waker EXCEPT !.at = "wake", !.hand = bucket[1]]
            BY <1>6, <2>2 DEF WakePop
        <3>2. Len(Tail(bucket)) = Len(bucket) - 1
            BY <1>1, <2>2, TailOn
        <3>3. waker'.at = "wake" /\ waker'.woken = waker.woken
            BY <1>1, <3>1
        <3>4. Len(bucket') = Len(bucket) - 1
            BY <3>1, <3>2
        <3> HIDE DEF N
        <3>5. waker'.woken + Len(bucket') + 1 <= N
            BY <1>1, <2>0, <3>3, <3>4
        <3>6. word' = 1
            BY <2>0
        <3> QED
            BY <3>3, <3>5, <3>6 DEF Draining, N
    <2> QED
        BY <2>1, <2>2
<1>7. ASSUME WakeProc PROVE Draining'
    <2>1. /\ waker.at = "wake" /\ waker'.at = "loop" /\ waker'.woken = waker.woken + 1
          /\ bucket' = bucket /\ word' = word /\ waker.woken \in Nat
        BY <1>1, <1>7 DEF WakeProc
    <2>2. word = 1 /\ waker.woken + Len(bucket) + 1 <= N
        BY <2>1 DEF Draining
    <2> QED
        BY <1>1, <2>1, <2>2 DEF Draining
<1>8. ASSUME NEW p \in Procs,
             \/ \E n \in Timeouts[p] : FutexCheck(p, n)
             \/ FutexArm(p) \/ FutexSleep(p) \/ FutexWoken(p) \/ FutexDisarm(p) \/ FutexReturn(p)
      PROVE  Draining'
    BY <1>2, <1>8 DEF FutexCheck, FutexArm, FutexSleep, FutexWoken, FutexDisarm, FutexReturn, futex
<1>9. ASSUME UNCHANGED futex PROVE Draining'
    BY <1>2, <1>9 DEF futex
<1> QED
    BY <1>3, <1>4, <1>5, <1>6, <1>7, <1>8, <1>9 DEF FutexNext, FutexStep, allvars

(* futex.c: a wake cannot be lost between the comparison and the queue     *)
(* insertion.  Of any finite number of processes, if the waker's count     *)
(* covers them all, none is left asleep on a word that has changed.        *)
THEOREM WakesNotLost ==
    ASSUME IsFiniteSet(Procs), COUNT >= Cardinality(Procs)
    PROVE  FutexSpec => []NoLostFutexWake
<1>1. FutexInit => Findable /\ Draining
    BY DEF FutexInit, Init, Findable, Draining, Asleep
<1>2. ASSUME WaitInv, Findable, Draining, [FutexNext]_allvars PROVE Findable' /\ Draining'
    <2>1. Draining'
        BY <1>2, DrainingSteps
    <2>2. ASSUME UNCHANGED allvars PROVE Findable'
        BY <1>2, <2>2 DEF allvars, vars, futex, Findable, Asleep
    <2>3. ASSUME FutexNext PROVE Findable'
        BY <1>2, <2>3, FindableTimerSteps, FindableFutexSteps DEF FutexNext
    <2> QED
        BY <1>2, <2>1, <2>2, <2>3
<1>3. ASSUME WaitInv, Findable, Draining PROVE NoLostFutexWake
    <2> SUFFICES ASSUME NEW p \in Procs, pc[p] = "futex", state[p] = "SLEEPING"
                 PROVE  (InBucket(p) \/ waker.hand = p) /\ (word = 1 => waker.at # "idle")
        BY DEF NoLostFutexWake
    <2>1. On(bucket, p) \/ waker.hand = p
        BY <1>3 DEF Findable, Asleep
    <2>2. ASSUME word = 1, waker.at = "idle" PROVE FALSE
        <3>1. bucket = <<>> /\ waker.hand = None
            BY <1>3, <2>2 DEF Draining, WaitInv, BucketInv
        <3>2. ~ On(bucket, p)
            BY <3>1 DEF On
        <3> QED
            BY <2>1, <3>1, <3>2, TimerAssumption
    <2> QED
        BY <2>1, <2>2 DEF InBucket, On
<1> QED
    BY <1>1, <1>2, <1>3, WaitInvariant, PTL DEF FutexSpec
=============================================================================
